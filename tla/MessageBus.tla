------------------------------ MODULE MessageBus ------------------------------
(***************************************************************************)
(* The two buses of src/distributed/message-bus.js: LocalMessageBus calls  *)
(* the handlers of its own process, RedisMessageBus publishes on channels  *)
(* of Redis to which several processes subscribe.  A delivery may be lost, *)
(* and after a reconnect it may come twice; a process remembers the        *)
(* correlation ids it has handled, for a time and up to a number.          *)
(*                                                                         *)
(* A call of request or publish is named by its correlation id.  What      *)
(* publish sends to one agent over Redis goes to a channel that nothing    *)
(* subscribes to, so only broadcasts of publish are delivered.             *)
(*                                                                         *)
(* request makes its entry and its timer, then awaits publish, and only    *)
(* then the promise of the entry.  A response, the timer or close may      *)
(* settle the promise before publish has returned; when publish fails, the *)
(* caller has its error and the entry is left to its timer, whose          *)
(* rejection nobody handles.                                               *)
(*                                                                         *)
(* An operator named Bug... is a plausible wrong version of the definition *)
(* that follows it and is used nowhere in the specification.               *)
(***************************************************************************)
EXTENDS Naturals, FiniteSets, SeqFilters, SequencesExt

CONSTANTS
  BusProcs,        \* the processes, each with a bus
  BusHandlers,     \* the agents registered on each, in order of registration
  BusCalls,        \* correlation ids
  BusTo,           \* the agent a request is for, or Everyone for a broadcast
  Everyone,        \* "*"
  BusHome,         \* the process that calls
  MaxProcessed,    \* _PROCESSED_IDS_MAX
  RemoveCount,     \* a fifth of it
  MaxRepeats       \* bound: repeated deliveries

ASSUME BusAssumption ==
  /\ MaxProcessed \in Nat \ {0} /\ RemoveCount \in 0 .. MaxProcessed /\ MaxRepeats \in Nat
  /\ BusHome \in [BusCalls -> BusProcs] /\ Everyone \notin BusCalls

VARIABLES
  busMode,       \* "local" or "redis"
  busRegistered, \* handlers of each process
  busCall,       \* "new"; "publishing", "published" while publish is awaited,
                 \* before and after Redis has sent it; "waiting" for the answer;
                 \* "sent", "resolved", "rejected"
  busPromise,    \* the promise of a request over Redis: "none"; "open" while it
                 \* is in pendingRequests, its timer set; "resolved", "rejected"
  busNet,        \* deliveries under way: what = "call" or "response", id, at
  busProcessed,  \* _processedIds of each process, oldest first
  busRunning,    \* handlers under way: id, at, agent
  busExecuted,   \* per process, the ids it has handled, in order; Everyone in
                 \* the place of those whose entry has expired (history)
  busRepeats     \* repeated deliveries so far

busVars == <<busMode, busRegistered, busCall, busPromise, busNet, busProcessed, busRunning,
             busExecuted, busRepeats>>

IsRequest(id) == BusTo[id] # Everyone

BusInit ==
  /\ busMode \in {"local", "redis"}
  /\ busRegistered = BusHandlers
  /\ busCall = [id \in BusCalls |-> "new"]
  /\ busPromise = [id \in BusCalls |-> "none"]
  /\ busNet = {} /\ busRunning = {}
  /\ busProcessed = [p \in BusProcs |-> <<>>]
  /\ busExecuted = [p \in BusProcs |-> <<>>]
  /\ busRepeats = 0

----------------------------------------------------------------------------
\* The local bus: a request without a handler is refused, a broadcast goes to
\* every handler.  (Its sender, which is left out there, is no handler here.)
CallLocally(id) ==
  LET p == BusHome[id]
      agents == {a \in ToSet(busRegistered[p]) : BusTo[id] \in {a, Everyone}}
  IN  /\ busMode = "local" /\ busCall[id] = "new"
      /\ busRunning' = busRunning \cup {[id |-> id, at |-> p, agent |-> a] : a \in agents}
      /\ busCall' = [busCall EXCEPT ![id] =
            IF agents = {} THEN IF IsRequest(id) THEN "rejected" ELSE "sent"
            ELSE IF IsRequest(id) THEN "waiting" ELSE "sent"]
      /\ busExecuted' = [busExecuted EXCEPT ![p] = IF agents = {} THEN @ ELSE Append(@, id)]
      /\ UNCHANGED <<busMode, busRegistered, busPromise, busNet, busProcessed, busRepeats>>

\* Who has subscribed to the channel of the call when it is published.
Subscribers(id) ==
  {p \in BusProcs : IsRequest(id) => Contains(busRegistered[p], BusTo[id])}

CallOverRedis(id) ==
  /\ busMode = "redis" /\ busCall[id] = "new"
  /\ busCall' = [busCall EXCEPT ![id] = "publishing"]
  /\ busPromise' = [busPromise EXCEPT ![id] = IF IsRequest(id) THEN "open" ELSE "none"]
  /\ UNCHANGED <<busMode, busRegistered, busNet, busProcessed, busRunning, busExecuted, busRepeats>>

\* Redis sends the message to those who have subscribed; publish has not
\* returned yet.
Publish(id) ==
  /\ busCall[id] = "publishing"
  /\ busCall' = [busCall EXCEPT ![id] = "published"]
  /\ busNet' = busNet \cup {[what |-> "call", id |-> id, at |-> p] : p \in Subscribers(id)}
  /\ UNCHANGED <<busMode, busRegistered, busPromise, busProcessed, busRunning, busExecuted, busRepeats>>

\* publish returns: the request goes on with its promise, whatever became of it.
PublishReturns(id) ==
  /\ busCall[id] = "published"
  /\ busCall' = [busCall EXCEPT ![id] = CASE ~ IsRequest(id) -> "sent"
                                         [] busPromise[id] = "open" -> "waiting"
                                         [] OTHER -> busPromise[id]]
  /\ UNCHANGED <<busMode, busRegistered, busPromise, busNet, busProcessed, busRunning, busExecuted, busRepeats>>

\* publish fails, before Redis had the message or after.
PublishFails(id) ==
  /\ busCall[id] \in {"publishing", "published"}
  /\ busCall' = [busCall EXCEPT ![id] = "rejected"]
  /\ UNCHANGED <<busMode, busRegistered, busPromise, busNet, busProcessed, busRunning, busExecuted, busRepeats>>

----------------------------------------------------------------------------
BugNoted(ids, id) ==
  IF Len(ids) + 1 > MaxProcessed THEN <<>> ELSE Append(ids, id)

\* The id is noted; when there are too many, the oldest fifth goes.
IdNoted(ids, id) ==
  LET all == Append(ids, id)
  IN  IF Len(all) > MaxProcessed THEN SubSeq(all, RemoveCount + 1, Len(all)) ELSE all

(***************************************************************************)
(* The handlers that execute a delivery: _handleRequest is called for each *)
(* handler, but the first one notes the id, which the next ones then find. *)
(***************************************************************************)
Receivers(d) ==
  IF Contains(busProcessed[d.at], d.id) THEN {}
  ELSE IF IsRequest(d.id) THEN {BusTo[d.id]}
  ELSE {Head(busRegistered[d.at])}

\* A delivery is taken from the net, or stays there to come again.
Taken(d) ==
  \/ busNet' = busNet \ {d} /\ UNCHANGED busRepeats
  \/ busRepeats < MaxRepeats /\ busRepeats' = busRepeats + 1 /\ UNCHANGED busNet

HandleRequest(d) ==
  LET skipped == Contains(busProcessed[d.at], d.id) \/ busRegistered[d.at] = <<>>
  IN  /\ d.what = "call"
      /\ Taken(d)
      /\ busRunning' = IF skipped THEN busRunning
            ELSE busRunning \cup {[id |-> d.id, at |-> d.at, agent |-> a] : a \in Receivers(d)}
      /\ busProcessed' = [busProcessed EXCEPT ![d.at] = IF skipped THEN @ ELSE IdNoted(@, d.id)]
      /\ busExecuted' = [busExecuted EXCEPT ![d.at] = IF skipped THEN @ ELSE Append(@, d.id)]
      /\ UNCHANGED <<busMode, busRegistered, busCall, busPromise>>

\* The promises of these requests are settled, and with them those who wait.
Settle(ids, how) ==
  /\ busPromise' = [id \in BusCalls |-> IF id \in ids THEN how ELSE busPromise[id]]
  /\ busCall' = [id \in BusCalls |->
        IF id \in ids /\ busCall[id] = "waiting" THEN how ELSE busCall[id]]

\* Wrong: the entry is made once publish has returned.
BugHandleResponse(d) ==
  /\ d.what = "response"
  /\ Taken(d)
  /\ Settle({id \in {d.id} : busPromise[id] = "open" /\ busCall[id] = "waiting"}, "resolved")
  /\ UNCHANGED <<busMode, busRegistered, busProcessed, busRunning, busExecuted>>

\* A response settles the request whose entry is still there.
HandleResponse(d) ==
  /\ d.what = "response"
  /\ Taken(d)
  /\ Settle({id \in {d.id} : busPromise[id] = "open"}, "resolved")
  /\ UNCHANGED <<busMode, busRegistered, busProcessed, busRunning, busExecuted>>

Lost(d) ==
  /\ busNet' = busNet \ {d}
  /\ UNCHANGED <<busMode, busRegistered, busCall, busPromise, busProcessed, busRunning, busExecuted,
                 busRepeats>>

\* A handler returns or throws.  Over Redis only a return is answered, for a
\* broadcast as well; a local request is settled either way.
HandlerEnds(r, returns) ==
  /\ r \in busRunning
  /\ busRunning' = busRunning \ {r}
  /\ busCall' = [busCall EXCEPT ![r.id] =
        IF busMode = "local" /\ @ = "waiting"
          THEN IF returns THEN "resolved" ELSE "rejected" ELSE @]
  /\ busNet' = IF busMode = "redis" /\ returns
        THEN busNet \cup {[what |-> "response", id |-> r.id, at |-> BusHome[r.id]]} ELSE busNet
  /\ UNCHANGED <<busMode, busRegistered, busPromise, busProcessed, busExecuted, busRepeats>>

\* The timer of a request, set before publish is called; the local bus sets none.
RequestTimeout(id) ==
  /\ busPromise[id] = "open"
  /\ Settle({id}, "rejected")
  /\ UNCHANGED <<busMode, busRegistered, busNet, busProcessed, busRunning, busExecuted, busRepeats>>

\* The timer of a processed id.
IdExpires(p, id) ==
  /\ Contains(busProcessed[p], id)
  /\ busProcessed' = [busProcessed EXCEPT ![p] = Only(@, BusCalls \ {id})]
  /\ busExecuted' = [busExecuted EXCEPT ![p] =
        [i \in DOMAIN @ |-> IF @[i] = id THEN Everyone ELSE @[i]]]
  /\ UNCHANGED <<busMode, busRegistered, busCall, busPromise, busNet, busRunning, busRepeats>>

Unregister(p, a) ==
  /\ Contains(busRegistered[p], a)
  /\ busRegistered' = [busRegistered EXCEPT ![p] = Only(@, ToSet(@) \ {a})]
  /\ busNet' = {d \in busNet : ~ (d.what = "call" /\ d.at = p /\ BusTo[d.id] = a)}
  /\ UNCHANGED <<busMode, busCall, busPromise, busProcessed, busRunning, busExecuted, busRepeats>>

\* close: every request of the process that has an entry is rejected.
Close(p) ==
  LET open == {id \in BusCalls : BusHome[id] = p /\ busPromise[id] = "open"}
  IN  /\ busMode = "redis" /\ open # {}
      /\ Settle(open, "rejected")
      /\ UNCHANGED <<busMode, busRegistered, busNet, busProcessed, busRunning, busExecuted, busRepeats>>

BusNext ==
  \/ \E id \in BusCalls : \/ CallLocally(id) \/ CallOverRedis(id) \/ RequestTimeout(id)
                          \/ Publish(id) \/ PublishReturns(id) \/ PublishFails(id)
  \/ \E d \in busNet : HandleRequest(d) \/ HandleResponse(d) \/ Lost(d)
  \/ \E r \in busRunning, returns \in BOOLEAN : HandlerEnds(r, returns)
  \/ \E p \in BusProcs : \/ \E id \in BusCalls : IdExpires(p, id)
                         \/ \E a \in ToSet(BusHandlers[p]) : Unregister(p, a)
                         \/ Close(p)

----------------------------------------------------------------------------
(* Properties                                                               *)

\* A process executes a call again only if it has forgotten it in between: its
\* entry has expired, or MaxProcessed - RemoveCount + 1 other calls at least were
\* handled since.  A repeated delivery is recognised whatever came between.
NotRepeatedSoon ==
  \A p \in BusProcs : \A i, j \in DOMAIN busExecuted[p] :
    (i < j /\ busExecuted[p][i] = busExecuted[p][j] /\ busExecuted[p][i] # Everyone) =>
       j - i > MaxProcessed - RemoveCount + 1

\* A response is never too early: one that comes while request is still in the
\* call, even before publish has returned to it, is its answer, unless its timer
\* or close came first.
ResponseHeard ==
  [][\A d \in busNet :
       /\ HandleResponse(d) /\ IsRequest(d.id)
       /\ busCall[d.id] \in {"publishing", "published", "waiting"} /\ busPromise[d.id] # "rejected"
       => busPromise'[d.id] = "resolved" /\ busCall'[d.id] \notin {"rejected", "waiting"}]_busVars
=============================================================================
