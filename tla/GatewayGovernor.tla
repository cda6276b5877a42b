--------------------------- MODULE GatewayGovernor ---------------------------
(***************************************************************************)
(* GatewayConcurrencyGovernor of src/gateway/state-adapters.js, the        *)
(* governor the gateway really uses: it keeps one slot per conversation    *)
(* (user and channel) in _activeLocks and a wait queue, and asks a backend *)
(* for every slot.  waitForSlot and _drainQueue go on only when the        *)
(* backend has answered, so calls, timers, releases and other drains       *)
(* interleave with them.                                                   *)
(*                                                                         *)
(* The backend executes an operation when it is called and answers in the  *)
(* order of the calls: that is how the promises of the local backend       *)
(* settle, and how one Redis connection answers.  With a Redis backend,    *)
(* timers, messages and releases may come before the answer, and calls may *)
(* fail; with the local one they wait until every promise has settled, as  *)
(* microtasks run before the next event of the loop.                       *)
(* Expiry of what is counted in Redis is the concern of RedisSlots.        *)
(*                                                                         *)
(* Names starting with Bug are faulty variants of the definition after     *)
(* them; no specification uses them.                                       *)
(***************************************************************************)
EXTENDS Naturals, FiniteSets, SeqFilters

CONSTANTS
  Requests,         \* calls of waitForSlot; each is made at most once
  UserOf, ChannelOf,
  GlobalLimit, PerUserLimit, PerChannelLimit,
  Backends,         \* the kinds of backend, of "local" and "redis"
  MaxFailures,      \* bound: operations of a Redis backend that fail
  None              \* no lock; as an array, the one the constructor made

ASSUME GovernorAssumption ==
  /\ Backends \subseteq {"local", "redis"}
  /\ GlobalLimit \in Nat /\ PerUserLimit \in Nat /\ PerChannelLimit \in Nat
  /\ None \notin Requests /\ None \notin Requests \X Requests

Key(r) == <<UserOf[r], ChannelOf[r]>>
Keys == {Key(r) : r \in Requests}

(***************************************************************************)
(* A requestId is new for each acquire.  <<r, r>> is the one waitForSlot   *)
(* asks for request r, <<r, q>> the one the drain after the release of q   *)
(* asks for the queued request r.                                          *)
(***************************************************************************)

VARIABLES
  kind,         \* the backend the factory made
  caller,       \* what the promise of each request has told it
  activeLocks,  \* _activeLocks: requestId by conversation
  backend,      \* the requestIds for which the backend counts a slot
  arrays,       \* the array objects: the initial queue, each drain's remaining
  queue,        \* _queue: which of them it refers to
  answers,      \* continuations of the backend calls made, in call order
  failures

governorVars == <<kind, caller, activeLocks, backend, arrays, queue, answers, failures>>

Phases == {"new", "acquiring", "waiting", "held", "timedOut", "failed", "released"}

Live(r) == caller[r] = "waiting"
Holding == {r \in Requests : caller[r] = "held"}

Answer(call, r, at, result) == [call |-> call, of |-> r, at |-> at, result |-> result]

\* acquire of the backend: granted if the three limits leave room.
Grants(B, r) ==
  /\ Cardinality(B) < GlobalLimit
  /\ Cardinality({t \in B : UserOf[t[1]] = UserOf[r]}) < PerUserLimit
  /\ Cardinality({t \in B : ChannelOf[t[1]] = ChannelOf[r]}) < PerChannelLimit

\* What a call to the backend can result in when it would do ok.
Outcomes(ok) == {ok} \cup (IF kind = "redis" /\ failures < MaxFailures THEN {"error"} ELSE {})
Count(result) == failures' = IF result = "error" THEN failures + 1 ELSE failures

\* Redis may refuse although the slots of this gateway leave room: the counters are
\* shared with other gateways, and a release does not give back all of them.
AcquireOutcomes(B, r) ==
  Outcomes(IF Grants(B, r) THEN "granted" ELSE "refused")
    \cup (IF kind = "redis" THEN {"refused"} ELSE {})
Acquired(B, t, result) == IF result = "granted" THEN B \cup {t} ELSE B
ReleasedFrom(B, t, result) == IF result = "error" THEN B ELSE B \ {t}

\* Nothing but the next continuation may run.
Settled == kind = "redis" \/ answers = <<>>

GovernorInit ==
  /\ kind \in Backends
  /\ caller = [r \in Requests |-> "new"]
  /\ activeLocks = [k \in Keys |-> None]
  /\ backend = {}
  /\ arrays = [a \in Requests \cup {None} |-> <<>>]
  /\ queue = None
  /\ answers = <<>>
  /\ failures = 0

----------------------------------------------------------------------------
(* waitForSlot                                                              *)

WaitForSlot(r) ==
  /\ caller[r] = "new" /\ Settled
  /\ caller' = [caller EXCEPT ![r] = "acquiring"]
  /\ \E result \in AcquireOutcomes(backend, r) :
       /\ backend' = Acquired(backend, <<r, r>>, result)
       /\ answers' = Append(answers, Answer("acquire", r, 0, result))
       /\ Count(result)
  /\ UNCHANGED <<kind, activeLocks, arrays, queue>>

Next1 == Head(answers)
Answered(call) == answers # <<>> /\ Next1.call = call

\* Push an entry with its timer running.
Enqueue(r) ==
  /\ arrays' = [arrays EXCEPT ![queue] = Append(@, r)]
  /\ caller' = [caller EXCEPT ![r] = "waiting"]

SlotGranted ==
  /\ Answered("acquire") /\ Next1.result = "granted"
  /\ activeLocks[Key(Next1.of)] = None
  /\ activeLocks' = [activeLocks EXCEPT ![Key(Next1.of)] = <<Next1.of, Next1.of>>]
  /\ caller' = [caller EXCEPT ![Next1.of] = "held"]
  /\ answers' = Tail(answers)
  /\ UNCHANGED <<kind, backend, arrays, queue, failures>>

\* CE-8: the conversation has a slot already; this one goes back first.
SlotReturned ==
  /\ Answered("acquire") /\ Next1.result = "granted"
  /\ activeLocks[Key(Next1.of)] # None
  /\ \E result \in Outcomes("done") :
       /\ backend' = ReleasedFrom(backend, <<Next1.of, Next1.of>>, result)
       /\ answers' = Append(Tail(answers), Answer("return", Next1.of, 0, result))
       /\ Count(result)
  /\ UNCHANGED <<kind, caller, activeLocks, arrays, queue>>

\* Queued because the backend refused, or after the slot has gone back.
SlotAwaited ==
  /\ \/ Answered("acquire") /\ Next1.result = "refused"
     \/ Answered("return") /\ Next1.result = "done"
  /\ Enqueue(Next1.of)
  /\ answers' = Tail(answers)
  /\ UNCHANGED <<kind, activeLocks, backend, queue, failures>>

\* A backend error rejects the promise of waitForSlot.
WaitFails ==
  /\ Answered("acquire") \/ Answered("return")
  /\ Next1.result = "error"
  /\ caller' = [caller EXCEPT ![Next1.of] = "failed"]
  /\ answers' = Tail(answers)
  /\ UNCHANGED <<kind, activeLocks, backend, arrays, queue, failures>>

\* The timer of an entry marks it done wherever it is.
Timeout(r) ==
  /\ Live(r) /\ Settled
  /\ caller' = [caller EXCEPT ![r] = "timedOut"]
  /\ UNCHANGED <<kind, activeLocks, backend, arrays, queue, answers, failures>>

----------------------------------------------------------------------------
(* release and _drainQueue                                                  *)

\* Without a lock for its conversation, a release does nothing.
Release(r) ==
  /\ caller[r] = "held" /\ Settled
  /\ caller' = [caller EXCEPT ![r] = "released"]
  /\ LET t == activeLocks[Key(r)]
     IN  IF t = None THEN UNCHANGED <<activeLocks, backend, answers, failures>>
         ELSE /\ activeLocks' = [activeLocks EXCEPT ![Key(r)] = None]
              /\ \E result \in Outcomes("done") :
                   /\ backend' = ReleasedFrom(backend, t, result)
                   /\ answers' = Append(answers, Answer("release", r, 0, result))
                   /\ Count(result)
  /\ UNCHANGED <<kind, arrays, queue>>

BugTriesLocked(r, L) == Live(r)
\* The drain acquires for r: it is not done, and its conversation has no lock.
Tries(r, L) == Live(r) /\ L[Key(r)] = None

\* What the drain keeps of the entries it passes.
Kept(entries) == Only(entries, {r \in Requests : Live(r)})

(***************************************************************************)
(* The drain after the release of q goes on with the entry at index from   *)
(* of the array it iterates, which calls of waitForSlot may have extended, *)
(* given its remaining entries rest and the locks L.  It skips entries     *)
(* that are done, keeps those whose conversation has a lock, and stops at  *)
(* the first other one to acquire for it; at the end of the array its      *)
(* remaining entries become the queue.                                     *)
(***************************************************************************)
Drain(q, array, from, rest, L) ==
  LET entries == arrays[array]
      Stops == {i \in from .. Len(entries) : Tries(entries[i], L)}
      stop == IF Stops = {} THEN Len(entries) + 1
              ELSE CHOOSE i \in Stops : \A j \in Stops : i <= j
  IN  /\ activeLocks' = L
      /\ arrays' = [arrays EXCEPT ![q] = rest \o Kept(SubSeq(entries, from, stop - 1))]
      /\ IF Stops = {}
           THEN /\ queue' = q
                /\ answers' = Tail(answers)
                /\ UNCHANGED <<backend, failures>>
           ELSE \E result \in AcquireOutcomes(backend, entries[stop]) :
                  /\ backend' = Acquired(backend, <<entries[stop], q>>, result)
                  /\ answers' = Append(Tail(answers),
                                       Answer("drain", q, <<array, stop>>, result))
                  /\ Count(result)
                  /\ UNCHANGED queue

BugNoDrain ==
  /\ Answered("release") /\ Next1.result = "done"
  /\ answers' = Tail(answers)
  /\ UNCHANGED <<kind, caller, activeLocks, backend, arrays, queue, failures>>

\* The backend has released: the queue is drained, or the error is logged.
DrainStarts ==
  /\ Answered("release") /\ Next1.result = "done"
  /\ Drain(Next1.of, queue, 1, <<>>, activeLocks)
  /\ UNCHANGED <<kind, caller>>

\* The backend has answered for an entry, whatever became of it meanwhile.
DrainGoesOn ==
  /\ Answered("drain") /\ Next1.result # "error"
  /\ UNCHANGED kind
  /\ LET q == Next1.of
         array == Next1.at[1]
         i == Next1.at[2]
         r == arrays[array][i]
     IN  IF Next1.result = "granted"
           THEN /\ Drain(q, array, i + 1, arrays[q],
                         [activeLocks EXCEPT ![Key(r)] = <<r, q>>])
                /\ caller' = [caller EXCEPT ![r] = IF Live(r) THEN "held" ELSE @]
           ELSE /\ Drain(q, array, i + 1, Append(arrays[q], r), activeLocks)
                /\ UNCHANGED caller

\* An error ends the drain: _queue stays the array it was.
DrainFails ==
  /\ Answered("release") \/ Answered("drain")
  /\ Next1.result = "error"
  /\ answers' = Tail(answers)
  /\ UNCHANGED <<kind, caller, activeLocks, backend, arrays, queue, failures>>

Continue ==
  \/ SlotGranted \/ SlotReturned \/ SlotAwaited \/ WaitFails
  \/ DrainStarts \/ DrainGoesOn \/ DrainFails

GovernorNext ==
  \/ Continue
  \/ \E r \in Requests : WaitForSlot(r) \/ Timeout(r) \/ Release(r)

(***************************************************************************)
(* The backend answers, and the gateway gives back the slot a request has  *)
(* been granted (the finally block of the pipeline).                       *)
(***************************************************************************)
GovernorFairness == WF_governorVars(Continue) /\ \A r \in Requests : WF_governorVars(Release(r))

GovernorSpec == GovernorInit /\ [][GovernorNext]_governorVars /\ GovernorFairness

----------------------------------------------------------------------------
(* Properties                                                               *)

\* The backend was asked for t and its answer is under way.
InFlight(t) ==
  \E i \in DOMAIN answers :
    LET a == answers[i]
    IN  \/ a.call \in {"acquire", "return"} /\ t = <<a.of, a.of>>
        \/ a.call = "drain" /\ t = <<arrays[a.at[1]][a.at[2]], a.of>>

\* Whatever interleaves with the answers of the backend, more requests than
\* the limits allow never run at the same time: each one that runs keeps a
\* slot of its conversation counted, be it not its own.
HoldersWithinLimits ==
  \A r \in Requests :
    /\ Cardinality(Holding) <= GlobalLimit
    /\ Cardinality({s \in Holding : UserOf[s] = UserOf[r]}) <= PerUserLimit
    /\ Cardinality({s \in Holding : ChannelOf[s] = ChannelOf[r]}) <= PerChannelLimit

\* Slots are not leaked (CE-8: "Release the backend slot first to prevent slot
\* leak"): the slots the backend counts belong to requests that run or to
\* acquires that are under way.
NoSlotLeak ==
  \A t \in backend :
    \/ InFlight(t)
    \/ caller[t[1]] = "held" /\ activeLocks[Key(t[1])] = t

\* With the local backend that is so.
NoSlotLeakLocally == kind = "local" => NoSlotLeak

\* With the local backend the lock of a conversation is never overwritten
\* ("queue instead of overwriting"), so that at most one of its requests runs.
OneHolderPerKey ==
  kind = "local" => \A r, s \in Holding : r # s => Key(r) # Key(s)

\* Through late answers, timers, overlapping drains and failing operations the
\* slots stay what they are for: limits, none leaked, one holder per key.
SlotsKept == HoldersWithinLimits /\ NoSlotLeakLocally /\ OneHolderPerKey

\* With the local backend no wake-up is lost: a waiting request gets its slot,
\* or times out, when the requests that run give theirs back; its timer is not
\* assumed to fire.
WaitersResolved == []<>(kind = "local" => \A r \in Requests : ~ Live(r))

=============================================================================
