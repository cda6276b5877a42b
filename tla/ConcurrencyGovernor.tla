------------------------ MODULE ConcurrencyGovernor ------------------------
(***************************************************************************)
(* ConcurrencyGovernor of src/core/pool.js: the in-process governor that   *)
(* bounds how many requests run at the same time, globally, per user and   *)
(* per channel, and queues the others first-in-first-out.  Every method is *)
(* synchronous, so each is one step; the timer of a queued request and the *)
(* requests themselves interleave between those steps.                     *)
(*                                                                         *)
(* Definitions named Bug... are plausible mistakes in the code of the next *)
(* definition; no specification uses them.  Each stands for a mutant that  *)
(* a property of the module is known to catch.                             *)
(***************************************************************************)
EXTENDS Naturals, FiniteSets

CONSTANTS
  Users, Channels,
  NoChannel,        \* the (falsy) channelId of a request without channel
  SlotRequests,     \* calls of waitForSlot; each is made at most once
  UserOf,           \* userId of a request
  ChannelOf,        \* channelId of a request
  GlobalLimit, PerUserLimit, PerChannelLimit,   \* config.concurrency
  GovMaxQueueDepth  \* maxQueueDepth of the governor

ASSUME RequestsAssumption ==
  /\ IsFiniteSet(SlotRequests)
  /\ UserOf \in [SlotRequests -> Users]
  /\ ChannelOf \in [SlotRequests -> Channels \cup {NoChannel}]
  /\ NoChannel \notin Channels
ASSUME LimitsAssumption ==
  /\ GlobalLimit \in Nat \ {0}
  /\ PerUserLimit \in Nat \ {0}
  /\ PerChannelLimit \in Nat \ {0}
  /\ GovMaxQueueDepth \in Nat

VARIABLES
  globalCount, userCounts, channelCounts,   \* absent keys of the maps are 0
  queue,      \* the entries of the array queue, named by their requests
  arrival,    \* position of each pushed entry in the order of the pushes
  pushes,     \* how many entries were pushed so far
  caller      \* what the promise of each request has told it

counts == <<globalCount, userCounts, channelCounts>>
governorVars == <<globalCount, userCounts, channelCounts, queue, arrival, pushes, caller>>

Phases == {"new", "waiting", "held", "rejected", "timedOut", "released"}

\* An entry is done once its promise is resolved.
Done(r) == caller[r] # "waiting"
Live == {r \in queue : ~ Done(r)}
Holding == {r \in SlotRequests : caller[r] = "held"}

ByUser(S, u) == {r \in S : UserOf[r] = u}
ByChannel(S, c) == {r \in S : ChannelOf[r] = c}

BugCanAcquireOffByOne(g, uc, cc, S, r) ==
  LET u == UserOf[r]
      c == ChannelOf[r]
  IN  /\ g + Cardinality(S) <= GlobalLimit
      /\ uc[u] + Cardinality(ByUser(S, u)) < PerUserLimit
      /\ c # NoChannel => cc[c] + Cardinality(ByChannel(S, c)) < PerChannelLimit

(***************************************************************************)
(* canAcquire for r, after the requests of S have acquired on top of the   *)
(* counts g, uc, cc.                                                       *)
(***************************************************************************)
CanAcquire(g, uc, cc, S, r) ==
  LET u == UserOf[r]
      c == ChannelOf[r]
  IN  /\ g + Cardinality(S) < GlobalLimit
      /\ uc[u] + Cardinality(ByUser(S, u)) < PerUserLimit
      /\ c # NoChannel => cc[c] + Cardinality(ByChannel(S, c)) < PerChannelLimit

\* acquire for every request of S.
Acquire(g, uc, cc, S) ==
  /\ globalCount' = g + Cardinality(S)
  /\ userCounts' = [u \in Users |-> uc[u] + Cardinality(ByUser(S, u))]
  /\ channelCounts' = [c \in Channels |-> cc[c] + Cardinality(ByChannel(S, c))]

GovernorInit ==
  /\ globalCount = 0
  /\ userCounts = [u \in Users |-> 0]
  /\ channelCounts = [c \in Channels |-> 0]
  /\ queue = {}
  /\ arrival = [r \in SlotRequests |-> 0]
  /\ pushes = 0
  /\ caller = [r \in SlotRequests |-> "new"]

----------------------------------------------------------------------------
(* waitForSlot: granted at once, turned away, or queued.                    *)

CanAcquireNow(r) == CanAcquire(globalCount, userCounts, channelCounts, {}, r)

GrantAtOnce(r) ==
  /\ caller[r] = "new"
  /\ CanAcquireNow(r)
  /\ Acquire(globalCount, userCounts, channelCounts, {r})
  /\ caller' = [caller EXCEPT ![r] = "held"]
  /\ UNCHANGED <<queue, arrival, pushes>>

QueueFull == Cardinality(Live) >= GovMaxQueueDepth

TurnAway(r) ==
  /\ caller[r] = "new"
  /\ ~ CanAcquireNow(r)
  /\ QueueFull
  /\ caller' = [caller EXCEPT ![r] = "rejected"]
  /\ UNCHANGED <<counts, queue, arrival, pushes>>

Wait(r) ==
  /\ caller[r] = "new"
  /\ ~ CanAcquireNow(r)
  /\ ~ QueueFull
  /\ queue' = queue \cup {r}
  /\ arrival' = [arrival EXCEPT ![r] = pushes]
  /\ pushes' = pushes + 1
  /\ caller' = [caller EXCEPT ![r] = "waiting"]
  /\ UNCHANGED counts

\* The timer of a queued entry: it is marked done and left in the queue.
Timeout(r) ==
  /\ r \in Live
  /\ caller' = [caller EXCEPT ![r] = "timedOut"]
  /\ UNCHANGED <<counts, queue, arrival, pushes>>

----------------------------------------------------------------------------
(* release, and the sweep of _drainQueue that ends it.                      *)

BugAheadIsBehind(r) == {s \in queue : arrival[s] > arrival[r]}

\* The entries of the queue in front of r.
Ahead(r) == {s \in queue : arrival[s] < arrival[r]}

BugSweepStopsAtFirst(G, g, uc, cc) ==
  \A r \in queue :
    r \in G <=> /\ ~ Done(r) /\ CanAcquire(g, uc, cc, G \cap Ahead(r), r)
                /\ \A s \in Ahead(r) : Done(s) \/ s \in G
BugNoSweep(G, g, uc, cc) == G = {}

(***************************************************************************)
(* G is the set of entries one sweep in queue order grants, starting from  *)
(* the counts g, uc, cc: an entry is granted iff it is live and could      *)
(* acquire after the granted ones in front of it had.                      *)
(***************************************************************************)
IsSweep(G, g, uc, cc) ==
  \A r \in queue :
    r \in G <=> ~ Done(r) /\ CanAcquire(g, uc, cc, G \cap Ahead(r), r)

\* _drainQueue: skipped and granted entries leave the queue.
DrainQueue(G, g, uc, cc) ==
  /\ IsSweep(G, g, uc, cc)
  /\ Acquire(g, uc, cc, G)
  /\ queue' = Live \ G

Decrement(n) == IF n > 0 THEN n - 1 ELSE 0

Release(r) ==
  LET u == UserOf[r]
      c == ChannelOf[r]
      g == Decrement(globalCount)
      uc == [userCounts EXCEPT ![u] = Decrement(@)]
      cc == IF c = NoChannel THEN channelCounts
            ELSE [channelCounts EXCEPT ![c] = Decrement(@)]
  IN  /\ caller[r] = "held"
      /\ \E G \in SUBSET queue :
           /\ DrainQueue(G, g, uc, cc)
           /\ caller' = [s \in SlotRequests |->
                           IF s = r THEN "released"
                           ELSE IF s \in G THEN "held" ELSE caller[s]]
      /\ UNCHANGED <<arrival, pushes>>

GovernorNext ==
  \E r \in SlotRequests :
    GrantAtOnce(r) \/ TurnAway(r) \/ Wait(r) \/ Timeout(r) \/ Release(r)

(***************************************************************************)
(* A request that holds a slot gives it back: gateway.js releases it in    *)
(* the finally block of the request.  Nothing else is assumed to happen,   *)
(* not even that the timers fire.                                          *)
(***************************************************************************)
GovernorFairness == \A r \in SlotRequests : WF_governorVars(Release(r))

GovernorSpec == GovernorInit /\ [][GovernorNext]_governorVars /\ GovernorFairness

----------------------------------------------------------------------------
(* Properties                                                               *)

GovernorTypeOK ==
  /\ globalCount \in Nat
  /\ userCounts \in [Users -> Nat]
  /\ channelCounts \in [Channels -> Nat]
  /\ queue \in SUBSET SlotRequests
  /\ arrival \in [SlotRequests -> Nat]
  /\ pushes \in Nat
  /\ caller \in [SlotRequests -> Phases]

\* The three kinds of counters agree with the requests that really hold a
\* slot: no path through acquire, release, the sweep and the timer counts a
\* request twice or forgets one.
CountsMatchHolders ==
  /\ globalCount = Cardinality(Holding)
  /\ \A u \in Users : userCounts[u] = Cardinality(ByUser(Holding, u))
  /\ \A c \in Channels : channelCounts[c] = Cardinality(ByChannel(Holding, c))

\* The limits of config.concurrency hold for the requests that run at the
\* same time, also when one release lets several waiting requests in.
LimitsRespected ==
  /\ Cardinality(Holding) <= GlobalLimit
  /\ \A u \in Users : Cardinality(ByUser(Holding, u)) <= PerUserLimit
  /\ \A c \in Channels : Cardinality(ByChannel(Holding, c)) <= PerChannelLimit

\* A request never waits while it could run: one sweep in queue order is
\* enough, although it grants later entries after it has skipped earlier ones.
NoAdmissibleWaiter == \A r \in Live : ~ CanAcquireNow(r)

\* The backlog of unresolved requests is bounded (R2-BUG-003), and every one
\* of them is in the queue where a later sweep finds it.
BacklogBounded ==
  /\ Cardinality(Live) <= GovMaxQueueDepth
  /\ \A r \in SlotRequests : caller[r] = "waiting" => r \in queue

SameKey(r, s) == UserOf[r] = UserOf[s] /\ ChannelOf[r] = ChannelOf[s]

\* First in, first out per conversation: a step that gives a slot to a request
\* leaves no earlier request of the same user and channel waiting, be the
\* request a newcomer on the fast path or an entry of the queue.
FifoPerKey ==
  [][\A r, s \in SlotRequests :
       /\ SameKey(r, s)
       /\ caller[s] = "waiting" /\ caller'[s] = "waiting"
       /\ caller[r] # "held" /\ caller'[r] = "held"
       => caller[r] = "waiting" /\ arrival[s] > arrival[r]]_governorVars

\* No wake-up is lost: a request that waits is resolved even if its timer
\* never fires, because each release sweeps the queue.
WaitersResolved ==
  \A r \in SlotRequests : caller[r] = "waiting" ~> caller[r] # "waiting"

\* The governor is a slot pool.
Pool == INSTANCE SlotPool WITH Requests <- SlotRequests
PoolSpec == Pool!Spec

=============================================================================
