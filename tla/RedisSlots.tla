----------------------------- MODULE RedisSlots -----------------------------
(***************************************************************************)
(* The slots of src/state/redis-concurrency.js: counters and locks in      *)
(* Redis, which several gateways share and any of which may crash.  Both   *)
(* Lua scripts are atomic.  A request counts in three scopes, its user,    *)
(* its channel and "global"; each has a counter with a limit.              *)
(*                                                                         *)
(* The client puts its keyPrefix, which the configuration never leaves     *)
(* empty, before the KEYS of a script and not before its ARGV.  Acquiring  *)
(* takes every counter from KEYS; releasing builds the keys of the user    *)
(* and of the channel from ARGV, and so counts down keys that nobody else  *)
(* uses: of the counters here it reaches the global one only.              *)
(*                                                                         *)
(* Every key carries the time it has left, in ticks; 0 is a lock that does *)
(* not exist, or a counter that does not or never expires (which is one    *)
(* that a script has SET to 0).                                            *)
(*                                                                         *)
(* An operator named Bug... is a plausible wrong version of the definition *)
(* that follows it and is used nowhere in the specification.               *)
(***************************************************************************)
EXTENDS Naturals, FiniteSets

CONSTANTS
  RsRequests,
  RsScopes,      \* global, users and channels
  RsGlobal,      \* the global one
  RsScopesOf,    \* the scopes each request counts in
  RsLimit,       \* the limit of each scope
  LockTtl        \* _lockTtlSec

ASSUME RedisSlotsAssumption ==
  /\ IsFiniteSet(RsRequests)
  /\ RsScopesOf \in [RsRequests -> SUBSET RsScopes]
  /\ RsGlobal \in RsScopes /\ \A r \in RsRequests : RsGlobal \in RsScopesOf[r]
  /\ RsLimit \in [RsScopes -> Nat]
  /\ LockTtl \in Nat \ {0}

VARIABLES
  rsCount,     \* the counters, 0 when they do not exist
  rsTtl,       \* what the counters have left
  rsLock,      \* what the lock of each request has left
  rsRunning,   \* the requests whose gateway believes it has a slot
  rsQuiet      \* ticks since the last grant in each scope, up to LockTtl (history)

redisSlotsVars == <<rsCount, rsTtl, rsLock, rsRunning, rsQuiet>>

Locked == {r \in RsRequests : rsLock[r] > 0}
LockedIn(k) == {r \in Locked : k \in RsScopesOf[r]}

RedisSlotsInit ==
  /\ rsCount = [k \in RsScopes |-> 0]
  /\ rsTtl = [k \in RsScopes |-> 0]
  /\ rsLock = [r \in RsRequests |-> 0]
  /\ rsRunning = {}
  /\ rsQuiet = [k \in RsScopes |-> LockTtl]

----------------------------------------------------------------------------
\* ACQUIRE_LUA: every counter is below its limit.  Ids are unique: the lock of
\* a request that crashed is not overwritten.
Room(r) == \A k \in RsScopesOf[r] : rsCount[k] < RsLimit[k]

BugAcquire(r) ==
  /\ r \notin rsRunning /\ rsLock[r] = 0 /\ Room(r)
  /\ rsCount' = [k \in RsScopes |-> IF k \in RsScopesOf[r] THEN rsCount[k] + 1 ELSE rsCount[k]]
  /\ rsTtl' = [k \in RsScopes |-> IF k \in RsScopesOf[r] /\ rsTtl[k] = 0 THEN LockTtl ELSE rsTtl[k]]
  /\ rsQuiet' = [k \in RsScopes |-> IF k \in RsScopesOf[r] THEN 0 ELSE rsQuiet[k]]
  /\ rsLock' = [rsLock EXCEPT ![r] = LockTtl]
  /\ rsRunning' = rsRunning \cup {r}

Acquire(r) ==
  /\ r \notin rsRunning /\ rsLock[r] = 0 /\ Room(r)
  /\ rsCount' = [k \in RsScopes |-> IF k \in RsScopesOf[r] THEN rsCount[k] + 1 ELSE rsCount[k]]
  /\ rsTtl' = [k \in RsScopes |-> IF k \in RsScopesOf[r] THEN LockTtl ELSE rsTtl[k]]
  /\ rsQuiet' = [k \in RsScopes |-> IF k \in RsScopesOf[r] THEN 0 ELSE rsQuiet[k]]
  /\ rsLock' = [rsLock EXCEPT ![r] = LockTtl]
  /\ rsRunning' = rsRunning \cup {r}

\* Renews the counter as Acquire does.
BugReleaseSlots(r) ==
  /\ r \in rsRunning
  /\ rsRunning' = rsRunning \ {r}
  /\ rsCount' = [k \in RsScopes |->
       IF rsLock[r] > 0 /\ k = RsGlobal /\ rsCount[k] > 0 THEN rsCount[k] - 1 ELSE rsCount[k]]
  /\ rsTtl' = [k \in RsScopes |-> IF rsLock[r] > 0 /\ k = RsGlobal THEN LockTtl ELSE rsTtl[k]]
  /\ rsLock' = [rsLock EXCEPT ![r] = 0]
  /\ UNCHANGED rsQuiet

(***************************************************************************)
(* RELEASE_LUA: without the lock nothing happens.  With it, the global     *)
(* counter goes down, or is SET to 0 where it would become negative.       *)
(***************************************************************************)
ReleaseSlots(r) ==
  /\ r \in rsRunning
  /\ rsRunning' = rsRunning \ {r}
  /\ rsCount' = [k \in RsScopes |->
       IF rsLock[r] > 0 /\ k = RsGlobal /\ rsCount[k] > 0 THEN rsCount[k] - 1 ELSE rsCount[k]]
  /\ rsTtl' = [k \in RsScopes |->
       IF rsLock[r] > 0 /\ k = RsGlobal /\ rsCount[k] = 0 THEN 0 ELSE rsTtl[k]]
  /\ rsLock' = [rsLock EXCEPT ![r] = 0]
  /\ UNCHANGED rsQuiet

\* A gateway crashes: its requests are gone, their keys stay.
Crash(S) ==
  /\ S # {}
  /\ rsRunning' = rsRunning \ S
  /\ UNCHANGED <<rsCount, rsTtl, rsLock, rsQuiet>>

\* Time passes, and Redis deletes the keys whose time is over.
Tick ==
  /\ rsCount' = [k \in RsScopes |-> IF rsTtl[k] = 1 THEN 0 ELSE rsCount[k]]
  /\ rsTtl' = [k \in RsScopes |-> IF rsTtl[k] > 0 THEN rsTtl[k] - 1 ELSE 0]
  /\ rsLock' = [r \in RsRequests |-> IF rsLock[r] > 0 THEN rsLock[r] - 1 ELSE 0]
  /\ rsQuiet' = [k \in RsScopes |-> IF rsQuiet[k] < LockTtl THEN rsQuiet[k] + 1 ELSE LockTtl]
  /\ UNCHANGED rsRunning

RedisSlotsNext ==
  \/ \E r \in RsRequests : Acquire(r) \/ ReleaseSlots(r)
  \/ \E S \in SUBSET rsRunning : Crash(S)
  \/ Tick

RedisSlotsSpec == RedisSlotsInit /\ [][RedisSlotsNext]_redisSlotsVars

----------------------------------------------------------------------------
(* Properties                                                               *)

RedisSlotsTypeOK ==
  /\ rsCount \in [RsScopes -> Nat]
  /\ rsTtl \in [RsScopes -> 0 .. LockTtl]
  /\ rsLock \in [RsRequests -> 0 .. LockTtl]
  /\ rsRunning \in SUBSET RsRequests
  /\ rsQuiet \in [RsScopes -> 0 .. LockTtl]

\* Crashes, late releases, releases that miss a counter and expiry only ever make
\* a counter too high: it never forgets a lock that still exists, and so no scope
\* has more locks than its limit.
LocksCounted ==
  \A k \in RsScopes :
    Cardinality(LockedIn(k)) <= rsCount[k] /\ rsCount[k] <= RsLimit[k]

\* A counter that crashed gateways or releases left too high blocks a scope for as
\* long as others still acquire in it, and for no longer than the time of a lock
\* after the last of them: a scope that was quiet for that long starts from 0.
QuietHeals == \A k \in RsScopes : rsQuiet[k] >= LockTtl => rsCount[k] = 0

\* The locks are leases that respect the limits.
Leases == INSTANCE LimitedLeases
            WITH Requests <- RsRequests, ScopesOf <- RsScopesOf, Limit <- RsLimit,
                 leased <- Locked
LeaseSpec == Leases!Spec

\* A slot that is released is free again ("Release a concurrency slot"): a counter
\* that keeps everyone out of its scope stands for some lock that exists.
FullIsHeld ==
  \A k \in RsScopes : RsLimit[k] > 0 /\ rsCount[k] = RsLimit[k] => LockedIn(k) # {}

=============================================================================
