--------------------------- MODULE SharedStateProofs ---------------------------
(***************************************************************************)
(* What holds of the state that outlives a process or is shared by several,  *)
(* for any requests, scopes and limits, agents and thresholds, calls and     *)
(* bounds, conversations and operations on them.                             *)
(***************************************************************************)
EXTENDS RedisSlots, Discovery, MessageBus, GatewayWorkingMemory, SeqFilterTheorems, FiniteSetTheorems, TLAPS

-----------------------------------------------------------------------------
(* The slots in Redis.  Two facts carry the proofs: a counter counts the    *)
(* locks of its scope at least, because it outlives each of them; and a     *)
(* counter above 0 is on its way to expire, in no more time than is left of *)
(* LockTtl since the last grant in its scope.                               *)

\* A counter lives as long as every lock it counts.
Outlives ==
  \A r \in RsRequests, k \in RsScopes :
    rsLock[r] > 0 /\ k \in RsScopesOf[r] => rsLock[r] <= rsTtl[k]

\* A counter above 0 expires, and was not renewed since the last grant.
Expires ==
  \A k \in RsScopes :
    rsCount[k] > 0 => rsTtl[k] > 0 /\ rsTtl[k] + rsQuiet[k] <= LockTtl

SlotsInv == RedisSlotsTypeOK /\ LocksCounted /\ Outlives /\ Expires

----------------------------------------------------------------------------
\* The locks of a scope are finitely many.
LEMMA FiniteLocks ==
  ASSUME NEW k
  PROVE  /\ IsFiniteSet(LockedIn(k)) /\ Cardinality(LockedIn(k)) \in Nat
         /\ IsFiniteSet(LockedIn(k)') /\ Cardinality(LockedIn(k)') \in Nat
<1>1. LockedIn(k) \subseteq RsRequests /\ LockedIn(k)' \subseteq RsRequests
  BY DEF LockedIn, Locked
<1> QED BY <1>1, RedisSlotsAssumption, FS_Subset, FS_CardinalityType

\* One lock more in a scope is one more to count there.
LEMMA LockAdded ==
  ASSUME NEW k, NEW r, r \notin LockedIn(k), LockedIn(k)' = LockedIn(k) \cup {r}
  PROVE  Cardinality(LockedIn(k)') = Cardinality(LockedIn(k)) + 1
BY FiniteLocks, FS_AddElement

\* One lock less is one less, and there was one to count.
LEMMA LockRemoved ==
  ASSUME NEW k, NEW r, r \in LockedIn(k), LockedIn(k)' = LockedIn(k) \ {r}
  PROVE  /\ Cardinality(LockedIn(k)') = Cardinality(LockedIn(k)) - 1
         /\ Cardinality(LockedIn(k)) > 0
<1>1. Cardinality(LockedIn(k)') = Cardinality(LockedIn(k)) - 1
  BY FiniteLocks, FS_RemoveElement
<1>2. Cardinality(LockedIn(k)) # 0
  BY FiniteLocks, FS_EmptySet
<1> QED BY <1>1, <1>2, FiniteLocks

\* A scope has no more locks than before when none is new.
LEMMA LocksShrink ==
  ASSUME NEW k, LockedIn(k)' \subseteq LockedIn(k)
  PROVE  Cardinality(LockedIn(k)') <= Cardinality(LockedIn(k))
BY FiniteLocks, FS_Subset

----------------------------------------------------------------------------
\* There are no locks and counters at the start.
LEMMA SlotsInitInv == RedisSlotsInit => SlotsInv
<1> SUFFICES ASSUME RedisSlotsInit PROVE SlotsInv
  OBVIOUS
<1>1. RedisSlotsTypeOK
  BY RedisSlotsAssumption DEF RedisSlotsInit, RedisSlotsTypeOK
<1>2. \A k : LockedIn(k) = {}
  BY DEF RedisSlotsInit, LockedIn, Locked
<1>3. LocksCounted
  <2> SUFFICES ASSUME NEW k \in RsScopes
               PROVE  Cardinality(LockedIn(k)) <= rsCount[k] /\ rsCount[k] <= RsLimit[k]
    BY DEF LocksCounted
  <2>1. Cardinality(LockedIn(k)) = 0
    BY <1>2, FS_EmptySet
  <2>2. rsCount[k] = 0 /\ RsLimit[k] \in Nat
    BY RedisSlotsAssumption DEF RedisSlotsInit
  <2> QED BY <2>1, <2>2
<1>4. Outlives /\ Expires
  BY DEF RedisSlotsInit, Outlives, Expires
<1> QED BY <1>1, <1>3, <1>4 DEF SlotsInv

\* A script that grants counts in every scope and renews every counter.
LEMMA AcquireInv == ASSUME SlotsInv, NEW r \in RsRequests, Acquire(r) PROVE SlotsInv'
<1> USE RedisSlotsAssumption DEF SlotsInv, Acquire
<1>1. RedisSlotsTypeOK'
  BY DEF RedisSlotsTypeOK
<1>2. LocksCounted'
  <2> SUFFICES ASSUME NEW k \in RsScopes
               PROVE  Cardinality(LockedIn(k)') <= rsCount'[k] /\ rsCount'[k] <= RsLimit[k]
    BY DEF LocksCounted
  <2>1. Cardinality(LockedIn(k)) <= rsCount[k] /\ rsCount[k] <= RsLimit[k] /\ rsCount[k] \in Nat
    BY DEF LocksCounted, RedisSlotsTypeOK
  <2>2. CASE k \in RsScopesOf[r]
    <3>1. r \notin LockedIn(k) /\ LockedIn(k)' = LockedIn(k) \cup {r}
      BY <2>2 DEF LockedIn, Locked, RedisSlotsTypeOK
    <3>2. Cardinality(LockedIn(k)') = Cardinality(LockedIn(k)) + 1
      BY <3>1, LockAdded
    <3>3. rsCount'[k] = rsCount[k] + 1 /\ rsCount[k] < RsLimit[k] /\ RsLimit[k] \in Nat
      BY <2>2 DEF Room
    <3> QED BY <2>1, <3>2, <3>3, FiniteLocks
  <2>3. CASE k \notin RsScopesOf[r]
    <3>1. LockedIn(k)' = LockedIn(k)
      BY <2>3 DEF LockedIn, Locked, RedisSlotsTypeOK
    <3> QED BY <2>1, <2>3, <3>1
  <2> QED BY <2>2, <2>3
<1>3. Outlives'
  BY DEF Outlives, RedisSlotsTypeOK
<1>4. Expires'
  BY DEF Expires, RedisSlotsTypeOK
<1> QED BY <1>1, <1>2, <1>3, <1>4

\* A release leaves every counter at least as high as the locks of its scope.
LEMMA ReleaseInv == ASSUME SlotsInv, NEW r \in RsRequests, ReleaseSlots(r) PROVE SlotsInv'
<1> USE RedisSlotsAssumption DEF SlotsInv, ReleaseSlots
<1>1. RedisSlotsTypeOK'
  BY DEF RedisSlotsTypeOK
<1>2. CASE rsLock[r] > 0
  \* The counters are not 0: they count the lock of r.  Only the global one goes
  \* down, the others stay above the locks of their scopes.
  <2>1. ASSUME NEW k \in RsScopes, k \in RsScopesOf[r]
        PROVE  /\ Cardinality(LockedIn(k)') = Cardinality(LockedIn(k)) - 1
               /\ rsCount'[k] \in {rsCount[k] - 1, rsCount[k]} /\ rsTtl'[k] = rsTtl[k]
    <3>1. r \in LockedIn(k) /\ LockedIn(k)' = LockedIn(k) \ {r}
      BY <1>2, <2>1 DEF LockedIn, Locked, RedisSlotsTypeOK
    <3>2. /\ Cardinality(LockedIn(k)') = Cardinality(LockedIn(k)) - 1
          /\ Cardinality(LockedIn(k)) > 0
      BY <3>1, LockRemoved
    <3>3. Cardinality(LockedIn(k)) <= rsCount[k] /\ rsCount[k] \in Nat
      BY DEF LocksCounted, RedisSlotsTypeOK
    <3>4. rsCount[k] > 0
      BY <3>2, <3>3, FiniteLocks
    <3> QED BY <1>2, <2>1, <3>2, <3>3, <3>4
  <2>2. ASSUME NEW k \in RsScopes, k \notin RsScopesOf[r]
        PROVE  LockedIn(k)' = LockedIn(k) /\ rsCount'[k] = rsCount[k] /\ rsTtl'[k] = rsTtl[k]
    BY <2>2 DEF LockedIn, Locked, RedisSlotsTypeOK
  <2>3. LocksCounted'
    <3> SUFFICES ASSUME NEW k \in RsScopes
                 PROVE  Cardinality(LockedIn(k)') <= rsCount'[k] /\ rsCount'[k] <= RsLimit[k]
      BY DEF LocksCounted
    <3>1. Cardinality(LockedIn(k)) <= rsCount[k] /\ rsCount[k] <= RsLimit[k] /\ rsCount[k] \in Nat
      BY DEF LocksCounted, RedisSlotsTypeOK
    <3> QED BY <2>1, <2>2, <3>1, FiniteLocks
  <2>4. \A k \in RsScopes : rsTtl'[k] = rsTtl[k] /\ rsCount'[k] <= rsCount[k]
    BY <2>1, <2>2 DEF RedisSlotsTypeOK
  <2>5. Outlives'
    BY <2>4 DEF Outlives, RedisSlotsTypeOK
  <2>6. Expires'
    BY <2>4 DEF Expires, RedisSlotsTypeOK
  <2> QED BY <1>1, <2>3, <2>5, <2>6
<1>3. CASE ~ (rsLock[r] > 0)
  <2>1. rsLock' = rsLock /\ rsCount' = rsCount /\ rsTtl' = rsTtl
    BY <1>3 DEF RedisSlotsTypeOK
  <2>2. \A k \in RsScopes : LockedIn(k)' = LockedIn(k)
    BY <2>1 DEF LockedIn, Locked
  <2> QED BY <1>1, <2>1, <2>2 DEF LocksCounted, Outlives, Expires
<1> QED BY <1>2, <1>3

\* A crash of a gateway leaves Redis as it is.
LEMMA CrashInv == ASSUME SlotsInv, NEW S \in SUBSET rsRunning, Crash(S) PROVE SlotsInv'
BY DEF SlotsInv, Crash, RedisSlotsTypeOK, LocksCounted, LockedIn, Locked, Outlives, Expires

\* What expires in a tick is a lock, or a counter whose locks have expired.
LEMMA TickInv == ASSUME SlotsInv, Tick PROVE SlotsInv'
<1> USE RedisSlotsAssumption DEF SlotsInv, Tick
<1>1. RedisSlotsTypeOK'
  BY DEF RedisSlotsTypeOK
<1>2. LocksCounted'
  <2> SUFFICES ASSUME NEW k \in RsScopes
               PROVE  Cardinality(LockedIn(k)') <= rsCount'[k] /\ rsCount'[k] <= RsLimit[k]
    BY DEF LocksCounted
  <2>1. Cardinality(LockedIn(k)) <= rsCount[k] /\ rsCount[k] <= RsLimit[k] /\ rsCount[k] \in Nat
    BY DEF LocksCounted, RedisSlotsTypeOK
  <2>2. CASE rsTtl[k] = 1
    <3>1. LockedIn(k)' = {}
      BY <2>2 DEF LockedIn, Locked, Outlives, RedisSlotsTypeOK
    <3>2. rsCount'[k] = 0 /\ RsLimit[k] \in Nat
      BY <2>2
    <3> QED BY <3>1, <3>2, FS_EmptySet
  <2>3. CASE rsTtl[k] # 1
    <3>1. LockedIn(k)' \subseteq LockedIn(k)
      BY DEF LockedIn, Locked, RedisSlotsTypeOK
    <3>2. Cardinality(LockedIn(k)') <= Cardinality(LockedIn(k))
      BY <3>1, LocksShrink
    <3> QED BY <2>1, <2>3, <3>2, FiniteLocks
  <2> QED BY <2>2, <2>3
<1>3. Outlives'
  <2> SUFFICES ASSUME NEW r \in RsRequests, NEW k \in RsScopes,
                      rsLock'[r] > 0, k \in RsScopesOf[r]
               PROVE  rsLock'[r] <= rsTtl'[k]
    BY DEF Outlives
  <2>1. rsLock[r] > 0 /\ rsLock'[r] = rsLock[r] - 1 /\ rsLock[r] \in Nat /\ rsTtl[k] \in Nat
    BY DEF RedisSlotsTypeOK
  <2>2. rsLock[r] <= rsTtl[k]
    BY <2>1 DEF Outlives
  <2> QED BY <2>1, <2>2
<1>4. Expires'
  <2> SUFFICES ASSUME NEW k \in RsScopes, rsCount'[k] > 0
               PROVE  rsTtl'[k] > 0 /\ rsTtl'[k] + rsQuiet'[k] <= LockTtl
    BY DEF Expires
  <2>1. rsTtl[k] \in Nat /\ rsQuiet[k] \in Nat /\ rsCount[k] > 0 /\ rsTtl[k] # 1
    BY DEF RedisSlotsTypeOK
  <2>2. rsTtl[k] > 0 /\ rsTtl[k] + rsQuiet[k] <= LockTtl
    BY <2>1 DEF Expires
  <2> QED BY <2>1, <2>2
<1> QED BY <1>1, <1>2, <1>3, <1>4

\* The inductive invariant.
THEOREM SlotsInvariance == RedisSlotsSpec => []SlotsInv
<1>1. SlotsInv /\ [RedisSlotsNext]_redisSlotsVars => SlotsInv'
  <2> SUFFICES ASSUME SlotsInv, [RedisSlotsNext]_redisSlotsVars PROVE SlotsInv'
    OBVIOUS
  <2>1. CASE UNCHANGED redisSlotsVars
    BY <2>1 DEF redisSlotsVars, SlotsInv, RedisSlotsTypeOK, LocksCounted, LockedIn, Locked,
                Outlives, Expires
  <2>2. CASE RedisSlotsNext
    BY <2>2, AcquireInv, ReleaseInv, CrashInv, TickInv DEF RedisSlotsNext
  <2> QED BY <2>1, <2>2
<1> QED BY SlotsInitInv, <1>1, PTL DEF RedisSlotsSpec

\* No counter forgets a lock, and no scope has more locks than its limit.
THEOREM EveryLockCounted == RedisSlotsSpec => []LocksCounted
<1>1. SlotsInv => LocksCounted
  BY DEF SlotsInv
<1> QED BY SlotsInvariance, <1>1, PTL

\* A scope in which nothing was granted for the time of a lock starts from 0.
THEOREM HealsWhenQuiet == RedisSlotsSpec => []QuietHeals
<1>1. SlotsInv => QuietHeals
  <2> SUFFICES ASSUME SlotsInv, NEW k \in RsScopes, rsQuiet[k] >= LockTtl, rsCount[k] # 0
               PROVE  FALSE
    BY DEF QuietHeals
  <2>1. rsCount[k] > 0 /\ rsTtl[k] \in Nat /\ rsQuiet[k] \in Nat /\ LockTtl \in Nat
    BY RedisSlotsAssumption DEF SlotsInv, RedisSlotsTypeOK
  <2>2. rsTtl[k] > 0 /\ rsTtl[k] + rsQuiet[k] <= LockTtl
    BY <2>1 DEF SlotsInv, Expires
  <2> QED BY <2>1, <2>2
<1> QED BY SlotsInvariance, <1>1, PTL

----------------------------------------------------------------------------
\* The abstract specification measures sets the same way.
LEMMA SameCardinality == \A S : Leases!Cardinality(S) = Cardinality(S)
BY DEF Leases!Cardinality, Cardinality

\* Whatever becomes of the counters, the locks are leases within the limits.
THEOREM ImplementsLeases == RedisSlotsSpec => LeaseSpec
<1>1. RedisSlotsInit => Leases!Init
  BY DEF RedisSlotsInit, Leases!Init, Locked
<1>2. ASSUME SlotsInv, NEW r \in RsRequests, Acquire(r) PROVE Leases!Grant(r)
  <2>1. r \notin Locked /\ Locked' = Locked \cup {r}
    BY <1>2, RedisSlotsAssumption DEF Acquire, Locked, SlotsInv, RedisSlotsTypeOK
  <2>2. ASSUME NEW k \in RsScopesOf[r]
        PROVE  Cardinality(Leases!InScope(Locked \cup {r}, k)) <= RsLimit[k]
    <3>1. k \in RsScopes
      BY RedisSlotsAssumption
    <3>2. Leases!InScope(Locked \cup {r}, k) = LockedIn(k)'
      BY <2>1 DEF Leases!InScope, LockedIn
    <3>3. Cardinality(LockedIn(k)') <= rsCount'[k] /\ rsCount'[k] <= RsLimit[k]
      BY <1>2, <3>1, AcquireInv DEF SlotsInv, LocksCounted
    <3>4. rsCount'[k] \in Nat /\ RsLimit[k] \in Nat
      BY <1>2, <3>1, AcquireInv, RedisSlotsAssumption DEF SlotsInv, RedisSlotsTypeOK
    <3> QED BY <3>2, <3>3, <3>4, FiniteLocks
  <2>3. \A k \in RsScopesOf[r] : Leases!Cardinality(Leases!InScope(Locked \cup {r}, k)) <= RsLimit[k]
    BY <2>2, SameCardinality
  <2> QED BY <2>1, <2>3 DEF Leases!Grant
<1>3. ASSUME Locked' \subseteq Locked PROVE Leases!Next
  <2>1. Locked' = Locked \ (Locked \ Locked')
    BY <1>3
  <2> QED BY <2>1 DEF Leases!Next, Leases!End
<1>4. ASSUME SlotsInv, NEW r \in RsRequests, ReleaseSlots(r) PROVE Locked' \subseteq Locked
  BY <1>4 DEF ReleaseSlots, Locked, SlotsInv, RedisSlotsTypeOK
<1>5. ASSUME SlotsInv, Tick PROVE Locked' \subseteq Locked
  BY <1>5 DEF Tick, Locked, SlotsInv, RedisSlotsTypeOK
<1>6. SlotsInv /\ [RedisSlotsNext]_redisSlotsVars => [Leases!Next]_Locked
  <2> SUFFICES ASSUME SlotsInv, [RedisSlotsNext]_redisSlotsVars PROVE [Leases!Next]_Locked
    OBVIOUS
  <2>1. CASE UNCHANGED redisSlotsVars
    BY <2>1 DEF redisSlotsVars, Locked
  <2>2. ASSUME NEW r \in RsRequests, Acquire(r) PROVE Leases!Next
    BY <1>2, <2>2 DEF Leases!Next
  <2>3. ASSUME NEW S \in SUBSET rsRunning, Crash(S) PROVE Locked' = Locked
    BY <2>3 DEF Crash, Locked
  <2> QED BY <2>1, <2>2, <2>3, <1>3, <1>4, <1>5 DEF RedisSlotsNext
<1> QED BY <1>1, <1>6, SlotsInvariance, PTL DEF RedisSlotsSpec, LeaseSpec, Leases!Spec

-----------------------------------------------------------------------------
(* Discovery.  While a breaker is half open its count of successes is       *)
(* covered by checks that succeeded in a row: entering the state empties    *)
(* the count, and a failure leaves the state.                               *)

\* The successes a half open breaker counts were in a row, and not enough yet.
Covered ==
  \A a \in DiscAgents :
    discState[a] = "HALF_OPEN" =>
      discSuccesses[a] <= discStreak[a] /\ discSuccesses[a] < SuccessThreshold

DiscInv == /\ DiscTypeOK
       /\ discStreak \in [DiscAgents -> 0 .. SuccessThreshold]
       /\ Covered

----------------------------------------------------------------------------
\* Every breaker is closed at the start.
LEMMA DiscStart == DiscInit => DiscInv
BY DiscoveryAssumption DEF DiscInit, DiscInv, DiscTypeOK, Covered

\* Whoever asks a breaker that has cooled down starts its count from 0.
LEMMA AttemptedInv ==
  ASSUME DiscInv, NEW a \in DiscAgents, Attempted(a),
         UNCHANGED <<discFailures, discAge, discStreak>>,
         discChecks' \in [DiscAgents -> 0 .. MaxChecks]
  PROVE  DiscInv'
<1> USE DiscoveryAssumption DEF DiscInv, DiscTypeOK, Attempted
<1>1. DiscTypeOK' /\ discStreak' \in [DiscAgents -> 0 .. SuccessThreshold]
  <2>1. discState' \in [DiscAgents -> {"CLOSED", "OPEN", "HALF_OPEN"}]
    OBVIOUS
  <2>2. discSuccesses' \in [DiscAgents -> 0 .. SuccessThreshold]
    OBVIOUS
  <2> QED BY <2>1, <2>2
<1>2. Covered'
  <2> SUFFICES ASSUME NEW b \in DiscAgents, discState'[b] = "HALF_OPEN"
               PROVE  /\ discSuccesses'[b] <= discStreak'[b]
                      /\ discSuccesses'[b] < SuccessThreshold
    BY DEF Covered
  <2>1. CASE b = a /\ CooledDown(a)
    BY <2>1
  <2>2. CASE ~ (b = a /\ CooledDown(a))
    BY <2>2 DEF Covered
  <2> QED BY <2>1, <2>2
<1> QED BY <1>1, <1>2

\* A check that succeeds: both counts grow, and the breaker closes when they
\* reach the threshold.
LEMMA SuccessInv ==
  ASSUME DiscInv, NEW a \in DiscAgents, EndCheck(a), a \in discUp
  PROVE  /\ DiscInv'
         /\ \A b \in DiscAgents : discState[b] # "CLOSED" /\ discState'[b] = "CLOSED" =>
              discStreak'[b] >= SuccessThreshold
<1> USE DiscoveryAssumption DEF DiscInv, DiscTypeOK
<1>1. /\ RecordSuccess(a)
      /\ discChecks' = [discChecks EXCEPT ![a] = @ - 1] /\ discChecks[a] > 0
      /\ discStreak' = [discStreak EXCEPT ![a] = IF @ < SuccessThreshold THEN @ + 1 ELSE @]
  BY DEF EndCheck
<1>2. discState[a] = "HALF_OPEN" =>
        discSuccesses[a] <= discStreak[a] /\ discSuccesses[a] < SuccessThreshold
  BY DEF Covered
<1>3. discStreak' \in [DiscAgents -> 0 .. SuccessThreshold]
  BY <1>1
<1>4. /\ discState' \in [DiscAgents -> {"CLOSED", "OPEN", "HALF_OPEN"}]
      /\ discFailures' \in [DiscAgents -> 0 .. FailureThreshold]
      /\ discAge' = discAge
      /\ discChecks' \in [DiscAgents -> 0 .. MaxChecks]
  BY <1>1 DEF RecordSuccess
<1>5. discSuccesses' \in [DiscAgents -> 0 .. SuccessThreshold]
  BY <1>1, <1>2 DEF RecordSuccess
<1>6. Covered'
  <2> SUFFICES ASSUME NEW b \in DiscAgents, discState'[b] = "HALF_OPEN"
               PROVE  /\ discSuccesses'[b] <= discStreak'[b]
                      /\ discSuccesses'[b] < SuccessThreshold
    BY DEF Covered
  <2>1. CASE b = a
    BY <1>1, <1>2, <2>1 DEF RecordSuccess, Closes
  <2>2. CASE b # a
    BY <1>1, <2>2 DEF RecordSuccess, Covered
  <2> QED BY <2>1, <2>2
<1>7. ASSUME NEW b \in DiscAgents, discState[b] # "CLOSED", discState'[b] = "CLOSED"
      PROVE  discStreak'[b] >= SuccessThreshold
  <2>1. b = a /\ Closes(a)
    BY <1>1, <1>7 DEF RecordSuccess
  <2> QED BY <1>1, <1>2, <2>1 DEF Closes
<1> QED BY <1>3, <1>4, <1>5, <1>6, <1>7

\* A check that fails leaves no breaker half open, and closes none.
LEMMA FailureInv ==
  ASSUME DiscInv, NEW a \in DiscAgents, EndCheck(a), a \notin discUp
  PROVE  /\ DiscInv'
         /\ \A b \in DiscAgents : discState[b] # "CLOSED" => discState'[b] # "CLOSED"
<1> USE DiscoveryAssumption DEF DiscInv, DiscTypeOK
<1>1. /\ RecordFailure(a)
      /\ discChecks' = [discChecks EXCEPT ![a] = @ - 1] /\ discChecks[a] > 0
      /\ discStreak' = [discStreak EXCEPT ![a] = 0]
  BY DEF EndCheck
<1>2. DiscTypeOK' /\ discStreak' \in [DiscAgents -> 0 .. SuccessThreshold]
  BY <1>1 DEF RecordFailure
<1>3. Covered'
  BY <1>1 DEF RecordFailure, Opens, Covered
<1>4. ASSUME NEW b \in DiscAgents, discState[b] # "CLOSED" PROVE discState'[b] # "CLOSED"
  BY <1>1, <1>4 DEF RecordFailure
<1> QED BY <1>2, <1>3, <1>4

\* What preserves the invariant and earns every close, step by step.
LEMMA DiscSteps ==
  ASSUME DiscInv, [DiscNext]_discVars
  PROVE  /\ DiscInv'
         /\ \A a \in DiscAgents : discState[a] # "CLOSED" /\ discState'[a] = "CLOSED" =>
              discStreak'[a] >= SuccessThreshold
<1> DEFINE Earned == \A a \in DiscAgents :
             discState[a] # "CLOSED" /\ discState'[a] = "CLOSED" =>
               discStreak'[a] >= SuccessThreshold
<1>1. ASSUME NEW a \in DiscAgents, Attempted(a) PROVE Earned
  BY <1>1 DEF Attempted, DiscInv, DiscTypeOK
<1>2. ASSUME NEW a \in DiscAgents, Resolve(a) PROVE DiscInv' /\ Earned
  BY <1>1, <1>2, AttemptedInv DEF Resolve, DiscInv, DiscTypeOK
<1>3. ASSUME NEW a \in DiscAgents, StartCheck(a) PROVE DiscInv' /\ Earned
  <2>1. discChecks' \in [DiscAgents -> 0 .. MaxChecks]
    BY <1>3, DiscoveryAssumption DEF StartCheck, DiscInv, DiscTypeOK
  <2>2. CASE discMode = "kubernetes"
    BY <1>1, <1>3, <2>1, <2>2, AttemptedInv DEF StartCheck
  <2>3. CASE discMode # "kubernetes"
    BY <1>3, <2>1, <2>3 DEF StartCheck, DiscInv, DiscTypeOK, Covered
  <2> QED BY <2>2, <2>3
<1>4. ASSUME NEW a \in DiscAgents, EndCheck(a) PROVE DiscInv' /\ Earned
  BY <1>4, SuccessInv, FailureInv
<1>5. ASSUME NEW a \in DiscAgents, GoesDown(a) \/ ComesBack(a) PROVE DiscInv' /\ Earned
  BY <1>5 DEF GoesDown, ComesBack, discBreakers, DiscInv, DiscTypeOK, Covered
<1>6. ASSUME DiscTick PROVE DiscInv' /\ Earned
  BY <1>6, DiscoveryAssumption DEF DiscTick, DiscInv, DiscTypeOK, Covered
<1>7. CASE UNCHANGED discVars
  BY <1>7 DEF discVars, DiscInv, DiscTypeOK, Covered
<1>8. CASE DiscNext
  BY <1>8, <1>2, <1>3, <1>4, <1>5, <1>6 DEF DiscNext
<1> QED BY <1>7, <1>8

\* Every breaker keeps its type.
THEOREM DiscTypeCorrect == DiscSpec => []DiscTypeOK
<1>1. DiscInv /\ [DiscNext]_discVars => DiscInv'
  BY DiscSteps
<1>2. DiscInv => DiscTypeOK
  BY DEF DiscInv
<1> QED BY DiscStart, <1>1, <1>2, PTL DEF DiscSpec

\* No breaker closes but on a row of successes, whatever answers come late.
THEOREM ClosesOnlyEarned == DiscSpec => CloseEarned
<1>1. DiscInv /\ [DiscNext]_discVars => DiscInv'
  BY DiscSteps
<1>2. DiscInv /\ [DiscNext]_discVars =>
        [\A a \in DiscAgents : discState[a] # "CLOSED" /\ discState'[a] = "CLOSED" =>
           discStreak'[a] >= SuccessThreshold]_discVars
  BY DiscSteps
<1> QED BY DiscStart, <1>1, <1>2, PTL DEF DiscSpec, CloseEarned

-----------------------------------------------------------------------------
(* The message bus.  An id is forgotten in two ways only: its entry expires, *)
(* and is then out of the history too, or it is among the oldest fifth when  *)
(* there are too many, and then as many others have been handled since as    *)
(* are left.  What is remembered therefore stands no farther from the end of *)
(* the list than from the end of the history.                                *)

BusSpec == BusInit /\ [][BusNext]_busVars

\* No id stands in the list twice.
Apart(ids) == \A i, j \in 1 .. Len(ids) : ids[i] = ids[j] => i = j

\* ids are remembered of what was executed.
Remembers(ids, executed) ==
  /\ ids \in Seq(BusCalls) /\ Apart(ids)
  /\ executed \in Seq(BusCalls \cup {Everyone})
  /\ \A i \in 1 .. Len(executed) : \A k \in 1 .. Len(ids) :
       executed[i] = ids[k] => Len(ids) - k <= Len(executed) - i
  /\ \A i \in 1 .. Len(executed) :
       \/ executed[i] = Everyone
       \/ \E k \in 1 .. Len(ids) : ids[k] = executed[i]
       \/ i + (MaxProcessed - RemoveCount + 1) <= Len(executed)

\* What NotRepeatedSoon says of the history of one process.
NotRepeated(executed) ==
  \A i, j \in 1 .. Len(executed) :
    (i < j /\ executed[i] = executed[j] /\ executed[i] # Everyone) =>
       j - i > MaxProcessed - RemoveCount + 1

\* On the local bus nothing is remembered, and a call is made once.
CalledOnce(executed, call) ==
  /\ executed \in Seq(BusCalls) /\ Apart(executed)
  /\ \A i \in 1 .. Len(executed) : call[executed[i]] # "new"

\* Calls, processes and ids are what their names say.
BusTyped ==
  /\ busMode \in {"local", "redis"}
  /\ busCall = [id \in BusCalls |-> busCall[id]]
  /\ busPromise \in [BusCalls -> {"none", "open", "resolved", "rejected"}]
  /\ busProcessed = [p \in BusProcs |-> busProcessed[p]]
  /\ busExecuted = [p \in BusProcs |-> busExecuted[p]]
  /\ \A d \in busNet : d.id \in BusCalls /\ d.at \in BusProcs
  /\ \A r \in busRunning : r.id \in BusCalls

LocalBusInv ==
  busMode = "local" =>
    /\ busNet = {}
    /\ \A p \in BusProcs : busProcessed[p] = << >> /\ CalledOnce(busExecuted[p], busCall)

\* Over Redis every process remembers what it executed.
RedisBusInv ==
  busMode = "redis" =>
    \A p \in BusProcs : Remembers(busProcessed[p], busExecuted[p]) /\ NotRepeated(busExecuted[p])

\* The entry of a request stands before publish is called, and one that waits
\* has it still.
PromiseInv ==
  /\ busMode = "local" => \A id \in BusCalls :
       busPromise[id] = "none" /\ busCall[id] \notin {"publishing", "published"}
  /\ busMode = "redis" => \A id \in BusCalls :
       /\ IsRequest(id) /\ busCall[id] \in {"publishing", "published", "waiting"} => busPromise[id] # "none"
       /\ busCall[id] = "waiting" => busPromise[id] = "open"

BusInv == BusTyped /\ LocalBusInv /\ RedisBusInv /\ PromiseInv

\* An id that is not in the list is executed and noted.
LEMMA NotedKeeps ==
  ASSUME NEW ids, NEW executed, NEW id \in BusCalls, Remembers(ids, executed), NotRepeated(executed),
         \A k \in 1 .. Len(ids) : ids[k] # id
  PROVE  Remembers(IdNoted(ids, id), Append(executed, id)) /\ NotRepeated(Append(executed, id))
<1>1. /\ ids \in Seq(BusCalls) /\ Apart(ids)
      /\ executed \in Seq(BusCalls \cup {Everyone}) /\ id # Everyone
  BY BusAssumption DEF Remembers
<1>2. PICK all \in Seq(BusCalls) : all = Append(ids, id)
  <2>1. Append(ids, id) \in Seq(BusCalls)
    BY <1>1, AppendProperties
  <2> QED BY <2>1
<1>3. PICK done \in Seq(BusCalls \cup {Everyone}) : done = Append(executed, id)
  <2>1. Append(executed, id) \in Seq(BusCalls \cup {Everyone})
    BY <1>1, AppendProperties
  <2> QED BY <2>1
<1>4. PICK n \in Nat : n = Len(ids)
  BY <1>1
<1>5. PICK m \in Nat : m = Len(executed)
  BY <1>1
<1>6. Len(all) = n + 1 /\ all[n + 1] = id /\ \A k \in 1 .. n : all[k] = ids[k]
  BY <1>1, <1>2, <1>4, AppendProperties
<1>7. Len(done) = m + 1 /\ done[m + 1] = id /\ \A i \in 1 .. m : done[i] = executed[i]
  BY <1>1, <1>3, <1>5, AppendProperties
<1>8. PICK keep \in Nat : keep = MaxProcessed - RemoveCount + 1 /\ RemoveCount \in Nat
                          /\ keep + RemoveCount = MaxProcessed + 1
  BY BusAssumption
<1>9. \A i \in 1 .. m + 1 : i \in 1 .. m \/ i = m + 1
  BY <1>5
<1>10. \A k \in 1 .. n + 1 : k \in 1 .. n \/ k = n + 1
  BY <1>4
<1>11. Apart(all)
  <2> SUFFICES ASSUME NEW k \in 1 .. n + 1, NEW l \in 1 .. n + 1, all[k] = all[l] PROVE k = l
    BY <1>6 DEF Apart
  <2>1. CASE k \in 1 .. n /\ l \in 1 .. n
    BY <1>1, <1>4, <1>6, <2>1 DEF Apart
  <2>2. CASE k = n + 1 /\ l \in 1 .. n
    BY <1>4, <1>6, <2>2
  <2>3. CASE k \in 1 .. n /\ l = n + 1
    BY <1>4, <1>6, <2>3
  <2>4. CASE k = n + 1 /\ l = n + 1
    BY <2>4
  <2> QED BY <1>10, <2>1, <2>2, <2>3, <2>4
<1>12. ASSUME NEW i \in 1 .. m + 1, NEW k \in 1 .. n + 1, done[i] = all[k]
       PROVE  n + 1 - k <= m + 1 - i
  <2>1. CASE k = n + 1
    BY <1>4, <1>5, <2>1
  <2>2. CASE k \in 1 .. n /\ i = m + 1
    BY <1>4, <1>6, <1>7, <1>12, <2>2
  <2>3. CASE k \in 1 .. n /\ i \in 1 .. m
    <3>1. executed[i] = ids[k]
      BY <1>6, <1>7, <1>12, <2>3
    <3>2. n - k <= m - i
      BY <1>4, <1>5, <2>3, <3>1 DEF Remembers
    <3> QED BY <1>4, <1>5, <2>3, <3>2
  <2> QED BY <1>9, <1>10, <2>1, <2>2, <2>3
<1>13. ASSUME NEW i \in 1 .. m + 1
       PROVE  \/ done[i] = Everyone
              \/ \E k \in 1 .. n + 1 : all[k] = done[i]
              \/ i + keep <= m + 1
  <2>1. CASE i = m + 1
    <3>1. n + 1 \in 1 .. n + 1
      BY <1>4
    <3> QED BY <1>6, <1>7, <2>1, <3>1
  <2>2. CASE i \in 1 .. m
    <3>1. \/ executed[i] = Everyone
          \/ \E k \in 1 .. n : ids[k] = executed[i]
          \/ i + keep <= m
      BY <1>4, <1>5, <1>8, <2>2 DEF Remembers
    <3>2. CASE executed[i] = Everyone
      BY <1>7, <2>2, <3>2
    <3>3. CASE i + keep <= m
      BY <1>5, <1>8, <2>2, <3>3
    <3>4. ASSUME NEW k \in 1 .. n, ids[k] = executed[i] PROVE k \in 1 .. n + 1 /\ all[k] = done[i]
      BY <1>4, <1>6, <1>7, <2>2, <3>4
    <3> QED BY <3>1, <3>2, <3>3, <3>4
  <2> QED BY <1>9, <2>1, <2>2
<1>14. NotRepeated(done)
  <2> SUFFICES ASSUME NEW i \in 1 .. m + 1, NEW j \in 1 .. m + 1,
                      i < j, done[i] = done[j], done[i] # Everyone
               PROVE  j - i > keep
    BY <1>7, <1>8 DEF NotRepeated
  <2>1. i \in 1 .. m /\ done[i] = executed[i]
    BY <1>5, <1>7
  <2>2. CASE j \in 1 .. m
    <3>1. done[j] = executed[j]
      BY <1>7, <2>2
    <3> QED BY <1>5, <1>8, <2>1, <2>2, <3>1 DEF NotRepeated
  <2>3. CASE j = m + 1
    <3>1. executed[i] = id
      BY <1>7, <2>1, <2>3
    <3>2. i + keep <= m
      BY <1>1, <1>4, <1>5, <1>8, <2>1, <3>1 DEF Remembers
    <3> QED BY <1>5, <1>8, <2>1, <2>3, <3>2
  <2> QED BY <1>9, <2>2, <2>3
<1>15. CASE Len(all) <= MaxProcessed
  <2>1. IdNoted(ids, id) = all
    <3>1. ~(Len(all) > MaxProcessed)
      BY <1>4, <1>6, <1>15, BusAssumption
    <3> QED BY <1>2, <3>1 DEF IdNoted
  <2>2. Remembers(all, done)
    BY <1>6, <1>7, <1>8, <1>11, <1>12, <1>13, <1>15 DEF Remembers
  <2> QED BY <1>3, <1>14, <2>1, <2>2
<1>16. CASE ~(Len(all) <= MaxProcessed)
  <2>1. n + 1 > MaxProcessed /\ Len(all) > MaxProcessed /\ MaxProcessed \in Nat /\ RemoveCount <= MaxProcessed
    BY <1>4, <1>6, <1>16, BusAssumption
  <2>2. PICK kept \in Nat : n + 1 = kept + RemoveCount /\ keep <= kept /\ 1 <= kept
    <3>1. n + 1 - RemoveCount \in Nat /\ keep <= n + 1 - RemoveCount /\ 1 <= n + 1 - RemoveCount
      BY <1>4, <1>8, <2>1
    <3>2. n + 1 = (n + 1 - RemoveCount) + RemoveCount
      BY <1>4, <1>8
    <3> QED BY <3>1, <3>2
  <2>3. PICK left : left = SubSeq(all, RemoveCount + 1, Len(all))
    OBVIOUS
  <2>4. IdNoted(ids, id) = left
    BY <1>2, <2>1, <2>3 DEF IdNoted
  <2>5. left \in Seq(BusCalls) /\ Len(left) = kept /\ \A k \in 1 .. kept : left[k] = all[RemoveCount + k]
    <3>1. /\ RemoveCount + 1 \in Int /\ Len(all) \in Int
          /\ Len(all) - (RemoveCount + 1) + 1 = kept
          /\ RemoveCount + 1 <= Len(all)
          /\ \A k \in 1 .. kept : RemoveCount + 1 + k - 1 = RemoveCount + k
      <4>1. RemoveCount + 1 \in Int /\ Len(all) \in Int /\ RemoveCount + 1 <= Len(all)
        BY <1>6, <1>8, <2>2
      <4>2. Len(all) - (RemoveCount + 1) + 1 = kept
        BY <1>6, <1>8, <2>2
      <4>3. \A k \in 1 .. kept : RemoveCount + 1 + k - 1 = RemoveCount + k
        BY <1>8, <2>2
      <4> QED BY <4>1, <4>2, <4>3
    <3>2. \A k \in RemoveCount + 1 .. Len(all) : all[k] \in BusCalls
      <4>1. \A k \in RemoveCount + 1 .. Len(all) : k \in 1 .. Len(all)
        BY <1>6, <1>8
      <4> QED BY <4>1
    <3> QED BY <2>3, <3>1, <3>2, SubSeqProperties
  <2>6. \A k \in 1 .. kept : RemoveCount + k \in 1 .. n + 1
    BY <1>8, <2>2
  <2>7. Apart(left)
    <3> SUFFICES ASSUME NEW k \in 1 .. kept, NEW l \in 1 .. kept, left[k] = left[l] PROVE k = l
      BY <2>5 DEF Apart
    <3>1. RemoveCount + k = RemoveCount + l
      BY <1>6, <1>11, <2>5, <2>6 DEF Apart
    <3> QED BY <1>8, <3>1
  <2>8. ASSUME NEW i \in 1 .. m + 1, NEW k \in 1 .. kept, done[i] = left[k]
        PROVE  kept - k <= m + 1 - i
    <3>1. n + 1 - (RemoveCount + k) <= m + 1 - i
      BY <1>12, <2>5, <2>6, <2>8
    <3> QED BY <1>8, <2>2, <3>1
  <2>9. ASSUME NEW i \in 1 .. m + 1
        PROVE  \/ done[i] = Everyone
               \/ \E k \in 1 .. kept : left[k] = done[i]
               \/ i + keep <= m + 1
    <3>1. ASSUME NEW k \in 1 .. n + 1, all[k] = done[i]
          PROVE  \/ \E l \in 1 .. kept : left[l] = done[i]
                 \/ i + keep <= m + 1
      <4>1. CASE k <= RemoveCount
        <5>1. n + 1 - k <= m + 1 - i
          BY <1>12, <3>1
        <5> QED BY <1>4, <1>5, <1>8, <2>2, <4>1, <5>1
      <4>2. CASE ~(k <= RemoveCount)
        <5>1. k - RemoveCount \in 1 .. kept /\ RemoveCount + (k - RemoveCount) = k
          BY <1>4, <1>8, <2>2, <4>2
        <5>2. left[k - RemoveCount] = done[i]
          BY <2>5, <3>1, <5>1
        <5> QED BY <5>1, <5>2
      <4> QED BY <4>1, <4>2
    <3> QED BY <1>13, <3>1
  <2>10. Remembers(left, done)
    BY <1>7, <1>8, <2>5, <2>7, <2>8, <2>9 DEF Remembers
  <2> QED BY <1>3, <1>14, <2>4, <2>10
<1> QED BY <1>15, <1>16

\* The entry of an id expires.
LEMMA ExpiredKeeps ==
  ASSUME NEW ids, NEW executed, NEW id \in BusCalls, Remembers(ids, executed), NotRepeated(executed),
         NEW done, done = [i \in DOMAIN executed |-> IF executed[i] = id THEN Everyone ELSE executed[i]]
  PROVE  Remembers(Only(ids, BusCalls \ {id}), done) /\ NotRepeated(done)
<1>1. /\ ids \in Seq(BusCalls) /\ Apart(ids)
      /\ executed \in Seq(BusCalls \cup {Everyone}) /\ id # Everyone
  BY BusAssumption DEF Remembers
<1>2. PICK m \in Nat : m = Len(executed)
  BY <1>1
<1>3. PICK n \in Nat : n = Len(ids)
  BY <1>1
<1>4. DOMAIN executed = 1 .. m /\ \A i \in 1 .. m : executed[i] \in BusCalls \cup {Everyone}
  BY <1>1, <1>2
<1>5. done \in Seq(BusCalls \cup {Everyone}) /\ Len(done) = m
  <2>1. done \in [1 .. m -> BusCalls \cup {Everyone}]
    BY <1>4
  <2>2. done \in Seq(BusCalls \cup {Everyone})
    BY <1>2, <2>1, IsASeq
  <2>3. Len(done) = m
    BY <1>2, <2>1, <2>2, LenProperties
  <2> QED BY <2>2, <2>3
<1>6. \A i \in 1 .. m : done[i] = IF executed[i] = id THEN Everyone ELSE executed[i]
  BY <1>4
<1>7. \A i \in 1 .. m : done[i] # Everyone => done[i] = executed[i] /\ executed[i] # id
  BY <1>6
<1>8. PICK left \in Seq(BusCalls) : left = Only(ids, BusCalls \ {id})
  <2>1. Only(ids, BusCalls \ {id}) \in Seq(BusCalls)
    BY <1>1, OnlyFacts
  <2> QED BY <2>1
<1>9. PICK l \in Nat : l = Len(left)
  BY <1>8
<1>10. Apart(left)
  <2>1. \A i, j \in 1 .. Len(ids) : ids[i] = ids[j] => i = j
    BY <1>1 DEF Apart
  <2>2. \A i, j \in 1 .. Len(Only(ids, BusCalls \ {id})) :
          Only(ids, BusCalls \ {id})[i] = Only(ids, BusCalls \ {id})[j] => i = j
    BY <1>1, <2>1, OnlyDistinct
  <2> QED BY <1>8, <2>2 DEF Apart
<1>11. ASSUME NEW i \in 1 .. m, NEW k \in 1 .. l, done[i] = left[k]
       PROVE  l - k <= m - i
  <2>1. left[k] \in BusCalls
    BY <1>8, <1>9
  <2>2. done[i] = executed[i]
    BY <1>7, <1>11, <2>1, BusAssumption
  <2>3. PICK h \in 1 .. n : ids[h] = left[k] /\ l - k <= n - h
    <3>1. \A s \in Seq(BusCalls) : \A j \in 1 .. Len(Only(s, BusCalls \ {id})) :
            \E h \in 1 .. Len(s) : s[h] = Only(s, BusCalls \ {id})[j] /\ Len(Only(s, BusCalls \ {id})) - j <= Len(s) - h
      BY OnlyRank
    <3>2. \A j \in 1 .. Len(left) : \E h \in 1 .. Len(ids) : ids[h] = left[j] /\ Len(left) - j <= Len(ids) - h
      BY <1>1, <1>8, <3>1
    <3> QED BY <1>3, <1>9, <3>2
  <2>4. n - h <= m - i
    BY <1>2, <1>3, <1>11, <2>2, <2>3 DEF Remembers
  <2> QED BY <1>2, <1>3, <1>9, <2>3, <2>4
<1>12. ASSUME NEW i \in 1 .. m
       PROVE  \/ done[i] = Everyone
              \/ \E k \in 1 .. l : left[k] = done[i]
              \/ i + (MaxProcessed - RemoveCount + 1) <= m
  <2>1. CASE done[i] = Everyone
    BY <2>1
  <2>2. CASE done[i] # Everyone
    <3>1. done[i] = executed[i] /\ executed[i] # id
      BY <1>7, <2>2
    <3>2. \/ \E k \in 1 .. n : ids[k] = executed[i]
          \/ i + (MaxProcessed - RemoveCount + 1) <= m
      BY <1>2, <1>3, <2>2, <3>1 DEF Remembers
    <3>3. ASSUME NEW k \in 1 .. n, ids[k] = executed[i] PROVE \E j \in 1 .. l : left[j] = done[i]
      <4>1. ids[k] \in BusCalls \ {id}
        BY <1>1, <1>3, <3>1, <3>3
      <4>2. k \in 1 .. Len(ids)
        BY <1>3
      <4>3. PICK others : others = BusCalls \ {id}
        OBVIOUS
      <4>4. \E j \in 1 .. Len(Only(ids, others)) : Only(ids, others)[j] = ids[k]
        <5>1. ids \in Seq(BusCalls) /\ ids[k] \in others
          BY <1>1, <4>1, <4>3
        <5> QED BY <4>2, <5>1, OnlyKeepsIt
      <4> QED BY <1>8, <1>9, <3>1, <3>3, <4>3, <4>4
    <3> QED BY <3>2, <3>3
  <2> QED BY <2>1, <2>2
<1>13. NotRepeated(done)
  <2> SUFFICES ASSUME NEW i \in 1 .. m, NEW j \in 1 .. m, i < j, done[i] = done[j], done[i] # Everyone
               PROVE  j - i > MaxProcessed - RemoveCount + 1
    BY <1>5 DEF NotRepeated
  <2>1. executed[i] = executed[j] /\ executed[i] # Everyone
    BY <1>7
  <2> QED BY <1>2, <2>1 DEF NotRepeated
<1>14. Remembers(left, done)
  BY <1>5, <1>8, <1>9, <1>10, <1>11, <1>12 DEF Remembers
<1> QED BY <1>8, <1>13, <1>14

\* At the start nothing is remembered or executed.
LEMMA NoneRemembered == Remembers(<< >>, << >>) /\ NotRepeated(<< >>)
<1>1. << >> \in Seq(BusCalls) /\ << >> \in Seq(BusCalls \cup {Everyone}) /\ Len(<< >>) = 0
  OBVIOUS
<1> QED BY <1>1 DEF Remembers, NotRepeated, Apart

\* On the local bus a new call is executed, here or in another process.
LEMMA CalledKeeps ==
  ASSUME NEW executed, NEW call, NEW new, NEW id \in BusCalls, CalledOnce(executed, call), call[id] = "new",
         new[id] # "new", \A h \in BusCalls : call[h] # "new" => new[h] # "new"
  PROVE  CalledOnce(executed, new) /\ CalledOnce(Append(executed, id), new)
<1>1. executed \in Seq(BusCalls)
  BY DEF CalledOnce
<1>2. PICK m \in Nat : m = Len(executed)
  BY <1>1
<1>3. PICK done \in Seq(BusCalls) : done = Append(executed, id)
  <2>1. Append(executed, id) \in Seq(BusCalls)
    BY <1>1, AppendProperties
  <2> QED BY <2>1
<1>4. Len(done) = m + 1 /\ done[m + 1] = id /\ \A i \in 1 .. m : done[i] = executed[i]
  BY <1>1, <1>2, <1>3, AppendProperties
<1>5. \A i \in 1 .. m : executed[i] \in BusCalls /\ call[executed[i]] # "new"
  BY <1>1, <1>2 DEF CalledOnce
<1>6. \A i \in 1 .. m : executed[i] # id /\ new[executed[i]] # "new"
  BY <1>5
<1>7. \A i \in 1 .. m + 1 : i \in 1 .. m \/ i = m + 1
  BY <1>2
<1>8. CalledOnce(executed, new)
  BY <1>2, <1>6 DEF CalledOnce
<1>9. Apart(done)
  <2> SUFFICES ASSUME NEW i \in 1 .. m + 1, NEW j \in 1 .. m + 1, done[i] = done[j] PROVE i = j
    BY <1>4 DEF Apart
  <2>1. CASE i \in 1 .. m /\ j \in 1 .. m
    BY <1>2, <1>4, <2>1 DEF CalledOnce, Apart
  <2>2. CASE i = m + 1 /\ j \in 1 .. m
    BY <1>4, <1>6, <2>2
  <2>3. CASE i \in 1 .. m /\ j = m + 1
    BY <1>4, <1>6, <2>3
  <2>4. CASE i = m + 1 /\ j = m + 1
    BY <2>4
  <2> QED BY <1>7, <2>1, <2>2, <2>3, <2>4
<1>10. \A i \in 1 .. m + 1 : new[done[i]] # "new"
  BY <1>4, <1>6, <1>7
<1>11. CalledOnce(done, new)
  BY <1>4, <1>9, <1>10 DEF CalledOnce
<1> QED BY <1>3, <1>8, <1>11

\* No call becomes new again.
LEMMA CalledStays ==
  ASSUME NEW executed, NEW call, NEW new, CalledOnce(executed, call),
         \A h \in BusCalls : call[h] # "new" => new[h] # "new"
  PROVE  CalledOnce(executed, new)
BY DEF CalledOnce

\* The invariant holds at the start ...
LEMMA BusInitInv == BusInit => BusInv
BY NoneRemembered DEF BusInit, BusInv, BusTyped, LocalBusInv, RedisBusInv, PromiseInv, CalledOnce, Apart

\* An action that leaves the lists and the history alone and makes no call new.
LEMMA BusCallsMove ==
  ASSUME BusInv, BusTyped', PromiseInv', busMode' = busMode, UNCHANGED <<busProcessed, busExecuted>>,
         \A h \in BusCalls : busCall[h] # "new" => busCall'[h] # "new",
         busMode = "local" => busNet' = {}
  PROVE  BusInv'
<1>1. LocalBusInv'
  <2> SUFFICES ASSUME busMode = "local", NEW p \in BusProcs
               PROVE  busProcessed[p] = << >> /\ CalledOnce(busExecuted[p], busCall')
    BY DEF LocalBusInv
  <2>1. busProcessed[p] = << >> /\ CalledOnce(busExecuted[p], busCall)
    BY DEF BusInv, LocalBusInv
  <2> QED BY <2>1, CalledStays
<1>2. RedisBusInv'
  BY DEF BusInv, RedisBusInv
<1> QED BY <1>1, <1>2 DEF BusInv

\* Settling promises that are open makes no call new and leaves none waiting
\* without its entry.
LEMMA SettleKeeps ==
  ASSUME BusInv, busMode' = busMode, NEW ids, NEW how \in {"resolved", "rejected"}, Settle(ids, how),
         \A id \in ids : busPromise[id] = "open"
  PROVE  /\ busCall' = [h \in BusCalls |-> busCall'[h]]
         /\ busPromise' \in [BusCalls -> {"none", "open", "resolved", "rejected"}]
         /\ \A h \in BusCalls : busCall[h] # "new" => busCall'[h] # "new"
         /\ PromiseInv'
<1>1. \A h \in BusCalls : /\ busPromise'[h] = IF h \in ids THEN how ELSE busPromise[h]
                          /\ busCall'[h] = IF h \in ids /\ busCall[h] = "waiting" THEN how ELSE busCall[h]
  BY DEF Settle
<1>2. busCall' = [h \in BusCalls |-> busCall'[h]]
  BY DEF Settle
<1>3. busPromise' \in [BusCalls -> {"none", "open", "resolved", "rejected"}]
  BY DEF Settle, BusInv, BusTyped
<1>4. PromiseInv'
  <2>1. PromiseInv
    BY DEF BusInv
  <2>2. ASSUME busMode = "local", NEW h \in BusCalls
        PROVE  busPromise'[h] = "none" /\ busCall'[h] \notin {"publishing", "published"}
    BY <1>1, <2>1, <2>2 DEF PromiseInv
  <2>3. ASSUME busMode = "redis", NEW h \in BusCalls
        PROVE  /\ IsRequest(h) /\ busCall'[h] \in {"publishing", "published", "waiting"} => busPromise'[h] # "none"
               /\ busCall'[h] = "waiting" => busPromise'[h] = "open"
    BY <1>1, <2>1, <2>3 DEF PromiseInv
  <2> QED BY <2>2, <2>3 DEF PromiseInv, IsRequest
<1> QED BY <1>1, <1>2, <1>3, <1>4

\* ... and every step keeps it.
LEMMA BusStep == BusInv /\ [BusNext]_busVars => BusInv'
<1> SUFFICES ASSUME BusInv, [BusNext]_busVars PROVE BusInv'
  OBVIOUS
<1>0. BusTyped /\ LocalBusInv /\ RedisBusInv /\ PromiseInv
  BY DEF BusInv
<1>1. ASSUME NEW id \in BusCalls, CallLocally(id) PROVE BusInv'
  <2>1. /\ busMode = "local" /\ busMode' = "local" /\ busCall[id] = "new" /\ BusHome[id] \in BusProcs
        /\ UNCHANGED <<busMode, busRegistered, busPromise, busNet, busProcessed, busRepeats>>
    BY <1>1, BusAssumption DEF CallLocally
  <2>2. busCall'[id] # "new" /\ \A h \in BusCalls : busCall[h] # "new" => busCall'[h] # "new"
    BY <1>0, <1>1 DEF CallLocally, BusTyped
  <2>3. PICK agents : busExecuted' = [busExecuted EXCEPT ![BusHome[id]] = IF agents = {} THEN @ ELSE Append(@, id)]
    BY <1>1 DEF CallLocally
  <2>4. BusTyped'
    <3>1. busCall' = [h \in BusCalls |-> busCall'[h]]
      BY <1>0, <1>1 DEF CallLocally, BusTyped
    <3>2. busExecuted' = [p \in BusProcs |-> busExecuted'[p]]
      BY <1>0, <2>3 DEF BusTyped
    <3>3. \A r \in busRunning' : r.id \in BusCalls
      BY <1>0, <1>1 DEF CallLocally, BusTyped
    <3> QED BY <1>0, <2>1, <3>1, <3>2, <3>3 DEF BusTyped
  <2>5. ASSUME NEW p \in BusProcs PROVE CalledOnce(busExecuted'[p], busCall')
    <3>1. CalledOnce(busExecuted[p], busCall)
      BY <1>0, <2>1 DEF LocalBusInv
    <3>2. CalledOnce(busExecuted[p], busCall') /\ CalledOnce(Append(busExecuted[p], id), busCall')
      BY <2>1, <2>2, <3>1, CalledKeeps
    <3>3. busExecuted'[p] = busExecuted[p] \/ busExecuted'[p] = Append(busExecuted[p], id)
      BY <1>0, <2>3 DEF BusTyped
    <3> QED BY <3>2, <3>3
  <2>6. LocalBusInv'
    BY <1>0, <2>1, <2>5 DEF LocalBusInv
  <2>7. RedisBusInv'
    BY <2>1 DEF RedisBusInv
  <2>8. PromiseInv'
    <3>1. \A h \in BusCalls : h # id => busCall'[h] = busCall[h]
      BY <1>0, <1>1 DEF CallLocally, BusTyped
    <3>2. busCall'[id] \in {"rejected", "sent", "waiting"}
      BY <1>0, <1>1 DEF CallLocally, BusTyped
    <3> QED BY <1>0, <2>1, <3>1, <3>2 DEF PromiseInv
  <2> QED BY <2>4, <2>6, <2>7, <2>8 DEF BusInv
<1>2. ASSUME NEW id \in BusCalls, CallOverRedis(id) PROVE BusInv'
  <2>1. busMode = "redis" /\ UNCHANGED <<busMode, busRegistered, busNet, busProcessed, busRunning, busExecuted, busRepeats>>
    BY <1>2 DEF CallOverRedis
  <2>2. /\ busCall' = [h \in BusCalls |-> busCall'[h]] /\ busCall'[id] = "publishing"
        /\ \A h \in BusCalls : (busCall[h] # "new" => busCall'[h] # "new") /\ (h # id => busCall'[h] = busCall[h])
    BY <1>0, <1>2 DEF CallOverRedis, BusTyped
  <2>3. /\ busPromise' \in [BusCalls -> {"none", "open", "resolved", "rejected"}]
        /\ busPromise'[id] = IF IsRequest(id) THEN "open" ELSE "none"
        /\ \A h \in BusCalls : h # id => busPromise'[h] = busPromise[h]
    <3>1. /\ busPromise \in [BusCalls -> {"none", "open", "resolved", "rejected"}]
          /\ busPromise' = [busPromise EXCEPT ![id] = IF IsRequest(id) THEN "open" ELSE "none"]
      BY <1>0, <1>2 DEF CallOverRedis, BusTyped
    <3> QED BY <3>1
  <2>4. BusTyped'
    BY <1>0, <2>1, <2>2, <2>3 DEF BusTyped
  <2>5. PromiseInv'
    BY <1>0, <2>1, <2>2, <2>3 DEF PromiseInv, IsRequest
  <2>6. busMode' = busMode /\ UNCHANGED <<busProcessed, busExecuted>> /\ busMode # "local"
    BY <2>1
  <2> QED BY <2>2, <2>4, <2>5, <2>6, BusCallsMove
<1>3. ASSUME NEW id \in BusCalls, RequestTimeout(id) PROVE BusInv'
  <2>1. /\ UNCHANGED <<busMode, busRegistered, busNet, busProcessed, busRunning, busExecuted, busRepeats>>
        /\ Settle({id}, "rejected") /\ busPromise[id] = "open"
    BY <1>3 DEF RequestTimeout
  <2>2. /\ busCall' = [h \in BusCalls |-> busCall'[h]]
        /\ busPromise' \in [BusCalls -> {"none", "open", "resolved", "rejected"}]
        /\ \A h \in BusCalls : busCall[h] # "new" => busCall'[h] # "new"
        /\ PromiseInv'
    BY <2>1, SettleKeeps
  <2>3. BusTyped'
    BY <1>0, <2>1, <2>2 DEF BusTyped
  <2>4. busMode' = busMode /\ UNCHANGED <<busProcessed, busExecuted>> /\ (busMode = "local" => busNet' = {})
    BY <1>0, <2>1 DEF LocalBusInv
  <2> QED BY <2>2, <2>3, <2>4, BusCallsMove
<1>4. ASSUME NEW d \in busNet, HandleRequest(d) PROVE BusInv'
  <2>1. d.id \in BusCalls /\ d.at \in BusProcs /\ busMode = "redis"
    BY <1>0 DEF BusTyped, LocalBusInv
  <2>2. UNCHANGED <<busMode, busRegistered, busCall, busPromise>>
    BY <1>4 DEF HandleRequest
  <2>3. busMode' = "redis"
    BY <2>1, <2>2
  <2>4. PICK skipped \in BOOLEAN :
          /\ skipped = (Contains(busProcessed[d.at], d.id) \/ busRegistered[d.at] = << >>)
          /\ busRunning' = IF skipped THEN busRunning
               ELSE busRunning \cup {[id |-> d.id, at |-> d.at, agent |-> a] : a \in Receivers(d)}
          /\ busProcessed' = [busProcessed EXCEPT ![d.at] = IF skipped THEN @ ELSE IdNoted(@, d.id)]
          /\ busExecuted' = [busExecuted EXCEPT ![d.at] = IF skipped THEN @ ELSE Append(@, d.id)]
    BY <1>4 DEF HandleRequest
  <2>5. BusTyped'
    <3>1. \A r \in busRunning' : r.id \in BusCalls
      BY <1>0, <2>1, <2>4 DEF BusTyped
    <3>2. busProcessed' = [p \in BusProcs |-> busProcessed'[p]] /\ busExecuted' = [p \in BusProcs |-> busExecuted'[p]]
      BY <1>0, <2>4 DEF BusTyped
    <3>3. busNet' \subseteq busNet
      BY <1>4 DEF HandleRequest, Taken
    <3>4. busCall' = [h \in BusCalls |-> busCall'[h]]
      BY <1>0, <2>2 DEF BusTyped
    <3> QED BY <1>0, <2>2, <2>3, <3>1, <3>2, <3>3, <3>4 DEF BusTyped
  <2>6. ASSUME NEW p \in BusProcs PROVE Remembers(busProcessed'[p], busExecuted'[p]) /\ NotRepeated(busExecuted'[p])
    <3>1. Remembers(busProcessed[p], busExecuted[p]) /\ NotRepeated(busExecuted[p])
      BY <1>0, <2>1 DEF RedisBusInv
    <3>2. CASE p # d.at \/ skipped
      <4>1. busProcessed'[p] = busProcessed[p] /\ busExecuted'[p] = busExecuted[p]
        BY <1>0, <2>4, <3>2 DEF BusTyped
      <4> QED BY <3>1, <4>1
    <3>3. CASE p = d.at /\ ~skipped
      <4>1. busProcessed'[p] = IdNoted(busProcessed[p], d.id) /\ busExecuted'[p] = Append(busExecuted[p], d.id)
        BY <1>0, <2>4, <3>3 DEF BusTyped
      <4>2. \A k \in 1 .. Len(busProcessed[p]) : busProcessed[p][k] # d.id
        BY <2>4, <3>3 DEF Contains
      <4>3. Remembers(IdNoted(busProcessed[p], d.id), Append(busExecuted[p], d.id)) /\ NotRepeated(Append(busExecuted[p], d.id))
        BY <2>1, <3>1, <4>2, NotedKeeps
      <4> QED BY <4>1, <4>3
    <3> QED BY <3>2, <3>3
  <2>7. LocalBusInv' /\ RedisBusInv' /\ PromiseInv'
    BY <1>0, <2>2, <2>3, <2>6 DEF LocalBusInv, RedisBusInv, PromiseInv
  <2> QED BY <2>5, <2>7 DEF BusInv
<1>5. ASSUME NEW d \in busNet, HandleResponse(d) PROVE BusInv'
  <2>1. /\ UNCHANGED <<busMode, busRegistered, busProcessed, busRunning, busExecuted>> /\ busNet' \subseteq busNet
        /\ Settle({h \in {d.id} : busPromise[h] = "open"}, "resolved")
    BY <1>5 DEF HandleResponse, Taken
  <2>2. /\ busCall' = [h \in BusCalls |-> busCall'[h]]
        /\ busPromise' \in [BusCalls -> {"none", "open", "resolved", "rejected"}]
        /\ \A h \in BusCalls : busCall[h] # "new" => busCall'[h] # "new"
        /\ PromiseInv'
    BY <2>1, SettleKeeps
  <2>3. BusTyped'
    BY <1>0, <2>1, <2>2 DEF BusTyped
  <2>4. busMode' = busMode /\ UNCHANGED <<busProcessed, busExecuted>> /\ (busMode = "local" => busNet' = {})
    BY <1>0, <2>1 DEF LocalBusInv
  <2> QED BY <2>2, <2>3, <2>4, BusCallsMove
<1>6. ASSUME NEW d \in busNet, Lost(d) PROVE BusInv'
  <2>1. /\ UNCHANGED <<busMode, busRegistered, busCall, busPromise, busProcessed, busRunning, busExecuted>>
        /\ busNet' \subseteq busNet
    BY <1>6 DEF Lost
  <2>2. BusTyped'
    BY <1>0, <2>1 DEF BusTyped
  <2>3. busMode' = busMode /\ UNCHANGED <<busProcessed, busExecuted>> /\ (busMode = "local" => busNet' = {}) /\ busCall' = busCall
    BY <1>0, <2>1 DEF LocalBusInv
  <2>4. PromiseInv'
    BY <1>0, <2>1 DEF PromiseInv
  <2> QED BY <2>2, <2>3, <2>4, BusCallsMove
<1>7. ASSUME NEW r \in busRunning, NEW returns \in BOOLEAN, HandlerEnds(r, returns) PROVE BusInv'
  <2>1. UNCHANGED <<busMode, busRegistered, busPromise, busProcessed, busExecuted, busRepeats>> /\ busRunning' \subseteq busRunning
    BY <1>7 DEF HandlerEnds
  <2>2. busCall' = [h \in BusCalls |-> busCall'[h]] /\ \A h \in BusCalls : busCall[h] # "new" => busCall'[h] # "new"
    BY <1>0, <1>7 DEF HandlerEnds, BusTyped
  <2>3. \A d \in busNet' : d.id \in BusCalls /\ d.at \in BusProcs
    BY <1>0, <1>7, BusAssumption DEF HandlerEnds, BusTyped
  <2>4. busMode = "local" => busNet' = {}
    BY <1>0, <1>7 DEF HandlerEnds, LocalBusInv
  <2>5. BusTyped'
    BY <1>0, <2>1, <2>2, <2>3 DEF BusTyped
  <2>6. busMode' = busMode /\ UNCHANGED <<busProcessed, busExecuted>>
    BY <2>1
  <2>7. PromiseInv'
    <3>1. CASE busMode = "local"
      <4>1. \A h \in BusCalls : busCall'[h] = busCall[h] \/ busCall'[h] \in {"resolved", "rejected"}
        BY <1>0, <1>7 DEF HandlerEnds, BusTyped
      <4> QED BY <1>0, <2>1, <3>1, <4>1 DEF PromiseInv
    <3>2. CASE busMode = "redis"
      <4>1. \A h \in BusCalls : busCall'[h] = busCall[h]
        BY <1>0, <1>7, <3>2 DEF HandlerEnds, BusTyped
      <4> QED BY <1>0, <2>1, <3>2, <4>1 DEF PromiseInv
    <3> QED BY <1>0, <3>1, <3>2 DEF BusTyped
  <2> QED BY <2>2, <2>4, <2>5, <2>6, <2>7, BusCallsMove
<1>8. ASSUME NEW p \in BusProcs, NEW id \in BusCalls, IdExpires(p, id) PROVE BusInv'
  <2>1. UNCHANGED <<busMode, busRegistered, busCall, busPromise, busNet, busRunning, busRepeats>>
    BY <1>8 DEF IdExpires
  <2>2. /\ busProcessed' = [busProcessed EXCEPT ![p] = Only(@, BusCalls \ {id})]
        /\ busExecuted' = [busExecuted EXCEPT ![p] = [i \in DOMAIN @ |-> IF @[i] = id THEN Everyone ELSE @[i]]]
    BY <1>8 DEF IdExpires
  <2>3. busMode = "redis"
    <3>1. busProcessed[p] # << >>
      BY <1>8 DEF IdExpires, Contains
    <3> QED BY <1>0, <3>1 DEF BusTyped, LocalBusInv
  <2>4. BusTyped'
    BY <1>0, <2>1, <2>2 DEF BusTyped
  <2>5. ASSUME NEW q \in BusProcs PROVE Remembers(busProcessed'[q], busExecuted'[q]) /\ NotRepeated(busExecuted'[q])
    <3>1. Remembers(busProcessed[q], busExecuted[q]) /\ NotRepeated(busExecuted[q])
      BY <1>0, <2>3 DEF RedisBusInv
    <3>2. CASE q # p
      <4>1. busProcessed'[q] = busProcessed[q] /\ busExecuted'[q] = busExecuted[q]
        BY <1>0, <2>2, <3>2 DEF BusTyped
      <4> QED BY <3>1, <4>1
    <3>3. CASE q = p
      <4>1. /\ busProcessed'[q] = Only(busProcessed[q], BusCalls \ {id})
            /\ busExecuted'[q] = [i \in DOMAIN busExecuted[q] |-> IF busExecuted[q][i] = id THEN Everyone ELSE busExecuted[q][i]]
        BY <1>0, <2>2, <3>3 DEF BusTyped
      <4> QED BY <3>1, <4>1, ExpiredKeeps
    <3> QED BY <3>2, <3>3
  <2>6. LocalBusInv' /\ RedisBusInv' /\ PromiseInv'
    BY <1>0, <2>1, <2>3, <2>5 DEF LocalBusInv, RedisBusInv, PromiseInv
  <2> QED BY <2>4, <2>6 DEF BusInv
<1>9. ASSUME NEW p \in BusProcs, NEW a, Unregister(p, a) PROVE BusInv'
  <2>1. /\ UNCHANGED <<busMode, busCall, busPromise, busProcessed, busRunning, busExecuted, busRepeats>>
        /\ busNet' \subseteq busNet
    BY <1>9 DEF Unregister
  <2>2. BusTyped'
    BY <1>0, <2>1 DEF BusTyped
  <2>3. busMode' = busMode /\ UNCHANGED <<busProcessed, busExecuted>> /\ (busMode = "local" => busNet' = {}) /\ busCall' = busCall
    BY <1>0, <2>1 DEF LocalBusInv
  <2>4. PromiseInv'
    BY <1>0, <2>1 DEF PromiseInv
  <2> QED BY <2>2, <2>3, <2>4, BusCallsMove
<1>10. ASSUME NEW p \in BusProcs, Close(p) PROVE BusInv'
  <2>1. busMode = "redis" /\ UNCHANGED <<busMode, busRegistered, busNet, busProcessed, busRunning, busExecuted, busRepeats>>
    BY <1>10 DEF Close
  <2>2. Settle({id \in BusCalls : BusHome[id] = p /\ busPromise[id] = "open"}, "rejected")
    BY <1>10 DEF Close
  <2>3. /\ busCall' = [h \in BusCalls |-> busCall'[h]]
        /\ busPromise' \in [BusCalls -> {"none", "open", "resolved", "rejected"}]
        /\ \A h \in BusCalls : busCall[h] # "new" => busCall'[h] # "new"
        /\ PromiseInv'
    BY <2>1, <2>2, SettleKeeps
  <2>4. BusTyped'
    BY <1>0, <2>1, <2>3 DEF BusTyped
  <2>5. busMode' = busMode /\ UNCHANGED <<busProcessed, busExecuted>> /\ busMode # "local"
    BY <2>1
  <2> QED BY <2>3, <2>4, <2>5, BusCallsMove
<1>11. ASSUME NEW id \in BusCalls, Publish(id) PROVE BusInv'
  <2>1. /\ UNCHANGED <<busMode, busRegistered, busPromise, busProcessed, busRunning, busExecuted, busRepeats>>
        /\ busCall[id] = "publishing" /\ busCall' = [busCall EXCEPT ![id] = "published"]
    BY <1>11 DEF Publish
  <2>2. /\ busCall' = [h \in BusCalls |-> busCall'[h]] /\ busCall'[id] = "published"
        /\ \A h \in BusCalls : (busCall[h] # "new" => busCall'[h] # "new") /\ (h # id => busCall'[h] = busCall[h])
    BY <1>0, <2>1 DEF BusTyped
  <2>3. \A d \in busNet' : d.id \in BusCalls /\ d.at \in BusProcs
    BY <1>0, <1>11 DEF Publish, BusTyped, Subscribers
  <2>4. BusTyped'
    BY <1>0, <2>1, <2>2, <2>3 DEF BusTyped
  <2>5. PromiseInv'
    BY <1>0, <2>1, <2>2 DEF PromiseInv, IsRequest
  <2>6. busMode = "redis"
    BY <1>0, <1>11, <2>1 DEF PromiseInv, BusTyped
  <2> QED BY <2>1, <2>2, <2>4, <2>5, <2>6, BusCallsMove
<1>12. ASSUME NEW id \in BusCalls, PublishReturns(id) PROVE BusInv'
  <2>1. /\ UNCHANGED <<busMode, busRegistered, busPromise, busNet, busProcessed, busRunning, busExecuted, busRepeats>>
        /\ busCall[id] = "published"
    BY <1>12 DEF PublishReturns
  <2>2. PICK next : /\ busCall' = [busCall EXCEPT ![id] = next]
                    /\ next = CASE ~ IsRequest(id) -> "sent"
                               [] busPromise[id] = "open" -> "waiting"
                               [] OTHER -> busPromise[id]
    BY <1>12 DEF PublishReturns
  <2>3. next # "new" /\ next \notin {"publishing", "published"} /\ (next = "waiting" => busPromise[id] = "open")
    <3>1. busPromise[id] \in {"none", "open", "resolved", "rejected"}
      BY <1>0 DEF BusTyped
    <3> QED BY <2>2, <3>1
  <2>4. /\ busCall' = [h \in BusCalls |-> busCall'[h]] /\ busCall'[id] = next
        /\ \A h \in BusCalls : (busCall[h] # "new" => busCall'[h] # "new") /\ (h # id => busCall'[h] = busCall[h])
    BY <1>0, <2>2, <2>3 DEF BusTyped
  <2>5. BusTyped'
    BY <1>0, <2>1, <2>4 DEF BusTyped
  <2>6. PromiseInv'
    BY <1>0, <2>1, <2>3, <2>4 DEF PromiseInv, IsRequest
  <2>7. busMode = "local" => busNet' = {}
    BY <1>0, <2>1 DEF LocalBusInv
  <2> QED BY <2>1, <2>4, <2>5, <2>6, <2>7, BusCallsMove
<1>13. ASSUME NEW id \in BusCalls, PublishFails(id) PROVE BusInv'
  <2>1. /\ UNCHANGED <<busMode, busRegistered, busPromise, busNet, busProcessed, busRunning, busExecuted, busRepeats>>
        /\ busCall' = [busCall EXCEPT ![id] = "rejected"]
    BY <1>13 DEF PublishFails
  <2>2. /\ busCall' = [h \in BusCalls |-> busCall'[h]] /\ busCall'[id] = "rejected"
        /\ \A h \in BusCalls : (busCall[h] # "new" => busCall'[h] # "new") /\ (h # id => busCall'[h] = busCall[h])
    BY <1>0, <2>1 DEF BusTyped
  <2>3. BusTyped'
    BY <1>0, <2>1, <2>2 DEF BusTyped
  <2>4. PromiseInv'
    BY <1>0, <2>1, <2>2 DEF PromiseInv, IsRequest
  <2>5. busMode = "local" => busNet' = {}
    BY <1>0, <2>1 DEF LocalBusInv
  <2> QED BY <2>1, <2>2, <2>3, <2>4, <2>5, BusCallsMove
<1>14. CASE UNCHANGED busVars
  <2>1. UNCHANGED <<busMode, busRegistered, busCall, busPromise, busNet, busProcessed, busRunning, busExecuted, busRepeats>>
    BY <1>14 DEF busVars
  <2> QED BY <1>0, <2>1 DEF BusInv, BusTyped, LocalBusInv, RedisBusInv, PromiseInv
<1> QED BY <1>1, <1>2, <1>3, <1>4, <1>5, <1>6, <1>7, <1>8, <1>9, <1>10, <1>11, <1>12, <1>13, <1>14 DEF BusNext

\* The invariant suffices: by rank in the list over Redis, by the call itself locally.
LEMMA BusInvKeeps == BusInv => NotRepeatedSoon
<1> SUFFICES ASSUME BusInv, NEW p \in BusProcs,
                    NEW i \in DOMAIN busExecuted[p], NEW j \in DOMAIN busExecuted[p],
                    i < j, busExecuted[p][i] = busExecuted[p][j], busExecuted[p][i] # Everyone
             PROVE  j - i > MaxProcessed - RemoveCount + 1
  BY DEF NotRepeatedSoon
<1>1. CASE busMode = "redis"
  <2>1. Remembers(busProcessed[p], busExecuted[p]) /\ NotRepeated(busExecuted[p])
    BY <1>1 DEF BusInv, RedisBusInv
  <2>2. i \in 1 .. Len(busExecuted[p]) /\ j \in 1 .. Len(busExecuted[p])
    BY <2>1 DEF Remembers
  <2> QED BY <2>1, <2>2 DEF NotRepeated
<1>2. CASE busMode = "local"
  <2>1. CalledOnce(busExecuted[p], busCall)
    BY <1>2 DEF BusInv, LocalBusInv
  <2>2. i \in 1 .. Len(busExecuted[p]) /\ j \in 1 .. Len(busExecuted[p])
    BY <2>1 DEF CalledOnce
  <2>3. i = j
    BY <2>1, <2>2 DEF CalledOnce, Apart
  <2> QED BY <2>2, <2>3
<1> QED BY <1>1, <1>2 DEF BusInv, BusTyped

\* However deliveries are lost, repeated and delayed, entries expire and the
\* oldest are dropped: a process executes a call again only when it has forgotten it.
THEOREM NothingRepeatedSoon == BusSpec => []NotRepeatedSoon
<1>1. BusSpec => []BusInv
  BY BusInitInv, BusStep, PTL DEF BusSpec
<1>2. QED BY <1>1, BusInvKeeps, PTL

\* However early a response comes, it is the answer of a request that is still in
\* the call, unless the timer of the request or close came first.
THEOREM EarlyResponseHeard == BusSpec => ResponseHeard
<1>1. BusSpec => []BusInv
  BY BusInitInv, BusStep, PTL DEF BusSpec
<1>2. BusInv =>
        [\A d \in busNet :
           /\ HandleResponse(d) /\ IsRequest(d.id)
           /\ busCall[d.id] \in {"publishing", "published", "waiting"} /\ busPromise[d.id] # "rejected"
           => busPromise'[d.id] = "resolved" /\ busCall'[d.id] \notin {"rejected", "waiting"}]_busVars
  <2> SUFFICES ASSUME BusInv, NEW d \in busNet, HandleResponse(d), IsRequest(d.id),
                      busCall[d.id] \in {"publishing", "published", "waiting"}, busPromise[d.id] # "rejected"
               PROVE  busPromise'[d.id] = "resolved" /\ busCall'[d.id] \notin {"rejected", "waiting"}
    OBVIOUS
  <2>1. d.id \in BusCalls /\ busMode = "redis" /\ busPromise[d.id] \in {"none", "open", "resolved", "rejected"}
    BY DEF BusInv, BusTyped, LocalBusInv
  <2>2. busPromise[d.id] \in {"open", "resolved"} /\ (busCall[d.id] = "waiting" => busPromise[d.id] = "open")
    BY <2>1 DEF BusInv, PromiseInv
  <2>3. Settle({id \in {d.id} : busPromise[id] = "open"}, "resolved")
    BY DEF HandleResponse
  <2> QED BY <2>1, <2>2, <2>3 DEF Settle
<1> QED BY <1>1, <1>2, PTL DEF BusSpec, ResponseHeard

-----------------------------------------------------------------------------
(* The working memory.  Order: what the cache holds rises, and so does all   *)
(* that an awaiting operation may write back.  The mirror: what the backend  *)
(* will hold of a clean key is what the cache holds, or, while the one       *)
(* replace of the key is under way, what that replace will put there, once   *)
(* the backend has cleared the key.  The repair: a key that has a reconcile  *)
(* under way has one that no other has cleared behind: what that one has     *)
(* sent is in the backend, and the rest is what the cache holds, or more     *)
(* than the backend keeps.                                                   *)

\* The types of the entries, the calls, the views, the operations and the buckets.
MemEntry == {Summary} \cup Messages

\* A call on its way to the backend,
MemCalls == [op : {"clear", "append"}, key : Conversations, entry : MemEntry,
             by : {"add", "clear", "replace", "reconcile", "none"}, job : Nat]

\* the array of entries an operation holds,
MemViews == [live : {"bucket", "array", "none"}, entries : Entries]

\* an operation,
MemJobs == [kind : {"replace", "reconcile", "digest"}, key : Conversations, view : MemViews,
            left : SUBSET Conversations, at : Nat]

\* Entries in order, none of them later than n.
Rises(s, n) ==
  /\ \A i, h \in DOMAIN s : i < h => s[i] < s[h]
  /\ \A i \in DOMAIN s : s[i] <= n

\* A table of operations.
IsJobs(js) ==
  /\ js = [j \in DOMAIN js |-> js[j]] /\ IsFiniteSet(DOMAIN js) /\ DOMAIN js \subseteq Nat \ {0}
  /\ \A j \in DOMAIN js : js[j] \in MemJobs

\* and a bucket.
MemBuckets == [present : BOOLEAN, entries : Entries, needsSummary : BOOLEAN]

\* Every part of the state has its type.
MemTypes ==
  /\ cache \in [Conversations -> MemBuckets]
  /\ store \in [Conversations -> Entries]
  /\ wire \in Seq(MemCalls)
  /\ IsJobs(jobs)
  /\ dirty \subseteq Conversations /\ clean \subseteq Conversations
  /\ arrived \in 0 .. MaxMessages
  /\ {digests, clears, faults, restarts, expiries} \subseteq Nat

\* A call of an operation that awaits it; a reconcile awaits one at a time.
Owned(w, js) ==
  IF w.by \in {"replace", "reconcile"}
  THEN w.job \in DOMAIN js /\ js[w.job].kind = w.by /\ js[w.job].key = w.key
  ELSE w.job = 0

\* One call of each reconcile is in flight.
OneEach(ws) ==
  \A i, h \in DOMAIN ws : ws[i].by = "reconcile" /\ ws[h].by = "reconcile" /\ ws[i].job = ws[h].job => i = h

\* The calls in flight are of the operations that await them.
Wired(ws, js) == (\A i \in DOMAIN ws : Owned(ws[i], js)) /\ OneEach(ws)

\* So are those of the state.
MemWired == Wired(wire, jobs)

\* What is live is what the cache holds; what is written back is in order.
KeyOrdered(b, s, n) ==
  /\ Rises(b.entries, n)
  /\ Len(b.entries) <= MaxEntries /\ Len(s) <= MaxEntries
  /\ ~b.present => b.entries = <<>>

\* What an operation sees of a bucket, and what it may write back.
JobOrdered(job, b, n) ==
  /\ Rises(job.view.entries, n)
  /\ job.view.live # "none" => job.view.entries = b.entries
  /\ job.kind = "digest" => Len(job.view.entries) > KeepRecent /\ job.view.live # "bucket"
  /\ job.kind = "replace" => Len(job.view.entries) <= MaxEntries /\ job.view.live = "none"

\* Every bucket and every operation is in order.
KeysOrdered(c, s, n) == \A k \in Conversations : KeyOrdered(c[k], s[k], n)

\* Every operation of a table is in order.
JobsOrdered(js, c, n) == \A j \in DOMAIN js : JobOrdered(js[j], c[js[j].key], n)

\* The order, in the state.
OrderInv == KeysOrdered(cache, store, arrived) /\ JobsOrdered(jobs, cache, arrived)

\* The types, the calls and the order.
MemCore == MemTypes /\ MemWired /\ OrderInv

\* The backend has still to clear the key for replace j, and then has nothing of it.
ToClear(ws, k, j) ==
  \E h \in DOMAIN ws :
    /\ ws[h] = ClearCall(k, "replace", j)
    /\ \A i \in DOMAIN ws : (ws[i].key = k => i <= h) /\ (ws[i].job = j => i = h)

\* All replace j has still to do of a key is to append.
Appends(ws, j) == \A i \in DOMAIN ws : ws[i].job = j => ws[i].op = "append"

\* A replace of the key is under way.
Replacing(js, k) == \E j \in DOMAIN js : js[j].kind = "replace" /\ js[j].key = k

\* What replace j makes of its key, once the calls ws are answered.
Rewrites(s, ws, js, j) ==
  \/ js[j].at = 0 /\ ToClear(ws, js[j].key, j)
  \/ Outcome(s[js[j].key], ws, js[j].key) = js[j].view.entries /\ Appends(ws, j)

\* Reconciles work on keys that are not clean.
Unclean(js, cl) == \A j \in DOMAIN js : js[j].kind = "reconcile" => js[j].key \notin cl /\ js[j].left \cap cl = {}

\* One replace at most is under way of a clean key.
Alone(js, cl) ==
  \A i, j \in DOMAIN js :
    /\ js[i].kind = "replace" /\ js[j].kind = "replace"
    /\ js[i].key = js[j].key /\ js[i].key \in cl
    => i = j

\* The backend will hold what the cache holds, or what a replace will put there.
Mirrors(cl, c, s, ws, js) ==
  /\ \A k \in cl : Replacing(js, k) \/ Outcome(s[k], ws, k) = c[k].entries
  /\ \A j \in DOMAIN js : js[j].kind = "replace" /\ js[j].key \in cl => Rewrites(s, ws, js, j)

\* The mirror, of the keys that are clean.
MirrorInv ==
  /\ dirty \cap clean = {} /\ Unclean(jobs, clean) /\ Alone(jobs, clean)
  /\ Mirrors(clean, cache, store, wire, jobs)

\* One failure at most, and nothing else that interferes.
OneFault == faults <= 1 /\ digests = 0 /\ clears = 0 /\ restarts = 0 /\ expiries = 0

\* What the backend will hold has all of s, or is at its cap.
Covers(o, s) == Len(o) = MaxEntries \/ s \subseteq Held(o)

\* What a reconcile has sent of its entries.
Resent(job) == {job.view.entries[i] : i \in {h \in DOMAIN job.view.entries : h <= job.at}}

\* What a reconcile has sent is not cleared behind it.
Restores(job, o) ==
  /\ Covers(o, Resent(job))
  /\ Len(o) >= MaxEntries \/ Len(o) >= job.at
  /\ job.view.live = "none" => Len(job.view.entries) > MaxEntries

\* How the messages of a key are, or will be, in the backend.
Repairing(k, o, s, js, d) ==
  \/ Covers(o, Held(s))
  \/ \E j \in DOMAIN js : js[j].key = k /\ Restores(js[j], o)
  \/ k \in d /\ \A j \in DOMAIN js : js[j].key # k

\* Every key is repaired, or will be.
KeysRepaired(c, s, ws, js, d) == \A k \in Conversations : Repairing(k, Outcome(s[k], ws, k), c[k].entries, js, d)

\* Only adds and reconciles are under way; a clear is sent before any entry.
Reconciling(ws, js) ==
  /\ \A j \in DOMAIN js : js[j].kind = "reconcile" /\ (js[j].view.live = "bucket" => js[j].at = 0)
  /\ \A i \in DOMAIN ws :
       /\ ws[i].by \in {"add", "reconcile"}
       /\ ws[i].by = "reconcile" /\ ws[i].op = "clear" => js[ws[i].job].at = 0

\* After one failure every key is on its way to be repaired.
RepairInv ==
  OneFault =>
    /\ faults = 0 => dirty = {} /\ DOMAIN jobs = {}
    /\ Reconciling(wire, jobs)
    /\ KeysRepaired(cache, store, wire, jobs, dirty)

\* The inductive invariant of the working memory.
MemInv == MemCore /\ MirrorInv /\ RepairInv

-----------------------------------------------------------------------------
\* The last entries of a sequence.
LEMMA LastOfFacts ==
  ASSUME NEW T, NEW n \in Nat \ {0}, NEW s \in Seq(T)
  PROVE  /\ LastOf(n, s) \in Seq(T) /\ Len(LastOf(n, s)) <= n
         /\ Len(s) <= n => LastOf(n, s) = s
         /\ Len(s) > n => /\ Len(LastOf(n, s)) = n
                          /\ \A i \in 1 .. n : LastOf(n, s)[i] = s[Len(s) - n + i]
<1>1. PICK m \in Nat : m = Len(s)
  OBVIOUS
<1>2. CASE m <= n
  <2>1. LastOf(n, s) = SubSeq(s, 1, m)
    <3>1. ~(Len(s) > n)
      BY <1>1, <1>2
    <3> QED BY <1>1, <3>1 DEF LastOf
  <2>2. /\ SubSeq(s, 1, m) \in Seq(T) /\ Len(SubSeq(s, 1, m)) = m
        /\ \A i \in 1 .. m : SubSeq(s, 1, m)[i] = s[i]
    BY <1>1
  <2>3. SubSeq(s, 1, m) = s
    BY <1>1, <2>2
  <2>4. ~(Len(s) > n) /\ Len(s) <= n
    BY <1>1, <1>2
  <2>5. LastOf(n, s) = s
    BY <2>1, <2>3
  <2> QED BY <2>4, <2>5
<1>3. CASE m > n
  <2>1. PICK a \in Nat : a = m - n
    BY <1>3
  <2>2. LastOf(n, s) = SubSeq(s, a + 1, m)
    BY <1>1, <1>3, <2>1 DEF LastOf
  <2>3. a + 1 \in 1 .. Len(s) + 1 /\ m \in a .. Len(s) /\ m - (a + 1) + 1 = n
    BY <1>1, <1>3, <2>1
  <2>4. /\ SubSeq(s, a + 1, m) \in Seq(T) /\ Len(SubSeq(s, a + 1, m)) = n
        /\ \A i \in 1 .. n : SubSeq(s, a + 1, m)[i] = s[a + i]
    BY <2>3
  <2>5. \A i \in 1 .. n : SubSeq(s, a + 1, m)[i] = s[Len(s) - n + i]
    BY <1>1, <2>1, <2>4
  <2>6. Len(LastOf(n, s)) <= n /\ ~(Len(s) <= n)
    BY <1>1, <1>3, <2>2, <2>4
  <2> QED BY <2>2, <2>4, <2>5, <2>6
<1>4. m <= n \/ m > n
  BY <1>1
<1> QED BY <1>2, <1>3, <1>4

\* A call applied to what the backend holds.
LEMMA AppliedFacts ==
  ASSUME NEW s \in Entries, NEW w \in MemCalls
  PROVE  /\ Applied(s, w) \in Entries /\ Len(Applied(s, w)) <= MaxEntries
         /\ w.op = "clear" => Applied(s, w) = <<>>
         /\ w.op # "clear" => Applied(s, w) = LastOf(MaxEntries, Append(s, w.entry))
<1>1. w.entry \in MemEntry /\ Entries = Seq(MemEntry)
  BY DEF MemCalls, Entries, MemEntry
<1>2. PICK t \in Seq(MemEntry) : t = Append(s, w.entry)
  <2>1. PICK e \in MemEntry : e = w.entry
    BY <1>1
  <2>2. s \in Seq(MemEntry)
    BY <1>1
  <2>3. Append(s, e) \in Seq(MemEntry)
    BY <2>2
  <2> QED BY <2>1, <2>3
<1>3. MaxEntries \in Nat \ {0}
  BY MemoryAssumption
<1>4. LastOf(MaxEntries, t) \in Seq(MemEntry) /\ Len(LastOf(MaxEntries, t)) <= MaxEntries
  BY <1>2, <1>3, LastOfFacts
<1>5. <<>> \in Seq(MemEntry) /\ Len(<<>>) <= MaxEntries
  BY <1>3
<1> QED BY <1>1, <1>2, <1>4, <1>5 DEF Applied

\* f holds what the backend holds of k after each of the calls.
IsHeld(f, s, ws, k, n) ==
  f[n] = IF n = 0 THEN s
         ELSE IF ws[n].key = k THEN Applied(f[n - 1], ws[n]) ELSE f[n - 1]

\* f is the whole course of the calls.
HeldAlong(f, s, ws, k) ==
  f \in [0 .. Len(ws) -> Entries] /\ \A n \in 0 .. Len(ws) : IsHeld(f, s, ws, k, n)

\* There is such a course,
LEMMA HeldExists ==
  ASSUME NEW s \in Entries, NEW ws \in Seq(MemCalls), NEW k
  PROVE  \E f : HeldAlong(f, s, ws, k)
<1> DEFINE Up(m) == \E f \in [0 .. m -> Entries] : \A n \in 0 .. m : IsHeld(f, s, ws, k, n)
           T == {m \in Nat : m <= Len(ws) => Up(m)}
<1>1. Up(0)
  <2> DEFINE f == [n \in 0 .. 0 |-> s]
  <2>1. f \in [0 .. 0 -> Entries] /\ \A n \in 0 .. 0 : IsHeld(f, s, ws, k, n)
    BY DEF IsHeld
  <2> QED BY <2>1
<1>2. ASSUME NEW m \in Nat, m + 1 <= Len(ws), Up(m) PROVE Up(m + 1)
  <2>1. PICK f \in [0 .. m -> Entries] : \A n \in 0 .. m : IsHeld(f, s, ws, k, n)
    BY <1>2
  <2> DEFINE last == IF ws[m + 1].key = k THEN Applied(f[m], ws[m + 1]) ELSE f[m]
             g == [n \in 0 .. m + 1 |-> IF n = m + 1 THEN last ELSE f[n]]
  <2>2. ws[m + 1] \in MemCalls /\ f[m] \in Entries
    BY <1>2
  <2>3. last \in Entries
    BY <2>2, AppliedFacts
  <2> HIDE DEF last
  <2>4. g \in [0 .. m + 1 -> Entries]
    BY <2>3
  <2>5. ASSUME NEW n \in 0 .. m + 1 PROVE IsHeld(g, s, ws, k, n)
    <3>1. CASE n = m + 1
      BY <3>1 DEF IsHeld, last
    <3>2. CASE n # m + 1
      <4>1. n \in 0 .. m /\ IsHeld(f, s, ws, k, n) /\ g[n] = f[n]
        BY <2>1, <2>5, <3>2
      <4>2. n # 0 => g[n - 1] = f[n - 1]
        BY <3>2
      <4> QED BY <4>1, <4>2 DEF IsHeld
    <3> QED BY <3>1, <3>2
  <2> QED BY <2>4, <2>5
<1>3. T = Nat
  <2> HIDE DEF Up
  <2>1. T \in SUBSET Nat /\ 0 \in T /\ \A n \in T : n + 1 \in T
    BY <1>1, <1>2
  <2> QED BY <2>1, CountUp
<1>4. Len(ws) \in Nat /\ Len(ws) <= Len(ws)
  OBVIOUS
<1> HIDE DEF Up
<1>5. Up(Len(ws))
  BY <1>3, <1>4
<1> QED BY <1>5 DEF Up, HeldAlong

\* The recursion has one solution: the outcome is its last value.
LEMMA HeldUnique ==
  ASSUME NEW s \in Entries, NEW ws \in Seq(MemCalls), NEW k, NEW f, HeldAlong(f, s, ws, k)
  PROVE  Outcome(s, ws, k) = f[Len(ws)]
<1> DEFINE Body(e, n) == IF n = 0 THEN s
              ELSE IF ws[n].key = k THEN Applied(e[n - 1], ws[n]) ELSE e[n - 1]
           held == CHOOSE e : e = [n \in 0 .. Len(ws) |-> Body(e, n)]
<1>1. f = [n \in 0 .. Len(ws) |-> Body(f, n)]
  BY DEF IsHeld, HeldAlong
<1>2. held = [n \in 0 .. Len(ws) |-> Body(held, n)]
  BY <1>1
<1>3. Outcome(s, ws, k) = held[Len(ws)]
  BY DEF Outcome
<1>4. \A n \in 0 .. Len(ws) : IsHeld(held, s, ws, k, n)
  <2> HIDE DEF held
  <2> QED BY <1>2 DEF IsHeld
<1> DEFINE T == {n \in Nat : n <= Len(ws) => held[n] = f[n]}
<1> HIDE DEF held
<1>5. 0 \in T
  BY <1>4 DEF IsHeld, HeldAlong
<1>6. ASSUME NEW n \in T PROVE n + 1 \in T
  <2>1. n \in Nat /\ n + 1 \in Nat /\ (n + 1) - 1 = n /\ n + 1 # 0
    BY <1>6
  <2>2. CASE n + 1 <= Len(ws)
    <3>1. n + 1 \in 0 .. Len(ws) /\ n <= Len(ws)
      BY <2>1, <2>2
    <3>2. IsHeld(held, s, ws, k, n + 1) /\ IsHeld(f, s, ws, k, n + 1) /\ held[n] = f[n]
      BY <1>4, <1>6, <3>1 DEF HeldAlong
    <3>3. held[n + 1] = f[n + 1]
      BY <2>1, <3>2 DEF IsHeld
    <3> QED BY <2>1, <3>3
  <2> QED BY <2>1, <2>2
<1>7. T = Nat
  <2> HIDE DEF T
  <2>1. T \in SUBSET Nat
    BY DEF T
  <2> QED BY <1>5, <1>6, <2>1, CountUp
<1>8. Len(ws) \in Nat
  OBVIOUS
<1> QED BY <1>3, <1>7, <1>8

\* and the outcome is its end.
LEMMA HeldIs ==
  ASSUME NEW s \in Entries, NEW ws \in Seq(MemCalls), NEW k
  PROVE  \E f : HeldAlong(f, s, ws, k) /\ Outcome(s, ws, k) = f[Len(ws)]
<1>1. PICK f : HeldAlong(f, s, ws, k)
  BY HeldExists
<1> QED BY <1>1, HeldUnique

\* The outcome is something the backend can hold.
LEMMA OutcomeType ==
  ASSUME NEW s \in Entries, Len(s) <= MaxEntries, NEW ws \in Seq(MemCalls), NEW k
  PROVE  Outcome(s, ws, k) \in Entries /\ Len(Outcome(s, ws, k)) <= MaxEntries
<1>1. PICK f : HeldAlong(f, s, ws, k) /\ Outcome(s, ws, k) = f[Len(ws)]
  BY HeldIs
<1> DEFINE T == {n \in Nat : n <= Len(ws) => f[n] \in Entries /\ Len(f[n]) <= MaxEntries}
<1>2. 0 \in T
  BY <1>1 DEF HeldAlong, IsHeld
<1>3. ASSUME NEW n \in T PROVE n + 1 \in T
  <2>1. n \in Nat /\ n + 1 \in Nat /\ (n + 1) - 1 = n /\ n + 1 # 0
    BY <1>3
  <2>2. CASE n + 1 <= Len(ws)
    <3>1. n + 1 \in 0 .. Len(ws) /\ n <= Len(ws) /\ n + 1 \in 1 .. Len(ws)
      BY <2>1, <2>2
    <3>2. f[n] \in Entries /\ Len(f[n]) <= MaxEntries /\ IsHeld(f, s, ws, k, n + 1) /\ ws[n + 1] \in MemCalls
      BY <1>1, <1>3, <3>1 DEF HeldAlong
    <3>3. f[n + 1] = f[n] \/ f[n + 1] = Applied(f[n], ws[n + 1])
      BY <2>1, <3>2 DEF IsHeld
    <3> QED BY <2>1, <3>2, <3>3, AppliedFacts
  <2> QED BY <2>1, <2>2
<1>4. T = Nat
  <2> HIDE DEF T
  <2>1. T \in SUBSET Nat
    BY DEF T
  <2> QED BY <1>2, <1>3, <2>1, CountUp
<1>5. Len(ws) \in Nat /\ Len(ws) <= Len(ws)
  OBVIOUS
<1> QED BY <1>1, <1>4, <1>5

\* One more call.
LEMMA OutcomeAppend ==
  ASSUME NEW s \in Entries, NEW ws \in Seq(MemCalls), NEW w \in MemCalls, NEW k
  PROVE  Outcome(s, Append(ws, w), k) = IF w.key = k THEN Applied(Outcome(s, ws, k), w) ELSE Outcome(s, ws, k)
<1> DEFINE u == Append(ws, w)
<1>1. /\ u \in Seq(MemCalls) /\ Len(u) = Len(ws) + 1 /\ u[Len(ws) + 1] = w
      /\ \A i \in 1 .. Len(ws) : u[i] = ws[i]
  BY AppendProperties
<1> HIDE DEF u
<1>2. PICK f : HeldAlong(f, s, u, k) /\ Outcome(s, u, k) = f[Len(u)]
  BY <1>1, HeldIs
<1>3. PICK m \in Nat : m = Len(ws)
  OBVIOUS
<1> DEFINE g == [n \in 0 .. m |-> f[n]]
<1>4. HeldAlong(g, s, ws, k)
  <2>1. g \in [0 .. m -> Entries]
    <3>1. \A n \in 0 .. m : n \in 0 .. Len(u)
      BY <1>1, <1>3
    <3> QED BY <1>2, <3>1 DEF HeldAlong
  <2>2. ASSUME NEW n \in 0 .. m PROVE IsHeld(g, s, ws, k, n)
    <3>1. n \in 0 .. Len(u) /\ IsHeld(f, s, u, k, n)
      BY <1>1, <1>2, <1>3 DEF HeldAlong
    <3>2. CASE n = 0
      BY <3>1, <3>2 DEF IsHeld
    <3>3. CASE n # 0
      <4>1. n - 1 \in 0 .. m /\ n \in 1 .. Len(ws)
        BY <1>3, <3>3
      <4>2. u[n] = ws[n] /\ g[n] = f[n] /\ g[n - 1] = f[n - 1]
        BY <1>1, <4>1
      <4> QED BY <3>1, <3>3, <4>2 DEF IsHeld
    <3> QED BY <3>2, <3>3
  <2> QED BY <1>3, <2>1, <2>2 DEF HeldAlong
<1>5. Outcome(s, ws, k) = f[m]
  <2>1. Outcome(s, ws, k) = g[Len(ws)]
    <3> HIDE DEF g
    <3> QED BY <1>4, HeldUnique
  <2> QED BY <1>3, <2>1
<1>6. IsHeld(f, s, u, k, m + 1) /\ m + 1 # 0 /\ (m + 1) - 1 = m
  BY <1>1, <1>2, <1>3 DEF HeldAlong
<1>7. f[m + 1] = IF w.key = k THEN Applied(f[m], w) ELSE f[m]
  BY <1>1, <1>3, <1>6 DEF IsHeld
<1> QED BY <1>1, <1>2, <1>3, <1>5, <1>7 DEF u

\* The first call is answered.
LEMMA OutcomeHead ==
  ASSUME NEW s \in Entries, NEW ws \in Seq(MemCalls), ws # <<>>, NEW k
  PROVE  Outcome(s, ws, k) = Outcome(IF Head(ws).key = k THEN Applied(s, Head(ws)) ELSE s, Tail(ws), k)
<1>1. PICK m \in Nat : Len(ws) = m + 1
  <2>1. Len(ws) \in Nat /\ Len(ws) # 0
    OBVIOUS
  <2>2. Len(ws) - 1 \in Nat /\ Len(ws) = (Len(ws) - 1) + 1
    BY <2>1
  <2> QED BY <2>2
<1>2. PICK rest \in Seq(MemCalls) : rest = Tail(ws)
  <2>1. Tail(ws) \in Seq(MemCalls)
    OBVIOUS
  <2> QED BY <2>1
<1>3. Len(rest) = m /\ (\A i \in 1 .. m : rest[i] = ws[i + 1]) /\ Head(ws) = ws[1] /\ ws[1] \in MemCalls
  BY <1>1, <1>2
<1>4. PICK f : HeldAlong(f, s, ws, k) /\ Outcome(s, ws, k) = f[Len(ws)]
  BY HeldIs
<1>5. PICK t \in Entries : t = IF Head(ws).key = k THEN Applied(s, Head(ws)) ELSE s
  <2>1. PICK w \in MemCalls : w = Head(ws)
    BY <1>3
  <2>2. Applied(s, w) \in Entries
    BY <2>1, AppliedFacts
  <2> QED BY <2>1, <2>2
<1>6. f[0] = s /\ f[1] = t
  <2>1. 0 \in 0 .. Len(ws) /\ 1 \in 0 .. Len(ws) /\ 1 - 1 = 0 /\ 1 # 0
    BY <1>1
  <2>2. IsHeld(f, s, ws, k, 0) /\ IsHeld(f, s, ws, k, 1)
    BY <1>4, <2>1 DEF HeldAlong
  <2>3. f[0] = s
    BY <2>2 DEF IsHeld
  <2> QED BY <1>3, <1>5, <2>1, <2>2, <2>3 DEF IsHeld
<1> DEFINE g == [n \in 0 .. m |-> f[n + 1]]
<1>7. HeldAlong(g, t, rest, k)
  <2>1. g \in [0 .. m -> Entries]
    <3>1. \A n \in 0 .. m : n + 1 \in 0 .. Len(ws)
      BY <1>1
    <3> QED BY <1>4, <3>1 DEF HeldAlong
  <2>2. ASSUME NEW n \in 0 .. m PROVE IsHeld(g, t, rest, k, n)
    <3>1. n + 1 \in 0 .. Len(ws) /\ IsHeld(f, s, ws, k, n + 1) /\ n + 1 # 0 /\ (n + 1) - 1 = n
      BY <1>1, <1>4 DEF HeldAlong
    <3>2. CASE n = 0
      BY <1>6, <3>2 DEF IsHeld
    <3>3. CASE n # 0
      <4>1. n - 1 \in 0 .. m /\ n \in 1 .. m /\ (n - 1) + 1 = n
        BY <3>3
      <4>2. rest[n] = ws[n + 1] /\ g[n] = f[n + 1] /\ g[n - 1] = f[n]
        BY <1>3, <4>1
      <4> QED BY <3>1, <3>3, <4>2 DEF IsHeld
    <3> QED BY <3>2, <3>3
  <2> QED BY <1>3, <2>1, <2>2 DEF HeldAlong
<1>8. Outcome(t, rest, k) = f[m + 1]
  <2>1. Outcome(t, rest, k) = g[Len(rest)]
    <3> HIDE DEF g
    <3> QED BY <1>7, HeldUnique
  <2>2. g[m] = f[m + 1]
    <3>1. m \in 0 .. m
      BY <1>1
    <3> QED BY <3>1
  <2>3. Len(rest) = m
    BY <1>3
  <2> HIDE DEF g
  <2> QED BY <2>1, <2>2, <2>3
<1> QED BY <1>1, <1>2, <1>4, <1>5, <1>8

\* No calls of the key.
LEMMA OutcomeNone ==
  ASSUME NEW s \in Entries, NEW ws \in Seq(MemCalls), NEW k, \A i \in DOMAIN ws : ws[i].key # k
  PROVE  Outcome(s, ws, k) = s
<1>1. PICK m \in Nat : m = Len(ws) /\ DOMAIN ws = 1 .. m
  OBVIOUS
<1> DEFINE g == [n \in 0 .. m |-> s]
<1>2. HeldAlong(g, s, ws, k)
  <2>1. ASSUME NEW n \in 0 .. m PROVE IsHeld(g, s, ws, k, n)
    <3>1. n # 0 => n - 1 \in 0 .. m /\ n \in DOMAIN ws
      BY <1>1
    <3> QED BY <3>1 DEF IsHeld
  <2> QED BY <1>1, <2>1 DEF HeldAlong
<1>3. Outcome(s, ws, k) = g[Len(ws)]
  <2> HIDE DEF g
  <2> QED BY <1>2, HeldUnique
<1> QED BY <1>1, <1>3

\* Who makes the calls does not matter.
LEMMA OutcomeSame ==
  ASSUME NEW s \in Entries, NEW ws \in Seq(MemCalls), NEW vs \in Seq(MemCalls), NEW k, Len(ws) = Len(vs),
         \A i \in DOMAIN ws : ws[i].key = vs[i].key /\ ws[i].op = vs[i].op /\ ws[i].entry = vs[i].entry
  PROVE  Outcome(s, ws, k) = Outcome(s, vs, k)
<1>1. PICK m \in Nat : m = Len(ws) /\ DOMAIN ws = 1 .. m /\ m = Len(vs)
  OBVIOUS
<1>2. PICK f : HeldAlong(f, s, ws, k) /\ Outcome(s, ws, k) = f[Len(ws)]
  BY HeldIs
<1>3. HeldAlong(f, s, vs, k)
  <2>1. ASSUME NEW n \in 0 .. m PROVE IsHeld(f, s, vs, k, n)
    <3>1. IsHeld(f, s, ws, k, n)
      BY <1>1, <1>2 DEF HeldAlong
    <3>2. n # 0 => Applied(f[n - 1], ws[n]) = Applied(f[n - 1], vs[n]) /\ ws[n].key = vs[n].key
      BY <1>1 DEF Applied
    <3> QED BY <3>1, <3>2 DEF IsHeld
  <2> QED BY <1>1, <1>2, <2>1 DEF HeldAlong
<1> QED BY <1>1, <1>2, <1>3, HeldUnique

\* More calls, none of the key.
LEMMA OutcomeOthers ==
  ASSUME NEW s \in Entries, NEW ws \in Seq(MemCalls), NEW vs \in Seq(MemCalls), NEW k,
         \A i \in DOMAIN vs : vs[i].key # k
  PROVE  Outcome(s, ws \o vs, k) = Outcome(s, ws, k)
<1>1. PICK m, d \in Nat : m = Len(ws) /\ d = Len(vs) /\ DOMAIN vs = 1 .. d
  OBVIOUS
<1>2. PICK u \in Seq(MemCalls) : u = ws \o vs
  <2>1. ws \o vs \in Seq(MemCalls)
    OBVIOUS
  <2> QED BY <2>1
<1>3. /\ Len(u) = m + d /\ (\A i \in 1 .. m : u[i] = ws[i])
      /\ \A i \in m + 1 .. m + d : u[i] = vs[i - m] /\ i - m \in 1 .. d
  BY <1>1, <1>2
<1>4. PICK f : HeldAlong(f, s, ws, k) /\ Outcome(s, ws, k) = f[Len(ws)]
  BY HeldIs
<1> DEFINE g == [n \in 0 .. m + d |-> IF n <= m THEN f[n] ELSE f[m]]
<1>5. HeldAlong(g, s, u, k)
  <2>1. g \in [0 .. m + d -> Entries]
    <3>1. \A n \in 0 .. m + d : (n <= m => n \in 0 .. m) /\ m \in 0 .. m
      OBVIOUS
    <3>2. \A n \in 0 .. m : f[n] \in Entries
      BY <1>1, <1>4 DEF HeldAlong
    <3> QED BY <3>1, <3>2
  <2>2. ASSUME NEW n \in 0 .. m + d PROVE IsHeld(g, s, u, k, n)
    <3>1. CASE n <= m
      <4>1. n \in 0 .. m /\ IsHeld(f, s, ws, k, n) /\ g[n] = f[n]
        BY <1>1, <1>4, <3>1 DEF HeldAlong
      <4>2. n # 0 => g[n - 1] = f[n - 1] /\ u[n] = ws[n]
        BY <1>3, <4>1
      <4> QED BY <4>1, <4>2 DEF IsHeld
    <3>2. CASE ~(n <= m)
      <4>1. n \in m + 1 .. m + d /\ n - 1 \in 0 .. m + d /\ n # 0 /\ (n - 1 <= m => n - 1 = m)
        BY <3>2
      <4>2. u[n].key # k
        BY <1>1, <1>3, <4>1
      <4>3. g[n] = f[m] /\ g[n - 1] = f[m]
        BY <3>2, <4>1
      <4> QED BY <4>1, <4>2, <4>3 DEF IsHeld
    <3> QED BY <3>1, <3>2
  <2> QED BY <1>3, <2>1, <2>2 DEF HeldAlong
<1>6. Outcome(s, u, k) = g[m + d]
  <2>1. Outcome(s, u, k) = g[Len(u)]
    <3> HIDE DEF g
    <3> QED BY <1>5, HeldUnique
  <2> QED BY <1>3, <2>1
<1>7. g[m + d] = f[m]
  <2>1. PICK n \in 0 .. m + d : n = m + d
    OBVIOUS
  <2>2. n <= m => n = m
    BY <2>1
  <2>3. g[n] = f[m]
    BY <2>2
  <2> QED BY <2>1, <2>3
<1> QED BY <1>1, <1>2, <1>4, <1>6, <1>7

\* A replace appends all it has to a key that was cleared.
LEMMA OutcomeRewritten ==
  ASSUME NEW ws \in Seq(MemCalls), NEW k \in Conversations, \A i \in DOMAIN ws : ws[i].key # k,
         NEW es \in Entries, Len(es) <= MaxEntries, NEW j \in Nat, NEW calls,
         calls = [i \in 1 .. Len(es) |-> AppendCall(k, es[i], "replace", j)]
  PROVE  calls \in Seq(MemCalls) /\ ws \o calls \in Seq(MemCalls) /\ Outcome(<<>>, ws \o calls, k) = es
<1>0. Len(ws) \in Nat /\ Len(es) \in Nat /\ DOMAIN ws = 1 .. Len(ws) /\ MaxEntries \in Nat \ {0}
  <2>1. MaxEntries \in Nat \ {0}
    BY MemoryAssumption
  <2>2. Len(ws) \in Nat /\ DOMAIN ws = 1 .. Len(ws)
    OBVIOUS
  <2>3. Len(es) \in Nat
    BY DEF Entries
  <2> QED BY <2>1, <2>2, <2>3, Zenon
<1>1. PICK m, d \in Nat : m = Len(ws) /\ d = Len(es) /\ DOMAIN ws = 1 .. m /\ d <= MaxEntries /\ MaxEntries \in Nat \ {0}
  BY <1>0
<1>2. es \in Seq(MemEntry) /\ \A i \in 1 .. d : es[i] \in MemEntry
  BY <1>1 DEF Entries, MemEntry
<1>3. calls \in Seq(MemCalls) /\ Len(calls) = d
  <2>1. \A i \in 1 .. d : AppendCall(k, es[i], "replace", j) \in MemCalls
    BY <1>2 DEF AppendCall, MemCalls
  <2> QED BY <1>1, <2>1
<1>4. PICK u \in Seq(MemCalls) : u = ws \o calls
  <2>1. ws \o calls \in Seq(MemCalls)
    BY <1>3
  <2> QED BY <2>1
<1>5. /\ Len(u) = m + d /\ (\A i \in 1 .. m : u[i] = ws[i])
      /\ \A i \in m + 1 .. m + d : u[i] = calls[i - m] /\ i - m \in 1 .. d
  BY <1>1, <1>3, <1>4
<1>6. ASSUME NEW i \in m + 1 .. m + d PROVE u[i].key = k /\ u[i].op = "append" /\ u[i].entry = es[i - m]
  <2>1. PICK h \in 1 .. d : h = i - m
    BY <1>5
  <2>2. u[i] = AppendCall(k, es[h], "replace", j)
    <3>1. u[i] = calls[h]
      BY <1>5, <2>1
    <3> QED BY <1>1, <3>1
  <2> QED BY <2>1, <2>2 DEF AppendCall
<1>7. \A i \in 0 .. d : SubSeq(es, 1, i) \in Entries /\ Len(SubSeq(es, 1, i)) = i
                        /\ \A h \in 1 .. i : SubSeq(es, 1, i)[h] = es[h]
  BY <1>1, <1>2 DEF Entries, MemEntry
<1>8. ASSUME NEW i \in 1 .. d PROVE LastOf(MaxEntries, Append(SubSeq(es, 1, i - 1), es[i])) = SubSeq(es, 1, i)
  <2>2. i - 1 \in 0 .. d /\ i \in 0 .. d
    BY <1>1
  <2>1. PICK p \in Entries : p = SubSeq(es, 1, i - 1)
    <3>1. SubSeq(es, 1, i - 1) \in Entries
      BY <1>7, <2>2
    <3> QED BY <3>1
  <2>3. Len(p) = i - 1 /\ \A h \in 1 .. i - 1 : p[h] = es[h]
    BY <1>7, <2>1, <2>2
  <2>4. p \in Seq(MemEntry) /\ es[i] \in MemEntry
    BY <1>2 DEF Entries, MemEntry
  <2>5. /\ Append(p, es[i]) \in Seq(MemEntry) /\ Len(Append(p, es[i])) = i
        /\ \A h \in 1 .. i : Append(p, es[i])[h] = es[h]
    BY <2>3, <2>4, AppendProperties
  <2>6. Append(p, es[i]) = SubSeq(es, 1, i)
    <3>1. SubSeq(es, 1, i) \in Seq(MemEntry) /\ Len(SubSeq(es, 1, i)) = i /\ \A h \in 1 .. i : SubSeq(es, 1, i)[h] = es[h]
      BY <1>7, <2>2 DEF Entries, MemEntry
    <3> QED BY <2>5, <3>1
  <2>7. i <= MaxEntries
    <3>1. i \in 1 .. d /\ d \in Nat /\ d <= MaxEntries /\ MaxEntries \in Nat
      BY <1>1, Zenon
    <3> HIDE <1>1
    <3> QED BY <3>1
  <2>8. LastOf(MaxEntries, Append(p, es[i])) = Append(p, es[i])
    BY <1>1, <2>5, <2>7, LastOfFacts
  <2> QED BY <2>1, <2>6, <2>8
<1>9. <<>> \in Entries /\ SubSeq(es, 1, 0) = <<>>
  BY <1>2 DEF Entries
<1> DEFINE g == [n \in 0 .. m + d |-> IF n <= m THEN <<>> ELSE SubSeq(es, 1, n - m)]
<1>10. HeldAlong(g, <<>>, u, k)
  <2>1. g \in [0 .. m + d -> Entries]
    <3>1. \A n \in 0 .. m + d : ~(n <= m) => n - m \in 0 .. d
      OBVIOUS
    <3> QED BY <1>7, <1>9, <3>1
  <2>2. ASSUME NEW n \in 0 .. m + d PROVE IsHeld(g, <<>>, u, k, n)
    <3>1. CASE n <= m
      <4>1. g[n] = <<>> /\ (n # 0 => n - 1 \in 0 .. m + d /\ n - 1 <= m /\ n \in 1 .. m)
        BY <3>1
      <4>2. n # 0 => g[n - 1] = <<>> /\ u[n].key # k
        BY <1>1, <1>5, <4>1
      <4> QED BY <4>1, <4>2 DEF IsHeld
    <3>2. CASE ~(n <= m)
      <4>1. n \in m + 1 .. m + d /\ n - 1 \in 0 .. m + d /\ n # 0 /\ n - m \in 1 .. d /\ (n - m) - 1 = (n - 1) - m
        BY <3>2
      <4>2. g[n] = SubSeq(es, 1, n - m) /\ g[n - 1] = SubSeq(es, 1, (n - m) - 1)
        <5>1. CASE n - 1 <= m
          <6>1. (n - m) - 1 = 0
            BY <4>1, <5>1
          <6> QED BY <1>9, <3>2, <4>1, <5>1, <6>1
        <5>2. CASE ~(n - 1 <= m)
          BY <3>2, <4>1, <5>2
        <5> QED BY <5>1, <5>2
      <4>3. PICK i \in 1 .. d : i = n - m
        BY <4>1
      <4>4. g[n] = Applied(g[n - 1], u[n])
        <5>1. Applied(SubSeq(es, 1, i - 1), u[n]) = LastOf(MaxEntries, Append(SubSeq(es, 1, i - 1), es[i]))
          BY <1>6, <4>1, <4>3 DEF Applied
        <5> QED BY <1>8, <4>2, <4>3, <5>1
      <4> QED BY <1>6, <4>1, <4>4 DEF IsHeld
    <3> QED BY <3>1, <3>2
  <2> QED BY <1>5, <2>1, <2>2 DEF HeldAlong
<1>11. Outcome(<<>>, u, k) = g[m + d]
  <2>1. Outcome(<<>>, u, k) = g[Len(u)]
    <3> HIDE DEF g
    <3> QED BY <1>9, <1>10, HeldUnique
  <2> QED BY <1>5, <2>1
<1>12. g[m + d] = es
  <2>1. PICK n \in 0 .. m + d : n = m + d
    OBVIOUS
  <2>2. CASE d = 0
    <3>1. n <= m
      BY <2>1, <2>2
    <3>2. g[n] = <<>>
      BY <3>1
    <3>3. es = <<>>
      <4>1. es \in Seq(MemEntry) /\ Len(es) = 0
        BY <1>1, <1>2, <2>2
      <4> QED BY <4>1
    <3> QED BY <2>1, <3>2, <3>3
  <2>3. CASE d # 0
    <3>1. ~(n <= m) /\ n - m = d
      BY <2>1, <2>3
    <3>2. g[n] = SubSeq(es, 1, d)
      BY <3>1
    <3>3. SubSeq(es, 1, d) = es
      BY <1>1, <1>2, SubSeqFull
    <3> QED BY <2>1, <3>2, <3>3
  <2> QED BY <2>2, <2>3
<1> QED BY <1>3, <1>4, <1>11, <1>12

\* The numbers of the operations under way are kept.
SameJobs(js, vs) ==
  DOMAIN js = DOMAIN vs /\ \A j \in DOMAIN js : js[j].kind = vs[j].kind /\ js[j].key = vs[j].key

\* What an operation sees once the bucket or the array of k has changed.
SeenAs(job, k, b, a) ==
  IF job.key # k THEN job.view
  ELSE IF job.view.live = "bucket" THEN b ELSE IF job.view.live = "array" THEN a ELSE job.view

\* The views that follow the bucket or the array of a key.
LEMMA ViewingFacts ==
  ASSUME NEW js, IsJobs(js), NEW k, NEW b \in MemViews, NEW a \in MemViews, NEW vs, vs = Viewing(js, k, b, a)
  PROVE  /\ IsJobs(vs) /\ SameJobs(vs, js)
         /\ \A j \in DOMAIN js : /\ vs[j].view = SeenAs(js[j], k, b, a)
                                 /\ vs[j].left = js[j].left /\ vs[j].at = js[j].at
<1>1. DOMAIN vs = DOMAIN js
  BY DEF Viewing
<1>2. ASSUME NEW j \in DOMAIN js
      PROVE  /\ vs[j] \in MemJobs /\ vs[j].kind = js[j].kind /\ vs[j].key = js[j].key
             /\ vs[j].view = SeenAs(js[j], k, b, a) /\ vs[j].left = js[j].left /\ vs[j].at = js[j].at
  <2>1. PICK job \in MemJobs : job = js[j]
    BY DEF IsJobs
  <2>2. vs[j] = IF job.key # k THEN job
                ELSE [job EXCEPT !.view = IF @.live = "bucket" THEN b ELSE IF @.live = "array" THEN a ELSE @]
    BY <2>1 DEF Viewing
  <2>3. job = [kind |-> job.kind, key |-> job.key, view |-> job.view, left |-> job.left, at |-> job.at]
        /\ job.view \in MemViews
    BY DEF MemJobs
  <2>4. PICK v \in MemViews : v = SeenAs(job, k, b, a)
    BY <2>3 DEF SeenAs
  <2>5. vs[j] = [kind |-> job.kind, key |-> job.key, view |-> v, left |-> job.left, at |-> job.at]
    BY <2>2, <2>3, <2>4 DEF SeenAs
  <2>6. vs[j] \in MemJobs
    BY <2>3, <2>5 DEF MemJobs
  <2> QED BY <2>1, <2>4, <2>5, <2>6
<1>3. vs = [j \in DOMAIN vs |-> vs[j]]
  BY DEF Viewing
<1> QED BY <1>1, <1>2, <1>3 DEF IsJobs, SameJobs

\* An operation is begun, or goes on as another.
LEMMA WithFacts ==
  ASSUME NEW js, IsJobs(js), NEW j \in Nat \ {0}, NEW job \in MemJobs, NEW vs, vs = With(js, j, job)
  PROVE  /\ IsJobs(vs) /\ DOMAIN vs = DOMAIN js \cup {j} /\ vs[j] = job
         /\ \A i \in DOMAIN js : i # j => vs[i] = js[i]
<1>1. DOMAIN vs = DOMAIN js \cup {j}
  BY DEF With
<1>2. vs[j] = job /\ \A i \in DOMAIN js : i # j => vs[i] = js[i]
  BY DEF With
<1>3. IsFiniteSet(DOMAIN vs)
  <2>1. IsFiniteSet(DOMAIN js)
    BY DEF IsJobs
  <2> QED BY <1>1, <2>1, FS_AddElement
<1>4. vs = [i \in DOMAIN vs |-> vs[i]]
  BY DEF With
<1>5. ASSUME NEW i \in DOMAIN vs PROVE vs[i] \in MemJobs /\ i \in Nat \ {0}
  <2>1. CASE i = j
    BY <1>2, <2>1
  <2>2. CASE i # j
    BY <1>1, <1>2, <2>2 DEF IsJobs
  <2> QED BY <2>1, <2>2
<1> QED BY <1>1, <1>2, <1>3, <1>4, <1>5 DEF IsJobs

\* A table with one more operation is a table,
LEMMA WithJobs ==
  ASSUME NEW js, IsJobs(js), NEW j \in Nat \ {0}, NEW job \in MemJobs
  PROVE  IsJobs(With(js, j, job))
<1>1. PICK vs : vs = With(js, j, job)
  OBVIOUS
<1>2. IsJobs(vs)
  BY <1>1, WithFacts
<1> QED BY <1>1, <1>2

\* An operation ends.
LEMMA WithoutFacts ==
  ASSUME NEW js, IsJobs(js), NEW j, NEW vs, vs = Without(js, j)
  PROVE  /\ IsJobs(vs) /\ DOMAIN vs = DOMAIN js \ {j}
         /\ \A i \in DOMAIN vs : vs[i] = js[i]
<1>1. DOMAIN vs = DOMAIN js \ {j}
  BY DEF Without
<1>2. \A i \in DOMAIN vs : vs[i] = js[i]
  BY DEF Without
<1>3. IsFiniteSet(DOMAIN vs)
  <2>1. IsFiniteSet(DOMAIN js)
    BY DEF IsJobs
  <2> QED BY <1>1, <2>1, FS_Subset
<1>4. vs = [i \in DOMAIN vs |-> vs[i]]
  BY DEF Without
<1> QED BY <1>1, <1>2, <1>3, <1>4 DEF IsJobs

\* An operation has gone on to another of its entries.
IsFunction(vs) == vs = [i \in DOMAIN vs |-> vs[i]]

\* and so is one in which an operation goes on.
LEMMA GoesOnFacts ==
  ASSUME NEW js, IsJobs(js), NEW j \in DOMAIN js, NEW job \in MemJobs, NEW vs, IsFunction(vs), DOMAIN vs = DOMAIN js,
         vs[j] = job, \A i \in DOMAIN js : i # j => vs[i] = js[i],
         job.kind = js[j].kind, job.key = js[j].key
  PROVE  IsJobs(vs) /\ SameJobs(vs, js)
<1>1. \A i \in DOMAIN js : vs[i].kind = js[i].kind /\ vs[i].key = js[i].key
  OBVIOUS
<1>2. \A i \in DOMAIN js : vs[i] \in MemJobs
  BY DEF IsJobs
<1> QED BY <1>1, <1>2 DEF IsJobs, SameJobs, IsFunction

\* One value of a function is another.
LEMMA SetFacts ==
  ASSUME NEW js, IsJobs(js), NEW j \in DOMAIN js, NEW job, NEW vs, vs = [js EXCEPT ![j] = job]
  PROVE  IsFunction(vs) /\ DOMAIN vs = DOMAIN js /\ vs[j] = job /\ \A i \in DOMAIN js : i # j => vs[i] = js[i]
<1>1. js = [i \in DOMAIN js |-> js[i]]
  BY DEF IsJobs
<1> QED BY <1>1 DEF IsFunction

\* There is always a number for one more operation.
LEMMA FreeJobFacts ==
  ASSUME IsJobs(jobs)
  PROVE  FreeJob \in Nat \ {0} /\ FreeJob \notin DOMAIN jobs
<1>1. IsFiniteSet(DOMAIN jobs)
  BY DEF IsJobs
<1>2. PICK c \in Nat : c = Cardinality(DOMAIN jobs)
  BY <1>1, FS_CardinalityType
<1>3. \E n \in 1 .. c + 1 : n \notin DOMAIN jobs
  <2> SUFFICES ASSUME 1 .. c + 1 \subseteq DOMAIN jobs PROVE FALSE
    OBVIOUS
  <2>1. Cardinality(1 .. c + 1) <= c
    BY <1>1, <1>2, FS_Subset
  <2>2. Cardinality(1 .. c + 1) = c + 1
    <3>1. 1 \in Int /\ c + 1 \in Int /\ (c + 1) - 1 + 1 = c + 1 /\ ~(1 > c + 1)
      OBVIOUS
    <3> QED BY <3>1, FS_Interval
  <2> QED BY <2>1, <2>2
<1>4. FreeJob \in 1 .. c + 1 /\ FreeJob \notin DOMAIN jobs
  BY <1>2, <1>3 DEF FreeJob
<1> QED BY <1>4

\* Whose calls they are does not change when views do.
LEMMA WiredAlike ==
  ASSUME NEW ws \in Seq(MemCalls), NEW js, NEW vs, Wired(ws, js), SameJobs(vs, js)
  PROVE  Wired(ws, vs)
BY DEF Wired, Owned, SameJobs

\* One more call.
LEMMA WiredAppend ==
  ASSUME NEW ws \in Seq(MemCalls), NEW js, Wired(ws, js), NEW w \in MemCalls, Owned(w, js),
         w.by = "reconcile" => \A i \in DOMAIN ws : ws[i].by = "reconcile" => ws[i].job # w.job
  PROVE  Append(ws, w) \in Seq(MemCalls) /\ Wired(Append(ws, w), js)
<1>1. PICK m \in Nat : m = Len(ws) /\ DOMAIN ws = 1 .. m
  OBVIOUS
<1>2. PICK u \in Seq(MemCalls) : u = Append(ws, w)
  <2>1. Append(ws, w) \in Seq(MemCalls)
    OBVIOUS
  <2> QED BY <2>1
<1>3. DOMAIN u = 1 .. m + 1 /\ u[m + 1] = w /\ \A i \in 1 .. m : u[i] = ws[i]
  BY <1>1, <1>2, AppendProperties
<1>4. \A i \in DOMAIN u : i = m + 1 \/ i \in 1 .. m
  BY <1>3
<1>5. \A i \in DOMAIN u : Owned(u[i], js)
  BY <1>1, <1>3, <1>4 DEF Wired
<1>6. OneEach(u)
  <2> SUFFICES ASSUME NEW i \in DOMAIN u, NEW h \in DOMAIN u, u[i].by = "reconcile", u[h].by = "reconcile",
                      u[i].job = u[h].job, i # h
               PROVE  FALSE
    BY DEF OneEach
  <2>1. CASE i \in 1 .. m /\ h \in 1 .. m
    BY <1>1, <1>3, <2>1 DEF Wired, OneEach
  <2>2. CASE i = m + 1 /\ h \in 1 .. m
    BY <1>1, <1>3, <2>2
  <2>3. CASE i \in 1 .. m /\ h = m + 1
    BY <1>1, <1>3, <2>3
  <2> QED BY <1>4, <2>1, <2>2, <2>3
<1> QED BY <1>2, <1>5, <1>6 DEF Wired

\* The calls of a replace follow.
LEMMA WiredConcat ==
  ASSUME NEW ws \in Seq(MemCalls), NEW js, Wired(ws, js), NEW vs \in Seq(MemCalls),
         \A i \in DOMAIN vs : Owned(vs[i], js) /\ vs[i].by # "reconcile"
  PROVE  ws \o vs \in Seq(MemCalls) /\ Wired(ws \o vs, js)
<1>1. PICK m, d \in Nat : m = Len(ws) /\ DOMAIN ws = 1 .. m /\ d = Len(vs) /\ DOMAIN vs = 1 .. d
  OBVIOUS
<1>2. PICK u \in Seq(MemCalls) : u = ws \o vs
  <2>1. ws \o vs \in Seq(MemCalls)
    OBVIOUS
  <2> QED BY <2>1
<1>3. /\ DOMAIN u = 1 .. m + d /\ (\A i \in 1 .. m : u[i] = ws[i])
      /\ \A i \in m + 1 .. m + d : u[i] = vs[i - m] /\ i - m \in 1 .. d
  BY <1>1, <1>2
<1>4. \A i \in DOMAIN u : i \in m + 1 .. m + d \/ i \in 1 .. m
  BY <1>3
<1>5. ASSUME NEW i \in DOMAIN u PROVE Owned(u[i], js)
  <2>1. CASE i \in 1 .. m
    <3>1. u[i] = ws[i] /\ i \in DOMAIN ws
      BY <1>1, <1>3, <2>1, Zenon
    <3> QED BY <3>1, Zenon DEF Wired
  <2>2. CASE i \in m + 1 .. m + d
    <3>1. u[i] = vs[i - m] /\ i - m \in DOMAIN vs
      BY <1>1, <1>3, <2>2, Zenon
    <3> QED BY <3>1, Zenon
  <2> QED BY <1>4, <2>1, <2>2, Zenon
<1>6. \A i \in DOMAIN u : u[i].by = "reconcile" => i \in 1 .. m
  BY <1>1, <1>3, <1>4
<1>7. OneEach(u)
  BY <1>1, <1>3, <1>6 DEF OneEach, Wired
<1> QED BY <1>2, <1>5, <1>7 DEF Wired

\* A call is answered.
LEMMA WiredTail ==
  ASSUME NEW ws \in Seq(MemCalls), ws # <<>>, NEW js, IsJobs(js), Wired(ws, js)
  PROVE  /\ Tail(ws) \in Seq(MemCalls) /\ Wired(Tail(ws), js)
         /\ Head(ws) \in MemCalls /\ Owned(Head(ws), js) /\ Head(ws) = ws[1] /\ 1 \in DOMAIN ws
         /\ Head(ws).by = "reconcile" => \A i \in DOMAIN Tail(ws) : Tail(ws)[i].job # Head(ws).job
<1>1. PICK m \in Nat : DOMAIN ws = 1 .. m + 1 /\ Len(ws) = m + 1
  <2>1. Len(ws) \in Nat /\ Len(ws) # 0
    OBVIOUS
  <2>2. Len(ws) - 1 \in Nat /\ Len(ws) = (Len(ws) - 1) + 1
    BY <2>1
  <2>3. DOMAIN ws = 1 .. Len(ws)
    OBVIOUS
  <2> QED BY <2>2, <2>3
<1>2. PICK u \in Seq(MemCalls) : u = Tail(ws)
  <2>1. Tail(ws) \in Seq(MemCalls)
    OBVIOUS
  <2> QED BY <2>1
<1>3. DOMAIN u = 1 .. m /\ \A i \in 1 .. m : u[i] = ws[i + 1] /\ i + 1 \in 1 .. m + 1 /\ i + 1 # 1
  BY <1>1, <1>2
<1>4. Head(ws) = ws[1] /\ 1 \in 1 .. m + 1
  OBVIOUS
<1>5. PICK w \in MemCalls : w = ws[1]
  BY <1>1, <1>4
<1>6. \A i \in DOMAIN u : Owned(u[i], js)
  BY <1>1, <1>3 DEF Wired
<1>7. OneEach(u)
  <2> SUFFICES ASSUME NEW i \in DOMAIN u, NEW h \in DOMAIN u, u[i].by = "reconcile", u[h].by = "reconcile",
                      u[i].job = u[h].job
               PROVE  i = h
    BY DEF OneEach
  <2>1. i \in 1 .. m /\ h \in 1 .. m /\ i + 1 \in DOMAIN ws /\ h + 1 \in DOMAIN ws /\ u[i] = ws[i + 1] /\ u[h] = ws[h + 1]
    BY <1>1, <1>3
  <2>2. i + 1 = h + 1
    BY <2>1 DEF Wired, OneEach
  <2> QED BY <2>1, <2>2
<1>8. Owned(w, js)
  BY <1>1, <1>4, <1>5 DEF Wired
<1>9. ASSUME w.by = "reconcile", NEW i \in DOMAIN u PROVE u[i].job # w.job
  <2>1. u[i] = ws[i + 1] /\ i + 1 \in DOMAIN ws /\ i + 1 # 1 /\ u[i] \in MemCalls
    BY <1>1, <1>3
  <2>2. w.job \in DOMAIN js /\ js[w.job].kind = "reconcile"
    BY <1>8, <1>9 DEF Owned
  <2> SUFFICES ASSUME u[i].job = w.job PROVE FALSE
    OBVIOUS
  <2>3. CASE u[i].by = "reconcile"
    BY <1>1, <1>4, <1>5, <1>9, <2>1, <2>3 DEF Wired, OneEach
  <2>4. CASE u[i].by = "replace"
    BY <1>6, <2>2, <2>4 DEF Owned
  <2>5. CASE u[i].by \notin {"replace", "reconcile"}
    <3>1. u[i].job = 0
      BY <1>6, <2>5 DEF Owned
    <3>2. w.job # 0
      BY <2>2 DEF IsJobs
    <3> QED BY <3>1, <3>2
  <2> QED BY <2>3, <2>4, <2>5
<1> QED BY <1>1, <1>2, <1>4, <1>5, <1>6, <1>7, <1>8, <1>9 DEF Wired

\* An operation begins, or goes on, that no call in flight is of.
LEMMA WiredWith ==
  ASSUME NEW ws \in Seq(MemCalls), NEW js, Wired(ws, js), NEW j, NEW job, \A i \in DOMAIN ws : ws[i].job # j
  PROVE  Wired(ws, With(js, j, job))
BY DEF Wired, Owned, With

\* An operation ends, that no call in flight is of.
LEMMA WiredWithout ==
  ASSUME NEW ws \in Seq(MemCalls), NEW js, Wired(ws, js), NEW j, \A i \in DOMAIN ws : ws[i].job # j
  PROVE  Wired(ws, Without(js, j))
BY DEF Wired, Owned, Without

\* A number that is no operation's, or a digest's, is on no call.
LEMMA WiredFree ==
  ASSUME NEW ws \in Seq(MemCalls), NEW js, Wired(ws, js), NEW j \in Nat \ {0},
         j \in DOMAIN js => js[j].kind = "digest"
  PROVE  \A i \in DOMAIN ws : ws[i].job # j
BY DEF Wired, Owned

\* The calls in flight outlive an operation.
LEMMA OrphanedFacts ==
  ASSUME NEW ws \in Seq(MemCalls), NEW j
  PROVE  /\ Orphaned(ws, j) \in Seq(MemCalls) /\ Len(Orphaned(ws, j)) = Len(ws) /\ DOMAIN Orphaned(ws, j) = DOMAIN ws
         /\ \A i \in DOMAIN ws :
              LET v == Orphaned(ws, j)[i] IN
              /\ v.key = ws[i].key /\ v.op = ws[i].op /\ v.entry = ws[i].entry
              /\ ws[i].job # j => v = ws[i]
              /\ ws[i].job = j => v.by = "none" /\ v.job = 0
<1>1. PICK m \in Nat : m = Len(ws) /\ DOMAIN ws = 1 .. m
  OBVIOUS
<1>2. ASSUME NEW i \in 1 .. m
      PROVE  LET v == Orphaned(ws, j)[i] IN
             /\ v \in MemCalls /\ v.key = ws[i].key /\ v.op = ws[i].op /\ v.entry = ws[i].entry
             /\ ws[i].job # j => v = ws[i]
             /\ ws[i].job = j => v.by = "none" /\ v.job = 0
  <2>1. PICK w \in MemCalls : w = ws[i]
    BY <1>1
  <2>2. Orphaned(ws, j)[i] = IF w.job = j THEN [w EXCEPT !.by = "none", !.job = 0] ELSE w
    BY <1>1, <2>1 DEF Orphaned
  <2>3. PICK v \in MemCalls : v = [op |-> w.op, key |-> w.key, entry |-> w.entry, by |-> "none", job |-> 0]
    BY DEF MemCalls
  <2>4. [w EXCEPT !.by = "none", !.job = 0] = v
    <3>1. \E o, q, e, y, b : w = [op |-> o, key |-> q, entry |-> e, by |-> y, job |-> b]
      BY DEF MemCalls
    <3>2. PICK o, q, e, y, b : w = [op |-> o, key |-> q, entry |-> e, by |-> y, job |-> b]
      BY <3>1
    <3>3. v = [op |-> o, key |-> q, entry |-> e, by |-> "none", job |-> 0]
      BY <2>3, <3>2
    <3>4. PICK x : x = [op |-> o, key |-> q, entry |-> e, by |-> "none", job |-> b]
      OBVIOUS
    <3>5. [w EXCEPT !.by = "none"] = x
      BY <3>2, <3>4
    <3>6. [x EXCEPT !.job = 0] = v
      BY <3>3, <3>4
    <3>7. [w EXCEPT !.by = "none", !.job = 0] = [[w EXCEPT !.by = "none"] EXCEPT !.job = 0]
      OBVIOUS
    <3> QED BY <3>5, <3>6, <3>7
  <2>5. v.key = w.key /\ v.op = w.op /\ v.entry = w.entry /\ v.by = "none" /\ v.job = 0
    BY <2>3
  <2> QED BY <2>1, <2>2, <2>4, <2>5
<1>3. Orphaned(ws, j) = [i \in 1 .. m |-> Orphaned(ws, j)[i]]
  BY <1>1 DEF Orphaned
<1>4. Orphaned(ws, j) \in Seq(MemCalls) /\ Len(Orphaned(ws, j)) = m
  BY <1>2, <1>3
<1> QED BY <1>1, <1>2, <1>4

\* An operation ends, and its calls in flight are nobody's.
LEMMA WiredOrphaned ==
  ASSUME NEW ws \in Seq(MemCalls), NEW js, IsJobs(js), Wired(ws, js), NEW j \in DOMAIN js
  PROVE  Wired(Orphaned(ws, j), Without(js, j))
<1> DEFINE u == Orphaned(ws, j)
<1>1. u \in Seq(MemCalls) /\ DOMAIN u = DOMAIN ws
  BY OrphanedFacts
<1>2. \A i \in DOMAIN ws : (ws[i].job # j => u[i] = ws[i]) /\ (ws[i].job = j => u[i].by = "none" /\ u[i].job = 0)
  BY OrphanedFacts
<1> HIDE DEF u
<1>3. \A i \in DOMAIN ws : Owned(ws[i], js)
  BY DEF Wired
<1>4. \A i \in DOMAIN ws : Owned(u[i], Without(js, j))
  <2> SUFFICES ASSUME NEW i \in DOMAIN ws PROVE Owned(u[i], Without(js, j))
    OBVIOUS
  <2>1. CASE ws[i].job = j
    BY <1>2, <2>1 DEF Owned
  <2>2. CASE ws[i].job # j
    BY <1>2, <1>3, <2>2 DEF Owned, Without
  <2> QED BY <2>1, <2>2
<1>5. \A i \in DOMAIN ws : u[i].by = "reconcile" => u[i] = ws[i]
  BY <1>2
<1>6. OneEach(u)
  <2>1. OneEach(ws)
    BY DEF Wired
  <2> QED BY <1>1, <1>5, <2>1 DEF OneEach
<1> QED BY <1>1, <1>4, <1>6 DEF Wired, u

\* What an order bounds.
LEMMA RisesMore ==
  ASSUME NEW s \in Entries, NEW n \in Nat, NEW m \in Nat, n <= m, Rises(s, n)
  PROVE  Rises(s, m)
<1>1. \A i \in DOMAIN s : s[i] \in Int
  BY DEF Entries, Messages, Summary
<1> QED BY <1>1 DEF Rises

\* The next message is the last.
LEMMA RisesAppend ==
  ASSUME NEW s \in Entries, NEW n \in 0 .. MaxMessages, n < MaxMessages, Rises(s, n)
  PROVE  Append(s, n + 1) \in Entries /\ Len(Append(s, n + 1)) = Len(s) + 1 /\ Rises(Append(s, n + 1), n + 1)
<1>1. PICK m \in Nat : m = Len(s) /\ DOMAIN s = 1 .. m
  BY DEF Entries
<1>2. n + 1 \in MemEntry /\ s \in Seq(MemEntry) /\ Entries = Seq(MemEntry)
  <2>1. MaxMessages \in Nat
    BY MemoryAssumption
  <2> QED BY <2>1 DEF MemEntry, Messages, Entries
<1>3. PICK u \in Seq(MemEntry) : u = Append(s, n + 1)
  <2>1. Append(s, n + 1) \in Seq(MemEntry)
    BY <1>2
  <2> QED BY <2>1
<1>4. DOMAIN u = 1 .. m + 1 /\ Len(u) = m + 1 /\ u[m + 1] = n + 1 /\ \A i \in 1 .. m : u[i] = s[i]
  BY <1>1, <1>2, <1>3, AppendProperties
<1>5. \A i \in 1 .. m : s[i] \in Int
  BY <1>1, <1>2 DEF MemEntry, Messages, Summary
<1>6. \A i \in 1 .. m : s[i] <= n
  BY <1>1 DEF Rises
<1>7. ASSUME NEW i \in 1 .. m + 1, NEW h \in 1 .. m + 1, i < h PROVE u[i] < u[h]
  <2>1. i \in 1 .. m /\ (h = m + 1 \/ h \in 1 .. m)
    BY <1>7
  <2>2. CASE h = m + 1
    BY <1>4, <1>5, <1>6, <2>1, <2>2
  <2>3. CASE h \in 1 .. m
    BY <1>1, <1>4, <1>7, <2>1, <2>3 DEF Rises
  <2> QED BY <2>1, <2>2, <2>3
<1>8. \A i \in 1 .. m + 1 : u[i] <= n + 1
  <2> SUFFICES ASSUME NEW i \in 1 .. m + 1 PROVE u[i] <= n + 1
    OBVIOUS
  <2>1. i = m + 1 \/ i \in 1 .. m
    OBVIOUS
  <2>2. CASE i \in 1 .. m
    BY <1>4, <1>5, <1>6, <2>2
  <2> QED BY <1>4, <2>1, <2>2
<1> QED BY <1>1, <1>2, <1>3, <1>4, <1>7, <1>8 DEF Rises

\* The last entries are in order too.
LEMMA RisesLast ==
  ASSUME NEW s \in Entries, NEW n \in Nat, Rises(s, n), NEW c \in Nat \ {0}
  PROVE  /\ LastOf(c, s) \in Entries /\ Len(LastOf(c, s)) <= c /\ Rises(LastOf(c, s), n)
         /\ Len(LastOf(c, s)) <= Len(s)
<1>1. PICK m \in Nat : m = Len(s) /\ DOMAIN s = 1 .. m
  BY DEF Entries
<1>2. s \in Seq(MemEntry) /\ Entries = Seq(MemEntry)
  BY DEF MemEntry, Entries
<1>3. PICK u \in Seq(MemEntry) : u = LastOf(c, s)
  BY <1>2, LastOfFacts
<1>4. CASE m <= c
  BY <1>1, <1>2, <1>4, LastOfFacts
<1>5. CASE m > c
  <2>1. DOMAIN u = 1 .. c /\ Len(u) = c /\ \A i \in 1 .. c : u[i] = s[m - c + i]
    BY <1>1, <1>2, <1>3, <1>5, LastOfFacts
  <2>2. \A i \in 1 .. c : m - c + i \in 1 .. m
    BY <1>5
  <2>3. \A i, h \in 1 .. c : i < h => m - c + i < m - c + h
    BY <1>5
  <2>4. Rises(u, n)
    BY <1>1, <2>1, <2>2, <2>3 DEF Rises
  <2> QED BY <1>1, <1>2, <1>3, <1>5, <2>1, <2>4
<1>6. m <= c \/ m > c
  BY <1>1
<1> QED BY <1>4, <1>5, <1>6

\* A digest goes before what it leaves as it is.
LEMMA RisesDigest ==
  ASSUME NEW s \in Entries, NEW n \in Nat, Rises(s, n), Len(s) > KeepRecent,
         NEW u, u = <<Summary>> \o LastOf(KeepRecent, s)
  PROVE  u \in Entries /\ Len(u) <= MaxEntries /\ Rises(u, n)
<1>1. PICK m \in Nat : m = Len(s) /\ DOMAIN s = 1 .. m
  BY DEF Entries
<1>2. s \in Seq(MemEntry) /\ Entries = Seq(MemEntry)
  BY DEF MemEntry, Entries
<1>3. PICK c \in Nat \ {0} : c = KeepRecent /\ c + 1 <= MaxEntries /\ MaxEntries \in Nat
  BY MemoryAssumption
<1>4. PICK t \in Seq(MemEntry) : t = LastOf(c, s)
  BY <1>2, LastOfFacts
<1>5. DOMAIN t = 1 .. c /\ Len(t) = c /\ \A i \in 1 .. c : t[i] = s[m - c + i] /\ m - c + i \in 1 .. m /\ m - c + i > 1
  BY <1>1, <1>2, <1>3, <1>4, LastOfFacts
<1>6. <<Summary>> \in Seq(MemEntry) /\ Len(<<Summary>>) = 1 /\ <<Summary>>[1] = 0
  BY DEF MemEntry, Summary
<1>7. u \in Seq(MemEntry)
  BY <1>3, <1>4, <1>6
<1>8. Len(u) = c + 1 /\ DOMAIN u = 1 .. c + 1 /\ u[1] = 0 /\ \A i \in 2 .. c + 1 : u[i] = t[i - 1] /\ i - 1 \in 1 .. c
  BY <1>3, <1>4, <1>5, <1>6
<1>9. \A i \in 1 .. m : s[i] \in Nat /\ s[i] <= n
  BY <1>1, <1>2 DEF MemEntry, Messages, Summary, Rises
<1>10. \A i \in 1 .. c : t[i] \in Nat /\ t[i] <= n /\ t[i] > 0
  <2> SUFFICES ASSUME NEW i \in 1 .. c PROVE t[i] \in Nat /\ t[i] <= n /\ t[i] > 0
    OBVIOUS
  <2>1. PICK h \in 1 .. m : h = m - c + i /\ h > 1 /\ t[i] = s[h]
    BY <1>5
  <2>2. 1 \in 1 .. m /\ s[1] < s[h]
    BY <1>1, <2>1 DEF Rises
  <2> QED BY <1>9, <2>1, <2>2
<1>11. \A i, h \in 1 .. c : i < h => t[i] < t[h]
  <2> SUFFICES ASSUME NEW i \in 1 .. c, NEW h \in 1 .. c, i < h PROVE t[i] < t[h]
    OBVIOUS
  <2>1. PICK p, q \in 1 .. m : p = m - c + i /\ q = m - c + h /\ t[i] = s[p] /\ t[h] = s[q]
    BY <1>5
  <2>2. p < q
    BY <1>3, <2>1
  <2> QED BY <1>1, <2>1, <2>2 DEF Rises
<1>12. ASSUME NEW i \in 1 .. c + 1, NEW h \in 1 .. c + 1, i < h PROVE u[i] < u[h]
  <2>1. h \in 2 .. c + 1 /\ (i = 1 \/ i \in 2 .. c + 1)
    BY <1>12
  <2>2. CASE i = 1
    BY <1>8, <1>10, <2>1, <2>2
  <2>3. CASE i \in 2 .. c + 1
    <3>1. i - 1 < h - 1
      BY <1>12
    <3> QED BY <1>8, <1>11, <2>1, <2>3, <3>1
  <2> QED BY <2>1, <2>2, <2>3
<1>13. \A i \in 1 .. c + 1 : u[i] <= n
  <2> SUFFICES ASSUME NEW i \in 1 .. c + 1 PROVE u[i] <= n
    OBVIOUS
  <2>1. i = 1 \/ i \in 2 .. c + 1
    OBVIOUS
  <2> QED BY <1>8, <1>10, <2>1
<1> QED BY <1>2, <1>3, <1>7, <1>8, <1>12, <1>13 DEF Rises

\* What an operation sees stays in order when the bucket of its key changes.
LEMMA ViewingOrdered ==
  ASSUME NEW js, IsJobs(js), NEW k, NEW b \in MemViews, NEW a \in MemViews, NEW vs, vs = Viewing(js, k, b, a),
         NEW j \in DOMAIN js, js[j].key = k, NEW c, NEW d, c.entries \in Entries, NEW n \in Nat, NEW m \in Nat, n <= m,
         JobOrdered(js[j], c, n),
         b.live # "array" /\ (b.live = "bucket" => b.entries = d.entries) /\ Rises(b.entries, m),
         a.live # "bucket" /\ (a.live = "array" => a.entries = d.entries) /\ Rises(a.entries, m),
         Len(c.entries) <= Len(a.entries)
  PROVE  JobOrdered(vs[j], d, m)
<1>1. PICK job \in MemJobs : job = js[j]
  BY DEF IsJobs
<1>2. SameJobs(vs, js) /\ vs[j].view = SeenAs(job, k, b, a)
  BY <1>1, ViewingFacts
<1>3. vs[j].kind = job.kind /\ vs[j].view = SeenAs(job, k, b, a)
  BY <1>1, <1>2 DEF SameJobs
<1>4. job.view \in MemViews /\ job.view.entries \in Entries /\ a.live \in {"bucket", "array", "none"} /\ b.live \in {"bucket", "array", "none"}
      /\ job.view.live \in {"bucket", "array", "none"} /\ a.entries \in Entries
  BY DEF MemJobs, MemViews
<1>5. CASE job.view.live = "bucket"
  <2>1. vs[j].view = b /\ job.kind # "digest" /\ job.kind # "replace"
    BY <1>1, <1>3, <1>5 DEF SeenAs, JobOrdered
  <2> QED BY <1>3, <1>4, <2>1 DEF JobOrdered
<1>6. CASE job.view.live = "array"
  <2>1. vs[j].view = a /\ job.kind # "replace"
    BY <1>1, <1>3, <1>6 DEF SeenAs, JobOrdered
  <2>2. job.kind = "digest" => Len(a.entries) > KeepRecent
    <3>1. job.view.entries = c.entries
      BY <1>1, <1>6 DEF JobOrdered
    <3>2. job.kind = "digest" => Len(c.entries) > KeepRecent
      BY <1>1, <3>1 DEF JobOrdered
    <3>3. \A s \in Entries : Len(s) \in Nat
      BY DEF Entries
    <3>4. PICK x, y, z \in Nat : x = Len(a.entries) /\ y = Len(c.entries) /\ z = KeepRecent
      BY <1>4, <3>3, MemoryAssumption
    <3> QED BY <3>2, <3>4
  <2> QED BY <1>3, <1>4, <2>1, <2>2 DEF JobOrdered
<1>7. CASE job.view.live = "none"
  <2>1. vs[j].view = job.view
    BY <1>1, <1>3, <1>7 DEF SeenAs
  <2>2. Rises(job.view.entries, m)
    BY <1>1, <1>4, RisesMore DEF JobOrdered
  <2> QED BY <1>1, <1>3, <1>7, <2>1, <2>2 DEF JobOrdered
<1> QED BY <1>4, <1>5, <1>6, <1>7

\* The call at the head of the wire is answered.
LEMMA Answered ==
  ASSUME MemTypes, MemWired, NEW by, NEW ok \in BOOLEAN, CallAnswered(by, ok)
  PROVE  /\ wire # <<>> /\ Head(wire) \in MemCalls /\ Head(wire).by = by /\ Owned(Head(wire), jobs)
         /\ Tail(wire) \in Seq(MemCalls) /\ Wired(Tail(wire), jobs) /\ Head(wire) = wire[1] /\ 1 \in DOMAIN wire
         /\ by = "reconcile" => \A i \in DOMAIN Tail(wire) : Tail(wire)[i].job # Head(wire).job
         /\ store' \in [Conversations -> Entries]
         /\ \A k \in Conversations : k # Head(wire).key => store'[k] = store[k]
         /\ \A k \in Conversations : Len(store[k]) <= MaxEntries => Len(store'[k]) <= MaxEntries
         /\ \A k \in Conversations : ok \/ k # Head(wire).key =>
              Outcome(store'[k], Tail(wire), k) = Outcome(store[k], wire, k)
         /\ ok => store'[Head(wire).key] = Applied(store[Head(wire).key], Head(wire))
         /\ store'[Head(wire).key] \in {store[Head(wire).key], Applied(store[Head(wire).key], Head(wire))}
         /\ ok => clean' = clean /\ faults' = faults
         /\ ~ok => clean' = clean \ {Head(wire).key} /\ faults' = faults + 1
         /\ arrived' = arrived /\ digests' = digests /\ clears' = clears
         /\ restarts' = restarts /\ expiries' = expiries
<1>1. wire # <<>> /\ Head(wire).by = by /\ wire \in Seq(MemCalls) /\ IsJobs(jobs)
  BY DEF CallAnswered, MemTypes
<1>2. PICK w \in MemCalls : w = Head(wire)
  BY <1>1, WiredTail DEF MemWired
<1>3. /\ Tail(wire) \in Seq(MemCalls) /\ Wired(Tail(wire), jobs)
      /\ Owned(w, jobs) /\ w = wire[1] /\ 1 \in DOMAIN wire
      /\ w.by = "reconcile" => \A i \in DOMAIN Tail(wire) : Tail(wire)[i].job # w.job
  BY <1>1, <1>2, WiredTail DEF MemWired
<1>4. w.key \in Conversations /\ store \in [Conversations -> Entries]
  BY DEF MemCalls, MemTypes
<1> DEFINE done == [store EXCEPT ![w.key] = Applied(store[w.key], w)]
<1>5. done \in [Conversations -> Entries] /\ Len(done[w.key]) <= MaxEntries
      /\ \A k \in Conversations : done[k] = IF k = w.key THEN Applied(store[k], w) ELSE store[k]
  BY <1>4, AppliedFacts
<1>6. /\ ok => store' = done /\ clean' = clean /\ faults' = faults
      /\ ~ok => store' \in {store, done} /\ clean' = clean \ {w.key} /\ faults' = faults + 1
  BY <1>2 DEF CallAnswered
<1> HIDE DEF done
<1>7. store' = store \/ store' = done
  BY <1>6
<1>8. \A k \in Conversations : k # w.key => store'[k] = store[k]
  BY <1>5, <1>7
<1>9. \A k \in Conversations : Len(store[k]) <= MaxEntries => Len(store'[k]) <= MaxEntries
  BY <1>5, <1>7
<1>10. ASSUME NEW k \in Conversations, ok \/ k # w.key
       PROVE  Outcome(store'[k], Tail(wire), k) = Outcome(store[k], wire, k)
  <2>1. PICK s \in Entries : s = store[k]
    BY <1>4
  <2>2. Outcome(s, wire, k) = Outcome(IF w.key = k THEN Applied(s, w) ELSE s, Tail(wire), k)
    BY <1>1, <1>2, OutcomeHead
  <2>3. store'[k] = IF w.key = k THEN Applied(s, w) ELSE s
    BY <1>5, <1>6, <1>8, <1>10, <2>1
  <2> QED BY <2>1, <2>2, <2>3
<1>11. store' \in [Conversations -> Entries]
  BY <1>4, <1>5, <1>7
<1>13. store'[w.key] \in {store[w.key], Applied(store[w.key], w)} /\ (ok => store'[w.key] = Applied(store[w.key], w))
  BY <1>4, <1>5, <1>6, <1>7
<1>12. /\ arrived' = arrived /\ digests' = digests /\ clears' = clears
       /\ restarts' = restarts /\ expiries' = expiries
  BY DEF CallAnswered
<1> QED BY <1>1, <1>2, <1>3, <1>6, <1>8, <1>9, <1>10, <1>11, <1>12, <1>13

\* What holds of an operation whatever its state.
LEMMA JobTypes ==
  ASSUME NEW js, IsJobs(js), NEW j \in DOMAIN js
  PROVE  /\ js[j] \in MemJobs /\ j \in Nat \ {0} /\ js[j].key \in Conversations /\ js[j].view \in MemViews
         /\ js[j].view.entries \in Entries /\ js[j].left \in SUBSET Conversations /\ js[j].at \in Nat
         /\ js[j].kind \in {"replace", "reconcile", "digest"}
<1>1. js[j] \in MemJobs /\ j \in Nat \ {0}
  BY DEF IsJobs
<1>2. \A job \in MemJobs : /\ job.key \in Conversations /\ job.view \in MemViews
         /\ job.view.entries \in Entries /\ job.left \in SUBSET Conversations /\ job.at \in Nat
         /\ job.kind \in {"replace", "reconcile", "digest"}
  BY DEF MemJobs, MemViews
<1> QED BY <1>1, <1>2

\* The order is kept when nothing is written, and the backend keeps no more.
LEMMA OrderSame ==
  ASSUME NEW c, NEW d, NEW s, NEW t, NEW n, KeysOrdered(c, s, n),
         \A k \in Conversations : d[k].entries = c[k].entries /\ d[k].present = c[k].present,
         \A k \in Conversations : Len(s[k]) <= MaxEntries => Len(t[k]) <= MaxEntries,
         NEW js, IsJobs(js), JobsOrdered(js, c, n)
  PROVE  KeysOrdered(d, t, n) /\ JobsOrdered(js, d, n)
<1>1. KeysOrdered(d, t, n)
  BY DEF KeysOrdered, KeyOrdered
<1>2. ASSUME NEW j \in DOMAIN js PROVE JobOrdered(js[j], d[js[j].key], n)
  <2>1. js[j].key \in Conversations
    BY JobTypes
  <2>2. JobOrdered(js[j], c[js[j].key], n) /\ d[js[j].key].entries = c[js[j].key].entries
    BY <2>1 DEF JobsOrdered
  <2> QED BY <2>2 DEF JobOrdered
<1> QED BY <1>1, <1>2 DEF JobsOrdered

\* The order is kept when the bucket of a key changes.
LEMMA OrderChanged ==
  ASSUME NEW c, NEW d, NEW s, NEW t, NEW n \in Nat, NEW m \in Nat, n <= m, NEW k \in Conversations,
         c \in [Conversations -> MemBuckets], KeysOrdered(c, s, n),
         \A q \in Conversations : q # k => d[q] = c[q],
         \A q \in Conversations : Len(s[q]) <= MaxEntries => Len(t[q]) <= MaxEntries,
         NEW js, IsJobs(js), JobsOrdered(js, c, n),
         NEW b \in MemViews, NEW a \in MemViews, NEW vs, vs = Viewing(js, k, b, a),
         b.live # "array" /\ (b.live = "bucket" => b.entries = d[k].entries) /\ Rises(b.entries, m),
         a.live # "bucket" /\ (a.live = "array" => a.entries = d[k].entries) /\ Rises(a.entries, m),
         Len(c[k].entries) <= Len(a.entries),
         Rises(d[k].entries, m), Len(d[k].entries) <= MaxEntries, ~d[k].present => d[k].entries = <<>>
  PROVE  KeysOrdered(d, t, m) /\ JobsOrdered(vs, d, m)
<1>1. \A q \in Conversations : c[q].entries \in Entries
  BY DEF MemBuckets
<1>2. \A q \in Conversations : Rises(c[q].entries, m)
  BY <1>1, RisesMore DEF KeysOrdered, KeyOrdered
<1>3. KeysOrdered(d, t, m)
  <2> SUFFICES ASSUME NEW q \in Conversations PROVE KeyOrdered(d[q], t[q], m)
    BY DEF KeysOrdered
  <2>1. KeyOrdered(c[q], s[q], n)
    BY DEF KeysOrdered
  <2>2. CASE q = k
    BY <2>1, <2>2 DEF KeyOrdered
  <2>3. CASE q # k
    BY <1>2, <2>1, <2>3 DEF KeyOrdered
  <2> QED BY <2>2, <2>3
<1>4. SameJobs(vs, js) /\ \A j \in DOMAIN js : vs[j].view = SeenAs(js[j], k, b, a)
  BY ViewingFacts
<1>5. ASSUME NEW j \in DOMAIN vs PROVE JobOrdered(vs[j], d[vs[j].key], m)
  <2>1. j \in DOMAIN js /\ vs[j].key = js[j].key /\ vs[j].kind = js[j].kind
    BY <1>4, <1>5 DEF SameJobs
  <2>2. JobOrdered(js[j], c[js[j].key], n) /\ js[j].key \in Conversations /\ js[j].view.entries \in Entries
    BY <2>1, JobTypes DEF JobsOrdered
  <2>3. CASE js[j].key = k
    <3>1. JobOrdered(js[j], c[k], n) /\ c[k].entries \in Entries
      BY <1>1, <2>2, <2>3
    <3>2. JobOrdered(vs[j], d[k], m)
      BY <2>1, <2>3, <3>1, ViewingOrdered
    <3> QED BY <2>1, <2>3, <3>2
  <2>4. CASE js[j].key # k
    <3>1. vs[j].view = js[j].view /\ d[js[j].key] = c[js[j].key]
      BY <1>4, <2>1, <2>2, <2>4 DEF SeenAs
    <3>2. Rises(js[j].view.entries, m)
      BY <2>2, RisesMore DEF JobOrdered
    <3> QED BY <2>1, <2>2, <3>1, <3>2 DEF JobOrdered
  <2> QED BY <2>3, <2>4
<1> QED BY <1>3, <1>5 DEF JobsOrdered

\* add: what it does to the cache, the wire and what is seen.
LEMMA AddEffects ==
  ASSUME MemCore, NEW k \in Conversations, Add(k)
  PROVE  \E p, q \in Entries :
           /\ p = Append(cache[k].entries, arrived + 1) /\ q = LastOf(MaxEntries, p)
           /\ Rises(p, arrived + 1) /\ Rises(q, arrived + 1) /\ Len(p) = Len(cache[k].entries) + 1 /\ Len(q) <= MaxEntries
           /\ cache' \in [Conversations -> MemBuckets] /\ cache'[k].entries = q /\ cache'[k].present
           /\ \A i \in Conversations : i # k => cache'[i] = cache[i]
           /\ arrived' = arrived + 1 /\ arrived + 1 \in 0 .. MaxMessages
           /\ jobs' = Viewing(jobs, k, View("bucket", q), View(IF q = p THEN "array" ELSE "none", p))
           /\ wire' = Append(wire, AppendCall(k, arrived + 1, "add", 0)) /\ AppendCall(k, arrived + 1, "add", 0) \in MemCalls
<1>1. cache \in [Conversations -> MemBuckets] /\ arrived \in 0 .. MaxMessages /\ MaxMessages \in Nat /\ arrived < MaxMessages
  BY MemoryAssumption DEF MemCore, MemTypes, Add
<1>2. PICK e \in 0 .. MaxMessages : e = arrived + 1 /\ e \in MemEntry
  <2>1. arrived + 1 \in 0 .. MaxMessages /\ arrived + 1 \in MemEntry
    BY <1>1 DEF MemEntry, Messages
  <2> QED BY <2>1
<1>3. PICK s \in Entries : s = cache[k].entries
  BY <1>1 DEF MemBuckets
<1>4. Rises(s, arrived)
  BY <1>3 DEF MemCore, OrderInv, KeysOrdered, KeyOrdered
<1>5. PICK p \in Entries : p = Append(s, e) /\ Rises(p, e) /\ Len(p) = Len(s) + 1
  BY <1>1, <1>2, <1>4, RisesAppend
<1>6. PICK q \in Entries : q = LastOf(MaxEntries, p) /\ Rises(q, e) /\ Len(q) <= MaxEntries
  <2>1. MaxEntries \in Nat \ {0} /\ e \in Nat
    BY MemoryAssumption
  <2> QED BY <1>5, <2>1, RisesLast
<1>7. PICK n \in BOOLEAN : n = (cache[k].needsSummary \/ Len(p) > SummarizeThreshold)
  OBVIOUS
<1>8. cache' = [cache EXCEPT ![k] = [present |-> TRUE, entries |-> q, needsSummary |-> n]]
  BY <1>2, <1>3, <1>5, <1>6, <1>7 DEF Add, KeptEntries
<1>9. [present |-> TRUE, entries |-> q, needsSummary |-> n] \in MemBuckets
  BY DEF MemBuckets
<1>10. PICK b \in MemBuckets : b = [present |-> TRUE, entries |-> q, needsSummary |-> n]
  BY <1>9
<1>11. cache' \in [Conversations -> MemBuckets] /\ cache'[k] = b /\ \A i \in Conversations : i # k => cache'[i] = cache[i]
  BY <1>1, <1>8, <1>10
<1>12. cache'[k].entries = q /\ cache'[k].present
  BY <1>10, <1>11
<1>13. jobs' = Viewing(jobs, k, View("bucket", q), View(IF q = p THEN "array" ELSE "none", p))
  BY <1>2, <1>3, <1>5, <1>6 DEF Add, KeptEntries
<1>14. wire' = Append(wire, AppendCall(k, e, "add", 0)) /\ arrived' = e
  BY <1>2 DEF Add
<1>15. AppendCall(k, e, "add", 0) \in MemCalls
  BY <1>2 DEF AppendCall, MemCalls
<1>16. arrived + 1 = e
  BY <1>2
<1>17. /\ p = Append(cache[k].entries, arrived + 1) /\ q = LastOf(MaxEntries, p)
       /\ Rises(p, arrived + 1) /\ Rises(q, arrived + 1) /\ Len(p) = Len(cache[k].entries) + 1 /\ Len(q) <= MaxEntries
       /\ cache' \in [Conversations -> MemBuckets] /\ cache'[k].entries = q /\ cache'[k].present
       /\ \A i \in Conversations : i # k => cache'[i] = cache[i]
       /\ arrived' = arrived + 1 /\ arrived + 1 \in 0 .. MaxMessages
       /\ jobs' = Viewing(jobs, k, View("bucket", q), View(IF q = p THEN "array" ELSE "none", p))
       /\ wire' = Append(wire, AppendCall(k, arrived + 1, "add", 0)) /\ AppendCall(k, arrived + 1, "add", 0) \in MemCalls
  BY <1>3, <1>5, <1>6, <1>11, <1>12, <1>13, <1>14, <1>15, <1>16
<1> QED BY <1>17

\* The views of the bucket and of the array.
LEMMA ViewTypes ==
  ASSUME NEW live \in {"bucket", "array", "none"}, NEW es \in Entries
  PROVE  View(live, es) \in MemViews /\ View(live, es).live = live /\ View(live, es).entries = es
BY DEF View, MemViews

\* A push keeps the core.
LEMMA AddCore ==
  ASSUME MemCore, NEW k \in Conversations, Add(k)
  PROVE  MemCore'
<1>1. PICK p, q \in Entries :
        /\ p = Append(cache[k].entries, arrived + 1) /\ q = LastOf(MaxEntries, p)
        /\ Rises(p, arrived + 1) /\ Rises(q, arrived + 1) /\ Len(p) = Len(cache[k].entries) + 1 /\ Len(q) <= MaxEntries
        /\ cache' \in [Conversations -> MemBuckets] /\ cache'[k].entries = q /\ cache'[k].present
        /\ \A i \in Conversations : i # k => cache'[i] = cache[i]
        /\ arrived' = arrived + 1 /\ arrived + 1 \in 0 .. MaxMessages
        /\ jobs' = Viewing(jobs, k, View("bucket", q), View(IF q = p THEN "array" ELSE "none", p))
        /\ wire' = Append(wire, AppendCall(k, arrived + 1, "add", 0)) /\ AppendCall(k, arrived + 1, "add", 0) \in MemCalls
  BY AddEffects
<1>2. MemTypes /\ Wired(wire, jobs) /\ KeysOrdered(cache, store, arrived) /\ JobsOrdered(jobs, cache, arrived)
  BY DEF MemCore, MemWired, OrderInv
<1>3. /\ wire \in Seq(MemCalls) /\ IsJobs(jobs) /\ cache \in [Conversations -> MemBuckets] /\ store \in [Conversations -> Entries]
      /\ arrived \in 0 .. MaxMessages
  BY <1>2 DEF MemTypes
<1>4. PICK b, a \in MemViews : /\ b = View("bucket", q) /\ b.live = "bucket" /\ b.entries = q
                               /\ a = View(IF q = p THEN "array" ELSE "none", p) /\ a.entries = p
                               /\ a.live = IF q = p THEN "array" ELSE "none"
  <2>1. (IF q = p THEN "array" ELSE "none") \in {"bucket", "array", "none"}
    OBVIOUS
  <2>2. View("bucket", q) \in MemViews /\ View("bucket", q).live = "bucket" /\ View("bucket", q).entries = q
    BY ViewTypes
  <2>3. PICK live \in {"bucket", "array", "none"} : live = IF q = p THEN "array" ELSE "none"
    BY <2>1, Zenon
  <2>4. View(live, p) \in MemViews /\ View(live, p).live = live /\ View(live, p).entries = p
    BY ViewTypes
  <2> QED BY <2>2, <2>3, <2>4, Zenon
<1>5. jobs' = Viewing(jobs, k, b, a)
  BY <1>1, <1>4
<1>6. IsJobs(jobs') /\ SameJobs(jobs', jobs)
  BY <1>3, <1>5, ViewingFacts
<1>7. PICK w \in MemCalls : w = AppendCall(k, arrived + 1, "add", 0) /\ w.by = "add" /\ w.job = 0
  BY <1>1 DEF AppendCall
<1>8. wire' \in Seq(MemCalls) /\ Wired(wire', jobs')
  <2>1. Wired(wire, jobs')
    BY <1>2, <1>3, <1>6, WiredAlike
  <2>2. Owned(w, jobs') /\ w.by # "reconcile"
    BY <1>7 DEF Owned
  <2>3. Append(wire, w) \in Seq(MemCalls) /\ Wired(Append(wire, w), jobs')
    BY <1>3, <2>1, <2>2, WiredAppend
  <2> QED BY <1>1, <1>7, <2>3
<1>9. UNCHANGED <<store, dirty, digests, clears, faults, restarts, expiries>> /\ clean' \subseteq clean
  <2>1. UNCHANGED <<store, dirty, digests, clears, faults, restarts, expiries>> /\ Touched(k)
    BY DEF Add
  <2> QED BY <2>1 DEF Touched
<1>10. MemTypes'
  <2>1. store' = store /\ dirty' = dirty /\ digests' = digests /\ clears' = clears /\ faults' = faults /\ restarts' = restarts /\ expiries' = expiries
    BY <1>9
  <2> QED BY <1>1, <1>2, <1>6, <1>8, <1>9, <2>1 DEF MemTypes
<1>11. PICK m \in Nat : m = arrived + 1 /\ arrived <= m /\ arrived' = m
  <2>1. arrived + 1 \in Nat /\ arrived <= arrived + 1
    BY <1>3
  <2> QED BY <1>1, <2>1
<1>12. KeysOrdered(cache', store', m) /\ JobsOrdered(jobs', cache', m)
  <2>1. Len(cache[k].entries) <= Len(p)
    <3>1. PICK s \in Entries : s = cache[k].entries
      BY <1>3 DEF MemBuckets
    <3>2. Len(s) \in Nat
      BY DEF Entries
    <3> QED BY <1>1, <3>1, <3>2
  <2>2. store' = store /\ arrived \in Nat
    <3>1. store' = store
      BY <1>9, Zenon
    <3>2. arrived \in Nat
      <4>1. arrived \in 0 .. MaxMessages
        BY <1>3, Zenon
      <4> QED BY <4>1
    <3> QED BY <3>1, <3>2, Zenon
  <2>3. b.live # "array" /\ (b.live = "bucket" => b.entries = cache'[k].entries) /\ Rises(b.entries, m)
    <3>1. b.live # "array" /\ b.entries = q
      BY <1>4
    <3>2. q = cache'[k].entries /\ Rises(q, m)
      BY <1>1, <1>11
    <3> QED BY <3>1, <3>2, Zenon
  <2>4. a.live # "bucket" /\ (a.live = "array" => a.entries = cache'[k].entries) /\ Rises(a.entries, m)
        /\ Len(cache[k].entries) <= Len(a.entries)
    BY <1>1, <1>4, <1>11, <2>1
  <2>5. Rises(cache'[k].entries, m) /\ Len(cache'[k].entries) <= MaxEntries /\ (~cache'[k].present => cache'[k].entries = <<>>)
    BY <1>1, <1>11
  <2>6. /\ \A i \in Conversations : i # k => cache'[i] = cache[i]
        /\ \A i \in Conversations : Len(store[i]) <= MaxEntries => Len(store'[i]) <= MaxEntries
    BY <1>1, <2>2
  <2>7. arrived <= m
    BY <1>11
  <2> QED BY <1>2, <1>3, <1>5, <2>2, <2>3, <2>4, <2>5, <2>6, <2>7, OrderChanged
<1> QED BY <1>8, <1>10, <1>11, <1>12 DEF MemCore, MemWired, OrderInv

\* The order when an operation begins, or goes on,
LEMMA OrderedWith ==
  ASSUME NEW js, IsJobs(js), NEW c, NEW n, JobsOrdered(js, c, n), NEW j \in Nat \ {0}, NEW job \in MemJobs, JobOrdered(job, c[job.key], n)
  PROVE  JobsOrdered(With(js, j, job), c, n)
BY DEF JobsOrdered, With

\* and when it ends.
LEMMA OrderedWithout ==
  ASSUME NEW js, IsJobs(js), NEW c, NEW n, JobsOrdered(js, c, n), NEW j
  PROVE  JobsOrdered(Without(js, j), c, n)
BY DEF JobsOrdered, Without

\* The parts of the core, as the steps use them.
LEMMA CoreParts ==
  ASSUME MemCore
  PROVE  /\ MemTypes /\ MemWired /\ Wired(wire, jobs) /\ KeysOrdered(cache, store, arrived) /\ JobsOrdered(jobs, cache, arrived)
         /\ wire \in Seq(MemCalls) /\ IsJobs(jobs) /\ cache \in [Conversations -> MemBuckets] /\ store \in [Conversations -> Entries]
         /\ arrived \in 0 .. MaxMessages /\ arrived \in Nat /\ dirty \subseteq Conversations /\ clean \subseteq Conversations
         /\ \A k \in Conversations : cache[k].entries \in Entries /\ Rises(cache[k].entries, arrived)
<1>1. MemTypes /\ MemWired /\ Wired(wire, jobs) /\ KeysOrdered(cache, store, arrived) /\ JobsOrdered(jobs, cache, arrived)
  BY DEF MemCore, MemWired, OrderInv
<1>2. /\ wire \in Seq(MemCalls) /\ IsJobs(jobs) /\ cache \in [Conversations -> MemBuckets] /\ store \in [Conversations -> Entries]
      /\ arrived \in 0 .. MaxMessages /\ arrived \in Nat /\ dirty \subseteq Conversations /\ clean \subseteq Conversations
  BY <1>1 DEF MemTypes
<1>3. \A k \in Conversations : cache[k].entries \in Entries
  BY <1>2 DEF MemBuckets
<1>4. \A k \in Conversations : Rises(cache[k].entries, arrived)
  BY <1>1 DEF KeysOrdered, KeyOrdered
<1> QED BY <1>1, <1>2, <1>3, <1>4

\* What no bucket is.
LEMMA NoBucketFacts ==
  NoBucket \in MemBuckets /\ NoBucket.entries = <<>> /\ ~NoBucket.present /\ (\A n : Rises(<<>>, n)) /\ <<>> \in Entries /\ Len(<<>>) = 0
<1>1. <<>> \in Entries
  BY DEF Entries
<1> QED BY <1>1 DEF NoBucket, MemBuckets, Rises

\* A clear keeps the core.
LEMMA ClearCore ==
  ASSUME MemCore, NEW k \in Conversations, Clear(k)
  PROVE  MemCore'
<1>1. /\ MemTypes /\ Wired(wire, jobs) /\ KeysOrdered(cache, store, arrived) /\ JobsOrdered(jobs, cache, arrived)
      /\ wire \in Seq(MemCalls) /\ IsJobs(jobs) /\ cache \in [Conversations -> MemBuckets] /\ arrived \in Nat
      /\ cache[k].entries \in Entries /\ Rises(cache[k].entries, arrived)
  BY CoreParts
<1>2. PICK v \in MemViews : v = View("none", cache[k].entries) /\ v.live = "none" /\ v.entries = cache[k].entries
  BY <1>1, ViewTypes
<1>3. jobs' = Viewing(jobs, k, v, v)
  BY <1>2 DEF Clear, Detached
<1>4. IsJobs(jobs') /\ SameJobs(jobs', jobs)
  BY <1>1, <1>3, ViewingFacts
<1>5. PICK w \in MemCalls : w = ClearCall(k, "clear", 0) /\ w.by = "clear" /\ w.job = 0
  <2>1. ClearCall(k, "clear", 0) \in MemCalls
    BY DEF ClearCall, MemCalls, MemEntry
  <2> QED BY <2>1 DEF ClearCall
<1>6. wire' \in Seq(MemCalls) /\ Wired(wire', jobs')
  <2>1. Wired(wire, jobs')
    BY <1>1, <1>4, WiredAlike
  <2>2. Owned(w, jobs') /\ w.by # "reconcile"
    BY <1>5 DEF Owned
  <2>3. Append(wire, w) \in Seq(MemCalls) /\ Wired(Append(wire, w), jobs')
    BY <1>1, <2>1, <2>2, WiredAppend
  <2>4. wire' = Append(wire, w)
    BY <1>5 DEF Clear
  <2> QED BY <2>3, <2>4
<1>7. /\ store' = store /\ dirty' = dirty /\ digests' = digests /\ clears' = clears + 1 /\ faults' = faults
      /\ restarts' = restarts /\ expiries' = expiries /\ arrived' = arrived /\ clean' \subseteq clean
  BY DEF Clear, Touched
<1>8. cache' \in [Conversations -> MemBuckets] /\ cache'[k] = NoBucket /\ \A i \in Conversations : i # k => cache'[i] = cache[i]
  BY <1>1, NoBucketFacts DEF Clear
<1>9. MemTypes'
  BY <1>1, <1>4, <1>6, <1>7, <1>8 DEF MemTypes
<1>10. KeysOrdered(cache', store', arrived) /\ JobsOrdered(jobs', cache', arrived)
  <2>1. v.live # "array" /\ v.live # "bucket" /\ Rises(v.entries, arrived) /\ Len(cache[k].entries) <= Len(v.entries) /\ arrived <= arrived
    <3>1. PICK s \in Entries : s = cache[k].entries
      BY <1>1
    <3>2. Len(s) \in Nat
      BY DEF Entries
    <3> QED BY <1>1, <1>2, <3>1, <3>2
  <2>2. Rises(cache'[k].entries, arrived) /\ Len(cache'[k].entries) <= MaxEntries /\ (~cache'[k].present => cache'[k].entries = <<>>)
    <3>1. MaxEntries \in Nat
      BY MemoryAssumption
    <3> QED BY <1>8, <3>1, NoBucketFacts
  <2>3. \A i \in Conversations : Len(store[i]) <= MaxEntries => Len(store'[i]) <= MaxEntries
    BY <1>7
  <2>4. /\ v.live # "array" /\ (v.live = "bucket" => v.entries = cache'[k].entries)
        /\ v.live # "bucket" /\ (v.live = "array" => v.entries = cache'[k].entries)
    BY <2>1
  <2> QED BY <1>1, <1>3, <1>8, <2>1, <2>2, <2>3, <2>4, OrderChanged
<1> QED BY <1>6, <1>7, <1>9, <1>10 DEF MemCore, MemWired, OrderInv

\* A copy expires: nothing is under way of the key.
LEMMA ExpireCore ==
  ASSUME MemCore, NEW k \in Conversations, Expire(k)
  PROVE  MemCore'
<1>1. /\ MemTypes /\ Wired(wire, jobs) /\ KeysOrdered(cache, store, arrived) /\ JobsOrdered(jobs, cache, arrived)
      /\ wire \in Seq(MemCalls) /\ IsJobs(jobs) /\ cache \in [Conversations -> MemBuckets] /\ arrived \in Nat
  BY CoreParts
<1>2. /\ store' = store /\ dirty' = dirty /\ wire' = wire /\ jobs' = jobs /\ arrived' = arrived /\ digests' = digests
      /\ clears' = clears /\ faults' = faults /\ restarts' = restarts /\ expiries' = expiries + 1 /\ clean' \subseteq clean
      /\ \A j \in DOMAIN jobs : jobs[j].key # k
  BY DEF Expire, Quiet
<1>3. cache' \in [Conversations -> MemBuckets] /\ cache'[k] = NoBucket /\ \A i \in Conversations : i # k => cache'[i] = cache[i]
  BY <1>1, NoBucketFacts DEF Expire
<1>4. MemTypes'
  BY <1>1, <1>2, <1>3 DEF MemTypes
<1>5. KeysOrdered(cache', store', arrived)
  <2>1. MaxEntries \in Nat
    BY MemoryAssumption
  <2>2. ASSUME NEW i \in Conversations PROVE KeyOrdered(cache'[i], store'[i], arrived)
    <3>1. KeyOrdered(cache[i], store[i], arrived)
      BY <1>1 DEF KeysOrdered
    <3>2. CASE i = k
      BY <1>2, <1>3, <2>1, <3>1, <3>2, NoBucketFacts DEF KeyOrdered
    <3>3. CASE i # k
      BY <1>2, <1>3, <3>1, <3>3
    <3> QED BY <3>2, <3>3
  <2> QED BY <2>2 DEF KeysOrdered
<1>6. JobsOrdered(jobs', cache', arrived)
  <2>1. \A j \in DOMAIN jobs : cache'[jobs[j].key] = cache[jobs[j].key]
    BY <1>1, <1>2, <1>3, JobTypes
  <2> QED BY <1>1, <1>2, <2>1 DEF JobsOrdered
<1>7. Wired(wire', jobs')
  BY <1>1, <1>2
<1> QED BY <1>2, <1>4, <1>5, <1>6, <1>7 DEF MemCore, MemWired, OrderInv

\* The expiry of a key in the backend keeps the core.
LEMMA BackendExpiresCore ==
  ASSUME MemCore, NEW k \in Conversations, BackendExpires(k)
  PROVE  MemCore'
<1>1. /\ MemTypes /\ Wired(wire, jobs) /\ KeysOrdered(cache, store, arrived) /\ JobsOrdered(jobs, cache, arrived)
      /\ IsJobs(jobs) /\ store \in [Conversations -> Entries]
  BY CoreParts
<1>2. /\ cache' = cache /\ dirty' = dirty /\ wire' = wire /\ jobs' = jobs /\ arrived' = arrived /\ digests' = digests
      /\ clears' = clears /\ faults' = faults /\ restarts' = restarts /\ expiries' = expiries + 1 /\ clean' \subseteq clean
  BY DEF BackendExpires, Quiet
<1>3. store' \in [Conversations -> Entries] /\ store'[k] = <<>> /\ \A i \in Conversations : i # k => store'[i] = store[i]
  BY <1>1, NoBucketFacts DEF BackendExpires
<1>4. MemTypes'
  BY <1>1, <1>2, <1>3 DEF MemTypes
<1>5. KeysOrdered(cache', store', arrived) /\ JobsOrdered(jobs', cache', arrived)
  <2>1. MaxEntries \in Nat
    BY MemoryAssumption
  <2>2. \A i \in Conversations : Len(store[i]) <= MaxEntries => Len(store'[i]) <= MaxEntries
    BY <1>3, <2>1, NoBucketFacts
  <2>3. KeysOrdered(cache, store', arrived) /\ JobsOrdered(jobs, cache, arrived)
    BY <1>1, <2>2, OrderSame
  <2> QED BY <1>2, <2>3
<1>6. Wired(wire', jobs')
  BY <1>1, <1>2
<1> QED BY <1>2, <1>4, <1>5, <1>6 DEF MemCore, MemWired, OrderInv

\* A digest begins.
LEMMA DigestingEffects ==
  ASSUME MemCore, NEW k \in Conversations, NEW live \in {"array", "none"}, Digesting(k, live), Len(cache[k].entries) > KeepRecent
  PROVE  \E j \in Nat \ {0}, job \in MemJobs :
           /\ j \notin DOMAIN jobs /\ jobs' = With(jobs, j, job)
           /\ job.kind = "digest" /\ job.key = k /\ job.view.live = live /\ job.view.entries = cache[k].entries
           /\ IsJobs(jobs') /\ Wired(wire, jobs') /\ JobsOrdered(jobs', cache, arrived)
           /\ UNCHANGED <<store, dirty, wire, arrived, clears, faults, restarts, expiries, clean>> /\ digests' = digests + 1
<1>1. /\ Wired(wire, jobs) /\ JobsOrdered(jobs, cache, arrived) /\ wire \in Seq(MemCalls) /\ IsJobs(jobs)
      /\ cache[k].entries \in Entries /\ Rises(cache[k].entries, arrived)
  BY CoreParts
<1>2. PICK j \in Nat \ {0} : j = FreeJob /\ j \notin DOMAIN jobs
  BY <1>1, FreeJobFacts
<1>3. PICK v \in MemViews : v = View(live, cache[k].entries) /\ v.live = live /\ v.entries = cache[k].entries
  BY <1>1, ViewTypes
<1>4. PICK job \in MemJobs : job = [kind |-> "digest", key |-> k, left |-> {}, at |-> 0, view |-> v]
  <2>1. [kind |-> "digest", key |-> k, left |-> {}, at |-> 0, view |-> v] \in MemJobs
    BY DEF MemJobs
  <2> QED BY <2>1
<1>5. job.kind = "digest" /\ job.key = k /\ job.view = v
  BY <1>4
<1>6. jobs' = With(jobs, j, job) /\ digests' = digests + 1
      /\ UNCHANGED <<store, dirty, wire, arrived, clears, faults, restarts, expiries, clean>>
  BY <1>2, <1>3, <1>4 DEF Digesting
<1>7. IsJobs(jobs')
  BY <1>1, <1>6, WithFacts
<1>8. Wired(wire, jobs')
  <2>1. \A i \in DOMAIN wire : wire[i].job # j
    BY <1>1, <1>2, WiredFree
  <2>2. Wired(wire, With(jobs, j, job))
    BY <1>1, <2>1, WiredWith
  <2> QED BY <1>6, <2>2
<1>9. JobsOrdered(jobs', cache, arrived)
  <2>1. JobOrdered(job, cache[job.key], arrived)
    BY <1>1, <1>3, <1>5 DEF JobOrdered
  <2>2. JobsOrdered(With(jobs, j, job), cache, arrived)
    BY <1>1, <2>1, OrderedWith
  <2> QED BY <1>6, <2>2
<1> QED BY <1>2, <1>3, <1>5, <1>6, <1>7, <1>8, <1>9

\* What an unflagged bucket leaves.
LEMMA UnflaggedFacts ==
  ASSUME cache \in [Conversations -> MemBuckets], NEW k \in Conversations, cache' = [cache EXCEPT ![k].needsSummary = FALSE]
  PROVE  /\ cache' \in [Conversations -> MemBuckets]
         /\ \A i \in Conversations : cache'[i].entries = cache[i].entries /\ cache'[i].present = cache[i].present
<1>1. PICK b \in MemBuckets : b = cache[k]
  OBVIOUS
<1>2. PICK d \in MemBuckets : d = [b EXCEPT !.needsSummary = FALSE] /\ d.entries = b.entries /\ d.present = b.present
  <2>1. [b EXCEPT !.needsSummary = FALSE] \in MemBuckets
    BY DEF MemBuckets
  <2>2. [b EXCEPT !.needsSummary = FALSE].entries = b.entries /\ [b EXCEPT !.needsSummary = FALSE].present = b.present
    BY DEF MemBuckets
  <2> QED BY <2>1, <2>2
<1>3. cache' = [cache EXCEPT ![k] = d]
  BY <1>1, <1>2
<1>4. cache'[k] = d /\ \A i \in Conversations : i # k => cache'[i] = cache[i]
  BY <1>3
<1> QED BY <1>1, <1>2, <1>3, <1>4

\* A summary that begins, or is not worth it, keeps the core.
LEMMA MaybeSummarizeCore ==
  ASSUME MemCore, NEW k \in Conversations, MaybeSummarize(k)
  PROVE  MemCore'
<1>1. /\ MemTypes /\ Wired(wire, jobs) /\ KeysOrdered(cache, store, arrived) /\ JobsOrdered(jobs, cache, arrived)
      /\ wire \in Seq(MemCalls) /\ IsJobs(jobs) /\ cache \in [Conversations -> MemBuckets] /\ arrived \in Nat
      /\ cache[k].entries \in Entries
  BY CoreParts
<1>2. /\ cache' \in [Conversations -> MemBuckets]
      /\ \A i \in Conversations : cache'[i].entries = cache[i].entries /\ cache'[i].present = cache[i].present
  BY <1>1, UnflaggedFacts DEF MaybeSummarize
<1>3. CASE UNCHANGED <<store, dirty, wire, jobs, arrived, digests, clears, faults, restarts, expiries, clean>>
  <2>1. /\ store' = store /\ dirty' = dirty /\ wire' = wire /\ jobs' = jobs /\ arrived' = arrived /\ digests' = digests
        /\ clears' = clears /\ faults' = faults /\ restarts' = restarts /\ expiries' = expiries /\ clean' = clean
    BY <1>3
  <2>2. KeysOrdered(cache', store, arrived) /\ JobsOrdered(jobs, cache', arrived)
    BY <1>1, <1>2, OrderSame
  <2> QED BY <1>1, <1>2, <2>1, <2>2 DEF MemCore, MemWired, OrderInv, MemTypes
<1>4. CASE Digesting(k, "array") /\ ~(Len(cache[k].entries) - KeepRecent < MinSummarized)
  <2>1. Len(cache[k].entries) > KeepRecent
    <3>1. PICK s \in Entries : s = cache[k].entries
      BY <1>1
    <3>2. Len(s) \in Nat /\ KeepRecent \in Nat /\ MinSummarized \in Nat \ {0}
      BY MemoryAssumption DEF Entries
    <3> QED BY <1>4, <3>1, <3>2
  <2>2. PICK j \in Nat \ {0}, job \in MemJobs :
           /\ IsJobs(jobs') /\ Wired(wire, jobs') /\ JobsOrdered(jobs', cache, arrived)
           /\ UNCHANGED <<store, dirty, wire, arrived, clears, faults, restarts, expiries, clean>> /\ digests' = digests + 1
    BY <1>4, <2>1, DigestingEffects
  <2>3. /\ store' = store /\ dirty' = dirty /\ wire' = wire /\ arrived' = arrived /\ digests' = digests + 1
        /\ clears' = clears /\ faults' = faults /\ restarts' = restarts /\ expiries' = expiries /\ clean' = clean
    BY <2>2
  <2>4. KeysOrdered(cache', store, arrived) /\ JobsOrdered(jobs', cache', arrived)
    BY <1>1, <1>2, <2>2, OrderSame
  <2> QED BY <1>1, <1>2, <2>2, <2>3, <2>4 DEF MemCore, MemWired, OrderInv, MemTypes
<1> QED BY <1>3, <1>4 DEF MaybeSummarize

\* A compaction that begins keeps the core.
LEMMA CompactCore ==
  ASSUME MemCore, NEW k \in Conversations, Compact(k)
  PROVE  MemCore'
<1>1. MemTypes /\ KeysOrdered(cache, store, arrived)
  BY CoreParts
<1>2. PICK j \in Nat \ {0}, job \in MemJobs :
           /\ IsJobs(jobs') /\ Wired(wire, jobs') /\ JobsOrdered(jobs', cache, arrived)
           /\ UNCHANGED <<store, dirty, wire, arrived, clears, faults, restarts, expiries, clean>> /\ digests' = digests + 1
  BY DigestingEffects DEF Compact
<1>3. /\ store' = store /\ dirty' = dirty /\ wire' = wire /\ arrived' = arrived /\ digests' = digests + 1
      /\ clears' = clears /\ faults' = faults /\ restarts' = restarts /\ expiries' = expiries /\ clean' = clean
      /\ cache' = cache
  BY <1>2 DEF Compact
<1> QED BY <1>1, <1>2, <1>3 DEF MemCore, MemWired, OrderInv, MemTypes

\* A digest is dropped.
LEMMA DroppedCore ==
  ASSUME MemCore, NEW j \in DOMAIN jobs, DigestDropped(j)
  PROVE  MemCore'
<1>1. /\ MemTypes /\ Wired(wire, jobs) /\ KeysOrdered(cache, store, arrived) /\ JobsOrdered(jobs, cache, arrived)
      /\ wire \in Seq(MemCalls) /\ IsJobs(jobs)
  BY CoreParts
<1>2. jobs' = Without(jobs, j) /\ jobs[j].kind = "digest" /\ j \in Nat \ {0}
  BY <1>1, JobTypes DEF DigestDropped
<1>3. IsJobs(jobs') /\ JobsOrdered(jobs', cache, arrived)
  BY <1>1, <1>2, WithoutFacts, OrderedWithout
<1>4. Wired(wire, jobs')
  <2>1. \A i \in DOMAIN wire : wire[i].job # j
    BY <1>1, <1>2, WiredFree
  <2>2. Wired(wire, Without(jobs, j))
    BY <1>1, <2>1, WiredWithout
  <2> QED BY <1>2, <2>2
<1>5. /\ store' = store /\ dirty' = dirty /\ wire' = wire /\ arrived' = arrived /\ digests' = digests
      /\ clears' = clears /\ faults' = faults /\ restarts' = restarts /\ expiries' = expiries /\ clean' = clean
      /\ cache' = cache
  BY DEF DigestDropped
<1> QED BY <1>1, <1>3, <1>4, <1>5 DEF MemCore, MemWired, OrderInv, MemTypes

\* A digest becomes the replace that writes it.
LEMMA DigestEffects ==
  ASSUME MemCore, NEW j \in DOMAIN jobs, DigestAnswered(j)
  PROVE  \E job \in MemJobs, w \in MemCalls :
           /\ jobs[j].kind = "digest" /\ job.kind = "replace" /\ job.key = jobs[j].key /\ job.view.live = "none" /\ job.at = 0
           /\ Len(job.view.entries) <= MaxEntries /\ Rises(job.view.entries, arrived)
           /\ jobs' = With(jobs, j, job) /\ \A i \in DOMAIN wire : wire[i].job # j
           /\ w = ClearCall(jobs[j].key, "replace", j) /\ wire' = Append(wire, w)
           /\ Touched(jobs[j].key) /\ UNCHANGED <<cache, store, dirty, arrived, digests, clears, faults, restarts, expiries>>
<1>1. /\ MemTypes /\ Wired(wire, jobs) /\ JobsOrdered(jobs, cache, arrived) /\ wire \in Seq(MemCalls) /\ IsJobs(jobs)
      /\ arrived \in Nat
  BY CoreParts
<1>2. jobs[j].kind = "digest" /\ j \in Nat \ {0} /\ jobs[j].key \in Conversations /\ jobs[j].view.entries \in Entries
  BY <1>1, JobTypes DEF DigestAnswered
<1>3. JobOrdered(jobs[j], cache[jobs[j].key], arrived)
  BY <1>1 DEF JobsOrdered
<1>4. PICK u \in Entries : u = <<Summary>> \o LastOf(KeepRecent, jobs[j].view.entries) /\ Len(u) <= MaxEntries /\ Rises(u, arrived)
  <2>1. Len(jobs[j].view.entries) > KeepRecent /\ Rises(jobs[j].view.entries, arrived)
    BY <1>2, <1>3 DEF JobOrdered
  <2> QED BY <1>1, <1>2, <2>1, RisesDigest
<1>5. PICK v \in MemViews : v = View("none", u) /\ v.live = "none" /\ v.entries = u
  BY ViewTypes
<1>6. PICK job \in MemJobs : job = [kind |-> "replace", key |-> jobs[j].key, view |-> v, left |-> {}, at |-> 0]
  <2>1. [kind |-> "replace", key |-> jobs[j].key, view |-> v, left |-> {}, at |-> 0] \in MemJobs
    BY <1>2 DEF MemJobs
  <2> QED BY <2>1
<1>7. job.kind = "replace" /\ job.key = jobs[j].key /\ job.view = v /\ job.at = 0
  BY <1>6
<1>8. PICK w \in MemCalls : w = ClearCall(jobs[j].key, "replace", j)
  <2>1. ClearCall(jobs[j].key, "replace", j) \in MemCalls
    BY <1>2 DEF ClearCall, MemCalls, MemEntry
  <2> QED BY <2>1
<1>9. jobs' = With(jobs, j, job) /\ wire' = Append(wire, w) /\ Touched(jobs[j].key)
  BY <1>4, <1>5, <1>6, <1>8 DEF DigestAnswered, CallReplace
<1>10. \A i \in DOMAIN wire : wire[i].job # j
  BY <1>1, <1>2, WiredFree
<1>11. UNCHANGED <<cache, store, dirty, arrived, digests, clears, faults, restarts, expiries>>
  BY DEF DigestAnswered
<1> QED BY <1>2, <1>4, <1>5, <1>7, <1>8, <1>9, <1>10, <1>11

\* The answer of the model keeps the core.
LEMMA DigestCore ==
  ASSUME MemCore, NEW j \in DOMAIN jobs, DigestAnswered(j)
  PROVE  MemCore'
<1>1. /\ MemTypes /\ Wired(wire, jobs) /\ KeysOrdered(cache, store, arrived) /\ JobsOrdered(jobs, cache, arrived)
      /\ wire \in Seq(MemCalls) /\ IsJobs(jobs) /\ j \in Nat \ {0}
  BY CoreParts, JobTypes
<1>2. PICK job \in MemJobs, w \in MemCalls :
           /\ jobs[j].kind = "digest" /\ job.kind = "replace" /\ job.key = jobs[j].key /\ job.view.live = "none" /\ job.at = 0
           /\ Len(job.view.entries) <= MaxEntries /\ Rises(job.view.entries, arrived)
           /\ jobs' = With(jobs, j, job) /\ \A i \in DOMAIN wire : wire[i].job # j
           /\ w = ClearCall(jobs[j].key, "replace", j) /\ wire' = Append(wire, w)
           /\ Touched(jobs[j].key) /\ UNCHANGED <<cache, store, dirty, arrived, digests, clears, faults, restarts, expiries>>
  BY DigestEffects
<1>3. /\ store' = store /\ dirty' = dirty /\ arrived' = arrived /\ digests' = digests
      /\ clears' = clears /\ faults' = faults /\ restarts' = restarts /\ expiries' = expiries /\ clean' \subseteq clean
      /\ cache' = cache
  BY <1>2 DEF Touched
<1>4. IsJobs(jobs') /\ jobs'[j] = job /\ j \in DOMAIN jobs'
  <2>1. jobs' = With(jobs, j, job)
    BY <1>2
  <2>2. PICK vs : vs = jobs'
    OBVIOUS
  <2>3. IsJobs(jobs) /\ j \in Nat \ {0} /\ vs = With(jobs, j, job)
    BY <1>1, <2>1, <2>2
  <2>4. IsJobs(vs) /\ DOMAIN vs = DOMAIN jobs \cup {j} /\ vs[j] = job
    <3>1. IsJobs(vs)
      BY <2>3, WithFacts
    <3>2. DOMAIN vs = DOMAIN jobs \cup {j}
      BY <2>3, WithFacts
    <3>3. vs[j] = job
      BY <2>3 DEF With
    <3> QED BY <3>1, <3>2, <3>3
  <2> QED BY <2>2, <2>4
<1>5. JobsOrdered(jobs', cache, arrived)
  <2>1. JobOrdered(job, cache[job.key], arrived)
    BY <1>2 DEF JobOrdered
  <2>2. JobsOrdered(With(jobs, j, job), cache, arrived)
    BY <1>1, <2>1, OrderedWith
  <2> QED BY <1>2, <2>2
<1>6. wire' \in Seq(MemCalls) /\ Wired(wire', jobs')
  <2>1. Wired(wire, jobs')
    <3>1. Wired(wire, With(jobs, j, job))
      BY <1>1, <1>2, WiredWith
    <3> QED BY <1>2, <3>1
  <2>2. w.by = "replace" /\ w.job = j /\ w.key = jobs[j].key
    BY <1>2 DEF ClearCall
  <2>3. Owned(w, jobs') /\ w.by # "reconcile"
    BY <1>2, <1>4, <2>2 DEF Owned
  <2>4. Append(wire, w) \in Seq(MemCalls) /\ Wired(Append(wire, w), jobs')
    BY <1>1, <2>1, <2>3, WiredAppend
  <2> QED BY <1>2, <2>4
<1> QED BY <1>1, <1>3, <1>4, <1>5, <1>6 DEF MemCore, MemWired, OrderInv, MemTypes

\* The process dies.
LEMMA RestartCore ==
  ASSUME MemCore, Restart
  PROVE  MemCore'
<1>1. /\ MemTypes /\ KeysOrdered(cache, store, arrived)
  BY CoreParts
<1>2. /\ store' = store /\ arrived' = arrived /\ digests' = digests /\ clears' = clears /\ faults' = faults
      /\ expiries' = expiries /\ restarts' = restarts + 1 /\ clean' \subseteq clean
      /\ cache' = [k \in Conversations |-> NoBucket] /\ dirty' = {} /\ wire' = <<>> /\ jobs' = <<>>
  BY DEF Restart
<1>3. IsJobs(jobs') /\ DOMAIN jobs' = {} /\ wire' \in Seq(MemCalls) /\ DOMAIN wire' = {}
  <2>1. DOMAIN <<>> = {} /\ <<>> \in Seq(MemCalls)
    OBVIOUS
  <2>2. <<>> = [j \in {} |-> <<>>[j]]
    BY <2>1
  <2>3. IsFiniteSet({})
    BY FS_EmptySet
  <2> QED BY <1>2, <2>1, <2>2, <2>3 DEF IsJobs
<1>4. MemTypes'
  BY <1>1, <1>2, <1>3, NoBucketFacts DEF MemTypes
<1>5. Wired(wire', jobs') /\ JobsOrdered(jobs', cache', arrived')
  BY <1>3 DEF Wired, OneEach, JobsOrdered
<1>6. KeysOrdered(cache', store', arrived')
  <2>1. MaxEntries \in Nat
    BY MemoryAssumption
  <2> QED BY <1>1, <1>2, <2>1, NoBucketFacts DEF KeysOrdered, KeyOrdered
<1> QED BY <1>4, <1>5, <1>6 DEF MemCore, MemWired, OrderInv

\* reconcile turns to its next key, or is done.
TurnsTo(j, k, left, gone, sent, job, w) ==
  /\ cache[k].present
  /\ job.kind = "reconcile" /\ job.key = k /\ job.view.live = "bucket" /\ job.view.entries = cache[k].entries
  /\ job.left = left \ (gone \cup {k}) /\ job.at = 0
  /\ jobs' = With(jobs, j, job) /\ w = ClearCall(k, "reconcile", j) /\ wire' = Append(sent, w)

\* An operation turns to its next key, or has none left.
Turns(j, left, dl, sent) ==
  \E gone \in SUBSET left :
    /\ \A k \in gone : ~cache[k].present
    /\ dirty' = dl \ gone
    /\ \/ left = gone /\ jobs' = Without(jobs, j) /\ wire' = sent
       \/ \E k \in left \ gone, job \in MemJobs, w \in MemCalls : TurnsTo(j, k, left, gone, sent, job, w)

\* This is what the search of the next key does,
LEMMA NextKeyEffects ==
  ASSUME cache \in [Conversations -> MemBuckets], NEW j \in Nat \ {0}, NEW left \in SUBSET Conversations,
         NEW dl, NEW sent, NextKey(j, left, dl, sent)
  PROVE  Turns(j, left, dl, sent)
<1>1. PICK gone \in SUBSET {k \in left : ~cache[k].present} :
        /\ dirty' = dl \ gone
        /\ \/ left = gone /\ jobs' = Without(jobs, j) /\ wire' = sent
           \/ \E k \in left \ gone :
              /\ cache[k].present
              /\ jobs' = With(jobs, j, [kind |-> "reconcile", key |-> k, view |-> View("bucket", cache[k].entries),
                                        left |-> left \ (gone \cup {k}), at |-> 0])
              /\ wire' = Append(sent, ClearCall(k, "reconcile", j))
  BY DEF NextKey
<1>2. gone \in SUBSET left /\ \A k \in gone : ~cache[k].present
  OBVIOUS
<1>3. CASE left = gone /\ jobs' = Without(jobs, j) /\ wire' = sent
  BY <1>1, <1>2, <1>3 DEF Turns
<1>4. ASSUME NEW k \in left \ gone, cache[k].present,
             jobs' = With(jobs, j, [kind |-> "reconcile", key |-> k, view |-> View("bucket", cache[k].entries),
                                    left |-> left \ (gone \cup {k}), at |-> 0]),
             wire' = Append(sent, ClearCall(k, "reconcile", j))
      PROVE  \E job \in MemJobs, w \in MemCalls : TurnsTo(j, k, left, gone, sent, job, w)
  <2>1. k \in Conversations /\ cache[k].entries \in Entries
    <3>1. k \in Conversations
      BY <1>4
    <3> QED BY <3>1 DEF MemBuckets
  <2>2. PICK v \in MemViews : v = View("bucket", cache[k].entries) /\ v.live = "bucket" /\ v.entries = cache[k].entries
    BY <2>1, ViewTypes
  <2>3. PICK rest \in SUBSET Conversations : rest = left \ (gone \cup {k})
    OBVIOUS
  <2>4. PICK job \in MemJobs : job = [kind |-> "reconcile", key |-> k, view |-> v, left |-> rest, at |-> 0]
    <3>1. [kind |-> "reconcile", key |-> k, view |-> v, left |-> rest, at |-> 0] \in MemJobs
      BY <2>1 DEF MemJobs
    <3> QED BY <3>1
  <2>5. job.kind = "reconcile" /\ job.key = k /\ job.view = v /\ job.left = rest /\ job.at = 0
    BY <2>4
  <2>6. PICK w \in MemCalls : w = ClearCall(k, "reconcile", j)
    <3>1. ClearCall(k, "reconcile", j) \in MemCalls
      BY <2>1 DEF ClearCall, MemCalls, MemEntry
    <3> QED BY <3>1
  <2>7. jobs' = With(jobs, j, job) /\ wire' = Append(sent, w)
    BY <1>4, <2>2, <2>3, <2>4, <2>6
  <2>8. TurnsTo(j, k, left, gone, sent, job, w)
    BY <1>4, <2>2, <2>3, <2>5, <2>6, <2>7 DEF TurnsTo
  <2> QED BY <2>8
<1>5. CASE \E k \in left \ gone :
              /\ cache[k].present
              /\ jobs' = With(jobs, j, [kind |-> "reconcile", key |-> k, view |-> View("bucket", cache[k].entries),
                                        left |-> left \ (gone \cup {k}), at |-> 0])
              /\ wire' = Append(sent, ClearCall(k, "reconcile", j))
  BY <1>1, <1>2, <1>4, <1>5 DEF Turns
<1> QED BY <1>1, <1>3, <1>5

\* and it keeps the core.
LEMMA NextKeyCore ==
  ASSUME MemCore, NEW j \in Nat \ {0}, NEW left \in SUBSET Conversations, NEW dl \in SUBSET Conversations,
         NEW sent \in Seq(MemCalls), Wired(sent, jobs), \A i \in DOMAIN sent : sent[i].job # j,
         NextKey(j, left, dl, sent)
  PROVE  /\ IsJobs(jobs') /\ wire' \in Seq(MemCalls) /\ Wired(wire', jobs') /\ dirty' \subseteq Conversations
         /\ JobsOrdered(jobs', cache, arrived)
<1>1. /\ JobsOrdered(jobs, cache, arrived) /\ IsJobs(jobs) /\ cache \in [Conversations -> MemBuckets]
      /\ \A k \in Conversations : Rises(cache[k].entries, arrived)
  BY CoreParts
<1>2. PICK gone \in SUBSET left :
           /\ \A k \in gone : ~cache[k].present
           /\ dirty' = dl \ gone
           /\ \/ left = gone /\ jobs' = Without(jobs, j) /\ wire' = sent
              \/ \E k \in left \ gone, job \in MemJobs, w \in MemCalls : TurnsTo(j, k, left, gone, sent, job, w)
  <2>1. Turns(j, left, dl, sent)
    BY <1>1, NextKeyEffects
  <2> QED BY <2>1 DEF Turns
<1>3. CASE left = gone /\ jobs' = Without(jobs, j) /\ wire' = sent
  <2>1. IsJobs(jobs')
    BY <1>1, <1>3, WithoutFacts
  <2>2. Wired(sent, Without(jobs, j))
    BY WiredWithout
  <2>3. JobsOrdered(Without(jobs, j), cache, arrived)
    BY <1>1, OrderedWithout
  <2> QED BY <1>2, <1>3, <2>1, <2>2, <2>3
<1>4. ASSUME NEW k \in left \ gone, NEW job \in MemJobs, NEW w \in MemCalls, TurnsTo(j, k, left, gone, sent, job, w)
      PROVE  IsJobs(jobs') /\ wire' \in Seq(MemCalls) /\ Wired(wire', jobs') /\ JobsOrdered(jobs', cache, arrived)
  <2>1. /\ job.kind = "reconcile" /\ job.key = k /\ job.view.live = "bucket" /\ job.view.entries = cache[k].entries
        /\ jobs' = With(jobs, j, job) /\ w = ClearCall(k, "reconcile", j) /\ wire' = Append(sent, w)
    BY <1>4 DEF TurnsTo
  <2>2. PICK vs : vs = jobs' /\ vs = With(jobs, j, job)
    BY <2>1
  <2>3. IsJobs(vs)
    <3>1. IsJobs(With(jobs, j, job))
      BY <1>1, WithJobs
    <3> QED BY <2>2, <3>1
  <2>4. vs[j] = job /\ j \in DOMAIN vs
    BY <2>2 DEF With
  <2>5. Wired(sent, vs)
    BY <2>2, WiredWith
  <2>6. w.by = "reconcile" /\ w.job = j /\ w.key = k
    BY <2>1 DEF ClearCall
  <2>7. Owned(w, vs)
    BY <2>1, <2>4, <2>6 DEF Owned
  <2>8. Append(sent, w) \in Seq(MemCalls) /\ Wired(Append(sent, w), vs)
    BY <2>5, <2>6, <2>7, WiredAppend
  <2>9. JobOrdered(job, cache[job.key], arrived)
    BY <1>1, <2>1 DEF JobOrdered
  <2>10. JobsOrdered(vs, cache, arrived)
    BY <1>1, <2>2, <2>9, OrderedWith
  <2> QED BY <2>1, <2>2, <2>3, <2>8, <2>10
<1>5. CASE \E k \in left \ gone, job \in MemJobs, w \in MemCalls : TurnsTo(j, k, left, gone, sent, job, w)
  BY <1>2, <1>4, <1>5
<1> QED BY <1>2, <1>3, <1>5

\* The answer to a call, without what it leads to.
LEMMA AnsweredTypes ==
  ASSUME MemCore, NEW by, NEW ok \in BOOLEAN, CallAnswered(by, ok)
  PROVE  /\ store' \in [Conversations -> Entries] /\ clean' \subseteq Conversations /\ arrived' = arrived
         /\ {digests', clears', faults', restarts', expiries'} \subseteq Nat
         /\ \A k \in Conversations : Len(store[k]) <= MaxEntries => Len(store'[k]) <= MaxEntries
<1>1. MemTypes /\ MemWired
  BY CoreParts
<1>2. /\ store' \in [Conversations -> Entries] /\ arrived' = arrived /\ digests' = digests /\ clears' = clears
      /\ restarts' = restarts /\ expiries' = expiries
      /\ \A k \in Conversations : Len(store[k]) <= MaxEntries => Len(store'[k]) <= MaxEntries
  BY <1>1, Answered
<1>3. ok => clean' = clean /\ faults' = faults
  BY <1>1, Answered
<1>4. ~ok => clean' = clean \ {Head(wire).key} /\ faults' = faults + 1
  BY <1>1, Answered
<1>5. clean \subseteq Conversations /\ {digests, clears, faults, restarts, expiries} \subseteq Nat
  BY <1>1 DEF MemTypes
<1>6. clean' \subseteq Conversations /\ faults' \in Nat
  BY <1>3, <1>4, <1>5
<1> QED BY <1>2, <1>5, <1>6

\* The answer to an add keeps the core.
LEMMA AddAnsweredCore ==
  ASSUME MemCore, AddAnswered
  PROVE  MemCore'
<1>1. PICK ok \in BOOLEAN :
        /\ CallAnswered("add", ok)
        /\ IF ok /\ dirty # {} THEN NextKey(FreeJob, dirty, dirty, Tail(wire))
           ELSE /\ dirty' = IF ok THEN dirty ELSE Marked(Head(wire).key)
                /\ wire' = Tail(wire) /\ UNCHANGED jobs
  BY DEF AddAnswered
<1>2. /\ MemTypes /\ MemWired /\ KeysOrdered(cache, store, arrived) /\ JobsOrdered(jobs, cache, arrived)
      /\ IsJobs(jobs) /\ dirty \subseteq Conversations
  BY CoreParts
<1>3. /\ store' \in [Conversations -> Entries] /\ clean' \subseteq Conversations /\ arrived' = arrived
      /\ {digests', clears', faults', restarts', expiries'} \subseteq Nat
      /\ \A k \in Conversations : Len(store[k]) <= MaxEntries => Len(store'[k]) <= MaxEntries
  BY <1>1, AnsweredTypes
<1>4. PICK ws \in Seq(MemCalls), w \in MemCalls : ws = Tail(wire) /\ Wired(ws, jobs) /\ w = Head(wire)
  <2>1. Tail(wire) \in Seq(MemCalls) /\ Wired(Tail(wire), jobs) /\ Head(wire) \in MemCalls
    BY <1>1, <1>2, Answered
  <2> QED BY <2>1
<1>5. cache' = cache
  BY DEF AddAnswered
<1>6. IsJobs(jobs') /\ wire' \in Seq(MemCalls) /\ Wired(wire', jobs') /\ dirty' \subseteq Conversations /\ JobsOrdered(jobs', cache, arrived)
  <2>1. CASE ok /\ dirty # {}
    <3>1. NextKey(FreeJob, dirty, dirty, ws)
      BY <1>1, <1>4, <2>1
    <3>2. PICK j \in Nat \ {0} : j = FreeJob /\ j \notin DOMAIN jobs
      BY <1>2, FreeJobFacts
    <3>3. \A i \in DOMAIN ws : ws[i].job # j
      BY <1>4, <3>2, WiredFree
    <3>4. NextKey(j, dirty, dirty, ws)
      BY <3>1, <3>2
    <3> QED BY <1>2, <1>4, <3>3, <3>4, NextKeyCore
  <2>2. CASE ~(ok /\ dirty # {})
    <3>1. jobs' = jobs /\ wire' = ws /\ dirty' = IF ok THEN dirty ELSE Marked(w.key)
      BY <1>1, <1>4, <2>2
    <3>2. w.key \in Conversations
      BY DEF MemCalls
    <3> QED BY <1>2, <1>4, <3>1, <3>2 DEF Marked
  <2> QED BY <2>1, <2>2
<1>7. KeysOrdered(cache', store', arrived)
  <2>1. KeysOrdered(cache, store', arrived)
    BY <1>2, <1>3, OrderSame
  <2> QED BY <1>5, <2>1
<1> QED BY <1>2, <1>3, <1>5, <1>6, <1>7 DEF MemCore, MemWired, OrderInv, MemTypes

\* An answer that is only logged keeps the core.
LEMMA OtherAnsweredCore ==
  ASSUME MemCore, OtherAnswered
  PROVE  MemCore'
<1>1. PICK ok \in BOOLEAN, by \in {"clear", "none"} : CallAnswered(by, ok) /\ wire' = Tail(wire) /\ UNCHANGED <<cache, dirty, jobs>>
  BY DEF OtherAnswered
<1>2. /\ MemTypes /\ MemWired /\ KeysOrdered(cache, store, arrived) /\ JobsOrdered(jobs, cache, arrived)
      /\ IsJobs(jobs)
  BY CoreParts
<1>3. /\ store' \in [Conversations -> Entries] /\ clean' \subseteq Conversations /\ arrived' = arrived
      /\ {digests', clears', faults', restarts', expiries'} \subseteq Nat
      /\ \A k \in Conversations : Len(store[k]) <= MaxEntries => Len(store'[k]) <= MaxEntries
  BY <1>1, AnsweredTypes
<1>4. wire' \in Seq(MemCalls) /\ Wired(wire', jobs)
  BY <1>1, <1>2, Answered
<1>5. cache' = cache /\ dirty' = dirty /\ jobs' = jobs
  BY <1>1
<1>6. KeysOrdered(cache, store', arrived)
  BY <1>2, <1>3, OrderSame
<1> QED BY <1>2, <1>3, <1>4, <1>5, <1>6 DEF MemCore, MemWired, OrderInv, MemTypes

\* A reconcile goes on to the next entry of the array it iterates.
LEMMA GoesOnEffects ==
  ASSUME IsJobs(jobs), NEW j \in DOMAIN jobs, NEW n \in Nat,
         jobs' = [jobs EXCEPT ![j].at = n, ![j].view.live = IF @ = "bucket" THEN "array" ELSE @]
  PROVE  \E job \in MemJobs :
           /\ jobs' = [jobs EXCEPT ![j] = job]
           /\ job.kind = jobs[j].kind /\ job.key = jobs[j].key /\ job.left = jobs[j].left /\ job.at = n
           /\ job.view.entries = jobs[j].view.entries
           /\ job.view.live = IF jobs[j].view.live = "bucket" THEN "array" ELSE jobs[j].view.live
<1>1. jobs = [i \in DOMAIN jobs |-> jobs[i]] /\ jobs[j] \in MemJobs
  BY DEF IsJobs
<1>2. PICK old \in MemJobs : old = jobs[j]
  BY <1>1
<1>3. PICK half \in MemJobs : half = [old EXCEPT !.at = n] /\ half.view = old.view /\ half.kind = old.kind /\ half.key = old.key
                              /\ half.left = old.left /\ half.at = n
  <2>1. [old EXCEPT !.at = n] \in MemJobs
    BY DEF MemJobs
  <2>2. LET half == [old EXCEPT !.at = n] IN half.view = old.view /\ half.kind = old.kind /\ half.key = old.key
                              /\ half.left = old.left /\ half.at = n
    BY DEF MemJobs
  <2> QED BY <2>1, <2>2
<1>4. PICK l \in {"bucket", "array", "none"} : l = IF old.view.live = "bucket" THEN "array" ELSE old.view.live
  <2>1. old.view.live \in {"bucket", "array", "none"}
    BY DEF MemJobs, MemViews
  <2> QED BY <2>1
<1>5. PICK v \in MemViews : v = [half.view EXCEPT !.live = l] /\ v.entries = old.view.entries /\ v.live = l
  <2>1. PICK x \in MemViews : x = half.view
    BY DEF MemJobs
  <2>2. [x EXCEPT !.live = l] \in MemViews /\ [x EXCEPT !.live = l].entries = x.entries /\ [x EXCEPT !.live = l].live = l
    BY DEF MemViews
  <2> QED BY <1>3, <2>1, <2>2
<1>6. PICK job \in MemJobs : /\ job = [half EXCEPT !.view = v] /\ job.view = v /\ job.kind = old.kind /\ job.key = old.key
                             /\ job.left = old.left /\ job.at = n
  <2>1. [half EXCEPT !.view = v] \in MemJobs
    BY DEF MemJobs
  <2>2. LET job == [half EXCEPT !.view = v] IN job.view = v /\ job.kind = half.kind /\ job.key = half.key
                              /\ job.left = half.left /\ job.at = half.at
    BY DEF MemJobs
  <2> QED BY <1>3, <2>1, <2>2
<1>7. PICK js : js = [jobs EXCEPT ![j] = half]
  OBVIOUS
<1>8. js[j] = half /\ js = [jobs EXCEPT ![j].at = n]
  BY <1>1, <1>2, <1>3, <1>7
<1>9. [js EXCEPT ![j].view.live = IF @ = "bucket" THEN "array" ELSE @] = [js EXCEPT ![j] = job]
  BY <1>3, <1>4, <1>5, <1>6, <1>8
<1>10. [js EXCEPT ![j] = job] = [jobs EXCEPT ![j] = job]
  BY <1>1, <1>7
<1>11. jobs' = [js EXCEPT ![j].view.live = IF @ = "bucket" THEN "array" ELSE @]
  BY <1>8
<1>12. jobs' = [jobs EXCEPT ![j] = job]
  BY <1>9, <1>10, <1>11
<1>13. /\ job.kind = jobs[j].kind /\ job.key = jobs[j].key /\ job.left = jobs[j].left /\ job.at = n
       /\ job.view.entries = jobs[j].view.entries
       /\ job.view.live = IF jobs[j].view.live = "bucket" THEN "array" ELSE jobs[j].view.live
  BY <1>2, <1>4, <1>5, <1>6
<1> QED BY <1>12, <1>13

\* The entry a reconcile is at once the call at the head of the wire is done.
NextAt(j) == IF Head(wire).op = "clear" THEN 1 ELSE jobs[j].at + 1

\* A reconcile sends the next entry of its key,
ReconcileGoesOn(j, ws, job) ==
  /\ NextAt(j) \in 1 .. Len(jobs[j].view.entries)
  /\ jobs' = [jobs EXCEPT ![j] = job]
  /\ job.kind = "reconcile" /\ job.key = jobs[j].key /\ job.left = jobs[j].left /\ job.at = NextAt(j)
  /\ job.view.entries = jobs[j].view.entries
  /\ job.view.live = IF jobs[j].view.live = "bucket" THEN "array" ELSE jobs[j].view.live
  /\ wire' = Append(ws, AppendCall(jobs[j].key, jobs[j].view.entries[NextAt(j)], "reconcile", j))
  /\ dirty' = dirty

\* or turns to its next key.
ReconcileTurns(ok, j, ws) ==
  /\ ~ok \/ NextAt(j) > Len(jobs[j].view.entries)
  /\ NextKey(j, jobs[j].left, IF ok THEN dirty \ {jobs[j].key} ELSE dirty, ws)

\* The answer to a call of a reconcile does one of the two,
LEMMA ReconcileEffects ==
  ASSUME MemCore, ReconcileAnswered
  PROVE  \E ok \in BOOLEAN, j \in DOMAIN jobs, ws \in Seq(MemCalls) :
           /\ CallAnswered("reconcile", ok) /\ cache' = cache
           /\ jobs[j].kind = "reconcile" /\ Head(wire).job = j /\ Head(wire).key = jobs[j].key
           /\ ws = Tail(wire) /\ Wired(ws, jobs) /\ \A i \in DOMAIN ws : ws[i].job # j
           /\ \/ ok /\ \E job \in MemJobs : ReconcileGoesOn(j, ws, job)
              \/ ReconcileTurns(ok, j, ws)
<1>1. MemTypes /\ MemWired /\ IsJobs(jobs) /\ cache' = cache
  <2>1. cache' = cache
    BY DEF ReconcileAnswered
  <2>2. MemTypes /\ MemWired /\ IsJobs(jobs)
    BY CoreParts
  <2> QED BY <2>1, <2>2, Zenon
<1>2. PICK ok \in BOOLEAN :
        /\ CallAnswered("reconcile", ok)
        /\ LET w == Head(wire)
               job == jobs[w.job]
               next == IF w.op = "clear" THEN 1 ELSE job.at + 1
           IN IF ok /\ next <= Len(job.view.entries)
             THEN /\ jobs' = [jobs EXCEPT ![w.job].at = next,
                        ![w.job].view.live = IF @ = "bucket" THEN "array" ELSE @]
                  /\ wire' = Append(Tail(wire),
                        AppendCall(w.key, job.view.entries[next], "reconcile", w.job))
                  /\ UNCHANGED dirty
             ELSE NextKey(w.job, job.left, IF ok THEN dirty \ {w.key} ELSE dirty, Tail(wire))
  BY DEF ReconcileAnswered
<1>3. /\ Head(wire) \in MemCalls /\ Head(wire).by = "reconcile" /\ Owned(Head(wire), jobs)
      /\ Tail(wire) \in Seq(MemCalls) /\ Wired(Tail(wire), jobs)
      /\ \A i \in DOMAIN Tail(wire) : Tail(wire)[i].job # Head(wire).job
  <2>1. CallAnswered("reconcile", ok)
    BY <1>2
  <2> QED BY <1>1, <2>1, Answered
<1>4. PICK j \in DOMAIN jobs : j = Head(wire).job /\ jobs[j].kind = "reconcile" /\ Head(wire).key = jobs[j].key
  BY <1>3 DEF Owned
<1>5. PICK ws \in Seq(MemCalls) : ws = Tail(wire)
  BY <1>3
<1>6. PICK n \in Nat \ {0} : n = NextAt(j)
  <2>1. jobs[j].at \in Nat
    BY <1>1, JobTypes
  <2> QED BY <2>1 DEF NextAt
<1>7. jobs[j].view.entries \in Entries /\ \A s \in Entries : Len(s) \in Nat
  BY <1>1, JobTypes DEF Entries
<1>8. CASE ok /\ n <= Len(jobs[j].view.entries)
  <2>1. /\ jobs' = [jobs EXCEPT ![j].at = n, ![j].view.live = IF @ = "bucket" THEN "array" ELSE @]
        /\ wire' = Append(ws, AppendCall(jobs[j].key, jobs[j].view.entries[n], "reconcile", j))
        /\ dirty' = dirty
    BY <1>2, <1>4, <1>5, <1>6, <1>8 DEF NextAt
  <2>2. PICK job \in MemJobs :
           /\ jobs' = [jobs EXCEPT ![j] = job]
           /\ job.kind = jobs[j].kind /\ job.key = jobs[j].key /\ job.left = jobs[j].left /\ job.at = n
           /\ job.view.entries = jobs[j].view.entries
           /\ job.view.live = IF jobs[j].view.live = "bucket" THEN "array" ELSE jobs[j].view.live
    BY <1>1, <2>1, GoesOnEffects
  <2>3. NextAt(j) \in 1 .. Len(jobs[j].view.entries)
    BY <1>6, <1>7, <1>8
  <2>4. ReconcileGoesOn(j, ws, job)
    BY <1>4, <1>6, <2>1, <2>2, <2>3 DEF ReconcileGoesOn
  <2> QED BY <1>1, <1>2, <1>3, <1>4, <1>5, <1>8, <2>4
<1>9. CASE ~(ok /\ n <= Len(jobs[j].view.entries))
  <2>1. NextKey(j, jobs[j].left, IF ok THEN dirty \ {jobs[j].key} ELSE dirty, ws)
    BY <1>2, <1>4, <1>5, <1>6, <1>9 DEF NextAt
  <2>2. ~ok \/ NextAt(j) > Len(jobs[j].view.entries)
    BY <1>6, <1>7, <1>9
  <2>3. ReconcileTurns(ok, j, ws)
    BY <2>1, <2>2 DEF ReconcileTurns
  <2> QED BY <1>1, <1>2, <1>3, <1>4, <1>5, <2>3
<1> QED BY <1>8, <1>9

\* and keeps the core.
LEMMA ReconcileAnsweredCore ==
  ASSUME MemCore, ReconcileAnswered
  PROVE  MemCore'
<1>1. PICK ok \in BOOLEAN, j \in DOMAIN jobs, ws \in Seq(MemCalls) :
           /\ CallAnswered("reconcile", ok) /\ cache' = cache
           /\ jobs[j].kind = "reconcile" /\ Head(wire).job = j /\ Head(wire).key = jobs[j].key
           /\ ws = Tail(wire) /\ Wired(ws, jobs) /\ \A i \in DOMAIN ws : ws[i].job # j
           /\ \/ ok /\ \E job \in MemJobs : ReconcileGoesOn(j, ws, job)
              \/ ReconcileTurns(ok, j, ws)
  BY ReconcileEffects
<1>2. /\ MemTypes /\ MemWired /\ KeysOrdered(cache, store, arrived) /\ JobsOrdered(jobs, cache, arrived)
      /\ IsJobs(jobs) /\ dirty \subseteq Conversations
  BY CoreParts
<1>3. /\ store' \in [Conversations -> Entries] /\ clean' \subseteq Conversations /\ arrived' = arrived
      /\ {digests', clears', faults', restarts', expiries'} \subseteq Nat
      /\ \A k \in Conversations : Len(store[k]) <= MaxEntries => Len(store'[k]) <= MaxEntries
  BY <1>1, AnsweredTypes
<1>4. IsJobs(jobs') /\ wire' \in Seq(MemCalls) /\ Wired(wire', jobs') /\ dirty' \subseteq Conversations /\ JobsOrdered(jobs', cache, arrived)
  <2>1. ASSUME NEW job \in MemJobs, ReconcileGoesOn(j, ws, job)
        PROVE  IsJobs(jobs') /\ wire' \in Seq(MemCalls) /\ Wired(wire', jobs') /\ dirty' \subseteq Conversations /\ JobsOrdered(jobs', cache, arrived)
    <3>1. PICK es \in Entries, k \in Conversations : es = jobs[j].view.entries /\ k = jobs[j].key
      BY <1>2, JobTypes
    <3>2. PICK n \in 1 .. Len(es) : n = NextAt(j)
      BY <2>1, <3>1 DEF ReconcileGoesOn
    <3>3. /\ jobs' = [jobs EXCEPT ![j] = job] /\ job.kind = "reconcile" /\ job.key = k
          /\ job.view.entries = es
          /\ job.view.live = IF jobs[j].view.live = "bucket" THEN "array" ELSE jobs[j].view.live
          /\ wire' = Append(ws, AppendCall(k, es[n], "reconcile", j)) /\ dirty' = dirty
      BY <2>1, <3>1, <3>2 DEF ReconcileGoesOn
    <3>4. /\ IsJobs(jobs') /\ SameJobs(jobs', jobs) /\ jobs'[j] = job
          /\ \A i \in DOMAIN jobs : i # j => jobs'[i] = jobs[i]
      <4>1. IsFunction(jobs') /\ DOMAIN jobs' = DOMAIN jobs /\ jobs'[j] = job /\ \A i \in DOMAIN jobs : i # j => jobs'[i] = jobs[i]
        <5>1. jobs = [i \in DOMAIN jobs |-> jobs[i]]
          BY <1>2 DEF IsJobs
        <5> QED BY <3>3, <5>1 DEF IsFunction
      <4>2. PICK vs : vs = jobs'
        OBVIOUS
      <4>3. /\ IsFunction(vs) /\ DOMAIN vs = DOMAIN jobs /\ vs[j] = job /\ (\A i \in DOMAIN jobs : i # j => vs[i] = jobs[i])
            /\ IsJobs(jobs) /\ job.kind = jobs[j].kind /\ job.key = jobs[j].key
        BY <1>1, <1>2, <3>1, <3>3, <4>1, <4>2
      <4>4. IsJobs(vs) /\ SameJobs(vs, jobs)
        BY <4>3, GoesOnFacts
      <4> QED BY <4>1, <4>2, <4>4
    <3>5. es[n] \in MemEntry /\ j \in Nat \ {0}
      <4>1. es[n] \in MemEntry
        BY DEF Entries, MemEntry
      <4> QED BY <1>2, <4>1, JobTypes
    <3>6. PICK w \in MemCalls : w = AppendCall(k, es[n], "reconcile", j)
      <4>1. AppendCall(k, es[n], "reconcile", j) \in MemCalls
        BY <3>5 DEF AppendCall, MemCalls
      <4> QED BY <4>1
    <3>7. w.by = "reconcile" /\ w.job = j /\ w.key = k
      BY <3>6 DEF AppendCall
    <3>8. Owned(w, jobs')
      <4>1. j \in DOMAIN jobs'
        BY <3>4 DEF SameJobs
      <4> QED BY <3>3, <3>4, <3>7, <4>1 DEF Owned
    <3>9. Wired(ws, jobs')
      BY <1>1, <3>4, WiredAlike
    <3>10. Append(ws, w) \in Seq(MemCalls) /\ Wired(Append(ws, w), jobs')
      BY <1>1, <3>7, <3>8, <3>9, WiredAppend
    <3>11. JobsOrdered(jobs', cache, arrived)
      <4>1. JobOrdered(jobs[j], cache[k], arrived)
        BY <1>2, <3>1 DEF JobsOrdered
      <4>2. JobOrdered(job, cache[k], arrived)
        BY <1>1, <3>1, <3>3, <4>1 DEF JobOrdered
      <4>3. ASSUME NEW i \in DOMAIN jobs' PROVE JobOrdered(jobs'[i], cache[jobs'[i].key], arrived)
        <5>1. i \in DOMAIN jobs
          BY <3>4 DEF SameJobs
        <5>2. CASE i = j
          BY <3>3, <3>4, <4>2, <5>2
        <5>3. CASE i # j
          BY <1>2, <3>4, <5>1, <5>3 DEF JobsOrdered
        <5> QED BY <5>2, <5>3
      <4> QED BY <4>3 DEF JobsOrdered
    <3> QED BY <1>2, <3>3, <3>4, <3>6, <3>10, <3>11
  <2>2. CASE ReconcileTurns(ok, j, ws)
    <3>1. PICK left \in SUBSET Conversations : left = jobs[j].left
      BY <1>2, JobTypes
    <3>2. PICK dl \in SUBSET Conversations : dl = IF ok THEN dirty \ {jobs[j].key} ELSE dirty
      BY <1>2
    <3>3. NextKey(j, left, dl, ws) /\ j \in Nat \ {0}
      BY <1>2, <2>2, <3>1, <3>2, JobTypes DEF ReconcileTurns
    <3> QED BY <1>1, <3>3, NextKeyCore
  <2> QED BY <1>1, <2>1, <2>2
<1>5. KeysOrdered(cache', store', arrived)
  <2>1. KeysOrdered(cache, store', arrived)
    BY <1>2, <1>3, OrderSame
  <2> QED BY <1>1, <2>1
<1> QED BY <1>1, <1>2, <1>3, <1>4, <1>5 DEF MemCore, MemWired, OrderInv, MemTypes

\* The appends of a replace.
RewriteCalls(j) ==
  [i \in 1 .. Len(jobs[j].view.entries) |-> AppendCall(jobs[j].key, jobs[j].view.entries[i], "replace", j)]

\* A replace swaps the cache,
ReplaceSwaps(ok, j, ws) ==
  /\ ~ok \/ (jobs[j].at + (IF Head(wire).op = "append" THEN 1 ELSE 0)) = Len(jobs[j].view.entries)
  /\ cache' = [cache EXCEPT ![jobs[j].key] = [@ EXCEPT !.present = TRUE, !.entries = jobs[j].view.entries]]
  /\ jobs' = Without(Viewing(jobs, jobs[j].key, View("bucket", jobs[j].view.entries), View("none", cache[jobs[j].key].entries)), j)
  /\ wire' = Orphaned(ws, j)

\* or waits for the rest of its calls.
ReplaceGoesOn(j, ws) ==
  /\ (jobs[j].at + (IF Head(wire).op = "append" THEN 1 ELSE 0)) # Len(jobs[j].view.entries)
  /\ wire' = ws \o (IF Head(wire).op = "clear" THEN RewriteCalls(j) ELSE <<>>)
  /\ jobs' = [jobs EXCEPT ![j].at = jobs[j].at + (IF Head(wire).op = "append" THEN 1 ELSE 0)]
  /\ cache' = cache

\* The answer to a call of a replace does one of the two,
LEMMA ReplaceEffects ==
  ASSUME MemCore, ReplaceAnswered
  PROVE  \E ok \in BOOLEAN, j \in DOMAIN jobs, ws \in Seq(MemCalls) :
           /\ CallAnswered("replace", ok) /\ dirty' = dirty
           /\ jobs[j].kind = "replace" /\ Head(wire).job = j /\ Head(wire).key = jobs[j].key
           /\ ws = Tail(wire) /\ Wired(ws, jobs)
           /\ ReplaceSwaps(ok, j, ws) \/ (ok /\ ReplaceGoesOn(j, ws))
<1>1. MemTypes /\ MemWired /\ IsJobs(jobs) /\ dirty' = dirty
  <2>1. dirty' = dirty
    BY DEF ReplaceAnswered
  <2>2. MemTypes /\ MemWired /\ IsJobs(jobs)
    BY CoreParts
  <2> QED BY <2>1, <2>2, Zenon
<1>2. PICK ok \in BOOLEAN :
    /\ CallAnswered("replace", ok)
    /\ LET w == Head(wire)
           job == jobs[w.job]
           calls == [i \in 1..Len(job.view.entries) |->
                        AppendCall(w.key, job.view.entries[i], "replace", w.job)]
           answered == job.at + (IF w.op = "append" THEN 1 ELSE 0)
       IN IF ~ok \/ AllAppended(job, answered)
             THEN Swap(w.job, Tail(wire))
             ELSE /\ wire' = Tail(wire) \o (IF w.op = "clear" THEN calls ELSE <<>>)
                  /\ jobs' = [jobs EXCEPT ![w.job].at = answered]
                  /\ UNCHANGED cache
  BY DEF ReplaceAnswered
<1>3. /\ Head(wire) \in MemCalls /\ Head(wire).by = "replace" /\ Owned(Head(wire), jobs)
      /\ Tail(wire) \in Seq(MemCalls) /\ Wired(Tail(wire), jobs)
  <2>1. CallAnswered("replace", ok)
    BY <1>2, Zenon
  <2> QED BY <1>1, <2>1, Answered
<1>4. PICK j \in DOMAIN jobs : j = Head(wire).job /\ jobs[j].kind = "replace" /\ Head(wire).key = jobs[j].key
  BY <1>3 DEF Owned
<1>5. PICK ws \in Seq(MemCalls) : ws = Tail(wire)
  BY <1>3
<1> DEFINE answered == jobs[j].at + (IF Head(wire).op = "append" THEN 1 ELSE 0)
<1>6. CASE ~ok \/ answered = Len(jobs[j].view.entries)
  <2>1. Swap(j, ws)
    BY <1>2, <1>4, <1>5, <1>6 DEF AllAppended
  <2>2. ReplaceSwaps(ok, j, ws)
    BY <1>6, <2>1 DEF ReplaceSwaps, Swap
  <2> QED BY <1>1, <1>2, <1>3, <1>4, <1>5, <2>2
<1>7. CASE ~(~ok \/ answered = Len(jobs[j].view.entries))
  <2>1. ReplaceGoesOn(j, ws)
    BY <1>2, <1>4, <1>5, <1>7 DEF AllAppended, ReplaceGoesOn, RewriteCalls
  <2>2. ok /\ CallAnswered("replace", ok)
    BY <1>2, <1>7, Zenon
  <2>3. jobs[j].kind = "replace" /\ Head(wire).job = j /\ Head(wire).key = jobs[j].key /\ Wired(ws, jobs) /\ dirty' = dirty
    BY <1>1, <1>3, <1>4, <1>5, Zenon
  <2> QED BY <1>5, <2>1, <2>2, <2>3, Zenon
<1> QED BY <1>6, <1>7

\* The appends of a replace are its own.
LEMMA RewriteFacts ==
  ASSUME IsJobs(jobs), NEW j \in DOMAIN jobs
  PROVE  /\ RewriteCalls(j) \in Seq(MemCalls) /\ DOMAIN RewriteCalls(j) = DOMAIN jobs[j].view.entries
         /\ \A i \in DOMAIN RewriteCalls(j) :
              RewriteCalls(j)[i].by = "replace" /\ RewriteCalls(j)[i].job = j /\ RewriteCalls(j)[i].key = jobs[j].key
              /\ RewriteCalls(j)[i].op = "append"
<1>1. PICK es \in Entries, k \in Conversations : es = jobs[j].view.entries /\ k = jobs[j].key /\ j \in Nat
  BY JobTypes
<1>2. PICK n \in Nat : n = Len(es) /\ DOMAIN es = 1 .. n
  BY DEF Entries
<1>3. \A i \in 1 .. n : es[i] \in MemEntry
  BY <1>2 DEF Entries, MemEntry
<1>4. \A i \in 1 .. n : AppendCall(k, es[i], "replace", j) \in MemCalls
  BY <1>1, <1>3 DEF AppendCall, MemCalls
<1>5. RewriteCalls(j) = [i \in 1 .. n |-> AppendCall(k, es[i], "replace", j)]
  BY <1>1, <1>2 DEF RewriteCalls
<1>6. RewriteCalls(j) \in Seq(MemCalls) /\ DOMAIN RewriteCalls(j) = 1 .. n
  BY <1>4, <1>5
<1>7. \A i \in 1 .. n : RewriteCalls(j)[i] = AppendCall(k, es[i], "replace", j)
  BY <1>5
<1>8. \A i \in 1 .. n : RewriteCalls(j)[i].by = "replace" /\ RewriteCalls(j)[i].job = j /\ RewriteCalls(j)[i].key = k
                        /\ RewriteCalls(j)[i].op = "append"
  <2> SUFFICES ASSUME NEW i \in 1 .. n
               PROVE  RewriteCalls(j)[i].by = "replace" /\ RewriteCalls(j)[i].job = j /\ RewriteCalls(j)[i].key = k
                        /\ RewriteCalls(j)[i].op = "append"
    OBVIOUS
  <2>1. RewriteCalls(j)[i] = [op |-> "append", key |-> k, entry |-> es[i], by |-> "replace", job |-> j]
    BY <1>7 DEF AppendCall
  <2> QED BY <2>1
<1> QED BY <1>1, <1>2, <1>6, <1>8

\* What the swap leaves in the cache.
LEMMA SwappedFacts ==
  ASSUME cache \in [Conversations -> MemBuckets], NEW k \in Conversations, NEW es \in Entries,
         cache' = [cache EXCEPT ![k] = [@ EXCEPT !.present = TRUE, !.entries = es]]
  PROVE  /\ cache' \in [Conversations -> MemBuckets] /\ cache'[k].entries = es /\ cache'[k].present
         /\ \A i \in Conversations : i # k => cache'[i] = cache[i]
<1>1. PICK b \in MemBuckets : b = cache[k]
  OBVIOUS
<1>2. PICK h \in MemBuckets : h = [b EXCEPT !.present = TRUE] /\ h.present
  <2>1. [b EXCEPT !.present = TRUE] \in MemBuckets /\ [b EXCEPT !.present = TRUE].present
    BY DEF MemBuckets
  <2> QED BY <2>1
<1>3. PICK d \in MemBuckets : d = [h EXCEPT !.entries = es] /\ d.entries = es /\ d.present
  <2>1. [h EXCEPT !.entries = es] \in MemBuckets
    BY DEF MemBuckets
  <2>2. [h EXCEPT !.entries = es].entries = es /\ [h EXCEPT !.entries = es].present = h.present
    BY DEF MemBuckets
  <2> QED BY <1>2, <2>1, <2>2
<1>4. [b EXCEPT !.present = TRUE, !.entries = es] = [[b EXCEPT !.present = TRUE] EXCEPT !.entries = es]
  OBVIOUS
<1>5. cache' = [cache EXCEPT ![k] = d]
  BY <1>1, <1>2, <1>3, <1>4
<1>6. cache'[k] = d /\ cache' \in [Conversations -> MemBuckets] /\ \A i \in Conversations : i # k => cache'[i] = cache[i]
  BY <1>5
<1> QED BY <1>3, <1>6

\* The answer to a call of a replace keeps the core.
LEMMA ReplaceAnsweredCore ==
  ASSUME MemCore, ReplaceAnswered
  PROVE  MemCore'
<1>1. PICK ok \in BOOLEAN, j \in DOMAIN jobs, ws \in Seq(MemCalls) :
           /\ CallAnswered("replace", ok) /\ dirty' = dirty
           /\ jobs[j].kind = "replace" /\ Head(wire).job = j /\ Head(wire).key = jobs[j].key
           /\ ws = Tail(wire) /\ Wired(ws, jobs)
           /\ ReplaceSwaps(ok, j, ws) \/ (ok /\ ReplaceGoesOn(j, ws))
  BY ReplaceEffects
<1>2. /\ MemTypes /\ MemWired /\ KeysOrdered(cache, store, arrived) /\ JobsOrdered(jobs, cache, arrived)
      /\ IsJobs(jobs) /\ cache \in [Conversations -> MemBuckets] /\ arrived \in Nat
      /\ \A i \in Conversations : cache[i].entries \in Entries /\ Rises(cache[i].entries, arrived)
  BY CoreParts
<1>3. /\ store' \in [Conversations -> Entries] /\ clean' \subseteq Conversations /\ arrived' = arrived
      /\ {digests', clears', faults', restarts', expiries'} \subseteq Nat
      /\ \A k \in Conversations : Len(store[k]) <= MaxEntries => Len(store'[k]) <= MaxEntries
  BY <1>1, AnsweredTypes
<1>4. PICK es \in Entries, k \in Conversations : es = jobs[j].view.entries /\ k = jobs[j].key
  BY <1>2, JobTypes
<1>5. Rises(es, arrived) /\ Len(es) <= MaxEntries
  BY <1>1, <1>2, <1>4 DEF JobsOrdered, JobOrdered
<1>6. /\ IsJobs(jobs') /\ wire' \in Seq(MemCalls) /\ Wired(wire', jobs') /\ cache' \in [Conversations -> MemBuckets]
      /\ KeysOrdered(cache', store', arrived) /\ JobsOrdered(jobs', cache', arrived)
  <2>1. CASE ReplaceSwaps(ok, j, ws)
    <3>1. cache' = [cache EXCEPT ![k] = [@ EXCEPT !.present = TRUE, !.entries = es]] /\ wire' = Orphaned(ws, j)
      BY <1>4, <2>1 DEF ReplaceSwaps
    <3>2. /\ cache' \in [Conversations -> MemBuckets] /\ cache'[k].entries = es /\ cache'[k].present
          /\ \A i \in Conversations : i # k => cache'[i] = cache[i]
      BY <1>2, <3>1, SwappedFacts
    <3>3. PICK b, a \in MemViews : /\ b = View("bucket", es) /\ b.live = "bucket" /\ b.entries = es
                                   /\ a = View("none", cache[k].entries) /\ a.live = "none" /\ a.entries = cache[k].entries
      BY <1>2, ViewTypes
    <3>4. PICK vs : vs = Viewing(jobs, k, b, a)
      OBVIOUS
    <3>5. jobs' = Without(vs, j)
      BY <1>4, <2>1, <3>3, <3>4 DEF ReplaceSwaps
    <3>6. IsJobs(vs) /\ SameJobs(vs, jobs)
      BY <1>2, <3>4, ViewingFacts
    <3>7. j \in DOMAIN vs
      BY <3>6 DEF SameJobs
    <3>8. IsJobs(jobs')
      BY <3>5, <3>6, WithoutFacts
    <3>9. Wired(ws, vs)
      BY <1>1, <3>6, WiredAlike
    <3>10. Wired(Orphaned(ws, j), Without(vs, j)) /\ Orphaned(ws, j) \in Seq(MemCalls)
      BY <3>6, <3>7, <3>9, WiredOrphaned, OrphanedFacts
    <3>11. KeysOrdered(cache', store', arrived) /\ JobsOrdered(vs, cache', arrived)
      <4>1. b.live # "array" /\ (b.live = "bucket" => b.entries = cache'[k].entries) /\ Rises(b.entries, arrived)
        BY <1>5, <3>2, <3>3
      <4>2. a.live # "bucket" /\ (a.live = "array" => a.entries = cache'[k].entries) /\ Rises(a.entries, arrived)
        BY <1>2, <3>3
      <4>3. Len(cache[k].entries) <= Len(a.entries) /\ arrived <= arrived
        <5>1. PICK s \in Entries : s = cache[k].entries
          BY <1>2
        <5>2. Len(s) \in Nat
          BY DEF Entries
        <5> QED BY <1>2, <3>3, <5>1, <5>2
      <4>4. Rises(cache'[k].entries, arrived) /\ Len(cache'[k].entries) <= MaxEntries /\ (~cache'[k].present => cache'[k].entries = <<>>)
        BY <1>5, <3>2
      <4>5. PICK n \in Nat : n = arrived /\ n <= n
        BY <1>2
      <4>6. PICK d, t : d = cache' /\ t = store'
        OBVIOUS
      <4>7. /\ KeysOrdered(cache, store, n) /\ JobsOrdered(jobs, cache, n) /\ Rises(b.entries, n) /\ Rises(a.entries, n)
            /\ Rises(d[k].entries, n) /\ Len(d[k].entries) <= MaxEntries /\ (~d[k].present => d[k].entries = <<>>)
            /\ \A i \in Conversations : i # k => d[i] = cache[i]
            /\ \A i \in Conversations : Len(store[i]) <= MaxEntries => Len(t[i]) <= MaxEntries
            /\ b.live # "array" /\ (b.live = "bucket" => b.entries = d[k].entries)
            /\ a.live # "bucket" /\ (a.live = "array" => a.entries = d[k].entries)
        BY <1>2, <1>3, <3>2, <4>1, <4>2, <4>4, <4>5, <4>6
      <4>8. IsJobs(jobs) /\ cache \in [Conversations -> MemBuckets] /\ vs = Viewing(jobs, k, b, a)
            /\ Len(cache[k].entries) <= Len(a.entries) /\ n <= n
        BY <1>2, <3>4, <4>3, <4>5
      <4>9. KeysOrdered(d, t, n)
        BY <4>7 DEF KeysOrdered, KeyOrdered
      <4>10. JobsOrdered(vs, d, n)
        BY <4>7, <4>8, OrderChanged
      <4> QED BY <4>5, <4>6, <4>9, <4>10
    <3>12. JobsOrdered(Without(vs, j), cache', arrived)
      BY <3>6, <3>11, OrderedWithout
    <3> QED BY <3>1, <3>2, <3>5, <3>8, <3>10, <3>11, <3>12
  <2>2. CASE ReplaceGoesOn(j, ws)
    <3>1. PICK calls \in Seq(MemCalls) : calls = IF Head(wire).op = "clear" THEN RewriteCalls(j) ELSE <<>>
      <4>1. RewriteCalls(j) \in Seq(MemCalls)
        BY <1>2, RewriteFacts
      <4>2. <<>> \in Seq(MemCalls)
        OBVIOUS
      <4> QED BY <4>1, <4>2
    <3>2. PICK n \in Nat : n = jobs[j].at + (IF Head(wire).op = "append" THEN 1 ELSE 0)
      <4>1. jobs[j].at \in Nat
        BY <1>2, JobTypes
      <4> QED BY <4>1
    <3>3. wire' = ws \o calls /\ jobs' = [jobs EXCEPT ![j].at = n] /\ cache' = cache
      BY <2>2, <3>1, <3>2 DEF ReplaceGoesOn
    <3>4. PICK old \in MemJobs : old = jobs[j]
      BY <1>2, JobTypes
    <3>5. PICK job \in MemJobs : job = [old EXCEPT !.at = n] /\ job.kind = old.kind /\ job.key = old.key /\ job.view = old.view
      <4>1. [old EXCEPT !.at = n] \in MemJobs
        BY DEF MemJobs
      <4>2. LET job == [old EXCEPT !.at = n] IN job.kind = old.kind /\ job.key = old.key /\ job.view = old.view
        BY DEF MemJobs
      <4> QED BY <4>1, <4>2
    <3>6. jobs' = [jobs EXCEPT ![j] = job]
      <4>1. jobs = [i \in DOMAIN jobs |-> jobs[i]]
        BY <1>2 DEF IsJobs
      <4> QED BY <3>3, <3>4, <3>5, <4>1
    <3>7. /\ IsJobs(jobs') /\ SameJobs(jobs', jobs) /\ jobs'[j] = job
          /\ \A i \in DOMAIN jobs : i # j => jobs'[i] = jobs[i]
      <4>1. job.kind = jobs[j].kind /\ job.key = jobs[j].key
        BY <3>4, <3>5
      <4>2. PICK vs : vs = jobs' /\ vs = [jobs EXCEPT ![j] = job]
        BY <3>6
      <4>3. /\ IsJobs(vs) /\ SameJobs(vs, jobs) /\ vs[j] = job
            /\ \A i \in DOMAIN jobs : i # j => vs[i] = jobs[i]
        <5>1. jobs = [i \in DOMAIN jobs |-> jobs[i]] /\ IsJobs(jobs)
          BY <1>2 DEF IsJobs
        <5>2. IsFunction(vs) /\ DOMAIN vs = DOMAIN jobs /\ vs[j] = job /\ \A i \in DOMAIN jobs : i # j => vs[i] = jobs[i]
          BY <4>2, <5>1 DEF IsFunction
        <5>3. IsJobs(vs) /\ SameJobs(vs, jobs)
          BY <4>1, <5>1, <5>2, GoesOnFacts
        <5> QED BY <5>2, <5>3
      <4> QED BY <4>2, <4>3
    <3>8. Wired(ws, jobs')
      BY <1>1, <3>7, WiredAlike
    <3>9. \A i \in DOMAIN calls : Owned(calls[i], jobs') /\ calls[i].by # "reconcile"
      <4> SUFFICES ASSUME NEW i \in DOMAIN calls PROVE Owned(calls[i], jobs') /\ calls[i].by # "reconcile"
        OBVIOUS
      <4>1. calls[i].by = "replace" /\ calls[i].job = j /\ calls[i].key = jobs[j].key
        <5>1. Head(wire).op = "clear"
          BY <3>1
        <5>2. calls = RewriteCalls(j)
          BY <3>1, <5>1
        <5> QED BY <1>2, <5>2, RewriteFacts
      <4>2. j \in DOMAIN jobs' /\ jobs'[j].kind = "replace" /\ jobs'[j].key = jobs[j].key
        BY <1>1, <3>4, <3>5, <3>7 DEF SameJobs
      <4> QED BY <4>1, <4>2 DEF Owned
    <3>10. ws \o calls \in Seq(MemCalls) /\ Wired(ws \o calls, jobs')
      BY <1>1, <3>8, <3>9, WiredConcat
    <3>11. JobsOrdered(jobs', cache, arrived)
      <4>1. JobOrdered(jobs[j], cache[k], arrived)
        BY <1>2, <1>4 DEF JobsOrdered
      <4>2. JobOrdered(job, cache[k], arrived)
        BY <3>4, <3>5, <4>1 DEF JobOrdered
      <4>3. ASSUME NEW i \in DOMAIN jobs' PROVE JobOrdered(jobs'[i], cache[jobs'[i].key], arrived)
        <5>1. i \in DOMAIN jobs
          BY <3>7 DEF SameJobs
        <5>2. CASE i = j
          BY <1>4, <3>4, <3>5, <3>7, <4>2, <5>2
        <5>3. CASE i # j
          BY <1>2, <3>7, <5>1, <5>3 DEF JobsOrdered
        <5> QED BY <5>2, <5>3
      <4> QED BY <4>3 DEF JobsOrdered
    <3>12. KeysOrdered(cache, store', arrived)
      BY <1>2, <1>3, OrderSame
    <3> QED BY <1>2, <3>3, <3>7, <3>10, <3>11, <3>12
  <2> QED BY <1>1, <2>1, <2>2
<1> QED BY <1>1, <1>2, <1>3, <1>6 DEF MemCore, MemWired, OrderInv, MemTypes

\* The core of the invariant.
LEMMA CoreInit ==
  ASSUME MemoryInit
  PROVE  MemCore
<1>1. /\ cache = [k \in Conversations |-> NoBucket] /\ store = [k \in Conversations |-> <<>>]
      /\ dirty = {} /\ wire = <<>> /\ jobs = <<>> /\ arrived = 0 /\ digests = 0 /\ clears = 0 /\ faults = 0
      /\ restarts = 0 /\ expiries = 0 /\ clean = Conversations
  BY DEF MemoryInit
<1>2. IsJobs(jobs) /\ DOMAIN jobs = {} /\ wire \in Seq(MemCalls) /\ DOMAIN wire = {}
  <2>1. DOMAIN <<>> = {} /\ <<>> \in Seq(MemCalls)
    OBVIOUS
  <2>2. <<>> = [j \in {} |-> <<>>[j]]
    BY <2>1
  <2>3. IsFiniteSet({})
    BY FS_EmptySet
  <2> QED BY <1>1, <2>1, <2>2, <2>3 DEF IsJobs
<1>3. MaxMessages \in Nat /\ MaxEntries \in Nat
  BY MemoryAssumption
<1>4. MemTypes
  <2>1. arrived \in 0 .. MaxMessages
    BY <1>1, <1>3
  <2> QED BY <1>1, <1>2, <2>1, NoBucketFacts DEF MemTypes
<1>5. Wired(wire, jobs) /\ JobsOrdered(jobs, cache, arrived)
  BY <1>2 DEF Wired, OneEach, JobsOrdered
<1>6. KeysOrdered(cache, store, arrived)
  BY <1>1, <1>3, NoBucketFacts DEF KeysOrdered, KeyOrdered
<1> QED BY <1>4, <1>5, <1>6 DEF MemCore, MemWired, OrderInv

\* Every step keeps the core.
LEMMA CoreStep ==
  ASSUME MemCore, [MemoryNext]_memoryVars
  PROVE  MemCore'
<1>1. CASE MemoryNext
  <2>1. ASSUME NEW k \in Conversations, Add(k) \/ Clear(k) \/ Expire(k) \/ BackendExpires(k) \/ MaybeSummarize(k) \/ Compact(k)
        PROVE  MemCore'
    BY <2>1, AddCore, ClearCore, ExpireCore, BackendExpiresCore, MaybeSummarizeCore, CompactCore
  <2>2. ASSUME NEW j \in DOMAIN jobs, ModelAnswers(j)
        PROVE  MemCore'
    BY <2>2, DigestCore, DroppedCore DEF ModelAnswers
  <2>3. CASE BackendAnswers
    BY <2>3, AddAnsweredCore, ReplaceAnsweredCore, ReconcileAnsweredCore, OtherAnsweredCore DEF BackendAnswers
  <2>4. CASE Restart
    BY <2>4, RestartCore
  <2> QED BY <1>1, <2>1, <2>2, <2>3, <2>4 DEF MemoryNext
<1>2. CASE UNCHANGED memoryVars
  <2>1. /\ cache' = cache /\ store' = store /\ dirty' = dirty /\ wire' = wire /\ jobs' = jobs /\ arrived' = arrived
        /\ digests' = digests /\ clears' = clears /\ faults' = faults /\ restarts' = restarts /\ expiries' = expiries
        /\ clean' = clean
    BY <1>2 DEF memoryVars
  <2> QED BY <2>1 DEF MemCore, MemTypes, MemWired, OrderInv
<1> QED BY <1>1, <1>2

\* A clear that is still to be answered, when other calls follow,
LEMMA ToClearConcat ==
  ASSUME NEW ws \in Seq(MemCalls), NEW vs \in Seq(MemCalls), NEW k, NEW j, ToClear(ws, k, j),
         \A i \in DOMAIN vs : vs[i].key # k /\ vs[i].job # j
  PROVE  ToClear(ws \o vs, k, j)
<1>1. PICK m, d \in Nat : m = Len(ws) /\ DOMAIN ws = 1 .. m /\ d = Len(vs) /\ DOMAIN vs = 1 .. d
  OBVIOUS
<1>2. PICK u \in Seq(MemCalls) : u = ws \o vs
  <2>1. ws \o vs \in Seq(MemCalls)
    OBVIOUS
  <2> QED BY <2>1
<1>3. /\ DOMAIN u = 1 .. m + d /\ (\A i \in 1 .. m : u[i] = ws[i])
      /\ \A i \in m + 1 .. m + d : u[i] = vs[i - m] /\ i - m \in 1 .. d
  BY <1>1, <1>2
<1>4. PICK h \in 1 .. m :
        /\ ws[h] = ClearCall(k, "replace", j)
        /\ \A i \in DOMAIN ws : (ws[i].key = k => i <= h) /\ (ws[i].job = j => i = h)
  BY <1>1 DEF ToClear
<1>5. h \in DOMAIN u /\ u[h] = ClearCall(k, "replace", j)
  BY <1>3, <1>4
<1>6. ASSUME NEW i \in DOMAIN u PROVE (u[i].key = k => i <= h) /\ (u[i].job = j => i = h)
  <2>1. i \in 1 .. m \/ i \in m + 1 .. m + d
    BY <1>3
  <2>2. CASE i \in 1 .. m
    <3>1. u[i] = ws[i] /\ i \in DOMAIN ws
      BY <1>1, <1>3, <2>2, Zenon
    <3> QED BY <1>4, <3>1, Zenon
  <2>3. CASE i \in m + 1 .. m + d
    <3>1. u[i] = vs[i - m] /\ i - m \in DOMAIN vs
      BY <1>1, <1>3, <2>3, Zenon
    <3> QED BY <3>1, Zenon
  <2> QED BY <2>1, <2>2, <2>3, Zenon
<1>7. ToClear(u, k, j)
  BY <1>5, <1>6 DEF ToClear
<1> QED BY <1>2, <1>7

\* The rest of the calls.
LEMMA TailFacts ==
  ASSUME NEW ws \in Seq(MemCalls), ws # <<>>
  PROVE  \E m \in Nat, u \in Seq(MemCalls) :
           u = Tail(ws) /\ DOMAIN ws = 1 .. m + 1 /\ DOMAIN u = 1 .. m /\ Head(ws) = ws[1] /\ \A i \in 1 .. m : u[i] = ws[i + 1]
<1>1. PICK m \in Nat : DOMAIN ws = 1 .. m + 1 /\ Len(ws) = m + 1
  <2>1. Len(ws) \in Nat /\ Len(ws) # 0
    OBVIOUS
  <2>2. Len(ws) - 1 \in Nat /\ Len(ws) = (Len(ws) - 1) + 1
    BY <2>1
  <2>3. DOMAIN ws = 1 .. Len(ws)
    OBVIOUS
  <2> QED BY <2>2, <2>3
<1>2. PICK u \in Seq(MemCalls) : u = Tail(ws)
  <2>1. Tail(ws) \in Seq(MemCalls)
    OBVIOUS
  <2> QED BY <2>1
<1>3. DOMAIN u = 1 .. m /\ \A i \in 1 .. m : u[i] = ws[i + 1]
  BY <1>1, <1>2
<1>4. Head(ws) = ws[1]
  OBVIOUS
<1> QED BY <1>1, <1>2, <1>3, <1>4

\* when another call is answered,
LEMMA ToClearTail ==
  ASSUME NEW ws \in Seq(MemCalls), ws # <<>>, NEW k, NEW j, ToClear(ws, k, j), Head(ws) # ClearCall(k, "replace", j)
  PROVE  ToClear(Tail(ws), k, j)
<1>1. PICK m \in Nat, u \in Seq(MemCalls) :
           u = Tail(ws) /\ DOMAIN ws = 1 .. m + 1 /\ DOMAIN u = 1 .. m /\ Head(ws) = ws[1] /\ \A i \in 1 .. m : u[i] = ws[i + 1]
  BY TailFacts
<1>2. PICK h \in 1 .. m + 1 :
        /\ ws[h] = ClearCall(k, "replace", j)
        /\ \A i \in 1 .. m + 1 : (ws[i].key = k => i <= h) /\ (ws[i].job = j => i = h)
  BY <1>1 DEF ToClear
<1>3. h # 1
  BY <1>1, <1>2
<1>4. PICK p \in 1 .. m : h = p + 1
  <2>1. h - 1 \in 1 .. m /\ h = (h - 1) + 1
    BY <1>3
  <2> QED BY <2>1
<1>5. u[p] = ClearCall(k, "replace", j)
  BY <1>1, <1>2, <1>4
<1>6. ASSUME NEW i \in 1 .. m PROVE (u[i].key = k => i <= p) /\ (u[i].job = j => i = p)
  <2>1. i + 1 \in 1 .. m + 1 /\ u[i] = ws[i + 1]
    BY <1>1
  <2>2. (u[i].key = k => i + 1 <= h) /\ (u[i].job = j => i + 1 = h)
    BY <1>2, <2>1
  <2> QED BY <1>4, <2>2
<1> QED BY <1>1, <1>5, <1>6 DEF ToClear

\* and when it is answered itself.
LEMMA ToClearNow ==
  ASSUME NEW ws \in Seq(MemCalls), ws # <<>>, NEW k, NEW j, ToClear(ws, k, j), Head(ws).job = j
  PROVE  /\ Head(ws) = ClearCall(k, "replace", j)
         /\ \A i \in DOMAIN Tail(ws) : Tail(ws)[i].key # k /\ Tail(ws)[i].job # j
<1>1. PICK m \in Nat, u \in Seq(MemCalls) :
           u = Tail(ws) /\ DOMAIN ws = 1 .. m + 1 /\ DOMAIN u = 1 .. m /\ Head(ws) = ws[1] /\ \A i \in 1 .. m : u[i] = ws[i + 1]
  BY TailFacts
<1>2. PICK h \in 1 .. m + 1 :
        /\ ws[h] = ClearCall(k, "replace", j)
        /\ \A i \in 1 .. m + 1 : (ws[i].key = k => i <= h) /\ (ws[i].job = j => i = h)
  BY <1>1 DEF ToClear
<1>3. h = 1
  <2>1. 1 \in 1 .. m + 1
    OBVIOUS
  <2> QED BY <1>1, <1>2, <2>1
<1>4. ASSUME NEW i \in 1 .. m PROVE u[i].key # k /\ u[i].job # j
  <2>1. i + 1 \in 1 .. m + 1 /\ u[i] = ws[i + 1] /\ ~(i + 1 <= 1)
    BY <1>1
  <2> QED BY <1>2, <1>3, <2>1
<1> QED BY <1>1, <1>2, <1>3, <1>4

\* Other operations end.
LEMMA ToClearOrphaned ==
  ASSUME NEW ws \in Seq(MemCalls), NEW k, NEW j \in Nat \ {0}, NEW i, i # j, ToClear(ws, k, j)
  PROVE  ToClear(Orphaned(ws, i), k, j)
<1>1. PICK u : u = Orphaned(ws, i)
  OBVIOUS
<1>2. DOMAIN u = DOMAIN ws /\ \A h \in DOMAIN ws : /\ u[h].key = ws[h].key /\ (ws[h].job # i => u[h] = ws[h])
                                                   /\ (ws[h].job = i => u[h].job = 0)
  BY <1>1, OrphanedFacts
<1>3. PICK h \in DOMAIN ws :
        /\ ws[h] = ClearCall(k, "replace", j)
        /\ \A g \in DOMAIN ws : (ws[g].key = k => g <= h) /\ (ws[g].job = j => g = h)
  BY DEF ToClear
<1>4. u[h] = ClearCall(k, "replace", j)
  <2>1. ws[h].job = j
    BY <1>3 DEF ClearCall
  <2> QED BY <1>2, <1>3, <2>1
<1>5. \A g \in DOMAIN u : (u[g].key = k => g <= h) /\ (u[g].job = j => g = h)
  BY <1>2, <1>3
<1> QED BY <1>1, <1>2, <1>4, <1>5 DEF ToClear

\* A replace begins.
LEMMA ToClearBegins ==
  ASSUME NEW ws \in Seq(MemCalls), NEW w \in MemCalls, NEW k, NEW j, w = ClearCall(k, "replace", j), \A i \in DOMAIN ws : ws[i].job # j
  PROVE  ToClear(Append(ws, w), k, j)
<1>1. PICK m \in Nat : m = Len(ws) /\ DOMAIN ws = 1 .. m
  OBVIOUS
<1>2. PICK u \in Seq(MemCalls) : u = Append(ws, w)
  <2>1. Append(ws, w) \in Seq(MemCalls)
    OBVIOUS
  <2> QED BY <2>1
<1>3. DOMAIN u = 1 .. m + 1 /\ u[m + 1] = w /\ \A i \in 1 .. m : u[i] = ws[i]
  BY <1>1, <1>2, AppendProperties
<1>4. ASSUME NEW i \in DOMAIN u PROVE (u[i].key = k => i <= m + 1) /\ (u[i].job = j => i = m + 1)
  <2>1. i \in 1 .. m + 1 /\ (i # m + 1 => i \in 1 .. m)
    BY <1>3
  <2>2. i # m + 1 => u[i].job # j
    BY <1>1, <1>3, <2>1
  <2> QED BY <2>1, <2>2
<1>5. m + 1 \in DOMAIN u
  BY <1>3
<1> QED BY <1>2, <1>3, <1>4, <1>5 DEF ToClear

\* The appends that are left.
LEMMA AppendsTail ==
  ASSUME NEW ws \in Seq(MemCalls), ws # <<>>, NEW j, Appends(ws, j)
  PROVE  Appends(Tail(ws), j) /\ (Head(ws).job = j => Head(ws).op = "append")
<1>1. PICK m \in Nat, u \in Seq(MemCalls) :
           u = Tail(ws) /\ DOMAIN ws = 1 .. m + 1 /\ DOMAIN u = 1 .. m /\ Head(ws) = ws[1] /\ \A i \in 1 .. m : u[i] = ws[i + 1]
  BY TailFacts
<1>2. 1 \in 1 .. m + 1 /\ \A i \in 1 .. m : i + 1 \in 1 .. m + 1
  OBVIOUS
<1> QED BY <1>1, <1>2 DEF Appends

\* Appends that follow appends.
LEMMA AppendsConcat ==
  ASSUME NEW ws \in Seq(MemCalls), NEW vs \in Seq(MemCalls), NEW j, Appends(ws, j), Appends(vs, j)
  PROVE  Appends(ws \o vs, j)
<1>1. PICK m, d \in Nat : m = Len(ws) /\ DOMAIN ws = 1 .. m /\ d = Len(vs) /\ DOMAIN vs = 1 .. d
  OBVIOUS
<1>2. PICK u \in Seq(MemCalls) : u = ws \o vs
  <2>1. ws \o vs \in Seq(MemCalls)
    OBVIOUS
  <2> QED BY <2>1
<1>3. /\ DOMAIN u = 1 .. m + d /\ (\A i \in 1 .. m : u[i] = ws[i])
      /\ \A i \in m + 1 .. m + d : u[i] = vs[i - m] /\ i - m \in 1 .. d
  BY <1>1, <1>2
<1>4. ASSUME NEW i \in DOMAIN u, u[i].job = j PROVE u[i].op = "append"
  <2>1. i \in 1 .. m \/ i \in m + 1 .. m + d
    BY <1>3
  <2>2. CASE i \in 1 .. m
    BY <1>1, <1>3, <1>4, <2>2 DEF Appends
  <2>3. CASE i \in m + 1 .. m + d
    <3>1. PICK h \in DOMAIN vs : u[i] = vs[h]
      BY <1>1, <1>3, <2>3
    <3> QED BY <1>4, <3>1 DEF Appends
  <2> QED BY <2>1, <2>2, <2>3
<1> QED BY <1>2, <1>4 DEF Appends

\* Replaces are rewritten the same way when calls of other keys and operations follow.
LEMMA RewritesConcat ==
  ASSUME NEW s, NEW ws \in Seq(MemCalls), NEW vs \in Seq(MemCalls), NEW js, NEW j, s[js[j].key] \in Entries,
         Rewrites(s, ws, js, j), \A i \in DOMAIN vs : vs[i].key # js[j].key /\ vs[i].job # j
  PROVE  Rewrites(s, ws \o vs, js, j)
<1>1. CASE js[j].at = 0 /\ ToClear(ws, js[j].key, j)
  BY <1>1, ToClearConcat DEF Rewrites
<1>2. CASE Outcome(s[js[j].key], ws, js[j].key) = js[j].view.entries /\ Appends(ws, j)
  <2>1. Outcome(s[js[j].key], ws \o vs, js[j].key) = js[j].view.entries
    BY <1>2, OutcomeOthers
  <2>2. Appends(vs, j)
    BY DEF Appends
  <2>3. Appends(ws \o vs, j)
    BY <1>2, <2>2, AppendsConcat
  <2> QED BY <2>1, <2>3 DEF Rewrites
<1> QED BY <1>1, <1>2 DEF Rewrites

\* The same replaces are under way.
SameReplaces(js, vs) ==
  \A j : (j \in DOMAIN js /\ js[j].kind = "replace") \/ (j \in DOMAIN vs /\ vs[j].kind = "replace")
           => j \in DOMAIN js /\ j \in DOMAIN vs /\ js[j] = vs[j]

\* The mirror stands when the replaces do, and what else is sent is of other keys.
LEMMA MirrorMoves ==
  ASSUME NEW cl \in SUBSET Conversations, NEW c, NEW d, NEW s \in [Conversations -> Entries],
         NEW ws \in Seq(MemCalls), NEW us \in Seq(MemCalls), NEW js, NEW vs, Mirrors(cl, c, s, ws, js), Alone(js, cl), SameReplaces(js, vs),
         \A k \in cl : c[k].entries = d[k].entries,
         \A i \in DOMAIN us : us[i].key \notin cl /\ (us[i].job \in DOMAIN js => js[us[i].job].kind # "replace")
  PROVE  Mirrors(cl, d, s, ws \o us, vs) /\ Alone(vs, cl)
<1>1. \A k \in cl : Outcome(s[k], ws \o us, k) = Outcome(s[k], ws, k)
  <2> SUFFICES ASSUME NEW k \in cl PROVE Outcome(s[k], ws \o us, k) = Outcome(s[k], ws, k)
    OBVIOUS
  <2>1. s[k] \in Entries /\ \A i \in DOMAIN us : us[i].key # k
    OBVIOUS
  <2> QED BY <2>1, OutcomeOthers
<1>2. \A k : Replacing(js, k) <=> Replacing(vs, k)
  BY DEF Replacing, SameReplaces
<1>3. \A k \in cl : Replacing(vs, k) \/ Outcome(s[k], ws \o us, k) = d[k].entries
  BY <1>1, <1>2 DEF Mirrors
<1>4. ASSUME NEW j \in DOMAIN vs, vs[j].kind = "replace", vs[j].key \in cl PROVE Rewrites(s, ws \o us, vs, j)
  <2>1. j \in DOMAIN js /\ js[j] = vs[j]
    BY <1>4 DEF SameReplaces
  <2>2. Rewrites(s, ws, js, j) /\ s[js[j].key] \in Entries
    BY <1>4, <2>1 DEF Mirrors
  <2>3. \A i \in DOMAIN us : us[i].key # js[j].key /\ us[i].job # j
    BY <1>4, <2>1
  <2>4. Rewrites(s, ws \o us, js, j)
    BY <2>2, <2>3, RewritesConcat
  <2> QED BY <2>1, <2>4 DEF Rewrites
<1>5. Alone(vs, cl)
  BY DEF Alone, SameReplaces
<1> QED BY <1>3, <1>4, <1>5 DEF Mirrors

\* When nothing is sent.
LEMMA MirrorStays ==
  ASSUME NEW cl \in SUBSET Conversations, NEW c, NEW d, NEW s \in [Conversations -> Entries],
         NEW ws \in Seq(MemCalls), NEW js, NEW vs, Mirrors(cl, c, s, ws, js), Alone(js, cl), SameReplaces(js, vs),
         \A k \in cl : c[k].entries = d[k].entries
  PROVE  Mirrors(cl, d, s, ws, vs) /\ Alone(vs, cl)
<1>1. PICK us \in Seq(MemCalls) : us = <<>> /\ DOMAIN us = {}
  <2>1. <<>> \in Seq(MemCalls) /\ DOMAIN <<>> = {}
    OBVIOUS
  <2> QED BY <2>1
<1>2. ws \o us = ws
  BY <1>1
<1>3. \A i \in DOMAIN us : us[i].key \notin cl /\ (us[i].job \in DOMAIN js => js[us[i].job].kind # "replace")
  BY <1>1
<1>4. Mirrors(cl, d, s, ws \o us, vs) /\ Alone(vs, cl)
  BY <1>3, MirrorMoves
<1> QED BY <1>2, <1>4

\* When one call is sent.
LEMMA MirrorSends ==
  ASSUME NEW cl \in SUBSET Conversations, NEW c, NEW s \in [Conversations -> Entries],
         NEW ws \in Seq(MemCalls), NEW w \in MemCalls, NEW js, NEW vs, Mirrors(cl, c, s, ws, js), Alone(js, cl), SameReplaces(js, vs),
         w.key \notin cl, w.job \in DOMAIN js => js[w.job].kind # "replace"
  PROVE  Mirrors(cl, c, s, Append(ws, w), vs) /\ Alone(vs, cl)
<1>1. PICK us \in Seq(MemCalls) : us = <<w>> /\ DOMAIN us = {1} /\ us[1] = w
  <2>1. <<w>> \in Seq(MemCalls) /\ DOMAIN <<w>> = {1} /\ <<w>>[1] = w
    OBVIOUS
  <2> QED BY <2>1
<1>2. ws \o us = Append(ws, w)
  BY <1>1
<1>3. \A i \in DOMAIN us : us[i].key \notin cl /\ (us[i].job \in DOMAIN js => js[us[i].job].kind # "replace")
  BY <1>1
<1>4. \A k \in cl : c[k].entries = c[k].entries
  OBVIOUS
<1>5. Mirrors(cl, c, s, ws \o us, vs) /\ Alone(vs, cl)
  BY <1>3, <1>4, MirrorMoves
<1> QED BY <1>2, <1>5

\* Fewer keys are clean.
LEMMA MirrorFewer ==
  ASSUME NEW cl, NEW dl \in SUBSET cl, NEW c, NEW s, NEW ws, NEW js, Mirrors(cl, c, s, ws, js), Alone(js, cl), Unclean(js, cl)
  PROVE  Mirrors(dl, c, s, ws, js) /\ Alone(js, dl) /\ Unclean(js, dl)
<1>1. Mirrors(dl, c, s, ws, js)
  BY DEF Mirrors
<1>2. Alone(js, dl)
  BY DEF Alone
<1>3. Unclean(js, dl)
  BY DEF Unclean
<1> QED BY <1>1, <1>2, <1>3

\* The parts of the mirror, as the steps use them.
LEMMA MirrorParts ==
  ASSUME MirrorInv
  PROVE  /\ dirty \cap clean = {} /\ Unclean(jobs, clean) /\ Alone(jobs, clean)
         /\ Mirrors(clean, cache, store, wire, jobs)
BY DEF MirrorInv

\* A call that is not of a replace is answered.
LEMMA MirrorAnswered ==
  ASSUME MemCore, MirrorInv, NEW by, by # "replace", NEW ok \in BOOLEAN, CallAnswered(by, ok)
  PROVE  /\ Mirrors(clean', cache, store', Tail(wire), jobs) /\ Alone(jobs, clean') /\ Unclean(jobs, clean')
         /\ clean' \subseteq clean
<1>1. MemTypes /\ MemWired /\ IsJobs(jobs) /\ store \in [Conversations -> Entries] /\ clean \subseteq Conversations
      /\ wire \in Seq(MemCalls)
  BY CoreParts
<1>2. /\ wire # <<>> /\ Head(wire) \in MemCalls /\ Head(wire).by = by /\ Owned(Head(wire), jobs)
      /\ \A k \in Conversations : ok \/ k # Head(wire).key =>
              Outcome(store'[k], Tail(wire), k) = Outcome(store[k], wire, k)
  BY <1>1, Answered
<1>3. (ok => clean' = clean) /\ (~ok => clean' = clean \ {Head(wire).key})
  BY <1>1, Answered
<1>4. clean' \subseteq clean
  BY <1>3
<1>5. Mirrors(clean', cache, store, wire, jobs) /\ Alone(jobs, clean') /\ Unclean(jobs, clean')
  BY <1>4, MirrorParts, MirrorFewer
<1>6. \A k \in clean' : Outcome(store'[k], Tail(wire), k) = Outcome(store[k], wire, k)
  BY <1>1, <1>2, <1>3
<1>7. \A k \in clean' : Replacing(jobs, k) \/ Outcome(store'[k], Tail(wire), k) = cache[k].entries
  BY <1>5, <1>6 DEF Mirrors
<1>8. ASSUME NEW j \in DOMAIN jobs, jobs[j].kind = "replace", jobs[j].key \in clean'
      PROVE  Rewrites(store', Tail(wire), jobs, j)
  <2>1. Rewrites(store, wire, jobs, j)
    BY <1>5, <1>8 DEF Mirrors
  <2>2. CASE jobs[j].at = 0 /\ ToClear(wire, jobs[j].key, j)
    <3>1. Head(wire) # ClearCall(jobs[j].key, "replace", j)
      BY <1>2 DEF ClearCall
    <3>2. ToClear(Tail(wire), jobs[j].key, j)
      BY <1>1, <1>2, <2>2, <3>1, ToClearTail
    <3> QED BY <2>2, <3>2 DEF Rewrites
  <2>3. CASE Outcome(store[jobs[j].key], wire, jobs[j].key) = jobs[j].view.entries /\ Appends(wire, j)
    <3>1. Appends(Tail(wire), j)
      BY <1>1, <1>2, <2>3, AppendsTail
    <3> QED BY <1>6, <1>8, <2>3, <3>1 DEF Rewrites
  <2> QED BY <2>1, <2>2, <2>3 DEF Rewrites
<1>9. Mirrors(clean', cache, store', Tail(wire), jobs)
  BY <1>7, <1>8 DEF Mirrors
<1> QED BY <1>4, <1>5, <1>9

\* reconcile works on keys that are not clean.
LEMMA MirrorNextKey ==
  ASSUME MemCore, NEW cl \in SUBSET Conversations, NEW s \in [Conversations -> Entries],
         NEW j \in Nat \ {0}, j \in DOMAIN jobs => jobs[j].kind # "replace",
         NEW left \in SUBSET Conversations, left \cap cl = {}, NEW dl, dl \cap cl = {},
         NEW sent \in Seq(MemCalls), Mirrors(cl, cache, s, sent, jobs), Alone(jobs, cl), Unclean(jobs, cl),
         NextKey(j, left, dl, sent)
  PROVE  Mirrors(cl, cache, s, wire', jobs') /\ Alone(jobs', cl) /\ Unclean(jobs', cl) /\ dirty' \cap cl = {}
<1>1. IsJobs(jobs) /\ cache \in [Conversations -> MemBuckets]
  BY CoreParts
<1>2. PICK gone \in SUBSET left :
           /\ dirty' = dl \ gone
           /\ \/ left = gone /\ jobs' = Without(jobs, j) /\ wire' = sent
              \/ \E k \in left \ gone, job \in MemJobs, w \in MemCalls : TurnsTo(j, k, left, gone, sent, job, w)
  <2>1. Turns(j, left, dl, sent)
    BY <1>1, NextKeyEffects
  <2> QED BY <2>1 DEF Turns
<1>3. dirty' \cap cl = {}
  BY <1>2
<1>4. CASE left = gone /\ jobs' = Without(jobs, j) /\ wire' = sent
  <2>1. PICK vs : vs = Without(jobs, j) /\ vs = jobs'
    BY <1>4
  <2>2. DOMAIN vs = DOMAIN jobs \ {j} /\ \A i \in DOMAIN vs : vs[i] = jobs[i]
    BY <2>1 DEF Without
  <2>3. SameReplaces(jobs, vs)
    BY <2>2 DEF SameReplaces
  <2>4. Unclean(vs, cl)
    BY <2>2 DEF Unclean
  <2>5. Mirrors(cl, cache, s, sent, vs) /\ Alone(vs, cl)
    BY <2>3, MirrorStays
  <2> QED BY <1>3, <1>4, <2>1, <2>4, <2>5
<1>5. ASSUME NEW k \in left \ gone, NEW job \in MemJobs, NEW w \in MemCalls, TurnsTo(j, k, left, gone, sent, job, w)
      PROVE  Mirrors(cl, cache, s, wire', jobs') /\ Alone(jobs', cl) /\ Unclean(jobs', cl)
  <2>1. /\ job.kind = "reconcile" /\ job.key = k /\ job.left = left \ (gone \cup {k})
        /\ jobs' = With(jobs, j, job) /\ w = ClearCall(k, "reconcile", j) /\ wire' = Append(sent, w)
    BY <1>5 DEF TurnsTo
  <2>2. PICK vs : vs = With(jobs, j, job) /\ vs = jobs'
    BY <2>1
  <2>3. DOMAIN vs = DOMAIN jobs \cup {j} /\ vs[j] = job /\ \A i \in DOMAIN jobs : i # j => vs[i] = jobs[i]
    BY <2>2 DEF With
  <2>4. SameReplaces(jobs, vs)
    BY <2>1, <2>3 DEF SameReplaces
  <2>5. Unclean(vs, cl)
    BY <2>1, <2>3 DEF Unclean
  <2>6. w.key = k /\ w.job = j
    BY <2>1 DEF ClearCall
  <2>7. w.key \notin cl /\ (w.job \in DOMAIN jobs => jobs[w.job].kind # "replace")
    BY <2>6
  <2>8. Mirrors(cl, cache, s, Append(sent, w), vs) /\ Alone(vs, cl)
    BY <2>4, <2>7, MirrorSends
  <2> QED BY <2>1, <2>2, <2>5, <2>8
<1>6. CASE \E k \in left \ gone, job \in MemJobs, w \in MemCalls : TurnsTo(j, k, left, gone, sent, job, w)
  BY <1>3, <1>5, <1>6
<1> QED BY <1>2, <1>3, <1>4, <1>6

\* An answer that is only logged keeps the mirror.
LEMMA OtherAnsweredMirror ==
  ASSUME MemCore, MirrorInv, OtherAnswered
  PROVE  MirrorInv'
<1>1. PICK ok \in BOOLEAN, by \in {"clear", "none"} : CallAnswered(by, ok) /\ wire' = Tail(wire) /\ UNCHANGED <<cache, dirty, jobs>>
  BY DEF OtherAnswered
<1>2. Mirrors(clean', cache, store', Tail(wire), jobs) /\ Alone(jobs, clean') /\ Unclean(jobs, clean') /\ clean' \subseteq clean
  BY <1>1, MirrorAnswered
<1>3. cache' = cache /\ dirty' = dirty /\ jobs' = jobs
  BY <1>1
<1>4. dirty \cap clean = {}
  BY MirrorParts
<1> QED BY <1>1, <1>2, <1>3, <1>4 DEF MirrorInv

\* The answer to an add keeps the mirror.
LEMMA AddAnsweredMirror ==
  ASSUME MemCore, MirrorInv, AddAnswered
  PROVE  MirrorInv'
<1>1. PICK ok \in BOOLEAN :
        /\ CallAnswered("add", ok)
        /\ IF ok /\ dirty # {} THEN NextKey(FreeJob, dirty, dirty, Tail(wire))
           ELSE /\ dirty' = IF ok THEN dirty ELSE Marked(Head(wire).key)
                /\ wire' = Tail(wire) /\ UNCHANGED jobs
  BY DEF AddAnswered
<1>2. Mirrors(clean', cache, store', Tail(wire), jobs) /\ Alone(jobs, clean') /\ Unclean(jobs, clean') /\ clean' \subseteq clean
  BY <1>1, MirrorAnswered
<1>3. cache' = cache /\ dirty \cap clean = {} /\ MemTypes /\ MemWired /\ IsJobs(jobs) /\ dirty \subseteq Conversations /\ clean \subseteq Conversations
  BY MirrorParts, CoreParts DEF AddAnswered
<1>4. PICK ws \in Seq(MemCalls) : ws = Tail(wire)
  <2>1. Tail(wire) \in Seq(MemCalls)
    BY <1>1, <1>3, Answered
  <2> QED BY <2>1
<1>5. CASE ok /\ dirty # {}
  <2>1. PICK j \in Nat \ {0} : j = FreeJob /\ j \notin DOMAIN jobs
    BY <1>3, FreeJobFacts
  <2>2. PICK cl \in SUBSET Conversations, s \in [Conversations -> Entries] : cl = clean' /\ s = store'
    BY <1>1, <1>2, <1>3, AnsweredTypes
  <2>3. NextKey(j, dirty, dirty, ws) /\ dirty \cap cl = {}
    BY <1>1, <1>2, <1>3, <1>4, <1>5, <2>1, <2>2
  <2>4. Mirrors(cl, cache, s, ws, jobs) /\ Alone(jobs, cl) /\ Unclean(jobs, cl)
    BY <1>2, <1>4, <2>2
  <2>5. Mirrors(cl, cache, s, wire', jobs') /\ Alone(jobs', cl) /\ Unclean(jobs', cl) /\ dirty' \cap cl = {}
    BY <1>3, <2>1, <2>3, <2>4, MirrorNextKey
  <2> QED BY <1>3, <2>2, <2>5 DEF MirrorInv
<1>6. CASE ~(ok /\ dirty # {})
  <2>1. jobs' = jobs /\ wire' = Tail(wire) /\ dirty' = IF ok THEN dirty ELSE dirty \cup {Head(wire).key}
    BY <1>1, <1>6 DEF Marked
  <2>2. ~ok => clean' = clean \ {Head(wire).key}
    BY <1>1, <1>3, Answered
  <2>3. dirty' \cap clean' = {}
    BY <1>2, <1>3, <2>1, <2>2
  <2> QED BY <1>2, <1>3, <2>1, <2>3 DEF MirrorInv
<1> QED BY <1>5, <1>6

\* The answer to a call of a reconcile keeps the mirror.
LEMMA ReconcileAnsweredMirror ==
  ASSUME MemCore, MirrorInv, ReconcileAnswered
  PROVE  MirrorInv'
<1>1. PICK ok \in BOOLEAN, j \in DOMAIN jobs, ws \in Seq(MemCalls) :
           /\ CallAnswered("reconcile", ok) /\ cache' = cache
           /\ jobs[j].kind = "reconcile" /\ Head(wire).job = j /\ Head(wire).key = jobs[j].key
           /\ ws = Tail(wire) /\ Wired(ws, jobs) /\ \A i \in DOMAIN ws : ws[i].job # j
           /\ \/ ok /\ \E job \in MemJobs : ReconcileGoesOn(j, ws, job)
              \/ ReconcileTurns(ok, j, ws)
  BY ReconcileEffects
<1>2. Mirrors(clean', cache, store', Tail(wire), jobs) /\ Alone(jobs, clean') /\ Unclean(jobs, clean') /\ clean' \subseteq clean
  BY <1>1, MirrorAnswered
<1>3. dirty \cap clean = {} /\ MemTypes /\ MemWired /\ IsJobs(jobs) /\ dirty \subseteq Conversations /\ clean \subseteq Conversations
  BY MirrorParts, CoreParts
<1>4. PICK cl \in SUBSET Conversations, s \in [Conversations -> Entries] : cl = clean' /\ s = store'
  BY <1>1, <1>2, <1>3, AnsweredTypes
<1>5. Mirrors(cl, cache, s, ws, jobs) /\ Alone(jobs, cl) /\ Unclean(jobs, cl) /\ dirty \cap cl = {}
  BY <1>1, <1>2, <1>3, <1>4
<1>6. jobs[j].key \in Conversations /\ jobs[j].left \in SUBSET Conversations /\ j \in Nat \ {0} /\ jobs[j].view.entries \in Entries
  BY <1>3, JobTypes
<1>7. jobs[j].key \notin cl /\ jobs[j].left \cap cl = {}
  BY <1>1, <1>5 DEF Unclean
<1>8. ASSUME NEW job \in MemJobs, ReconcileGoesOn(j, ws, job)
      PROVE  Mirrors(cl, cache, s, wire', jobs') /\ Alone(jobs', cl) /\ Unclean(jobs', cl) /\ dirty' \cap cl = {}
  <2>1. PICK n \in 1 .. Len(jobs[j].view.entries) : n = NextAt(j)
    BY <1>8 DEF ReconcileGoesOn
  <2>2. /\ jobs' = [jobs EXCEPT ![j] = job] /\ job.kind = "reconcile" /\ job.key = jobs[j].key /\ job.left = jobs[j].left
        /\ wire' = Append(ws, AppendCall(jobs[j].key, jobs[j].view.entries[n], "reconcile", j)) /\ dirty' = dirty
    BY <1>8, <2>1 DEF ReconcileGoesOn
  <2>3. PICK w \in MemCalls : w = AppendCall(jobs[j].key, jobs[j].view.entries[n], "reconcile", j)
    <3>1. jobs[j].view.entries[n] \in MemEntry
      BY <1>6, <2>1 DEF Entries, MemEntry
    <3>2. AppendCall(jobs[j].key, jobs[j].view.entries[n], "reconcile", j) \in MemCalls
      BY <1>6, <3>1 DEF AppendCall, MemCalls
    <3> QED BY <3>2
  <2>4. w.key = jobs[j].key /\ w.job = j
    BY <2>3 DEF AppendCall
  <2>5. PICK vs : vs = jobs'
    OBVIOUS
  <2>6. DOMAIN vs = DOMAIN jobs /\ vs[j] = job /\ \A i \in DOMAIN jobs : i # j => vs[i] = jobs[i]
    <3>1. vs = [jobs EXCEPT ![j] = job]
      BY <2>2, <2>5
    <3> QED BY <1>3, <3>1, SetFacts
  <2>7. SameReplaces(jobs, vs)
    BY <1>1, <2>2, <2>6 DEF SameReplaces
  <2>8. Unclean(vs, cl)
    BY <1>5, <1>7, <2>2, <2>6 DEF Unclean
  <2>9. w.key \notin cl /\ (w.job \in DOMAIN jobs => jobs[w.job].kind # "replace")
    BY <1>1, <1>7, <2>4
  <2>10. Mirrors(cl, cache, s, Append(ws, w), vs) /\ Alone(vs, cl)
    BY <1>5, <2>7, <2>9, MirrorSends
  <2> QED BY <1>5, <2>2, <2>3, <2>5, <2>8, <2>10
<1>9. ASSUME ReconcileTurns(ok, j, ws)
      PROVE  Mirrors(cl, cache, s, wire', jobs') /\ Alone(jobs', cl) /\ Unclean(jobs', cl) /\ dirty' \cap cl = {}
  <2>1. PICK left \in SUBSET Conversations : left = jobs[j].left /\ left \cap cl = {}
    BY <1>6, <1>7
  <2>2. PICK dl : dl = (IF ok THEN dirty \ {jobs[j].key} ELSE dirty) /\ dl \cap cl = {}
    BY <1>5
  <2>3. NextKey(j, left, dl, ws)
    BY <1>9, <2>1, <2>2 DEF ReconcileTurns
  <2> QED BY <1>1, <1>5, <1>6, <2>1, <2>2, <2>3, MirrorNextKey
<1>10. Mirrors(cl, cache, s, wire', jobs') /\ Alone(jobs', cl) /\ Unclean(jobs', cl) /\ dirty' \cap cl = {}
  BY <1>1, <1>8, <1>9
<1> QED BY <1>1, <1>4, <1>10 DEF MirrorInv

\* One more call, whatever its key.
LEMMA RewritesAppend ==
  ASSUME NEW s, NEW ws \in Seq(MemCalls), NEW w \in MemCalls, NEW js, NEW j, s[js[j].key] \in Entries,
         Rewrites(s, ws, js, j), w.key # js[j].key, w.job # j
  PROVE  Rewrites(s, Append(ws, w), js, j)
<1>1. PICK vs \in Seq(MemCalls) : vs = <<w>>
  <2>1. <<w>> \in Seq(MemCalls)
    OBVIOUS
  <2> QED BY <2>1
<1>2. \A i \in DOMAIN vs : vs[i].key # js[j].key /\ vs[i].job # j
  BY <1>1
<1>3. Rewrites(s, ws \o vs, js, j)
  BY <1>2, RewritesConcat
<1>4. ws \o vs = Append(ws, w)
  BY <1>1
<1> QED BY <1>3, <1>4

\* What replace j does depends on its own state only.
LEMMA RewritesSame ==
  ASSUME NEW s, NEW ws, NEW js, NEW vs, NEW j, Rewrites(s, ws, js, j),
         vs[j].key = js[j].key, vs[j].at = js[j].at, vs[j].view = js[j].view
  PROVE  Rewrites(s, ws, vs, j)
BY DEF Rewrites

\* A write that goes to the cache and the backend alike.
LEMMA MirrorWrites ==
  ASSUME MemCore, MirrorInv, NEW k \in Conversations, NEW w \in MemCalls, w.key = k, w.job = 0,
         NEW b \in MemViews, NEW a \in MemViews,
         wire' = Append(wire, w), jobs' = Viewing(jobs, k, b, a), store' = store, dirty' = dirty, Touched(k),
         \A i \in Conversations : i # k => cache'[i] = cache[i],
         Applied(cache[k].entries, w) = cache'[k].entries
  PROVE  MirrorInv'
<1>1. IsJobs(jobs) /\ store \in [Conversations -> Entries] /\ clean \subseteq Conversations /\ wire \in Seq(MemCalls)
  BY CoreParts
<1>2. dirty \cap clean = {} /\ Unclean(jobs, clean) /\ Alone(jobs, clean) /\ Mirrors(clean, cache, store, wire, jobs)
  BY MirrorParts
<1>3. PICK vs : vs = jobs' /\ vs = Viewing(jobs, k, b, a)
  OBVIOUS
<1>4. SameJobs(vs, jobs) /\ \A j \in DOMAIN jobs : vs[j].left = jobs[j].left /\ vs[j].at = jobs[j].at /\ vs[j].view = SeenAs(jobs[j], k, b, a)
  <2>1. IsJobs(jobs) /\ vs = Viewing(jobs, k, b, a)
    BY <1>1, <1>3
  <2>2. SameJobs(vs, jobs)
    BY <2>1, ViewingFacts
  <2>3. \A j \in DOMAIN jobs : vs[j].left = jobs[j].left /\ vs[j].at = jobs[j].at /\ vs[j].view = SeenAs(jobs[j], k, b, a)
    BY <2>1, ViewingFacts
  <2> QED BY <2>2, <2>3
<1>5. PICK cl \in SUBSET clean : cl = clean' /\ (k \in cl => ~Replacing(jobs, k))
  <2>1. Replacing(jobs, k) => clean' = clean \ {k}
    BY DEF Touched, Busy, Replacing
  <2>2. ~Replacing(jobs, k) => clean' = clean
    BY DEF Touched, Busy, Replacing
  <2>3. clean' \subseteq clean /\ (k \in clean' => ~Replacing(jobs, k))
    BY <2>1, <2>2
  <2> QED BY <2>3
<1>6. Mirrors(cl, cache, store, wire, jobs) /\ Alone(jobs, cl) /\ Unclean(jobs, cl)
  BY <1>2, MirrorFewer
<1>7. Alone(vs, cl) /\ Unclean(vs, cl)
  BY <1>4, <1>6 DEF Alone, Unclean, SameJobs
<1>8. \A i : Replacing(vs, i) <=> Replacing(jobs, i)
  BY <1>4 DEF Replacing, SameJobs
<1>9. ASSUME NEW i \in cl, ~Replacing(vs, i) PROVE Outcome(store[i], Append(wire, w), i) = cache'[i].entries
  <2>1. Outcome(store[i], wire, i) = cache[i].entries
    BY <1>6, <1>8, <1>9 DEF Mirrors
  <2>2. store[i] \in Entries /\ i \in Conversations
    BY <1>1
  <2>3. Outcome(store[i], Append(wire, w), i) = IF w.key = i THEN Applied(Outcome(store[i], wire, i), w) ELSE Outcome(store[i], wire, i)
    BY <1>1, <2>2, OutcomeAppend
  <2> QED BY <2>1, <2>2, <2>3
<1>10. ASSUME NEW j \in DOMAIN vs, vs[j].kind = "replace", vs[j].key \in cl PROVE Rewrites(store, Append(wire, w), vs, j)
  <2>1. j \in DOMAIN jobs /\ jobs[j].kind = "replace" /\ jobs[j].key = vs[j].key /\ vs[j].at = jobs[j].at
    BY <1>4, <1>10 DEF SameJobs
  <2>2. jobs[j].key # k
    BY <1>5, <1>10, <2>1 DEF Replacing
  <2>3. vs[j].view = jobs[j].view
    BY <1>4, <2>1, <2>2 DEF SeenAs
  <2>4. Rewrites(store, wire, jobs, j) /\ store[jobs[j].key] \in Entries /\ j # 0
    BY <1>1, <1>6, <1>10, <2>1, JobTypes DEF Mirrors
  <2>5. Rewrites(store, Append(wire, w), jobs, j)
    BY <1>1, <2>2, <2>4, RewritesAppend
  <2> QED BY <2>1, <2>3, <2>5, RewritesSame
<1>11. Mirrors(cl, cache', store, Append(wire, w), vs)
  BY <1>9, <1>10 DEF Mirrors
<1>12. dirty \cap cl = {}
  BY <1>2
<1> QED BY <1>3, <1>5, <1>7, <1>11, <1>12 DEF MirrorInv

\* A push keeps the mirror.
LEMMA AddMirror ==
  ASSUME MemCore, MirrorInv, NEW k \in Conversations, Add(k)
  PROVE  MirrorInv'
<1>1. PICK p, q \in Entries :
           /\ p = Append(cache[k].entries, arrived + 1) /\ q = LastOf(MaxEntries, p)
           /\ Rises(p, arrived + 1) /\ Rises(q, arrived + 1) /\ Len(p) = Len(cache[k].entries) + 1 /\ Len(q) <= MaxEntries
           /\ cache' \in [Conversations -> MemBuckets] /\ cache'[k].entries = q /\ cache'[k].present
           /\ \A i \in Conversations : i # k => cache'[i] = cache[i]
           /\ arrived' = arrived + 1 /\ arrived + 1 \in 0 .. MaxMessages
           /\ jobs' = Viewing(jobs, k, View("bucket", q), View(IF q = p THEN "array" ELSE "none", p))
           /\ wire' = Append(wire, AppendCall(k, arrived + 1, "add", 0)) /\ AppendCall(k, arrived + 1, "add", 0) \in MemCalls
  BY AddEffects
<1>2. PICK b, a \in MemViews : b = View("bucket", q) /\ a = View(IF q = p THEN "array" ELSE "none", p)
  <2>1. (IF q = p THEN "array" ELSE "none") \in {"bucket", "array", "none"}
    OBVIOUS
  <2> QED BY <2>1, ViewTypes
<1>3. PICK w \in MemCalls : w = AppendCall(k, arrived + 1, "add", 0)
  BY <1>1
<1>4. w.key = k /\ w.job = 0 /\ w.op = "append" /\ w.entry = arrived + 1
  BY <1>3 DEF AppendCall
<1>5. Applied(cache[k].entries, w) = cache'[k].entries
  BY <1>1, <1>4 DEF Applied
<1>6. store' = store /\ dirty' = dirty /\ Touched(k)
  BY DEF Add
<1>7. wire' = Append(wire, w) /\ jobs' = Viewing(jobs, k, b, a) /\ \A i \in Conversations : i # k => cache'[i] = cache[i]
  BY <1>1, <1>2, <1>3
<1> QED BY <1>4, <1>5, <1>6, <1>7, MirrorWrites

\* A clear keeps the mirror.
LEMMA ClearMirror ==
  ASSUME MemCore, MirrorInv, NEW k \in Conversations, Clear(k)
  PROVE  MirrorInv'
<1>1. cache \in [Conversations -> MemBuckets] /\ cache[k].entries \in Entries
  BY CoreParts
<1>2. PICK v \in MemViews : v = View("none", cache[k].entries)
  BY <1>1, ViewTypes
<1>3. PICK w \in MemCalls : w = ClearCall(k, "clear", 0)
  <2>1. ClearCall(k, "clear", 0) \in MemCalls
    BY DEF ClearCall, MemCalls, MemEntry
  <2> QED BY <2>1
<1>4. w.key = k /\ w.job = 0 /\ w.op = "clear"
  BY <1>3 DEF ClearCall
<1>5. cache'[k] = NoBucket /\ \A i \in Conversations : i # k => cache'[i] = cache[i]
  BY <1>1 DEF Clear
<1>6. Applied(cache[k].entries, w) = cache'[k].entries
  BY <1>4, <1>5, NoBucketFacts DEF Applied
<1>7. store' = store /\ dirty' = dirty /\ Touched(k) /\ wire' = Append(wire, w) /\ jobs' = Viewing(jobs, k, v, v)
  BY <1>2, <1>3 DEF Clear, Detached
<1> QED BY <1>4, <1>5, <1>6, <1>7, MirrorWrites

\* Nothing is written, and the same replaces are under way.
LEMMA MirrorIdle ==
  ASSUME MemCore, MirrorInv, store' = store, wire' = wire, dirty' = dirty, clean' = clean,
         \A k \in Conversations : cache'[k].entries = cache[k].entries,
         SameReplaces(jobs, jobs'), Unclean(jobs', clean)
  PROVE  MirrorInv'
<1>1. store \in [Conversations -> Entries] /\ clean \in SUBSET Conversations /\ wire \in Seq(MemCalls)
  BY CoreParts
<1>2. dirty \cap clean = {} /\ Alone(jobs, clean) /\ Mirrors(clean, cache, store, wire, jobs)
  BY MirrorParts
<1>3. PICK vs, d : vs = jobs' /\ d = cache'
  OBVIOUS
<1>4. SameReplaces(jobs, vs) /\ \A k \in clean : cache[k].entries = d[k].entries
  BY <1>1, <1>3
<1>5. Mirrors(clean, d, store, wire, vs) /\ Alone(vs, clean)
  BY <1>1, <1>2, <1>4, MirrorStays
<1> QED BY <1>2, <1>3, <1>5 DEF MirrorInv

\* A digest that begins keeps the mirror,
LEMMA DigestingMirror ==
  ASSUME MemCore, MirrorInv, NEW k \in Conversations, NEW live \in {"array", "none"}, Digesting(k, live), Len(cache[k].entries) > KeepRecent,
         \A i \in Conversations : cache'[i].entries = cache[i].entries
  PROVE  MirrorInv'
<1>1. PICK j \in Nat \ {0}, job \in MemJobs :
           /\ j \notin DOMAIN jobs /\ jobs' = With(jobs, j, job)
           /\ job.kind = "digest" /\ job.key = k /\ job.view.live = live /\ job.view.entries = cache[k].entries
           /\ IsJobs(jobs') /\ Wired(wire, jobs') /\ JobsOrdered(jobs', cache, arrived)
           /\ UNCHANGED <<store, dirty, wire, arrived, clears, faults, restarts, expiries, clean>> /\ digests' = digests + 1
  BY DigestingEffects
<1>2. PICK vs : vs = jobs' /\ vs = With(jobs, j, job)
  BY <1>1
<1>3. DOMAIN vs = DOMAIN jobs \cup {j} /\ vs[j] = job /\ \A i \in DOMAIN jobs : i # j => vs[i] = jobs[i]
  BY <1>2 DEF With
<1>4. SameReplaces(jobs, vs)
  BY <1>1, <1>3 DEF SameReplaces
<1>5. Unclean(vs, clean)
  BY <1>1, <1>3, MirrorParts DEF Unclean
<1>6. store' = store /\ wire' = wire /\ dirty' = dirty /\ clean' = clean
  BY <1>1
<1> QED BY <1>2, <1>4, <1>5, <1>6, MirrorIdle

\* that of a summary
LEMMA MaybeSummarizeMirror ==
  ASSUME MemCore, MirrorInv, NEW k \in Conversations, MaybeSummarize(k)
  PROVE  MirrorInv'
<1>1. cache \in [Conversations -> MemBuckets] /\ cache[k].entries \in Entries
  BY CoreParts
<1>2. \A i \in Conversations : cache'[i].entries = cache[i].entries
  BY <1>1, UnflaggedFacts DEF MaybeSummarize
<1>3. CASE UNCHANGED <<store, dirty, wire, jobs, arrived, digests, clears, faults, restarts, expiries, clean>>
  <2>1. store' = store /\ dirty' = dirty /\ wire' = wire /\ jobs' = jobs /\ clean' = clean
    BY <1>3
  <2>2. SameReplaces(jobs, jobs') /\ Unclean(jobs', clean)
    BY <2>1, MirrorParts DEF SameReplaces
  <2> QED BY <1>2, <2>1, <2>2, MirrorIdle
<1>4. CASE Digesting(k, "array") /\ ~(Len(cache[k].entries) - KeepRecent < MinSummarized)
  <2>1. Len(cache[k].entries) > KeepRecent
    <3>1. PICK s \in Entries : s = cache[k].entries
      BY <1>1
    <3>2. Len(s) \in Nat /\ KeepRecent \in Nat /\ MinSummarized \in Nat \ {0}
      BY MemoryAssumption DEF Entries
    <3> QED BY <1>4, <3>1, <3>2
  <2> QED BY <1>2, <1>4, <2>1, DigestingMirror
<1> QED BY <1>3, <1>4 DEF MaybeSummarize

\* and that of a compaction.
LEMMA CompactMirror ==
  ASSUME MemCore, MirrorInv, NEW k \in Conversations, Compact(k)
  PROVE  MirrorInv'
<1>1. Digesting(k, "none") /\ Len(cache[k].entries) > KeepRecent /\ \A i \in Conversations : cache'[i].entries = cache[i].entries
  BY DEF Compact
<1> QED BY <1>1, DigestingMirror

\* A digest that fails keeps the mirror.
LEMMA DroppedMirror ==
  ASSUME MemCore, MirrorInv, NEW j \in DOMAIN jobs, DigestDropped(j)
  PROVE  MirrorInv'
<1>1. /\ jobs' = Without(jobs, j) /\ jobs[j].kind = "digest"
      /\ store' = store /\ dirty' = dirty /\ wire' = wire /\ cache' = cache /\ clean' = clean
  BY DEF DigestDropped
<1>2. PICK vs : vs = jobs' /\ vs = Without(jobs, j)
  BY <1>1
<1>3. DOMAIN vs = DOMAIN jobs \ {j} /\ \A i \in DOMAIN vs : vs[i] = jobs[i]
  BY <1>2 DEF Without
<1>4. SameReplaces(jobs, vs)
  BY <1>1, <1>3 DEF SameReplaces
<1>5. Unclean(vs, clean)
  BY <1>3, MirrorParts DEF Unclean
<1>6. \A k \in Conversations : cache'[k].entries = cache[k].entries
  BY <1>1
<1> QED BY <1>1, <1>2, <1>4, <1>5, <1>6, MirrorIdle

\* The answer of the model, which begins a replace, keeps the mirror.
LEMMA DigestMirror ==
  ASSUME MemCore, MirrorInv, NEW j \in DOMAIN jobs, DigestAnswered(j)
  PROVE  MirrorInv'
<1>1. PICK job \in MemJobs, w \in MemCalls :
           /\ jobs[j].kind = "digest" /\ job.kind = "replace" /\ job.key = jobs[j].key /\ job.view.live = "none" /\ job.at = 0
           /\ Len(job.view.entries) <= MaxEntries /\ Rises(job.view.entries, arrived)
           /\ jobs' = With(jobs, j, job) /\ \A i \in DOMAIN wire : wire[i].job # j
           /\ w = ClearCall(jobs[j].key, "replace", j) /\ wire' = Append(wire, w)
           /\ Touched(jobs[j].key) /\ UNCHANGED <<cache, store, dirty, arrived, digests, clears, faults, restarts, expiries>>
  BY DigestEffects
<1>2. IsJobs(jobs) /\ store \in [Conversations -> Entries] /\ clean \subseteq Conversations /\ wire \in Seq(MemCalls)
  BY CoreParts
<1>3. dirty \cap clean = {} /\ Unclean(jobs, clean) /\ Alone(jobs, clean) /\ Mirrors(clean, cache, store, wire, jobs)
  BY MirrorParts
<1>4. PICK k \in Conversations : k = jobs[j].key
  BY <1>2, JobTypes
<1>5. PICK vs : vs = jobs' /\ vs = With(jobs, j, job)
  BY <1>1
<1>6. DOMAIN vs = DOMAIN jobs /\ vs[j] = job /\ \A i \in DOMAIN jobs : i # j => vs[i] = jobs[i]
  BY <1>5 DEF With
<1>7. PICK cl \in SUBSET clean : cl = clean' /\ (k \in cl => ~Replacing(jobs, k))
  <2>1. Replacing(jobs, k) => clean' = clean \ {k}
    BY <1>1, <1>4 DEF Touched, Busy, Replacing
  <2>2. ~Replacing(jobs, k) => clean' = clean
    BY <1>1, <1>4 DEF Touched, Busy, Replacing
  <2>3. clean' \subseteq clean /\ (k \in clean' => ~Replacing(jobs, k))
    BY <2>1, <2>2
  <2> QED BY <2>3
<1>8. Mirrors(cl, cache, store, wire, jobs) /\ Alone(jobs, cl) /\ Unclean(jobs, cl)
  BY <1>3, MirrorFewer
<1>9. w.key = k /\ w.job = j
  BY <1>1, <1>4 DEF ClearCall
<1>10. Unclean(vs, cl)
  BY <1>1, <1>6, <1>8 DEF Unclean
<1>11. Alone(vs, cl)
  <2> SUFFICES ASSUME NEW i \in DOMAIN vs, NEW h \in DOMAIN vs, vs[i].kind = "replace", vs[h].kind = "replace",
                      vs[i].key = vs[h].key, vs[i].key \in cl, i # h
               PROVE  FALSE
    BY DEF Alone
  <2>1. CASE i # j /\ h # j
    BY <1>6, <1>8, <2>1 DEF Alone
  <2>2. CASE i = j
    BY <1>1, <1>4, <1>6, <1>7, <2>2 DEF Replacing
  <2>3. CASE h = j
    BY <1>1, <1>4, <1>6, <1>7, <2>3 DEF Replacing
  <2> QED BY <2>1, <2>2, <2>3
<1>12. ASSUME NEW i \in cl, ~Replacing(vs, i) PROVE Outcome(store[i], Append(wire, w), i) = cache[i].entries
  <2>1. i # k
    BY <1>1, <1>4, <1>6, <1>12 DEF Replacing
  <2>2. ~Replacing(jobs, i)
    <3>1. \A h \in DOMAIN jobs : jobs[h].kind = "replace" => h # j /\ vs[h] = jobs[h]
      BY <1>1, <1>6
    <3> QED BY <1>6, <1>12, <3>1 DEF Replacing
  <2>3. store[i] \in Entries
    BY <1>2
  <2>4. Outcome(store[i], Append(wire, w), i) = IF w.key = i THEN Applied(Outcome(store[i], wire, i), w) ELSE Outcome(store[i], wire, i)
    BY <1>2, <2>3, OutcomeAppend
  <2> QED BY <1>8, <1>9, <1>12, <2>1, <2>2, <2>4 DEF Mirrors
<1>13. ASSUME NEW i \in DOMAIN vs, vs[i].kind = "replace", vs[i].key \in cl PROVE Rewrites(store, Append(wire, w), vs, i)
  <2>1. CASE i = j
    <3>1. vs[j].at = 0 /\ vs[j].key = k
      BY <1>1, <1>4, <1>6
    <3>2. ToClear(Append(wire, w), k, j)
      BY <1>1, <1>2, <1>4, ToClearBegins
    <3> QED BY <2>1, <3>1, <3>2 DEF Rewrites
  <2>2. CASE i # j
    <3>1. i \in DOMAIN jobs /\ vs[i] = jobs[i]
      BY <1>6, <2>2
    <3>2. jobs[i].key # k
      BY <1>7, <1>13, <3>1 DEF Replacing
    <3>3. Rewrites(store, wire, jobs, i) /\ store[jobs[i].key] \in Entries
      BY <1>2, <1>8, <1>13, <3>1 DEF Mirrors
    <3>4. Rewrites(store, Append(wire, w), jobs, i)
      BY <1>2, <1>9, <2>2, <3>2, <3>3, RewritesAppend
    <3> QED BY <3>1, <3>4, RewritesSame
  <2> QED BY <2>1, <2>2
<1>14. Mirrors(cl, cache, store, Append(wire, w), vs)
  BY <1>12, <1>13 DEF Mirrors
<1>15. store' = store /\ cache' = cache /\ dirty' = dirty /\ wire' = Append(wire, w) /\ dirty \cap cl = {}
  BY <1>1, <1>3
<1> QED BY <1>5, <1>7, <1>10, <1>11, <1>14, <1>15 DEF MirrorInv

\* A copy of a quiet key expires.
LEMMA MirrorQuiet ==
  ASSUME MemCore, MirrorInv, NEW k \in Conversations, Quiet(k), NEW c, NEW t \in [Conversations -> Entries],
         NEW cl \in SUBSET clean,
         \A i \in Conversations : i # k => t[i] = store[i] /\ c[i] = cache[i],
         k \in cl => t[k] = <<>> /\ c[k].entries = <<>>
  PROVE  Mirrors(cl, c, t, wire, jobs) /\ Alone(jobs, cl) /\ Unclean(jobs, cl) /\ dirty \cap cl = {}
<1>1. /\ dirty \cap clean = {} /\ Unclean(jobs, clean) /\ Alone(jobs, clean)
      /\ Mirrors(clean, cache, store, wire, jobs)
  BY MirrorParts
<1>2. Mirrors(cl, cache, store, wire, jobs) /\ Alone(jobs, cl) /\ Unclean(jobs, cl)
  BY <1>1, MirrorFewer
<1>3. clean \subseteq Conversations /\ wire \in Seq(MemCalls) /\ IsJobs(jobs)
  BY CoreParts
<1>4. (\A i \in DOMAIN wire : wire[i].key # k) /\ \A j \in DOMAIN jobs : jobs[j].key # k
  BY DEF Quiet
<1>5. ASSUME NEW i \in cl PROVE Replacing(jobs, i) \/ Outcome(t[i], wire, i) = c[i].entries
  <2>1. CASE i = k
    <3>1. t[k] = <<>> /\ c[k].entries = <<>> /\ t[k] \in Entries
      BY <1>5, <2>1
    <3>2. Outcome(t[k], wire, k) = t[k]
      BY <1>3, <1>4, <3>1, OutcomeNone
    <3> QED BY <2>1, <3>1, <3>2
  <2>2. CASE i # k
    <3>1. t[i] = store[i] /\ c[i] = cache[i]
      BY <1>3, <1>5, <2>2
    <3> QED BY <1>2, <1>5, <3>1 DEF Mirrors
  <2> QED BY <2>1, <2>2
<1>6. ASSUME NEW j \in DOMAIN jobs, jobs[j].kind = "replace", jobs[j].key \in cl PROVE Rewrites(t, wire, jobs, j)
  <2>1. t[jobs[j].key] = store[jobs[j].key]
    BY <1>3, <1>4, <1>6
  <2>2. Rewrites(store, wire, jobs, j)
    BY <1>2, <1>6 DEF Mirrors
  <2> QED BY <2>1, <2>2 DEF Rewrites
<1> QED BY <1>1, <1>2, <1>5, <1>6 DEF Mirrors

\* The expiry of a bucket keeps the mirror,
LEMMA ExpireMirror ==
  ASSUME MemCore, MirrorInv, NEW k \in Conversations, Expire(k)
  PROVE  MirrorInv'
<1>1. /\ Quiet(k) /\ cache' = [cache EXCEPT ![k] = NoBucket]
      /\ clean' = (IF store[k] = <<>> THEN clean ELSE clean \ {k})
      /\ store' = store /\ dirty' = dirty /\ wire' = wire /\ jobs' = jobs
  BY DEF Expire
<1>2. cache \in [Conversations -> MemBuckets] /\ store \in [Conversations -> Entries]
  BY CoreParts
<1>7. PICK c : c = cache'
  OBVIOUS
<1>8. PICK t \in [Conversations -> Entries] : t = store
  BY <1>2
<1>3. PICK cl \in SUBSET clean : cl = clean'
  BY <1>1
<1>4. c[k] = NoBucket /\ \A i \in Conversations : i # k => t[i] = store[i] /\ c[i] = cache[i]
  BY <1>1, <1>2, <1>7, <1>8
<1>5. k \in cl => t[k] = <<>> /\ c[k].entries = <<>>
  BY <1>1, <1>3, <1>4, <1>8, NoBucketFacts
<1>6. Mirrors(cl, c, t, wire, jobs) /\ Alone(jobs, cl) /\ Unclean(jobs, cl) /\ dirty \cap cl = {}
  BY <1>1, <1>4, <1>5, MirrorQuiet
<1> QED BY <1>1, <1>3, <1>6, <1>7, <1>8 DEF MirrorInv

\* and so does that of a key in the backend.
LEMMA BackendExpiresMirror ==
  ASSUME MemCore, MirrorInv, NEW k \in Conversations, BackendExpires(k)
  PROVE  MirrorInv'
<1>1. /\ Quiet(k) /\ store' = [store EXCEPT ![k] = <<>>]
      /\ clean' = (IF cache[k].entries = <<>> THEN clean ELSE clean \ {k})
      /\ cache' = cache /\ dirty' = dirty /\ wire' = wire /\ jobs' = jobs
  BY DEF BackendExpires
<1>2. cache \in [Conversations -> MemBuckets] /\ store \in [Conversations -> Entries] /\ <<>> \in Entries
  BY CoreParts, NoBucketFacts
<1>3. PICK t \in [Conversations -> Entries], cl \in SUBSET clean : t = store' /\ cl = clean'
  BY <1>1, <1>2
<1>4. t[k] = <<>> /\ \A i \in Conversations : i # k => t[i] = store[i]
  BY <1>1, <1>2, <1>3
<1>5. k \in cl => t[k] = <<>> /\ cache[k].entries = <<>>
  BY <1>1, <1>3, <1>4
<1>6. Mirrors(cl, cache, t, wire, jobs) /\ Alone(jobs, cl) /\ Unclean(jobs, cl) /\ dirty \cap cl = {}
  BY <1>1, <1>4, <1>5, MirrorQuiet
<1> QED BY <1>1, <1>3, <1>6 DEF MirrorInv

\* Nothing is in flight and both copies are empty.
LEMMA MirrorEmpty ==
  ASSUME NEW cl \in SUBSET Conversations, NEW c, NEW t \in [Conversations -> Entries],
         \A k \in cl : t[k] = <<>> /\ c[k].entries = <<>>
  PROVE  Mirrors(cl, c, t, <<>>, <<>>) /\ Alone(<<>>, cl) /\ Unclean(<<>>, cl)
<1>1. <<>> \in Seq(MemCalls) /\ DOMAIN <<>> = {}
  OBVIOUS
<1>2. \A k \in cl : Outcome(t[k], <<>>, k) = t[k]
  <2> SUFFICES ASSUME NEW k \in cl PROVE Outcome(t[k], <<>>, k) = t[k]
    OBVIOUS
  <2>1. PICK s \in Entries : s = t[k]
    OBVIOUS
  <2>2. PICK ws \in Seq(MemCalls) : ws = <<>> /\ \A i \in DOMAIN ws : ws[i].key # k
    BY <1>1
  <2>3. Outcome(s, ws, k) = s
    BY <2>2, OutcomeNone
  <2> QED BY <2>1, <2>2, <2>3
<1> QED BY <1>1, <1>2 DEF Mirrors, Alone, Unclean

\* A restart keeps the mirror.
LEMMA RestartMirror ==
  ASSUME MemCore, MirrorInv, Restart
  PROVE  MirrorInv'
<1>1. /\ cache' = [k \in Conversations |-> NoBucket] /\ dirty' = {} /\ wire' = <<>> /\ jobs' = <<>>
      /\ clean' = {k \in clean : store[k] = <<>>} /\ store' = store
  BY DEF Restart
<1>2. clean \subseteq Conversations /\ store \in [Conversations -> Entries]
  BY CoreParts
<1>6. PICK c : c = cache'
  OBVIOUS
<1>3. PICK cl \in SUBSET Conversations : cl = clean'
  BY <1>1, <1>2
<1>4. \A k \in cl : store[k] = <<>> /\ c[k].entries = <<>>
  BY <1>1, <1>2, <1>3, <1>6, NoBucketFacts
<1>5. Mirrors(cl, c, store, <<>>, <<>>) /\ Alone(<<>>, cl) /\ Unclean(<<>>, cl)
  BY <1>2, <1>4, MirrorEmpty
<1> QED BY <1>1, <1>3, <1>5, <1>6 DEF MirrorInv

\* The mirror at the start.
LEMMA MirrorInit ==
  ASSUME MemoryInit
  PROVE  MirrorInv
<1>1. /\ cache = [k \in Conversations |-> NoBucket] /\ store = [k \in Conversations |-> <<>>]
      /\ dirty = {} /\ wire = <<>> /\ jobs = <<>> /\ clean = Conversations
  BY DEF MemoryInit
<1>2. store \in [Conversations -> Entries]
  BY <1>1, NoBucketFacts
<1>3. \A k \in clean : store[k] = <<>> /\ cache[k].entries = <<>>
  BY <1>1, NoBucketFacts
<1>4. Mirrors(clean, cache, store, <<>>, <<>>) /\ Alone(<<>>, clean) /\ Unclean(<<>>, clean)
  BY <1>1, <1>2, <1>3, MirrorEmpty
<1> QED BY <1>1, <1>4 DEF MirrorInv

\* An orphaned call does what it would have done.
LEMMA OutcomeOrphaned ==
  ASSUME NEW s \in Entries, NEW ws \in Seq(MemCalls), NEW i, NEW k
  PROVE  Outcome(s, Orphaned(ws, i), k) = Outcome(s, ws, k)
<1>1. PICK us \in Seq(MemCalls) : us = Orphaned(ws, i)
  BY OrphanedFacts
<1>2. Len(ws) = Len(us) /\ \A h \in DOMAIN ws : ws[h].key = us[h].key /\ ws[h].op = us[h].op /\ ws[h].entry = us[h].entry
  BY <1>1, OrphanedFacts
<1>3. Outcome(s, ws, k) = Outcome(s, us, k)
  BY <1>2, OutcomeSame
<1> QED BY <1>1, <1>3

\* A replace rewrites its key the same way when another ends.
LEMMA RewritesOrphaned ==
  ASSUME NEW s, NEW ws \in Seq(MemCalls), NEW js, NEW j \in Nat \ {0}, NEW i, i # j, s[js[j].key] \in Entries,
         Rewrites(s, ws, js, j)
  PROVE  Rewrites(s, Orphaned(ws, i), js, j)
<1>1. CASE js[j].at = 0 /\ ToClear(ws, js[j].key, j)
  BY <1>1, ToClearOrphaned DEF Rewrites
<1>2. CASE Outcome(s[js[j].key], ws, js[j].key) = js[j].view.entries /\ Appends(ws, j)
  <2>1. Outcome(s[js[j].key], Orphaned(ws, i), js[j].key) = js[j].view.entries
    BY <1>2, OutcomeOrphaned
  <2>2. Appends(Orphaned(ws, i), j)
    <3>1. \A h \in DOMAIN ws : ws[h].job = j => ws[h].op = "append"
      BY <1>2 DEF Appends
    <3>2. /\ DOMAIN Orphaned(ws, i) = DOMAIN ws
          /\ \A h \in DOMAIN ws : /\ Orphaned(ws, i)[h].op = ws[h].op
                                  /\ ws[h].job # i => Orphaned(ws, i)[h] = ws[h]
                                  /\ ws[h].job = i => Orphaned(ws, i)[h].job = 0
      BY OrphanedFacts
    <3> QED BY <3>1, <3>2 DEF Appends
  <2> QED BY <2>1, <2>2 DEF Rewrites
<1> QED BY <1>1, <1>2 DEF Rewrites

\* A call of a replace is answered.
LEMMA ReplaceHead ==
  ASSUME MemCore, MirrorInv, NEW ok \in BOOLEAN, CallAnswered("replace", ok), NEW j \in DOMAIN jobs,
         jobs[j].kind = "replace", Head(wire).job = j, Head(wire).key = jobs[j].key
  PROVE  /\ clean' \subseteq clean /\ (jobs[j].key \in clean' => ok) /\ store' \in [Conversations -> Entries]
         /\ \A i \in clean' : Outcome(store'[i], Tail(wire), i) = Outcome(store[i], wire, i)
         /\ \A i \in DOMAIN jobs : i # j /\ jobs[i].kind = "replace" /\ jobs[i].key \in clean' => Rewrites(store', Tail(wire), jobs, i)
         /\ jobs[j].key \in clean' =>
              \/ /\ jobs[j].at = 0 /\ Head(wire).op = "clear" /\ store'[jobs[j].key] = <<>>
                 /\ \A i \in DOMAIN Tail(wire) : Tail(wire)[i].key # jobs[j].key /\ Tail(wire)[i].job # j
              \/ /\ Head(wire).op = "append" /\ Outcome(store'[jobs[j].key], Tail(wire), jobs[j].key) = jobs[j].view.entries
                 /\ Appends(Tail(wire), j)
<1>1. /\ wire # <<>> /\ store' \in [Conversations -> Entries] /\ Head(wire) \in MemCalls
      /\ \A k \in Conversations : ok \/ k # Head(wire).key =>
              Outcome(store'[k], Tail(wire), k) = Outcome(store[k], wire, k)
      /\ ok => store'[Head(wire).key] = Applied(store[Head(wire).key], Head(wire))
  BY Answered DEF MemCore
<1>2. (ok => clean' = clean) /\ (~ok => clean' = clean \ {Head(wire).key})
  BY Answered DEF MemCore
<1>3. wire \in Seq(MemCalls) /\ clean \subseteq Conversations /\ IsJobs(jobs) /\ store \in [Conversations -> Entries]
  BY CoreParts
<1>4. clean' \subseteq clean /\ (jobs[j].key \in clean' => ok) /\ (\A i \in clean' : ok \/ i # Head(wire).key)
  BY <1>2
<1>5. \A i \in clean' : Outcome(store'[i], Tail(wire), i) = Outcome(store[i], wire, i)
  BY <1>1, <1>3, <1>4
<1>6. \A i \in DOMAIN jobs : jobs[i].kind = "replace" /\ jobs[i].key \in clean' => Rewrites(store, wire, jobs, i)
  <2>1. Mirrors(clean, cache, store, wire, jobs)
    BY MirrorParts
  <2> QED BY <1>4, <2>1 DEF Mirrors
<1>7. ASSUME NEW i \in DOMAIN jobs, i # j, jobs[i].kind = "replace", jobs[i].key \in clean' PROVE Rewrites(store', Tail(wire), jobs, i)
  <2>1. CASE jobs[i].at = 0 /\ ToClear(wire, jobs[i].key, i)
    <3>1. Head(wire) # ClearCall(jobs[i].key, "replace", i)
      BY <1>7 DEF ClearCall
    <3>2. ToClear(Tail(wire), jobs[i].key, i)
      BY <1>1, <1>3, <2>1, <3>1, ToClearTail
    <3> QED BY <2>1, <3>2 DEF Rewrites
  <2>2. CASE Outcome(store[jobs[i].key], wire, jobs[i].key) = jobs[i].view.entries /\ Appends(wire, i)
    <3>1. Appends(Tail(wire), i)
      BY <1>1, <1>3, <2>2, AppendsTail
    <3> QED BY <1>5, <1>7, <2>2, <3>1 DEF Rewrites
  <2> QED BY <1>6, <1>7, <2>1, <2>2 DEF Rewrites
<1>8. ASSUME jobs[j].key \in clean'
      PROVE  \/ /\ jobs[j].at = 0 /\ Head(wire).op = "clear" /\ store'[jobs[j].key] = <<>>
                /\ \A i \in DOMAIN Tail(wire) : Tail(wire)[i].key # jobs[j].key /\ Tail(wire)[i].job # j
             \/ /\ Head(wire).op = "append" /\ Outcome(store'[jobs[j].key], Tail(wire), jobs[j].key) = jobs[j].view.entries
                /\ Appends(Tail(wire), j)
  <2>1. CASE jobs[j].at = 0 /\ ToClear(wire, jobs[j].key, j)
    <3>1. /\ Head(wire) = ClearCall(jobs[j].key, "replace", j)
          /\ \A i \in DOMAIN Tail(wire) : Tail(wire)[i].key # jobs[j].key /\ Tail(wire)[i].job # j
      <4>1. PICK k : k = jobs[j].key
        OBVIOUS
      <4>2. PICK ws \in Seq(MemCalls) : ws = wire
        BY <1>3
      <4>3. ws # <<>> /\ ToClear(ws, k, j) /\ Head(ws).job = j
        BY <1>1, <2>1, <4>1, <4>2
      <4>4. Head(ws) = ClearCall(k, "replace", j) /\ \A i \in DOMAIN Tail(ws) : Tail(ws)[i].key # k /\ Tail(ws)[i].job # j
        BY <4>3, ToClearNow
      <4> QED BY <4>1, <4>2, <4>4
    <3>2. Head(wire).op = "clear"
      BY <3>1 DEF ClearCall
    <3>3. store'[Head(wire).key] = Applied(store[Head(wire).key], Head(wire))
      BY <1>1, <1>4, <1>8
    <3>4. store'[jobs[j].key] = <<>>
      BY <3>2, <3>3 DEF Applied
    <3> QED BY <2>1, <3>1, <3>2, <3>4
  <2>2. CASE Outcome(store[jobs[j].key], wire, jobs[j].key) = jobs[j].view.entries /\ Appends(wire, j)
    <3>1. Appends(Tail(wire), j) /\ Head(wire).op = "append"
      BY <1>1, <1>3, <2>2, AppendsTail
    <3> QED BY <1>5, <1>8, <2>2, <3>1
  <2> QED BY <1>6, <1>8, <2>1, <2>2 DEF Rewrites
<1> QED BY <1>1, <1>4, <1>5, <1>7, <1>8

\* The swap of a replace: its key holds what it has rewritten.
LEMMA SwapMirrors ==
  ASSUME IsJobs(jobs), NEW j \in DOMAIN jobs, jobs[j].kind = "replace", NEW k \in Conversations, k = jobs[j].key,
         NEW es, es = jobs[j].view.entries, NEW b \in MemViews, NEW a \in MemViews,
         NEW vs, vs = Without(Viewing(jobs, k, b, a), j), NEW ws \in Seq(MemCalls), NEW cl \in SUBSET Conversations,
         NEW c, NEW d, NEW t \in [Conversations -> Entries],
         d[k].entries = es, \A i \in Conversations : i # k => d[i] = c[i],
         Alone(jobs, cl), Unclean(jobs, cl),
         \A i \in cl : Replacing(jobs, i) \/ Outcome(t[i], ws, i) = c[i].entries,
         \A i \in DOMAIN jobs : i # j /\ jobs[i].kind = "replace" /\ jobs[i].key \in cl => Rewrites(t, ws, jobs, i),
         k \in cl => Outcome(t[k], ws, k) = es
  PROVE  Mirrors(cl, d, t, Orphaned(ws, j), vs) /\ Alone(vs, cl) /\ Unclean(vs, cl)
<1>1. PICK us : us = Viewing(jobs, k, b, a)
  OBVIOUS
<1>2. /\ SameJobs(us, jobs)
      /\ \A i \in DOMAIN jobs : us[i].view = SeenAs(jobs[i], k, b, a) /\ us[i].left = jobs[i].left /\ us[i].at = jobs[i].at
  <2>1. SameJobs(us, jobs)
    BY <1>1, ViewingFacts
  <2>2. \A i \in DOMAIN jobs : us[i].view = SeenAs(jobs[i], k, b, a) /\ us[i].left = jobs[i].left /\ us[i].at = jobs[i].at
    BY <1>1, ViewingFacts
  <2> QED BY <2>1, <2>2
<1>3. DOMAIN vs = DOMAIN us \ {j} /\ \A i \in DOMAIN vs : vs[i] = us[i]
  BY <1>1 DEF Without
<1>4. /\ DOMAIN vs = DOMAIN jobs \ {j}
      /\ \A i \in DOMAIN vs : /\ vs[i].kind = jobs[i].kind /\ vs[i].key = jobs[i].key /\ vs[i].at = jobs[i].at
                              /\ vs[i].left = jobs[i].left /\ vs[i].view = SeenAs(jobs[i], k, b, a)
  BY <1>2, <1>3 DEF SameJobs
<1>5. Alone(vs, cl)
  BY <1>4 DEF Alone
<1>6. Unclean(vs, cl)
  BY <1>4 DEF Unclean
<1>7. ASSUME NEW i \in cl, ~Replacing(vs, i) PROVE Outcome(t[i], Orphaned(ws, j), i) = d[i].entries
  <2>1. Outcome(t[i], Orphaned(ws, j), i) = Outcome(t[i], ws, i)
    BY OutcomeOrphaned
  <2>2. CASE i = k
    BY <1>7, <2>1, <2>2
  <2>3. CASE i # k
    <3>1. ~Replacing(jobs, i)
      <4>1. \A h \in DOMAIN jobs : jobs[h].key = i => h \in DOMAIN vs /\ vs[h].kind = jobs[h].kind /\ vs[h].key = i
        BY <1>4, <2>3
      <4> QED BY <1>7, <4>1 DEF Replacing
    <3>2. d[i] = c[i]
      BY <2>3
    <3> QED BY <1>7, <2>1, <3>1, <3>2
  <2> QED BY <2>2, <2>3
<1>8. ASSUME NEW i \in DOMAIN vs, vs[i].kind = "replace", vs[i].key \in cl PROVE Rewrites(t, Orphaned(ws, j), vs, i)
  <2>1. i \in DOMAIN jobs /\ i # j /\ jobs[i].kind = "replace" /\ jobs[i].key = vs[i].key
    BY <1>4, <1>8
  <2>2. jobs[i].key # k
    BY <1>8, <2>1 DEF Alone
  <2>3. vs[i].view = jobs[i].view /\ vs[i].at = jobs[i].at
    BY <1>4, <1>8, <2>2 DEF SeenAs
  <2>4. Rewrites(t, ws, jobs, i)
    BY <1>8, <2>1
  <2>5. t[jobs[i].key] \in Entries /\ i \in Nat \ {0} /\ j # i
    BY <1>8, <2>1, JobTypes
  <2>6. Rewrites(t, Orphaned(ws, j), jobs, i)
    BY <2>4, <2>5, RewritesOrphaned
  <2> QED BY <2>1, <2>3, <2>6, RewritesSame
<1>9. Mirrors(cl, d, t, Orphaned(ws, j), vs)
  BY <1>7, <1>8 DEF Mirrors
<1> QED BY <1>5, <1>6, <1>9

\* A replace goes on: after its clear it appends.
GoesOnClean(vs, j, k, es, ws, calls, cl, c, t) ==
  /\ jobs[j].kind = "replace" /\ k = jobs[j].key /\ es = jobs[j].view.entries
  /\ SameJobs(vs, jobs) /\ vs[j].view = jobs[j].view /\ vs[j].left = jobs[j].left
  /\ \A i \in DOMAIN jobs : i # j => vs[i] = jobs[i]
  /\ \A i \in DOMAIN calls : calls[i].key = k /\ calls[i].job = j
  /\ Alone(jobs, cl) /\ Unclean(jobs, cl)
  /\ \A i \in cl : Replacing(jobs, i) \/ Outcome(t[i], ws, i) = c[i].entries
  /\ \A i \in DOMAIN jobs : i # j /\ jobs[i].kind = "replace" /\ jobs[i].key \in cl => Rewrites(t, ws, jobs, i)
  /\ k \in cl => Outcome(t[k], ws \o calls, k) = es /\ Appends(ws \o calls, j)

\* The mirror when a replace goes on.
LEMMA RewriteMirrors ==
  ASSUME IsJobs(jobs), NEW j \in DOMAIN jobs, NEW k \in Conversations, NEW es \in Entries, NEW vs,
         NEW ws \in Seq(MemCalls), NEW calls \in Seq(MemCalls),
         NEW cl \in SUBSET Conversations, NEW c, NEW t \in [Conversations -> Entries],
         GoesOnClean(vs, j, k, es, ws, calls, cl, c, t)
  PROVE  Mirrors(cl, c, t, ws \o calls, vs) /\ Alone(vs, cl) /\ Unclean(vs, cl)
<1> USE DEF GoesOnClean
<1>1. /\ DOMAIN vs = DOMAIN jobs
      /\ \A i \in DOMAIN vs : vs[i].kind = jobs[i].kind /\ vs[i].key = jobs[i].key /\ vs[i].left = jobs[i].left
      /\ \A i \in DOMAIN vs : vs[i].view = jobs[i].view
  BY DEF SameJobs
<1>2. Alone(vs, cl)
  BY <1>1 DEF Alone
<1>3. Unclean(vs, cl)
  BY <1>1 DEF Unclean
<1>4. ASSUME NEW i \in cl, ~Replacing(vs, i) PROVE Outcome(t[i], ws \o calls, i) = c[i].entries
  <2>1. ~Replacing(jobs, i)
    BY <1>1, <1>4 DEF Replacing
  <2>2. i # k
    BY <2>1 DEF Replacing
  <2>3. t[i] \in Entries /\ \A h \in DOMAIN calls : calls[h].key # i
    BY <2>2
  <2>4. Outcome(t[i], ws \o calls, i) = Outcome(t[i], ws, i)
    BY <2>3, OutcomeOthers
  <2> QED BY <1>4, <2>1, <2>4
<1>5. ASSUME NEW i \in DOMAIN vs, vs[i].kind = "replace", vs[i].key \in cl PROVE Rewrites(t, ws \o calls, vs, i)
  <2>1. CASE i = j
    <3>1. k \in cl /\ vs[i].key = k /\ vs[i].view.entries = es
      BY <1>1, <1>5, <2>1
    <3> QED BY <2>1, <3>1 DEF Rewrites
  <2>2. CASE i # j
    <3>1. i \in DOMAIN jobs /\ jobs[i].kind = "replace" /\ jobs[i].key = vs[i].key /\ vs[i] = jobs[i]
      BY <1>1, <1>5, <2>2
    <3>2. jobs[i].key # k
      BY <1>5, <2>2, <3>1 DEF Alone
    <3>3. Rewrites(t, ws, jobs, i) /\ t[jobs[i].key] \in Entries
      BY <1>5, <2>2, <3>1
    <3>4. \A h \in DOMAIN calls : calls[h].key # jobs[i].key /\ calls[h].job # i
      BY <2>2, <3>2
    <3>5. Rewrites(t, ws \o calls, jobs, i)
      BY <3>3, <3>4, RewritesConcat
    <3> QED BY <3>1, <3>5, RewritesSame
  <2> QED BY <2>1, <2>2
<1>6. Mirrors(cl, c, t, ws \o calls, vs)
  BY <1>4, <1>5 DEF Mirrors
<1> QED BY <1>2, <1>3, <1>6

\* The answer to a call of a replace keeps the mirror.
LEMMA ReplaceAnsweredMirror ==
  ASSUME MemCore, MirrorInv, ReplaceAnswered
  PROVE  MirrorInv'
<1>1. PICK ok \in BOOLEAN, j \in DOMAIN jobs, ws \in Seq(MemCalls) :
           /\ CallAnswered("replace", ok) /\ dirty' = dirty
           /\ jobs[j].kind = "replace" /\ Head(wire).job = j /\ Head(wire).key = jobs[j].key
           /\ ws = Tail(wire) /\ Wired(ws, jobs)
           /\ ReplaceSwaps(ok, j, ws) \/ (ok /\ ReplaceGoesOn(j, ws))
  BY ReplaceEffects
<1>2. /\ IsJobs(jobs) /\ cache \in [Conversations -> MemBuckets] /\ clean \subseteq Conversations
      /\ JobsOrdered(jobs, cache, arrived) /\ \A i \in Conversations : cache[i].entries \in Entries
  BY CoreParts
<1>3. dirty \cap clean = {} /\ Unclean(jobs, clean) /\ Alone(jobs, clean) /\ Mirrors(clean, cache, store, wire, jobs)
  BY MirrorParts
<1>4. PICK es \in Entries, k \in Conversations : es = jobs[j].view.entries /\ k = jobs[j].key
  BY <1>2, JobTypes
<1>5. Len(es) <= MaxEntries
  BY <1>1, <1>2, <1>4 DEF JobsOrdered, JobOrdered
<1>6. /\ clean' \subseteq clean /\ (jobs[j].key \in clean' => ok) /\ store' \in [Conversations -> Entries]
      /\ \A i \in clean' : Outcome(store'[i], Tail(wire), i) = Outcome(store[i], wire, i)
      /\ \A i \in DOMAIN jobs : i # j /\ jobs[i].kind = "replace" /\ jobs[i].key \in clean' => Rewrites(store', Tail(wire), jobs, i)
      /\ jobs[j].key \in clean' =>
              \/ /\ jobs[j].at = 0 /\ Head(wire).op = "clear" /\ store'[jobs[j].key] = <<>>
                 /\ \A i \in DOMAIN Tail(wire) : Tail(wire)[i].key # jobs[j].key /\ Tail(wire)[i].job # j
              \/ /\ Head(wire).op = "append" /\ Outcome(store'[jobs[j].key], Tail(wire), jobs[j].key) = jobs[j].view.entries
                 /\ Appends(Tail(wire), j)
  BY <1>1, ReplaceHead
<1>7. PICK cl \in SUBSET clean : cl = clean'
  BY <1>6
<1>8. PICK t \in [Conversations -> Entries] : t = store'
  BY <1>6
<1>9. /\ (k \in cl => ok)
      /\ \A i \in cl : Outcome(t[i], ws, i) = Outcome(store[i], wire, i)
      /\ \A i \in DOMAIN jobs : i # j /\ jobs[i].kind = "replace" /\ jobs[i].key \in cl => Rewrites(t, ws, jobs, i)
  BY <1>1, <1>4, <1>6, <1>7, <1>8
<1>10. k \in cl => \/ /\ jobs[j].at = 0 /\ Head(wire).op = "clear" /\ t[k] = <<>>
                      /\ \A i \in DOMAIN ws : ws[i].key # k /\ ws[i].job # j
                   \/ Head(wire).op = "append" /\ Outcome(t[k], ws, k) = es /\ Appends(ws, j)
  BY <1>1, <1>4, <1>6, <1>7, <1>8
<1>11. Mirrors(cl, cache, store, wire, jobs) /\ Alone(jobs, cl) /\ Unclean(jobs, cl) /\ dirty \cap cl = {} /\ cl \in SUBSET Conversations
  BY <1>2, <1>3, MirrorFewer
<1>12. \A i \in cl : Replacing(jobs, i) \/ Outcome(t[i], ws, i) = cache[i].entries
  BY <1>9, <1>11 DEF Mirrors
<1>13. CASE ReplaceSwaps(ok, j, ws)
  <2>1. /\ cache' = [cache EXCEPT ![k] = [@ EXCEPT !.present = TRUE, !.entries = es]] /\ wire' = Orphaned(ws, j)
        /\ jobs' = Without(Viewing(jobs, k, View("bucket", es), View("none", cache[k].entries)), j)
        /\ ~ok \/ (jobs[j].at + (IF Head(wire).op = "append" THEN 1 ELSE 0)) = Len(es)
    BY <1>4, <1>13 DEF ReplaceSwaps
  <2>2. cache'[k].entries = es /\ \A i \in Conversations : i # k => cache'[i] = cache[i]
    BY <1>2, <2>1, SwappedFacts
  <2>3. PICK b, a \in MemViews : b = View("bucket", es) /\ a = View("none", cache[k].entries)
    BY <1>2, ViewTypes
  <2>4. PICK vs : vs = jobs' /\ vs = Without(Viewing(jobs, k, b, a), j)
    BY <2>1, <2>3
  <2>5. PICK d : d = cache'
    OBVIOUS
  <2>6. ASSUME k \in cl PROVE Outcome(t[k], ws, k) = es
    <3>1. CASE jobs[j].at = 0 /\ Head(wire).op = "clear" /\ t[k] = <<>> /\ \A i \in DOMAIN ws : ws[i].key # k /\ ws[i].job # j
      <4>1. Len(es) = 0
        BY <1>9, <2>1, <2>6, <3>1
      <4>2. es = <<>>
        BY <4>1 DEF Entries
      <4>3. t[k] \in Entries
        OBVIOUS
      <4>4. Outcome(t[k], ws, k) = t[k]
        BY <3>1, <4>3, OutcomeNone
      <4> QED BY <3>1, <4>2, <4>4
    <3> QED BY <1>10, <2>6, <3>1
  <2>7. d[k].entries = es /\ \A i \in Conversations : i # k => d[i] = cache[i]
    BY <2>2, <2>5
  <2>8. jobs[j].kind = "replace" /\ k = jobs[j].key /\ es = jobs[j].view.entries /\ vs = Without(Viewing(jobs, k, b, a), j)
    BY <1>1, <1>4, <2>4
  <2>9. Mirrors(cl, d, t, Orphaned(ws, j), vs) /\ Alone(vs, cl) /\ Unclean(vs, cl)
    BY <1>2, <1>9, <1>11, <1>12, <2>6, <2>7, <2>8, SwapMirrors
  <2> QED BY <1>1, <1>7, <1>8, <1>11, <2>1, <2>4, <2>5, <2>9, SMTT(30) DEF MirrorInv
<1>14. CASE ok /\ ReplaceGoesOn(j, ws)
  <2>1. PICK calls \in Seq(MemCalls) : calls = IF Head(wire).op = "clear" THEN RewriteCalls(j) ELSE <<>>
    <3>1. RewriteCalls(j) \in Seq(MemCalls)
      BY <1>2, RewriteFacts
    <3>2. <<>> \in Seq(MemCalls)
      OBVIOUS
    <3> QED BY <3>1, <3>2
  <2>2. PICK n : n = jobs[j].at + (IF Head(wire).op = "append" THEN 1 ELSE 0)
    OBVIOUS
  <2>3. wire' = ws \o calls /\ jobs' = [jobs EXCEPT ![j].at = n] /\ cache' = cache
    BY <1>14, <2>1, <2>2 DEF ReplaceGoesOn
  <2>4. PICK vs : vs = jobs'
    OBVIOUS
  <2>5. /\ DOMAIN vs = DOMAIN jobs /\ vs[j].view = jobs[j].view /\ vs[j].left = jobs[j].left /\ vs[j].kind = jobs[j].kind
        /\ vs[j].key = jobs[j].key /\ \A i \in DOMAIN jobs : i # j => vs[i] = jobs[i]
    <3>1. jobs = [i \in DOMAIN jobs |-> jobs[i]]
      BY <1>2 DEF IsJobs
    <3>2. PICK job \in MemJobs : job = jobs[j]
      BY <1>2, JobTypes
    <3>3. PICK new : /\ new = [job EXCEPT !.at = n]
                     /\ new.view = job.view /\ new.left = job.left /\ new.kind = job.kind /\ new.key = job.key
      <4>1. LET new == [job EXCEPT !.at = n] IN
              new.view = job.view /\ new.left = job.left /\ new.kind = job.kind /\ new.key = job.key
        BY DEF MemJobs
      <4> QED BY <4>1
    <3>4. DOMAIN vs = DOMAIN jobs /\ vs[j] = new /\ \A i \in DOMAIN jobs : i # j => vs[i] = jobs[i]
      BY <2>3, <2>4, <3>1, <3>2, <3>3
    <3> QED BY <3>2, <3>3, <3>4
  <2>6. SameJobs(vs, jobs)
    BY <2>5 DEF SameJobs
  <2>7. \A i \in DOMAIN calls : calls[i].key = k /\ calls[i].job = j
    BY <1>2, <1>4, <2>1, RewriteFacts
  <2>8. ASSUME k \in cl PROVE Outcome(t[k], ws \o calls, k) = es /\ Appends(ws \o calls, j)
    <3>1. CASE Head(wire).op = "clear" /\ t[k] = <<>> /\ \A i \in DOMAIN ws : ws[i].key # k /\ ws[i].job # j
      <4>1. calls = RewriteCalls(j)
        BY <2>1, <3>1
      <4>2. calls = [i \in 1 .. Len(es) |-> AppendCall(k, es[i], "replace", j)] /\ j \in Nat
        BY <1>2, <1>4, <4>1, JobTypes DEF RewriteCalls
      <4>3. Outcome(<<>>, ws \o calls, k) = es
        BY <1>5, <3>1, <4>2, OutcomeRewritten
      <4>4. Appends(ws, j)
        BY <3>1 DEF Appends
      <4>5. Appends(calls, j)
        BY <1>2, <4>1, RewriteFacts DEF Appends
      <4> QED BY <3>1, <4>3, <4>4, <4>5, AppendsConcat
    <3>2. CASE Head(wire).op = "append" /\ Outcome(t[k], ws, k) = es /\ Appends(ws, j)
      <4>1. calls = <<>>
        BY <2>1, <3>2
      <4>2. ws \o calls = ws
        BY <4>1
      <4> QED BY <3>2, <4>2
    <3> QED BY <1>10, <2>8, <3>1, <3>2
  <2>9. jobs[j].kind = "replace" /\ k = jobs[j].key /\ es = jobs[j].view.entries
    BY <1>1, <1>4
  <2>10. Mirrors(cl, cache, t, ws \o calls, vs) /\ Alone(vs, cl) /\ Unclean(vs, cl)
    <3>1. PICK c : c = cache
      OBVIOUS
    <3>2. /\ SameJobs(vs, jobs) /\ vs[j].view = jobs[j].view /\ vs[j].left = jobs[j].left
          /\ \A i \in DOMAIN jobs : i # j => vs[i] = jobs[i]
      BY <2>5, <2>6
    <3>3. \A i \in cl : Replacing(jobs, i) \/ Outcome(t[i], ws, i) = c[i].entries
      BY <1>12, <3>1
    <3>4. \A i \in DOMAIN jobs : i # j /\ jobs[i].kind = "replace" /\ jobs[i].key \in cl => Rewrites(t, ws, jobs, i)
      BY <1>9
    <3>5. Alone(jobs, cl) /\ Unclean(jobs, cl) /\ cl \in SUBSET Conversations /\ IsJobs(jobs)
      BY <1>2, <1>11
    <3>6. GoesOnClean(vs, j, k, es, ws, calls, cl, c, t)
      BY <2>7, <2>8, <2>9, <3>2, <3>3, <3>4, <3>5 DEF GoesOnClean
    <3>7. Mirrors(cl, c, t, ws \o calls, vs) /\ Alone(vs, cl) /\ Unclean(vs, cl)
      BY <3>5, <3>6, RewriteMirrors
    <3> QED BY <3>1, <3>7
  <2> QED BY <1>1, <1>7, <1>8, <1>11, <2>3, <2>4, <2>10 DEF MirrorInv
<1> QED BY <1>1, <1>13, <1>14

\* Every step keeps the mirror.
LEMMA MirrorStep ==
  ASSUME MemCore, MirrorInv, [MemoryNext]_memoryVars
  PROVE  MirrorInv'
<1>1. CASE MemoryNext
  <2>1. ASSUME NEW k \in Conversations, Add(k) \/ Clear(k) \/ Expire(k) \/ BackendExpires(k) \/ MaybeSummarize(k) \/ Compact(k)
        PROVE  MirrorInv'
    BY <2>1, AddMirror, ClearMirror, ExpireMirror, BackendExpiresMirror, MaybeSummarizeMirror, CompactMirror
  <2>2. ASSUME NEW j \in DOMAIN jobs, ModelAnswers(j)
        PROVE  MirrorInv'
    BY <2>2, DigestMirror, DroppedMirror DEF ModelAnswers
  <2>3. CASE BackendAnswers
    BY <2>3, AddAnsweredMirror, ReplaceAnsweredMirror, ReconcileAnsweredMirror, OtherAnsweredMirror DEF BackendAnswers
  <2>4. CASE Restart
    BY <2>4, RestartMirror
  <2> QED BY <1>1, <2>1, <2>2, <2>3, <2>4 DEF MemoryNext
<1>2. CASE UNCHANGED memoryVars
  <2>1. cache' = cache /\ store' = store /\ dirty' = dirty /\ wire' = wire /\ jobs' = jobs /\ clean' = clean
    BY <1>2 DEF memoryVars
  <2> QED BY <2>1 DEF MirrorInv
<1> QED BY <1>1, <1>2

\* What the run checks of the order and of the mirror.
LEMMA MirrorGives ==
  ASSUME MemCore, MirrorInv
  PROVE  CacheInOrder /\ CleanKeysMirror
<1>1. CacheInOrder
  <2>1. KeysOrdered(cache, store, arrived)
    BY CoreParts
  <2> QED BY <2>1 DEF CacheInOrder, KeysOrdered, KeyOrdered, Rises
<1>2. CleanKeysMirror
  <2>1. Mirrors(clean, cache, store, wire, jobs)
    BY MirrorParts
  <2> QED BY <2>1 DEF CleanKeysMirror, Mirrors, Replacing, Busy
<1> QED BY <1>1, <1>2

\* One more entry: what was covered stays so, and the entry is.
LEMMA CoversMore ==
  ASSUME NEW o \in Entries, Len(o) <= MaxEntries, NEW e \in MemEntry, NEW q, q = LastOf(MaxEntries, Append(o, e))
  PROVE  /\ q \in Entries /\ Len(q) <= MaxEntries
         /\ \A s : Covers(o, s) => Covers(q, s \cup {e})
         /\ \A n \in Nat : Len(o) >= MaxEntries \/ Len(o) >= n => Len(q) >= MaxEntries \/ Len(q) >= n + 1
<1>1. PICK m, x \in Nat : m = Len(o) /\ x = MaxEntries /\ x # 0
  BY MemoryAssumption DEF Entries
<1>2. o \in Seq(MemEntry) /\ Entries = Seq(MemEntry)
  BY DEF Entries, MemEntry
<1>3. PICK p \in Seq(MemEntry) : p = Append(o, e) /\ Len(p) = m + 1 /\ p[m + 1] = e /\ \A i \in 1 .. m : p[i] = o[i]
  <2>1. Append(o, e) \in Seq(MemEntry) /\ Len(Append(o, e)) = m + 1 /\ Append(o, e)[m + 1] = e /\ \A i \in 1 .. m : Append(o, e)[i] = o[i]
    BY <1>1, <1>2, AppendProperties
  <2> QED BY <2>1
<1>4. x \in Nat \ {0} /\ MaxEntries = x
  BY <1>1
<1>5. /\ q \in Seq(MemEntry) /\ Len(q) <= x
      /\ Len(p) <= x => q = p
      /\ Len(p) > x => Len(q) = x
  BY <1>3, <1>4, LastOfFacts
<1>6. CASE m = x
  <2>1. Len(q) = x
    BY <1>1, <1>3, <1>5, <1>6
  <2>2. \A s : Covers(q, s)
    BY <1>1, <2>1 DEF Covers
  <2>3. Len(q) >= MaxEntries
    BY <1>1, <2>1
  <2> QED BY <1>1, <1>2, <1>5, <2>2, <2>3
<1>7. CASE m < x
  <2>1. q = p /\ Len(q) = m + 1
    BY <1>1, <1>3, <1>5, <1>7
  <2>2. ASSUME NEW s, Covers(o, s) PROVE Covers(q, s \cup {e})
    <3>1. s \subseteq Held(o)
      BY <1>1, <1>7, <2>2 DEF Covers
    <3>2. Held(o) \subseteq Held(q)
      <4>1. DOMAIN o = 1 .. m /\ DOMAIN q = 1 .. m + 1 /\ \A i \in 1 .. m : i \in 1 .. m + 1 /\ q[i] = o[i]
        BY <1>1, <1>2, <1>3, <2>1
      <4> QED BY <4>1 DEF Held
    <3>3. e \in Held(q)
      <4>1. m + 1 \in DOMAIN q /\ q[m + 1] = e
        BY <1>1, <1>3, <2>1
      <4> QED BY <4>1 DEF Held
    <3> QED BY <3>1, <3>2, <3>3 DEF Covers
  <2>3. \A n \in Nat : Len(o) >= MaxEntries \/ Len(o) >= n => Len(q) >= n + 1
    BY <1>1, <1>7, <2>1
  <2>4. Len(q) <= MaxEntries
    BY <1>1, <1>5
  <2> QED BY <1>2, <1>5, <2>2, <2>3, <2>4
<1> QED BY <1>1, <1>6, <1>7

\* Covering less.
LEMMA CoversLess ==
  ASSUME NEW o, NEW s, NEW t \in SUBSET s, Covers(o, s)
  PROVE  Covers(o, t)
BY DEF Covers

\* An empty bucket has nothing to repair.
LEMMA RepairingNothing ==
  ASSUME NEW k, NEW o, NEW js, NEW d
  PROVE  Repairing(k, o, <<>>, js, d)
BY DEF Repairing, Covers, Held

\* A reconcile that has sent nothing yet.
LEMMA RestoresBegins ==
  ASSUME NEW job \in MemJobs, NEW o \in Entries, job.at = 0, job.view.live = "bucket"
  PROVE  Restores(job, o)
<1>1. job.view.entries \in Entries
  BY DEF MemJobs, MemViews
<1>2. \A i \in DOMAIN job.view.entries : ~(i <= 0)
  BY <1>1 DEF Entries
<1>3. Resent(job) = {}
  BY <1>2 DEF Resent
<1>4. Len(o) >= 0
  BY DEF Entries
<1> QED BY <1>3, <1>4 DEF Restores, Covers

\* The calls and the operations of reconciles, when one of them turns to a key.
LEMMA NextKeyRepairs ==
  ASSUME MemCore, NEW j \in Nat \ {0}, NEW left \in SUBSET Conversations, NEW dl, NEW sent \in Seq(MemCalls),
         NEW s \in [Conversations -> Entries], \A k \in Conversations : Len(s[k]) <= MaxEntries,
         Wired(sent, jobs), \A i \in DOMAIN sent : sent[i].job # j, Reconciling(sent, jobs),
         \A k \in Conversations : Repairing(k, Outcome(s[k], sent, k), cache[k].entries, Without(jobs, j), dl),
         NextKey(j, left, dl, sent)
  PROVE  Reconciling(wire', jobs') /\ KeysRepaired(cache, s, wire', jobs', dirty')
<1>1. /\ IsJobs(jobs) /\ cache \in [Conversations -> MemBuckets] /\ KeysOrdered(cache, store, arrived)
  BY CoreParts
<1>2. PICK gone \in SUBSET left :
           /\ \A k \in gone : ~cache[k].present
           /\ dirty' = dl \ gone
           /\ \/ left = gone /\ jobs' = Without(jobs, j) /\ wire' = sent
              \/ \E k \in left \ gone, job \in MemJobs, w \in MemCalls : TurnsTo(j, k, left, gone, sent, job, w)
  BY <1>1, NextKeyEffects DEF Turns
<1>3. \A k \in gone : cache[k].entries = <<>>
  BY <1>1, <1>2 DEF KeysOrdered, KeyOrdered
<1>4. PICK rest : rest = Without(jobs, j) /\ DOMAIN rest = DOMAIN jobs \ {j} /\ \A i \in DOMAIN rest : rest[i] = jobs[i]
  <2>1. DOMAIN Without(jobs, j) = DOMAIN jobs \ {j} /\ \A i \in DOMAIN Without(jobs, j) : Without(jobs, j)[i] = jobs[i]
    BY DEF Without
  <2> QED BY <2>1
<1>5. \A i \in DOMAIN sent : sent[i].by = "reconcile" => sent[i].job \in DOMAIN rest
  BY <1>4 DEF Wired, Owned
<1>6. Reconciling(sent, rest)
  BY <1>4, <1>5 DEF Reconciling
<1>7. CASE left = gone /\ jobs' = Without(jobs, j) /\ wire' = sent
  <2>1. \A k \in Conversations : Repairing(k, Outcome(s[k], sent, k), cache[k].entries, rest, dl \ gone)
    <3> SUFFICES ASSUME NEW k \in Conversations PROVE Repairing(k, Outcome(s[k], sent, k), cache[k].entries, rest, dl \ gone)
      OBVIOUS
    <3>1. CASE k \in gone
      BY <1>3, <3>1, RepairingNothing
    <3>2. CASE k \notin gone
      <4>1. Repairing(k, Outcome(s[k], sent, k), cache[k].entries, rest, dl)
        BY <1>4
      <4> QED BY <3>2, <4>1 DEF Repairing
    <3> QED BY <3>1, <3>2
  <2> QED BY <1>2, <1>4, <1>6, <1>7, <2>1 DEF KeysRepaired
<1>8. ASSUME NEW k \in left \ gone, NEW job \in MemJobs, NEW w \in MemCalls, TurnsTo(j, k, left, gone, sent, job, w)
      PROVE  Reconciling(wire', jobs') /\ KeysRepaired(cache, s, wire', jobs', dirty')
  <2>1. /\ job.kind = "reconcile" /\ job.key = k /\ job.view.live = "bucket" /\ job.at = 0
        /\ jobs' = With(jobs, j, job) /\ w = ClearCall(k, "reconcile", j) /\ wire' = Append(sent, w)
    BY <1>8 DEF TurnsTo
  <2>2. PICK vs : /\ vs = jobs' /\ DOMAIN vs = DOMAIN rest \cup {j} /\ vs[j] = job /\ j \notin DOMAIN rest
                  /\ \A i \in DOMAIN rest : vs[i] = rest[i]
    <3>1. /\ DOMAIN With(jobs, j, job) = DOMAIN jobs \cup {j} /\ With(jobs, j, job)[j] = job
          /\ \A i \in DOMAIN jobs : i # j => With(jobs, j, job)[i] = jobs[i]
      BY DEF With
    <3>2. \A i \in DOMAIN rest : i \in DOMAIN jobs /\ i # j /\ rest[i] = jobs[i]
      BY <1>4
    <3>3. DOMAIN With(jobs, j, job) = DOMAIN rest \cup {j} /\ j \notin DOMAIN rest
      BY <1>4, <3>1
    <3> QED BY <2>1, <3>1, <3>2, <3>3
  <2>3. w.key = k /\ w.job = j /\ w.by = "reconcile"
    BY <2>1 DEF ClearCall
  <2>4. Reconciling(Append(sent, w), vs)
    <3>1. \A i \in DOMAIN vs : vs[i].kind = "reconcile" /\ (vs[i].view.live = "bucket" => vs[i].at = 0)
      BY <1>6, <2>1, <2>2 DEF Reconciling
    <3>2. ASSUME NEW i \in DOMAIN Append(sent, w)
          PROVE  /\ Append(sent, w)[i].by \in {"add", "reconcile"}
                 /\ Append(sent, w)[i].by = "reconcile" /\ Append(sent, w)[i].op = "clear" => vs[Append(sent, w)[i].job].at = 0
      <4>1. CASE i \in DOMAIN sent
        <5>1. Append(sent, w)[i] = sent[i]
          BY <4>1, AppendProperties
        <5> QED BY <1>5, <1>6, <2>2, <4>1, <5>1 DEF Reconciling
      <4>2. CASE i \notin DOMAIN sent
        <5>1. Append(sent, w)[i] = w
          BY <4>2, AppendProperties
        <5> QED BY <2>1, <2>2, <2>3, <5>1
      <4> QED BY <4>1, <4>2
    <3> QED BY <3>1, <3>2 DEF Reconciling
  <2>5. ASSUME NEW i \in Conversations PROVE Repairing(i, Outcome(s[i], Append(sent, w), i), cache[i].entries, vs, dl \ gone)
    <3>1. CASE i \in gone
      BY <1>3, <3>1, RepairingNothing
    <3>2. CASE i = k
      <4>1. Append(sent, w) \in Seq(MemCalls) /\ s[k] \in Entries /\ Len(s[k]) <= MaxEntries
        BY <1>8
      <4>2. Outcome(s[k], Append(sent, w), k) \in Entries
        BY <4>1, OutcomeType
      <4>3. Restores(job, Outcome(s[k], Append(sent, w), k))
        BY <2>1, <4>2, RestoresBegins
      <4>4. j \in DOMAIN vs /\ vs[j] = job
        BY <2>2
      <4>5. \E h \in DOMAIN vs : vs[h].key = k /\ Restores(vs[h], Outcome(s[k], Append(sent, w), k))
        BY <2>1, <4>3, <4>4
      <4> QED BY <3>2, <4>5 DEF Repairing
    <3>3. CASE i \notin gone /\ i # k
      <4>1. PICK o : o = Outcome(s[i], sent, i)
        OBVIOUS
      <4>2. Outcome(s[i], Append(sent, w), i) = o
        <5>1. s[i] \in Entries
          OBVIOUS
        <5>2. Outcome(s[i], Append(sent, w), i) = IF w.key = i THEN Applied(Outcome(s[i], sent, i), w) ELSE Outcome(s[i], sent, i)
          BY <5>1, OutcomeAppend
        <5> QED BY <2>3, <3>3, <4>1, <5>2
      <4>3. Repairing(i, o, cache[i].entries, rest, dl)
        BY <1>4, <4>1
      <4>4. Repairing(i, o, cache[i].entries, vs, dl \ gone)
        <5>1. CASE Covers(o, Held(cache[i].entries))
          BY <5>1 DEF Repairing
        <5>2. CASE \E h \in DOMAIN rest : rest[h].key = i /\ Restores(rest[h], o)
          <6>1. \E h \in DOMAIN vs : vs[h].key = i /\ Restores(vs[h], o)
            BY <2>2, <5>2
          <6> QED BY <6>1 DEF Repairing
        <5>3. CASE i \in dl /\ \A h \in DOMAIN rest : rest[h].key # i
          <6>1. \A h \in DOMAIN vs : vs[h].key # i
            BY <2>1, <2>2, <3>3, <5>3
          <6> QED BY <3>3, <5>3, <6>1 DEF Repairing
        <5> QED BY <4>3, <5>1, <5>2, <5>3 DEF Repairing
      <4> QED BY <4>2, <4>4
    <3> QED BY <3>1, <3>2, <3>3
  <2> QED BY <1>2, <2>1, <2>2, <2>4, <2>5 DEF KeysRepaired
<1> QED BY <1>2, <1>7, <1>8

\* The last entries of a sequence and one more are the sequence's, or that one.
LEMMA HeldLast ==
  ASSUME NEW s \in Entries, NEW e \in MemEntry, NEW n \in Nat \ {0}
  PROVE  Held(LastOf(n, Append(s, e))) \subseteq Held(s) \cup {e}
<1>1. PICK m \in Nat : m = Len(s) /\ DOMAIN s = 1 .. m
  BY DEF Entries
<1>2. s \in Seq(MemEntry)
  BY DEF Entries, MemEntry
<1>3. PICK p \in Seq(MemEntry) : p = Append(s, e) /\ Len(p) = m + 1 /\ p[m + 1] = e /\ \A i \in 1 .. m : p[i] = s[i]
  <2>1. Append(s, e) \in Seq(MemEntry) /\ Len(Append(s, e)) = m + 1 /\ Append(s, e)[m + 1] = e /\ \A i \in 1 .. m : Append(s, e)[i] = s[i]
    BY <1>1, <1>2, AppendProperties
  <2> QED BY <2>1
<1>4. Held(p) \subseteq Held(s) \cup {e}
  <2>1. \A i \in DOMAIN p : i \in 1 .. m \/ i = m + 1
    BY <1>3
  <2> QED BY <1>1, <1>3, <2>1 DEF Held
<1>5. Held(LastOf(n, p)) \subseteq Held(p)
  <2>1. /\ LastOf(n, p) \in Seq(MemEntry)
        /\ Len(p) <= n => LastOf(n, p) = p
        /\ Len(p) > n => /\ Len(LastOf(n, p)) = n
                         /\ \A i \in 1 .. n : LastOf(n, p)[i] = p[Len(p) - n + i]
    BY LastOfFacts
  <2>2. CASE Len(p) > n
    <3>1. DOMAIN LastOf(n, p) = 1 .. n
      BY <2>1, <2>2
    <3>2. \A i \in 1 .. n : Len(p) - n + i \in DOMAIN p
      BY <2>2
    <3> QED BY <2>1, <2>2, <3>1, <3>2 DEF Held
  <2>3. Len(p) <= n \/ Len(p) > n
    OBVIOUS
  <2> QED BY <2>1, <2>2, <2>3
<1> QED BY <1>3, <1>4, <1>5

\* A reconcile when its key has one more entry.
LEMMA RestoresAdded ==
  ASSUME NEW o \in Entries, Len(o) <= MaxEntries, NEW e \in MemEntry, NEW q, q = LastOf(MaxEntries, Append(o, e)),
         NEW job \in MemJobs, NEW new \in MemJobs, new.at = job.at, Restores(job, o),
         \/ new.view = job.view
         \/ new.at = 0 /\ new.view.live = "bucket"
         \/ new.view.entries = Append(job.view.entries, e) /\ (new.view.live = "none" => Len(new.view.entries) > MaxEntries)
  PROVE  Restores(new, q)
<1>1. /\ q \in Entries /\ Len(q) <= MaxEntries
      /\ \A s : Covers(o, s) => Covers(q, s \cup {e})
      /\ \A n \in Nat : Len(o) >= MaxEntries \/ Len(o) >= n => Len(q) >= MaxEntries \/ Len(q) >= n + 1
  BY CoversMore
<1>2. job.at \in Nat /\ job.view.entries \in Seq(MemEntry) /\ Len(q) \in Nat /\ MaxEntries \in Nat
  BY <1>1, MemoryAssumption DEF MemJobs, MemViews, Entries, MemEntry
<1>3. Covers(o, Resent(job)) /\ (Len(o) >= MaxEntries \/ Len(o) >= job.at)
  BY DEF Restores
<1>4. Len(q) >= MaxEntries \/ Len(q) >= new.at
  <2>1. Len(q) >= MaxEntries \/ Len(q) >= job.at + 1
    BY <1>1, <1>2, <1>3
  <2> QED BY <1>2, <2>1
<1>5. Covers(q, Resent(job) \cup {e})
  BY <1>1, <1>3
<1>6. CASE new.view = job.view
  <2>1. Resent(new) = Resent(job)
    BY <1>6 DEF Resent
  <2>2. Covers(q, Resent(new))
    BY <1>5, <2>1, CoversLess
  <2>3. new.view.live = "none" => Len(new.view.entries) > MaxEntries
    BY <1>6 DEF Restores
  <2> QED BY <1>4, <2>2, <2>3 DEF Restores
<1>7. CASE new.at = 0 /\ new.view.live = "bucket"
  BY <1>1, <1>7, RestoresBegins
<1>8. CASE new.view.entries = Append(job.view.entries, e) /\ (new.view.live = "none" => Len(new.view.entries) > MaxEntries)
  <2>1. PICK v \in Seq(MemEntry), m \in Nat : v = job.view.entries /\ m = Len(v) /\ DOMAIN v = 1 .. m
    BY <1>2
  <2>2. PICK u : u = new.view.entries
    OBVIOUS
  <2>3. DOMAIN u = 1 .. m + 1 /\ u[m + 1] = e /\ \A i \in 1 .. m : u[i] = v[i]
    BY <1>8, <2>1, <2>2, AppendProperties
  <2>4. Resent(new) \subseteq Resent(job) \cup {e}
    <3>1. ASSUME NEW i \in DOMAIN u, i <= new.at PROVE u[i] \in Resent(job) \cup {e}
      <4>1. CASE i \in 1 .. m
        <5>1. i \in {h \in DOMAIN v : h <= job.at} /\ u[i] = v[i]
          BY <2>1, <2>3, <3>1, <4>1
        <5> QED BY <2>1, <5>1 DEF Resent
      <4>2. CASE i \notin 1 .. m
        <5>1. i = m + 1
          BY <2>3, <3>1, <4>2
        <5> QED BY <2>3, <5>1
      <4> QED BY <4>1, <4>2
    <3> QED BY <2>2, <3>1 DEF Resent
  <2>5. Covers(q, Resent(new))
    BY <1>5, <2>4, CoversLess
  <2> QED BY <1>4, <1>8, <2>5 DEF Restores
<1> QED BY <1>6, <1>7, <1>8

\* The backend will hold one more entry of a key.
LEMMA RepairingMore ==
  ASSUME NEW k, NEW o \in Entries, Len(o) <= MaxEntries, NEW e \in MemEntry, NEW q, q = LastOf(MaxEntries, Append(o, e)),
         NEW s, NEW u, Held(u) \subseteq Held(s) \cup {e}, NEW js, NEW vs, SameJobs(vs, js), NEW d,
         \A j \in DOMAIN js : js[j].key = k /\ Restores(js[j], o) => Restores(vs[j], q),
         Repairing(k, o, s, js, d)
  PROVE  Repairing(k, q, u, vs, d)
<1>1. CASE Covers(o, Held(s))
  <2>1. Covers(q, Held(s) \cup {e})
    BY <1>1, CoversMore
  <2>2. Covers(q, Held(u))
    BY <2>1, CoversLess
  <2> QED BY <2>2 DEF Repairing
<1>2. CASE \E j \in DOMAIN js : js[j].key = k /\ Restores(js[j], o)
  <2>1. \E j \in DOMAIN vs : vs[j].key = k /\ Restores(vs[j], q)
    BY <1>2 DEF SameJobs
  <2> QED BY <2>1 DEF Repairing
<1>3. CASE k \in d /\ \A j \in DOMAIN js : js[j].key # k
  BY <1>3 DEF Repairing, SameJobs
<1> QED BY <1>1, <1>2, <1>3 DEF Repairing

\* The other keys.
LEMMA RepairingOthers ==
  ASSUME NEW k, NEW o, NEW s, NEW js, NEW vs, SameJobs(vs, js), NEW d,
         \A j \in DOMAIN js : js[j].key = k => vs[j] = js[j],
         Repairing(k, o, s, js, d)
  PROVE  Repairing(k, o, s, vs, d)
<1>1. CASE \E j \in DOMAIN js : js[j].key = k /\ Restores(js[j], o)
  <2>1. \E j \in DOMAIN vs : vs[j].key = k /\ Restores(vs[j], o)
    BY <1>1 DEF SameJobs
  <2> QED BY <2>1 DEF Repairing
<1>2. CASE k \in d /\ \A j \in DOMAIN js : js[j].key # k
  BY <1>2 DEF Repairing, SameJobs
<1> QED BY <1>1, <1>2 DEF Repairing

\* What the backend will hold of each key.
LEMMA OutcomesType ==
  ASSUME MemCore, NEW k \in Conversations
  PROVE  Outcome(store[k], wire, k) \in Entries /\ Len(Outcome(store[k], wire, k)) <= MaxEntries
<1>1. store \in [Conversations -> Entries] /\ wire \in Seq(MemCalls) /\ Len(store[k]) <= MaxEntries
  BY CoreParts DEF KeysOrdered, KeyOrdered
<1>2. store[k] \in Entries
  BY <1>1
<1> QED BY <1>1, <1>2, OutcomeType

\* A push keeps the repair.
LEMMA AddRepair ==
  ASSUME MemCore, RepairInv, NEW k \in Conversations, Add(k), OneFault'
  PROVE  /\ faults' = 0 => dirty' = {} /\ DOMAIN jobs' = {}
         /\ Reconciling(wire', jobs') /\ KeysRepaired(cache', store', wire', jobs', dirty')
<1>1. store' = store /\ dirty' = dirty /\ faults' = faults /\ digests' = digests /\ clears' = clears /\ restarts' = restarts /\ expiries' = expiries
  BY DEF Add
<1>2. (faults = 0 => dirty = {} /\ DOMAIN jobs = {}) /\ Reconciling(wire, jobs) /\ KeysRepaired(cache, store, wire, jobs, dirty)
  BY <1>1 DEF RepairInv, OneFault
<1>3. PICK p, q \in Entries :
           /\ p = Append(cache[k].entries, arrived + 1) /\ q = LastOf(MaxEntries, p)
           /\ Rises(p, arrived + 1) /\ Rises(q, arrived + 1) /\ Len(p) = Len(cache[k].entries) + 1 /\ Len(q) <= MaxEntries
           /\ cache' \in [Conversations -> MemBuckets] /\ cache'[k].entries = q /\ cache'[k].present
           /\ \A i \in Conversations : i # k => cache'[i] = cache[i]
           /\ arrived' = arrived + 1 /\ arrived + 1 \in 0 .. MaxMessages
           /\ jobs' = Viewing(jobs, k, View("bucket", q), View(IF q = p THEN "array" ELSE "none", p))
           /\ wire' = Append(wire, AppendCall(k, arrived + 1, "add", 0)) /\ AppendCall(k, arrived + 1, "add", 0) \in MemCalls
  BY AddEffects
<1>4. /\ IsJobs(jobs) /\ wire \in Seq(MemCalls) /\ store \in [Conversations -> Entries] /\ cache \in [Conversations -> MemBuckets]
      /\ \A i \in Conversations : cache[i].entries \in Entries
      /\ Wired(wire, jobs)
  BY CoreParts
<1>5. PICK w \in MemCalls : w = AppendCall(k, arrived + 1, "add", 0)
  BY <1>3
<1>6. w.key = k /\ w.job = 0 /\ w.op = "append" /\ w.by = "add" /\ w.entry = arrived + 1
  BY <1>5 DEF AppendCall
<1>7. PICK e \in MemEntry : e = arrived + 1 /\ e = w.entry
  BY <1>6 DEF MemCalls
<1>8. (IF q = p THEN "array" ELSE "none") \in {"bucket", "array", "none"}
  OBVIOUS
<1>9. PICK b \in MemViews : b = View("bucket", q) /\ b.live = "bucket"
  BY ViewTypes
<1>10. PICK a \in MemViews : a = View(IF q = p THEN "array" ELSE "none", p) /\ a.entries = p /\ a.live = (IF q = p THEN "array" ELSE "none")
  BY <1>8, ViewTypes
<1>11. a.live = "none" => Len(p) > MaxEntries
  <2>1. p \in Seq(MemEntry) /\ MaxEntries \in Nat \ {0} /\ Len(p) \in Nat
    BY MemoryAssumption DEF Entries, MemEntry
  <2>2. Len(p) <= MaxEntries => LastOf(MaxEntries, p) = p
    BY <2>1, LastOfFacts
  <2>3. ASSUME Len(p) <= MaxEntries PROVE a.live = "array"
    <3>1. q = p
      BY <1>3, <2>2, <2>3
    <3> QED BY <1>10, <3>1
  <2>4. Len(p) <= MaxEntries \/ Len(p) > MaxEntries
    BY <2>1
  <2> QED BY <2>3, <2>4
<1>12. PICK vs : vs = Viewing(jobs, k, b, a)
  OBVIOUS
<1>13. IsJobs(vs) /\ SameJobs(vs, jobs)
  BY <1>4, <1>12, ViewingFacts
<1>14. \A j \in DOMAIN jobs : vs[j].view = SeenAs(jobs[j], k, b, a) /\ vs[j].left = jobs[j].left /\ vs[j].at = jobs[j].at
  BY <1>4, <1>12, ViewingFacts
<1>15. jobs' = vs /\ wire' = Append(wire, w)
  BY <1>3, <1>5, <1>9, <1>10, <1>12
<1>16. \A j \in DOMAIN jobs : jobs[j].view.live = "bucket" => jobs[j].at = 0
  BY <1>2 DEF Reconciling
<1>17. Reconciling(Append(wire, w), vs)
  <2>1. ASSUME NEW j \in DOMAIN vs PROVE vs[j].kind = "reconcile" /\ (vs[j].view.live = "bucket" => vs[j].at = 0)
    <3>1. j \in DOMAIN jobs /\ vs[j].kind = jobs[j].kind /\ vs[j].at = jobs[j].at /\ vs[j].view = SeenAs(jobs[j], k, b, a)
      BY <1>13, <1>14 DEF SameJobs
    <3>2. vs[j].view.live = "bucket" => jobs[j].view.live = "bucket"
      BY <1>10, <3>1 DEF SeenAs
    <3> QED BY <1>2, <3>1, <3>2 DEF Reconciling
  <2>2. ASSUME NEW i \in DOMAIN Append(wire, w)
        PROVE  /\ Append(wire, w)[i].by \in {"add", "reconcile"}
               /\ Append(wire, w)[i].by = "reconcile" /\ Append(wire, w)[i].op = "clear" => vs[Append(wire, w)[i].job].at = 0
    <3>1. CASE i \in DOMAIN wire
      <4>1. Append(wire, w)[i] = wire[i]
        BY <1>4, <3>1, AppendProperties
      <4>2. wire[i].by = "reconcile" => wire[i].job \in DOMAIN jobs
        BY <1>4, <3>1 DEF Wired, Owned
      <4> QED BY <1>2, <1>14, <3>1, <4>1, <4>2 DEF Reconciling
    <3>2. CASE i \notin DOMAIN wire
      <4>1. Append(wire, w)[i] = w
        BY <1>4, <3>2, AppendProperties
      <4> QED BY <1>6, <4>1
    <3> QED BY <3>1, <3>2
  <2> QED BY <2>1, <2>2 DEF Reconciling
<1>18. ASSUME NEW i \in Conversations PROVE Repairing(i, Outcome(store[i], Append(wire, w), i), cache'[i].entries, vs, dirty)
  <2>1. PICK o \in Entries : o = Outcome(store[i], wire, i) /\ Len(o) <= MaxEntries
    BY OutcomesType
  <2>2. Repairing(i, o, cache[i].entries, jobs, dirty)
    BY <1>2, <2>1 DEF KeysRepaired
  <2>3. Outcome(store[i], Append(wire, w), i) = IF w.key = i THEN Applied(o, w) ELSE o
    <3>1. store[i] \in Entries
      BY <1>4
    <3> QED BY <1>4, <2>1, <3>1, OutcomeAppend
  <2>4. CASE i = k
    <3>1. PICK r : r = LastOf(MaxEntries, Append(o, e)) /\ r = Outcome(store[k], Append(wire, w), k)
      BY <1>6, <1>7, <2>3, <2>4 DEF Applied
    <3>2. MaxEntries \in Nat \ {0} /\ cache[k].entries \in Entries
      BY <1>4, MemoryAssumption
    <3>3. q = LastOf(MaxEntries, Append(cache[k].entries, e)) /\ p = Append(cache[k].entries, e)
      BY <1>3, <1>7
    <3>4. Held(q) \subseteq Held(cache[k].entries) \cup {e}
      BY <3>2, <3>3, HeldLast
    <3>5. DOMAIN vs = DOMAIN jobs
      BY <1>13 DEF SameJobs
    <3>6. ASSUME NEW j \in DOMAIN jobs, jobs[j].key = k, Restores(jobs[j], o) PROVE Restores(vs[j], r)
      <4>1. PICK job \in MemJobs : job = jobs[j]
        BY <1>4, JobTypes
      <4>2. PICK new \in MemJobs : new = vs[j]
        BY <1>13, <3>5, JobTypes
      <4>3. job.view.live # "none" => job.view.entries = cache[k].entries
        <5>1. JobsOrdered(jobs, cache, arrived)
          BY CoreParts
        <5>2. JobOrdered(jobs[j], cache[k], arrived)
          BY <3>6, <5>1 DEF JobsOrdered
        <5> QED BY <4>1, <5>2 DEF JobOrdered
      <4>4. new.at = job.at /\ Restores(job, o)
        BY <1>14, <3>6, <4>1, <4>2
      <4>5. new.view = IF job.view.live = "bucket" THEN b ELSE IF job.view.live = "array" THEN a ELSE job.view
        BY <1>14, <3>6, <4>1, <4>2 DEF SeenAs
      <4>6. \/ new.view = job.view
            \/ new.at = 0 /\ new.view.live = "bucket"
            \/ new.view.entries = Append(job.view.entries, e) /\ (new.view.live = "none" => Len(new.view.entries) > MaxEntries)
        <5>1. CASE job.view.live = "bucket"
          <6>1. new.view = b
            BY <4>5, <5>1, Zenon
          <6>2. job.at = 0
            BY <1>16, <4>1, <5>1, Zenon
          <6>3. new.view.live = "bucket"
            BY <1>9, <6>1
          <6> QED BY <4>4, <6>2, <6>3
        <5>2. CASE job.view.live = "array"
          <6>1. new.view = a /\ job.view.entries = cache[k].entries
            BY <4>3, <4>5, <5>2
          <6> QED BY <1>10, <1>11, <3>3, <6>1
        <5>3. CASE job.view.live # "bucket" /\ job.view.live # "array"
          BY <4>5, <5>3
        <5> QED BY <5>1, <5>2, <5>3
      <4>7. r = LastOf(MaxEntries, Append(o, e)) /\ Len(o) <= MaxEntries
        BY <2>1, <3>1
      <4>8. Restores(new, r)
        BY <4>4, <4>6, <4>7, RestoresAdded
      <4> QED BY <4>2, <4>8
    <3>7. Repairing(k, r, q, vs, dirty)
      BY <1>13, <2>1, <2>2, <2>4, <3>1, <3>4, <3>6, RepairingMore
    <3> QED BY <1>3, <2>4, <3>1, <3>7
  <2>5. CASE i # k
    <3>1. \A j \in DOMAIN jobs : jobs[j].key = i => vs[j] = jobs[j]
      BY <1>12, <2>5 DEF Viewing
    <3>2. Repairing(i, o, cache[i].entries, vs, dirty)
      BY <1>13, <2>2, <3>1, RepairingOthers
    <3> QED BY <1>3, <1>6, <2>3, <2>5, <3>2
  <2> QED BY <2>4, <2>5
<1>19. faults = 0 => DOMAIN vs = {}
  BY <1>2, <1>13 DEF SameJobs
<1> QED BY <1>1, <1>2, <1>15, <1>17, <1>18, <1>19 DEF KeysRepaired

\* The calls that are left when the first is answered.
LEMMA ReconcilingTail ==
  ASSUME NEW ws \in Seq(MemCalls), ws # <<>>, NEW js, Reconciling(ws, js)
  PROVE  Reconciling(Tail(ws), js) /\ Head(ws).by \in {"add", "reconcile"}
         /\ (Head(ws).by = "reconcile" /\ Head(ws).op = "clear" => js[Head(ws).job].at = 0)
<1>1. PICK m \in Nat, u \in Seq(MemCalls) :
           u = Tail(ws) /\ DOMAIN ws = 1 .. m + 1 /\ DOMAIN u = 1 .. m /\ Head(ws) = ws[1] /\ \A i \in 1 .. m : u[i] = ws[i + 1]
  BY TailFacts
<1>2. \A i \in 1 .. m : i + 1 \in 1 .. m + 1
  OBVIOUS
<1>3. Reconciling(u, js)
  BY <1>1, <1>2 DEF Reconciling
<1>4. 1 \in DOMAIN ws
  BY <1>1
<1> QED BY <1>1, <1>3, <1>4 DEF Reconciling

\* The keys when the first call is answered well.
LEMMA RepairedTail ==
  ASSUME MemCore, NEW by, CallAnswered(by, TRUE), KeysRepaired(cache, store, wire, jobs, dirty)
  PROVE  /\ KeysRepaired(cache, store', Tail(wire), jobs, dirty)
         /\ \A k \in Conversations : /\ Outcome(store'[k], Tail(wire), k) = Outcome(store[k], wire, k)
                                     /\ Outcome(store'[k], Tail(wire), k) \in Entries
                                     /\ Len(Outcome(store'[k], Tail(wire), k)) <= MaxEntries
<1>1. \A k \in Conversations : Outcome(store'[k], Tail(wire), k) = Outcome(store[k], wire, k)
  <2>1. TRUE \in BOOLEAN /\ MemTypes /\ MemWired
    BY DEF MemCore
  <2>2. \A k \in Conversations : TRUE \/ k # Head(wire).key => Outcome(store'[k], Tail(wire), k) = Outcome(store[k], wire, k)
    BY <2>1, Answered
  <2> QED BY <2>2
<1>2. \A k \in Conversations : Outcome(store[k], wire, k) \in Entries /\ Len(Outcome(store[k], wire, k)) <= MaxEntries
  BY OutcomesType
<1> QED BY <1>1, <1>2 DEF KeysRepaired

\* The answer to an add keeps the repair.
LEMMA AddAnsweredRepair ==
  ASSUME MemCore, RepairInv, AddAnswered, OneFault'
  PROVE  /\ faults' = 0 => dirty' = {} /\ DOMAIN jobs' = {}
         /\ Reconciling(wire', jobs') /\ KeysRepaired(cache', store', wire', jobs', dirty')
<1>1. PICK ok \in BOOLEAN :
        /\ CallAnswered("add", ok)
        /\ IF ok /\ dirty # {} THEN NextKey(FreeJob, dirty, dirty, Tail(wire))
           ELSE /\ dirty' = IF ok THEN dirty ELSE Marked(Head(wire).key)
                /\ wire' = Tail(wire) /\ UNCHANGED jobs
  BY DEF AddAnswered
<1>2. cache' = cache /\ MemTypes /\ MemWired /\ IsJobs(jobs) /\ dirty \subseteq Conversations /\ wire \in Seq(MemCalls)
  BY CoreParts DEF AddAnswered
<1>3. /\ wire # <<>> /\ Head(wire) \in MemCalls
      /\ Tail(wire) \in Seq(MemCalls) /\ Wired(Tail(wire), jobs)
      /\ (ok => faults' = faults) /\ (~ok => faults' = faults + 1)
      /\ digests' = digests /\ clears' = clears /\ restarts' = restarts /\ expiries' = expiries
  BY <1>1, <1>2, Answered
<1>4. store' \in [Conversations -> Entries] /\ \A i \in Conversations : Len(store[i]) <= MaxEntries => Len(store'[i]) <= MaxEntries
  BY <1>1, AnsweredTypes
<1>5. \A i \in Conversations : Len(store[i]) <= MaxEntries
  BY CoreParts DEF KeysOrdered, KeyOrdered
<1>6. faults \in Nat
  BY <1>2 DEF MemTypes
<1>7. OneFault
  <2>1. faults <= 1
    BY <1>3, <1>6 DEF OneFault
  <2> QED BY <1>3, <2>1 DEF OneFault
<1>8. (faults = 0 => dirty = {} /\ DOMAIN jobs = {}) /\ Reconciling(wire, jobs) /\ KeysRepaired(cache, store, wire, jobs, dirty)
  BY <1>7 DEF RepairInv
<1>9. Reconciling(Tail(wire), jobs)
  BY <1>2, <1>3, <1>8, ReconcilingTail
<1>10. CASE ok /\ dirty # {}
  <2>1. CallAnswered("add", TRUE)
    <3>1. ok = TRUE
      BY <1>10
    <3> QED BY <1>1, <3>1
  <2>2. KeysRepaired(cache, store', Tail(wire), jobs, dirty)
    BY <1>8, <2>1, RepairedTail
  <2>3. PICK j \in Nat \ {0} : j = FreeJob /\ j \notin DOMAIN jobs
    BY <1>2, FreeJobFacts
  <2>4. PICK s \in [Conversations -> Entries] : s = store' /\ \A k \in Conversations : Len(s[k]) <= MaxEntries
    BY <1>4, <1>5
  <2>5. PICK ws \in Seq(MemCalls) : ws = Tail(wire)
    BY <1>3
  <2>6. NextKey(j, dirty, dirty, ws) /\ dirty \in SUBSET Conversations
    BY <1>1, <1>2, <1>10, <2>3, <2>5
  <2>7. \A i \in DOMAIN ws : ws[i].job # j
    BY <1>3, <2>3, <2>5, WiredFree
  <2>8. ASSUME NEW k \in Conversations PROVE Repairing(k, Outcome(s[k], ws, k), cache[k].entries, Without(jobs, j), dirty)
    <3>1. Repairing(k, Outcome(s[k], ws, k), cache[k].entries, jobs, dirty)
      BY <2>2, <2>4, <2>5 DEF KeysRepaired
    <3>2. DOMAIN Without(jobs, j) = DOMAIN jobs /\ \A i \in DOMAIN jobs : Without(jobs, j)[i] = jobs[i]
      BY <2>3 DEF Without
    <3> QED BY <3>1, <3>2 DEF Repairing
  <2>9. Wired(ws, jobs) /\ Reconciling(ws, jobs)
    BY <1>3, <1>9, <2>5
  <2>10. Reconciling(wire', jobs') /\ KeysRepaired(cache, s, wire', jobs', dirty')
    BY <2>4, <2>6, <2>7, <2>8, <2>9, NextKeyRepairs
  <2>11. faults' # 0
    BY <1>3, <1>8, <1>10
  <2> QED BY <1>2, <2>4, <2>10, <2>11
<1>11. CASE ok /\ dirty = {}
  <2>1. CallAnswered("add", TRUE)
    <3>1. ok = TRUE
      BY <1>11
    <3> QED BY <1>1, <3>1
  <2>2. KeysRepaired(cache, store', Tail(wire), jobs, dirty)
    BY <1>8, <2>1, RepairedTail
  <2>3. dirty' = dirty /\ wire' = Tail(wire) /\ jobs' = jobs
    BY <1>1, <1>11
  <2> QED BY <1>2, <1>3, <1>8, <1>9, <1>11, <2>2, <2>3
<1>12. CASE ~ok
  <2>1. dirty' = dirty \cup {Head(wire).key} /\ wire' = Tail(wire) /\ jobs' = jobs
    BY <1>1, <1>12 DEF Marked
  <2>2. faults = 0 /\ faults' # 0
    BY <1>3, <1>6, <1>12 DEF OneFault
  <2>3. dirty = {} /\ DOMAIN jobs = {}
    BY <1>8, <2>2
  <2>4. ASSUME NEW k \in Conversations PROVE Repairing(k, Outcome(store'[k], Tail(wire), k), cache[k].entries, jobs, dirty')
    <3>1. CASE k = Head(wire).key
      BY <2>1, <2>3, <3>1 DEF Repairing
    <3>2. CASE k # Head(wire).key
      <4>1. Outcome(store'[k], Tail(wire), k) = Outcome(store[k], wire, k)
        BY <1>1, <1>2, <3>2, Answered
      <4>2. Repairing(k, Outcome(store[k], wire, k), cache[k].entries, jobs, dirty)
        BY <1>8 DEF KeysRepaired
      <4> QED BY <2>3, <4>1, <4>2 DEF Repairing
    <3> QED BY <3>1, <3>2
  <2> QED BY <1>2, <1>9, <2>1, <2>2, <2>4 DEF KeysRepaired
<1> QED BY <1>10, <1>11, <1>12

\* A reconcile that sends its next entry.
LEMMA RestoresGoesOn ==
  ASSUME NEW o \in Entries, Len(o) <= MaxEntries, NEW job \in MemJobs, NEW new, Restores(job, o),
         NEW es \in Entries, es = job.view.entries, NEW n \in 1 .. Len(es), n = job.at + 1,
         NEW e \in MemEntry, e = es[n], NEW q, q = LastOf(MaxEntries, Append(o, e)),
         new.at = n, new.view.entries = es, new.view.live = "none" => job.view.live = "none"
  PROVE  Restores(new, q)
<1>1. /\ q \in Entries /\ Len(q) <= MaxEntries
      /\ \A s : Covers(o, s) => Covers(q, s \cup {e})
      /\ \A m \in Nat : Len(o) >= MaxEntries \/ Len(o) >= m => Len(q) >= MaxEntries \/ Len(q) >= m + 1
  BY CoversMore
<1>2. job.at \in Nat
  BY DEF MemJobs
<1>3. Covers(o, Resent(job)) /\ (Len(o) >= MaxEntries \/ Len(o) >= job.at) /\ (job.view.live = "none" => Len(es) > MaxEntries)
  BY DEF Restores
<1>4. Len(q) >= MaxEntries \/ Len(q) >= new.at
  <2>1. Len(q) >= MaxEntries \/ Len(q) >= job.at + 1
    BY <1>1, <1>2, <1>3
  <2> QED BY <2>1
<1>5. Resent(new) \subseteq Resent(job) \cup {e}
  <2>1. ASSUME NEW i \in DOMAIN es, i <= n PROVE es[i] \in Resent(job) \cup {e}
    <3>1. CASE i = n
      BY <3>1
    <3>2. CASE i # n
      <4>1. i <= job.at
        <5>1. i \in Nat
          BY DEF Entries
        <5> QED BY <1>2, <2>1, <3>2, <5>1
      <4> QED BY <4>1 DEF Resent
    <3> QED BY <3>1, <3>2
  <2>2. Resent(new) = {es[i] : i \in {h \in DOMAIN es : h <= n}}
    BY DEF Resent
  <2> QED BY <2>1, <2>2
<1>6. Covers(q, Resent(new))
  <2>1. Covers(q, Resent(job) \cup {e})
    BY <1>1, <1>3
  <2> QED BY <1>5, <2>1, CoversLess
<1> QED BY <1>3, <1>4, <1>6 DEF Restores

\* A reconcile that has sent all it has: its key is as it should be.
LEMMA RestoresEnds ==
  ASSUME NEW o \in Entries, Len(o) <= MaxEntries, NEW job \in MemJobs, Restores(job, o),
         NEW es \in Entries, es = job.view.entries, Len(es) <= job.at,
         NEW s, job.view.live # "none" => es = s
  PROVE  Covers(o, Held(s))
<1>1. PICK m, x, a, l \in Nat : m = Len(es) /\ x = MaxEntries /\ a = job.at /\ l = Len(o) /\ m <= a /\ l <= x
  <2>1. Len(es) \in Nat /\ MaxEntries \in Nat /\ job.at \in Nat /\ Len(o) \in Nat
    BY MemoryAssumption DEF Entries, MemJobs
  <2> QED BY <2>1
<1>2. Covers(o, Resent(job)) /\ (l >= x \/ l >= a) /\ (job.view.live = "none" => m > x)
  BY <1>1 DEF Restores
<1>3. CASE job.view.live = "none"
  <2>1. l = x
    BY <1>1, <1>2, <1>3
  <2> QED BY <1>1, <2>1 DEF Covers
<1>4. CASE job.view.live # "none"
  <2>1. \A i \in DOMAIN es : i <= job.at
    <3>1. DOMAIN es = 1 .. m
      BY <1>1 DEF Entries
    <3> QED BY <1>1, <3>1
  <2>2. {h \in DOMAIN es : h <= job.at} = DOMAIN es
    BY <2>1
  <2>3. Resent(job) = {es[i] : i \in DOMAIN es}
    BY <2>2 DEF Resent
  <2> QED BY <1>2, <1>4, <2>3 DEF Held
<1> QED BY <1>3, <1>4

\* The answer to a call of a reconcile keeps the repair.
LEMMA ReconcileAnsweredRepair ==
  ASSUME MemCore, RepairInv, ReconcileAnswered, OneFault'
  PROVE  /\ faults' = 0 => dirty' = {} /\ DOMAIN jobs' = {}
         /\ Reconciling(wire', jobs') /\ KeysRepaired(cache', store', wire', jobs', dirty')
<1>1. PICK ok \in BOOLEAN, j \in DOMAIN jobs, ws \in Seq(MemCalls) :
           /\ CallAnswered("reconcile", ok) /\ cache' = cache
           /\ jobs[j].kind = "reconcile" /\ Head(wire).job = j /\ Head(wire).key = jobs[j].key
           /\ ws = Tail(wire) /\ Wired(ws, jobs) /\ \A i \in DOMAIN ws : ws[i].job # j
           /\ \/ ok /\ \E job \in MemJobs : ReconcileGoesOn(j, ws, job)
              \/ ReconcileTurns(ok, j, ws)
  BY ReconcileEffects
<1>2. MemTypes /\ MemWired /\ IsJobs(jobs) /\ dirty \subseteq Conversations /\ wire \in Seq(MemCalls) /\ JobsOrdered(jobs, cache, arrived)
  BY CoreParts
<1>3. /\ wire # <<>> /\ Head(wire).by = "reconcile"
      /\ (ok => faults' = faults) /\ (~ok => faults' = faults + 1)
      /\ digests' = digests /\ clears' = clears /\ restarts' = restarts /\ expiries' = expiries
  BY <1>1, <1>2, Answered
<1>4. store' \in [Conversations -> Entries] /\ \A i \in Conversations : Len(store[i]) <= MaxEntries => Len(store'[i]) <= MaxEntries
  BY <1>1, AnsweredTypes
<1>5. \A i \in Conversations : Len(store[i]) <= MaxEntries
  BY CoreParts DEF KeysOrdered, KeyOrdered
<1>6. faults \in Nat
  BY <1>2 DEF MemTypes
<1>7. OneFault
  <2>1. faults <= 1
    BY <1>3, <1>6 DEF OneFault
  <2> QED BY <1>3, <2>1 DEF OneFault
<1>8. (faults = 0 => dirty = {} /\ DOMAIN jobs = {}) /\ Reconciling(wire, jobs) /\ KeysRepaired(cache, store, wire, jobs, dirty)
  BY <1>7 DEF RepairInv
<1>9. ok = TRUE /\ faults' # 0
  <2>1. faults # 0
    BY <1>8
  <2> QED BY <1>3, <1>6, <2>1 DEF OneFault
<1>10. CallAnswered("reconcile", TRUE)
  BY <1>1, <1>9
<1>11. Reconciling(ws, jobs) /\ (Head(wire).op = "clear" => jobs[j].at = 0)
  BY <1>1, <1>2, <1>3, <1>8, ReconcilingTail
<1>12. PICK s \in [Conversations -> Entries] : s = store' /\ \A k \in Conversations : Len(s[k]) <= MaxEntries
  BY <1>4, <1>5
<1>13. /\ KeysRepaired(cache, s, ws, jobs, dirty)
       /\ \A k \in Conversations : Outcome(s[k], ws, k) \in Entries /\ Len(Outcome(s[k], ws, k)) <= MaxEntries
  BY <1>1, <1>8, <1>10, <1>12, RepairedTail
<1>14. PICK es \in Entries, k \in Conversations : es = jobs[j].view.entries /\ k = jobs[j].key
  BY <1>2, JobTypes
<1>15. PICK old \in MemJobs : old = jobs[j] /\ old.at \in Nat /\ j \in Nat \ {0} /\ old.left \in SUBSET Conversations
  BY <1>2, JobTypes
<1>16. NextAt(j) = old.at + 1
  BY <1>11, <1>15 DEF NextAt
<1>17. ASSUME NEW job \in MemJobs, ReconcileGoesOn(j, ws, job)
       PROVE  Reconciling(wire', jobs') /\ KeysRepaired(cache, s, wire', jobs', dirty')
  <2>1. PICK n \in 1 .. Len(es) : n = NextAt(j)
    BY <1>14, <1>17 DEF ReconcileGoesOn
  <2>2. /\ jobs' = [jobs EXCEPT ![j] = job] /\ job.kind = "reconcile" /\ job.key = k /\ job.at = n
        /\ job.view.entries = es
        /\ job.view.live = IF old.view.live = "bucket" THEN "array" ELSE old.view.live
        /\ wire' = Append(ws, AppendCall(k, es[n], "reconcile", j)) /\ dirty' = dirty
    BY <1>14, <1>15, <1>17, <2>1 DEF ReconcileGoesOn
  <2>3. PICK vs : vs = jobs' /\ DOMAIN vs = DOMAIN jobs /\ vs[j] = job /\ \A i \in DOMAIN jobs : i # j => vs[i] = jobs[i]
    <3>1. jobs = [i \in DOMAIN jobs |-> jobs[i]]
      BY <1>2 DEF IsJobs
    <3>2. DOMAIN jobs' = DOMAIN jobs /\ jobs'[j] = job /\ \A i \in DOMAIN jobs : i # j => jobs'[i] = jobs[i]
      BY <2>2, <3>1
    <3> QED BY <3>2
  <2>4. SameJobs(vs, jobs)
    BY <1>1, <1>14, <2>2, <2>3 DEF SameJobs
  <2>5. PICK e \in MemEntry : e = es[n]
    BY DEF Entries, MemEntry
  <2>6. PICK w \in MemCalls : w = AppendCall(k, e, "reconcile", j)
    <3>1. AppendCall(k, e, "reconcile", j) \in MemCalls
      BY <1>15 DEF AppendCall, MemCalls
    <3> QED BY <3>1
  <2>7. w.by = "reconcile" /\ w.job = j /\ w.key = k /\ w.op = "append" /\ w.entry = e
    BY <2>6 DEF AppendCall
  <2>8. wire' = Append(ws, w)
    BY <2>2, <2>5, <2>6
  <2>9. Reconciling(Append(ws, w), vs)
    <3>1. ASSUME NEW i \in DOMAIN vs PROVE vs[i].kind = "reconcile" /\ (vs[i].view.live = "bucket" => vs[i].at = 0)
      <4>1. CASE i = j
        BY <2>2, <2>3, <4>1
      <4>2. CASE i # j
        BY <1>8, <2>3, <4>2 DEF Reconciling
      <4> QED BY <4>1, <4>2
    <3>2. ASSUME NEW i \in DOMAIN Append(ws, w)
          PROVE  /\ Append(ws, w)[i].by \in {"add", "reconcile"}
                 /\ Append(ws, w)[i].by = "reconcile" /\ Append(ws, w)[i].op = "clear" => vs[Append(ws, w)[i].job].at = 0
      <4>1. CASE i \in DOMAIN ws
        <5>1. Append(ws, w)[i] = ws[i]
          BY <4>1, AppendProperties
        <5>2. ws[i].job # j /\ (ws[i].by = "reconcile" => ws[i].job \in DOMAIN jobs)
          BY <1>1, <4>1 DEF Wired, Owned
        <5> QED BY <1>11, <2>3, <4>1, <5>1, <5>2 DEF Reconciling
      <4>2. CASE i \notin DOMAIN ws
        <5>1. Append(ws, w)[i] = w
          BY <4>2, AppendProperties
        <5> QED BY <2>7, <5>1
      <4> QED BY <4>1, <4>2
    <3> QED BY <3>1, <3>2 DEF Reconciling
  <2>10. ASSUME NEW i \in Conversations PROVE Repairing(i, Outcome(s[i], Append(ws, w), i), cache[i].entries, vs, dirty)
    <3>1. PICK o \in Entries : o = Outcome(s[i], ws, i) /\ Len(o) <= MaxEntries
      BY <1>13
    <3>2. Repairing(i, o, cache[i].entries, jobs, dirty)
      BY <1>13, <3>1 DEF KeysRepaired
    <3>3. Outcome(s[i], Append(ws, w), i) = IF w.key = i THEN Applied(o, w) ELSE o
      <4>1. s[i] \in Entries
        OBVIOUS
      <4> QED BY <3>1, <4>1, OutcomeAppend
    <3>4. CASE i = k
      <4>1. PICK r : r = LastOf(MaxEntries, Append(o, e)) /\ r = Outcome(s[i], Append(ws, w), i)
        BY <2>7, <3>3, <3>4 DEF Applied
      <4>2. ASSUME NEW h \in DOMAIN jobs, jobs[h].key = i, Restores(jobs[h], o) PROVE Restores(vs[h], r)
        <5>1. CASE h = j
          <6>1. /\ Restores(old, o) /\ es = old.view.entries /\ n = old.at + 1 /\ job.at = n /\ job.view.entries = es
                /\ (job.view.live = "none" => old.view.live = "none")
            BY <1>14, <1>15, <1>16, <2>1, <2>2, <4>2, <5>1
          <6>2. Restores(job, r)
            BY <2>5, <3>1, <4>1, <6>1, RestoresGoesOn
          <6> QED BY <2>3, <5>1, <6>2
        <5>2. CASE h # j
          <6>1. PICK one \in MemJobs : one = jobs[h] /\ one = vs[h]
            BY <1>2, <2>3, <5>2, JobTypes
          <6>2. Restores(one, o)
            BY <4>2, <6>1
          <6>3. Restores(one, r)
            BY <3>1, <4>1, <6>2, RestoresAdded
          <6> QED BY <6>1, <6>3
        <5> QED BY <5>1, <5>2
      <4>3. PICK u : u = cache[i].entries /\ Held(u) \subseteq Held(u) \cup {e}
        OBVIOUS
      <4>4. PICK d : d = dirty
        OBVIOUS
      <4>5. Repairing(i, o, u, jobs, d) /\ r = LastOf(MaxEntries, Append(o, e)) /\ Len(o) <= MaxEntries
        BY <3>1, <3>2, <4>1, <4>3, <4>4
      <4>6. Repairing(i, r, u, vs, d)
        BY <2>4, <4>2, <4>3, <4>5, RepairingMore
      <4> QED BY <4>1, <4>3, <4>4, <4>6
    <3>5. CASE i # k
      <4>1. \A h \in DOMAIN jobs : jobs[h].key = i => vs[h] = jobs[h]
        BY <1>14, <2>3, <3>5
      <4>2. Repairing(i, o, cache[i].entries, vs, dirty)
        BY <2>4, <3>2, <4>1, RepairingOthers
      <4> QED BY <2>7, <3>3, <3>5, <4>2
    <3> QED BY <3>4, <3>5
  <2> QED BY <2>2, <2>3, <2>8, <2>9, <2>10 DEF KeysRepaired
<1>18. ASSUME ReconcileTurns(ok, j, ws)
       PROVE  Reconciling(wire', jobs') /\ KeysRepaired(cache, s, wire', jobs', dirty')
  <2>1. PICK left \in SUBSET Conversations : left = jobs[j].left
    BY <1>15
  <2>2. PICK dl : dl = dirty \ {k}
    OBVIOUS
  <2>3. NextKey(j, left, dl, ws) /\ NextAt(j) > Len(es)
    BY <1>9, <1>14, <1>18, <2>1, <2>2 DEF ReconcileTurns
  <2>4. Len(es) <= old.at
    <3>1. Len(es) \in Nat
      BY DEF Entries
    <3> QED BY <1>15, <1>16, <2>3, <3>1
  <2>5. ASSUME NEW i \in Conversations PROVE Repairing(i, Outcome(s[i], ws, i), cache[i].entries, Without(jobs, j), dl)
    <3>1. PICK o \in Entries : o = Outcome(s[i], ws, i) /\ Len(o) <= MaxEntries
      BY <1>13
    <3>2. Repairing(i, o, cache[i].entries, jobs, dirty)
      BY <1>13, <3>1 DEF KeysRepaired
    <3>3. DOMAIN Without(jobs, j) = DOMAIN jobs \ {j} /\ \A h \in DOMAIN jobs : h # j => Without(jobs, j)[h] = jobs[h]
      BY DEF Without
    <3>4. PICK rest : rest = Without(jobs, j) /\ DOMAIN rest = DOMAIN jobs \ {j} /\ \A h \in DOMAIN jobs : h # j => rest[h] = jobs[h]
      BY <3>3
    <3>5. CASE Covers(o, Held(cache[i].entries))
      BY <3>1, <3>5 DEF Repairing
    <3>6. ASSUME NEW h \in DOMAIN jobs, jobs[h].key = i, Restores(jobs[h], o)
          PROVE  Repairing(i, o, cache[i].entries, rest, dl)
      <4>1. CASE h # j
        <5>1. h \in DOMAIN rest /\ rest[h] = jobs[h]
          BY <3>4, <4>1
        <5> QED BY <3>6, <5>1 DEF Repairing
      <4>2. CASE h = j
        <5>1. i = k /\ Restores(old, o) /\ es = old.view.entries
          BY <1>14, <1>15, <3>6, <4>2
        <5>2. JobOrdered(jobs[j], cache[k], arrived)
          BY <1>2, <1>14 DEF JobsOrdered
        <5>3. old.view.live # "none" => es = cache[i].entries
          BY <1>14, <1>15, <5>1, <5>2 DEF JobOrdered
        <5>4. Covers(o, Held(cache[i].entries))
          BY <2>4, <3>1, <5>1, <5>3, RestoresEnds
        <5> QED BY <5>4 DEF Repairing
      <4> QED BY <4>1, <4>2
    <3>7. CASE i \in dirty /\ \A h \in DOMAIN jobs : jobs[h].key # i
      <4>1. i \in dl
        BY <1>14, <2>2, <3>7
      <4>2. \A h \in DOMAIN rest : rest[h].key # i
        BY <3>4, <3>7
      <4>3. Repairing(i, o, cache[i].entries, rest, dl)
        BY <4>1, <4>2 DEF Repairing
      <4> QED BY <3>1, <3>4, <4>3
    <3> QED BY <3>1, <3>2, <3>4, <3>5, <3>6, <3>7 DEF Repairing
  <2>6. Wired(ws, jobs) /\ Reconciling(ws, jobs) /\ j \in Nat \ {0} /\ \A i \in DOMAIN ws : ws[i].job # j
    BY <1>1, <1>11, <1>15
  <2>7. Reconciling(wire', jobs') /\ KeysRepaired(cache, s, wire', jobs', dirty')
    BY <1>12, <2>3, <2>5, <2>6, NextKeyRepairs
  <2> QED BY <2>7
<1>19. Reconciling(wire', jobs') /\ KeysRepaired(cache, s, wire', jobs', dirty')
  <2>1. (\E job \in MemJobs : ReconcileGoesOn(j, ws, job)) \/ ReconcileTurns(ok, j, ws)
    BY <1>1
  <2>2. CASE \E job \in MemJobs : ReconcileGoesOn(j, ws, job)
    <3>1. PICK job \in MemJobs : ReconcileGoesOn(j, ws, job)
      BY <2>2
    <3> QED BY <1>17, <3>1
  <2> QED BY <1>18, <2>1, <2>2
<1>20. cache' = cache /\ faults' # 0 /\ s = store'
  BY <1>1, <1>9, <1>12
<1> QED BY <1>19, <1>20

\* The other steps are none of those that the repair is about.
LEMMA OtherStepsRepair ==
  ASSUME MemCore, RepairInv, MemoryNext, OneFault'
  PROVE  \/ \E k \in Conversations : Add(k) \/ (MaybeSummarize(k) /\ digests' = digests /\ jobs' = jobs)
         \/ AddAnswered \/ ReconcileAnswered
<1>1. MemTypes /\ MemWired /\ {digests, clears, faults, restarts, expiries} \subseteq Nat
  BY CoreParts DEF MemTypes
<1>2. /\ \A k \in Conversations : Clear(k) => clears' = clears + 1
      /\ \A k \in Conversations : Expire(k) \/ BackendExpires(k) => expiries' = expiries + 1
      /\ \A k \in Conversations : Compact(k) => digests' = digests + 1
      /\ Restart => restarts' = restarts + 1
  BY DEF Clear, Expire, BackendExpires, Quiet, Compact, Digesting, Restart
<1>3. \A k \in Conversations : MaybeSummarize(k) => digests' = digests + 1 \/ (digests' = digests /\ jobs' = jobs)
  BY DEF MaybeSummarize, Digesting
<1>4. digests' = 0 /\ clears' = 0 /\ restarts' = 0 /\ expiries' = 0
  BY DEF OneFault
<1>5. ASSUME NEW n \in Nat PROVE 0 # n + 1
  OBVIOUS
<1>6. ASSUME NEW k \in Conversations, Add(k) \/ Clear(k) \/ Expire(k) \/ BackendExpires(k) \/ MaybeSummarize(k) \/ Compact(k)
      PROVE  Add(k) \/ (MaybeSummarize(k) /\ digests' = digests /\ jobs' = jobs)
  <2>1. ~Clear(k) /\ ~Expire(k) /\ ~BackendExpires(k) /\ ~Compact(k)
    BY <1>1, <1>2, <1>4, <1>5
  <2>2. MaybeSummarize(k) => digests' = digests /\ jobs' = jobs
    BY <1>1, <1>3, <1>4, <1>5
  <2> QED BY <1>6, <2>1, <2>2, Zenon
<1>7. ~Restart
  BY <1>1, <1>2, <1>4, <1>5
<1>8. ASSUME OneFault PROVE (\A j \in DOMAIN jobs : ~ModelAnswers(j)) /\ ~ReplaceAnswered /\ ~OtherAnswered
  <2>1. Reconciling(wire, jobs)
    BY <1>8 DEF RepairInv
  <2>2. \A j \in DOMAIN jobs : jobs[j].kind # "digest"
    BY <2>1 DEF Reconciling
  <2>3. \A j \in DOMAIN jobs : ~ModelAnswers(j)
    BY <2>2 DEF ModelAnswers, DigestAnswered, DigestDropped
  <2>4. ASSUME NEW by \in {"replace", "clear", "none"}, NEW ok \in BOOLEAN, CallAnswered(by, ok) PROVE FALSE
    <3>1. Head(wire).by = by /\ Head(wire) = wire[1] /\ 1 \in DOMAIN wire
      BY <1>1, <2>4, Answered
    <3> QED BY <2>1, <3>1 DEF Reconciling
  <2> QED BY <2>3, <2>4 DEF ReplaceAnswered, OtherAnswered
<1>9. ASSUME NEW j \in DOMAIN jobs, ModelAnswers(j) PROVE FALSE
  <2>1. digests' = digests /\ clears' = clears /\ restarts' = restarts /\ expiries' = expiries /\ faults' = faults
    BY <1>9 DEF ModelAnswers, DigestAnswered, DigestDropped
  <2>2. OneFault
    BY <2>1 DEF OneFault
  <2> QED BY <1>8, <1>9, <2>2
<1>10. ASSUME BackendAnswers PROVE AddAnswered \/ ReconcileAnswered
  <2>1. PICK by, ok : ok \in BOOLEAN /\ CallAnswered(by, ok)
    BY <1>10 DEF BackendAnswers, AddAnswered, ReplaceAnswered, ReconcileAnswered, OtherAnswered
  <2>2. /\ (ok => faults' = faults) /\ (~ok => faults' = faults + 1)
        /\ digests' = digests /\ clears' = clears /\ restarts' = restarts /\ expiries' = expiries
    BY <1>1, <2>1, Answered
  <2>3. faults <= 1
    BY <1>1, <2>2 DEF OneFault
  <2>4. OneFault
    BY <2>2, <2>3 DEF OneFault
  <2>5. AddAnswered \/ ReconcileAnswered \/ ReplaceAnswered \/ OtherAnswered
    BY <1>10, Zenon DEF BackendAnswers
  <2>6. ~ReplaceAnswered /\ ~OtherAnswered
    BY <1>8, <2>4, Zenon
  <2> QED BY <2>5, <2>6, Zenon
<1> QED BY <1>6, <1>7, <1>9, <1>10 DEF MemoryNext

\* Every step keeps the repair.
LEMMA RepairStep ==
  ASSUME MemCore, RepairInv, [MemoryNext]_memoryVars
  PROVE  RepairInv'
<1> SUFFICES ASSUME OneFault'
             PROVE  /\ faults' = 0 => dirty' = {} /\ DOMAIN jobs' = {}
                    /\ Reconciling(wire', jobs') /\ KeysRepaired(cache', store', wire', jobs', dirty')
  BY DEF RepairInv
<1>1. ASSUME NEW k \in Conversations, Add(k)
      PROVE  /\ faults' = 0 => dirty' = {} /\ DOMAIN jobs' = {}
             /\ Reconciling(wire', jobs') /\ KeysRepaired(cache', store', wire', jobs', dirty')
  BY <1>1, AddRepair
<1>2. CASE AddAnswered
  BY <1>2, AddAnsweredRepair
<1>3. CASE ReconcileAnswered
  BY <1>3, ReconcileAnsweredRepair
<1>4. ASSUME \A k \in Conversations : cache'[k].entries = cache[k].entries,
             store' = store, wire' = wire, jobs' = jobs, dirty' = dirty, faults' = faults, digests' = digests,
             clears' = clears, restarts' = restarts, expiries' = expiries
      PROVE  /\ faults' = 0 => dirty' = {} /\ DOMAIN jobs' = {}
             /\ Reconciling(wire', jobs') /\ KeysRepaired(cache', store', wire', jobs', dirty')
  <2>1. OneFault
    BY <1>4 DEF OneFault
  <2>2. (faults = 0 => dirty = {} /\ DOMAIN jobs = {}) /\ Reconciling(wire, jobs) /\ KeysRepaired(cache, store, wire, jobs, dirty)
    BY <2>1 DEF RepairInv
  <2>3. KeysRepaired(cache', store, wire, jobs, dirty)
    BY <1>4, <2>2 DEF KeysRepaired
  <2> QED BY <1>4, <2>2, <2>3
<1>5. ASSUME NEW k \in Conversations, MaybeSummarize(k), digests' = digests, jobs' = jobs
      PROVE  /\ faults' = 0 => dirty' = {} /\ DOMAIN jobs' = {}
             /\ Reconciling(wire', jobs') /\ KeysRepaired(cache', store', wire', jobs', dirty')
  <2>1. cache \in [Conversations -> MemBuckets] /\ cache' = [cache EXCEPT ![k].needsSummary = FALSE]
    BY <1>5, CoreParts DEF MaybeSummarize
  <2>2. \A i \in Conversations : cache'[i].entries = cache[i].entries
    BY <2>1, UnflaggedFacts
  <2>3. store' = store /\ wire' = wire /\ dirty' = dirty /\ faults' = faults /\ clears' = clears /\ restarts' = restarts /\ expiries' = expiries
    BY <1>5 DEF MaybeSummarize, Digesting
  <2> QED BY <1>4, <1>5, <2>2, <2>3
<1>6. CASE MemoryNext
  BY <1>1, <1>2, <1>3, <1>5, <1>6, OtherStepsRepair
<1>7. CASE UNCHANGED memoryVars
  <2>1. /\ cache' = cache /\ store' = store /\ wire' = wire /\ jobs' = jobs /\ dirty' = dirty /\ faults' = faults
        /\ digests' = digests /\ clears' = clears /\ restarts' = restarts /\ expiries' = expiries
    BY <1>7 DEF memoryVars
  <2> QED BY <1>4, <2>1
<1> QED BY <1>6, <1>7

\* The repair at the start.
LEMMA RepairInit ==
  ASSUME MemoryInit
  PROVE  RepairInv
<1>1. /\ cache = [k \in Conversations |-> NoBucket] /\ dirty = {} /\ wire = <<>> /\ jobs = <<>>
  BY DEF MemoryInit
<1>2. DOMAIN jobs = {} /\ DOMAIN wire = {}
  BY <1>1
<1>3. Reconciling(wire, jobs)
  BY <1>2 DEF Reconciling
<1>4. \A k \in Conversations : cache[k].entries = <<>>
  BY <1>1, NoBucketFacts
<1>5. KeysRepaired(cache, store, wire, jobs, dirty)
  BY <1>4, RepairingNothing DEF KeysRepaired
<1> QED BY <1>1, <1>2, <1>3, <1>5 DEF RepairInv

\* What the run checks of the repair.
LEMMA RepairGives ==
  ASSUME MemCore, RepairInv
  PROVE  NothingMissing
<1> SUFFICES ASSUME MemorySettled, OneFault, NEW k \in Conversations, k \notin dirty
             PROVE  Len(store[k]) = MaxEntries \/ Held(cache[k].entries) \subseteq Held(store[k])
  BY DEF NothingMissing, OneFault
<1>1. wire \in Seq(MemCalls) /\ store[k] \in Entries
  BY CoreParts
<1>2. DOMAIN wire = {} /\ DOMAIN jobs = {}
  BY DEF MemorySettled
<1>3. Outcome(store[k], wire, k) = store[k]
  BY <1>1, <1>2, OutcomeNone
<1>4. Repairing(k, Outcome(store[k], wire, k), cache[k].entries, jobs, dirty)
  BY DEF RepairInv, KeysRepaired
<1> QED BY <1>2, <1>3, <1>4 DEF Repairing, Covers

\* The two copies of a conversation agree, whatever the number of conversations,
\* messages, entries kept, digests, failures, restarts and expiries, and however
\* the answers of the backend and of the model interleave with the calls.
THEOREM CopiesStayInAgreement == MemoryInit /\ [][MemoryNext]_memoryVars => []CopiesAgree
<1>1. MemoryInit => MemInv
  BY CoreInit, MirrorInit, RepairInit DEF MemInv
<1>2. MemInv /\ [MemoryNext]_memoryVars => MemInv'
  BY CoreStep, MirrorStep, RepairStep DEF MemInv
<1>3. MemInv => CopiesAgree
  BY MirrorGives, RepairGives DEF MemInv, CopiesAgree
<1> QED BY <1>1, <1>2, <1>3, PTL

=============================================================================
