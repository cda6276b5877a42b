---------------------------- MODULE InProcessProofs ----------------------------
(***************************************************************************)
(* What parts of one process promise to whoever waits in them, for any     *)
(* agents, weights and cooldown, tasks and limits, messages and delays,    *)
(* members and proposals, servers and tools: an agent rests for its whole  *)
(* cooldown, a summary waits for calls that are under way, a batch is      *)
(* whole, an accepted vote counts, and a tool answers for itself.          *)
(***************************************************************************)
EXTENDS MCInProcess, ConcurrencyGovernorProofs, SequenceTheorems, FiniteSetTheorems,
        WellFoundedInduction, TLAPS

-----------------------------------------------------------------------------
(* The circuit breaker.  BreakerInv relates the entry of an agent to its    *)
(* history: the time it is disabled for to the time since its last trip,    *)
(* and the counted errors to the streak of errors.                          *)

\* A missing entry is like a new one, and only tripped ones are disabled.
EntryInv(a) ==
  /\ a \notin known => errors[a] = 0 /\ left[a] = 0 /\ ~ tripped[a]
  /\ left[a] > 0 => tripped[a]
  /\ errors[a] >= Threshold => tripped[a]

HistoryInv(a) ==
  /\ left[a] + sinceTrip[a] = Cooldown
  /\ errors[a] <= streak[a] \/ streak[a] = Threshold

BreakerInv == BreakerTypeOK /\ \A a \in Agents : EntryInv(a) /\ HistoryInv(a)

\* It holds at the start,
LEMMA BreakerStart == BreakerInit => BreakerInv
BY BreakerAssumption DEF BreakerInit, BreakerInv, BreakerTypeOK, EntryInv, HistoryInv

\* and every step keeps it.
LEMMA BreakerSteps == BreakerInv /\ [BreakerNext]_breakerVars => BreakerInv'
<1> SUFFICES ASSUME BreakerInv, [BreakerNext]_breakerVars PROVE BreakerInv'
  OBVIOUS
<1> USE BreakerAssumption DEF BreakerInv, BreakerTypeOK
<1>1. ASSUME NEW r \in Requests, Admit(r) PROVE BreakerInv'
  BY <1>1 DEF Admit, Recover, EntryInv, HistoryInv
<1>2. ASSUME NEW r \in Requests, RecordSuccess(r) PROVE BreakerInv'
  BY <1>2 DEF RecordSuccess, EntryInv, HistoryInv
<1>3. ASSUME NEW r \in Requests, NEW c \in Categories, RecordError(r, c) PROVE BreakerInv'
  <2> DEFINE b == AgentOf[r]
  <2>1. b \in Agents /\ Weight[c] \in Nat \ {0} /\ Counted(b, c) \in Nat
    BY DEF Counted
  <2>2. Lengthened(streak[b], c) \in 0 .. Threshold
    BY <2>1 DEF Lengthened
  <2>3. BreakerTypeOK'
    BY <1>3, <2>1, <2>2 DEF RecordError
  <2>4. ASSUME NEW a \in Agents PROVE EntryInv(a)'
    BY <1>3, <2>1 DEF RecordError, Trips, EntryInv
  <2>5. Counted(b, c) <= Lengthened(streak[b], c) \/ Lengthened(streak[b], c) = Threshold
    BY <2>1 DEF Lengthened, Counted, HistoryInv
  <2>6. ASSUME NEW a \in Agents PROVE HistoryInv(a)'
    <3>1. CASE a # b
      BY <1>3, <2>1, <3>1 DEF RecordError, HistoryInv
    <3>2. CASE a = b
      <4>1. /\ errors'[a] = Counted(b, c) /\ streak'[a] = Lengthened(streak[b], c)
            /\ left'[a] = IF Trips(b, c) THEN Cooldown ELSE left[a]
            /\ sinceTrip'[a] = IF Trips(b, c) THEN 0 ELSE sinceTrip[a]
        BY <1>3, <2>1, <3>2 DEF RecordError, Trips
      <4> QED BY <2>5, <3>2, <4>1 DEF HistoryInv
    <3> QED BY <3>1, <3>2
  <2> QED BY <2>3, <2>4, <2>6
<1>4. CASE GetStats
  <2> DEFINE stale == {a \in known : Stable(a) /\ quiet[a] # Never /\ quiet[a] > StaleAfter}
  <2>1. /\ known' = known \ stale
        /\ tripped' = [a \in Agents |-> tripped[a] /\ a \notin stale]
        /\ left' = [a \in Agents |-> IF a \in stale THEN 0 ELSE left[a]]
        /\ UNCHANGED <<errors, running, streak, sinceTrip>>
        /\ quiet' \in [Agents -> 0 .. StaleAfter + 1 \cup {Never}]
    BY <1>4 DEF GetStats
  <2>2. \A a \in stale : errors[a] = 0 /\ left[a] = 0
    BY DEF Stable
  <2> HIDE DEF stale
  <2>3. BreakerTypeOK'
    BY <2>1
  <2>4. ASSUME NEW a \in Agents PROVE EntryInv(a)'
    <3>1. CASE a \in stale
      <4>1. errors'[a] = 0 /\ left'[a] = 0 /\ ~ tripped'[a]
        BY <2>1, <2>2, <3>1
      <4> QED BY <4>1 DEF EntryInv
    <3>2. CASE a \notin stale
      <4>1. /\ errors'[a] = errors[a] /\ left'[a] = left[a]
            /\ tripped'[a] <=> tripped[a]
            /\ a \in known' <=> a \in known
        BY <2>1, <3>2
      <4> QED BY <4>1 DEF EntryInv
    <3> QED BY <3>1, <3>2
  <2>5. ASSUME NEW a \in Agents PROVE HistoryInv(a)'
    BY <2>1, <2>2 DEF HistoryInv
  <2> QED BY <2>3, <2>4, <2>5
<1>5. CASE BreakerTick
  BY <1>5 DEF BreakerTick, EntryInv, HistoryInv
<1>6. CASE UNCHANGED breakerVars
  BY <1>6 DEF breakerVars, EntryInv, HistoryInv
<1> QED BY <1>1, <1>2, <1>3, <1>4, <1>5, <1>6 DEF BreakerNext

\* Both: the entry of an agent fits its history all along.
THEOREM BreakerInvariance == BreakerSpec => []BreakerInv
BY BreakerStart, BreakerSteps, PTL DEF BreakerSpec

----------------------------------------------------------------------------
\* The breaker's state keeps its types.
THEOREM BreakerTypeCorrect == BreakerSpec => []BreakerTypeOK
BY BreakerInvariance, PTL DEF BreakerInv

\* An agent that has tripped is disabled for the whole cooldown.
THEOREM WholeCooldown == BreakerSpec => []CooldownKept
<1>1. BreakerInv => CooldownKept
  BY DEF BreakerInv, BreakerTypeOK, EntryInv, HistoryInv, CooldownKept, Disabled
<1> QED BY <1>1, BreakerInvariance, PTL

\* And not longer.
THEOREM NoLongerThanCooldown == BreakerSpec => []CooldownEnds
<1>1. BreakerInv => CooldownEnds
  BY DEF BreakerInv, BreakerTypeOK, HistoryInv, CooldownEnds, Disabled
<1> QED BY <1>1, BreakerInvariance, PTL

\* An agent trips only on a whole streak of errors.
THEOREM TripsOnlyOnStreak == BreakerSpec => TripsOnStreak
<1>1. BreakerInv /\ [BreakerNext]_breakerVars =>
        [\A a \in Agents : left'[a] > left[a] => streak'[a] = Threshold]_breakerVars
  <2> SUFFICES ASSUME BreakerInv, BreakerNext, NEW a \in Agents, left'[a] > left[a]
               PROVE  streak'[a] = Threshold
    OBVIOUS
  <2> USE BreakerAssumption DEF BreakerInv, BreakerTypeOK
  <2>1. ASSUME NEW r \in Requests, NEW c \in Categories, RecordError(r, c)
        PROVE  streak'[a] = Threshold
    <3>1. a = AgentOf[r] /\ Trips(a, c)
      BY <2>1 DEF RecordError
    <3>2. streak'[a] = Lengthened(streak[a], c)
      BY <2>1, <3>1 DEF RecordError
    <3>3. Weight[c] \in Nat
      OBVIOUS
    <3> QED BY <3>1, <3>2, <3>3 DEF Trips, Counted, Lengthened, HistoryInv
  <2>2. ASSUME NEW r \in Requests, Admit(r) \/ RecordSuccess(r) PROVE FALSE
    BY <2>2 DEF Admit, RecordSuccess
  <2>3. CASE GetStats
    BY <2>3 DEF GetStats
  <2>4. CASE BreakerTick
    BY <2>4 DEF BreakerTick
  <2> QED BY <2>1, <2>2, <2>3, <2>4 DEF BreakerNext
<1> QED BY <1>1, BreakerInvariance, PTL DEF BreakerSpec, TripsOnStreak

\* Every admitted request finds its agent's count below the threshold.
THEOREM CountStartsAnew == BreakerSpec => AdmittedBelowThreshold
<1>1. BreakerInv /\ [BreakerNext]_breakerVars =>
        [\A r \in Requests : r \notin running /\ r \in running' =>
           errors'[AgentOf[r]] < Threshold]_breakerVars
  <2> SUFFICES ASSUME BreakerInv, BreakerNext, NEW r \in Requests, r \notin running, r \in running'
               PROVE  errors'[AgentOf[r]] < Threshold
    OBVIOUS
  <2> USE BreakerAssumption DEF BreakerInv, BreakerTypeOK
  <2>1. ASSUME NEW q \in Requests, Admit(q) PROVE errors'[AgentOf[r]] < Threshold
    <3>1. q = r /\ ~ Disabled(AgentOf[r])
      BY <2>1 DEF Admit
    <3>2. errors'[AgentOf[r]] = IF Recover(AgentOf[r]) THEN 0 ELSE errors[AgentOf[r]]
      BY <2>1, <3>1 DEF Admit
    <3> QED BY <3>1, <3>2 DEF Recover, Disabled, EntryInv
  <2>2. ASSUME NEW q \in Requests, NEW c \in Categories, RecordSuccess(q) \/ RecordError(q, c)
        PROVE  FALSE
    BY <2>2 DEF RecordSuccess, RecordError
  <2>3. ASSUME NEW q \in Requests, RecordSuccess(q) PROVE FALSE
    BY <2>3 DEF RecordSuccess
  <2>4. CASE GetStats \/ BreakerTick
    BY <2>4 DEF GetStats, BreakerTick
  <2> QED BY <2>1, <2>2, <2>3, <2>4 DEF BreakerNext
<1> QED BY <1>1, BreakerInvariance, PTL DEF BreakerSpec, AdmittedBelowThreshold

-----------------------------------------------------------------------------
(* The summarization queue: the counter agrees with the running tasks, and  *)
(* while a task waits a call is under way, whose end drains the queue.      *)

RunningIn(tasks) == {t \in Tasks : tasks[t] = "running"}

\* What QueueTypeOK says of task and _pending.
Consistent(tasks, q) ==
  /\ tasks \in [Tasks -> {"new", "pending", "running", "done", "dropped"}]
  /\ q \in Seq(Tasks)
  /\ \A i \in 1 .. Len(q) : tasks[q[i]] = "pending"
  /\ \A i, j \in 1 .. Len(q) : q[i] = q[j] => i = j

SummariesInv == QueueTypeOK /\ ActiveIsRunning /\ SomebodyDrains

\* Finitely many summaries run.
LEMMA FiniteRunning ==
  ASSUME NEW tasks
  PROVE  IsFiniteSet(RunningIn(tasks)) /\ Cardinality(RunningIn(tasks)) \in Nat
BY QueueAssumption, FS_Subset, FS_CardinalityType DEF RunningIn

\* A task that starts makes one more running task.
LEMMA StartCounts ==
  ASSUME NEW tasks \in [Tasks -> {"new", "pending", "running", "done", "dropped"}],
         NEW t \in Tasks, tasks[t] # "running"
  PROVE  Cardinality(RunningIn([tasks EXCEPT ![t] = "running"]))
           = Cardinality(RunningIn(tasks)) + 1
<1>1. RunningIn([tasks EXCEPT ![t] = "running"]) = RunningIn(tasks) \cup {t}
  BY DEF RunningIn
<1>2. t \notin RunningIn(tasks)
  BY DEF RunningIn
<1> QED BY <1>1, <1>2, FiniteRunning, FS_AddElement

\* A task that ends makes one less.
LEMMA EndCounts ==
  ASSUME NEW tasks \in [Tasks -> {"new", "pending", "running", "done", "dropped"}],
         NEW t \in Tasks, tasks[t] = "running"
  PROVE  Cardinality(RunningIn([tasks EXCEPT ![t] = "done"]))
           = Cardinality(RunningIn(tasks)) - 1
<1>1. RunningIn([tasks EXCEPT ![t] = "done"]) = RunningIn(tasks) \ {t}
  BY DEF RunningIn
<1>2. t \in RunningIn(tasks)
  BY DEF RunningIn
<1> QED BY <1>1, <1>2, FiniteRunning, FS_RemoveElement

(***************************************************************************)
(* _drain keeps the queue consistent and the count right; unless the limit *)
(* is 0, it leaves no task waiting with no call under way.                 *)
(***************************************************************************)
LEMMA DrainCorrect ==
  ASSUME NEW tasks, NEW count \in Nat, NEW limit \in Nat,
         Consistent(tasks, pending), count = Cardinality(RunningIn(tasks)),
         Drain(tasks, count, limit)
  PROVE  /\ Consistent(task', pending')
         /\ active' \in Nat
         /\ active' = Cardinality(RunningIn(task'))
         /\ pending' # <<>> => active' > 0 \/ limit = 0
<1>1. CASE ~ (pending # <<>> /\ UnderLimit(count, limit))
  <2>1. task' = tasks /\ active' = count /\ pending' = pending
    BY <1>1 DEF Drain
  <2>2. pending # <<>> => count >= limit
    BY <1>1 DEF UnderLimit
  <2> QED BY <2>1, <2>2
<1>2. CASE pending # <<>> /\ UnderLimit(count, limit)
  <2> DEFINE h == Head(pending)
  <2>1. /\ task' = [tasks EXCEPT ![h] = "running"]
        /\ pending' = Tail(pending)
        /\ active' = count + 1
    BY <1>2 DEF Drain
  <2>2. pending \in Seq(Tasks) /\ 1 \in 1 .. Len(pending) /\ h = pending[1]
    BY <1>2 DEF Consistent
  <2>3. h \in Tasks /\ tasks[h] = "pending"
    BY <2>2 DEF Consistent
  <2>4. active' = Cardinality(RunningIn(task'))
    BY <2>1, <2>3, StartCounts DEF Consistent
  <2>5. /\ pending' \in Seq(Tasks)
        /\ \A i \in 1 .. Len(pending') : i + 1 \in 1 .. Len(pending)
                                           /\ pending'[i] = pending[i + 1]
    BY <1>2, <2>1, <2>2
  <2>6. ASSUME NEW i \in 1 .. Len(pending')
        PROVE  task'[pending'[i]] = "pending"
    <3>1. pending[i + 1] # h /\ tasks[pending[i + 1]] = "pending" /\ pending[i + 1] \in Tasks
      BY <2>2, <2>5 DEF Consistent
    <3> QED BY <2>1, <2>5, <3>1 DEF Consistent
  <2>7. ASSUME NEW i \in 1 .. Len(pending'), NEW j \in 1 .. Len(pending'),
               pending'[i] = pending'[j]
        PROVE  i = j
    <3>1. i \in Nat /\ j \in Nat /\ i + 1 = j + 1
      BY <2>5, <2>7 DEF Consistent
    <3> QED BY <3>1
  <2>8. task' \in [Tasks -> {"new", "pending", "running", "done", "dropped"}]
    BY <2>1 DEF Consistent
  <2> QED BY <2>1, <2>4, <2>5, <2>6, <2>7, <2>8 DEF Consistent
<1> QED BY <1>1, <1>2

----------------------------------------------------------------------------
\* It holds at the start,
LEMMA SummariesStart == QueueInit => SummariesInv
<1> SUFFICES ASSUME QueueInit PROVE SummariesInv
  OBVIOUS
<1>1. QueueTypeOK
  BY QueueAssumption DEF QueueInit, QueueTypeOK
<1>2. Running = {}
  BY DEF QueueInit, Running
<1>3. ActiveIsRunning
  BY <1>2, FS_EmptySet DEF QueueInit, ActiveIsRunning
<1> QED BY <1>1, <1>3 DEF QueueInit, SummariesInv, SomebodyDrains

\* and every step keeps it.
LEMMA SummariesSteps == SummariesInv /\ [QueueNext]_queueVars => SummariesInv'
<1> SUFFICES ASSUME SummariesInv, [QueueNext]_queueVars PROVE SummariesInv'
  OBVIOUS
<1> USE DEF SummariesInv
<1>1. Consistent(task, pending) /\ active \in Nat /\ maxConcurrent \in Nat
  BY DEF QueueTypeOK, Consistent
<1>2. active = Cardinality(RunningIn(task))
  BY DEF ActiveIsRunning, Running, RunningIn
<1>3. SUFFICES /\ Consistent(task', pending')
               /\ active' \in Nat
               /\ maxConcurrent' \in Nat
               /\ active' = Cardinality(RunningIn(task'))
               /\ SomebodyDrains'
  BY DEF QueueTypeOK, Consistent, ActiveIsRunning, Running, RunningIn
<1>4. ASSUME NEW t \in Tasks, Drop(t) PROVE <1>3!1
  <2>1. /\ task' = [task EXCEPT ![t] = "dropped"]
        /\ UNCHANGED <<active, pending, maxConcurrent>>
        /\ task[t] = "new"
    BY <1>4 DEF Drop
  <2>2. RunningIn(task') = RunningIn(task)
    BY <1>1, <2>1 DEF RunningIn, Consistent
  <2>3. Consistent(task', pending')
    BY <1>1, <2>1 DEF Consistent
  <2> QED BY <1>1, <1>2, <2>1, <2>2, <2>3 DEF SomebodyDrains
<1>5. ASSUME NEW t \in Tasks, ExecuteAtOnce(t) PROVE <1>3!1
  <2>1. /\ task' = [task EXCEPT ![t] = "running"]
        /\ active' = active + 1
        /\ UNCHANGED <<pending, maxConcurrent>>
        /\ task[t] = "new"
    BY <1>5 DEF ExecuteAtOnce
  <2>2. active' = Cardinality(RunningIn(task'))
    BY <1>1, <1>2, <2>1, StartCounts DEF Consistent
  <2>3. Consistent(task', pending')
    BY <1>1, <2>1 DEF Consistent
  <2> QED BY <1>1, <2>1, <2>2, <2>3 DEF SomebodyDrains
<1>6. ASSUME NEW t \in Tasks, Queue(t) PROVE <1>3!1
  <2>1. /\ task' = [task EXCEPT ![t] = "pending"]
        /\ pending' = Append(pending, t)
        /\ UNCHANGED <<active, maxConcurrent>>
        /\ task[t] = "new" /\ ~ UnderLimit(active, maxConcurrent)
    BY <1>6 DEF Queue
  <2>2. RunningIn(task') = RunningIn(task)
    BY <1>1, <2>1 DEF RunningIn, Consistent
  <2>3. /\ pending' \in Seq(Tasks) /\ Len(pending') = Len(pending) + 1
        /\ \A i \in 1 .. Len(pending) : pending'[i] = pending[i] /\ pending[i] # t
        /\ pending'[Len(pending) + 1] = t
    BY <1>1, <2>1 DEF Consistent
  <2>4. \A i \in 1 .. Len(pending') : i \in 1 .. Len(pending) \/ i = Len(pending) + 1
    BY <1>1, <2>3 DEF Consistent
  <2>5. \A i \in 1 .. Len(pending') : task'[pending'[i]] = "pending"
    BY <1>1, <2>1, <2>3, <2>4 DEF Consistent
  <2>6. \A i, j \in 1 .. Len(pending') : pending'[i] = pending'[j] => i = j
    BY <1>1, <2>3, <2>4 DEF Consistent
  <2>7. task' \in [Tasks -> {"new", "pending", "running", "done", "dropped"}]
    BY <1>1, <2>1 DEF Consistent
  <2>8. Consistent(task', pending')
    BY <2>3, <2>5, <2>6, <2>7 DEF Consistent
  <2>9. active' > 0 \/ maxConcurrent' = 0
    BY <1>1, <2>1 DEF UnderLimit
  <2> QED BY <1>1, <1>2, <2>1, <2>2, <2>8, <2>9 DEF SomebodyDrains
<1>7. ASSUME NEW t \in Tasks, Finish(t) PROVE <1>3!1
  <2> DEFINE tasks == [task EXCEPT ![t] = "done"]
  <2>1. /\ Drain(tasks, active - 1, maxConcurrent)
        /\ maxConcurrent' = maxConcurrent
        /\ task[t] = "running"
    BY <1>7 DEF Finish
  <2>2. active - 1 = Cardinality(RunningIn(tasks))
    BY <1>1, <1>2, <2>1, EndCounts DEF Consistent
  <2>3. active - 1 \in Nat
    BY <2>2, FiniteRunning
  <2>4. Consistent(tasks, pending)
    BY <1>1, <2>1 DEF Consistent
  <2> HIDE DEF tasks
  <2> QED BY <1>1, <2>1, <2>2, <2>3, <2>4, DrainCorrect DEF SomebodyDrains
<1>8. ASSUME NEW n \in Limits, SetMaxConcurrent(n) PROVE <1>3!1
  <2>1. /\ n \in Nat
        /\ maxConcurrent' = IF n > 1 THEN n ELSE 1
        /\ Drain(task, active, maxConcurrent')
    BY <1>8, QueueAssumption DEF SetMaxConcurrent
  <2>2. maxConcurrent' \in Nat
    BY <2>1
  <2> QED BY <1>1, <1>2, <2>1, <2>2, DrainCorrect DEF SomebodyDrains
<1>9. CASE UNCHANGED queueVars
  BY <1>1, <1>2, <1>9 DEF queueVars, SomebodyDrains
<1> QED BY <1>4, <1>5, <1>6, <1>7, <1>8, <1>9 DEF QueueNext, Enqueue

\* Both: the count and the slots of the queue are right all along.
THEOREM SummariesInvariance == QueueSpec => []SummariesInv
BY SummariesStart, SummariesSteps, PTL DEF QueueSpec

----------------------------------------------------------------------------
\* The state of the queue keeps its types, and no task is queued twice.
THEOREM SummariesTypeCorrect == QueueSpec => []QueueTypeOK
BY SummariesInvariance, PTL DEF SummariesInv

\* _active is the number of calls under way.
THEOREM ActiveCorrect == QueueSpec => []ActiveIsRunning
BY SummariesInvariance, PTL DEF SummariesInv

\* While a task waits, a call is under way that will drain the queue at its end,
\* for every way of raising and lowering the limit.
THEOREM NoWakeupLost == QueueSpec => []SomebodyDrains
BY SummariesInvariance, PTL DEF SummariesInv

\* No step that starts a call ends above the limit then in force.
THEOREM LimitIsRespected == QueueSpec => LimitRespected
<1>1. SummariesInv /\ [QueueNext]_queueVars => [Running' \ Running # {} => active' <= maxConcurrent']_queueVars
  <2> SUFFICES ASSUME SummariesInv, QueueNext, NEW t \in Tasks, task'[t] = "running", task[t] # "running"
               PROVE  active' <= maxConcurrent'
    BY DEF Running
  <2>1. Consistent(task, pending) /\ active \in Nat /\ maxConcurrent \in Nat
    BY DEF SummariesInv, QueueTypeOK, Consistent
  <2>2. CASE \E u \in Tasks : Drop(u) \/ Queue(u)
    BY <2>1, <2>2 DEF Drop, Queue, Consistent
  <2>3. CASE \E u \in Tasks : ExecuteAtOnce(u)
    BY <2>1, <2>3 DEF ExecuteAtOnce, UnderLimit
  <2>4. ASSUME NEW u \in Tasks, Finish(u) PROVE active' <= maxConcurrent'
    <3>1. task'[t] = [task EXCEPT ![u] = "done"][t] => FALSE
      BY <2>1, <2>4 DEF Finish, Consistent
    <3>2. pending # <<>> /\ UnderLimit(active - 1, maxConcurrent)
      BY <2>4, <3>1 DEF Finish, Drain
    <3> QED BY <2>1, <2>4, <3>2 DEF Finish, Drain, UnderLimit
  <2>5. ASSUME NEW n \in Limits, SetMaxConcurrent(n) PROVE active' <= maxConcurrent'
    <3>1. n \in Nat /\ maxConcurrent' \in Nat
      BY <2>5, QueueAssumption DEF SetMaxConcurrent
    <3>2. pending # <<>> /\ UnderLimit(active, maxConcurrent')
      BY <2>5 DEF SetMaxConcurrent, Drain
    <3> QED BY <2>1, <2>5, <3>1, <3>2 DEF SetMaxConcurrent, Drain, UnderLimit
  <2> QED BY <2>2, <2>3, <2>4, <2>5 DEF QueueNext, Enqueue
<1> QED BY <1>1, SummariesInvariance, PTL DEF QueueSpec, LimitRespected

-----------------------------------------------------------------------------
(* The coalescer: a timer belongs to a bucket, and what it still runs and   *)
(* what the newest message of the bucket has waited make up the time of     *)
(* quiet.                                                                   *)

Newest(k) == messages[k][Len(messages[k])]

TimerInv ==
  /\ buckets \subseteq Keys
  /\ messages \in [Keys -> Seq(Messages)]
  /\ waited \in [Messages -> Nat]
  /\ timers \subseteq [kind : {"maxWait", "debounce"}, key : Keys, left : Nat]
  /\ \A t \in timers :
       /\ t.key \in buckets
       /\ messages[t.key] # <<>> => waited[Newest(t.key)] + t.left >= DebounceMs

\* It holds at the start,
LEMMA CoalescerStart == CoalescerInit => TimerInv
BY DEF CoalescerInit, TimerInv, Keys

\* and every step keeps it.
LEMMA CoalescerSteps ==
  ASSUME TimerInv, [CoalescerNext]_coalescerVars
  PROVE  /\ TimerInv'
         /\ \A k \in buckets :
              k \notin buckets' /\ ~ destroying' =>
                LET batch == messages[k]
                IN  batch = <<>> \/ waited[batch[Len(batch)]] >= DebounceMs
                                 \/ waited[batch[1]] >= MaxCoalesceMs
<1> DEFINE Whole == \A k \in buckets :
                      k \notin buckets' /\ ~ destroying' =>
                        LET batch == messages[k]
                        IN  batch = <<>> \/ waited[batch[Len(batch)]] >= DebounceMs
                                         \/ waited[batch[1]] >= MaxCoalesceMs
<1> USE CoalescerAssumption
<1>1. ASSUME NEW m \in Messages, AddDropped(m) \/ AddBypassing(m) PROVE TimerInv' /\ Whole
  BY <1>1 DEF AddDropped, AddBypassing, TimerInv, Newest
<1>2. ASSUME NEW m \in Messages, AddToBucket(m) PROVE TimerInv' /\ Whole
  <2> DEFINE k == KeyOf[m]
  <2>1. k \in Keys /\ messages[k] \in Seq(Messages)
    BY DEF Keys, TimerInv
  <2>2. /\ messages'[k] = Append(messages[k], m)
        /\ \A j \in Keys : j # k => messages'[j] = messages[j]
        /\ messages' \in [Keys -> Seq(Messages)]
    BY <1>2, <2>1 DEF AddToBucket, TimerInv
  <2>3. messages'[k] # <<>> /\ Newest(k)' = m
    BY <2>1, <2>2 DEF Newest
  <2>4. ASSUME NEW t \in timers'
        PROVE  /\ t \in [kind : {"maxWait", "debounce"}, key : Keys, left : Nat]
               /\ t.key \in buckets'
               /\ messages'[t.key] # <<>> =>
                    waited'[Newest(t.key)'] + t.left >= DebounceMs
    <3>1. CASE t \in timers /\ t.key # k
      BY <1>2, <2>2, <3>1 DEF AddToBucket, TimerInv, Newest
    <3>2. CASE t.key = k /\ t \in {Timer("maxWait", k, MaxCoalesceMs),
                                   Timer("debounce", k, DebounceMs)}
      <4>1. t.left \in Nat /\ t.left >= DebounceMs
        BY <3>2 DEF Timer
      <4>2. waited'[m] \in Nat
        BY <1>2 DEF AddToBucket, TimerInv
      <4>3. t \in [kind : {"maxWait", "debounce"}, key : Keys, left : Nat]
        BY <2>1, <3>2 DEF Timer
      <4> QED BY <1>2, <2>3, <3>2, <4>1, <4>2, <4>3 DEF AddToBucket
    <3>3. t.key = k /\ t \in timers => k \in buckets
      BY DEF TimerInv
    <3> QED BY <1>2, <3>1, <3>2, <3>3 DEF AddToBucket, Rearmed, TimersOf, Timer
  <2> QED BY <1>2, <2>1, <2>2, <2>4 DEF AddToBucket, TimerInv
<1>3. CASE Fire
  <2>1. PICK t \in Due : FlushBucket(t)
    BY <1>3 DEF Fire
  <2> DEFINE k == t.key
  <2>2. t \in timers /\ t.left = 0 /\ k \in buckets
    BY DEF Due, TimerInv
  <2>3. /\ buckets' = buckets \ {k} /\ messages' = [messages EXCEPT ![k] = <<>>]
        /\ timers' = timers \ (TimersOf(k) \cup {t}) /\ waited' = waited
    BY <1>3, <2>1, <2>2 DEF FlushBucket, Fire
  <2>4. messages[k] # <<>> => waited[Newest(k)] + 0 >= DebounceMs
    BY <2>2 DEF TimerInv
  <2>5. messages[k] # <<>> => waited[Newest(k)] >= DebounceMs
    <3>1. messages[k] # <<>> => waited[Newest(k)] \in Nat
      BY <2>2 DEF TimerInv, Newest
    <3> QED BY <2>4, <3>1
  <2>6. Whole
    BY <2>3, <2>5 DEF Newest
  <2>7. \A u \in timers' : u \in timers /\ u.key # k
    BY <2>3 DEF TimersOf
  <2>8. TimerInv'
    BY <2>2, <2>3, <2>7 DEF TimerInv, Newest
  <2> QED BY <2>6, <2>8
<1>4. CASE FlushAll
  <2>1. timers' = {}
    BY <1>4 DEF FlushAll, TimersOf, TimerInv
  <2> QED BY <1>4, <2>1 DEF FlushAll, TimerInv
<1>5. CASE Destroy
  <2>1. timers' = {}
    BY <1>5 DEF Destroy, TimersOf, TimerInv
  <2> QED BY <1>5, <2>1 DEF Destroy, TimerInv
<1>6. CASE CoalescerTick
  <2>1. waited' \in [Messages -> Nat]
    BY <1>6 DEF CoalescerTick, TimerInv
  <2>2. ASSUME NEW t \in timers'
        PROVE  /\ t \in [kind : {"maxWait", "debounce"}, key : Keys, left : Nat]
               /\ t.key \in buckets'
               /\ messages'[t.key] # <<>> =>
                    waited'[Newest(t.key)'] + t.left >= DebounceMs
    <3>1. PICK u \in timers : t = [u EXCEPT !.left = @ - 1]
      BY <1>6 DEF CoalescerTick
    <3>2. /\ u \in [kind : {"maxWait", "debounce"}, key : Keys, left : Nat]
          /\ u.left # 0
      BY <1>6 DEF CoalescerTick, Due, TimerInv
    <3>3. /\ t \in [kind : {"maxWait", "debounce"}, key : Keys, left : Nat]
          /\ t.key = u.key /\ t.left = u.left - 1
      BY <3>1, <3>2
    <3>4. messages' = messages /\ buckets' = buckets
      BY <1>6 DEF CoalescerTick
    <3>5. CASE messages[t.key] # <<>>
      <4> DEFINE m == Newest(t.key)
      <4>1. Len(messages[t.key]) \in DOMAIN messages[t.key] /\ m \in Messages
        BY <3>3, <3>5 DEF TimerInv, Newest
      <4>2. m \in Pending
        BY <3>3, <4>1 DEF Pending, Newest, TimerInv
      <4>3. waited'[m] = waited[m] + 1 \/ (waited'[m] = waited[m] /\ waited[m] > MaxCoalesceMs)
        BY <1>6, <4>1, <4>2 DEF CoalescerTick, TimerInv
      <4>4. waited[m] \in Nat /\ waited[m] + u.left >= DebounceMs
        BY <3>3, <3>5, <4>1 DEF TimerInv
      <4>5. waited'[m] + t.left >= DebounceMs
        BY <3>2, <3>3, <4>3, <4>4
      <4> QED BY <3>3, <3>4, <4>5 DEF TimerInv, Newest
    <3> QED BY <3>3, <3>4, <3>5 DEF TimerInv
  <2> QED BY <1>6, <2>1, <2>2 DEF CoalescerTick, TimerInv
<1>7. CASE UNCHANGED coalescerVars
  BY <1>7 DEF coalescerVars, TimerInv, Newest
<1> QED BY <1>1, <1>2, <1>3, <1>4, <1>5, <1>6, <1>7 DEF CoalescerNext, Add

\* No timer of an earlier message or an earlier bucket cuts a batch short.
THEOREM BatchesWhole == CoalescerSpec => NotTornApart
BY CoalescerStart, CoalescerSteps, PTL DEF CoalescerSpec, NotTornApart

-----------------------------------------------------------------------------
(* The committee: the one proposal that is pending is the one whose votes   *)
(* are collected, and every vote that was accepted for it is among them.    *)

Collecting == phase \in {"ai", "sends", "people"}

Counts(vs, gs, S) == \A i \in DOMAIN gs \ S : i \in DOMAIN vs /\ vs[i].vote = gs[i]

\* What is kept by proposal is kept for every proposal.
ByProposal ==
  /\ votes = [p \in CmtProposals |-> votes[p]]
  /\ asked = [p \in CmtProposals |-> asked[p]]
  /\ given = [p \in CmtProposals |-> given[p]]
  /\ unsent = [p \in CmtProposals |-> unsent[p]]
  /\ counted = [p \in CmtProposals |-> counted[p]]

OnePending ==
  /\ proposed \in 0 .. CmtMaxProposals /\ DOMAIN standing \subseteq 1 .. proposed
  /\ (phase = "none") = (current = 0)
  /\ Collecting => current \in DOMAIN standing
  /\ \A p \in DOMAIN standing : (standing[p] = "pending") = (Collecting /\ p = current)

VoteInv ==
  /\ ByProposal /\ OnePending
  /\ \A p \in CmtProposals :
       p > proposed \/ (phase = "ai" /\ p = current) => asked[p] = {} /\ DOMAIN given[p] = {}
  /\ Collecting => Counts(votes[current], given[current], unsent[current])
  /\ AcceptedVotesCount

\* It holds at the start,
LEMMA CommitteeStart == CommitteeInit => VoteInv
BY CommitteeAssumption DEF CommitteeInit, VoteInv, ByProposal, OnePending, Collecting, Counts, Empty,
       AcceptedVotesCount, CmtProposals

\* A verdict is one of three.
LEMMA Decided ==
  ASSUME NEW vs PROVE Verdict(vs) # "pending"
BY DEF Verdict

\* The votes of the current proposal may grow, and decide it, as long as the
\* accepted ones are among them.
LEMMA Collected ==
  ASSUME VoteInv, Collecting, NEW vs, Counts(vs, given'[current], unsent'[current]),
         ByProposal', UNCHANGED proposed,
         \A q \in CmtProposals : q # current =>
           asked'[q] = asked[q] /\ given'[q] = given[q] /\ unsent'[q] = unsent[q],
         \/ Adjudicate(current, vs)
         \/ /\ votes' = [votes EXCEPT ![current] = vs]
            /\ UNCHANGED <<standing, current, counted>> /\ phase' \in {"sends", "people"}
  PROVE  VoteInv'
<1>0. \A p \in DOMAIN standing : p \in CmtProposals /\ p # 0
  BY CommitteeAssumption DEF VoteInv, OnePending, CmtProposals
<1>1. current \in DOMAIN standing /\ current \in CmtProposals /\ current # 0 /\ phase # "none"
  BY <1>0 DEF VoteInv, OnePending, Collecting
<1>2. /\ votes'[current] = vs
      /\ \A q \in CmtProposals : q # current => votes'[q] = votes[q]
  BY <1>1 DEF Adjudicate, VoteInv, ByProposal
<1>3. \A q \in CmtProposals : q > proposed => q # current
  BY <1>1 DEF VoteInv, OnePending, CmtProposals
<1>4. CASE Adjudicate(current, vs)
  <2>1. /\ DOMAIN standing' = DOMAIN standing /\ standing'[current] # "pending"
        /\ \A q \in DOMAIN standing : q # current => standing'[q] = standing[q]
    BY <1>1, <1>4, Decided DEF Adjudicate
  <2>2. /\ counted'[current] = vs
        /\ \A q \in CmtProposals : q # current => counted'[q] = counted[q]
    BY <1>1, <1>4 DEF Adjudicate, VoteInv, ByProposal
  <2>3. ~Collecting' /\ (phase' = "none") = (current' = 0) /\ phase' # "ai"
    BY <1>1, <1>4 DEF Adjudicate, Collecting
  <2>4. AcceptedVotesCount'
    BY <1>0, <1>2, <2>1, <2>2 DEF AcceptedVotesCount, Counts, VoteInv
  <2>5. OnePending'
    BY <2>1, <2>3 DEF VoteInv, OnePending
  <2> QED BY <1>3, <2>3, <2>4, <2>5 DEF VoteInv
<1>5. CASE /\ UNCHANGED <<standing, current, counted>> /\ phase' \in {"sends", "people"}
  <2>1. Collecting' /\ phase' \notin {"none", "ai"}
    BY <1>5 DEF Collecting
  <2>2. OnePending'
    BY <1>1, <1>5, <2>1 DEF VoteInv, OnePending
  <2>3. AcceptedVotesCount'
    BY <1>0, <1>2, <1>5 DEF AcceptedVotesCount, VoteInv, OnePending
  <2> QED BY <1>2, <1>3, <1>5, <2>1, <2>2, <2>3 DEF VoteInv
<1> QED BY <1>4, <1>5

\* So may they when people are awaited, or nobody is left to await.
LEMMA Awaited ==
  ASSUME VoteInv, Collecting, NEW vs, Counts(vs, given'[current], unsent'[current]),
         ByProposal', UNCHANGED proposed,
         \A q \in CmtProposals : q # current =>
           asked'[q] = asked[q] /\ given'[q] = given[q] /\ unsent'[q] = unsent[q],
         AwaitPeople(current, vs)
  PROVE  VoteInv'
BY Collected DEF AwaitPeople

\* and every step keeps it.
LEMMA CommitteeSteps == VoteInv /\ [CommitteeNext]_cmtVars => VoteInv'
<1> SUFFICES ASSUME VoteInv, [CommitteeNext]_cmtVars PROVE VoteInv'
  OBVIOUS
<1>0. /\ \A p \in DOMAIN standing : p \in CmtProposals /\ p # 0 /\ p <= proposed
      /\ Collecting => current \in DOMAIN standing
  BY CommitteeAssumption DEF VoteInv, OnePending, CmtProposals
<1>1. CASE Propose
  <2> DEFINE p == proposed + 1
  <2>1. /\ p \in CmtProposals /\ p # 0 /\ p \notin DOMAIN standing
        /\ asked[p] = {} /\ DOMAIN given[p] = {} /\ ~Collecting
    BY <1>0, <1>1, CommitteeAssumption DEF Propose, VoteInv, OnePending, CmtProposals, Collecting
  <2>2. /\ DOMAIN standing' = DOMAIN standing \cup {p} /\ standing'[p] = "pending"
        /\ \A q \in DOMAIN standing : standing'[q] = standing[q]
    BY <1>1, <2>1 DEF Propose, With
  <2>3. Collecting' /\ current' = p /\ phase' = "ai" /\ proposed' = p
    BY <1>1 DEF Propose, Collecting
  <2>4. OnePending'
    BY <1>0, <1>1, <2>1, <2>2, <2>3, CommitteeAssumption DEF VoteInv, OnePending, Propose
  <2>5. AcceptedVotesCount'
    BY <1>1, <2>1, <2>2 DEF Propose, VoteInv, AcceptedVotesCount
  <2>6. \A q \in CmtProposals : q > p \/ q = p => asked'[q] = {} /\ DOMAIN given'[q] = {}
    BY <1>0, <1>1, <2>1 DEF Propose, VoteInv, CmtProposals, OnePending
  <2> QED BY <1>1, <2>1, <2>3, <2>4, <2>5, <2>6 DEF Propose, VoteInv, ByProposal, Counts
<1>2. CASE AiVotesIn
  <2>1. Collecting /\ DOMAIN given[current] = {} /\ UNCHANGED <<given, unsent, proposed>>
    BY <1>0, <1>2 DEF AiVotesIn, Collecting, VoteInv
  <2>2. PICK vs : \/ Members = {} /\ Adjudicate(current, vs) /\ UNCHANGED <<sends, asked>>
                  \/ /\ votes' = [votes EXCEPT ![current] = vs] /\ phase' = "sends"
                     /\ asked' = [asked EXCEPT ![current] = Members]
                     /\ UNCHANGED <<standing, current, counted>>
    BY <1>2 DEF AiVotesIn
  <2>3. Counts(vs, given'[current], unsent'[current])
    BY <2>1 DEF Counts
  <2>4. ByProposal'
    BY <2>1, <2>2 DEF VoteInv, ByProposal, Adjudicate
  <2>5. \A q \in CmtProposals : q # current => asked'[q] = asked[q]
    BY <2>2 DEF VoteInv, ByProposal
  <2> QED BY <2>1, <2>2, <2>3, <2>4, <2>5, Collected
<1>3. ASSUME NEW i \in CmtIds, SendEnds(i) PROVE VoteInv'
  <2>1. Collecting /\ current \in CmtProposals /\ UNCHANGED <<given, asked, proposed>>
    BY <1>0, <1>3 DEF SendEnds, Collecting
  <2>2. PICK failed \in BOOLEAN :
          LET vs == IF failed THEN With(votes[current], i, Cast("defer", "failed", HumanWeight))
                    ELSE votes[current]
          IN /\ unsent' = [unsent EXCEPT ![current] = IF failed THEN @ \cup {i} ELSE @]
             /\ IF sends' = {}
                THEN AwaitPeople(current, vs)
                ELSE /\ votes' = [votes EXCEPT ![current] = vs]
                     /\ UNCHANGED <<standing, current, phase, counted>>
    BY <1>3 DEF SendEnds
  <2> DEFINE vs == IF failed THEN With(votes[current], i, Cast("defer", "failed", HumanWeight))
                   ELSE votes[current]
  <2>3. /\ unsent'[current] = IF failed THEN unsent[current] \cup {i} ELSE unsent[current]
        /\ \A q \in CmtProposals : q # current => unsent'[q] = unsent[q]
    BY <2>1, <2>2 DEF VoteInv, ByProposal
  <2>4. Counts(vs, given'[current], unsent'[current])
    <3>1. Counts(votes[current], given[current], unsent[current])
      BY <2>1 DEF VoteInv
    <3>2. CASE failed
      BY <2>1, <2>3, <3>1, <3>2 DEF Counts, With
    <3>3. CASE ~failed
      BY <2>1, <2>3, <3>1, <3>3
    <3> QED BY <3>2, <3>3
  <2>5. ByProposal'
    BY <2>1, <2>2 DEF VoteInv, ByProposal, AwaitPeople, Adjudicate
  <2>6. \/ AwaitPeople(current, vs)
        \/ /\ votes' = [votes EXCEPT ![current] = vs]
           /\ UNCHANGED <<standing, current, counted>> /\ phase' = "sends"
    BY <1>3, <2>2 DEF SendEnds
  <2> HIDE DEF vs
  <2> QED BY <2>1, <2>3, <2>4, <2>5, <2>6, Collected, Awaited
<1>4. ASSUME NEW u \in People, NEW p \in CmtProposals, NEW v \in VoteOptions, Vote(u, p, v)
      PROVE  VoteInv'
  <2> DEFINE vs == With(votes[p], seat[u], Cast(v, "given", HumanWeight))
  <2>1. Collecting /\ p = current /\ UNCHANGED <<asked, unsent, proposed>>
    BY <1>4 DEF Vote, VoteInv, OnePending
  <2>2. phase # "ai"
    BY <1>4, <2>1 DEF Vote, VoteInv
  <2>3. /\ given'[current] = With(given[current], seat[u], v)
        /\ \A q \in CmtProposals : q # current => given'[q] = given[q]
    BY <1>4, <2>1 DEF Vote, VoteInv, ByProposal
  <2>4. Counts(vs, given'[current], unsent'[current])
    BY <2>1, <2>3 DEF Counts, With, Cast, VoteInv
  <2>5. ByProposal'
    BY <1>4, <2>1 DEF Vote, VoteInv, ByProposal, AwaitPeople, Adjudicate
  <2>6. \/ AwaitPeople(current, vs)
        \/ /\ votes' = [votes EXCEPT ![current] = vs]
           /\ UNCHANGED <<standing, current, counted>> /\ phase' \in {"sends", "people"}
    BY <1>4, <2>1, <2>2 DEF Vote, Collecting
  <2> HIDE DEF vs
  <2> QED BY <2>1, <2>3, <2>4, <2>5, <2>6, Collected, Awaited
<1>5. CASE VoteTimeout
  <2> DEFINE late == {seat[u] : u \in Members} \ DOMAIN votes[current]
             vs == [i \in DOMAIN votes[current] \cup late |->
                      IF i \in late THEN Cast("defer", "timedOut", HumanWeight)
                      ELSE votes[current][i]]
  <2>1. Collecting /\ UNCHANGED <<asked, given, unsent, proposed>> /\ Adjudicate(current, vs)
    BY <1>5 DEF VoteTimeout, Collecting
  <2>2. Counts(vs, given'[current], unsent'[current])
    BY <2>1 DEF Counts, VoteInv
  <2>3. ByProposal'
    BY <2>1 DEF VoteInv, ByProposal, Adjudicate
  <2> HIDE DEF vs
  <2> QED BY <2>1, <2>2, <2>3, Collected
<1>6. CASE Announced
  BY <1>6 DEF Announced, VoteInv, ByProposal, OnePending, Collecting, AcceptedVotesCount
<1>7. ASSUME NEW p \in CmtProposals, ForgetProposal(p) PROVE VoteInv'
  <2>1. /\ DOMAIN standing' = DOMAIN standing \ {p}
        /\ \A q \in DOMAIN standing' : q # p /\ standing'[q] = standing[q]
    BY <1>7 DEF ForgetProposal, Without
  <2>2. /\ Collecting' = Collecting /\ p # current
        /\ UNCHANGED <<current, phase, proposed>>
    BY <1>7 DEF ForgetProposal, Collecting
  <2>3. OnePending'
    BY <2>1, <2>2 DEF VoteInv, OnePending
  <2>4. /\ ByProposal' /\ asked'[p] = {} /\ DOMAIN given'[p] = {}
        /\ \A q \in CmtProposals : q # p =>
             /\ votes'[q] = votes[q] /\ asked'[q] = asked[q] /\ given'[q] = given[q]
             /\ unsent'[q] = unsent[q] /\ counted'[q] = counted[q]
    BY <1>7 DEF ForgetProposal, VoteInv, ByProposal, Empty
  <2>5. AcceptedVotesCount'
    BY <1>0, <2>1, <2>4 DEF VoteInv, AcceptedVotesCount
  <2> QED BY <1>0, <2>2, <2>3, <2>4, <2>5 DEF VoteInv
<1>8. CASE UNCHANGED <<standing, votes, current, phase, asked, given, unsent, counted, proposed>>
  BY <1>8 DEF VoteInv, ByProposal, OnePending, Collecting, Counts, AcceptedVotesCount
<1>9. ASSUME NEW u \in People, AddHumanMember(u) \/ RemoveHumanMember(u) PROVE VoteInv'
  BY <1>8, <1>9 DEF AddHumanMember, RemoveHumanMember
<1> QED BY <1>1, <1>2, <1>3, <1>4, <1>5, <1>6, <1>7, <1>8, <1>9 DEF CommitteeNext, cmtVars

\* No accepted vote is lost, nor a verdict changed, whoever joins, leaves, votes
\* late or cannot be reached.
THEOREM VotesCounted == CommitteeSpec => []AcceptedVotesCount
<1>1. CommitteeSpec => []VoteInv
  BY CommitteeStart, CommitteeSteps, PTL DEF CommitteeSpec
<1> QED BY <1>1, PTL DEF VoteInv

-----------------------------------------------------------------------------
(* The tools: a number stands for one request of a connection for good, and *)
(* a server enters the registry once, when its listing is answered.         *)

Having(t) == {i \in DOMAIN servers : t \in tools[servers[i]]}

Asked(s, n) == n \in DOMAIN waits[s] /\ waits[s][n] = McpList

WaitInv ==
  /\ waits = [s \in Servers |-> waits[s]] /\ messageId \in [Servers -> Nat]
  /\ received = [s \in Servers |-> received[s]] /\ strays \in [Servers -> Nat]
  /\ outcome = [c \in McpCalls |-> outcome[c]]
  /\ \A s \in Servers :
       /\ \A n \in DOMAIN waits[s] : n \in 1 .. messageId[s]
       /\ \A q \in received[s] :
            /\ q.id \in 1 .. messageId[s]
            /\ q.id \in DOMAIN waits[s] => waits[s][q.id] = q.what

RouteInv ==
  /\ conn = [s \in Servers |-> conn[s]] /\ tools = [s \in Servers |-> tools[s]]
  /\ servers \in Seq(Servers)
  /\ \A s \in Servers : conn[s] \in {"connecting", "listing"} =>
       \A i \in DOMAIN servers : servers[i] # s
  /\ \A s \in Servers : \A n, m : Asked(s, n) =>
       conn[s] = "listing" /\ (Asked(s, m) => m = n)
  /\ ShownIsCalled

-----------------------------------------------------------------------------
\* Numbers up to a bound have a largest one.
LEMMA TopOne ==
  ASSUME NEW n \in Nat, NEW S \in SUBSET (1 .. n), S # {}
  PROVE  \E m \in S : \A i \in S : m >= i
<1> DEFINE B == {n - i : i \in S}
           R == OpToRel(<, Nat)
<1>0. \A i \in S : i \in Nat /\ n - i \in Nat
  OBVIOUS
<1>1. B \subseteq Nat /\ B # {}
  <2>1. PICK i \in S : TRUE
    OBVIOUS
  <2>2. n - i \in B
    BY <2>1
  <2> QED BY <1>0, <2>2
<1>2. PICK x \in B : \A y \in B : ~ (<<y, x>> \in R)
  <2> HIDE DEF B, R
  <2>1. IsWellFoundedOn(R, Nat)
    BY NatLessThanWellFounded DEF R
  <2> QED BY <1>1, <2>1, WFMin
<1> HIDE DEF R
<1>3. PICK m \in S : x = n - m
  BY <1>2
<1>4. ASSUME NEW i \in S PROVE m >= i
  <2>1. n - i \in B /\ n - i \in Nat /\ n - m \in Nat
    BY <1>1
  <2>2. ~ (<<n - i, n - m>> \in R)
    BY <1>2, <1>3, <2>1
  <2>3. ~ (n - i < n - m)
    BY <2>1, <2>2 DEF OpToRel, R
  <2> QED BY <2>3
<1> QED BY <1>4

\* A request gets a number of its own.
LEMMA SendKeeps ==
  ASSUME WaitInv, NEW s \in Servers, NEW w, Send(s, w), UNCHANGED strays,
         outcome' = [c \in McpCalls |-> outcome'[c]]
  PROVE  /\ WaitInv'
         /\ \A r \in Servers : \A n :
              n \in DOMAIN waits'[r] /\ waits'[r][n] # w =>
                n \in DOMAIN waits[r] /\ waits'[r][n] = waits[r][n]
         /\ \A r \in Servers \ {s} : waits'[r] = waits[r]
         /\ \A n : n \in DOMAIN waits'[s] =>
              n = messageId[s] + 1 \/ (n \in DOMAIN waits[s] /\ waits'[s][n] = waits[s][n])
<1> DEFINE n == messageId[s] + 1
<1>1. /\ n \in Nat /\ n \notin DOMAIN waits[s] /\ messageId'[s] = n
      /\ \A q \in received[s] : q.id # n
  BY DEF WaitInv, Send
<1>2. /\ waits' = [r \in Servers |-> waits'[r]] /\ received' = [r \in Servers |-> received'[r]]
      /\ messageId' \in [Servers -> Nat]
      /\ \A r \in Servers \ {s} : /\ waits'[r] = waits[r] /\ received'[r] = received[r]
                                  /\ messageId'[r] = messageId[r]
  BY <1>1 DEF WaitInv, Send
<1>3. /\ DOMAIN waits'[s] = DOMAIN waits[s] \cup {n} /\ waits'[s][n] = w
      /\ \A m \in DOMAIN waits[s] : waits'[s][m] = waits[s][m]
  BY <1>1 DEF WaitInv, Send
<1>4. received'[s] = received[s] \cup {[id |-> n, what |-> w]}
  BY DEF WaitInv, Send
<1>5. WaitInv'
  BY <1>1, <1>2, <1>3, <1>4 DEF WaitInv
<1> QED BY <1>1, <1>2, <1>3, <1>5

\* Whoever offers a tool, one of them is the last of the registry.
LEMMA LastHaving ==
  ASSUME RouteInv, NEW t, Having(t) # {}
  PROVE  Max(Having(t)) \in Having(t)
<1>1. Having(t) \in SUBSET (1 .. Len(servers)) /\ Len(servers) \in Nat
  BY DEF Having, RouteInv
<1> QED BY <1>1, TopOne DEF Max

\* A server that has been listed enters the registry as its last one.
LEMMA RegisterKeeps ==
  ASSUME RouteInv, NEW s \in Servers, NEW T \in SUBSET McpTools, conn[s] = "listing",
         RegisterServer(s, T)
  PROVE  /\ ShownIsCalled' /\ servers' \in Seq(Servers)
         /\ \A i \in DOMAIN servers' : servers'[i] = s \/ \E j \in DOMAIN servers : servers[j] = servers'[i]
<1> DEFINE last == Len(servers) + 1
<1>1. servers \in Seq(Servers) /\ \A i \in DOMAIN servers : servers[i] # s
  BY DEF RouteInv
<1>2. servers' = Append(servers, s)
  <2>1. ~Contains(servers, s)
    BY <1>1 DEF Contains
  <2> QED BY <2>1 DEF RegisterServer
<1>3. /\ DOMAIN servers' = DOMAIN servers \cup {last} /\ servers'[last] = s
      /\ \A i \in DOMAIN servers : servers'[i] = servers[i] /\ i \in Nat /\ i < last
      /\ servers' \in Seq(Servers) /\ last \in Nat
  BY <1>1, <1>2
<1>4. /\ tools'[s] = T
      /\ \A i \in DOMAIN servers : tools'[servers[i]] = tools[servers[i]]
  BY <1>1 DEF RegisterServer, RouteInv
<1>5. /\ DOMAIN route' = DOMAIN route \cup T
      /\ \A t \in T : route'[t] = s
      /\ \A t \in DOMAIN route \ T : route'[t] = route[t]
  BY DEF RegisterServer
<1>6. ASSUME NEW t \in McpTools
      PROVE  /\ t \in DOMAIN route' <=> Having(t)' # {}
             /\ t \in DOMAIN route' => route'[t] = servers'[Max(Having(t)')]
  <2> DEFINE J == Having(t)
             I == Having(t)'
  <2>1. /\ t \in DOMAIN route <=> J # {}
        /\ t \in DOMAIN route => route[t] = servers[Max(J)]
    BY DEF RouteInv, ShownIsCalled, Having
  <2>2. CASE t \in T
    <3>1. last \in I /\ \A i \in I : i \in Nat /\ last >= i
      BY <1>3, <1>4, <2>2 DEF Having
    <3>2. Max(I) \in I /\ \A i \in I : Max(I) >= i
      BY <3>1 DEF Max
    <3>3. Max(I) = last
      BY <3>1, <3>2
    <3> QED BY <1>3, <1>5, <2>2, <3>1, <3>3
  <2>3. CASE t \notin T
    <3>1. I = J
      BY <1>3, <1>4, <2>3 DEF Having
    <3>2. J # {} => Max(J) \in J
      BY LastHaving
    <3>3. J # {} => servers'[Max(J)] = servers[Max(J)]
      BY <1>3, <3>2 DEF Having
    <3> QED BY <1>5, <2>1, <2>3, <3>1, <3>3
  <2> QED BY <2>2, <2>3
<1>7. ShownIsCalled'
  BY <1>6 DEF ShownIsCalled, Having
<1> QED BY <1>3, <1>7

\* What waits and what was received may become less.
LEMMA WaitsShrink ==
  ASSUME WaitInv, UNCHANGED messageId, strays' \in [Servers -> Nat],
         waits' = [s \in Servers |-> waits'[s]], received' = [s \in Servers |-> received'[s]],
         outcome' = [c \in McpCalls |-> outcome'[c]],
         \A s \in Servers :
           /\ \A n \in DOMAIN waits'[s] : n \in DOMAIN waits[s] /\ waits'[s][n] = waits[s][n]
           /\ received'[s] \subseteq received[s]
  PROVE  WaitInv' /\ \A s \in Servers : \A n : Asked(s, n)' => Asked(s, n)
<1>1. ASSUME NEW s \in Servers
      PROVE  /\ \A n \in DOMAIN waits'[s] : n \in 1 .. messageId'[s]
             /\ \A q \in received'[s] :
                  /\ q.id \in 1 .. messageId'[s]
                  /\ q.id \in DOMAIN waits'[s] => waits'[s][q.id] = q.what
  BY DEF WaitInv
<1>2. WaitInv'
  BY <1>1 DEF WaitInv
<1> QED BY <1>2 DEF Asked

\* What is shown stays when the registry does.
LEMMA ShownStays == ShownIsCalled /\ UNCHANGED registryVars => ShownIsCalled'
BY DEF ShownIsCalled, registryVars

\* The registry is not touched by what only ends waiting.
LEMMA RouteStays ==
  ASSUME RouteInv, UNCHANGED registryVars, conn' = [s \in Servers |-> conn'[s]],
         \A s \in Servers : conn'[s] \in {"connecting", "listing"} =>
                              conn[s] \in {"connecting", "listing"},
         \A s \in Servers : \A n : Asked(s, n)' => Asked(s, n) /\ conn'[s] = conn[s]
  PROVE  RouteInv'
<1>1. ShownIsCalled'
  BY DEF RouteInv, ShownIsCalled, registryVars
<1>2. \A s \in Servers : \A n, m : Asked(s, n)' => conn'[s] = "listing" /\ (Asked(s, m)' => m = n)
  BY DEF RouteInv
<1> QED BY <1>1, <1>2 DEF RouteInv, registryVars

\* A response ends the waiting of one number, and a listing enters the registry.
LEMMA ResolveKeeps ==
  ASSUME WaitInv, RouteInv, NEW s \in Servers, NEW n \in DOMAIN waits[s], NEW own \in BOOLEAN,
         Resolve(s, n, own), UNCHANGED messageId, strays' \in [Servers -> Nat],
         received' = [r \in Servers |-> received'[r]],
         \A r \in Servers : received'[r] \subseteq received[r]
  PROVE  /\ WaitInv' /\ RouteInv'
         /\ \A c \in McpCalls : outcome'[c] = outcome[c] \/ outcome'[c] = IF own THEN "own" ELSE "other"
<1> DEFINE w == waits[s][n]
<1>1. /\ waits' = [r \in Servers |-> waits'[r]]
      /\ \A r \in Servers : r # s => waits'[r] = waits[r]
      /\ DOMAIN waits'[s] = DOMAIN waits[s] \ {n}
      /\ \A m \in DOMAIN waits'[s] : waits'[s][m] = waits[s][m]
  BY DEF Resolve, Unless, WaitInv
<1>2. /\ outcome' = [c \in McpCalls |-> outcome'[c]]
      /\ \A c \in McpCalls : outcome'[c] = outcome[c] \/ outcome'[c] = IF own THEN "own" ELSE "other"
  BY DEF Resolve, WaitInv
<1>3. WaitInv' /\ \A r \in Servers : \A m : Asked(r, m)' => Asked(r, m)
  BY <1>1, <1>2, WaitsShrink
<1>4. CASE w = McpList
  <2>1. PICK T \in {{}} \cup (IF own THEN {Offers[s]} ELSE {}) : RegisterServer(s, T)
    BY <1>4 DEF Resolve
  <2>2. T \in SUBSET McpTools
    BY <2>1, McpAssumption
  <2>3. Asked(s, n) /\ conn[s] = "listing"
    BY <1>4 DEF Asked, RouteInv
  <2>4. /\ conn' = [r \in Servers |-> conn'[r]] /\ tools' = [r \in Servers |-> tools'[r]]
        /\ conn'[s] = "ready" /\ \A r \in Servers : r # s => conn'[r] = conn[r]
    BY <2>1 DEF RegisterServer, RouteInv
  <2>5. \A m : ~Asked(s, m)'
    <3>1. ~Asked(s, n)'
      BY <1>1 DEF Asked
    <3> QED BY <1>3, <2>3, <3>1 DEF RouteInv
  <2>6. ASSUME NEW r \in Servers, conn'[r] \in {"connecting", "listing"},
               NEW i \in DOMAIN servers'
        PROVE  servers'[i] # r
    <3>1. r # s /\ \A j \in DOMAIN servers : servers[j] # r
      BY <2>4, <2>6 DEF RouteInv
    <3>2. servers'[i] = s \/ \E j \in DOMAIN servers : servers[j] = servers'[i]
      BY <2>1, <2>2, <2>3, RegisterKeeps
    <3> QED BY <3>1, <3>2
  <2>7. \A r \in Servers : \A k, m : Asked(r, k)' => conn'[r] = "listing" /\ (Asked(r, m)' => m = k)
    BY <1>3, <2>4, <2>5 DEF RouteInv
  <2>8. RouteInv'
    BY <2>1, <2>2, <2>3, <2>4, <2>6, <2>7, RegisterKeeps DEF RouteInv
  <2> QED BY <1>2, <1>3, <2>8
<1>5. CASE w # McpList
  <2>1. UNCHANGED <<conn, registryVars>>
    BY <1>5 DEF Resolve
  <2> QED BY <1>2, <1>3, <2>1, RouteStays DEF RouteInv
<1> QED BY <1>4, <1>5

-----------------------------------------------------------------------------
\* It holds at the start,
LEMMA McpStart == McpInit => WaitInv /\ RouteInv /\ OwnAnswers
<1> SUFFICES ASSUME McpInit PROVE WaitInv /\ RouteInv /\ OwnAnswers
  OBVIOUS
<1>1. WaitInv /\ OwnAnswers
  BY DEF McpInit, WaitInv, OwnAnswers
<1>2. ShownIsCalled
  BY DEF McpInit, ShownIsCalled
<1> QED BY <1>1, <1>2 DEF McpInit, RouteInv, Asked

\* and every step keeps it.
LEMMA McpSteps == WaitInv /\ RouteInv /\ OwnAnswers /\ [McpNext]_mcpVars
                    => (WaitInv /\ RouteInv /\ OwnAnswers)'
<1> SUFFICES ASSUME WaitInv, RouteInv, OwnAnswers, [McpNext]_mcpVars
             PROVE  (WaitInv /\ RouteInv /\ OwnAnswers)'
  OBVIOUS
<1>1. ASSUME NEW s \in Servers, Connects(s) PROVE (WaitInv /\ RouteInv /\ OwnAnswers)'
  <2>1. conn[s] = "connecting" /\ Send(s, McpList) /\ UNCHANGED <<registryVars, outcome, strays>>
    BY <1>1 DEF Connects, restVars
  <2>2. /\ conn' = [r \in Servers |-> conn'[r]] /\ conn'[s] = "listing"
        /\ \A r \in Servers : r # s => conn'[r] = conn[r]
    BY <1>1 DEF Connects, RouteInv
  <2>3. \A n : ~Asked(s, n)
    BY <2>1 DEF RouteInv
  <2>4. WaitInv' /\ \A r \in Servers : r # s => waits'[r] = waits[r]
    BY <2>1, SendKeeps DEF WaitInv
  <2>5. \A n : Asked(s, n)' => n = messageId[s] + 1
    BY <2>1, <2>3, SendKeeps DEF Asked, WaitInv
  <2>6. \A r \in Servers : \A n, m : Asked(r, n)' => conn'[r] = "listing" /\ (Asked(r, m)' => m = n)
    BY <2>2, <2>4, <2>5 DEF RouteInv, Asked
  <2>7. ShownIsCalled'
    BY <2>1, ShownStays DEF RouteInv
  <2>8. RouteInv'
    BY <2>1, <2>2, <2>6, <2>7 DEF RouteInv, registryVars
  <2> QED BY <2>1, <2>4, <2>8 DEF OwnAnswers
<1>2. ASSUME NEW s \in Servers, ConnectFails(s) PROVE (WaitInv /\ RouteInv /\ OwnAnswers)'
  <2>1. UNCHANGED <<sendVars, registryVars, outcome, strays>> /\ conn[s] = "connecting"
    BY <1>2 DEF ConnectFails, restVars
  <2>2. conn' = [conn EXCEPT ![s] = "failed"]
    BY <1>2 DEF ConnectFails
  <2>3. \A r \in Servers : \A n : Asked(r, n)' => Asked(r, n) /\ r # s
    BY <2>1 DEF Asked, sendVars, RouteInv
  <2>4. RouteInv'
    BY <2>1, <2>2, <2>3, RouteStays DEF RouteInv
  <2> QED BY <2>1, <2>4 DEF WaitInv, OwnAnswers, sendVars
<1>3. ASSUME NEW c \in McpCalls, CallTool(c) PROVE (WaitInv /\ RouteInv /\ OwnAnswers)'
  <2> DEFINE t == ToolOf[c]
             s == route[t]
  <2>1. UNCHANGED <<conn, registryVars, strays>> /\ outcome[c] = "new"
    BY <1>3 DEF CallTool, restVars
  <2>2. PICK o \in {"waiting", "error"} : outcome' = [outcome EXCEPT ![c] = o]
    BY <1>3 DEF CallTool
  <2>3. outcome' = [d \in McpCalls |-> outcome'[d]] /\ OwnAnswers'
    BY <2>1, <2>2 DEF WaitInv, OwnAnswers
  <2>4. CASE t \in DOMAIN route /\ Send(s, c)
    <3>1. s \in Servers
      <4>1. t \in McpTools
        BY McpAssumption
      <4>2. Having(t) # {} /\ s = servers[Max(Having(t))]
        BY <2>4, <4>1 DEF RouteInv, ShownIsCalled, Having
      <4>3. Max(Having(t)) \in DOMAIN servers
        BY <4>2, LastHaving DEF Having
      <4> QED BY <4>2, <4>3 DEF RouteInv
    <3> HIDE DEF s
    <3>2. WaitInv' /\ \A r \in Servers : \A n : Asked(r, n)' => Asked(r, n)
      BY <2>1, <2>3, <2>4, <3>1, SendKeeps, McpAssumption DEF Asked
    <3> QED BY <2>1, <2>3, <3>2, RouteStays DEF RouteInv
  <2>5. CASE UNCHANGED sendVars
    <3>1. \A r \in Servers : \A n : Asked(r, n)' => Asked(r, n)
      BY <2>5 DEF Asked, sendVars
    <3>2. RouteInv'
      BY <2>1, <3>1, RouteStays DEF RouteInv
    <3> QED BY <2>1, <2>3, <2>5, <3>2 DEF WaitInv, sendVars
  <2> QED BY <1>3, <2>4, <2>5 DEF CallTool
<1>4. ASSUME NEW s \in Servers, NEW q \in received[s], Response(s, q)
      PROVE  (WaitInv /\ RouteInv /\ OwnAnswers)'
  <2>1. /\ UNCHANGED <<messageId, strays>> /\ strays' \in [Servers -> Nat]
        /\ received' = [r \in Servers |-> received'[r]]
        /\ \A r \in Servers : received'[r] \subseteq received[r]
    BY <1>4 DEF Response, restVars, WaitInv
  <2>2. CASE q.id \in DOMAIN waits[s]
    <3>1. Resolve(s, q.id, TRUE)
      BY <1>4, <2>2 DEF Response, WaitInv
    <3>2. /\ WaitInv' /\ RouteInv'
          /\ \A c \in McpCalls : outcome'[c] = outcome[c] \/ outcome'[c] = "own"
      BY <2>1, <2>2, <3>1, ResolveKeeps
    <3> QED BY <2>1, <3>2 DEF OwnAnswers
  <2>3. CASE UNCHANGED <<waits, conn, registryVars, outcome>>
    <3>1. WaitInv' /\ \A r \in Servers : \A n : Asked(r, n)' => Asked(r, n)
      BY <2>1, <2>3, WaitsShrink DEF WaitInv
    <3>2. RouteInv'
      BY <2>3, <3>1, RouteStays DEF RouteInv
    <3> QED BY <2>1, <2>3, <3>1, <3>2 DEF OwnAnswers
  <2> QED BY <1>4, <2>2, <2>3 DEF Response
<1>5. ASSUME NEW s \in Servers, NEW n, Stray(s, n) PROVE (WaitInv /\ RouteInv /\ OwnAnswers)'
  <2>1. /\ UNCHANGED <<messageId, received>> /\ strays' \in [Servers -> Nat] /\ strays'[s] # 0
        /\ received' = [r \in Servers |-> received'[r]]
    BY <1>5 DEF Stray, WaitInv
  <2>2. OwnAnswers'
    BY <2>1 DEF OwnAnswers
  <2>3. CASE n \in DOMAIN waits[s]
    <3>1. Resolve(s, n, FALSE)
      BY <1>5, <2>3 DEF Stray
    <3> QED BY <2>1, <2>2, <2>3, <3>1, ResolveKeeps
  <2>4. CASE UNCHANGED <<waits, conn, registryVars, outcome>>
    <3>1. WaitInv' /\ \A r \in Servers : \A m : Asked(r, m)' => Asked(r, m)
      BY <2>1, <2>4, WaitsShrink DEF WaitInv
    <3>2. RouteInv'
      BY <2>4, <3>1, RouteStays DEF RouteInv
    <3> QED BY <2>2, <3>1, <3>2
  <2> QED BY <1>5, <2>3, <2>4 DEF Stray
<1>6. ASSUME NEW s \in Servers, NEW n, RequestFails(s, n)
      PROVE  (WaitInv /\ RouteInv /\ OwnAnswers)'
  <2>1. /\ UNCHANGED <<messageId, received, registryVars, strays>> /\ Reject(s, {n})
        /\ waits' = [waits EXCEPT ![s] = Unless(@, {n})] /\ n \in DOMAIN waits[s]
    BY <1>6 DEF RequestFails
  <2>2. /\ outcome' = [c \in McpCalls |-> outcome'[c]]
        /\ \A c \in McpCalls : outcome'[c] = outcome[c] \/ outcome'[c] = "error"
    BY <2>1 DEF Reject
  <2>3. WaitInv' /\ \A r \in Servers : \A m : Asked(r, m)' => Asked(r, m)
    BY <2>1, <2>2, WaitsShrink DEF WaitInv, Unless
  <2>4. /\ conn' = [r \in Servers |-> conn'[r]]
        /\ \A r \in Servers : conn'[r] = conn[r] \/ (r = s /\ Asked(s, n) /\ conn'[s] = "failed")
    BY <2>1 DEF Reject, RouteInv, Asked
  <2>5. ~Asked(s, n)'
    BY <2>1 DEF Asked, Unless, WaitInv
  <2>6. RouteInv'
    BY <2>1, <2>3, <2>4, <2>5, RouteStays DEF RouteInv
  <2> QED BY <2>1, <2>2, <2>3, <2>6 DEF OwnAnswers
<1>7. ASSUME NEW s \in Servers, LinkEnds(s) \/ LinkBreaks(s)
      PROVE  (WaitInv /\ RouteInv /\ OwnAnswers)'
  <2>1. /\ UNCHANGED <<conn, messageId, waits, registryVars, outcome, strays>>
        /\ received' = [received EXCEPT ![s] = {}]
    BY <1>7 DEF LinkEnds, LinkBreaks, restVars
  <2>2. WaitInv' /\ \A r \in Servers : \A m : Asked(r, m)' => Asked(r, m)
    BY <2>1, WaitsShrink DEF WaitInv
  <2>3. RouteInv'
    BY <2>1, <2>2, RouteStays DEF RouteInv
  <2> QED BY <2>1, <2>2, <2>3 DEF OwnAnswers
<1>8. CASE McpShutdown
  <2> DEFINE S == {s \in Servers : conn[s] = "ready"}
  <2>1. /\ Closed(S) /\ UNCHANGED <<messageId, strays>>
        /\ conn' = [s \in Servers |-> IF s \in S THEN "closed" ELSE conn[s]]
        /\ servers' = <<>> /\ route' = [t \in {} |-> McpList]
        /\ tools' = [s \in Servers |-> {}]
    BY <1>8 DEF McpShutdown
  <2>2. WaitInv' /\ \A r \in Servers : \A m : Asked(r, m)' => Asked(r, m)
    BY <2>1, WaitsShrink DEF WaitInv, Closed, Unless
  <2>3. ShownIsCalled'
    BY <2>1 DEF ShownIsCalled
  <2>4. \A r \in Servers : \A n, m : Asked(r, n)' => conn'[r] = "listing" /\ (Asked(r, m)' => m = n)
    BY <2>1, <2>2 DEF RouteInv
  <2>5. RouteInv'
    BY <2>1, <2>3, <2>4 DEF RouteInv
  <2>6. OwnAnswers'
    BY <2>1 DEF OwnAnswers, Closed
  <2> QED BY <2>2, <2>5, <2>6
<1>9. CASE UNCHANGED mcpVars
  <2>1. UNCHANGED <<conn, messageId, waits, received, registryVars, outcome, strays>>
    BY <1>9 DEF mcpVars, registryVars
  <2>2. WaitInv' /\ OwnAnswers'
    BY <2>1 DEF WaitInv, OwnAnswers
  <2>3. \A s \in Servers : \A n : Asked(s, n)' => Asked(s, n) /\ conn'[s] = conn[s]
    BY <2>1 DEF Asked
  <2>4. conn' = [s \in Servers |-> conn'[s]]
    BY <2>1 DEF RouteInv
  <2>5. RouteInv'
    BY <2>1, <2>3, <2>4, RouteStays
  <2> QED BY <2>2, <2>5
<1> QED BY <1>1, <1>2, <1>3, <1>4, <1>5, <1>6, <1>7, <1>8, <1>9 DEF McpNext

\* A model calls the server it was shown, and a late answer never becomes the
\* answer of another call.
THEOREM CallsAnsweredRight == McpSpec => []AnswersRight
<1>1. McpSpec => [](WaitInv /\ RouteInv /\ OwnAnswers)
  BY McpStart, McpSteps, PTL DEF McpSpec
<1>2. WaitInv /\ RouteInv /\ OwnAnswers => AnswersRight
  BY DEF RouteInv, AnswersRight
<1> QED BY <1>1, <1>2, PTL

-----------------------------------------------------------------------------
(* The types.  The coalescer subtracts from its count what a bucket holds:   *)
(* it stays a number because it covers the places of all messages that are   *)
(* in a bucket.  The others need what was proved of them above.              *)

\* The places of the messages in the buckets.
Places(ms) == {p \in Keys \X Nat : p[2] \in DOMAIN ms[p[1]]}

\* The count of messages covers them all: flushAll empties the buckets and
\* keeps it.
Covers(n, ms) == IsFiniteSet(Places(ms)) /\ Cardinality(Places(ms)) <= n

CoalescerInv == CoalescerTypeOK /\ Covers(totalPendingCount, messages)

\* A message more takes one place,
LEMMA PlaceTaken ==
  ASSUME NEW ms \in [Keys -> Seq(Messages)], NEW k \in Keys, NEW m \in Messages,
         NEW n \in Nat, Covers(n, ms)
  PROVE  Covers(n + 1, [ms EXCEPT ![k] = Append(@, m)])
<1>1. PICK s \in Seq(Messages) : s = ms[k]
  OBVIOUS
<1>2. PICK i \in Nat : i = Len(s) + 1
  OBVIOUS
<1>3. PICK ns : ns = [ms EXCEPT ![k] = Append(@, m)]
  OBVIOUS
<1>4. ns[k] = Append(s, m) /\ \A j \in Keys : j # k => ns[j] = ms[j]
  BY <1>1, <1>3
<1>5. DOMAIN ns[k] = DOMAIN s \cup {i}
  BY <1>2, <1>4, AppendProperties
<1>6. Places(ns) = Places(ms) \cup {<<k, i>>}
  <2>1. ASSUME NEW p \in Keys \X Nat PROVE p \in Places(ns) <=> p \in Places(ms) \cup {<<k, i>>}
    <3>1. PICK j \in Keys, h \in Nat : p = <<j, h>>
      OBVIOUS
    <3>2. p \in Places(ns) <=> h \in DOMAIN ns[j]
      BY <3>1 DEF Places
    <3>3. p \in Places(ms) <=> h \in DOMAIN ms[j]
      BY <3>1 DEF Places
    <3>4. CASE j = k
      BY <1>1, <1>5, <3>1, <3>2, <3>3, <3>4
    <3>5. CASE j # k
      BY <1>4, <3>1, <3>2, <3>3, <3>5
    <3> QED BY <3>4, <3>5
  <2> QED BY <2>1 DEF Places
<1>7. IsFiniteSet(Places(ms)) /\ Cardinality(Places(ms)) \in Nat /\ Cardinality(Places(ms)) <= n
  BY FS_CardinalityType DEF Covers
<1>8. IsFiniteSet(Places(ns)) /\ Cardinality(Places(ns)) <= Cardinality(Places(ms)) + 1
  <2>1. PICK x : x = <<k, i>>
    OBVIOUS
  <2>2. PICK t : t = Places(ms)
    OBVIOUS
  <2>3. IsFiniteSet(t \cup {x}) /\ Cardinality(t \cup {x}) = IF x \in t THEN Cardinality(t) ELSE Cardinality(t) + 1
    BY <1>7, <2>2, FS_AddElement
  <2>4. Cardinality(t \cup {x}) <= Cardinality(t) + 1
    BY <1>7, <2>2, <2>3
  <2>5. Places(ns) = t \cup {x}
    BY <1>6, <2>1, <2>2
  <2> QED BY <2>2, <2>3, <2>4, <2>5
<1>9. Cardinality(Places(ns)) \in Nat
  BY <1>8, FS_CardinalityType
<1> QED BY <1>3, <1>7, <1>8, <1>9 DEF Covers

\* and a bucket that is flushed frees as many as it has messages.
LEMMA PlacesFreed ==
  ASSUME NEW ms \in [Keys -> Seq(Messages)], NEW k \in Keys, NEW n \in Nat, Covers(n, ms)
  PROVE  n - Len(ms[k]) \in Nat /\ Covers(n - Len(ms[k]), [ms EXCEPT ![k] = <<>>])
<1>1. PICK s \in Seq(Messages) : s = ms[k]
  OBVIOUS
<1>2. PICK l \in Nat : l = Len(s) /\ DOMAIN s = 1 .. l
  OBVIOUS
<1>3. PICK ns : ns = [ms EXCEPT ![k] = <<>>]
  OBVIOUS
<1>4. ns[k] = <<>> /\ \A j \in Keys : j # k => ns[j] = ms[j]
  BY <1>3
<1> DEFINE own == {k} \X (1 .. l)
<1>5. own \subseteq Places(ms)
  BY <1>1, <1>2 DEF Places
<1>6. Places(ns) = Places(ms) \ own
  <2>1. ASSUME NEW p \in Keys \X Nat PROVE p \in Places(ns) <=> p \in Places(ms) \ own
    <3>1. PICK j \in Keys, h \in Nat : p = <<j, h>>
      OBVIOUS
    <3>2. p \in Places(ns) <=> h \in DOMAIN ns[j]
      BY <3>1 DEF Places
    <3>3. p \in Places(ms) <=> h \in DOMAIN ms[j]
      BY <3>1 DEF Places
    <3>4. p \in own <=> j = k /\ h \in 1 .. l
      BY <3>1
    <3>5. CASE j = k
      BY <1>1, <1>2, <1>4, <3>2, <3>3, <3>4, <3>5
    <3>6. CASE j # k
      BY <1>4, <3>2, <3>3, <3>4, <3>6
    <3> QED BY <3>5, <3>6
  <2> QED BY <2>1 DEF Places
<1>7. IsFiniteSet(own) /\ Cardinality(own) = l
  <2>1. IsFiniteSet({k}) /\ Cardinality({k}) = 1
    BY FS_Singleton
  <2>2. IsFiniteSet(1 .. l) /\ Cardinality(1 .. l) = l
    BY FS_Interval
  <2>3. IsFiniteSet(own) /\ Cardinality(own) = 1 * l
    BY <2>1, <2>2, FS_Product
  <2> QED BY <2>3
<1>8. IsFiniteSet(Places(ms)) /\ Cardinality(Places(ms)) \in Nat /\ Cardinality(Places(ms)) <= n
  BY FS_CardinalityType DEF Covers
<1>9. Places(ms) \cap own = own
  BY <1>5
<1> HIDE DEF own
<1>10. l <= Cardinality(Places(ms))
  BY <1>5, <1>7, <1>8, FS_Subset
<1>11. IsFiniteSet(Places(ns)) /\ Cardinality(Places(ns)) = Cardinality(Places(ms)) - l
  BY <1>6, <1>7, <1>8, <1>9, FS_Difference
<1>12. n - l \in Nat /\ Cardinality(Places(ns)) <= n - l
  BY <1>8, <1>10, <1>11
<1> QED BY <1>1, <1>2, <1>3, <1>11, <1>12 DEF Covers

\* Buckets without messages take no place.
LEMMA NoPlaces ==
  ASSUME NEW n \in Nat
  PROVE  Covers(n, [k \in Keys |-> <<>>])
<1>1. Places([k \in Keys |-> <<>>]) = {}
  BY DEF Places
<1> QED BY <1>1, FS_EmptySet DEF Covers

\* What is delivered is counted.
LEMMA DeliverType ==
  ASSUME NEW batch \in Seq(Messages), Deliver(batch), delivered \in [Messages -> Nat]
  PROVE  delivered' \in [Messages -> Nat]
<1>1. ASSUME NEW m \in Messages PROVE Cardinality({i \in DOMAIN batch : batch[i] = m}) \in Nat
  <2>1. IsFiniteSet(1 .. Len(batch))
    BY FS_Interval
  <2>2. {i \in DOMAIN batch : batch[i] = m} \subseteq 1 .. Len(batch)
    OBVIOUS
  <2> QED BY <2>1, <2>2, FS_Subset, FS_CardinalityType
<1> QED BY <1>1 DEF Deliver

\* It holds at the start,
LEMMA CoalescerTypesStart == CoalescerInit => CoalescerInv
<1> SUFFICES ASSUME CoalescerInit PROVE CoalescerInv
  OBVIOUS
<1>1. Covers(totalPendingCount, messages)
  BY NoPlaces DEF CoalescerInit
<1>2. CoalescerTypeOK
  <2>1. <<>> \in Seq(Messages)
    OBVIOUS
  <2>2. messages \in [Keys -> Seq(Messages)] /\ \A k \in Keys : messages[k] = <<>>
    BY <2>1 DEF CoalescerInit
  <2>3. delivered \in [Messages -> Nat]
    BY DEF CoalescerInit
  <2> QED BY <2>2, <2>3 DEF CoalescerInit, CoalescerTypeOK
<1> QED BY <1>1, <1>2 DEF CoalescerInv

\* and every step keeps it.
LEMMA CoalescerTypesStep ==
  ASSUME CoalescerInv, [CoalescerNext]_coalescerVars
  PROVE  CoalescerInv'
<1>0. /\ buckets \subseteq Keys /\ messages \in [Keys -> Seq(Messages)]
      /\ \A k \in Keys \ buckets : messages[k] = <<>>
      /\ \A t \in timers : t.key \in Keys /\ t.left \in 0 .. MaxCoalesceMs
      /\ totalPendingCount \in Nat /\ destroying \in BOOLEAN /\ flushedAll \in BOOLEAN
      /\ delivered \in [Messages -> Nat] /\ dropped \in SUBSET Messages
      /\ Covers(totalPendingCount, messages)
  BY DEF CoalescerInv, CoalescerTypeOK
<1>1. ASSUME NEW m \in Messages, AddDropped(m) PROVE CoalescerInv'
  BY <1>0, <1>1 DEF AddDropped, CoalescerInv, CoalescerTypeOK
<1>2. ASSUME NEW m \in Messages, AddBypassing(m) PROVE CoalescerInv'
  <2>1. delivered' \in [Messages -> Nat]
    <3>1. <<m>> \in Seq(Messages)
      OBVIOUS
    <3> QED BY <1>0, <1>2, <3>1, DeliverType DEF AddBypassing
  <2> QED BY <1>0, <1>2, <2>1 DEF AddBypassing, CoalescerInv, CoalescerTypeOK
<1>3. ASSUME NEW m \in Messages, AddToBucket(m) PROVE CoalescerInv'
  <2>1. PICK k \in Keys : k = KeyOf[m]
    BY DEF Keys
  <2>2. /\ buckets' = buckets \cup {k} /\ messages' = [messages EXCEPT ![k] = Append(@, m)]
        /\ totalPendingCount' = totalPendingCount + 1 /\ timers' = Rearmed(k)
        /\ UNCHANGED <<destroying, delivered, dropped, flushedAll>>
    BY <1>3, <2>1 DEF AddToBucket
  <2>3. Covers(totalPendingCount', messages')
    BY <1>0, <2>2, PlaceTaken
  <2>4. /\ messages' \in [Keys -> Seq(Messages)] /\ buckets' \subseteq Keys
        /\ \A j \in Keys \ buckets' : messages'[j] = <<>>
    BY <1>0, <2>2
  <2>5. ASSUME NEW t \in timers' PROVE t.key \in Keys /\ t.left \in 0 .. MaxCoalesceMs
    <3>1. t \in timers \/ t = Timer("maxWait", k, MaxCoalesceMs) \/ t = Timer("debounce", k, DebounceMs)
      BY <2>2 DEF Rearmed
    <3>2. MaxCoalesceMs \in 0 .. MaxCoalesceMs /\ DebounceMs \in 0 .. MaxCoalesceMs
      BY CoalescerAssumption
    <3> QED BY <1>0, <3>1, <3>2 DEF Timer
  <2> QED BY <1>0, <2>2, <2>3, <2>4, <2>5 DEF CoalescerInv, CoalescerTypeOK
<1>4. CASE Fire
  <2>1. PICK t \in timers : FlushBucket(t) /\ UNCHANGED <<destroying, dropped, flushedAll>>
    BY <1>4 DEF Fire, Due
  <2>2. PICK k \in Keys : k = t.key
    BY <1>0
  <2>3. CASE k \in buckets
    <3>1. /\ buckets' = buckets \ {k} /\ messages' = [messages EXCEPT ![k] = <<>>]
          /\ totalPendingCount' = totalPendingCount - Len(messages[k])
          /\ timers' \subseteq timers /\ Deliver(messages[k])
      BY <2>1, <2>2, <2>3 DEF FlushBucket
    <3>2. totalPendingCount' \in Nat /\ Covers(totalPendingCount', messages')
      BY <1>0, <3>1, PlacesFreed
    <3>3. delivered' \in [Messages -> Nat]
      BY <1>0, <3>1, DeliverType
    <3>4. /\ messages' \in [Keys -> Seq(Messages)] /\ buckets' \subseteq Keys
          /\ \A j \in Keys \ buckets' : messages'[j] = <<>>
      BY <1>0, <3>1
    <3> QED BY <1>0, <2>1, <3>1, <3>2, <3>3, <3>4 DEF CoalescerInv, CoalescerTypeOK
  <2>4. CASE k \notin buckets
    <3>1. timers' \subseteq timers /\ UNCHANGED <<buckets, messages, totalPendingCount, delivered>>
      BY <2>1, <2>2, <2>4 DEF FlushBucket
    <3> QED BY <1>0, <2>1, <3>1 DEF CoalescerInv, CoalescerTypeOK
  <2> QED BY <2>3, <2>4
<1>5. CASE FlushAll \/ Destroy
  <2>1. /\ timers' \subseteq timers /\ messages' = [k \in Keys |-> <<>>] /\ buckets' \subseteq buckets
        /\ delivered' = [m \in Messages |-> IF m \in Pending THEN delivered[m] + 1 ELSE delivered[m]]
        /\ totalPendingCount' \in Nat /\ destroying' \in BOOLEAN /\ flushedAll' \in BOOLEAN
        /\ dropped' = dropped
    <3>1. CASE FlushAll
      BY <1>0, <3>1 DEF FlushAll
    <3>2. CASE Destroy
      BY <1>0, <3>2 DEF Destroy
    <3> QED BY <1>5, <3>1, <3>2
  <2>2. Covers(totalPendingCount', messages')
    BY <2>1, NoPlaces
  <2>3. delivered' \in [Messages -> Nat] /\ messages' \in [Keys -> Seq(Messages)]
    BY <1>0, <2>1
  <2> QED BY <1>0, <2>1, <2>2, <2>3 DEF CoalescerInv, CoalescerTypeOK
<1>6. CASE CoalescerTick
  <2>1. /\ timers' = {[t EXCEPT !.left = @ - 1] : t \in timers}
        /\ UNCHANGED <<buckets, messages, totalPendingCount, destroying, delivered, dropped, flushedAll>>
    BY <1>6 DEF CoalescerTick
  <2>2. ASSUME NEW t \in timers' PROVE t.key \in Keys /\ t.left \in 0 .. MaxCoalesceMs
    <3>1. PICK u \in timers : t = [u EXCEPT !.left = @ - 1]
      BY <2>1
    <3>2. u.left # 0 /\ u.left \in 0 .. MaxCoalesceMs /\ u.key \in Keys
      BY <1>0, <1>6 DEF CoalescerTick, Due
    <3>3. MaxCoalesceMs \in Nat
      BY CoalescerAssumption
    <3>4. t.key = u.key /\ t.left = u.left - 1
      BY <3>1
    <3> QED BY <3>2, <3>3, <3>4
  <2> QED BY <1>0, <2>1, <2>2 DEF CoalescerInv, CoalescerTypeOK
<1>7. CASE UNCHANGED coalescerVars
  BY <1>0, <1>7 DEF coalescerVars, CoalescerInv, CoalescerTypeOK
<1> QED BY <1>1, <1>2, <1>3, <1>4, <1>5, <1>6, <1>7 DEF CoalescerNext, Add

\* A result takes the place of the oldest when there are too many.
LEMMA RetainType ==
  ASSUME results \in Seq(Branch), NEW b \in Branch
  PROVE  Retain(b) \in Seq(Branch)
<1>1. CASE Len(results) + 1 > MaxResults
  <2>1. results # <<>>
    BY <1>1, BranchesAssumption
  <2>2. Tail(results) \in Seq(Branch)
    BY <2>1
  <2> QED BY <1>1, <2>2 DEF Retain
<1>2. CASE ~(Len(results) + 1 > MaxResults)
  BY <1>2 DEF Retain
<1> QED BY <1>1, <1>2

\* A branch has finitely many siblings.
LEMMA FiniteSiblings ==
  ASSUME NEW b \in Branch, NEW S \in SUBSET Siblings(b)
  PROVE  Cardinality(S) \in Nat
<1>1. PICK q \in BrRequests, n \in 1 .. MaxBranches : b = <<q, n>>
  BY DEF Branch
<1>2. IsFiniteSet({q} \X (1 .. MaxBranches))
  <2>1. IsFiniteSet({q})
    BY FS_Singleton
  <2>2. IsFiniteSet(1 .. MaxBranches)
    BY BranchesAssumption, FS_Interval
  <2> QED BY <2>1, <2>2, FS_Product
<1>3. S \subseteq {q} \X (1 .. MaxBranches)
  <2>1. ASSUME NEW c \in S PROVE c \in {q} \X (1 .. MaxBranches)
    <3>1. c \in Branch /\ c[1] = b[1]
      BY DEF Siblings
    <3>2. PICK r \in BrRequests, m \in 1 .. MaxBranches : c = <<r, m>>
      BY <3>1 DEF Branch
    <3> QED BY <1>1, <3>1, <3>2
  <2> QED BY <2>1
<1> QED BY <1>2, <1>3, FS_Subset, FS_CardinalityType

\* It holds at the start,
LEMMA BranchesStart == BranchesInit => BranchesTypeOK
BY DEF BranchesInit, BranchesTypeOK

\* and every step keeps it.
LEMMA BranchesSteps == BranchesTypeOK /\ [BranchesNext]_brVars => BranchesTypeOK'
<1> SUFFICES ASSUME BranchesTypeOK, [BranchesNext]_brVars PROVE BranchesTypeOK'
  OBVIOUS
<1>0. /\ brPhase \in [BrRequests -> {"idle", "branching", "single", "done", "failed"}]
      /\ branch \in [Branch -> {"idle", "racing", "success", "aborted", "error"}]
      /\ agentRun \in [Branch -> BOOLEAN]
      /\ results \in Seq(Branch)
  BY DEF BranchesTypeOK
<1>1. ASSUME NEW q \in BrRequests, ExecuteBranches(q) PROVE BranchesTypeOK'
  <2>1. branch' \in [Branch -> {"idle", "racing", "success", "aborted", "error"}]
    BY <1>0, <1>1 DEF ExecuteBranches
  <2>2. agentRun' \in [Branch -> BOOLEAN]
    <3>1. \A b \in Branch : (b[1] = q \/ agentRun[b]) \in BOOLEAN
      OBVIOUS
    <3> QED BY <1>1, <3>1 DEF ExecuteBranches
  <2>3. brPhase' \in [BrRequests -> {"idle", "branching", "single", "done", "failed"}] /\ results' = results
    BY <1>0, <1>1 DEF ExecuteBranches
  <2> QED BY <1>0, <2>1, <2>2, <2>3 DEF BranchesTypeOK
<1>2. ASSUME NEW q \in BrRequests, SingleReturns(q) PROVE BranchesTypeOK'
  BY <1>0, <1>2 DEF SingleReturns, BranchesTypeOK
<1>3. ASSUME NEW b \in Branch, Succeeds(b) PROVE BranchesTypeOK'
  <2> DEFINE S == {c \in Siblings(b) : branch[c] = "racing"}
  <2>1. PICK order \in [1 .. Cardinality(S) -> S] : results' = Retain(b) \o order
    BY <1>3 DEF Succeeds
  <2>2. order \in Seq(Branch)
    <3>1. Cardinality(S) \in Nat
      BY FiniteSiblings
    <3>2. S \subseteq Branch
      BY DEF Siblings
    <3> HIDE DEF S
    <3> QED BY <2>1, <3>1, <3>2
  <2>3. results' \in Seq(Branch)
    BY <1>0, <2>1, <2>2, RetainType
  <2>4. branch' \in [Branch -> {"idle", "racing", "success", "aborted", "error"}]
    BY <1>0, <1>3 DEF Succeeds
  <2>5. brPhase' \in [BrRequests -> {"idle", "branching", "single", "done", "failed"}]
    BY <1>0, <1>3 DEF Succeeds
  <2>6. agentRun' \in [Branch -> BOOLEAN]
    BY <1>0, <1>3 DEF Succeeds
  <2> QED BY <2>3, <2>4, <2>5, <2>6 DEF BranchesTypeOK
<1>4. ASSUME NEW b \in Branch, AgentErrs(b) \/ TimesOut(b) PROVE BranchesTypeOK'
  <2>1. BranchErrs(b) /\ agentRun' \in [Branch -> BOOLEAN]
    BY <1>0, <1>4 DEF AgentErrs, TimesOut
  <2>2. results' \in Seq(Branch)
    BY <1>0, <2>1 DEF BranchErrs
  <2>3. branch' \in [Branch -> {"idle", "racing", "success", "aborted", "error"}]
    BY <1>0, <2>1 DEF BranchErrs
  <2>4. brPhase' \in [BrRequests -> {"idle", "branching", "single", "done", "failed"}]
    BY <1>0, <2>1 DEF BranchErrs
  <2> QED BY <2>1, <2>2, <2>3, <2>4 DEF BranchesTypeOK
<1>5. ASSUME NEW b \in Branch, LateReturn(b) PROVE BranchesTypeOK'
  BY <1>0, <1>5 DEF LateReturn, BranchesTypeOK
<1>6. CASE UNCHANGED brVars
  BY <1>6 DEF brVars, BranchesTypeOK
<1> QED BY <1>1, <1>2, <1>3, <1>4, <1>5, <1>6 DEF BranchesNext

-----------------------------------------------------------------------------
\* The ids of members, and the ids that may vote.
SeatTypes(f) == DOMAIN f \subseteq People /\ \A u \in DOMAIN f : f[u] \in {<<"config", u>>, <<"human", u>>}
Voters == AiMembers \cup CmtIds
Statuses == {"pending", "approved", "rejected", "deferred"}

\* A seat is an id.
LEMMA SeatIds ==
  ASSUME SeatTypes(seat), NEW u \in Members
  PROVE  u \in People /\ seat[u] \in CmtIds
BY DEF SeatTypes, Members, CmtIds

\* Votes that may be recorded of the current proposal.
LEMMA CollectTypes ==
  ASSUME VoteInv, CommitteeTypeOK, Collecting, NEW vs, DOMAIN vs \subseteq Voters,
         UNCHANGED <<seat, proposed>>,
         \/ Adjudicate(current, vs) /\ sends' = {}
         \/ AwaitPeople(current, vs) /\ sends' = {}
         \/ /\ votes' = [votes EXCEPT ![current] = vs] /\ UNCHANGED <<standing, current>>
            /\ phase' \in {"sends", "people"} /\ sends' \subseteq CmtIds /\ (sends' # {} => phase' = "sends")
  PROVE  CommitteeTypeOK'
<1>1. current \in CmtProposals /\ current \in DOMAIN standing /\ current # 0 /\ votes = [p \in CmtProposals |-> votes[p]]
  BY CommitteeAssumption DEF VoteInv, OnePending, ByProposal, CmtProposals
<1>2. votes' = [votes EXCEPT ![current] = vs] /\ sends' \subseteq CmtIds
  BY DEF Adjudicate, AwaitPeople
<1>3. \A p \in CmtProposals : DOMAIN votes'[p] \subseteq Voters
  BY <1>1, <1>2 DEF CommitteeTypeOK, Voters
<1>4. Verdict(vs) \in Statuses
  BY DEF Verdict, Statuses
<1>5. DOMAIN standing' = DOMAIN standing /\ \A p \in DOMAIN standing' : standing'[p] \in Statuses
  BY <1>1, <1>4 DEF Adjudicate, AwaitPeople, CommitteeTypeOK, Statuses
<1>6. /\ phase' \in {"none", "sends", "people", "announced"}
      /\ (phase' = "none") = (current' = 0) /\ (sends' # {} => phase' = "sends")
  <2>1. CASE Adjudicate(current, vs) /\ sends' = {}
    BY <1>1, <2>1 DEF Adjudicate
  <2>2. CASE AwaitPeople(current, vs) /\ sends' = {}
    BY <1>1, <2>2 DEF Adjudicate, AwaitPeople
  <2>3. CASE /\ UNCHANGED current /\ phase' \in {"sends", "people"} /\ (sends' # {} => phase' = "sends")
    BY <1>1, <2>3
  <2> QED BY <2>1, <2>2, <2>3
<1> QED BY <1>2, <1>3, <1>5, <1>6 DEF CommitteeTypeOK, Voters, Statuses, Members

\* It holds at the start,
LEMMA CommitteeTypesStart == CommitteeInit => CommitteeTypeOK
BY CommitteeAssumption DEF CommitteeInit, CommitteeTypeOK, Members, Empty, CmtProposals

\* and every step keeps it.
LEMMA CommitteeTypesStep == VoteInv /\ CommitteeTypeOK /\ [CommitteeNext]_cmtVars => CommitteeTypeOK'
<1> SUFFICES ASSUME VoteInv, CommitteeTypeOK, [CommitteeNext]_cmtVars PROVE CommitteeTypeOK'
  OBVIOUS
<1>0. /\ SeatTypes(seat) /\ DOMAIN standing \subseteq 1 .. proposed /\ proposed \in Nat
      /\ \A p \in DOMAIN standing : standing[p] \in Statuses
      /\ phase \in {"none", "ai", "sends", "people", "announced"} /\ (phase = "none") = (current = 0)
      /\ sends \subseteq CmtIds /\ (sends # {} => phase = "sends")
      /\ \A p \in CmtProposals : DOMAIN votes[p] \subseteq Voters
      /\ (Collecting => current \in CmtProposals)
  <2>1. proposed \in Nat /\ (Collecting => current \in CmtProposals)
    BY CommitteeAssumption DEF VoteInv, OnePending, CmtProposals
  <2> QED BY <2>1 DEF CommitteeTypeOK, SeatTypes, Members, Statuses, Voters
<1>1. CASE Propose
  <2>1. /\ proposed' = proposed + 1 /\ standing' = With(standing, proposed + 1, "pending")
        /\ current' = proposed + 1 /\ phase' = "ai" /\ phase = "none" /\ UNCHANGED <<votes, sends, seat>>
    BY <1>0, <1>1 DEF Propose, memberVars
  <2>2. DOMAIN standing' \subseteq 1 .. proposed' /\ \A p \in DOMAIN standing' : standing'[p] \in Statuses
    BY <1>0, <2>1 DEF With, Statuses
  <2>3. current' # 0 /\ sends' = {}
    BY <1>0, <2>1
  <2> QED BY <1>0, <2>1, <2>2, <2>3 DEF CommitteeTypeOK, SeatTypes, Members, Statuses, Voters
<1>2. CASE AiVotesIn
  <2>1. PICK vs \in [AiMembers -> {Cast(v, "given", 1) : v \in VoteOptions} \cup {Cast("defer", "failed", 1)}] :
          IF Members # {}
          THEN /\ votes' = [votes EXCEPT ![current] = vs]
               /\ phase' = "sends"
               /\ sends' = {seat[u] : u \in Members}
               /\ UNCHANGED <<standing, current>>
          ELSE Adjudicate(current, vs) /\ UNCHANGED sends
    BY <1>2 DEF AiVotesIn
  <2>2. DOMAIN vs \subseteq Voters
    BY DEF Voters
  <2>3. {seat[u] : u \in Members} \subseteq CmtIds /\ sends = {}
    BY <1>0, <1>2, SeatIds DEF AiVotesIn
  <2>4. Collecting /\ UNCHANGED <<seat, proposed>>
    BY <1>2 DEF AiVotesIn, Collecting, memberVars
  <2> QED BY <2>1, <2>2, <2>3, <2>4, CollectTypes
<1>3. ASSUME NEW i \in CmtIds, SendEnds(i) PROVE CommitteeTypeOK'
  <2>1. PICK failed \in BOOLEAN :
          LET vs == IF failed THEN With(votes[current], i, Cast("defer", "failed", HumanWeight))
                    ELSE votes[current]
          IN IF sends' = {}
             THEN AwaitPeople(current, vs)
             ELSE /\ votes' = [votes EXCEPT ![current] = vs]
                  /\ UNCHANGED <<standing, current, phase, counted>>
    BY <1>3 DEF SendEnds
  <2>2. PICK vs : vs = IF failed THEN With(votes[current], i, Cast("defer", "failed", HumanWeight))
                       ELSE votes[current]
    OBVIOUS
  <2>3. Collecting /\ phase = "sends" /\ sends' \subseteq CmtIds /\ UNCHANGED <<seat, proposed>>
    BY <1>0, <1>3 DEF SendEnds, Collecting, memberVars
  <2>4. DOMAIN vs \subseteq Voters
    BY <1>0, <2>2, <2>3 DEF With, Voters
  <2> QED BY <2>1, <2>2, <2>3, <2>4, CollectTypes
<1>4. ASSUME NEW u \in People, NEW p \in CmtProposals, NEW v \in VoteOptions, Vote(u, p, v)
      PROVE  CommitteeTypeOK'
  <2>1. Collecting /\ p = current /\ UNCHANGED <<seat, proposed, sends>> /\ u \in Members
    BY <1>4 DEF Vote, VoteInv, OnePending, memberVars
  <2>2. PICK vs : vs = With(votes[p], seat[u], Cast(v, "given", HumanWeight))
    OBVIOUS
  <2>3. DOMAIN vs \subseteq Voters
    BY <1>0, <2>1, <2>2, SeatIds DEF With, Voters
  <2>4. CASE phase = "people"
    <3>1. AwaitPeople(current, vs) /\ sends' = {}
      BY <1>0, <1>4, <2>1, <2>2, <2>4 DEF Vote
    <3> QED BY <2>1, <2>3, <3>1, CollectTypes
  <2>5. CASE phase # "people"
    <3>1. votes' = [votes EXCEPT ![p] = vs] /\ UNCHANGED <<standing, current, phase>>
      BY <1>4, <2>2, <2>5 DEF Vote
    <3>2. phase # "ai"
      BY <1>4, <2>1 DEF Vote, VoteInv
    <3>3. phase' \in {"sends", "people"} /\ sends' \subseteq CmtIds /\ (sends' # {} => phase' = "sends")
      BY <1>0, <2>1, <3>1, <3>2 DEF Collecting
    <3> QED BY <2>1, <2>3, <3>1, <3>3, CollectTypes
  <2> QED BY <2>4, <2>5
<1>5. CASE VoteTimeout
  <2>1. PICK late : late = {seat[u] : u \in Members} \ DOMAIN votes[current]
    OBVIOUS
  <2>2. PICK vs : vs = [i \in DOMAIN votes[current] \cup late |->
                          IF i \in late THEN Cast("defer", "timedOut", HumanWeight) ELSE votes[current][i]]
    OBVIOUS
  <2>3. Collecting /\ UNCHANGED <<seat, proposed>> /\ Adjudicate(current, vs) /\ sends' = {}
    BY <1>0, <1>5, <2>1, <2>2 DEF VoteTimeout, Collecting, memberVars
  <2>4. late \subseteq CmtIds
    BY <1>0, <2>1, SeatIds
  <2>5. DOMAIN vs \subseteq Voters
    BY <1>0, <2>2, <2>3, <2>4 DEF Voters
  <2> QED BY <2>3, <2>5, CollectTypes
<1>6. CASE Announced
  <2>1. phase' = "none" /\ current' = 0 /\ sends' = {} /\ UNCHANGED <<standing, votes, proposed, seat>>
    BY <1>0, <1>6 DEF Announced, memberVars
  <2> QED BY <1>0, <2>1 DEF CommitteeTypeOK, SeatTypes, Members, Statuses, Voters
<1>7. ASSUME NEW p \in CmtProposals, ForgetProposal(p) PROVE CommitteeTypeOK'
  <2>1. /\ standing' = Without(standing, {p}) /\ votes' = [votes EXCEPT ![p] = Empty]
        /\ UNCHANGED <<current, phase, sends, proposed, seat>>
    BY <1>7 DEF ForgetProposal, memberVars
  <2>2. DOMAIN standing' \subseteq DOMAIN standing /\ \A q \in DOMAIN standing' : standing'[q] = standing[q]
    BY <2>1 DEF Without
  <2>3. \A q \in CmtProposals : DOMAIN votes'[q] \subseteq Voters
    BY <1>0, <2>1 DEF VoteInv, ByProposal, Empty
  <2> QED BY <1>0, <2>1, <2>2, <2>3 DEF CommitteeTypeOK, SeatTypes, Members, Statuses, Voters
<1>8. ASSUME NEW u \in People, AddHumanMember(u) \/ RemoveHumanMember(u) PROVE CommitteeTypeOK'
  <2>1. UNCHANGED <<standing, votes, current, phase, sends, proposed>>
    BY <1>8 DEF AddHumanMember, RemoveHumanMember
  <2>2. SeatTypes(seat')
    BY <1>0, <1>8 DEF AddHumanMember, RemoveHumanMember, With, Without, SeatTypes
  <2> QED BY <1>0, <2>1, <2>2 DEF CommitteeTypeOK, SeatTypes, Members, Statuses, Voters
<1>9. CASE UNCHANGED cmtVars
  BY <1>9 DEF cmtVars, CommitteeTypeOK, Members
<1> QED BY <1>1, <1>2, <1>3, <1>4, <1>5, <1>6, <1>7, <1>8, <1>9 DEF CommitteeNext

McpInv == WaitInv /\ RouteInv /\ OwnAnswers /\ McpTypeOK

Outcomes == {"new", "waiting"} \cup Ended
Conns == {"connecting", "listing", "ready", "failed", "closed"}

\* The part of the types that WaitInv and RouteInv do not say.
McpTypes ==
  /\ conn \in [Servers -> Conns]
  /\ linked \in [Servers -> BOOLEAN] /\ usable \in [Servers -> BOOLEAN]
  /\ strays \in [Servers -> 0 .. MaxStrays]
  /\ DOMAIN route \subseteq McpTools
  /\ tools \in [Servers -> SUBSET McpTools]
  /\ outcome \in [McpCalls -> Outcomes]
  /\ unready \in BOOLEAN /\ crashed \in BOOLEAN

\* Together they are the types.
LEMMA McpTypesSuffice == WaitInv /\ RouteInv => (McpTypes <=> McpTypeOK)
<1> SUFFICES ASSUME WaitInv, RouteInv PROVE McpTypes <=> McpTypeOK
  OBVIOUS
<1>1. messageId \in [Servers -> Nat]
  BY DEF WaitInv
<1>2. \A s \in Servers : DOMAIN waits[s] \subseteq 1 .. messageId[s] /\ \A q \in received[s] : q.id \in 1 .. messageId[s]
  BY DEF WaitInv
<1>3. \A i \in DOMAIN servers : servers[i] \in Servers
  BY DEF RouteInv
<1> QED BY <1>1, <1>2, <1>3 DEF McpTypes, McpTypeOK, Conns, Outcomes

\* A response, and the registry with the tools it lists.
LEMMA ResolveTypes ==
  ASSUME McpTypes, NEW s \in Servers, NEW n, NEW own \in BOOLEAN, Resolve(s, n, own)
  PROVE  /\ conn' \in [Servers -> Conns] /\ DOMAIN route' \subseteq McpTools
         /\ tools' \in [Servers -> SUBSET McpTools] /\ outcome' \in [McpCalls -> Outcomes]
<1>1. CASE waits[s][n] = McpList
  <2>1. PICK T \in {{}} \cup (IF own THEN {Offers[s]} ELSE {}) : RegisterServer(s, T)
    BY <1>1 DEF Resolve
  <2>2. T \in SUBSET McpTools /\ outcome' = outcome
    BY <1>1, <2>1, McpAssumption DEF Resolve
  <2>3. conn' \in [Servers -> Conns] /\ tools' \in [Servers -> SUBSET McpTools]
    BY <2>1, <2>2 DEF RegisterServer, McpTypes, Conns
  <2>4. DOMAIN route' \subseteq McpTools
    BY <2>1, <2>2 DEF RegisterServer, McpTypes
  <2> QED BY <2>2, <2>3, <2>4 DEF McpTypes
<1>2. CASE waits[s][n] # McpList
  <2>1. outcome' = [outcome EXCEPT ![waits[s][n]] = IF own THEN "own" ELSE "other"] /\ UNCHANGED <<conn, registryVars>>
    BY <1>2 DEF Resolve
  <2>2. outcome' \in [McpCalls -> Outcomes]
    BY <2>1 DEF McpTypes, Outcomes, Ended
  <2> QED BY <2>1, <2>2 DEF McpTypes, registryVars
<1> QED BY <1>1, <1>2

\* It holds at the start,
LEMMA McpTypesStart == McpInit => McpTypes
<1> SUFFICES ASSUME McpInit PROVE McpTypes
  OBVIOUS
<1>1. conn \in [Servers -> Conns] /\ outcome \in [McpCalls -> Outcomes]
  BY DEF McpInit, Conns, Outcomes
<1>2. linked \in [Servers -> BOOLEAN] /\ usable \in [Servers -> BOOLEAN]
  BY DEF McpInit
<1>3. strays \in [Servers -> 0 .. MaxStrays] /\ DOMAIN route \subseteq McpTools
  BY McpAssumption DEF McpInit
<1>4. tools \in [Servers -> SUBSET McpTools] /\ unready \in BOOLEAN /\ crashed \in BOOLEAN
  BY DEF McpInit
<1> QED BY <1>1, <1>2, <1>3, <1>4 DEF McpTypes

\* and every step keeps it.
LEMMA McpTypesStep == McpTypes /\ [McpNext]_mcpVars => McpTypes'
<1> SUFFICES ASSUME McpTypes, [McpNext]_mcpVars PROVE McpTypes'
  OBVIOUS
<1>0. /\ conn \in [Servers -> Conns]
      /\ linked \in [Servers -> BOOLEAN] /\ usable \in [Servers -> BOOLEAN]
      /\ strays \in [Servers -> 0 .. MaxStrays] /\ DOMAIN route \subseteq McpTools
      /\ tools \in [Servers -> SUBSET McpTools] /\ outcome \in [McpCalls -> Outcomes]
      /\ unready \in BOOLEAN /\ crashed \in BOOLEAN
  BY DEF McpTypes
<1>1. ASSUME NEW s \in Servers, Connects(s) \/ ConnectFails(s) PROVE McpTypes'
  <2>1. UNCHANGED <<registryVars, outcome, restVars>>
    BY <1>1 DEF Connects, ConnectFails
  <2>2. conn' \in [Servers -> Conns] /\ linked' \in [Servers -> BOOLEAN] /\ usable' \in [Servers -> BOOLEAN]
    <3>1. CASE Connects(s)
      BY <1>0, <3>1 DEF Connects, Conns
    <3>2. CASE ConnectFails(s)
      BY <1>0, <3>2 DEF ConnectFails, Conns, linkVars
    <3> QED BY <1>1, <3>1, <3>2
  <2> QED BY <1>0, <2>1, <2>2 DEF McpTypes, registryVars, restVars
<1>2. ASSUME NEW c \in McpCalls, CallTool(c) PROVE McpTypes'
  <2>1. UNCHANGED <<conn, linkVars, registryVars, restVars>>
    BY <1>2 DEF CallTool
  <2>2. outcome' = [outcome EXCEPT ![c] = "waiting"] \/ outcome' = [outcome EXCEPT ![c] = "error"]
    BY <1>2 DEF CallTool
  <2>3. outcome' \in [McpCalls -> Outcomes]
    BY <1>0, <2>2 DEF Outcomes, Ended
  <2> QED BY <1>0, <2>1, <2>3 DEF McpTypes, linkVars, registryVars, restVars
<1>3. ASSUME NEW s \in Servers, NEW q \in received[s], Response(s, q) PROVE McpTypes'
  <2>1. UNCHANGED <<linkVars, restVars>>
    BY <1>3 DEF Response
  <2>2. PICK own \in BOOLEAN : own = (q.what = waits[s][q.id])
    OBVIOUS
  <2>3. Resolve(s, q.id, own) \/ UNCHANGED <<conn, registryVars, outcome>>
    BY <1>3, <2>2 DEF Response
  <2>4. /\ conn' \in [Servers -> Conns] /\ DOMAIN route' \subseteq McpTools
        /\ tools' \in [Servers -> SUBSET McpTools] /\ outcome' \in [McpCalls -> Outcomes]
    BY <1>0, <2>3, ResolveTypes DEF registryVars
  <2> QED BY <1>0, <2>1, <2>4 DEF McpTypes, linkVars, restVars
<1>4. ASSUME NEW s \in Servers, NEW n, Stray(s, n) PROVE McpTypes'
  <2>1. UNCHANGED <<linkVars, unready, crashed>>
    BY <1>4 DEF Stray
  <2>2. strays' \in [Servers -> 0 .. MaxStrays]
    <3>1. strays[s] < MaxStrays /\ strays' = [strays EXCEPT ![s] = @ + 1]
      BY <1>4 DEF Stray
    <3> QED BY <1>0, <3>1, McpAssumption
  <2>3. Resolve(s, n, FALSE) \/ UNCHANGED <<conn, registryVars, outcome>>
    BY <1>4 DEF Stray
  <2>4. /\ conn' \in [Servers -> Conns] /\ DOMAIN route' \subseteq McpTools
        /\ tools' \in [Servers -> SUBSET McpTools] /\ outcome' \in [McpCalls -> Outcomes]
    BY <1>0, <2>3, ResolveTypes DEF registryVars
  <2> QED BY <1>0, <2>1, <2>2, <2>4 DEF McpTypes, linkVars
<1>5. ASSUME NEW s \in Servers, NEW n, RequestFails(s, n) PROVE McpTypes'
  <2>1. /\ UNCHANGED <<linkVars, registryVars, unready, strays>> /\ crashed' \in BOOLEAN
        /\ outcome' \in [McpCalls -> Outcomes]
    <3>1. UNCHANGED <<linkVars, registryVars, unready, strays>> /\ Reject(s, {n})
      BY <1>5 DEF RequestFails
    <3>2. crashed' = FALSE \/ crashed' = (s \in Stdio)
      BY <1>5 DEF RequestFails
    <3>3. crashed' \in BOOLEAN
      <4>1. FALSE \in BOOLEAN /\ (s \in Stdio) \in BOOLEAN
        OBVIOUS
      <4> QED BY <3>2, <4>1, Zenon
    <3>4. outcome' \in [McpCalls -> Outcomes]
      BY <1>0, <3>1 DEF Reject, Outcomes, Ended
    <3> QED BY <3>1, <3>3, <3>4
  <2>2. conn' \in [Servers -> Conns]
    BY <1>0, <1>5 DEF RequestFails, Reject, Conns
  <2> QED BY <1>0, <2>1, <2>2 DEF McpTypes, linkVars, registryVars
<1>6. ASSUME NEW s \in Servers, LinkEnds(s) \/ LinkBreaks(s) PROVE McpTypes'
  <2>1. /\ UNCHANGED <<conn, usable, registryVars, outcome, unready, strays>>
        /\ linked' = [linked EXCEPT ![s] = FALSE] /\ crashed' \in BOOLEAN
    BY <1>0, <1>6 DEF LinkEnds, LinkBreaks, restVars
  <2>2. linked' \in [Servers -> BOOLEAN]
    BY <1>0, <2>1
  <2> QED BY <1>0, <2>1, <2>2 DEF McpTypes, registryVars
<1>7. CASE McpShutdown
  <2>1. /\ Closed({s \in Servers : conn[s] = "ready"}) /\ UNCHANGED <<strays, crashed>>
        /\ conn' = [s \in Servers |-> IF s \in {r \in Servers : conn[r] = "ready"} THEN "closed" ELSE conn[s]]
        /\ tools' = [s \in Servers |-> {}] /\ route' = [t \in {} |-> McpList] /\ unready' = Initialized
    BY <1>7 DEF McpShutdown
  <2>2. linked' \in [Servers -> BOOLEAN] /\ usable' \in [Servers -> BOOLEAN]
    BY <1>0, <2>1 DEF Closed
  <2>3. outcome' \in [McpCalls -> Outcomes]
    BY <1>0, <2>1 DEF Closed, Outcomes, Ended
  <2>4. conn' \in [Servers -> Conns] /\ tools' \in [Servers -> SUBSET McpTools] /\ DOMAIN route' \subseteq McpTools
    BY <1>0, <2>1 DEF Conns
  <2>5. unready' \in BOOLEAN
    BY <2>1 DEF Initialized
  <2> QED BY <1>0, <2>1, <2>2, <2>3, <2>4, <2>5 DEF McpTypes
<1>8. CASE UNCHANGED mcpVars
  BY <1>0, <1>8 DEF mcpVars, linkVars, sendVars, registryVars, restVars, McpTypes
<1> QED BY <1>1, <1>2, <1>3, <1>4, <1>5, <1>6, <1>7, <1>8 DEF McpNext

-----------------------------------------------------------------------------
(* All of them in one process. *)

ProcessInv ==
  /\ GovernorInv /\ BreakerInv /\ SummariesInv /\ CoalescerInv /\ BranchesTypeOK
  /\ VoteInv /\ CommitteeTypeOK /\ McpInv

\* It holds at the start,
LEMMA McpInvStart == McpInit => McpInv
BY McpStart, McpTypesStart, McpTypesSuffice DEF McpInv

\* and every step keeps it.
LEMMA McpInvStep == McpInv /\ [McpNext]_mcpVars => McpInv'
<1> SUFFICES ASSUME McpInv, [McpNext]_mcpVars PROVE McpInv'
  OBVIOUS
<1>1. WaitInv' /\ RouteInv' /\ OwnAnswers'
  BY McpSteps DEF McpInv
<1>2. McpTypes'
  BY McpTypesStep, McpTypesSuffice DEF McpInv
<1>3. WaitInv' /\ RouteInv' => (McpTypes' <=> McpTypeOK')
  BY McpTypesSuffice, PTL
<1> QED BY <1>1, <1>2, <1>3 DEF McpInv

\* It holds at the start,
LEMMA ProcessStart == Init => ProcessInv
BY GovernorStart, BreakerStart, SummariesStart, CoalescerTypesStart, BranchesStart, CommitteeStart,
   CommitteeTypesStart, McpInvStart DEF Init, ProcessInv

\* and every step keeps it.
LEMMA ProcessSteps == ProcessInv /\ [Next]_allVars => ProcessInv'
<1> SUFFICES ASSUME ProcessInv, [Next]_allVars PROVE ProcessInv'
  OBVIOUS
<1>1. /\ [GovernorNext]_governorVars /\ [BreakerNext]_breakerVars /\ [QueueNext]_queueVars
      /\ [CoalescerNext]_coalescerVars /\ [BranchesNext]_brVars
      /\ [CommitteeNext]_cmtVars /\ [McpNext]_mcpVars
  BY DEF Next, allVars
<1>2. GovernorInv' /\ BreakerInv' /\ SummariesInv'
  BY <1>1, GovernorSteps, BreakerSteps, SummariesSteps DEF ProcessInv
<1>3. CoalescerInv' /\ BranchesTypeOK'
  BY <1>1, CoalescerTypesStep, BranchesSteps DEF ProcessInv
<1>4. VoteInv' /\ CommitteeTypeOK' /\ McpInv'
  BY <1>1, CommitteeSteps, CommitteeTypesStep, McpInvStep DEF ProcessInv
<1> QED BY <1>2, <1>3, <1>4 DEF ProcessInv

\* Every component keeps its types, for any values of their constants: among them
\* that the coalescer's count of messages never falls below 0 (_flushBucket), although
\* flushAll empties the buckets without it.
THEOREM ProcessTypeCorrect == Spec => []TypeOK
<1>1. Spec => []ProcessInv
  BY ProcessStart, ProcessSteps, PTL DEF Spec
<1>2. ProcessInv => TypeOK
  BY DEF ProcessInv, GovernorInv, BreakerInv, SummariesInv, CoalescerInv, McpInv, TypeOK
<1> QED BY <1>1, <1>2, PTL
=============================================================================
