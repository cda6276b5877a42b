-------------------------- MODULE SummarizationQueue --------------------------
(***************************************************************************)
(* SummarizationQueue of src/shared/summarization-queue.js: every          *)
(* conversation summary, which is a call of a language model, goes through *)
(* this queue, so that few of them run at a time.  A task is one call of   *)
(* enqueue.  The handlers have no await before they have changed the       *)
(* queue, so each is one step; between them any task may settle.           *)
(*                                                                         *)
(* An operator named Bug... is a plausible wrong version of the definition *)
(* that follows it: it shows that a property can fail, and is used         *)
(* nowhere in the specification.                                           *)
(***************************************************************************)
EXTENDS Naturals, Sequences, FiniteSets

CONSTANTS
  Tasks,          \* calls of enqueue; each is made at most once
  InitialLimit,   \* EFFY_SUMMARIZATION_CONCURRENCY, which may be 0
  Limits,         \* the arguments setMaxConcurrent is called with
  MaxQueueDepth   \* _maxQueueDepth

ASSUME QueueAssumption ==
  /\ IsFiniteSet(Tasks)
  /\ InitialLimit \in Nat
  /\ Limits \in SUBSET Nat
  /\ MaxQueueDepth \in Nat

VARIABLES
  task,           \* what has become of each call
  active,         \* _active
  pending,        \* _pending
  maxConcurrent   \* _maxConcurrent

queueVars == <<task, active, pending, maxConcurrent>>

Running == {t \in Tasks : task[t] = "running"}

QueueInit ==
  /\ task = [t \in Tasks |-> "new"]
  /\ active = 0
  /\ pending = <<>>
  /\ maxConcurrent = InitialLimit

----------------------------------------------------------------------------
\* The queue is too deep: the summary is dropped, which is not critical.
LoadShedding == Len(pending) >= MaxQueueDepth

\* Another task may run.
UnderLimit(count, limit) == count < limit

Drop(t) ==
  /\ task[t] = "new" /\ LoadShedding
  /\ task' = [task EXCEPT ![t] = "dropped"]
  /\ UNCHANGED <<active, pending, maxConcurrent>>

ExecuteAtOnce(t) ==
  /\ task[t] = "new" /\ ~ LoadShedding /\ UnderLimit(active, maxConcurrent)
  /\ task' = [task EXCEPT ![t] = "running"]
  /\ active' = active + 1
  /\ UNCHANGED <<pending, maxConcurrent>>

Queue(t) ==
  /\ task[t] = "new" /\ ~ LoadShedding /\ ~ UnderLimit(active, maxConcurrent)
  /\ task' = [task EXCEPT ![t] = "pending"]
  /\ pending' = Append(pending, t)
  /\ UNCHANGED <<active, maxConcurrent>>

Enqueue(t) == Drop(t) \/ ExecuteAtOnce(t) \/ Queue(t)

(***************************************************************************)
(* _drain starts one pending task, the oldest, if the limit allows it;     *)
(* tasks and count are what task and active are when it is called.         *)
(***************************************************************************)
Drain(tasks, count, limit) ==
  IF pending # <<>> /\ UnderLimit(count, limit)
    THEN /\ task' = [tasks EXCEPT ![Head(pending)] = "running"]
         /\ pending' = Tail(pending)
         /\ active' = count + 1
    ELSE /\ task' = tasks
         /\ active' = count
         /\ UNCHANGED pending

\* Wrong: the queue is drained before the count is lowered.
BugFinish(t) ==
  /\ task[t] = "running"
  /\ Drain([task EXCEPT ![t] = "done"], active - 1, maxConcurrent - 1)
  /\ UNCHANGED maxConcurrent

(***************************************************************************)
(* The call of the model has returned or failed, which the finally block   *)
(* does not distinguish.                                                   *)
(***************************************************************************)
Finish(t) ==
  /\ task[t] = "running"
  /\ Drain([task EXCEPT ![t] = "done"], active - 1, maxConcurrent)
  /\ UNCHANGED maxConcurrent

\* setMaxConcurrent drains once, whether the limit was raised or lowered.
SetMaxConcurrent(n) ==
  /\ maxConcurrent' = IF n > 1 THEN n ELSE 1
  /\ Drain(task, active, maxConcurrent')

QueueNext ==
  \/ \E t \in Tasks : Enqueue(t) \/ Finish(t)
  \/ \E n \in Limits : SetMaxConcurrent(n)

(***************************************************************************)
(* A call of the model returns or fails at last: the client gives up after *)
(* a timeout.                                                              *)
(***************************************************************************)
QueueFairness == \A t \in Tasks : WF_queueVars(Finish(t))

QueueSpec == QueueInit /\ [][QueueNext]_queueVars /\ QueueFairness

----------------------------------------------------------------------------
(* Properties                                                               *)

\* The types, and that _pending holds the pending tasks, each once.
QueueTypeOK ==
  /\ task \in [Tasks -> {"new", "pending", "running", "done", "dropped"}]
  /\ active \in Nat
  /\ maxConcurrent \in Nat
  /\ pending \in Seq(Tasks)
  /\ \A i \in 1 .. Len(pending) : task[pending[i]] = "pending"
  /\ \A i, j \in 1 .. Len(pending) : pending[i] = pending[j] => i = j

\* _active, incremented and decremented in different callbacks of the promises,
\* is the number of calls under way, however tasks end and the limit changes.
ActiveIsRunning == active = Cardinality(Running)

\* While a task waits, a call is under way whose end drains the queue, however
\* the limit is raised and lowered: no wake-up is lost, although each callback
\* drains one task only.  A limit configured as 0 admits nothing at all.  (That
\* no slot is free is more than the code keeps: a limit raised by two fills one of
\* the new slots, against the comment "drain queue to fill new slots".)
SomebodyDrains == pending # <<>> => active > 0 \/ maxConcurrent = 0

\* More calls than the limit run only when the limit was lowered under them:
\* no step that starts a call ends above the limit then in force.
LimitRespected ==
  [][Running' \ Running # {} => active' <= maxConcurrent']_queueVars
=============================================================================
