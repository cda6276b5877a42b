------------------------------ MODULE Compaction ------------------------------
(***************************************************************************)
(* memory/background-compaction.js: sessions are queued for compaction,    *)
(* and processors that setImmediate schedules take them from the queue.    *)
(* The rows of compaction_jobs, whose errors are swallowed, the tiers and  *)
(* the statistics are left out; whether a session still needs compaction   *)
(* when its turn comes, and whether the engine fails, is chosen.           *)
(*                                                                         *)
(* An operator named Bug... is a plausible wrong version of the definition *)
(* that follows it and is used nowhere in the specification.               *)
(***************************************************************************)
EXTENDS Integers, Sequences, FiniteSets

CONSTANTS CmSessions,     \* sessions
          MaxConcurrent,  \* BackgroundCompactionRunner.maxConcurrent
          MaxQueue,       \* MAX_QUEUE_SIZE
          CmMaxJobs       \* bound on the jobs of a behaviour

ASSUME CompactionAssumption == {MaxConcurrent, MaxQueue, CmMaxJobs} \subseteq Nat /\ CmSessions # {}

VARIABLES cmQueue,      \* _queue of sessions
          cmRunning,    \* _running
          cmActive,     \* _activeSessionIds
          scheduled,    \* calls of _processNext that setImmediate holds
          cmAt,         \* job |-> "none", "starting" or "compacting"
          cmSession,    \* job |-> its session
          accepted      \* number of jobs accepted (bounds the runs)

cmVars == <<cmQueue, cmRunning, cmActive, scheduled, cmAt, cmSession, accepted>>

CmJobs == 1 .. CmMaxJobs

CompactionInit ==
  /\ cmQueue = << >> /\ cmRunning = 0 /\ cmActive = {}
  /\ scheduled = 0 /\ accepted = 0
  /\ cmAt = [j \in CmJobs |-> "none"]
  /\ cmSession \in {[j \in CmJobs |-> CHOOSE s \in CmSessions : TRUE]}

AtWork == {j \in CmJobs : cmAt[j] # "none"}

\* A full queue and a session that is queued or compacted are refused.
EnqueueCompaction(s) ==
  /\ accepted < CmMaxJobs
  /\ Len(cmQueue) < MaxQueue /\ s \notin cmActive
  /\ accepted' = accepted + 1
  /\ cmSession' = [cmSession EXCEPT ![accepted + 1] = s]
  /\ cmQueue' = Append(cmQueue, accepted + 1)
  /\ cmActive' = cmActive \cup {s}
  /\ scheduled' = scheduled + 1
  /\ UNCHANGED <<cmRunning, cmAt>>

BugProcessNext ==
  /\ scheduled > 0
  /\ scheduled' = scheduled - 1
  /\ IF cmRunning >= MaxConcurrent \/ cmQueue = << >>
     THEN UNCHANGED <<cmQueue, cmRunning, cmAt, cmActive>>
     ELSE /\ cmQueue' = Tail(cmQueue)
          /\ cmRunning' = cmRunning + 1
          /\ cmAt' = [cmAt EXCEPT ![Head(cmQueue)] = "starting"]
          /\ cmActive' = cmActive \ {cmSession[Head(cmQueue)]}
  /\ UNCHANGED <<cmSession, accepted>>

\* _processNext up to the first answer of the database
ProcessNext ==
  /\ scheduled > 0
  /\ scheduled' = scheduled - 1
  /\ IF cmRunning >= MaxConcurrent \/ cmQueue = << >>
     THEN UNCHANGED <<cmQueue, cmRunning, cmAt>>
     ELSE /\ cmQueue' = Tail(cmQueue)
          /\ cmRunning' = cmRunning + 1
          /\ cmAt' = [cmAt EXCEPT ![Head(cmQueue)] = "starting"]
  /\ UNCHANGED <<cmActive, cmSession, accepted>>

\* The finally of _processNext, after `taken` further places and calls of the
\* code before it.
Finally(j, taken) ==
  /\ cmRunning' = cmRunning - 1 - taken
  /\ scheduled' = scheduled + 1 + taken
  /\ cmActive' = cmActive \ {cmSession[j]}
  /\ cmAt' = [cmAt EXCEPT ![j] = "none"]
  /\ UNCHANGED <<cmQueue, cmSession, accepted>>

\* The early return gives its place back and schedules the next processor, and
\* so does the finally it runs through.
NotNeeded(j) == cmAt[j] = "starting" /\ Finally(j, 1)

Compact(j) ==
  /\ cmAt[j] = "starting"
  /\ cmAt' = [cmAt EXCEPT ![j] = "compacting"]
  /\ UNCHANGED <<cmQueue, cmRunning, cmActive, scheduled, cmSession, accepted>>

\* The engine has returned or failed.
Compacted(j) == cmAt[j] = "compacting" /\ Finally(j, 0)

CompactionNext ==
  \/ \E s \in CmSessions : EnqueueCompaction(s)
  \/ ProcessNext
  \/ \E j \in CmJobs : NotNeeded(j) \/ Compact(j) \/ Compacted(j)

CompactionSpec == CompactionInit /\ [][CompactionNext]_cmVars

-----------------------------------------------------------------------------
CompactionTypeOK ==
  /\ cmQueue \in Seq(CmJobs) /\ Len(cmQueue) <= MaxQueue
  /\ cmRunning \in Int /\ scheduled \in Nat
  /\ cmActive \subseteq CmSessions
  /\ cmAt \in [CmJobs -> {"none", "starting", "compacting"}]
  /\ cmSession \in [CmJobs -> CmSessions] /\ accepted \in 0 .. CmMaxJobs

\* Of one session there is never a second job queued or at work, even when
\* more processors run than the limit allows: the first would compact messages
\* under the second (enqueue, the finally of _processNext).
OneJobPerSession ==
  LET live == AtWork \cup {cmQueue[i] : i \in DOMAIN cmQueue}
  IN \A i, j \in live : cmSession[i] = cmSession[j] => i = j
=============================================================================
