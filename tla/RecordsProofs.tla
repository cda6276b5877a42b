----------------------------- MODULE RecordsProofs -----------------------------
(***************************************************************************)
(* What parts of one process keep right, for any number of runs, jobs,     *)
(* signals, requests, tasks and asks: the switch of the model client, the  *)
(* sessions of the compaction, the grace of the shutdown, the outcome of a *)
(* task, the count of the asks between agents, the channels that are not   *)
(* observed, the question behind a dialogue, the skills of the agents, the *)
(* messages still to be written and what is remembered for good.  At the   *)
(* end, the types of some of them, which MCRecordsProofs needs.            *)
(***************************************************************************)
EXTENDS LlmClient, Compaction, Shutdown, A2ATasks, AgentBus,
        ChangeControl, Onboarding, Skills, Mailbox, Knowledge, FiniteSetTheorems, TLAPS

-----------------------------------------------------------------------------
(* The model client: what it counts is the streak of errors, since every    *)
(* step that ends the streak of the one takes back the count.               *)

StreakInv ==
  /\ primaryFailures = lmStreak
  /\ primaryFailures \in 0 .. TriggerAfter

\* No error has been counted at the start.
LEMMA LlmStart == LlmInit => StreakInv
BY LlmClientAssumption DEF LlmInit, StreakInv

\* Every step counts an error or ends the streak, and the switch follows the count.
LEMMA LlmSteps ==
  ASSUME StreakInv, [LlmNext]_lmVars
  PROVE  /\ StreakInv'
         /\ fallbackActive' /\ (~fallbackActive \/ fallbackStarted' # fallbackStarted)
              => lmStreak' >= TriggerAfter
<1> USE LlmClientAssumption DEF StreakInv
<1>1. ASSUME NEW r \in LmRuns, CreateMessage(r)
      PROVE  /\ primaryFailures' = lmStreak' /\ primaryFailures' \in {primaryFailures, 0}
             /\ fallbackActive' => fallbackActive
             /\ fallbackActive' => fallbackStarted' = fallbackStarted
  BY <1>1 DEF CreateMessage, primaryVars
<1>2. ASSUME NEW r \in LmRuns, PrimaryErrs(r)
      PROVE  /\ StreakInv'
             /\ \/ fallbackActive' /\ lmStreak' = TriggerAfter
                \/ UNCHANGED <<fallbackActive, fallbackStarted>>
  BY <1>2 DEF PrimaryErrs, Min2
<1>3. ASSUME NEW r \in LmRuns, PrimaryAnswers(r)
      PROVE  StreakInv' /\ UNCHANGED <<fallbackActive, fallbackStarted>>
  BY <1>3 DEF PrimaryAnswers
<1>4. CASE UNCHANGED primaryVars
  BY <1>4 DEF primaryVars
<1>5. ASSUME NEW r \in LmRuns,
             \/ StreamMessage(r) \/ PrimaryRefuses(r) \/ StreamEnds(r)
             \/ FallbackAnswers(r) \/ FallbackErrs(r)
      PROVE  UNCHANGED primaryVars
  BY <1>5 DEF StreamMessage, PrimaryRefuses, StreamEnds, FallbackAnswers, FallbackErrs
<1>6. ASSUME LlmTick \/ UNCHANGED lmVars PROVE UNCHANGED primaryVars
  BY <1>6 DEF LlmTick, lmVars
<1> QED BY <1>1, <1>2, <1>3, <1>4, <1>5, <1>6 DEF LlmNext, Step

\* The client never turns to the fallback, or stays there longer, for less than
\* the threshold of errors without a success of the primary among them.
THEOREM FallbackOnlyEarned == LlmSpec => FallbackEarned
BY LlmStart, LlmSteps, PTL DEF LlmSpec, FallbackEarned

-----------------------------------------------------------------------------
(* The compaction: jobs are numbered as they are accepted, a job leaves the *)
(* queue when it starts, and the session of a job that is queued or at work *)
(* is known to be, which is what enqueue looks at.                          *)

JobsWaiting == {cmQueue[i] : i \in DOMAIN cmQueue}
LiveJobs == AtWork \cup JobsWaiting

CmTypes ==
  /\ accepted \in 0 .. CmMaxJobs
  /\ cmSession \in [CmJobs -> CmSessions]
  /\ cmAt \in [CmJobs -> {"none", "starting", "compacting"}]
  /\ cmQueue \in Seq(1 .. accepted)

JobInv ==
  /\ CmTypes
  /\ \A i, k \in DOMAIN cmQueue : cmQueue[i] = cmQueue[k] => i = k
  /\ JobsWaiting \cap AtWork = {}
  /\ \A j \in LiveJobs : j <= accepted /\ cmSession[j] \in cmActive
  /\ OneJobPerSession

\* No job is queued or at work at the start.
LEMMA CompactionStart == CompactionInit => JobInv
BY CompactionAssumption
   DEF CompactionInit, JobInv, CmTypes, JobsWaiting, LiveJobs, AtWork, CmJobs, OneJobPerSession

\* A job that ends leaves the others, whose sessions are other ones.
LEMMA JobEnds ==
  ASSUME JobInv, NEW j \in CmJobs, cmAt[j] # "none", NEW taken, Finally(j, taken)
  PROVE  JobInv'
<1>1. CmTypes'
  BY DEF JobInv, CmTypes, Finally, CmJobs
<1>2. j \in AtWork /\ j \notin JobsWaiting
  BY DEF JobInv, AtWork
<1>3. JobsWaiting' = JobsWaiting /\ AtWork' = AtWork \ {j}
  BY DEF JobsWaiting, AtWork, Finally, JobInv, CmTypes
<1>4. LiveJobs' = LiveJobs \ {j}
  BY <1>2, <1>3 DEF LiveJobs
<1>5. \A k \in LiveJobs' : cmSession[k] # cmSession[j]
  BY <1>2, <1>4 DEF JobInv, OneJobPerSession, LiveJobs, JobsWaiting
<1>6. OneJobPerSession'
  BY <1>3, <1>4 DEF JobInv, OneJobPerSession, LiveJobs, JobsWaiting, Finally
<1> QED BY <1>1, <1>3, <1>4, <1>5, <1>6 DEF JobInv, Finally

\* A job enters for a session that has none, and leaves it when it is done.
LEMMA CompactionSteps == JobInv /\ [CompactionNext]_cmVars => JobInv'
<1> SUFFICES ASSUME JobInv, [CompactionNext]_cmVars PROVE JobInv'
  OBVIOUS
<1> USE CompactionAssumption
<1>1. ASSUME NEW s \in CmSessions, EnqueueCompaction(s) PROVE JobInv'
  <2> DEFINE new == accepted + 1
  <2>1. new \in CmJobs /\ new \notin LiveJobs /\ cmAt[new] = "none"
    <3>1. new \in CmJobs /\ new \notin LiveJobs
      BY <1>1 DEF EnqueueCompaction, CmJobs, JobInv, CmTypes
    <3> QED BY <3>1 DEF LiveJobs, AtWork
  <2>2. CmTypes'
    <3>1. cmQueue \in Seq(1 .. new)
      BY DEF JobInv, CmTypes
    <3>2. new \in Nat /\ new \in 1 .. new /\ accepted' = new
      BY <1>1, <2>1 DEF EnqueueCompaction, CmJobs
    <3>3. cmQueue' \in Seq(1 .. new)
      BY <1>1, <3>1, <3>2 DEF EnqueueCompaction
    <3>4. cmSession' \in [CmJobs -> CmSessions] /\ accepted' \in 0 .. CmMaxJobs
      BY <1>1, <2>1 DEF EnqueueCompaction, JobInv, CmTypes, CmJobs
    <3> QED BY <1>1, <3>2, <3>3, <3>4 DEF EnqueueCompaction, JobInv, CmTypes
  <2>3. /\ DOMAIN cmQueue' = DOMAIN cmQueue \cup {Len(cmQueue) + 1}
        /\ \A i \in DOMAIN cmQueue : cmQueue'[i] = cmQueue[i]
        /\ cmQueue'[Len(cmQueue) + 1] = new
        /\ Len(cmQueue) + 1 \notin DOMAIN cmQueue
    BY <1>1 DEF EnqueueCompaction, JobInv, CmTypes
  <2>4. JobsWaiting' = JobsWaiting \cup {new} /\ AtWork' = AtWork
    BY <1>1, <2>3 DEF JobsWaiting, AtWork, EnqueueCompaction
  <2>5. LiveJobs' = LiveJobs \cup {new}
    BY <2>4 DEF LiveJobs
  <2>6. /\ \A k \in LiveJobs : cmSession'[k] = cmSession[k] /\ cmSession[k] # s
        /\ cmSession'[new] = s
    BY <1>1, <2>1 DEF EnqueueCompaction, JobInv, CmTypes, LiveJobs
  <2>7. OneJobPerSession'
    BY <2>4, <2>5, <2>6 DEF JobInv, OneJobPerSession, LiveJobs, JobsWaiting
  <2>8. \A j \in LiveJobs' : j <= accepted' /\ cmSession'[j] \in cmActive'
    <3>1. LiveJobs \subseteq CmJobs
      BY DEF LiveJobs, AtWork, JobsWaiting, JobInv, CmTypes, CmJobs
    <3> QED BY <1>1, <2>5, <2>6, <3>1 DEF EnqueueCompaction, JobInv, CmTypes, CmJobs
  <2>9. \A i, k \in DOMAIN cmQueue' : cmQueue'[i] = cmQueue'[k] => i = k
    BY <2>1, <2>3 DEF JobInv, LiveJobs, JobsWaiting
  <2>10. JobsWaiting' \cap AtWork' = {}
    BY <2>1, <2>4 DEF JobInv, LiveJobs
  <2> QED BY <2>2, <2>7, <2>8, <2>9, <2>10 DEF JobInv
<1>2. CASE ProcessNext
  <2>1. CASE UNCHANGED <<cmQueue, cmAt>>
    BY <1>2, <2>1
       DEF ProcessNext, JobInv, CmTypes, JobsWaiting, LiveJobs, AtWork, OneJobPerSession
  <2>2. CASE /\ cmQueue # << >> /\ cmQueue' = Tail(cmQueue)
             /\ cmAt' = [cmAt EXCEPT ![Head(cmQueue)] = "starting"]
    <3> DEFINE first == Head(cmQueue)
    <3>1. /\ first \in CmJobs /\ first = cmQueue[1] /\ 1 \in DOMAIN cmQueue
          /\ \A i \in DOMAIN cmQueue' : i + 1 \in DOMAIN cmQueue /\ cmQueue'[i] = cmQueue[i + 1]
          /\ \A i \in DOMAIN cmQueue : i = 1 \/ i - 1 \in DOMAIN cmQueue'
          /\ \A i \in DOMAIN cmQueue' : i \in Nat \ {0}
          /\ \A i \in DOMAIN cmQueue : i \in Nat \ {0}
      BY <2>2 DEF JobInv, CmTypes, CmJobs
    <3>2. CmTypes'
      BY <1>2, <2>2, <3>1 DEF ProcessNext, JobInv, CmTypes
    <3>3. JobsWaiting' = JobsWaiting \ {first}
      <4>1. ASSUME NEW j \in JobsWaiting' PROVE j \in JobsWaiting /\ j # first
        BY <3>1 DEF JobsWaiting, JobInv
      <4>2. ASSUME NEW j \in JobsWaiting, j # first PROVE j \in JobsWaiting'
        <5>1. PICK i \in DOMAIN cmQueue : cmQueue[i] = j
          BY DEF JobsWaiting
        <5>2. i - 1 \in DOMAIN cmQueue' /\ cmQueue'[i - 1] = j
          BY <3>1, <4>2, <5>1
        <5> QED BY <5>2 DEF JobsWaiting
      <4> QED BY <4>1, <4>2
    <3>4. AtWork' = AtWork \cup {first}
      BY <2>2, <3>1 DEF AtWork, JobInv, CmTypes
    <3>5. first \in JobsWaiting
      BY <3>1 DEF JobsWaiting
    <3>6. LiveJobs' = LiveJobs /\ JobsWaiting' \cap AtWork' = {}
      BY <3>3, <3>4, <3>5 DEF LiveJobs, JobInv
    <3>7. \A i, k \in DOMAIN cmQueue' : cmQueue'[i] = cmQueue'[k] => i = k
      BY <3>1 DEF JobInv
    <3>8. OneJobPerSession'
      BY <1>2, <3>6 DEF ProcessNext, JobInv, OneJobPerSession, LiveJobs, JobsWaiting
    <3> QED BY <1>2, <3>2, <3>6, <3>7, <3>8 DEF ProcessNext, JobInv
  <2> QED BY <1>2, <2>1, <2>2 DEF ProcessNext
<1>3. ASSUME NEW j \in CmJobs, NotNeeded(j) \/ Compacted(j) PROVE JobInv'
  BY <1>3, JobEnds DEF NotNeeded, Compacted
<1>4. ASSUME NEW j \in CmJobs, Compact(j) PROVE JobInv'
  <2>1. AtWork' = AtWork /\ JobsWaiting' = JobsWaiting
    BY <1>4 DEF Compact, AtWork, JobsWaiting, JobInv, CmTypes
  <2>2. CmTypes'
    BY <1>4 DEF Compact, JobInv, CmTypes
  <2> QED BY <1>4, <2>1, <2>2 DEF Compact, JobInv, OneJobPerSession, LiveJobs, JobsWaiting
<1>5. CASE UNCHANGED cmVars
  BY <1>5 DEF cmVars, JobInv, CmTypes, JobsWaiting, LiveJobs, AtWork, OneJobPerSession
<1> QED BY <1>1, <1>2, <1>3, <1>4, <1>5 DEF CompactionNext

\* However many processors run, no session is compacted by two of them, nor
\* queued while it is compacted.
THEOREM SessionCompactedOnce == CompactionSpec => []OneJobPerSession
<1>1. CompactionSpec => []JobInv
  BY CompactionStart, CompactionSteps, PTL DEF CompactionSpec
<1> QED BY <1>1, PTL DEF JobInv

-----------------------------------------------------------------------------
(* The shutdown: a handler that waits has begun no earlier than the first   *)
(* signal came, and one that has gone on did so with none of the affected   *)
(* requests running, or after the time of grace.                            *)

Spared == \A r \in affected : shAt[r] # "running"
GraceOver == shNow - signalled >= Grace

GraceInv ==
  /\ shNow \in Nat /\ signalled \in Int /\ since \in [Signals -> Nat]
  /\ handler \in [Signals -> {"none", "waiting", "serializing", "closing"}]
  /\ shAt \in [ShRequests -> {"new", "coalescing", "running", "done", "cut"}]
  /\ affected \subseteq ShRequests
  /\ signalled <= shNow
  /\ signalled = -1 => affected = {} /\ \A s \in Signals : handler[s] = "none"
  /\ \A s \in Signals : handler[s] = "waiting" => since[s] >= signalled
  /\ \A s \in Signals : handler[s] \in {"serializing", "closing"} => Spared \/ GraceOver
  /\ \A r \in affected : shAt[r] \in {"running", "done", "cut"}
  /\ ~ended => \A r \in ShRequests : shAt[r] # "cut"
  /\ CutOnlyLate

\* No signal has come at the start.
LEMMA ShutdownStart == ShutdownInit => GraceInv
BY DEF ShutdownInit, GraceInv, CutOnlyLate

\* Every step keeps those the signal spares, or has seen their grace end.
LEMMA ShutdownSteps == GraceInv /\ [ShutdownNext]_shVars => GraceInv'
<1> SUFFICES ASSUME GraceInv, [ShutdownNext]_shVars PROVE GraceInv'
  OBVIOUS
<1> USE ShutdownAssumption
<1>1. ASSUME NEW r \in ShRequests, Comes(r) PROVE GraceInv'
  BY <1>1 DEF Comes, GraceInv, Spared, GraceOver, CutOnlyLate
<1>2. ASSUME NEW r \in ShRequests, ShProceeds(r) PROVE GraceInv'
  BY <1>2 DEF ShProceeds, GraceInv, Spared, GraceOver, CutOnlyLate
<1>3. ASSUME NEW s \in Signals, GracefulShutdown(s) PROVE GraceInv'
  <2>1. CASE signalled = -1
    BY <1>3, <2>1
       DEF GracefulShutdown, HandlerGoes, GraceInv, Spared, GraceOver, CutOnlyLate, Serving
  <2>2. CASE signalled # -1
    <3>1. UNCHANGED <<shNow, shAt, ended, signalled, affected>>
      BY <1>3, <2>2 DEF GracefulShutdown
    <3>2. Serving = {} => Spared
      BY DEF Serving, Spared, GraceInv
    <3>3. signalled <= shNow
      BY <1>3 DEF GraceInv
    <3> QED BY <1>3, <3>1, <3>2, <3>3
            DEF GracefulShutdown, HandlerGoes, GraceInv, Spared, GraceOver, CutOnlyLate
  <2> QED BY <2>1, <2>2
<1>4. ASSUME NEW s \in Signals, Poll(s) PROVE GraceInv'
  <2>1. Serving = {} => Spared
    BY DEF Serving, Spared, GraceInv
  <2>2. shNow - since[s] >= Grace => GraceOver
    BY <1>4 DEF Poll, GraceOver, GraceInv
  <2> QED BY <1>4, <2>1, <2>2 DEF Poll, HandlerGoes, GraceInv, Spared, GraceOver, CutOnlyLate
<1>5. ASSUME NEW s \in Signals, Flush(s) PROVE GraceInv'
  BY <1>5 DEF Flush, HandlerGoes, GraceInv, Spared, GraceOver, CutOnlyLate
<1>6. ASSUME NEW s \in Signals, Exit(s) PROVE GraceInv'
  <2>1. Spared \/ GraceOver
    BY <1>6 DEF Exit, GraceInv
  <2>2. CutOnlyLate'
    BY <1>6, <2>1 DEF Exit, GraceInv, Spared, GraceOver, CutOnlyLate
  <2> QED BY <1>6, <2>2 DEF Exit, GraceInv, Spared, GraceOver
<1>7. CASE ShutdownTick
  BY <1>7 DEF ShutdownTick, GraceInv, Spared, GraceOver, CutOnlyLate
<1>8. CASE UNCHANGED shVars
  BY <1>8 DEF shVars, GraceInv, Spared, GraceOver, CutOnlyLate
<1> QED BY <1>1, <1>2, <1>3, <1>4, <1>5, <1>6, <1>7, <1>8 DEF ShutdownNext

\* Neither new requests nor a second signal take from the time of grace of a
\* request that ran when the first signal came.
THEOREM GraceGiven == ShutdownSpec => []CutOnlyLate
<1>1. ShutdownSpec => []GraceInv
  BY ShutdownStart, ShutdownSteps, PTL DEF ShutdownSpec
<1> QED BY <1>1, PTL DEF GraceInv

-----------------------------------------------------------------------------
(* A2A tasks: what a task carries is told by where its run is, as long as   *)
(* no cancelation overrides an end.                                         *)

OutcomeInv ==
  /\ a2aState \in [A2ATaskIds -> {"none", "working"} \cup TerminalStates]
  /\ a2aHistory \in [A2ATaskIds -> Seq({"submitted", "working"} \cup TerminalStates)]
  /\ a2aArtifacts \in [A2ATaskIds -> Seq({"response", "error"})]
  /\ a2aRun \in [A2ATaskIds -> {"none", "agent", "memory", "over"}]
  /\ \A t \in A2ATaskIds :
       /\ a2aState[t] # "none" => /\ a2aHistory[t] # <<>>
                                  /\ a2aHistory[t][Len(a2aHistory[t])] = a2aState[t]
       /\ a2aRun[t] = "none" => a2aState[t] \in {"none", "canceled"} /\ a2aArtifacts[t] = <<>>
       /\ a2aRun[t] = "agent" =>
            a2aState[t] \in {"working", "canceled"} /\ a2aArtifacts[t] = <<>>
       /\ a2aRun[t] \in {"memory", "over"} =>
            \/ a2aState[t] = "completed" /\ a2aArtifacts[t] = <<"response">>
            \/ a2aState[t] = "failed" /\ a2aArtifacts[t] = <<"error">>

\* A task that is written to has its new state at the end of its history.
LEMMA Written ==
  ASSUME OutcomeInv, NEW t \in A2ATaskIds, NEW s \in TerminalStates,
         a2aHistory' = [a2aHistory EXCEPT ![t] = Append(@, s)]
  PROVE  /\ a2aHistory' \in [A2ATaskIds -> Seq({"submitted", "working"} \cup TerminalStates)]
         /\ a2aHistory'[t] # <<>> /\ a2aHistory'[t][Len(a2aHistory'[t])] = s
<1>1. a2aHistory[t] \in Seq({"submitted", "working"} \cup TerminalStates)
  BY DEF OutcomeInv
<1>2. a2aHistory'[t] = Append(a2aHistory[t], s)
  BY DEF OutcomeInv
<1>3. /\ a2aHistory'[t] \in Seq({"submitted", "working"} \cup TerminalStates)
      /\ Len(a2aHistory'[t]) = Len(a2aHistory[t]) + 1
      /\ a2aHistory'[t][Len(a2aHistory[t]) + 1] = s
  BY <1>1, <1>2
<1>4. a2aHistory'[t] # <<>>
  BY <1>3
<1>5. a2aHistory'[t][Len(a2aHistory'[t])] = s
  BY <1>3
<1>6. a2aHistory' \in [A2ATaskIds -> Seq({"submitted", "working"} \cup TerminalStates)]
  BY <1>1 DEF OutcomeInv
<1> QED BY <1>4, <1>5, <1>6

\* No task has been sent at the start.
LEMMA A2AStart == A2AInit => OutcomeInv
BY DEF A2AInit, OutcomeInv, TerminalStates

\* Every way to write a task writes its state, its history and what it carries.
LEMMA A2ASteps == OutcomeInv /\ [A2ANext]_a2aVars => OutcomeInv'
<1> SUFFICES ASSUME OutcomeInv, [A2ANext]_a2aVars PROVE OutcomeInv'
  OBVIOUS
<1>1. ASSUME NEW t \in A2ATaskIds, SendTask(t) PROVE OutcomeInv'
  BY <1>1 DEF SendTask, OutcomeInv, TerminalStates
<1>2. ASSUME NEW t \in A2ATaskIds, Completed(t) PROVE OutcomeInv'
  <2>1. "completed" \in TerminalStates /\ a2aArtifacts'[t] = <<"response">>
    <3>1. a2aArtifacts[t] = <<>> /\ a2aArtifacts'[t] = Append(a2aArtifacts[t], "response")
      BY <1>2 DEF Completed, OutcomeInv
    <3>2. Append(<<>>, "response") = <<"response">>
      OBVIOUS
    <3> QED BY <3>1, <3>2 DEF TerminalStates
  <2>2. \A u \in A2ATaskIds : u # t =>
          /\ a2aState'[u] = a2aState[u] /\ a2aHistory'[u] = a2aHistory[u]
          /\ a2aArtifacts'[u] = a2aArtifacts[u] /\ a2aRun'[u] = a2aRun[u]
    BY <1>2 DEF Completed, OutcomeInv
  <2>3. a2aState'[t] = "completed" /\ a2aRun'[t] \in {"memory", "over"}
    BY <1>2 DEF Completed, OutcomeInv
  <2>4. a2aArtifacts' \in [A2ATaskIds -> Seq({"response", "error"})]
    BY <1>2, <2>1 DEF Completed, OutcomeInv
  <2>5. /\ a2aState' \in [A2ATaskIds -> {"none", "working"} \cup TerminalStates]
        /\ a2aRun' \in [A2ATaskIds -> {"none", "agent", "memory", "over"}]
    BY <1>2, <2>1 DEF Completed, OutcomeInv
  <2>6. /\ a2aHistory' \in [A2ATaskIds -> Seq({"submitted", "working"} \cup TerminalStates)]
        /\ a2aHistory'[t] # <<>> /\ a2aHistory'[t][Len(a2aHistory'[t])] = "completed"
    BY <1>2, <2>1, Written DEF Completed
  <2> QED BY <2>1, <2>2, <2>3, <2>4, <2>5, <2>6 DEF OutcomeInv
<1>3. ASSUME NEW t \in A2ATaskIds, Failed(t) PROVE OutcomeInv'
  <2>1. "failed" \in TerminalStates /\ a2aArtifacts'[t] = <<"error">>
    <3>1. a2aArtifacts[t] = <<>> /\ a2aArtifacts'[t] = Append(a2aArtifacts[t], "error")
      BY <1>3 DEF Failed, OutcomeInv
    <3>2. Append(<<>>, "error") = <<"error">>
      OBVIOUS
    <3> QED BY <3>1, <3>2 DEF TerminalStates
  <2>2. \A u \in A2ATaskIds : u # t =>
          /\ a2aState'[u] = a2aState[u] /\ a2aHistory'[u] = a2aHistory[u]
          /\ a2aArtifacts'[u] = a2aArtifacts[u] /\ a2aRun'[u] = a2aRun[u]
    BY <1>3 DEF Failed, OutcomeInv
  <2>3. a2aState'[t] = "failed" /\ a2aRun'[t] \in {"memory", "over"}
    BY <1>3 DEF Failed, OutcomeInv
  <2>4. a2aArtifacts' \in [A2ATaskIds -> Seq({"response", "error"})]
    BY <1>3, <2>1 DEF Failed, OutcomeInv
  <2>5. /\ a2aState' \in [A2ATaskIds -> {"none", "working"} \cup TerminalStates]
        /\ a2aRun' \in [A2ATaskIds -> {"none", "agent", "memory", "over"}]
    BY <1>3, <2>1 DEF Failed, OutcomeInv
  <2>6. /\ a2aHistory' \in [A2ATaskIds -> Seq({"submitted", "working"} \cup TerminalStates)]
        /\ a2aHistory'[t] # <<>> /\ a2aHistory'[t][Len(a2aHistory'[t])] = "failed"
    BY <1>3, <2>1, Written DEF Failed
  <2> QED BY <2>1, <2>2, <2>3, <2>4, <2>5, <2>6 DEF OutcomeInv
<1>4. ASSUME NEW t \in A2ATaskIds, Recorded(t) PROVE OutcomeInv'
  <2>1. /\ UNCHANGED <<a2aState, a2aHistory, a2aArtifacts>>
        /\ a2aRun[t] = "memory" /\ a2aRun' = [a2aRun EXCEPT ![t] = "over"]
    BY <1>4 DEF Recorded
  <2> QED BY <2>1 DEF OutcomeInv
<1>5. ASSUME NEW t \in A2ATaskIds, Cancel(t) PROVE OutcomeInv'
  <2>1. "canceled" \in TerminalStates /\ a2aState[t] \notin {"completed", "failed"}
    BY <1>5 DEF Cancel, Terminal, TerminalStates
  <2>2. /\ a2aHistory' \in [A2ATaskIds -> Seq({"submitted", "working"} \cup TerminalStates)]
        /\ a2aHistory'[t] # <<>> /\ a2aHistory'[t][Len(a2aHistory'[t])] = "canceled"
    BY <1>5, <2>1, Written DEF Cancel
  <2>3. \A u \in A2ATaskIds : u # t =>
          a2aState'[u] = a2aState[u] /\ a2aHistory'[u] = a2aHistory[u]
    BY <1>5 DEF Cancel, OutcomeInv
  <2>4. /\ a2aState' \in [A2ATaskIds -> {"none", "working"} \cup TerminalStates]
        /\ a2aState'[t] = "canceled"
    BY <1>5, <2>1 DEF Cancel, OutcomeInv
  <2>5. UNCHANGED <<a2aArtifacts, a2aRun>>
    BY <1>5 DEF Cancel
  <2> QED BY <2>1, <2>2, <2>3, <2>4, <2>5 DEF OutcomeInv
<1>6. CASE CleanupOldTasks \/ UNCHANGED a2aVars
  <2>1. UNCHANGED <<a2aState, a2aHistory, a2aArtifacts, a2aRun>>
    BY <1>6 DEF CleanupOldTasks, a2aVars
  <2> QED BY <2>1 DEF OutcomeInv
<1> QED BY <1>1, <1>2, <1>3, <1>4, <1>5, <1>6 DEF A2ANext

\* Whatever a cancelation and the end of the agent's run do to a task in turn,
\* its state, its history and what it carries fit together.
THEOREM OutcomeFits == A2ASpec => []OutcomeMatches
<1>1. OutcomeInv => OutcomeMatches
  BY DEF OutcomeInv, OutcomeMatches, Last, TerminalStates
<1>2. A2ASpec => []OutcomeInv
  BY A2AStart, A2ASteps, PTL DEF A2ASpec
<1> QED BY <1>1, <1>2, PTL

-----------------------------------------------------------------------------
(* The count of the asks under way.  The set UnderWay gains or loses the    *)
(* one ask that moves, so the argument is about its cardinality; that an    *)
(* ask which ended is not counted down again rests on its place, which a    *)
(* late end of its agent looks at first.                                    *)

AskInv == AgentBusTypeOK /\ AsksCounted

\* The asks under way are finitely many.
LEMMA FiniteAsks ==
  /\ IsFiniteSet(UnderWay) /\ Cardinality(UnderWay) \in Nat
<1>1. IsFiniteSet(UnderWay)
  BY FS_Subset, AgentBusAssumption DEF UnderWay
<1> QED BY <1>1, FS_CardinalityType

\* An ask that starts adds one to those under way.
LEMMA AskAdded ==
  ASSUME AskInv, NEW a \in Asks, askAt[a] = "new", AskGoes(a, "recording")
  PROVE  Cardinality(UnderWay') = Cardinality(UnderWay) + 1
<1>1. UnderWay' = UnderWay \cup {a}
  BY DEF UnderWay, AskGoes, AskInv, AgentBusTypeOK
<1>2. a \notin UnderWay
  BY DEF UnderWay
<1> QED BY <1>1, <1>2, FiniteAsks, FS_AddElement

\* An ask that ends takes one from those under way.
LEMMA AskRemoved ==
  ASSUME AskInv, NEW a \in Asks, askAt[a] = "running",
         NEW pc \in {"answered", "failed"}, AskGoes(a, pc)
  PROVE  Cardinality(UnderWay') = Cardinality(UnderWay) - 1
<1>1. UnderWay' = UnderWay \ {a}
  BY DEF UnderWay, AskGoes, AskInv, AgentBusTypeOK
<1>2. a \in UnderWay
  BY DEF UnderWay
<1> QED BY <1>1, <1>2, FiniteAsks, FS_RemoveElement

\* An ask that moves without entering or leaving changes nothing.
LEMMA AskStays ==
  ASSUME AskInv, NEW a \in Asks, NEW pc \in {"running", "answered", "failed"}, AskGoes(a, pc),
         askAt[a] \in (IF pc = "running" THEN {"recording"} ELSE {"new"})
  PROVE  UnderWay' = UnderWay
BY DEF UnderWay, AskGoes, AskInv, AgentBusTypeOK

\* Nobody asks at the start.
LEMMA AskStart == AgentBusInit => AskInv
<1> SUFFICES ASSUME AgentBusInit PROVE AskInv
  OBVIOUS
<1>1. UnderWay = {}
  BY DEF UnderWay, AgentBusInit
<1>2. Cardinality(UnderWay) = 0
  BY <1>1, FS_EmptySet
<1> QED BY <1>2, AgentBusAssumption DEF AgentBusInit, AskInv, AgentBusTypeOK, AsksCounted

\* Every way into and out of ask counts what it has to.
LEMMA AskSteps == AskInv /\ [AgentBusNext]_abVars => AskInv'
<1> SUFFICES ASSUME AskInv, [AgentBusNext]_abVars PROVE AskInv'
  OBVIOUS
<1> USE AgentBusAssumption
<1>0. activeAsks = Cardinality(UnderWay) /\ activeAsks \in Nat /\ activeAsks <= MaxAsks
  BY DEF AskInv, AsksCounted, AgentBusTypeOK
<1>1. ASSUME NEW a \in Asks, Refuse(a) PROVE AskInv'
  <2>1. UnderWay' = UnderWay
    BY <1>1, AskStays DEF Refuse
  <2>2. AgentBusTypeOK'
    BY <1>1 DEF Refuse, AskGoes, AskInv, AgentBusTypeOK
  <2> QED BY <1>0, <1>1, <2>1, <2>2 DEF Refuse, AskInv, AsksCounted
<1>2. ASSUME NEW a \in Asks, Ask(a) PROVE AskInv'
  <2>1. Cardinality(UnderWay') = Cardinality(UnderWay) + 1
    BY <1>2, AskAdded DEF Ask
  <2>2. activeAsks' = activeAsks + 1 /\ activeAsks' <= MaxAsks
    BY <1>0, <1>2 DEF Ask
  <2>3. AgentBusTypeOK'
    BY <1>0, <1>2 DEF Ask, AskGoes, AskInv, AgentBusTypeOK
  <2> QED BY <1>0, <2>1, <2>2, <2>3 DEF AskInv, AsksCounted
<1>3. ASSUME NEW a \in Asks, HandoffRecorded(a) PROVE AskInv'
  <2>1. UnderWay' = UnderWay
    BY <1>3, AskStays DEF HandoffRecorded
  <2>2. AgentBusTypeOK'
    BY <1>3 DEF HandoffRecorded, AskGoes, AskInv, AgentBusTypeOK
  <2> QED BY <1>0, <1>3, <2>1, <2>2 DEF HandoffRecorded, AskInv, AsksCounted
<1>4. ASSUME NEW a \in Asks, askAt[a] = "running", activeAsks' = activeAsks - 1,
             NEW pc \in {"answered", "failed"}, AskGoes(a, pc),
             askNow' = askNow, agentRuns' \subseteq Asks
      PROVE AskInv'
  <2>1. Cardinality(UnderWay') = Cardinality(UnderWay) - 1
    BY <1>4, AskRemoved
  <2>2. Cardinality(UnderWay') \in Nat
    <3>1. UnderWay' \subseteq Asks
      BY DEF UnderWay
    <3> QED BY <3>1, FS_Subset, FS_CardinalityType
  <2>3. activeAsks' \in Nat /\ activeAsks' <= MaxAsks
    BY <1>0, <1>4, <2>1, <2>2
  <2>4. AgentBusTypeOK'
    BY <1>4, <2>3 DEF AskGoes, AskInv, AgentBusTypeOK
  <2> QED BY <1>0, <1>4, <2>1, <2>3, <2>4 DEF AskInv, AsksCounted
<1>5. ASSUME NEW a \in Asks, AgentEnds(a) PROVE AskInv'
  <2>1. agentRuns' \subseteq Asks /\ askNow' = askNow
    BY <1>5 DEF AgentEnds, AskInv, AgentBusTypeOK
  <2>2. CASE askAt[a] = "running"
    BY <1>4, <1>5, <2>1, <2>2 DEF AgentEnds
  <2>3. CASE askAt[a] # "running"
    <3>1. UNCHANGED <<askAt, activeAsks, askNow>>
      BY <1>5, <2>1, <2>3 DEF AgentEnds
    <3>2. UnderWay' = UnderWay
      BY <3>1 DEF UnderWay
    <3> QED BY <1>0, <2>1, <3>1, <3>2 DEF AskInv, AgentBusTypeOK, AsksCounted
  <2> QED BY <2>2, <2>3
<1>6. ASSUME NEW a \in Asks, AskTimeout(a) PROVE AskInv'
  BY <1>4, <1>6 DEF AskTimeout, AskInv, AgentBusTypeOK
<1>7. ASSUME askAt' = askAt, activeAsks' = activeAsks, agentRuns' = agentRuns,
             askNow' \in Nat
      PROVE AskInv'
  <2>1. UnderWay' = UnderWay
    BY <1>7 DEF UnderWay
  <2> QED BY <1>0, <1>7, <2>1 DEF AskInv, AgentBusTypeOK, AsksCounted
<1>8. CASE CleanCache
  BY <1>7, <1>8 DEF CleanCache, AskInv, AgentBusTypeOK
<1>9. CASE AskTick
  BY <1>7, <1>9 DEF AskTick, AskInv, AgentBusTypeOK
<1>10. CASE UNCHANGED abVars
  BY <1>7, <1>10 DEF abVars, AskInv, AgentBusTypeOK
<1> QED BY <1>1, <1>2, <1>3, <1>5, <1>6, <1>8, <1>9, <1>10 DEF AgentBusNext

\* The bus keeps its types.
THEOREM AsksTypeCorrect == AgentBusSpec => []AgentBusTypeOK
<1>1. AgentBusSpec => []AskInv
  BY AskStart, AskSteps, PTL DEF AgentBusSpec
<1> QED BY <1>1, PTL DEF AskInv

\* Every way out of ask gives back what it counted, and a late answer nothing:
\* the counter is the number of asks under way and stays within the limit.
THEOREM EveryAskCounted == AgentBusSpec => []AsksCounted
<1>1. AgentBusSpec => []AskInv
  BY AskStart, AskSteps, PTL DEF AgentBusSpec
<1> QED BY <1>1, PTL DEF AskInv

-----------------------------------------------------------------------------
(* What is observed: a step either leaves the buffers and the channels      *)
(* alone, or is about one channel.                                          *)

FreshInv ==
  /\ buffered \in [CcChannels -> Nat] /\ sinceRemoval \in [CcChannels -> Nat]
  /\ BatchesFresh

\* What leaves the listener alone keeps it.
LEMMA ListenerStays == FreshInv /\ UNCHANGED listenerVars => FreshInv'
BY DEF FreshInv, BatchesFresh, listenerVars, Observed

\* An approved change of one channel, whichever it is.
LEMMA Applied ==
  ASSUME FreshInv, NEW ch, Apply(ch)
  PROVE  FreshInv'
<1>1. CASE Listen(ch.channel)
  BY <1>1 DEF Listen, FreshInv, BatchesFresh, Observed
<1>2. CASE Ignore(ch.channel)
  <2>1. /\ buffered' \in [CcChannels -> Nat] /\ sinceRemoval' \in [CcChannels -> Nat]
        /\ \A d \in CcChannels \ {ch.channel} :
             buffered'[d] = buffered[d] /\ sinceRemoval'[d] = sinceRemoval[d]
        /\ ch.channel \in CcChannels => buffered'[ch.channel] = 0 /\ sinceRemoval'[ch.channel] = 0
    BY <1>2 DEF Ignore, FreshInv
  <2>2. \A d \in CcChannels \ {ch.channel} : Observed(d) => Observed(d)'
    BY <1>2 DEF Ignore, Observed
  <2> QED BY <2>1, <2>2 DEF FreshInv, BatchesFresh
<1>3. CASE UNCHANGED listenerVars
  BY <1>3, ListenerStays
<1> QED BY <1>1, <1>2, <1>3 DEF Apply

\* Nothing is buffered at the start.
LEMMA FreshStart == ChangeControlInit => FreshInv
BY DEF ChangeControlInit, FreshInv, BatchesFresh

\* Every step, whatever is approved or dismissed, keeps the buffers fresh.
LEMMA FreshSteps == FreshInv /\ [ChangeControlNext]_ccVars => FreshInv'
<1> SUFFICES ASSUME FreshInv, [ChangeControlNext]_ccVars PROVE FreshInv'
  OBVIOUS
<1>1. ASSUME NEW c \in CcChannels, ObserveMessage(c) PROVE FreshInv'
  <2>1. Observed(c) /\ UNCHANGED <<included, excluded>> /\ \A d \in CcChannels : Observed(d)' = Observed(d)
    BY <1>1 DEF ObserveMessage, Observed
  <2>2. /\ buffered \in [CcChannels -> Nat] /\ sinceRemoval \in [CcChannels -> Nat] /\ buffered[c] <= sinceRemoval[c]
    BY DEF FreshInv, BatchesFresh
  <2>3. PICK b \in Nat : buffered' = [buffered EXCEPT ![c] = b] /\ (b = 0 \/ (b = buffered[c] + 1 /\ b < BatchSize))
    <3>1. CASE buffered[c] + 1 >= BatchSize
      BY <1>1, <3>1 DEF ObserveMessage
    <3>2. CASE ~ (buffered[c] + 1 >= BatchSize)
      <4>1. buffered[c] + 1 \in Nat /\ buffered[c] + 1 < BatchSize
        BY <2>2, <3>2, ChangeControlAssumption
      <4> QED BY <1>1, <2>2, <3>2, <4>1 DEF ObserveMessage
    <3> QED BY <3>1, <3>2
  <2>4. PICK h \in Nat : sinceRemoval' = [sinceRemoval EXCEPT ![c] = h] /\ h = IF sinceRemoval[c] < BatchSize THEN sinceRemoval[c] + 1 ELSE sinceRemoval[c]
    <3>1. sinceRemoval' = [sinceRemoval EXCEPT ![c] =
                             IF sinceRemoval[c] < BatchSize THEN sinceRemoval[c] + 1
                             ELSE sinceRemoval[c]]
      BY <1>1, Zenon DEF ObserveMessage
    <3>2. (IF sinceRemoval[c] < BatchSize THEN sinceRemoval[c] + 1 ELSE sinceRemoval[c]) \in Nat
      BY <2>2
    <3> QED BY <3>1, <3>2, Zenon
  <2>5. b <= h
    BY <2>2, <2>3, <2>4, ChangeControlAssumption
  <2> QED BY <2>1, <2>2, <2>3, <2>4, <2>5 DEF FreshInv, BatchesFresh
<1>2. ASSUME NEW id \in ChangeIds, Approve(id) PROVE FreshInv'
  <2>1. UNCHANGED listenerVars \/ Apply(change[id])
    BY <1>2 DEF Approve, listenerVars
  <2> QED BY <2>1, Applied, ListenerStays
<1>3. CASE UNCHANGED listenerVars
  BY <1>3, ListenerStays
<1>4. ASSUME NEW c \in CcChannels, \/ \E type \in Types : Command(type, c)
                                  \/ Accept(c) \/ Dismiss(c)
      PROVE  UNCHANGED listenerVars
  BY <1>4 DEF Command, Accept, Dismiss
<1>5. (\E id \in ChangeIds : Reject(id)) \/ CleanupChanges \/ ChangeTick
        => UNCHANGED listenerVars
  BY DEF Reject, CleanupChanges, ChangeTick
<1>6. UNCHANGED ccVars => UNCHANGED listenerVars
  BY DEF ccVars
<1> QED BY <1>1, <1>2, <1>3, <1>4, <1>5, <1>6 DEF ChangeControlNext

\* No batch mixes what was said before and after a removal, in whatever order changes
\* are asked for, approved, refused and forgotten; of what the listener keeps, that is:
\* rows, topics and insights outlive the removal.
THEOREM BufferForgotten == ChangeControlSpec => []BatchesFresh
<1>1. ChangeControlSpec => []FreshInv
  BY FreshStart, FreshSteps, PTL DEF ChangeControlSpec
<1> QED BY <1>1, PTL DEF FreshInv

-----------------------------------------------------------------------------
(* Onboarding: a message that answers a dialogue keeps the dialogue, and    *)
(* whoever finished it carries its question on, unless a call of the step   *)
(* fails.  A question that waits was asked by another message.              *)

HandlingPlaces == {"new", "answering", "asking", "looking", "registering", "passed", "ended"}
DialogueSet == [type : {"none", "org", "personal"},
                step : {"none", "company", "departments", "details", "projects", "role",
                        "expertise", "done"},
                pending : ObMessages \cup {NoQuestion}, depts : Int]

ObTypes ==
  /\ dialogues \in 0 .. MaxDialogues
  /\ sessions \in [ObUsers -> 0 .. dialogues]
  /\ dialogue \in [Dialogues -> DialogueSet]
  /\ \A d \in Dialogues : d <= dialogues => dialogue[d].step # "none"
  /\ finisher = [d \in Dialogues |-> finisher[d]]
  /\ obAt \in [ObMessages -> HandlingPlaces]
  /\ held \in [ObMessages -> 0 .. dialogues]
  /\ text \in [ObMessages -> ObMessages]

\* A question that is held back, or carried, was asked by a message that came.
QuestionsCame ==
  /\ \A m \in ObMessages : obAt[m] = "new" => held[m] = 0 /\ text[m] = m
  /\ \A d \in Dialogues : dialogue[d].pending # NoQuestion => obAt[dialogue[d].pending] # "new"
  /\ \A m \in ObMessages : text[m] # m => obAt[text[m]] # "new"

\* What a message does that answers, or has answered, a dialogue.
AnswersHeld ==
  /\ \A m \in ObMessages :
       /\ obAt[m] = "answering" => held[m] # 0 /\ text[m] = m
       /\ held[m] # 0 => dialogue[held[m]].pending # m
       /\ held[m] # 0 /\ obAt[m] \in {"looking", "registering"} => text[m] # m
  /\ \A d \in Dialogues : dialogue[d].step = "done" =>
       finisher[d] \in ObMessages /\ held[finisher[d]] = d

HandInv == ObTypes /\ QuestionsCame /\ AnswersHeld /\ QuestionHandedOn

\* Of the dialogues only one may be new, which is not over.
DialoguesGrow ==
  \/ UNCHANGED dialogueVars
  \/ /\ dialogues' = dialogues + 1 /\ dialogues' \in Dialogues
     /\ UNCHANGED finisher
     /\ sessions' \in [ObUsers -> 0 .. dialogues']
     /\ \E new \in DialogueSet :
          /\ new.step \notin {"none", "done"}
          /\ new.pending # NoQuestion => obAt'[new.pending] # "new"
          /\ dialogue' = [dialogue EXCEPT ![dialogues'] = new]

\* A message goes on, with the text t from here.
LEMMA GoesOn ==
  ASSUME HandInv, NEW m \in ObMessages, NEW p \in HandlingPlaces \ {"new", "answering"}, ObGoes(m, p),
         DialoguesGrow, UNCHANGED held,
         NEW t \in ObMessages, text' = [text EXCEPT ![m] = t],
         NEW lost, cutOff' = cutOff \cup lost,
         t # m => held[m] # 0 /\ dialogue[held[m]].step = "done" /\ obAt[t] # "new",
         text[m] # m => t = text[m],
         held[m] # 0 /\ p \in {"looking", "registering"} => t # m,
         held[m] # 0 /\ p = "passed" => t # m \/ m \in lost,
         obAt[m] = "answering" /\ dialogue[held[m]].step = "done"
           /\ dialogue[held[m]].pending # NoQuestion
             => t = dialogue[held[m]].pending \/ m \in lost
  PROVE  HandInv'
<1> USE DEF HandInv, ObTypes, Dialogues
<1>1. /\ dialogues <= dialogues' /\ dialogues' \in 0 .. MaxDialogues
      /\ \A d \in 1 .. dialogues : dialogue'[d] = dialogue[d]
      /\ dialogue' \in [Dialogues -> DialogueSet] /\ finisher' = finisher
      /\ sessions' \in [ObUsers -> 0 .. dialogues']
      /\ \A d \in Dialogues : d <= dialogues' => dialogue'[d].step # "none"
  <2>1. CASE UNCHANGED dialogueVars
    BY <2>1, OnboardingAssumption DEF dialogueVars
  <2>2. CASE ~UNCHANGED dialogueVars
    <3>1. PICK new \in DialogueSet : /\ new.step \notin {"none", "done"}
                                    /\ dialogue' = [dialogue EXCEPT ![dialogues'] = new]
      BY <2>2 DEF DialoguesGrow
    <3>2. /\ dialogues' = dialogues + 1 /\ dialogues' \in Dialogues /\ UNCHANGED finisher
          /\ sessions' \in [ObUsers -> 0 .. dialogues']
      BY <2>2 DEF DialoguesGrow
    <3>3. dialogues \in Nat /\ MaxDialogues \in Nat /\ dialogues + 1 \in 0 .. MaxDialogues
      BY <3>2, OnboardingAssumption
    <3>4. \A d \in Dialogues : d <= dialogues + 1 => d <= dialogues \/ d = dialogues + 1
      BY <3>3
    <3>5. \A d \in Dialogues : dialogue'[d] = IF d = dialogues + 1 THEN new ELSE dialogue[d]
      BY <3>1, <3>2
    <3>6. dialogue' \in [Dialogues -> DialogueSet]
      BY <3>1, <3>2
    <3> QED BY <3>1, <3>2, <3>3, <3>4, <3>5, <3>6
  <2> QED BY <2>1, <2>2
<1>2. \A d \in Dialogues :
        \/ dialogue'[d] = dialogue[d]
        \/ /\ dialogue'[d].step # "done"
           /\ dialogue'[d].pending # NoQuestion => obAt'[dialogue'[d].pending] # "new"
  BY OnboardingAssumption DEF DialoguesGrow, dialogueVars
<1>3. /\ obAt' \in [ObMessages -> HandlingPlaces] /\ obAt'[m] = p
      /\ \A n \in ObMessages : n # m => obAt'[n] = obAt[n]
      /\ \A n \in ObMessages : obAt[n] # "new" => obAt'[n] # "new"
      /\ text' \in [ObMessages -> ObMessages] /\ text'[m] = t
      /\ \A n \in ObMessages : n # m => text'[n] = text[n]
  BY DEF ObGoes
<1>4. held' = held /\ \A n \in ObMessages : held[n] # 0 => held[n] \in 1 .. dialogues
                                                        /\ held[n] \in Dialogues
  BY OnboardingAssumption
<1>5. ObTypes'
  BY <1>1, <1>3, <1>4
<1>6. QuestionsCame'
  <2>1. \A d \in Dialogues : dialogue'[d].pending # NoQuestion =>
          obAt'[dialogue'[d].pending] # "new"
    BY <1>2, <1>3 DEF QuestionsCame, DialogueSet
  <2> QED BY <1>3, <1>4, <2>1 DEF QuestionsCame
<1>7. AnswersHeld'
  BY <1>1, <1>2, <1>3, <1>4 DEF AnswersHeld
<1>8. QuestionHandedOn'
  <2>1. ASSUME NEW d \in Dialogues, dialogue'[d].step = "done", dialogue'[d].pending # NoQuestion
        PROVE  \/ obAt'[finisher'[d]] = "answering"
               \/ text'[finisher'[d]] = dialogue'[d].pending
               \/ finisher'[d] \in cutOff'
    <3>1. dialogue'[d] = dialogue[d] /\ finisher'[d] = finisher[d]
      BY <1>1, <1>2, <2>1
    <3>2. finisher[d] \in ObMessages /\ held[finisher[d]] = d
      BY <2>1, <3>1 DEF AnswersHeld
    <3>3. CASE finisher[d] = m
      BY <1>3, <2>1, <3>1, <3>2, <3>3 DEF QuestionHandedOn, AnswersHeld
    <3>4. CASE finisher[d] # m
      BY <1>3, <2>1, <3>1, <3>2, <3>4 DEF QuestionHandedOn
    <3> QED BY <3>3, <3>4
  <2>2. ASSUME NEW n \in ObMessages, text'[n] # n
        PROVE  held'[n] # 0 /\ dialogue'[held'[n]].step = "done"
    <3>1. held[n] # 0 /\ dialogue[held[n]].step = "done"
      BY <1>3, <2>2 DEF QuestionHandedOn
    <3> QED BY <1>1, <1>4, <3>1
  <2>3. ASSUME NEW n \in ObMessages, held'[n] # 0, obAt'[n] = "passed", text'[n] = n
        PROVE  n \in cutOff'
    BY <1>3, <1>4, <2>3 DEF QuestionHandedOn
  <2> QED BY <2>1, <2>2, <2>3 DEF QuestionHandedOn
<1> QED BY <1>5, <1>6, <1>7, <1>8

\* A dialogue that begins is a new one, and its question came before.
LEMMA OneMore ==
  ASSUME HandInv, NEW m \in ObMessages,
         NEW type \in {"org", "personal"}, NEW asked \in {"company", "role"},
         NEW question \in ObMessages \cup {NoQuestion},
         question # NoQuestion => obAt[question] # "new",
         StartDialogue(m, type, asked, question)
  PROVE  DialoguesGrow
<1> DEFINE new == [type |-> type, step |-> asked, pending |-> question, depts |-> 0]
<1>1. dialogues' \in Dialogues /\ dialogues' = dialogues + 1
  BY OnboardingAssumption DEF StartDialogue, HandInv, ObTypes, Dialogues
<1>2. new \in DialogueSet /\ new.step \notin {"none", "done"} /\ new.pending = question
  BY DEF DialogueSet
<1>3. dialogue' = [dialogue EXCEPT ![dialogues'] = new]
  BY DEF StartDialogue
<1>4. sessions' \in [ObUsers -> 0 .. dialogues']
  <2>1. sessions' = [sessions EXCEPT ![SenderOf[m]] = dialogues + 1]
    BY DEF StartDialogue
  <2>2. dialogues \in Nat /\ dialogues + 1 \in 0 .. dialogues' /\ 0 .. dialogues \subseteq 0 .. dialogues'
    BY <1>1 DEF HandInv, ObTypes
  <2>3. sessions \in [ObUsers -> 0 .. dialogues]
    BY DEF HandInv, ObTypes
  <2> QED BY <2>1, <2>2, <2>3
<1>5. question # NoQuestion => obAt'[question] # "new"
  BY DEF StartDialogue, ObGoes, HandInv, ObTypes
<1> QED BY <1>1, <1>2, <1>3, <1>4, <1>5 DEF DialoguesGrow, StartDialogue

\* Whoever is asked for a profile enters a dialogue or goes on.
LEMMA ProfileAsked ==
  ASSUME HandInv, NEW m \in ObMessages, NEW txt, AskedForProfile(m, txt)
  PROVE  DialoguesGrow /\ \E p \in {"asking", "passed"} : ObGoes(m, p)
<1>1. CASE StartDialogue(m, "personal", "role", NoQuestion)
  BY <1>1, OneMore DEF StartDialogue
<1>2. CASE ObGoes(m, "passed") /\ UNCHANGED dialogueVars
  BY <1>2 DEF DialoguesGrow
<1> QED BY <1>1, <1>2 DEF AskedForProfile

\* Whoever is checked enters a dialogue, is looked up, or goes on.
LEMMA Checked ==
  ASSUME HandInv, NEW m \in ObMessages, NEW txt, Checks(m, txt)
  PROVE  DialoguesGrow /\ \E p \in {"asking", "passed", "looking"} : ObGoes(m, p)
<1>1. CASE StartDialogue(m, "org", "company", NoQuestion)
  BY <1>1, OneMore DEF StartDialogue
<1>2. CASE AskedForProfile(m, txt)
  BY <1>2, ProfileAsked
<1>3. CASE ObGoes(m, "looking") /\ UNCHANGED dialogueVars
  BY <1>3 DEF DialoguesGrow
<1> QED BY <1>1, <1>2, <1>3 DEF Checks

\* The answer m to a dialogue, which may be its last.
LEMMA AnswerTaken ==
  ASSUME HandInv, NEW m \in ObMessages, obAt[m] = "new", ProcessInput(m)
  PROVE  HandInv'
<1> USE DEF HandInv, ObTypes, Dialogues
<1> DEFINE d == sessions[SenderOf[m]]
<1>1. d \in Dialogues /\ d \in 1 .. dialogues /\ dialogue[d].step \notin {"none", "done"}
  BY OnboardingAssumption DEF ProcessInput, IsOnboarding, ObUsers
<1>2. PICK next \in After(dialogue[d]) :
        /\ dialogue' = [dialogue EXCEPT ![d] = next]
        /\ finisher' = IF next.step = "done" THEN [finisher EXCEPT ![d] = m] ELSE finisher
  BY DEF ProcessInput
<1>3. next \in DialogueSet /\ next.pending = dialogue[d].pending /\ next.step # "none"
  <2>1. dialogue[d] \in DialogueSet
    BY <1>1
  <2> DEFINE was == dialogue[d]
  <2>2. /\ was.type \in {"none", "org", "personal"} /\ was.depts \in Int
        /\ was.pending \in ObMessages \cup {NoQuestion}
        /\ was = [type |-> was.type, step |-> was.step, pending |-> was.pending,
                  depts |-> was.depts]
    BY <2>1 DEF DialogueSet
  <2>3. was.step \in {"company", "departments", "details", "projects", "role", "expertise"}
    BY <1>1, <2>1 DEF DialogueSet
  <2>4. next \in {was} \cup {[was EXCEPT !.step = s] : s \in {"departments", "projects", "done",
                                                             "expertise"}}
          \cup {[was EXCEPT !.step = "details", !.depts = n] : n \in 1 .. MaxDepts}
          \cup {[was EXCEPT !.depts = was.depts - 1],
                [was EXCEPT !.step = "projects", !.depts = 0]}
    <3>1. next \in After(was)
      OBVIOUS
    <3>2. CASE was.step \in {"company", "role"}
      BY <3>1, <3>2 DEF After
    <3>3. CASE was.step = "departments"
      BY <3>1, <3>3 DEF After
    <3>4. CASE was.step = "details"
      BY <3>1, <3>4 DEF After
    <3>5. CASE was.step \in {"projects", "expertise"}
      BY <3>1, <3>5 DEF After
    <3> QED BY <2>3, <3>2, <3>3, <3>4, <3>5
  <2>5. \A n \in 1 .. MaxDepts : n \in Int
    BY OnboardingAssumption
  <2> HIDE DEF was
  <2>6. CASE next = was
    BY <2>2, <2>3, <2>6 DEF DialogueSet, was
  <2>7. CASE \E s \in {"departments", "projects", "done", "expertise"} :
               next = [was EXCEPT !.step = s]
    BY <2>2, <2>7 DEF DialogueSet, was
  <2>8. CASE \E n \in 1 .. MaxDepts : next = [was EXCEPT !.step = "details", !.depts = n]
    BY <2>2, <2>5, <2>8 DEF DialogueSet, was
  <2>9. CASE next = [was EXCEPT !.depts = was.depts - 1]
    <3>1. was.depts - 1 \in Int
      BY <2>2
    <3> QED BY <2>2, <2>3, <2>9, <3>1 DEF DialogueSet, was
  <2>10. CASE next = [was EXCEPT !.step = "projects", !.depts = 0]
    <3>1. next = [type |-> was.type, step |-> "projects", pending |-> was.pending, depts |-> 0]
      BY <2>2, <2>10
    <3>2. was.pending = dialogue[d].pending
      BY DEF was
    <3>3. next.step = "projects" /\ next.pending = was.pending
      BY <3>1
    <3>4. next \in DialogueSet
      BY <2>2, <3>1 DEF DialogueSet
    <3> QED BY <3>2, <3>3, <3>4
  <2> QED BY <2>4, <2>6, <2>7, <2>8, <2>9, <2>10
<1>4. /\ held' = [held EXCEPT ![m] = d] /\ obAt' = [obAt EXCEPT ![m] = "answering"]
      /\ UNCHANGED <<sessions, dialogues, text, cutOff>>
  BY DEF ProcessInput, ObGoes
<1>5. held[m] = 0 /\ text[m] = m
  BY DEF QuestionsCame
<1>6. /\ dialogue' \in [Dialogues -> DialogueSet]
      /\ \A c \in Dialogues : dialogue'[c].pending = dialogue[c].pending
                              /\ (c # d => dialogue'[c] = dialogue[c])
      /\ finisher' = [c \in Dialogues |-> finisher'[c]]
      /\ \A c \in Dialogues : c # d => finisher'[c] = finisher[c]
  BY <1>1, <1>2, <1>3
<1>7. /\ obAt' \in [ObMessages -> HandlingPlaces] /\ held' \in [ObMessages -> 0 .. dialogues]
      /\ obAt'[m] = "answering" /\ held'[m] = d
      /\ \A n \in ObMessages : n # m => obAt'[n] = obAt[n] /\ held'[n] = held[n]
      /\ \A n \in ObMessages : obAt[n] # "new" => obAt'[n] # "new"
      /\ \A n \in ObMessages : held[n] \in 0 .. dialogues /\ (held[n] # 0 => held[n] \in Dialogues)
  BY <1>1, <1>4, OnboardingAssumption DEF HandlingPlaces
<1>8. \A c \in Dialogues : c <= dialogues => dialogue'[c].step # "none"
  BY <1>1, <1>2, <1>3, <1>6
<1>9. ObTypes'
  BY <1>4, <1>6, <1>7, <1>8
<1>10. \A c \in Dialogues : dialogue[c].pending # m
  BY OnboardingAssumption DEF QuestionsCame
<1>11. QuestionsCame'
  BY <1>4, <1>6, <1>7 DEF QuestionsCame, DialogueSet
<1>12. AnswersHeld'
  <2>1. ASSUME NEW n \in ObMessages
        PROVE  /\ obAt'[n] = "answering" => held'[n] # 0 /\ text'[n] = n
               /\ held'[n] # 0 => dialogue'[held'[n]].pending # n
               /\ held'[n] # 0 /\ obAt'[n] \in {"looking", "registering"} => text'[n] # n
    <3>1. CASE n = m
      <4>1. d # 0
        BY <1>1
      <4>2. text' = text
        BY <1>4
      <4>3. dialogue'[d].pending # m
        BY <1>1, <1>6, <1>10
      <4> QED BY <1>5, <1>7, <3>1, <4>1, <4>2, <4>3
    <3>2. CASE n # m
      BY <1>4, <1>6, <1>7, <3>2 DEF AnswersHeld
    <3> QED BY <3>1, <3>2
  <2>2. ASSUME NEW c \in Dialogues, dialogue'[c].step = "done"
        PROVE  finisher'[c] \in ObMessages /\ held'[finisher'[c]] = c
    <3>1. CASE c = d
      BY <1>1, <1>2, <1>6, <1>7, <2>2, <3>1
    <3>2. CASE c # d
      <4>1. finisher[c] \in ObMessages /\ held[finisher[c]] = c
        BY <1>6, <2>2, <3>2 DEF AnswersHeld
      <4>2. finisher[c] # m
        BY <1>5, <4>1
      <4> QED BY <1>6, <1>7, <3>2, <4>1, <4>2
    <3> QED BY <3>1, <3>2
  <2> QED BY <2>1, <2>2 DEF AnswersHeld
<1>13. QuestionHandedOn'
  <2>1. ASSUME NEW c \in Dialogues, dialogue'[c].step = "done", dialogue'[c].pending # NoQuestion
        PROVE  \/ obAt'[finisher'[c]] = "answering"
               \/ text'[finisher'[c]] = dialogue'[c].pending
               \/ finisher'[c] \in cutOff'
    <3>1. CASE c = d
      BY <1>1, <1>2, <1>6, <1>7, <2>1, <3>1
    <3>2. CASE c # d
      <4>1. /\ finisher'[c] = finisher[c] /\ finisher[c] \in ObMessages
            /\ held[finisher[c]] = c /\ dialogue'[c] = dialogue[c]
        BY <1>6, <2>1, <3>2 DEF AnswersHeld
      <4>2. finisher[c] # m
        BY <1>5, <4>1
      <4> QED BY <1>4, <1>7, <2>1, <4>1, <4>2 DEF QuestionHandedOn
    <3> QED BY <3>1, <3>2
  <2>2. ASSUME NEW n \in ObMessages, text'[n] # n
        PROVE  held'[n] # 0 /\ dialogue'[held'[n]].step = "done"
    <3>1. n # m /\ held[n] # 0 /\ dialogue[held[n]].step = "done" /\ held[n] # d
      BY <1>1, <1>4, <1>5, <2>2 DEF QuestionHandedOn
    <3> QED BY <1>6, <1>7, <3>1
  <2>3. ASSUME NEW n \in ObMessages, held'[n] # 0, obAt'[n] = "passed", text'[n] = n
        PROVE  n \in cutOff'
    BY <1>4, <1>7, <2>3 DEF QuestionHandedOn
  <2> QED BY <2>1, <2>2, <2>3 DEF QuestionHandedOn
<1> QED BY <1>9, <1>11, <1>12, <1>13

\* There are no dialogues at the start.
LEMMA HandStart == OnboardingInit => HandInv
BY OnboardingAssumption
   DEF OnboardingInit, HandInv, ObTypes, QuestionsCame, AnswersHeld, QuestionHandedOn, Dialogues,
       DialogueSet, Blank, HandlingPlaces

\* Every step keeps what is said of the messages and the dialogues they hold.
LEMMA HandSteps == HandInv /\ [OnboardingNext]_obVars => HandInv'
<1> SUFFICES ASSUME HandInv, [OnboardingNext]_obVars PROVE HandInv'
  OBVIOUS
<1> USE DEF HandlingPlaces
<1>1. ASSUME NEW m \in ObMessages, Arrive(m) PROVE HandInv'
  <2>1. obAt[m] = "new" /\ held[m] = 0 /\ text[m] = m
    BY <1>1 DEF Arrive, HandInv, QuestionsCame
  <2>2. CASE ProcessInput(m)
    BY <2>1, <2>2, AnswerTaken
  <2>3. CASE ~ProcessInput(m)
    <3>1. Checks(m, m) /\ UNCHANGED <<held, text, cutOff>>
      BY <1>1, <2>3 DEF Arrive
    <3>2. text' = [text EXCEPT ![m] = m] /\ cutOff' = cutOff \cup {}
      BY <2>1, <3>1 DEF HandInv, ObTypes
    <3> QED BY <2>1, <3>1, <3>2, Checked, GoesOn
  <2> QED BY <2>2, <2>3
<1>11. ASSUME NEW m \in ObMessages, obAt[m] = "answering",
              NEW p \in {"ended", "looking", "passed", "asking"}, ObGoes(m, p), DialoguesGrow,
              NEW t \in ObMessages, text' = [text EXCEPT ![m] = t], held' = held,
              NEW lost, cutOff' = cutOff \cup lost,
              t # m => dialogue[held[m]].step = "done" /\ obAt[t] # "new",
              p \in {"looking", "passed"} => t # m \/ m \in lost,
              p = "looking" => t # m,
              dialogue[held[m]].step = "done" /\ dialogue[held[m]].pending # NoQuestion
                => t = dialogue[held[m]].pending \/ m \in lost
       PROVE  HandInv'
  <2>1. held[m] # 0 /\ text[m] = m
    BY <1>11 DEF HandInv, AnswersHeld
  <2>2. p \in HandlingPlaces \ {"new", "answering"} /\ p # "registering"
    BY <1>11
  <2> QED BY <1>11, <2>1, <2>2, GoesOn
<1>2. ASSUME NEW m \in ObMessages, Answered(m) PROVE HandInv'
  <2> DEFINE d == dialogue[held[m]]
             over == d.step = "done" /\ d.pending # NoQuestion
  <2>1. /\ obAt[m] = "answering" /\ held[m] # 0 /\ text[m] = m /\ d.pending # m
        /\ UNCHANGED <<held, cutOff>> /\ cutOff' = cutOff \cup {}
    BY <1>2 DEF Answered, HandInv, AnswersHeld
  <2>2. CASE over
    <3>1. d.pending \in ObMessages /\ obAt[d.pending] # "new"
      BY <2>1, <2>2, OnboardingAssumption DEF HandInv, ObTypes, QuestionsCame, Dialogues, DialogueSet
    <3>2. text' = [text EXCEPT ![m] = d.pending] /\ Checks(m, d.pending)
      BY <1>2, <2>2 DEF Answered
    <3>3. held' = held /\ DialoguesGrow
      BY <2>1, <3>2, Checked
    <3>4. PICK p \in {"asking", "passed", "looking"} : ObGoes(m, p)
      BY <3>2, Checked
    <3>5. PICK t \in ObMessages : t = dialogue[held[m]].pending
      BY <3>1
    <3>6. /\ text' = [text EXCEPT ![m] = t] /\ t # m /\ obAt[t] # "new"
          /\ dialogue[held[m]].step = "done" /\ obAt[m] = "answering"
      BY <2>1, <2>2, <3>1, <3>2, <3>5
    <3>7. cutOff' = cutOff \cup {}
      BY <2>1
    <3> HIDE DEF d, over
    <3>8. CASE ObGoes(m, "asking")
      <4>1. ObGoes(m, "asking") /\ t \in ObMessages /\ DialoguesGrow /\ held' = held
        BY <3>3, <3>8
      <4>2. text' = [text EXCEPT ![m] = t] /\ obAt[m] = "answering" /\ cutOff' = cutOff \cup {}
        BY <3>6, <3>7
      <4>3. dialogue[held[m]].step = "done" /\ obAt[t] # "new" /\ t = dialogue[held[m]].pending
        BY <3>5, <3>6
      <4> QED BY <1>11, <4>1, <4>2, <4>3, ZenonT(60)
    <3>9. CASE ObGoes(m, "passed")
      BY <1>11, <3>3, <3>5, <3>6, <3>7, <3>9, ZenonT(60)
    <3>10. CASE ObGoes(m, "looking")
      BY <1>11, <3>3, <3>5, <3>6, <3>7, <3>10, ZenonT(60)
    <3> QED BY <3>4, <3>8, <3>9, <3>10
  <2>3. CASE ~over
    <3>1. ObGoes(m, "ended") /\ UNCHANGED <<text, dialogueVars>>
      BY <1>2, <2>3 DEF Answered
    <3>2. text' = [text EXCEPT ![m] = m] /\ DialoguesGrow
      BY <2>1, <3>1 DEF HandInv, ObTypes, DialoguesGrow
    <3>3. held' = held /\ m \in ObMessages
      BY <2>1
    <3>4. ~(obAt[m] = "answering" /\ dialogue[held[m]].step = "done"
              /\ dialogue[held[m]].pending # NoQuestion)
      BY <2>3
    <3> QED BY <1>11, <2>1, <3>1, <3>2, <3>3, <3>4, ZenonT(60)
  <2> QED BY <2>2, <2>3
<1>3. ASSUME NEW m \in ObMessages, obAt[m] \in {"looking", "registering", "asking"},
             NEW p \in {"asking", "passed", "registering", "ended"}, ObGoes(m, p), DialoguesGrow,
             UNCHANGED <<held, text>>, NEW lost, cutOff' = cutOff \cup lost,
             obAt[m] = "asking" /\ p = "passed" => m \in lost, obAt[m] = "asking" => p # "registering"
      PROVE  HandInv'
  <2>1. text' = [text EXCEPT ![m] = text[m]] /\ text[m] \in ObMessages
    BY <1>3 DEF HandInv, ObTypes
  <2>2. text[m] # m => held[m] # 0 /\ dialogue[held[m]].step = "done" /\ obAt[text[m]] # "new"
    BY DEF HandInv, QuestionHandedOn, QuestionsCame
  <2>3. held[m] # 0 /\ obAt[m] # "asking" => text[m] # m
    BY <1>3 DEF HandInv, AnswersHeld
  <2> QED BY <1>3, <2>1, <2>2, <2>3, GoesOn
<1>4. ASSUME NEW m \in ObMessages, LookedUp(m) PROVE HandInv'
  <2>1. obAt[m] = "looking" /\ UNCHANGED <<held, text, cutOff>> /\ cutOff' = cutOff \cup {}
    BY <1>4 DEF LookedUp
  <2>2. text[m] \in ObMessages /\ obAt[text[m]] # "new"
    BY <2>1 DEF HandInv, ObTypes, QuestionsCame
  <2>3. CASE AskedForProfile(m, text[m])
    BY <2>1, <2>3, <1>3, ProfileAsked
  <2>4. CASE ObGoes(m, "registering") /\ UNCHANGED dialogueVars
    BY <2>1, <2>4, <1>3 DEF DialoguesGrow
  <2>5. CASE StartDialogue(m, "personal", "role", text[m])
    BY <2>1, <2>2, <2>5, <1>3, OneMore DEF StartDialogue
  <2> QED BY <1>4, <2>3, <2>4, <2>5 DEF LookedUp
<1>5. ASSUME NEW m \in ObMessages, Registered(m) PROVE HandInv'
  <2>1. /\ obAt[m] = "registering" /\ UNCHANGED <<held, text, cutOff>>
        /\ cutOff' = cutOff \cup {} /\ AskedForProfile(m, text[m])
    BY <1>5 DEF Registered
  <2> QED BY <2>1, <1>3, ProfileAsked
<1>6. ASSUME NEW m \in ObMessages, DialogueAsked(m) PROVE HandInv'
  <2>1. /\ obAt[m] = "asking" /\ UNCHANGED <<held, text, cutOff>>
        /\ cutOff' = cutOff \cup {} /\ ObGoes(m, "ended") /\ DialoguesGrow
    BY <1>6 DEF DialogueAsked, DialoguesGrow
  <2> QED BY <2>1, <1>3
<1>7. ASSUME NEW m \in ObMessages, ObFails(m) PROVE HandInv'
  <2>1. /\ obAt[m] \in {"answering", "asking", "looking", "registering"}
        /\ ObGoes(m, "passed") /\ DialoguesGrow /\ UNCHANGED <<held, text>>
        /\ cutOff' = cutOff \cup {m}
    BY <1>7 DEF ObFails, DialoguesGrow
  <2>2. CASE obAt[m] = "answering"
    <3>1. text[m] = m /\ text' = [text EXCEPT ![m] = m]
      BY <2>1, <2>2 DEF HandInv, ObTypes, AnswersHeld
    <3>2. held' = held /\ m \in {m}
      BY <2>1
    <3> QED BY <1>11, <2>1, <2>2, <3>1, <3>2
  <2> QED BY <2>1, <2>2, <1>3
<1>8. ASSUME UNCHANGED <<dialogueVars, obAt, held, text, cutOff>> PROVE HandInv'
  <2>1. UNCHANGED <<sessions, dialogue, dialogues, finisher, obAt, held, text, cutOff>>
    BY <1>8 DEF dialogueVars
  <2> QED BY <2>1 DEF HandInv, ObTypes, QuestionsCame, AnswersHeld, QuestionHandedOn
<1>9. ASSUME NEW u \in ObUsers, RowSaved(u) PROVE HandInv'
  BY <1>8, <1>9 DEF RowSaved
<1>10. CASE UNCHANGED obVars
  BY <1>8, <1>10 DEF obVars, dialogueVars
<1> QED BY <1>1, <1>2, <1>4, <1>5, <1>6, <1>7, <1>9, <1>10 DEF OnboardingNext

\* The question that a user's message asked before a dialogue began is not lost: once
\* the dialogue is over, the message that finished it carries the question on to the
\* agent, unless a call failed on its way (gateway.js, the step of the onboarding).
THEOREM QuestionReachesAgent == OnboardingSpec => []QuestionHandedOn
<1>1. OnboardingSpec => []HandInv
  BY HandStart, HandSteps, PTL DEF OnboardingSpec
<1> QED BY <1>1, PTL DEF HandInv

-----------------------------------------------------------------------------
(* The skills: disk, memory and the agents' lists, whatever is created,     *)
(* downloaded, deleted or restarted in between.                             *)

SkillsSpec == SkillsInit /\ [][SkillsNext]_skVars

\* What was created is kept on disk unless a write failed, a download of a created skill
\* has been overtaken, and every agent has exactly the skills somebody wanted for it.
SkillsInv ==
  /\ SkillsAsAgreed
  /\ \A i \in DOMAIN created \ unsaved : i \in DOMAIN disk /\ disk[i] = created[i]
  /\ downloads \cap DOMAIN created \subseteq overtaken
  /\ activeSkills = agreed /\ agreed \in [SkAgents -> SUBSET SkIds]

\* At the start every agent has the skills it is created with.
LEMMA SkillsStart == SkillsInit => SkillsInv
BY SkillsAssumption DEF SkillsInit, SkillsInv, SkillsAsAgreed, Prompts

\* Every step keeps it: a list, the memory and the disk change together.
LEMMA SkillsSteps == SkillsInv /\ [SkillsNext]_skVars => SkillsInv'
<1> SUFFICES ASSUME SkillsInv, [SkillsNext]_skVars PROVE SkillsInv'
  OBVIOUS
<1> USE DEF SkillsInv, SkillsAsAgreed, Prompts, diskVars
<1>1. ASSUME NEW id \in SkIds, Install(id) PROVE SkillsInv'
  BY <1>1 DEF Install, Put
<1>2. ASSUME NEW id \in SkIds, Downloaded(id) PROVE SkillsInv'
  BY <1>2 DEF Downloaded, Put
<1>3. ASSUME NEW id \in SkIds, DownloadFails(id) PROVE SkillsInv'
  BY <1>3 DEF DownloadFails
<1>4. ASSUME NEW id \in SkIds, CacheExpires(id) PROVE SkillsInv'
  BY <1>4 DEF CacheExpires
<1>5. ASSUME NEW id \in SkIds, Delete(id) PROVE SkillsInv'
  BY <1>5 DEF Delete, Dropped
<1>6. ASSUME NEW id \in SkIds, NEW a \in SkAgents, Create(id, a) PROVE SkillsInv'
  BY <1>6 DEF Create, Put
<1>7. ASSUME NEW id \in SkIds, NEW a \in SkAgents, Activate(id, a) PROVE SkillsInv'
  BY <1>7 DEF Activate
<1>8. CASE RestartSkills
  BY <1>8, SkillsAssumption DEF RestartSkills, Dropped, Started
<1>9. CASE UNCHANGED skVars
  BY <1>9 DEF skVars
<1> QED BY <1>1, <1>2, <1>3, <1>4, <1>5, <1>6, <1>7, <1>8, <1>9 DEF SkillsNext

\* A skill that was created stays until it is deleted, over restarts and unless its write
\* failed, and every agent is prompted with the skills somebody wanted for it.
THEOREM CreatedSkillsStay == SkillsSpec => []SkillsAsAgreed
<1>1. SkillsInv => SkillsAsAgreed
  BY DEF SkillsInv
<1> QED BY SkillsStart, SkillsSteps, <1>1, PTL DEF SkillsSpec

-----------------------------------------------------------------------------
(* The mailbox: what is not in the table is pending to be written, except   *)
(* while its write is under way.                                            *)

MailboxSpec == MailboxInit /\ [][MailboxNext]_mailboxVars

\* A write that was begun is of a sent message, and an entry that was retried k times
\* since its last failure has at least k INSERTs under way.
WritesCounted ==
  /\ mbWriting \in [MbMessages -> Nat]
  /\ mbPersist \in [MbMessages -> Nat \cup {NotPending}]
  /\ mbStatus \in [MbMessages -> {"none", "pending", "delivered", "dead_letter"}]
  /\ \A m \in MbMessages : mbPersist[m] # NotPending => mbPersist[m] <= mbWriting[m]
  /\ \A m \in MbMessages : Unwritten(m) => m \in mbSent

WriteKept == \A m \in MbMessages : Unwritten(m) /\ ~ Unwritten(m)' =>
               (mbStatus[m])' # "none" \/ mbLife' # mbLife

\* No write is under way at the start.
LEMMA WriteStart == MailboxInit => WritesCounted
BY MailboxAssumption DEF MailboxInit, WritesCounted, Unwritten

\* A step that ends an unwritten message has written it, or the process has started
\* again; the entry of a message is not dropped while an INSERT of it may still fail.
LEMMA WriteSteps ==
  /\ WritesCounted /\ [MailboxNext]_mailboxVars => WritesCounted'
  /\ WritesCounted /\ [MailboxNext]_mailboxVars => WriteKept
<1> SUFFICES ASSUME WritesCounted, [MailboxNext]_mailboxVars PROVE WritesCounted' /\ WriteKept
  OBVIOUS
<1> USE MailboxAssumption DEF WritesCounted, WriteKept, Unwritten, mbRows
<1>1. ASSUME NEW m \in MbMessages, NEW persist \in BOOLEAN, Send(m, persist)
      PROVE  WritesCounted' /\ WriteKept
  BY <1>1 DEF Send
<1>2. ASSUME NEW m \in MbMessages, RowInserted(m) PROVE WritesCounted' /\ WriteKept
  BY <1>2 DEF RowInserted
<1>3. ASSUME NEW m \in MbMessages, InsertFailed(m) PROVE WritesCounted' /\ WriteKept
  BY <1>3 DEF InsertFailed
<1>4. ASSUME NEW a, MailboxReceive(a) PROVE WritesCounted' /\ WriteKept
  BY <1>4 DEF MailboxReceive
<1>5. CASE RetryPendingPersists
  BY <1>5 DEF RetryPendingPersists
<1>6. CASE MarkDelivered
  BY <1>6 DEF MarkDelivered
<1>7. CASE MailboxRestart
  BY <1>7 DEF MailboxRestart
<1>8. CASE Clear
  BY <1>8 DEF Clear
<1>9. CASE RestoreRow
  BY <1>9 DEF RestoreRow
<1>10. ASSUME NEW counted, Restored(counted) PROVE WritesCounted' /\ WriteKept
  BY <1>10 DEF Restored
<1>11. ASSUME NEW counted, RestoreSkips(counted) PROVE WritesCounted' /\ WriteKept
  BY <1>11 DEF RestoreSkips
<1>12. CASE UNCHANGED mailboxVars
  BY <1>12 DEF mailboxVars
<1> QED BY <1>1, <1>2, <1>3, <1>4, <1>5, <1>6, <1>7, <1>8, <1>9, <1>10, <1>11, <1>12
        DEF MailboxNext

\* A message that is not in the table is written, or its write is pending or under way,
\* for as long as the process lives, however many of its INSERTs fail and overlap.
THEOREM WritesStay == MailboxSpec => WriteNotForgotten
<1>1. MailboxSpec => []WritesCounted
  BY WriteStart, WriteSteps, PTL DEF MailboxSpec
<1>2. WritesCounted /\ [MailboxNext]_mailboxVars =>
        [\A m \in MbMessages : Unwritten(m) /\ ~ Unwritten(m)' =>
           mbStatus'[m] # "none" \/ mbLife' # mbLife]_mailboxVars
  BY WriteSteps DEF WriteKept
<1> QED BY <1>1, <1>2, PTL DEF MailboxSpec, WriteNotForgotten

-----------------------------------------------------------------------------
(* Long-term memory.  What a view does not show yet is about to be made      *)
(* known by the one who wrote it, to this view and of this content; and      *)
(* that goes for a view under construction and the queries it has behind it. *)
(* A channel has no more rows than its limit, or only decisions, unless one  *)
(* of its sessions is still to count them, or to archive all that it found   *)
(* too many.                                                                 *)

\* The specification of the memory.
KnowledgeSpec == KnowledgeInit /\ [][KnowledgeNext]_knVars

\* j is going to have v forgotten, for c.
Announces(j, v, c) ==
  IF v.of = "profile"
  THEN step[j] = "created" /\ c = Head(left[j]) /\ v = Profile(KnUserOf[j])
  ELSE /\ KnKind[j] = "index" /\ step[j] \in {"save", "indexed"}
       /\ c \in Elements(KnContents[j]) /\ v.channel = KnChannelOf[j]

\* v shows seen to queries, apart from what is announced.
Shows(v, queries, seen) ==
  \A q \in queries : \A c \in Found(v, q) :
    c \in seen \/ \E j \in KnJobs : Announces(j, v, c)

\* A cached view shows what it was built to show.
CacheInv ==
  \A v \in DOMAIN cache : ~cache[v].flawed => v \in KnViews /\ Shows(v, Elements(Queries(v)), cache[v].seen)

\* A build is of a view, and shows what it has asked for.
BuildOK(b) ==
  /\ b = [view |-> b.view, queries |-> b.queries, seen |-> b.seen, flawed |-> b.flawed]
  /\ b.queries \in Seq(Elements(KnTypes) \cup {"decisions"})
  /\ b # NoBuild /\ ~b.flawed =>
       /\ b.view \in KnViews
       /\ Shows(b.view, Elements(Queries(b.view)) \ Elements(b.queries), b.seen)

\* So does every view under construction, of what it has asked for.
BuildInv ==
  /\ building = [r \in KnReaders |-> building[r]]
  /\ \A r \in KnReaders : BuildOK(building[r])

\* A session that has begun to save, and is to count what there is.
Counts(j) == step[j] \in {"indexed", "count"} \/ (step[j] = "save" /\ left[j] # KnContents[j])

\* What bounds a channel, or is going to.
Bounded(ch) ==
  \/ Cardinality(Live(ch)) <= ChannelLimit
  \/ \A c \in Live(ch) : rows[c].decision
  \/ \E j \in Indexing(ch) :
       Counts(j) \/ (step[j] = "archive" /\ Cardinality(Live(ch)) <= ChannelLimit + excess[j])

\* The channels with sessions to index.
IndexedChannels == {KnChannelOf[j] : j \in {i \in KnJobs : KnKind[i] = "index"}}

\* No enforcement has failed and the nights have saved nothing.
NoNights == ~spared /\ \A c \in DOMAIN rows : rows[c].by # "distil"

\* The channels of the sessions are bounded.
BloatInv == NoNights => \A ch \in IndexedChannels : Bounded(ch)

\* Where a job can be.
KnSteps == {"new", "search", "save", "graph", "created", "indexed",
            "count", "archive", "recount", "rearchive", "done"}

\* A job that is to save has something left, and a session that counts has begun.
JobsInv ==
  /\ step \in [KnJobs -> KnSteps]
  /\ left \in [KnJobs -> Seq(DOMAIN KnType)]
  /\ excess \in [KnJobs -> Nat]
  /\ \A j \in KnJobs :
       /\ Elements(left[j]) \subseteq Elements(KnContents[j]) /\ Len(left[j]) <= Len(KnContents[j])
       /\ step[j] \in {"new", "search", "save", "graph", "created"} => left[j] # <<>>
       /\ step[j] \in {"graph", "created"} => KnKind[j] = "tool"
       /\ KnKind[j] = "index" =>
            /\ step[j] \in {"save", "indexed", "count", "archive", "recount", "rearchive", "done"}
            /\ step[j] \in {"indexed", "count", "archive"} => Len(left[j]) < Len(KnContents[j])

\* A row.
IsRow(w) ==
  /\ w = [channel |-> w.channel, user |-> w.user, pool |-> w.pool, by |-> w.by, live |-> w.live,
          decision |-> w.decision, lasting |-> w.lasting]
  /\ w.live \in BOOLEAN /\ w.decision \in BOOLEAN /\ w.lasting \in BOOLEAN

\* The table is finite, and only contents classified as decisions are decisions.
TablesInv ==
  /\ IsFiniteSet(DOMAIN rows)
  /\ \A c \in DOMAIN rows : IsRow(rows[c]) /\ (rows[c].decision => c \in Decided)

\* The invariant.
KnowInv == JobsInv /\ TablesInv /\ CacheInv /\ BuildInv /\ BloatInv

-----------------------------------------------------------------------------
\* What is left of a sequence, and what is first in it, are of it.
LEMMA FirstAndRest ==
  ASSUME NEW T, NEW s \in Seq(T), s # <<>>
  PROVE  /\ Tail(s) \in Seq(T) /\ Len(Tail(s)) = Len(s) - 1 /\ Len(s) \in Nat \ {0}
         /\ Head(s) \in T /\ Head(s) \in Elements(s)
         /\ Elements(s) = {Head(s)} \cup Elements(Tail(s))
<1>1. Tail(s) \in Seq(T)
  OBVIOUS
<1>2. PICK n \in Nat : n = Len(s) - 1 /\ Len(s) = n + 1
  OBVIOUS
<1>3. /\ Len(Tail(s)) = n /\ \A i \in 1 .. n : Tail(s)[i] = s[i + 1]
      /\ Head(s) = s[1] /\ DOMAIN s = 1 .. n + 1 /\ DOMAIN Tail(s) = 1 .. n
  BY <1>2
<1>4. \A i \in 1 .. n + 1 : i = 1 \/ (i - 1 \in 1 .. n /\ i = i - 1 + 1)
  BY <1>2
<1>5. 1 \in 1 .. n + 1 /\ \A i \in 1 .. n : i + 1 \in 1 .. n + 1
  BY <1>2
<1>6. Elements(s) = {Head(s)} \cup Elements(Tail(s))
  <2>1. ASSUME NEW i \in 1 .. n + 1 PROVE s[i] \in {Head(s)} \cup Elements(Tail(s))
    <3>1. CASE i = 1
      BY <1>3, <3>1
    <3>2. CASE i - 1 \in 1 .. n /\ i = i - 1 + 1
      <4>1. Tail(s)[i - 1] = s[i] /\ Tail(s)[i - 1] \in Elements(Tail(s))
        BY <1>3, <3>2 DEF Elements
      <4> QED BY <4>1
    <3> QED BY <1>4, <3>1, <3>2
  <2>2. ASSUME NEW i \in 1 .. n PROVE Tail(s)[i] \in Elements(s)
    BY <1>3, <1>5 DEF Elements
  <2>3. Head(s) \in Elements(s)
    BY <1>3, <1>5 DEF Elements
  <2>4. Elements(s) = {s[i] : i \in 1 .. n + 1} /\ Elements(Tail(s)) = {Tail(s)[i] : i \in 1 .. n}
    BY <1>3 DEF Elements
  <2>5. Elements(s) \subseteq {Head(s)} \cup Elements(Tail(s))
    BY <2>1, <2>4
  <2>6. {Head(s)} \cup Elements(Tail(s)) \subseteq Elements(s)
    BY <2>2, <2>3, <2>4
  <2> QED BY <2>5, <2>6
<1> QED BY <1>1, <1>2, <1>3, <1>5, <1>6

\* A job takes a step with what is left as it is.
LEMMA JobSteps ==
  ASSUME JobsInv, NEW j \in KnJobs, NEW s \in KnSteps, step' = [step EXCEPT ![j] = s], UNCHANGED left,
         excess' \in [KnJobs -> Nat],
         s \in {"new", "search", "save", "graph", "created"} => left[j] # <<>>,
         s \in {"graph", "created"} => KnKind[j] = "tool",
         KnKind[j] = "index" =>
           /\ s \in {"save", "indexed", "count", "archive", "recount", "rearchive", "done"}
           /\ s \in {"indexed", "count", "archive"} => Len(left[j]) < Len(KnContents[j])
  PROVE  JobsInv'
BY DEF JobsInv

\* A job goes on to its next content.
LEMMA ContentsGoOn ==
  ASSUME JobsInv, NEW j \in KnJobs, NextContent(j), UNCHANGED excess, step[j] \in {"search", "save"}
  PROVE  JobsInv'
<1>1. /\ left[j] \in Seq(DOMAIN KnType) /\ left[j] # <<>> /\ Elements(left[j]) \subseteq Elements(KnContents[j])
      /\ Len(left[j]) <= Len(KnContents[j]) /\ Len(KnContents[j]) \in Nat
  BY KnowledgeAssumption DEF JobsInv
<1>2. PICK rest : rest = Tail(left[j])
  OBVIOUS
<1>3. /\ rest \in Seq(DOMAIN KnType) /\ Len(rest) = Len(left[j]) - 1 /\ Len(left[j]) \in Nat \ {0}
      /\ Elements(rest) \subseteq Elements(KnContents[j])
  <2>1. PICK all \in Seq(DOMAIN KnType) : all = left[j] /\ all # <<>>
    BY <1>1
  <2>2. /\ Tail(all) \in Seq(DOMAIN KnType) /\ Len(Tail(all)) = Len(all) - 1 /\ Len(all) \in Nat \ {0}
        /\ Elements(all) = {Head(all)} \cup Elements(Tail(all))
    BY <2>1, FirstAndRest
  <2> QED BY <1>1, <1>2, <2>1, <2>2
<1>4. Len(rest) \in Nat /\ Len(rest) < Len(KnContents[j]) /\ (Len(left[j]) > 1 => rest # <<>>)
  BY <1>1, <1>3
<1>5. PICK s : s = IF Len(left[j]) > 1 THEN FirstStep(j) ELSE IF KnKind[j] = "index" THEN "indexed" ELSE "count"
  OBVIOUS
<1>6. /\ s \in KnSteps /\ (s \in {"new", "search", "save", "graph", "created"} => rest # <<>>)
      /\ s \notin {"graph", "created"}
      /\ KnKind[j] = "index" => s \in {"save", "indexed"}
  BY <1>4, <1>5 DEF FirstStep, KnSteps
<1>7. left' = [left EXCEPT ![j] = rest] /\ step' = [step EXCEPT ![j] = s]
  BY <1>2, <1>5 DEF NextContent
<1> QED BY <1>3, <1>4, <1>6, <1>7 DEF JobsInv

\* Every step keeps the jobs in order.
LEMMA KnJobsNext == JobsInv /\ TablesInv /\ [KnowledgeNext]_knVars => JobsInv'
<1> SUFFICES ASSUME JobsInv, TablesInv, [KnowledgeNext]_knVars PROVE JobsInv'
  OBVIOUS
<1>0. /\ excess \in [KnJobs -> Nat] /\ step \in [KnJobs -> KnSteps]
      /\ \A j \in KnJobs :
           /\ step[j] \in {"new", "search", "save", "graph", "created"} => left[j] # <<>>
           /\ step[j] \in {"graph", "created"} => KnKind[j] = "tool"
           /\ KnKind[j] = "index" =>
                /\ step[j] \in {"save", "indexed", "count", "archive", "recount", "rearchive", "done"}
                /\ step[j] \in {"indexed", "count", "archive"} => Len(left[j]) < Len(KnContents[j])
  BY DEF JobsInv
<1>1. CASE UNCHANGED jobVars
  BY <1>1 DEF jobVars, JobsInv
<1>2. ASSUME NEW j \in KnJobs, Distil(j) PROVE JobsInv'
  BY <1>0, <1>2, JobSteps DEF Distil, KnSteps
<1>3. ASSUME NEW j \in KnJobs, Accepted(j) PROVE JobsInv'
  BY <1>0, <1>3, JobSteps DEF Accepted, KnSteps
<1>4. ASSUME NEW j \in KnJobs, Declined(j) PROVE JobsInv'
  BY <1>0, <1>4, JobSteps, ContentsGoOn DEF Declined, KnSteps
<1>5. ASSUME NEW j \in KnJobs, SaveRow(j) PROVE JobsInv'
  BY <1>0, <1>5, JobSteps, ContentsGoOn DEF SaveRow, KnSteps
<1>6. ASSUME NEW j \in KnJobs, SaveFails(j) PROVE JobsInv'
  BY <1>0, <1>6, JobSteps, ContentsGoOn DEF SaveFails, KnSteps
<1>7. ASSUME NEW j \in KnJobs, CreateMemory(j) PROVE JobsInv'
  BY <1>0, <1>7, JobSteps DEF CreateMemory, KnSteps
<1>8. ASSUME NEW j \in KnJobs, Saved(j) PROVE JobsInv'
  BY <1>0, <1>8, JobSteps DEF Saved, KnSteps
<1>9. ASSUME NEW j \in KnJobs, SessionIndexed(j) PROVE JobsInv'
  BY <1>0, <1>9, JobSteps DEF SessionIndexed, KnSteps
<1>10. ASSUME NEW j \in KnJobs, CountRows(j) PROVE JobsInv'
  <2>1. PICK n \in Nat : n = Cardinality(Counted(j))
    <3>1. Counted(j) \subseteq DOMAIN rows /\ IsFiniteSet(DOMAIN rows)
      BY DEF Counted, TablesInv
    <3> QED BY <3>1, FS_Subset, FS_CardinalityType
  <2>2. Limit(j) \in Nat
    BY KnowledgeAssumption DEF Limit
  <2>3. PICK s : /\ step' = [step EXCEPT ![j] = s]
                 /\ s \in {"recount", "done", "archive", "rearchive"}
                 /\ s = "archive" => step[j] = "count"
    <3>1. /\ step' = [step EXCEPT ![j] = step'[j]]
          /\ step'[j] \in {"recount", "done", "archive", "rearchive"}
          /\ step'[j] = "archive" => step[j] = "count"
      BY <1>0, <1>10 DEF CountRows, Enforced
    <3> QED BY <3>1
  <2>4. UNCHANGED left /\ excess' \in [KnJobs -> Nat]
    <3>1. excess' = [excess EXCEPT ![j] = IF n > Limit(j) THEN n - Limit(j) ELSE 0] /\ UNCHANGED left
      BY <1>10, <2>1 DEF CountRows
    <3>2. (IF n > Limit(j) THEN n - Limit(j) ELSE 0) \in Nat
      BY <2>1, <2>2
    <3> QED BY <1>0, <3>1, <3>2
  <2>5. s \in KnSteps
    BY <2>3 DEF KnSteps
  <2> QED BY <1>0, <2>3, <2>4, <2>5, JobSteps
<1>11. ASSUME NEW j \in KnJobs, ArchiveRows(j) PROVE JobsInv'
  <2>1. PICK s \in {"recount", "done"} : step' = [step EXCEPT ![j] = s]
    BY <1>11 DEF ArchiveRows, Enforced
  <2>2. s \in KnSteps /\ UNCHANGED <<left, excess>>
    BY <1>11, <2>1 DEF KnSteps, ArchiveRows
  <2> QED BY <1>0, <2>1, <2>2, JobSteps
<1>12. ASSUME NEW j \in KnJobs, EnforcementFails(j) PROVE JobsInv'
  BY <1>0, <1>12, JobSteps DEF EnforcementFails, KnSteps
<1>13. CASE \/ \E r \in KnReaders : \/ \E v \in KnViews : StartView(r, v)
                                    \/ ReadView(r) \/ ReadFails(r) \/ ShowView(r)
            \/ \E v \in KnViews : ViewExpires(v)
            \/ UNCHANGED knVars
  BY <1>1, <1>13 DEF StartView, ReadView, ReadFails, ShowView, ViewExpires, knVars, jobVars
<1> QED BY <1>2, <1>3, <1>4, <1>5, <1>6, <1>7, <1>8, <1>9, <1>10, <1>11, <1>12, <1>13 DEF KnowledgeNext

\* A function with one more argument.
LEMMA WithFacts ==
  ASSUME NEW f, NEW k, NEW x
  PROVE  /\ DOMAIN With(f, k, x) = DOMAIN f \cup {k} /\ With(f, k, x)[k] = x
         /\ \A y \in DOMAIN f : y # k => With(f, k, x)[y] = f[y]
BY DEF With

\* The table grows by rows, and rows are archived.
LEMMA TablesNext == JobsInv /\ TablesInv /\ [KnowledgeNext]_knVars => TablesInv'
<1> SUFFICES ASSUME TablesInv, [KnowledgeNext]_knVars PROVE TablesInv'
  OBVIOUS
<1>1. CASE UNCHANGED rows
  BY <1>1 DEF TablesInv
<1>2. ASSUME NEW j \in KnJobs, SaveRow(j) PROVE TablesInv'
  <2>1. PICK c : c = Head(left[j])
    OBVIOUS
  <2>2. CASE c \notin DOMAIN rows
    <3>1. rows' = With(rows, c, Row(j, c))
      BY <1>2, <2>1, <2>2 DEF SaveRow
    <3>2. IsRow(Row(j, c)) /\ (Row(j, c).decision => c \in Decided)
      BY DEF IsRow, Row
    <3>3. DOMAIN rows' = DOMAIN rows \cup {c} /\ IsFiniteSet(DOMAIN rows \cup {c})
      <4>1. DOMAIN rows' = DOMAIN rows \cup {c}
        BY <3>1, WithFacts
      <4>2. IsFiniteSet(DOMAIN rows \cup {c})
        BY FS_AddElement DEF TablesInv
      <4> QED BY <4>1, <4>2
    <3>4. rows'[c] = Row(j, c) /\ \A d \in DOMAIN rows : rows'[d] = rows[d]
      <4>1. PICK w : w = Row(j, c)
        OBVIOUS
      <4>2. With(rows, c, w)[c] = w /\ \A d \in DOMAIN rows : d # c => With(rows, c, w)[d] = rows[d]
        BY DEF With
      <4> QED BY <2>2, <3>1, <4>1, <4>2
    <3> QED BY <3>2, <3>3, <3>4 DEF TablesInv
  <2>3. CASE c \in DOMAIN rows
    BY <1>1, <1>2, <2>1, <2>3 DEF SaveRow
  <2> QED BY <2>2, <2>3
<1>3. ASSUME NEW j \in KnJobs, ArchiveRows(j) PROVE TablesInv'
  <2>1. PICK S : rows' = [c \in DOMAIN rows |-> [rows[c] EXCEPT !.live = @ /\ c \notin S]]
    BY <1>3 DEF ArchiveRows
  <2>2. DOMAIN rows' = DOMAIN rows
    BY <2>1
  <2>3. ASSUME NEW c \in DOMAIN rows PROVE IsRow(rows'[c]) /\ (rows'[c].decision => c \in Decided)
    <3>1. IsRow(rows[c]) /\ (rows[c].decision => c \in Decided)
      BY DEF TablesInv
    <3>2. rows'[c] = [rows[c] EXCEPT !.live = rows[c].live /\ c \notin S]
      BY <2>1
    <3> QED BY <3>1, <3>2 DEF IsRow
  <2> QED BY <2>2, <2>3 DEF TablesInv
<1>4. ASSUME NEW j \in KnJobs,
             \/ Distil(j) \/ Accepted(j) \/ Declined(j) \/ SaveFails(j) \/ CreateMemory(j) \/ Saved(j)
             \/ SessionIndexed(j) \/ CountRows(j) \/ EnforcementFails(j)
      PROVE  UNCHANGED rows
  BY <1>4 DEF Distil, Accepted, Declined, SaveFails, CreateMemory, Saved, SessionIndexed, CountRows,
       EnforcementFails, tableVars
<1>5. CASE \/ \E r \in KnReaders : \/ \E v \in KnViews : StartView(r, v)
                                   \/ ReadView(r) \/ ReadFails(r) \/ ShowView(r)
           \/ \E v \in KnViews : ViewExpires(v)
           \/ UNCHANGED knVars
  BY <1>1, <1>5 DEF StartView, ReadView, ReadFails, ShowView, ViewExpires, knVars, tableVars
<1> QED BY <1>1, <1>2, <1>3, <1>4, <1>5 DEF KnowledgeNext

-----------------------------------------------------------------------------
\* What v is to show to q after a step it shows by then, or is told.
KeepsShown(v, q) ==
  \A c \in Found(v, q)' :
    \/ c \in Found(v, q) /\ \A i \in KnJobs : Announces(i, v, c) => Announces(i, v, c)'
    \/ \E i \in KnJobs : Announces(i, v, c)'

\* What is shown stays shown when all that is new is announced.
LEMMA ShowsStays ==
  ASSUME NEW v, NEW queries, NEW seen, Shows(v, queries, seen), \A q \in queries : KeepsShown(v, q)
  PROVE  Shows(v, queries, seen)'
<1> SUFFICES ASSUME NEW q \in queries, NEW c \in Found(v, q)'
             PROVE  c \in seen \/ \E i \in KnJobs : Announces(i, v, c)'
  BY DEF Shows
<1>1. CASE c \in Found(v, q) /\ \A i \in KnJobs : Announces(i, v, c) => Announces(i, v, c)'
  <2>1. c \in seen \/ \E i \in KnJobs : Announces(i, v, c)
    BY <1>1 DEF Shows
  <2> QED BY <1>1, <2>1
<1>2. CASE \E i \in KnJobs : Announces(i, v, c)'
  BY <1>2
<1> QED BY <1>1, <1>2 DEF KeepsShown

\* A build stays as it is.
LEMMA BuildStays ==
  ASSUME NEW b, BuildOK(b),
         b # NoBuild /\ ~b.flawed =>
           \A q \in Elements(Queries(b.view)) \ Elements(b.queries) : KeepsShown(b.view, q)
  PROVE  BuildOK(b)'
<1>1. CASE b # NoBuild /\ ~b.flawed
  <2>1. PICK v : v = b.view
    OBVIOUS
  <2>2. PICK seen : seen = b.seen
    OBVIOUS
  <2>3. PICK behind : behind = Elements(Queries(b.view)) \ Elements(b.queries)
    OBVIOUS
  <2>4. Shows(v, behind, seen)
    BY <1>1, <2>1, <2>2, <2>3 DEF BuildOK
  <2>5. \A q \in behind : KeepsShown(v, q)
    BY <1>1, <2>1, <2>3
  <2>6. Shows(v, behind, seen)'
    BY <2>4, <2>5, ShowsStays
  <2>7. Shows(b.view, Elements(Queries(b.view)) \ Elements(b.queries), b.seen)'
    BY <2>1, <2>2, <2>3, <2>6
  <2> QED BY <2>7 DEF BuildOK
<1>2. CASE ~(b # NoBuild /\ ~b.flawed)
  BY <1>2 DEF BuildOK
<1> QED BY <1>1, <1>2

\* A cached view stays as it is.
LEMMA CachedStays ==
  ASSUME NEW v \in KnViews, NEW seen, Shows(v, Elements(Queries(v)), seen),
         \A q \in Elements(Queries(v)) : KeepsShown(v, q)
  PROVE  Shows(v, Elements(Queries(v)), seen)'
<1>1. PICK all : all = Elements(Queries(v))
  OBVIOUS
<1>2. Shows(v, all, seen)'
  BY <1>1, ShowsStays
<1> QED BY <1>1, <1>2

\* A job writes, and forgets nothing.
LEMMA ViewsStay ==
  ASSUME CacheInv, BuildInv, UNCHANGED readVars,
         \A v \in KnViews : \A q \in Elements(Queries(v)) : KeepsShown(v, q)
  PROVE  CacheInv' /\ BuildInv'
<1>1. cache' = cache /\ building' = building
  BY DEF readVars
<1>2. CacheInv'
  <2> SUFFICES ASSUME NEW v \in DOMAIN cache, ~cache[v].flawed
               PROVE  v \in KnViews /\ Shows(v, Elements(Queries(v)), cache[v].seen)'
    BY <1>1 DEF CacheInv
  <2>1. v \in KnViews /\ Shows(v, Elements(Queries(v)), cache[v].seen)
    BY DEF CacheInv
  <2>2. PICK seen : seen = cache[v].seen
    OBVIOUS
  <2>3. Shows(v, Elements(Queries(v)), seen)'
    BY <2>1, <2>2, CachedStays
  <2>4. cache'[v].seen = seen
    BY <1>1, <2>2
  <2> QED BY <2>1, <2>3, <2>4
<1>3. BuildInv'
  <2> SUFFICES ASSUME NEW r \in KnReaders PROVE BuildOK(building[r])'
    BY <1>1 DEF BuildInv
  <2>1. PICK b : b = building[r]
    OBVIOUS
  <2>2. BuildOK(b)
    BY <2>1 DEF BuildInv
  <2>3. b # NoBuild /\ ~b.flawed => b.view \in KnViews
    BY <2>2 DEF BuildOK
  <2>4. BuildOK(b)'
    BY <2>2, <2>3, BuildStays
  <2>5. building'[r] = b
    BY <1>1, <2>1
  <2> QED BY <2>4, <2>5
<1> QED BY <1>2, <1>3

\* A job has views forgotten.
LEMMA ForgottenKeeps ==
  ASSUME CacheInv, BuildInv, NEW V, NEW query, Forgotten(V, query),
         \A v \in KnViews : \A q \in Elements(Queries(v)) : ~(v \in V /\ q = query) => KeepsShown(v, q)
  PROVE  CacheInv' /\ BuildInv'
<1>1. CacheInv'
  <2>1. DOMAIN cache' = DOMAIN cache \ V /\ \A v \in DOMAIN cache' : cache'[v] = cache[v]
    BY DEF Forgotten, Sans
  <2> SUFFICES ASSUME NEW v \in DOMAIN cache', ~cache'[v].flawed
               PROVE  v \in KnViews /\ Shows(v, Elements(Queries(v)), cache[v].seen)'
    BY DEF CacheInv
  <2>2. v \in KnViews /\ Shows(v, Elements(Queries(v)), cache[v].seen) /\ v \notin V
    BY <2>1 DEF CacheInv
  <2>3. PICK seen : seen = cache[v].seen
    OBVIOUS
  <2>4. Shows(v, Elements(Queries(v)), seen)'
    BY <2>2, <2>3, CachedStays
  <2>5. cache'[v].seen = seen
    BY <2>1, <2>3
  <2> QED BY <2>2, <2>4, <2>5
<1>2. BuildInv'
  <2>1. building' = [r \in KnReaders |->
          IF building[r] # NoBuild /\ building[r].view \in V /\ query \notin Elements(building[r].queries)
          THEN [building[r] EXCEPT !.flawed = TRUE] ELSE building[r]]
    BY DEF Forgotten
  <2> SUFFICES ASSUME NEW r \in KnReaders PROVE BuildOK(building[r])'
    BY <2>1 DEF BuildInv
  <2>2. PICK b : b = building[r]
    OBVIOUS
  <2>3. BuildOK(b)
    BY <2>2 DEF BuildInv
  <2>4. CASE b # NoBuild /\ b.view \in V /\ query \notin Elements(b.queries)
    <3>1. PICK new : new = [b EXCEPT !.flawed = TRUE]
      OBVIOUS
    <3>2. new = [view |-> b.view, queries |-> b.queries, seen |-> b.seen, flawed |-> TRUE]
      BY <2>3, <3>1 DEF BuildOK
    <3>3. BuildOK(new)'
      BY <2>3, <3>2 DEF BuildOK
    <3>4. building'[r] = new
      BY <2>1, <2>2, <2>4, <3>1
    <3> QED BY <3>3, <3>4
  <2>5. CASE ~(b # NoBuild /\ b.view \in V /\ query \notin Elements(b.queries))
    <3>1. b # NoBuild /\ ~b.flawed => b.view \in KnViews
      BY <2>3 DEF BuildOK
    <3>2. b # NoBuild /\ ~b.flawed =>
            \A q \in Elements(Queries(b.view)) \ Elements(b.queries) : KeepsShown(b.view, q)
      BY <2>5, <3>1
    <3>3. BuildOK(b)'
      BY <2>3, <3>2, BuildStays
    <3>4. building'[r] = b
      BY <2>1, <2>2, <2>5
    <3> QED BY <3>3, <3>4
  <2> QED BY <2>4, <2>5
<1> QED BY <1>1, <1>2

\* What is asked for is a sequence of queries.
LEMMA QueriesFacts ==
  \A v : Queries(v) \in Seq(Elements(KnTypes) \cup {"decisions"})
<1>1. KnTypes \in Seq(Elements(KnTypes) \cup {"decisions"})
  <2>1. KnTypes \in Seq(Elements(KnTypes))
    BY KnowledgeAssumption DEF Elements
  <2> QED BY <2>1
<1>2. <<"decisions">> \in Seq(Elements(KnTypes) \cup {"decisions"})
  OBVIOUS
<1> QED BY <1>1, <1>2 DEF Queries

\* What is shown stays shown while nobody writes.
LEMMA ReadersStep ==
  ASSUME UNCHANGED <<rows, graph, step, left>>
  PROVE  /\ \A v, q : KeepsShown(v, q)
         /\ \A v, queries, seen : Shows(v, queries, seen) => Shows(v, queries, seen)'
<1>1. ASSUME NEW v, NEW q PROVE KeepsShown(v, q)
  BY DEF KeepsShown, Found, Announces
<1>2. ASSUME NEW v, NEW queries, NEW seen, Shows(v, queries, seen) PROVE Shows(v, queries, seen)'
  BY <1>1, <1>2, ShowsStays
<1> QED BY <1>1, <1>2

\* One reader goes on, with a build that is right.
LEMMA BuildGoesOn ==
  ASSUME CacheInv, BuildInv, UNCHANGED <<rows, graph, step, left, cache>>, NEW r \in KnReaders, NEW b,
         building' = [building EXCEPT ![r] = b], BuildOK(b)
  PROVE  CacheInv' /\ BuildInv'
<1>1. UNCHANGED <<rows, graph, step, left>> /\ cache' = cache
  OBVIOUS
<1>2. CacheInv'
  <2> SUFFICES ASSUME NEW v \in DOMAIN cache, ~cache[v].flawed
               PROVE  v \in KnViews /\ Shows(v, Elements(Queries(v)), cache[v].seen)'
    BY <1>1 DEF CacheInv
  <2>1. v \in KnViews /\ Shows(v, Elements(Queries(v)), cache[v].seen)
    BY DEF CacheInv
  <2>2. PICK seen : seen = cache[v].seen
    OBVIOUS
  <2>3. Shows(v, Elements(Queries(v)), seen)'
    BY <1>1, <2>1, <2>2, CachedStays, ReadersStep
  <2>4. cache'[v].seen = seen
    BY <1>1, <2>2
  <2> QED BY <2>1, <2>3, <2>4
<1>3. ASSUME NEW e, BuildOK(e) PROVE BuildOK(e)'
  BY <1>1, <1>3, BuildStays, ReadersStep
<1>4. building = [q \in KnReaders |-> building[q]] /\ \A q \in KnReaders : BuildOK(building[q])
  BY DEF BuildInv
<1>5. BuildInv'
  <2> SUFFICES ASSUME NEW q \in KnReaders PROVE BuildOK(building[q])'
    BY <1>4 DEF BuildInv
  <2>1. PICK e : e = building'[q]
    OBVIOUS
  <2>2. e = b \/ e = building[q]
    BY <1>4, <2>1
  <2>3. BuildOK(e)
    BY <1>4, <2>2
  <2>4. BuildOK(e)'
    BY <1>3, <2>3
  <2> QED BY <2>1, <2>4
<1> QED BY <1>2, <1>5

\* A query answers: the build shows what it was about, too.
LEMMA ReadKeeps ==
  ASSUME CacheInv, BuildInv, NEW r \in KnReaders, ReadView(r)
  PROVE  CacheInv' /\ BuildInv'
<1>1. PICK b : b = building[r]
  OBVIOUS
<1>2. BuildOK(b) /\ b.queries # <<>>
  BY <1>1 DEF BuildInv, ReadView
<1>3. PICK new : new = [view |-> b.view, queries |-> Tail(b.queries),
                        seen |-> b.seen \cup Found(b.view, Head(b.queries)), flawed |-> b.flawed]
  OBVIOUS
<1>4. b.queries \in Seq(Elements(KnTypes) \cup {"decisions"})
  BY <1>2 DEF BuildOK
<1>5. /\ Tail(b.queries) \in Seq(Elements(KnTypes) \cup {"decisions"})
      /\ Elements(b.queries) = {Head(b.queries)} \cup Elements(Tail(b.queries))
  BY <1>2, <1>4, FirstAndRest
<1>6. building' = [building EXCEPT ![r] = new]
  <2>1. building = [q \in KnReaders |-> building[q]]
    BY DEF BuildInv
  <2>2. b = [view |-> b.view, queries |-> b.queries, seen |-> b.seen, flawed |-> b.flawed]
    BY <1>2 DEF BuildOK
  <2>3. building' = [building EXCEPT ![r] = [[b EXCEPT !.queries = Tail(b.queries)]
                                              EXCEPT !.seen = b.seen \cup Found(b.view, Head(b.queries))]]
    BY <1>1, <2>1, <2>2 DEF ReadView
  <2>4. PICK t, s2 : t = Tail(b.queries) /\ s2 = b.seen \cup Found(b.view, Head(b.queries))
    OBVIOUS
  <2>5. PICK half : half = [b EXCEPT !.queries = t]
    OBVIOUS
  <2>6. half = [view |-> b.view, queries |-> t, seen |-> b.seen, flawed |-> b.flawed]
    BY <2>2, <2>5
  <2>7. [half EXCEPT !.seen = s2] = [view |-> b.view, queries |-> t, seen |-> s2, flawed |-> b.flawed]
    BY <2>6
  <2>8. [half EXCEPT !.seen = s2] = new
    BY <1>3, <2>4, <2>7
  <2>9. building' = [building EXCEPT ![r] = [half EXCEPT !.seen = s2]]
    BY <2>3, <2>4, <2>5
  <2> QED BY <2>8, <2>9
<1>7. b # NoBuild
  <2>1. NoBuild.queries = <<>>
    BY DEF NoBuild
  <2> QED BY <1>2, <2>1
<1>8. ASSUME ~b.flawed
      PROVE  /\ b.view \in KnViews
             /\ Shows(b.view, Elements(Queries(b.view)) \ Elements(Tail(b.queries)),
                      b.seen \cup Found(b.view, Head(b.queries)))
  <2>1. b.view \in KnViews /\ Shows(b.view, Elements(Queries(b.view)) \ Elements(b.queries), b.seen)
    BY <1>2, <1>7, <1>8 DEF BuildOK
  <2>2. ASSUME NEW q \in Elements(Queries(b.view)) \ Elements(Tail(b.queries)), NEW c \in Found(b.view, q)
        PROVE  c \in b.seen \cup Found(b.view, Head(b.queries)) \/ \E i \in KnJobs : Announces(i, b.view, c)
    <3>1. CASE q = Head(b.queries)
      BY <2>2, <3>1
    <3>2. CASE q # Head(b.queries)
      <4>1. q \in Elements(Queries(b.view)) \ Elements(b.queries)
        BY <1>5, <3>2
      <4>2. c \in b.seen \/ \E i \in KnJobs : Announces(i, b.view, c)
        BY <2>1, <4>1 DEF Shows
      <4> QED BY <4>2
    <3> QED BY <3>1, <3>2
  <2> QED BY <2>1, <2>2 DEF Shows
<1>9. BuildOK(new)
  <2>1. /\ new.view = b.view /\ new.queries = Tail(b.queries) /\ new.flawed = b.flawed
        /\ new.seen = b.seen \cup Found(b.view, Head(b.queries))
        /\ new = [view |-> new.view, queries |-> new.queries, seen |-> new.seen, flawed |-> new.flawed]
    BY <1>3
  <2>2. ~new.flawed =>
          /\ new.view \in KnViews
          /\ Shows(new.view, Elements(Queries(new.view)) \ Elements(new.queries), new.seen)
    BY <1>8, <2>1
  <2>3. new.queries \in Seq(Elements(KnTypes) \cup {"decisions"})
    BY <1>5, <2>1
  <2> QED BY <2>1, <2>2, <2>3 DEF BuildOK
<1>10. UNCHANGED <<rows, graph, step, left, cache>>
  BY DEF ReadView, tableVars, jobVars
<1> QED BY <1>6, <1>9, <1>10, BuildGoesOn


\* A reader begins.
LEMMA StartKeeps ==
  ASSUME CacheInv, BuildInv, NEW r \in KnReaders, NEW v \in KnViews, StartView(r, v)
  PROVE  CacheInv' /\ BuildInv'
<1>1. PICK new : new = [view |-> v, queries |-> Queries(v), seen |-> {}, flawed |-> FALSE]
  OBVIOUS
<1>2. building' = [building EXCEPT ![r] = new] /\ UNCHANGED <<rows, graph, step, left, cache>>
  BY <1>1 DEF StartView, tableVars, jobVars
<1>3. BuildOK(new)
  <2>1. new.view = v /\ new.queries = Queries(v) /\ new.seen = {} /\ new.flawed = FALSE
    BY <1>1
  <2>2. new = [view |-> new.view, queries |-> new.queries, seen |-> new.seen, flawed |-> new.flawed]
    BY <1>1
  <2>3. new.queries \in Seq(Elements(KnTypes) \cup {"decisions"})
    BY <2>1, QueriesFacts
  <2>4. Shows(new.view, Elements(Queries(new.view)) \ Elements(new.queries), new.seen)
    <3>1. Elements(Queries(new.view)) \ Elements(new.queries) = {}
      BY <2>1
    <3> QED BY <3>1 DEF Shows
  <2> QED BY <2>1, <2>2, <2>3, <2>4 DEF BuildOK
<1> QED BY <1>2, <1>3, BuildGoesOn

\* No build is as good as a right one.
LEMMA NoBuildOK == BuildOK(NoBuild)
<1>1. <<>> \in Seq(Elements(KnTypes) \cup {"decisions"})
  OBVIOUS
<1> QED BY <1>1 DEF BuildOK, NoBuild

\* A query fails.
LEMMA ReadFailsKeeps ==
  ASSUME CacheInv, BuildInv, NEW r \in KnReaders, ReadFails(r)
  PROVE  CacheInv' /\ BuildInv'
<1>1. PICK b : b = building[r]
  OBVIOUS
<1>2. BuildOK(b) /\ b.queries # <<>>
  BY <1>1 DEF BuildInv, ReadFails
<1>3. UNCHANGED <<rows, graph, step, left, cache>>
  BY DEF ReadFails, tableVars, jobVars
<1>4. CASE b.view.of = "profile"
  <2>1. PICK t : t = Tail(b.queries)
    OBVIOUS
  <2>2. t \in Seq(Elements(KnTypes) \cup {"decisions"})
    <3>1. b.queries \in Seq(Elements(KnTypes) \cup {"decisions"})
      BY <1>2 DEF BuildOK
    <3> QED BY <1>2, <2>1, <3>1, FirstAndRest
  <2>3. PICK new : new = [view |-> b.view, queries |-> t, seen |-> b.seen, flawed |-> TRUE]
    OBVIOUS
  <2>4. building' = [building EXCEPT ![r] = new]
    <3>1. b = [view |-> b.view, queries |-> b.queries, seen |-> b.seen, flawed |-> b.flawed]
      BY <1>2 DEF BuildOK
    <3>2. PICK half : half = [b EXCEPT !.queries = t]
      OBVIOUS
    <3>3. half = [view |-> b.view, queries |-> t, seen |-> b.seen, flawed |-> b.flawed]
      BY <3>1, <3>2
    <3>4. [half EXCEPT !.flawed = TRUE] = new
      <4>1. ASSUME NEW x PROVE [half EXCEPT !.flawed = x] = [view |-> b.view, queries |-> t, seen |-> b.seen, flawed |-> x]
        BY <3>3
      <4>2. [half EXCEPT !.flawed = TRUE] = [view |-> b.view, queries |-> t, seen |-> b.seen, flawed |-> TRUE]
        BY <4>1, Zenon
      <4> QED BY <2>3, <4>2, Zenon
    <3>5. building' = [building EXCEPT ![r] = [half EXCEPT !.flawed = TRUE]]
      BY <1>1, <1>4, <2>1, <3>1, <3>2 DEF ReadFails
    <3> QED BY <3>4, <3>5
  <2>5. BuildOK(new)
    BY <2>2, <2>3 DEF BuildOK
  <2> QED BY <1>3, <2>4, <2>5, BuildGoesOn
<1>5. CASE b.view.of # "profile"
  <2>1. building' = [building EXCEPT ![r] = NoBuild]
    BY <1>1, <1>5 DEF ReadFails
  <2>2. PICK none : none = NoBuild
    OBVIOUS
  <2> QED BY <1>3, <2>1, <2>2, NoBuildOK, BuildGoesOn
<1> QED BY <1>4, <1>5

\* What was built is shown.
LEMMA ShowKeeps ==
  ASSUME CacheInv, BuildInv, NEW r \in KnReaders, ShowView(r)
  PROVE  CacheInv' /\ BuildInv'
<1>1. PICK b : b = building[r]
  OBVIOUS
<1>2. BuildOK(b) /\ b # NoBuild /\ b.queries = <<>>
  BY <1>1 DEF BuildInv, ShowView
<1>3. /\ UNCHANGED <<rows, graph, step, left>>
      /\ cache' = With(cache, b.view, [seen |-> b.seen, flawed |-> b.flawed])
      /\ building' = [building EXCEPT ![r] = NoBuild]
  BY <1>1 DEF ShowView, tableVars, jobVars
<1>4. BuildInv'
  <2>1. building = [q \in KnReaders |-> building[q]] /\ \A q \in KnReaders : BuildOK(building[q])
    BY DEF BuildInv
  <2>2. building' = [q \in KnReaders |-> building'[q]]
    BY <1>3, <2>1
  <2> SUFFICES ASSUME NEW q \in KnReaders PROVE BuildOK(building[q])'
    BY <2>2 DEF BuildInv
  <2>3. PICK e : e = building'[q]
    OBVIOUS
  <2>4. e = NoBuild \/ e = building[q]
    BY <1>3, <2>1, <2>3
  <2>5. BuildOK(e)
    BY <2>1, <2>4, NoBuildOK
  <2>6. BuildOK(e)'
    BY <1>3, <2>5, BuildStays, ReadersStep
  <2> QED BY <2>3, <2>6
<1>5. CacheInv'
  <2>1. PICK k : k = b.view
    OBVIOUS
  <2>2. PICK x : x = [seen |-> b.seen, flawed |-> b.flawed]
    OBVIOUS
  <2>3. /\ DOMAIN cache' = DOMAIN cache \cup {k} /\ cache'[k] = x
        /\ \A v \in DOMAIN cache : v # k => cache'[v] = cache[v]
    BY <1>3, <2>1, <2>2 DEF With
  <2>4. ASSUME NEW v \in DOMAIN cache', ~cache'[v].flawed
        PROVE  v \in KnViews /\ Shows(v, Elements(Queries(v)), cache'[v].seen)
    <3>1. CASE v = k
      <4>1. ~b.flawed /\ cache'[v].seen = b.seen
        BY <2>2, <2>3, <2>4, <3>1
      <4>2. v \in KnViews /\ Shows(v, Elements(Queries(v)) \ Elements(b.queries), b.seen)
        BY <1>2, <2>1, <3>1, <4>1 DEF BuildOK
      <4>3. Elements(b.queries) = {}
        BY <1>2 DEF Elements
      <4>4. Elements(Queries(v)) \ Elements(b.queries) = Elements(Queries(v))
        BY <4>3
      <4> QED BY <4>1, <4>2, <4>4
    <3>2. CASE v # k
      BY <2>3, <2>4, <3>2 DEF CacheInv
    <3> QED BY <3>1, <3>2
  <2>5. ASSUME NEW v \in DOMAIN cache', ~cache'[v].flawed
        PROVE  v \in KnViews /\ Shows(v, Elements(Queries(v)), cache[v].seen)'
    <3>1. PICK seen : seen = cache'[v].seen
      OBVIOUS
    <3>2. Shows(v, Elements(Queries(v)), seen) /\ v \in KnViews
      BY <2>4, <2>5, <3>1
    <3>3. Shows(v, Elements(Queries(v)), seen)'
      BY <1>3, <3>2, CachedStays, ReadersStep
    <3> QED BY <3>1, <3>2, <3>3
  <2> QED BY <2>5 DEF CacheInv
<1> QED BY <1>4, <1>5

\* What is cached expires.
LEMMA ExpiryKeeps ==
  ASSUME CacheInv, BuildInv, NEW k \in KnViews, ViewExpires(k)
  PROVE  CacheInv' /\ BuildInv'
<1>1. /\ UNCHANGED <<rows, graph, step, left>> /\ building' = building
      /\ DOMAIN cache' \subseteq DOMAIN cache /\ \A v \in DOMAIN cache' : cache'[v] = cache[v]
  BY DEF ViewExpires, Sans, tableVars, jobVars
<1>2. CacheInv'
  <2> SUFFICES ASSUME NEW v \in DOMAIN cache', ~cache'[v].flawed
               PROVE  v \in KnViews /\ Shows(v, Elements(Queries(v)), cache[v].seen)'
    BY DEF CacheInv
  <2>1. v \in KnViews /\ Shows(v, Elements(Queries(v)), cache[v].seen)
    BY <1>1 DEF CacheInv
  <2>2. PICK seen : seen = cache[v].seen
    OBVIOUS
  <2>3. Shows(v, Elements(Queries(v)), seen)'
    BY <1>1, <2>1, <2>2, CachedStays, ReadersStep
  <2>4. cache'[v].seen = seen
    BY <1>1, <2>2
  <2> QED BY <2>1, <2>3, <2>4
<1>3. BuildInv'
  <2> SUFFICES ASSUME NEW q \in KnReaders PROVE BuildOK(building[q])'
    BY <1>1 DEF BuildInv
  <2>1. PICK e : e = building[q]
    OBVIOUS
  <2>2. BuildOK(e)
    BY <2>1 DEF BuildInv
  <2>3. BuildOK(e)'
    BY <1>1, <2>2, BuildStays, ReadersStep
  <2>4. building'[q] = e
    BY <1>1, <2>1
  <2> QED BY <2>3, <2>4
<1> QED BY <1>2, <1>3

-----------------------------------------------------------------------------
\* A job that takes a step takes nothing back, unless it has had the views
\* forgotten.
LEMMA AnnouncesStay ==
  ASSUME JobsInv, NEW j \in KnJobs, NEW s, step' = [step EXCEPT ![j] = s],
         NEW rest, left' = [left EXCEPT ![j] = rest] \/ left' = left, step[j] # "created",
         KnKind[j] = "index" /\ step[j] \in {"save", "indexed"} => s \in {"save", "indexed"}
  PROVE  \A i \in KnJobs : \A v, c : Announces(i, v, c) => Announces(i, v, c)'
<1> SUFFICES ASSUME NEW i \in KnJobs, NEW v, NEW c, Announces(i, v, c) PROVE Announces(i, v, c)'
  OBVIOUS
<1>1. CASE i = j
  BY <1>1 DEF Announces
<1>2. CASE i # j
  <2>1. step'[i] = step[i] /\ (left'[i] = left[i] \/ left' = left)
    BY <1>2 DEF JobsInv
  <2>2. left'[i] = left[i]
    BY <2>1
  <2> QED BY <2>1, <2>2 DEF Announces
<1> QED BY <1>1, <1>2

\* A job takes a step, and neither table has something to show that it had not.
LEMMA NothingNew ==
  ASSUME CacheInv, BuildInv, UNCHANGED readVars,
         \A i \in KnJobs : \A v, c : Announces(i, v, c) => Announces(i, v, c)',
         \A v, q : Found(v, q)' \subseteq Found(v, q)
  PROVE  CacheInv' /\ BuildInv'
<1>1. \A v, q : KeepsShown(v, q)
  BY DEF KeepsShown
<1> QED BY <1>1, ViewsStay

\* A job takes a step that writes nothing.
LEMMA StepKeeps ==
  ASSUME CacheInv, BuildInv, UNCHANGED readVars, UNCHANGED tableVars,
         JobsInv, NEW j \in KnJobs, NEW s, step' = [step EXCEPT ![j] = s],
         NEW rest, left' = [left EXCEPT ![j] = rest] \/ left' = left, step[j] # "created",
         KnKind[j] = "index" /\ step[j] \in {"save", "indexed"} => s \in {"save", "indexed"}
  PROVE  CacheInv' /\ BuildInv'
<1>1. \A i \in KnJobs : \A v, c : Announces(i, v, c) => Announces(i, v, c)'
  BY AnnouncesStay
<1>2. \A v, q : Found(v, q)' \subseteq Found(v, q)
  BY DEF Found, tableVars
<1> QED BY <1>1, <1>2, NothingNew

\* A content is saved, or it is not: where the job goes.
LEMMA WhereNext ==
  ASSUME NEW j \in KnJobs, NextContent(j)
  PROVE  \E s, rest : /\ step' = [step EXCEPT ![j] = s] /\ left' = [left EXCEPT ![j] = rest]
                      /\ KnKind[j] = "index" => s \in {"save", "indexed"}
<1>1. PICK s : s = IF Len(left[j]) > 1 THEN FirstStep(j) ELSE IF KnKind[j] = "index" THEN "indexed" ELSE "count"
  OBVIOUS
<1>2. PICK rest : rest = Tail(left[j])
  OBVIOUS
<1>3. step' = [step EXCEPT ![j] = s] /\ left' = [left EXCEPT ![j] = rest]
  BY <1>1, <1>2 DEF NextContent
<1>4. KnKind[j] = "index" => s \in {"save", "indexed"}
  BY <1>1 DEF FirstStep
<1> QED BY <1>3, <1>4

\* A row is saved: what a bulletin is to show of it, its session announces.
LEMMA SaveKeeps ==
  ASSUME JobsInv, CacheInv, BuildInv, NEW j \in KnJobs, SaveRow(j)
  PROVE  CacheInv' /\ BuildInv'
<1>1. step \in [KnJobs -> KnSteps] /\ step[j] = "save" /\ UNCHANGED readVars /\ graph' = graph
  BY DEF JobsInv, SaveRow
<1>2. PICK s, rest : /\ step' = [step EXCEPT ![j] = s] /\ (left' = [left EXCEPT ![j] = rest] \/ left' = left)
                     /\ KnKind[j] = "index" => s \in {"save", "indexed"}
  <2>1. CASE KnKind[j] = "tool"
    BY <2>1 DEF SaveRow
  <2>2. CASE KnKind[j] # "tool"
    <3>1. NextContent(j)
      BY <2>2 DEF SaveRow
    <3> QED BY <3>1, WhereNext
  <2> QED BY <2>1, <2>2
<1>3. \A i \in KnJobs : \A v, c : Announces(i, v, c) => Announces(i, v, c)'
  BY <1>1, <1>2, AnnouncesStay
<1>4. PICK c : c = Head(left[j])
  OBVIOUS
<1>5. CASE c \in DOMAIN rows
  <2>1. rows' = rows
    BY <1>4, <1>5 DEF SaveRow
  <2>2. \A v, q : Found(v, q)' \subseteq Found(v, q)
    BY <1>1, <2>1 DEF Found
  <2> QED BY <1>1, <1>3, <2>2, NothingNew
<1>6. CASE c \notin DOMAIN rows
  <2>1. c \in Elements(KnContents[j])
    <3>1. PICK all \in Seq(DOMAIN KnType) : all = left[j] /\ all # <<>>
      BY <1>1 DEF JobsInv
    <3>2. Head(all) \in Elements(all)
      BY <3>1, FirstAndRest
    <3>3. Elements(left[j]) \subseteq Elements(KnContents[j])
      BY DEF JobsInv
    <3> QED BY <1>4, <3>1, <3>2, <3>3
  <2>2. PICK w : w = Row(j, c)
    OBVIOUS
  <2>3. /\ DOMAIN rows' = DOMAIN rows \cup {c} /\ rows'[c] = w
        /\ \A d \in DOMAIN rows : d # c => rows'[d] = rows[d]
    BY <1>4, <1>6, <2>2 DEF SaveRow, With
  <2>4. ASSUME NEW v \in KnViews, NEW q PROVE KeepsShown(v, q)
    <3> SUFFICES ASSUME NEW d \in Found(v, q)'
                 PROVE  \/ d \in Found(v, q)
                        \/ \E i \in KnJobs : Announces(i, v, d)'
      BY <1>3 DEF KeepsShown
    <3>1. CASE v.of = "profile"
      BY <1>1, <3>1 DEF Found
    <3>2. CASE v.of # "profile"
      <4>1. v.channel # Nowhere
        BY <3>2, KnowledgeAssumption
      <4>2. d \in DOMAIN rows' /\ rows'[d].channel = v.channel /\ rows'[d].decision /\ rows'[d].live
        BY <3>2 DEF Found
      <4>3. CASE d = c
        <5>1. w.channel = v.channel /\ w.decision
          BY <2>3, <4>2, <4>3
        <5>2. KnKind[j] = "index" /\ v.channel = KnChannelOf[j]
          BY <2>2, <4>1, <5>1, KnowledgeAssumption DEF Row
        <5>3. step'[j] \in {"save", "indexed"}
          BY <1>1, <1>2, <5>2
        <5>4. Announces(j, v, d)'
          BY <2>1, <3>2, <4>3, <5>2, <5>3 DEF Announces
        <5> QED BY <5>4
      <4>4. CASE d # c
        BY <2>3, <3>2, <4>2, <4>4 DEF Found
      <4> QED BY <4>3, <4>4
    <3> QED BY <3>1, <3>2
  <2> QED BY <1>1, <2>4, ViewsStay
<1> QED BY <1>5, <1>6

\* A memory is created: its tool announces it.
LEMMA CreateKeeps ==
  ASSUME JobsInv, CacheInv, BuildInv, NEW j \in KnJobs, CreateMemory(j)
  PROVE  CacheInv' /\ BuildInv'
<1>1. /\ step \in [KnJobs -> KnSteps] /\ step[j] = "graph" /\ UNCHANGED readVars /\ rows' = rows
      /\ KnKind[j] = "tool" /\ left' = left
  BY DEF JobsInv, CreateMemory
<1>2. CASE graph' = graph
  <2>1. PICK s : step' = [step EXCEPT ![j] = s]
    BY DEF CreateMemory
  <2>2. UNCHANGED tableVars
    BY <1>1, <1>2 DEF tableVars
  <2> QED BY <1>1, <2>1, <2>2, StepKeeps
<1>3. CASE graph' # graph
  <2>1. PICK c : c = Head(left[j])
    OBVIOUS
  <2>2. c \notin DOMAIN graph /\ graph' = With(graph, c, KnUserOf[j]) /\ step' = [step EXCEPT ![j] = "created"]
    BY <1>3, <2>1 DEF CreateMemory
  <2>3. PICK u : u = KnUserOf[j]
    OBVIOUS
  <2>4. /\ DOMAIN graph' = DOMAIN graph \cup {c} /\ graph'[c] = u
        /\ \A d \in DOMAIN graph : d # c => graph'[d] = graph[d]
    BY <2>2, <2>3 DEF With
  <2>5. \A i \in KnJobs : \A v, d : Announces(i, v, d) => Announces(i, v, d)'
    BY <1>1, <2>2, AnnouncesStay
  <2>6. ASSUME NEW v \in KnViews, NEW q PROVE KeepsShown(v, q)
    <3> SUFFICES ASSUME NEW d \in Found(v, q)'
                 PROVE  \/ d \in Found(v, q)
                        \/ \E i \in KnJobs : Announces(i, v, d)'
      BY <2>5 DEF KeepsShown
    <3>1. CASE v.of # "profile"
      BY <1>1, <3>1 DEF Found
    <3>2. CASE v.of = "profile"
      <4>1. d \in DOMAIN graph' /\ graph'[d] = v.user /\ KnType[d] = q
        BY <3>2 DEF Found
      <4>2. CASE d = c
        <5>1. v.user = KnUserOf[j]
          BY <2>3, <2>4, <4>1, <4>2
        <5>2. v = Profile(KnUserOf[j])
          BY <3>2, <5>1, KnowledgeAssumption DEF Profile
        <5>3. step'[j] = "created" /\ left'[j] = left[j]
          BY <1>1, <2>2
        <5>4. Announces(j, v, d)'
          BY <2>1, <3>2, <4>2, <5>2, <5>3 DEF Announces
        <5> QED BY <5>4
      <4>3. CASE d # c
        BY <2>4, <3>2, <4>1, <4>3 DEF Found
      <4> QED BY <4>2, <4>3
    <3> QED BY <3>1, <3>2
  <2> QED BY <1>1, <2>6, ViewsStay
<1> QED BY <1>2, <1>3

\* Rows are archived: less is to be shown.
LEMMA ArchiveKeeps ==
  ASSUME JobsInv, TablesInv, CacheInv, BuildInv, NEW j \in KnJobs, ArchiveRows(j)
  PROVE  CacheInv' /\ BuildInv'
<1>1. /\ step \in [KnJobs -> KnSteps] /\ step[j] \in {"archive", "rearchive"} /\ UNCHANGED readVars
      /\ graph' = graph /\ left' = left
  BY DEF JobsInv, ArchiveRows
<1>2. PICK s : step' = [step EXCEPT ![j] = s]
  BY DEF ArchiveRows
<1>3. \A i \in KnJobs : \A v, c : Announces(i, v, c) => Announces(i, v, c)'
  BY <1>1, <1>2, AnnouncesStay
<1>4. PICK S : rows' = [c \in DOMAIN rows |-> [rows[c] EXCEPT !.live = @ /\ c \notin S]]
  BY DEF ArchiveRows
<1>5. /\ DOMAIN rows' = DOMAIN rows
      /\ \A c \in DOMAIN rows : /\ rows'[c].channel = rows[c].channel /\ rows'[c].decision = rows[c].decision
                                /\ rows'[c].live => rows[c].live
  <2>1. DOMAIN rows' = DOMAIN rows
    BY <1>4
  <2>2. ASSUME NEW c \in DOMAIN rows
        PROVE  /\ rows'[c].channel = rows[c].channel /\ rows'[c].decision = rows[c].decision
               /\ rows'[c].live => rows[c].live
    <3>1. PICK w : w = rows[c] /\ IsRow(w)
      BY DEF TablesInv
    <3>2. PICK x \in BOOLEAN : x = (w.live /\ c \notin S)
      BY DEF IsRow
    <3>3. rows'[c] = [w EXCEPT !.live = x]
      BY <1>4, <3>1, <3>2
    <3>4. w = [channel |-> w.channel, user |-> w.user, pool |-> w.pool, by |-> w.by, live |-> w.live,
               decision |-> w.decision, lasting |-> w.lasting]
      BY <3>1 DEF IsRow
    <3>5. rows'[c].channel = w.channel /\ rows'[c].decision = w.decision /\ rows'[c].live = x
      BY <3>3, <3>4
    <3> QED BY <3>1, <3>2, <3>5
  <2> QED BY <2>1, <2>2
<1>6. \A v, q : Found(v, q)' \subseteq Found(v, q)
  BY <1>1, <1>5 DEF Found
<1> QED BY <1>1, <1>3, <1>6, NothingNew


\* The tool ends: what it announces is the memory it has created, to the profile
\* it has forgotten.
LEMMA SavedKeeps ==
  ASSUME JobsInv, CacheInv, BuildInv, NEW j \in KnJobs, Saved(j)
  PROVE  CacheInv' /\ BuildInv'
<1>1. /\ step \in [KnJobs -> KnSteps] /\ step[j] = "created" /\ UNCHANGED <<rows, graph, left>>
      /\ step' = [step EXCEPT ![j] = "done"] /\ KnKind[j] = "tool"
  BY DEF JobsInv, Saved, tableVars
<1>2. PICK V, query : /\ V = {Profile(KnUserOf[j])} /\ query = KnType[Head(left[j])]
                      /\ Forgotten(V, query)
  BY DEF Saved, RefreshProfile
<1>3. ASSUME NEW v \in KnViews, NEW q, ~(v \in V /\ q = query)
      PROVE  KeepsShown(v, q)
  <2> SUFFICES ASSUME NEW c \in Found(v, q), NEW i \in KnJobs, Announces(i, v, c) PROVE Announces(i, v, c)'
    BY <1>1 DEF KeepsShown, Found
  <2>1. CASE i # j
    BY <1>1, <2>1 DEF Announces
  <2>2. CASE i = j
    <3>1. c = Head(left[j]) /\ v = Profile(KnUserOf[j]) /\ v.of = "profile"
      BY <1>1, <2>2 DEF Announces, Profile
    <3>2. KnType[c] = q
      BY <3>1 DEF Found
    <3> QED BY <1>2, <1>3, <3>1, <3>2
  <2> QED BY <2>1, <2>2
<1>4. \A v \in KnViews : \A q \in Elements(Queries(v)) : ~(v \in V /\ q = query) => KeepsShown(v, q)
  BY <1>3
<1> QED BY <1>2, <1>4, ForgottenKeeps

\* A session is indexed: what it announces are its decisions, to the bulletins of
\* its channel.
LEMMA IndexedKeeps ==
  ASSUME JobsInv, TablesInv, CacheInv, BuildInv, NEW j \in KnJobs, SessionIndexed(j)
  PROVE  CacheInv' /\ BuildInv'
<1>1. /\ step \in [KnJobs -> KnSteps] /\ step[j] = "indexed" /\ UNCHANGED <<rows, graph, left>>
      /\ step' = [step EXCEPT ![j] = "count"]
  BY DEF JobsInv, SessionIndexed, tableVars
<1>2. ASSUME NEW v \in KnViews, NEW q, NEW c \in Found(v, q), NEW i \in KnJobs, Announces(i, v, c),
             ~Announces(i, v, c)'
      PROVE  /\ i = j /\ v \in BulletinsOf(KnChannelOf[j])
             /\ c \in Elements(KnContents[j]) /\ c \in Decided
  <2>1. i = j
    BY <1>1, <1>2 DEF Announces
  <2>2. v.of # "profile"
    BY <1>1, <1>2, <2>1 DEF Announces
  <2>3. v.of = "bulletin" /\ v.channel = KnChannelOf[j] /\ c \in Elements(KnContents[j])
    BY <1>2, <2>1, <2>2, KnowledgeAssumption DEF Announces
  <2>4. c \in Decided
    BY <2>2 DEF Found, TablesInv
  <2> QED BY <2>1, <2>3, <2>4 DEF BulletinsOf
<1>3. CASE Elements(KnContents[j]) \cap Decided # {}
  <2>1. PICK V, query : /\ V = BulletinsOf(KnChannelOf[j]) /\ query = "decisions"
                        /\ Forgotten(V, query)
    BY <1>3 DEF SessionIndexed
  <2>2. ASSUME NEW v \in KnViews, NEW q \in Elements(Queries(v)), ~(v \in V /\ q = query)
        PROVE  KeepsShown(v, q)
    <3>1. v \notin V
      <4>1. ASSUME v \in V PROVE q = "decisions"
        BY <2>1, <4>1 DEF Queries, Elements, BulletinsOf
      <4> QED BY <2>1, <2>2, <4>1
    <3> SUFFICES ASSUME NEW c \in Found(v, q), NEW i \in KnJobs, Announces(i, v, c) PROVE Announces(i, v, c)'
      BY <1>1 DEF KeepsShown, Found
    <3> QED BY <1>2, <2>1, <3>1
  <2>3. \A v \in KnViews : \A q \in Elements(Queries(v)) : ~(v \in V /\ q = query) => KeepsShown(v, q)
    BY <2>2
  <2> QED BY <2>1, <2>3, ForgottenKeeps
<1>4. CASE Elements(KnContents[j]) \cap Decided = {}
  <2>1. ASSUME NEW v \in KnViews, NEW q PROVE KeepsShown(v, q)
    <3> SUFFICES ASSUME NEW c \in Found(v, q), NEW i \in KnJobs, Announces(i, v, c) PROVE Announces(i, v, c)'
      BY <1>1 DEF KeepsShown, Found
    <3> QED BY <1>2, <1>4
  <2>2. UNCHANGED readVars
    BY <1>4 DEF SessionIndexed
  <2> QED BY <2>1, <2>2, ViewsStay
<1> QED BY <1>3, <1>4

\* Every step keeps what is cached and what is being built.
LEMMA ViewsNext == JobsInv /\ TablesInv /\ CacheInv /\ BuildInv /\ [KnowledgeNext]_knVars => CacheInv' /\ BuildInv'
<1> SUFFICES ASSUME JobsInv, TablesInv, CacheInv, BuildInv, [KnowledgeNext]_knVars PROVE CacheInv' /\ BuildInv'
  OBVIOUS
<1>0. \A j \in KnJobs : KnKind[j] = "index" => step[j] # "search" /\ step[j] # "new"
  BY DEF JobsInv
<1>1. CASE \/ \E r \in KnReaders : \/ \E v \in KnViews : StartView(r, v)
                                   \/ ReadView(r) \/ ReadFails(r) \/ ShowView(r)
           \/ \E v \in KnViews : ViewExpires(v)
  BY <1>1, StartKeeps, ReadKeeps, ReadFailsKeeps, ShowKeeps, ExpiryKeeps
<1>2. ASSUME NEW j \in KnJobs, Distil(j) \/ Accepted(j) PROVE CacheInv' /\ BuildInv'
  <2>1. /\ UNCHANGED readVars /\ UNCHANGED tableVars /\ left' = left /\ step[j] \in {"new", "search"}
        /\ step' = [step EXCEPT ![j] = "search"] \/ step' = [step EXCEPT ![j] = "save"]
    BY <1>2 DEF Distil, Accepted, readVars, tableVars
  <2> QED BY <1>0, <2>1, StepKeeps
<1>3. ASSUME NEW j \in KnJobs, Declined(j) \/ SaveFails(j) PROVE CacheInv' /\ BuildInv'
  <2>1. UNCHANGED readVars /\ UNCHANGED tableVars /\ step[j] \in {"search", "save"}
    BY <1>3 DEF Declined, SaveFails, readVars, tableVars
  <2>2. PICK s, rest : /\ step' = [step EXCEPT ![j] = s] /\ (left' = [left EXCEPT ![j] = rest] \/ left' = left)
                       /\ KnKind[j] = "index" => s \in {"save", "indexed"}
    <3>1. CASE KnKind[j] = "tool"
      BY <1>3, <3>1 DEF Declined, SaveFails
    <3>2. CASE KnKind[j] # "tool"
      <4>1. NextContent(j)
        BY <1>3, <3>2 DEF Declined, SaveFails
      <4> QED BY <4>1, WhereNext
    <3> QED BY <3>1, <3>2
  <2> QED BY <2>1, <2>2, StepKeeps
<1>4. ASSUME NEW j \in KnJobs, CountRows(j) \/ EnforcementFails(j) PROVE CacheInv' /\ BuildInv'
  <2>1. /\ UNCHANGED readVars /\ UNCHANGED tableVars /\ left' = left
        /\ step[j] \in {"count", "archive", "recount", "rearchive"}
        /\ \E s : step' = [step EXCEPT ![j] = s]
    BY <1>4 DEF CountRows, EnforcementFails, readVars, tableVars
  <2> QED BY <2>1, StepKeeps
<1>5. ASSUME NEW j \in KnJobs,
             SaveRow(j) \/ CreateMemory(j) \/ Saved(j) \/ SessionIndexed(j) \/ ArchiveRows(j)
      PROVE  CacheInv' /\ BuildInv'
  BY <1>5, SaveKeeps, CreateKeeps, SavedKeeps, IndexedKeeps, ArchiveKeeps
<1>6. CASE UNCHANGED knVars
  <2>1. UNCHANGED readVars /\ UNCHANGED <<rows, graph, step, left>>
    BY <1>6 DEF knVars, readVars
  <2> QED BY <2>1, ViewsStay, ReadersStep
<1> QED BY <1>1, <1>2, <1>3, <1>4, <1>5, <1>6 DEF KnowledgeNext

-----------------------------------------------------------------------------
\* The other jobs stay where they are.
OthersStay(j) == \A i \in KnJobs \ {j} : step'[i] = step[i] /\ left'[i] = left[i] /\ excess'[i] = excess[i]

\* A channel gets no rows, and keeps its decisions.
Shrinks(ch) == Live(ch)' \subseteq Live(ch) /\ \A c \in Live(ch)' : rows'[c].decision = rows[c].decision

\* A job that takes a step leaves the others where they are.
LEMMA OthersStayFacts ==
  ASSUME JobsInv, NEW j \in KnJobs, NEW s, NEW rest, NEW n,
         step' = [step EXCEPT ![j] = s], left' = left \/ left' = [left EXCEPT ![j] = rest],
         excess' = excess \/ excess' = [excess EXCEPT ![j] = n]
  PROVE  OthersStay(j)
<1> SUFFICES ASSUME NEW i \in KnJobs \ {j} PROVE step'[i] = step[i] /\ left'[i] = left[i] /\ excess'[i] = excess[i]
  BY DEF OthersStay
<1>1. step'[i] = step[i]
  BY DEF JobsInv
<1>2. left'[i] = left[i]
  BY DEF JobsInv
<1>3. excess'[i] = excess[i]
  BY DEF JobsInv
<1> QED BY <1>1, <1>2, <1>3

\* The rows of a channel are finitely many, and fewer when some are archived.
LEMMA LiveFinite ==
  ASSUME TablesInv, NEW ch
  PROVE  /\ IsFiniteSet(Live(ch)) /\ Cardinality(Live(ch)) \in Nat
         /\ \A S \in SUBSET Live(ch) : IsFiniteSet(S) /\ Cardinality(S) \in Nat /\ Cardinality(S) <= Cardinality(Live(ch))
<1>1. IsFiniteSet(DOMAIN rows) /\ Live(ch) \subseteq DOMAIN rows
  BY DEF TablesInv, Live
<1>2. IsFiniteSet(Live(ch))
  BY <1>1, FS_Subset
<1>3. Cardinality(Live(ch)) \in Nat
  BY <1>2, FS_CardinalityType
<1>4. PICK L : L = Live(ch)
  OBVIOUS
<1>5. ASSUME NEW S \in SUBSET L
      PROVE  IsFiniteSet(S) /\ Cardinality(S) \in Nat /\ Cardinality(S) <= Cardinality(L)
  <2>1. IsFiniteSet(L) /\ S \subseteq L
    BY <1>2, <1>4
  <2>2. IsFiniteSet(S) /\ Cardinality(S) <= Cardinality(L)
    BY <2>1, FS_Subset
  <2>3. Cardinality(S) \in Nat
    BY <2>2, FS_CardinalityType
  <2> QED BY <2>2, <2>3
<1> QED BY <1>2, <1>3, <1>4, <1>5

\* What bounds a channel stays, unless the job that takes the step was it.
LEMMA BoundedStays ==
  ASSUME JobsInv, TablesInv, NEW j \in KnJobs, OthersStay(j), NEW ch, Shrinks(ch), Bounded(ch),
         j \in Indexing(ch) => ~Counts(j) /\ step[j] # "archive"
  PROVE  Bounded(ch)'
<1>1. /\ Cardinality(Live(ch)) \in Nat /\ Cardinality(Live(ch)') \in Nat
      /\ Cardinality(Live(ch)') <= Cardinality(Live(ch))
  <2>1. PICK S : S = Live(ch)'
    OBVIOUS
  <2>2. S \in SUBSET Live(ch)
    BY <2>1 DEF Shrinks
  <2>3. Cardinality(S) \in Nat /\ Cardinality(S) <= Cardinality(Live(ch)) /\ Cardinality(Live(ch)) \in Nat
    BY <2>2, LiveFinite
  <2> QED BY <2>1, <2>3
<1>2. PICK m, n \in Nat : m = Cardinality(Live(ch)') /\ n = Cardinality(Live(ch)) /\ m <= n
  BY <1>1
<1>3. CASE n <= ChannelLimit
  <2>1. m <= ChannelLimit
    BY <1>2, <1>3, KnowledgeAssumption
  <2> QED BY <1>2, <2>1 DEF Bounded
<1>4. CASE \A c \in Live(ch) : rows[c].decision
  <2>1. \A c \in Live(ch)' : rows'[c].decision
    BY <1>4 DEF Shrinks
  <2> QED BY <2>1 DEF Bounded
<1>5. ASSUME NEW i \in Indexing(ch), Counts(i) \/ (step[i] = "archive" /\ n <= ChannelLimit + excess[i])
      PROVE  Bounded(ch)'
  <2>1. i \in KnJobs /\ i # j
    BY <1>5 DEF Indexing
  <2>2. step'[i] = step[i] /\ left'[i] = left[i] /\ excess'[i] = excess[i] /\ excess[i] \in Nat
    BY <2>1 DEF OthersStay, JobsInv
  <2>3. CASE Counts(i)
    <3>1. Counts(i)'
      BY <2>2, <2>3 DEF Counts
    <3> QED BY <1>5, <3>1 DEF Bounded
  <2>4. CASE step[i] = "archive" /\ n <= ChannelLimit + excess[i]
    <3>1. m <= ChannelLimit + excess'[i]
      BY <1>2, <2>2, <2>4, KnowledgeAssumption
    <3> QED BY <1>2, <1>5, <2>2, <2>4, <3>1 DEF Bounded
  <2> QED BY <1>5, <2>3, <2>4
<1> QED BY <1>2, <1>3, <1>4, <1>5 DEF Bounded


\* Nothing is written.
LEMMA SameRows ==
  ASSUME UNCHANGED rows
  PROVE  \A ch : Shrinks(ch)
BY DEF Shrinks, Live

\* A session that goes on to its next content is one that counts, later.
LEMMA GoesOnCounting ==
  ASSUME JobsInv, NEW j \in KnJobs, KnKind[j] = "index", NextContent(j), step[j] = "save"
  PROVE  Counts(j)'
<1>1. PICK all \in Seq(DOMAIN KnType) : all = left[j] /\ all # <<>>
  BY DEF JobsInv
<1>2. Len(Tail(all)) = Len(all) - 1 /\ Len(all) \in Nat \ {0}
  BY <1>1, FirstAndRest
<1>3. Len(all) <= Len(KnContents[j]) /\ Len(KnContents[j]) \in Nat
  BY <1>1, KnowledgeAssumption DEF JobsInv
<1>4. Tail(all) # KnContents[j]
  BY <1>2, <1>3
<1>5. left'[j] = Tail(all)
  BY <1>1 DEF NextContent, JobsInv
<1>6. step'[j] \in {"save", "indexed"}
  BY DEF NextContent, JobsInv, FirstStep
<1> QED BY <1>4, <1>5, <1>6 DEF Counts

\* Where a job goes leaves the others where they are.
LEMMA GoesOnAlone ==
  ASSUME JobsInv, NEW j \in KnJobs, NextContent(j), UNCHANGED excess
  PROVE  OthersStay(j)
<1>1. PICK s : s = IF Len(left[j]) > 1 THEN FirstStep(j) ELSE IF KnKind[j] = "index" THEN "indexed" ELSE "count"
  OBVIOUS
<1>2. PICK rest : rest = Tail(left[j])
  OBVIOUS
<1>3. step' = [step EXCEPT ![j] = s] /\ left' = [left EXCEPT ![j] = rest]
  BY <1>1, <1>2 DEF NextContent
<1> QED BY <1>3, OthersStayFacts

\* A job that is no session, or counts only now, leaves every channel bounded.
LEMMA BystanderKeeps ==
  ASSUME JobsInv, TablesInv, BloatInv, NEW j \in KnJobs, OthersStay(j), NoNights' => NoNights,
         NoNights' => \A ch \in IndexedChannels : Shrinks(ch) \/ Bounded(ch)',
         \A ch \in IndexedChannels : j \in Indexing(ch) => (~Counts(j) /\ step[j] # "archive") \/ (NoNights' => Bounded(ch)')
  PROVE  BloatInv'
<1> SUFFICES ASSUME NoNights', NEW ch \in IndexedChannels PROVE Bounded(ch)'
  BY DEF BloatInv, IndexedChannels
<1>1. Bounded(ch)
  BY DEF BloatInv
<1>2. CASE Bounded(ch)'
  BY <1>2
<1>3. CASE ~Bounded(ch)'
  <2>1. Shrinks(ch) /\ (j \in Indexing(ch) => ~Counts(j) /\ step[j] # "archive")
    BY <1>3
  <2> QED BY <1>1, <2>1, BoundedStays
<1> QED BY <1>2, <1>3

\* Rows are saved.
LEMMA SaveBounded ==
  ASSUME JobsInv, TablesInv, BloatInv, NEW j \in KnJobs, SaveRow(j) \/ SaveFails(j)
  PROVE  BloatInv'
<1>1. step[j] = "save" /\ UNCHANGED <<excess, spared>>
  BY DEF SaveRow, SaveFails
<1>2. OthersStay(j)
  <2>1. CASE KnKind[j] = "tool"
    <3>1. UNCHANGED left /\ \E s : step' = [step EXCEPT ![j] = s]
      BY <2>1 DEF SaveRow, SaveFails
    <3> QED BY <1>1, <3>1, OthersStayFacts
  <2>2. CASE KnKind[j] # "tool"
    <3>1. NextContent(j)
      BY <2>2 DEF SaveRow, SaveFails
    <3> QED BY <1>1, <3>1, GoesOnAlone
  <2> QED BY <2>1, <2>2
<1>3. PICK c : c = Head(left[j])
  OBVIOUS
<1>4. PICK w : w = Row(j, c)
  OBVIOUS
<1>5. \/ rows' = rows
      \/ /\ c \notin DOMAIN rows /\ DOMAIN rows' = DOMAIN rows \cup {c} /\ rows'[c] = w
         /\ \A d \in DOMAIN rows : rows'[d] = rows[d]
  <2>1. rows' = rows \/ (c \notin DOMAIN rows /\ rows' = With(rows, c, w))
    BY <1>3, <1>4 DEF SaveRow, SaveFails, tableVars
  <2> QED BY <2>1 DEF With
<1>6. NoNights' => NoNights
  BY <1>1, <1>5 DEF NoNights
<1>7. ASSUME NEW ch \in IndexedChannels, j \in Indexing(ch) PROVE Bounded(ch)'
  <2>1. KnKind[j] = "index" /\ NextContent(j)
    BY <1>7 DEF Indexing, SaveRow, SaveFails
  <2>2. Counts(j)'
    BY <1>1, <2>1, GoesOnCounting
  <2> QED BY <1>7, <2>2 DEF Bounded
<1>8. ASSUME NoNights', NEW ch \in IndexedChannels, j \notin Indexing(ch) PROVE Shrinks(ch)
  <2>1. CASE rows' = rows
    BY <2>1, SameRows
  <2>2. CASE /\ c \notin DOMAIN rows /\ DOMAIN rows' = DOMAIN rows \cup {c} /\ rows'[c] = w
             /\ \A d \in DOMAIN rows : rows'[d] = rows[d]
    <3>1. w.by # "distil"
      BY <1>8, <2>2 DEF NoNights
    <3>2. KnKind[j] # "distil"
      BY <1>4, <3>1 DEF Row
    <3>3. ch # Nowhere
      BY KnowledgeAssumption DEF IndexedChannels
    <3>4. w.channel # ch
      <4>1. CASE KnKind[j] = "tool"
        BY <1>4, <3>3, <4>1 DEF Row
      <4>2. CASE KnKind[j] = "index"
        <5>1. KnChannelOf[j] # ch
          BY <1>8, <4>2 DEF Indexing
        <5> QED BY <1>4, <4>2, <5>1 DEF Row
      <4> QED BY <3>2, <4>1, <4>2, KnowledgeAssumption
    <3> QED BY <2>2, <3>4 DEF Shrinks, Live
  <2> QED BY <1>5, <2>1, <2>2
<1>9. NoNights' => \A ch \in IndexedChannels : Shrinks(ch) \/ Bounded(ch)'
  BY <1>7, <1>8
<1> QED BY <1>2, <1>6, <1>7, <1>9, BystanderKeeps

\* The rows of a channel are counted.
LEMMA CountBounded ==
  ASSUME JobsInv, TablesInv, BloatInv, NEW j \in KnJobs, CountRows(j)
  PROVE  BloatInv'
<1>1. step[j] \in {"count", "recount"} /\ UNCHANGED <<rows, left, spared>>
  BY DEF CountRows, tableVars
<1>2. OthersStay(j)
  <2>1. PICK s, n : step' = [step EXCEPT ![j] = s] /\ excess' = [excess EXCEPT ![j] = n]
    BY DEF CountRows
  <2> QED BY <1>1, <2>1, OthersStayFacts
<1>3. NoNights' => NoNights
  BY <1>1 DEF NoNights
<1>4. ASSUME NEW ch \in IndexedChannels, j \in Indexing(ch), step[j] = "count" PROVE Bounded(ch)'
  <2>1. KnKind[j] = "index" /\ KnChannelOf[j] = ch
    BY <1>4 DEF Indexing
  <2>2. Counted(j) = Live(ch) /\ Limit(j) = ChannelLimit
    BY <1>4, <2>1 DEF Counted, Live, Limit
  <2>3. PICK n \in Nat : n = Cardinality(Live(ch))
    BY LiveFinite
  <2>4. Live(ch)' = Live(ch)
    BY <1>1 DEF Live
  <2>5. CASE n <= ChannelLimit
    <3>1. Cardinality(Live(ch)') <= ChannelLimit
      BY <2>3, <2>4, <2>5
    <3> QED BY <3>1 DEF Bounded
  <2>6. CASE ~(n <= ChannelLimit)
    <3>1. n > ChannelLimit /\ n <= ChannelLimit + (n - ChannelLimit)
      BY <2>6, KnowledgeAssumption
    <3>2. step'[j] = "archive"
      BY <1>4, <2>2, <2>3, <2>6 DEF CountRows, JobsInv
    <3>3. excess'[j] = n - ChannelLimit
      BY <2>2, <2>3, <3>1 DEF CountRows, JobsInv
    <3>4. Cardinality(Live(ch)') <= ChannelLimit + excess'[j]
      BY <2>3, <2>4, <3>1, <3>3
    <3> QED BY <1>4, <3>2, <3>4 DEF Bounded
  <2> QED BY <2>5, <2>6
<1>5. \A ch \in IndexedChannels : j \in Indexing(ch) => (~Counts(j) /\ step[j] # "archive") \/ Bounded(ch)'
  BY <1>1, <1>4 DEF Counts
<1> QED BY <1>1, <1>2, <1>3, <1>5, SameRows, BystanderKeeps


\* The rows of a channel are archived, as many as were too many.
LEMMA ArchiveBounded ==
  ASSUME JobsInv, TablesInv, BloatInv, NEW j \in KnJobs, ArchiveRows(j)
  PROVE  BloatInv'
<1>1. step[j] \in {"archive", "rearchive"} /\ UNCHANGED <<left, excess, spared>>
  BY DEF ArchiveRows
<1>2. PICK S \in SUBSET Archivable(j) :
        /\ \/ Cardinality(S) = excess[j]
           \/ S = Archivable(j) /\ Cardinality(S) < excess[j]
           \/ KnKind[j] = "distil" /\ Cardinality(S) > excess[j]
        /\ rows' = [c \in DOMAIN rows |-> [rows[c] EXCEPT !.live = @ /\ c \notin S]]
  BY DEF ArchiveRows
<1>3. OthersStay(j)
  <2>1. PICK s : step' = [step EXCEPT ![j] = s]
    BY DEF ArchiveRows
  <2> QED BY <1>1, <2>1, OthersStayFacts
<1>4. /\ DOMAIN rows' = DOMAIN rows
      /\ \A c \in DOMAIN rows : /\ rows'[c].channel = rows[c].channel /\ rows'[c].decision = rows[c].decision
                                /\ rows'[c].by = rows[c].by
                                /\ rows'[c].live <=> rows[c].live /\ c \notin S
  <2>1. DOMAIN rows' = DOMAIN rows
    BY <1>2
  <2>2. ASSUME NEW c \in DOMAIN rows
        PROVE  /\ rows'[c].channel = rows[c].channel /\ rows'[c].decision = rows[c].decision
               /\ rows'[c].by = rows[c].by
               /\ rows'[c].live <=> rows[c].live /\ c \notin S
    <3>1. PICK w : w = rows[c] /\ IsRow(w)
      BY DEF TablesInv
    <3>2. PICK x \in BOOLEAN : x = (w.live /\ c \notin S)
      BY DEF IsRow
    <3>3. rows'[c] = [w EXCEPT !.live = x]
      BY <1>2, <3>1, <3>2
    <3>4. w = [channel |-> w.channel, user |-> w.user, pool |-> w.pool, by |-> w.by, live |-> w.live,
               decision |-> w.decision, lasting |-> w.lasting]
      BY <3>1 DEF IsRow
    <3>5. rows'[c].channel = w.channel /\ rows'[c].decision = w.decision /\ rows'[c].by = w.by /\ rows'[c].live = x
      BY <3>3, <3>4
    <3> QED BY <3>1, <3>2, <3>5
  <2> QED BY <2>1, <2>2
<1>5. NoNights' => NoNights
  BY <1>1, <1>4 DEF NoNights
<1>6. \A ch : Shrinks(ch) /\ Live(ch)' = Live(ch) \ S
  BY <1>4 DEF Shrinks, Live
<1>7. ASSUME NoNights', NEW ch \in IndexedChannels, j \in Indexing(ch), step[j] = "archive" PROVE Bounded(ch)'
  <2>1. KnKind[j] = "index" /\ KnChannelOf[j] = ch
    BY <1>7 DEF Indexing
  <2>2. Counted(j) = Live(ch) /\ Archivable(j) = {c \in Live(ch) : ~rows[c].decision}
    BY <1>7, <2>1 DEF Counted, Live, Archivable
  <2>3. Bounded(ch)
    BY <1>5, <1>7 DEF BloatInv
  <2>4. PICK n, m, k, e \in Nat : /\ n = Cardinality(Live(ch)) /\ m = Cardinality(Live(ch)')
                                  /\ k = Cardinality(S) /\ e = excess[j] /\ m = n - k /\ k <= n
    <3>1. PICK L : L = Live(ch) /\ IsFiniteSet(L) /\ Cardinality(L) \in Nat
      BY LiveFinite
    <3>2. S \subseteq L
      BY <2>2, <3>1
    <3>3. IsFiniteSet(S) /\ Cardinality(S) \in Nat /\ Cardinality(S) <= Cardinality(L)
      BY <3>1, <3>2, FS_Subset, FS_CardinalityType
    <3>4. Cardinality(L \ S) = Cardinality(L) - Cardinality(L \cap S)
      BY <3>1, <3>3, FS_Difference
    <3>5. L \cap S = S /\ Live(ch)' = L \ S
      BY <1>6, <3>1, <3>2
    <3>6. Cardinality(Live(ch)') = Cardinality(L) - Cardinality(S)
      BY <3>4, <3>5
    <3>7. Cardinality(L) - Cardinality(S) \in Nat /\ excess[j] \in Nat
      BY <3>1, <3>3 DEF JobsInv
    <3> QED BY <3>1, <3>3, <3>6, <3>7
  <2>5. CASE k # e
    <3>1. S = {c \in Live(ch) : ~rows[c].decision}
      BY <1>2, <2>1, <2>2, <2>4, <2>5
    <3>2. \A c \in Live(ch)' : rows'[c].decision
      BY <1>4, <1>6, <3>1 DEF Live
    <3> QED BY <3>2 DEF Bounded
  <2>6. CASE k = e
    <3>1. CASE n <= ChannelLimit + e
      <4>1. m <= ChannelLimit
        BY <2>4, <2>6, <3>1, KnowledgeAssumption
      <4> QED BY <2>4, <4>1 DEF Bounded
    <3>2. CASE \A c \in Live(ch) : rows[c].decision
      <4>1. \A c \in Live(ch)' : rows'[c].decision
        BY <1>6, <3>2 DEF Shrinks
      <4> QED BY <4>1 DEF Bounded
    <3>3. CASE ~(n <= ChannelLimit + e) /\ ~(\A c \in Live(ch) : rows[c].decision)
      <4>1. ~(n <= ChannelLimit)
        BY <3>3, <2>4, KnowledgeAssumption
      <4>2. PICK i \in Indexing(ch) : Counts(i) \/ (step[i] = "archive" /\ n <= ChannelLimit + excess[i])
        BY <2>3, <2>4, <3>3, <4>1 DEF Bounded
      <4>3. i # j /\ i \in KnJobs
        BY <1>1, <2>4, <3>3, <4>2 DEF Counts, Indexing
      <4>4. step'[i] = step[i] /\ left'[i] = left[i] /\ excess'[i] = excess[i] /\ excess[i] \in Nat
        BY <1>3, <4>3 DEF OthersStay, JobsInv
      <4>5. CASE Counts(i)
        <5>1. Counts(i)'
          BY <4>4, <4>5 DEF Counts
        <5> QED BY <4>2, <5>1 DEF Bounded
      <4>6. CASE step[i] = "archive" /\ n <= ChannelLimit + excess[i]
        <5>1. m <= ChannelLimit + excess'[i]
          BY <2>4, <4>4, <4>6, KnowledgeAssumption
        <5> QED BY <2>4, <4>2, <4>4, <4>6, <5>1 DEF Bounded
      <4> QED BY <4>2, <4>5, <4>6
    <3> QED BY <3>1, <3>2, <3>3
  <2> QED BY <2>5, <2>6
<1>8. \A ch \in IndexedChannels : j \in Indexing(ch) => (~Counts(j) /\ step[j] # "archive") \/ (NoNights' => Bounded(ch)')
  BY <1>1, <1>7 DEF Counts
<1> QED BY <1>3, <1>5, <1>6, <1>8, BystanderKeeps

\* Every step keeps the channels bounded.
LEMMA BloatNext == JobsInv /\ TablesInv /\ BloatInv /\ [KnowledgeNext]_knVars => BloatInv'
<1> SUFFICES ASSUME JobsInv, TablesInv, BloatInv, [KnowledgeNext]_knVars PROVE BloatInv'
  OBVIOUS
<1>1. ASSUME NEW j \in KnJobs, Distil(j) \/ Accepted(j) \/ CreateMemory(j) \/ Saved(j) PROVE BloatInv'
  <2>1. /\ step[j] \in {"new", "search", "graph", "created"} /\ UNCHANGED <<rows, left, excess, spared>>
        /\ \E s : step' = [step EXCEPT ![j] = s]
    BY <1>1 DEF Distil, Accepted, CreateMemory, Saved, tableVars
  <2>2. OthersStay(j)
    BY <2>1, OthersStayFacts
  <2>3. ~Counts(j) /\ step[j] # "archive"
    BY <2>1 DEF Counts
  <2>4. NoNights' => NoNights
    BY <2>1 DEF NoNights
  <2> QED BY <2>1, <2>2, <2>3, <2>4, SameRows, BystanderKeeps
<1>2. ASSUME NEW j \in KnJobs, Declined(j) PROVE BloatInv'
  <2>1. step[j] = "search" /\ UNCHANGED <<rows, excess, spared>>
    BY <1>2 DEF Declined, tableVars
  <2>2. OthersStay(j)
    <3>1. CASE KnKind[j] = "tool"
      <4>1. UNCHANGED left /\ step' = [step EXCEPT ![j] = "done"]
        BY <1>2, <3>1 DEF Declined
      <4> QED BY <2>1, <4>1, OthersStayFacts
    <3>2. CASE KnKind[j] # "tool"
      <4>1. NextContent(j)
        BY <1>2, <3>2 DEF Declined
      <4> QED BY <2>1, <4>1, GoesOnAlone
    <3> QED BY <3>1, <3>2
  <2>3. ~Counts(j) /\ step[j] # "archive"
    BY <2>1 DEF Counts
  <2>4. NoNights' => NoNights
    BY <2>1 DEF NoNights
  <2> QED BY <2>1, <2>2, <2>3, <2>4, SameRows, BystanderKeeps
<1>3. ASSUME NEW j \in KnJobs, SessionIndexed(j) PROVE BloatInv'
  <2>1. UNCHANGED <<rows, left, excess, spared>> /\ step' = [step EXCEPT ![j] = "count"]
    BY <1>3 DEF SessionIndexed, tableVars
  <2>2. OthersStay(j)
    BY <2>1, OthersStayFacts
  <2>3. Counts(j)'
    <3>1. step'[j] = "count"
      BY <2>1 DEF JobsInv
    <3> QED BY <3>1 DEF Counts
  <2>4. \A ch \in IndexedChannels : j \in Indexing(ch) => Bounded(ch)'
    BY <2>3 DEF Bounded
  <2>5. NoNights' => NoNights
    BY <2>1 DEF NoNights
  <2> QED BY <2>1, <2>2, <2>4, <2>5, SameRows, BystanderKeeps
<1>4. ASSUME NEW j \in KnJobs, EnforcementFails(j) PROVE BloatInv'
  BY <1>4 DEF EnforcementFails, BloatInv, NoNights
<1>5. CASE \/ \E r \in KnReaders : \/ \E v \in KnViews : StartView(r, v)
                                   \/ ReadView(r) \/ ReadFails(r) \/ ShowView(r)
           \/ \E v \in KnViews : ViewExpires(v)
           \/ UNCHANGED knVars
  <2>1. UNCHANGED <<rows, step, left, excess, spared>>
    BY <1>5 DEF StartView, ReadView, ReadFails, ShowView, ViewExpires, knVars, tableVars, jobVars
  <2>2. ASSUME NEW ch PROVE Bounded(ch)' = Bounded(ch)
    BY <2>1 DEF Bounded, Counts, Live
  <2> QED BY <2>1, <2>2 DEF BloatInv, NoNights, IndexedChannels
<1> QED BY <1>1, <1>2, <1>3, <1>4, <1>5, SaveBounded, CountBounded, ArchiveBounded DEF KnowledgeNext

-----------------------------------------------------------------------------
\* Nothing is remembered at the start, and nothing cached.
LEMMA KnowledgeStart == KnowledgeInit => KnowInv
<1> SUFFICES ASSUME KnowledgeInit PROVE KnowInv
  OBVIOUS
<1>1. /\ DOMAIN rows = {} /\ DOMAIN cache = {} /\ left = KnContents /\ excess = [j \in KnJobs |-> 0]
      /\ building = [r \in KnReaders |-> NoBuild]
      /\ \E J \in SUBSET KnJobs :
           step = [j \in KnJobs |-> IF j \notin J THEN "done"
                                   ELSE IF KnKind[j] = "distil" THEN "new" ELSE FirstStep(j)]
  BY DEF KnowledgeInit
<1>2. JobsInv
  <2>1. step \in [KnJobs -> KnSteps] /\ \A j \in KnJobs : step[j] \in {"done", "new", "search", "save"}
    BY <1>1 DEF FirstStep, KnSteps
  <2>2. \A j \in KnJobs : KnKind[j] = "index" => step[j] \in {"done", "save"}
    BY <1>1 DEF FirstStep
  <2>3. \A j \in KnJobs : left[j] # <<>> /\ left[j] = KnContents[j] /\ Len(left[j]) <= Len(KnContents[j])
    BY <1>1, KnowledgeAssumption
  <2>4. left \in [KnJobs -> Seq(DOMAIN KnType)] /\ excess \in [KnJobs -> Nat]
    BY <1>1, KnowledgeAssumption
  <2> QED BY <2>1, <2>2, <2>3, <2>4 DEF JobsInv
<1>3. TablesInv
  BY <1>1, FS_EmptySet DEF TablesInv
<1>4. CacheInv
  BY <1>1 DEF CacheInv
<1>5. BuildInv
  BY <1>1, NoBuildOK DEF BuildInv
<1>6. BloatInv
  <2>1. ASSUME NEW ch PROVE Live(ch) = {}
    BY <1>1 DEF Live
  <2> QED BY <2>1 DEF BloatInv, Bounded
<1> QED BY <1>2, <1>3, <1>4, <1>5, <1>6 DEF KnowInv

\* What is announced is not forgotten yet, and a channel whose sessions are all
\* indexed is bounded.
LEMMA KnowledgeMeaning == KnowInv => KnowledgeKept
<1> SUFFICES ASSUME KnowInv PROVE KnowledgeKept
  OBVIOUS
<1>1. JobsInv /\ CacheInv /\ BloatInv
  BY DEF KnowInv
<1>2. ASSUME NEW v, NEW c, NEW j \in KnJobs, Announces(j, v, c) PROVE Unannounced(v, c)
  <2>1. CASE v.of = "profile"
    <3>1. step[j] = "created" /\ c = Head(left[j])
      BY <1>2, <2>1 DEF Announces
    <3>2. PICK all \in Seq(DOMAIN KnType) : all = left[j] /\ all # <<>>
      BY <1>1, <3>1 DEF JobsInv
    <3>3. Head(all) \in Elements(all)
      BY <3>2, FirstAndRest
    <3>4. c \in Elements(KnContents[j])
      BY <1>1, <3>1, <3>2, <3>3 DEF JobsInv
    <3> QED BY <2>1, <3>1, <3>4 DEF Unannounced
  <2>2. CASE v.of # "profile"
    BY <1>2, <2>2 DEF Announces, Unannounced
  <2> QED BY <2>1, <2>2
<1>3. MemoriesShown
  <2> SUFFICES ASSUME NEW v \in DOMAIN cache, ~cache[v].flawed, NEW q \in Elements(Queries(v)), NEW c \in Found(v, q)
               PROVE  c \in cache[v].seen \/ Unannounced(v, c)
    BY DEF MemoriesShown
  <2>1. Shows(v, Elements(Queries(v)), cache[v].seen)
    BY <1>1 DEF CacheInv
  <2>2. c \in cache[v].seen \/ \E j \in KnJobs : Announces(j, v, c)
    BY <2>1 DEF Shows
  <2> QED BY <1>2, <2>2
<1>4. BloatBounded
  <2> SUFFICES ASSUME NEW ch \in IndexedChannels, NoNights,
                      \A j \in Indexing(ch) : step[j] \in {"recount", "rearchive", "done"} \/ left[j] = KnContents[j]
               PROVE  Cardinality(Live(ch)) <= ChannelLimit \/ \A c \in Live(ch) : rows[c].decision
    BY DEF BloatBounded, IndexedChannels, NoNights
  <2>1. Bounded(ch)
    BY <1>1 DEF BloatInv
  <2>2. ASSUME NEW j \in Indexing(ch) PROVE ~Counts(j) /\ step[j] # "archive"
    <3>1. j \in KnJobs /\ KnKind[j] = "index"
      BY <2>2 DEF Indexing
    <3>2. step[j] \in {"indexed", "count", "archive"} => left[j] # KnContents[j]
      <4>1. PICK n \in Nat : n = Len(KnContents[j])
        <5>1. KnContents[j] \in Seq(DOMAIN KnType)
          BY <3>1, KnowledgeAssumption
        <5> QED BY <5>1
      <4>2. step[j] \in {"indexed", "count", "archive"} => Len(left[j]) < n
        BY <1>1, <3>1, <4>1 DEF JobsInv
      <4> QED BY <4>1, <4>2
    <3> QED BY <2>2, <3>2 DEF Counts
  <2> QED BY <2>1, <2>2 DEF Bounded
<1> QED BY <1>3, <1>4 DEF KnowledgeKept

\* Whatever interleaving of the writers, the readers and the enforcements, what is
\* cached for the prompts shows what is remembered, and the channels stay bounded.
THEOREM WhatIsKnownIsKept == KnowledgeSpec => []KnowledgeKept
<1>1. KnowledgeInit => KnowInv
  BY KnowledgeStart
<1>2. KnowInv /\ [KnowledgeNext]_knVars => KnowInv'
  BY KnJobsNext, TablesNext, ViewsNext, BloatNext DEF KnowInv
<1>3. KnowInv => KnowledgeKept
  BY KnowledgeMeaning
<1> QED BY <1>1, <1>2, <1>3, PTL DEF KnowledgeSpec

-----------------------------------------------------------------------------
(* Types of the components: those of the models, the compaction, the        *)
(* shutdown, the skills and the onboarding.                                 *)

\* The model client: its times are no later than now, and what it counts is capped.
LEMMA LlmTypesStart == LlmInit => LlmTypeOK
<1> SUFFICES ASSUME LlmInit PROVE LlmTypeOK
  OBVIOUS
<1>1. /\ 0 \in 0 .. LmHorizon /\ 0 \in 0 .. TriggerAfter /\ 0 \in 0 .. 0
      /\ 0 \in 0 .. MaxIterations - 1 /\ 0 \in 0 .. MaxRetries
  BY LlmClientAssumption
<1> QED BY <1>1 DEF LlmInit, LlmTypeOK

\* An answer moves the run on, or ends it;
LEMMA RespondedTypes ==
  ASSUME LlmTypeOK, NEW r \in LmRuns, Responded(r)
  PROVE  /\ at' \in [LmRuns -> {"idle", "calling", "primary", "streaming", "fallback", "ended", "failed"}]
         /\ iteration' \in [LmRuns -> 0 .. MaxIterations - 1] /\ retry' \in [LmRuns -> 0 .. MaxRetries]
<1>1. CASE Goto(r, "ended") /\ UNCHANGED <<iteration, retry>>
  BY <1>1 DEF Goto, LlmTypeOK
<1>2. CASE /\ iteration[r] + 1 < MaxIterations /\ Goto(r, "calling")
           /\ iteration' = [iteration EXCEPT ![r] = @ + 1] /\ retry' = [retry EXCEPT ![r] = 0]
  <2>1. iteration[r] + 1 \in 0 .. MaxIterations - 1 /\ 0 \in 0 .. MaxRetries
    BY <1>2, LlmClientAssumption DEF LlmTypeOK
  <2> QED BY <1>2, <2>1 DEF Goto, LlmTypeOK
<1> QED BY <1>1, <1>2 DEF Responded

\* and an error that is not retried ends it.
LEMMA ThrewTypes ==
  ASSUME LlmTypeOK, NEW r \in LmRuns, NEW overload \in BOOLEAN, Threw(r, overload)
  PROVE  /\ at' \in [LmRuns -> {"idle", "calling", "primary", "streaming", "fallback", "ended", "failed"}]
         /\ iteration' \in [LmRuns -> 0 .. MaxIterations - 1] /\ retry' \in [LmRuns -> 0 .. MaxRetries]
<1>1. retry[r] < MaxRetries => retry[r] + 1 \in 0 .. MaxRetries
  BY LlmClientAssumption DEF LlmTypeOK
<1> QED BY <1>1 DEF Threw, Goto, LlmTypeOK

\* Every step of a run keeps them.
LEMMA LlmTypesSteps == LlmTypeOK /\ [LlmNext]_lmVars => LlmTypeOK'
<1> SUFFICES ASSUME LlmTypeOK, [LlmNext]_lmVars PROVE LlmTypeOK'
  OBVIOUS
<1>1. ASSUME NEW r \in LmRuns, CreateMessage(r) PROVE LlmTypeOK'
  <2>1. \E pc \in {"primary", "failed", "fallback"} : Goto(r, pc)
    BY <1>1 DEF CreateMessage, AsksFallback
  <2>2. at' \in [LmRuns -> {"idle", "calling", "primary", "streaming", "fallback", "ended", "failed"}]
    BY <2>1 DEF Goto, LlmTypeOK
  <2>3. /\ fallbackActive' \in {FALSE, fallbackActive} /\ fallbackStarted' = fallbackStarted
        /\ primaryFailures' \in {0, primaryFailures} /\ lmStreak' \in {0, lmStreak}
    BY <1>1 DEF CreateMessage, primaryVars
  <2>4. 0 \in 0 .. TriggerAfter
    BY LlmClientAssumption
  <2> QED BY <1>1, <2>2, <2>3, <2>4 DEF CreateMessage, LlmTypeOK, fallbackVars
<1>2. ASSUME NEW r \in LmRuns, StreamMessage(r) PROVE LlmTypeOK'
  BY <1>2 DEF StreamMessage, Goto, LlmTypeOK, primaryVars, fallbackVars
<1>3. ASSUME NEW r \in LmRuns, PrimaryAnswers(r) PROVE LlmTypeOK'
  BY <1>3, RespondedTypes, LlmClientAssumption DEF PrimaryAnswers, LlmTypeOK, fallbackVars
<1>4. ASSUME NEW r \in LmRuns, PrimaryErrs(r) PROVE LlmTypeOK'
  <2>1. /\ primaryFailures' \in 0 .. TriggerAfter /\ lmStreak' \in 0 .. TriggerAfter
        /\ lmNow' = lmNow /\ lmNow \in 0 .. LmHorizon /\ fallbackFailures' \in 0 .. TriggerAfter
        /\ lastFallback' \in 0 .. lmNow'
    BY <1>4, LlmClientAssumption DEF PrimaryErrs, Min2, LlmTypeOK, fallbackVars
  <2>2. CASE primaryFailures + 1 >= TriggerAfter
    <3>1. /\ fallbackActive' = TRUE /\ fallbackStarted' = lmNow /\ UNCHANGED <<iteration, retry>>
          /\ AsksFallback(r)
      BY <1>4, <2>2 DEF PrimaryErrs
    <3> QED BY <2>1, <3>1 DEF AsksFallback, Goto, LlmTypeOK
  <2>3. CASE ~ (primaryFailures + 1 >= TriggerAfter)
    <3>1. PICK overload \in BOOLEAN : Threw(r, overload)
      BY <1>4, <2>3 DEF PrimaryErrs
    <3>2. UNCHANGED <<fallbackActive, fallbackStarted>>
      BY <1>4, <2>3 DEF PrimaryErrs
    <3> QED BY <2>1, <3>1, <3>2, ThrewTypes DEF LlmTypeOK
  <2> QED BY <2>2, <2>3
<1>5. ASSUME NEW r \in LmRuns, PrimaryRefuses(r) PROVE LlmTypeOK'
  BY <1>5, ThrewTypes DEF PrimaryRefuses, LlmTypeOK, primaryVars, fallbackVars
<1>6. ASSUME NEW r \in LmRuns, StreamEnds(r) \/ FallbackAnswers(r) PROVE LlmTypeOK'
  BY <1>6, RespondedTypes, ThrewTypes DEF StreamEnds, FallbackAnswers, LlmTypeOK, primaryVars, fallbackVars
<1>7. ASSUME NEW r \in LmRuns, FallbackErrs(r) PROVE LlmTypeOK'
  <2>1. fallbackFailures' \in 0 .. TriggerAfter /\ lastFallback' \in 0 .. lmNow /\ UNCHANGED <<lmNow, primaryVars>>
    BY <1>7, LlmClientAssumption DEF FallbackErrs, Min2, LlmTypeOK
  <2> QED BY <1>7, <2>1, ThrewTypes DEF FallbackErrs, LlmTypeOK, primaryVars
<1>8. CASE LlmTick
  BY <1>8, LlmClientAssumption DEF LlmTick, LlmTypeOK, primaryVars, fallbackVars, runVars
<1>9. CASE UNCHANGED lmVars
  BY <1>9 DEF lmVars, LlmTypeOK, primaryVars, fallbackVars, runVars
<1> QED BY <1>1, <1>2, <1>3, <1>4, <1>5, <1>6, <1>7, <1>8, <1>9 DEF LlmNext, Step

-----------------------------------------------------------------------------
\* The compaction: the bound of the queue.
LEMMA CompactionTypesStart == CompactionInit => CompactionTypeOK
BY CompactionAssumption DEF CompactionInit, CompactionTypeOK, CmJobs

\* What is queued is of the accepted jobs, and the queue has room for it.
LEMMA CompactionTypesSteps == CompactionTypeOK /\ [CompactionNext]_cmVars => CompactionTypeOK'
<1> SUFFICES ASSUME CompactionTypeOK, [CompactionNext]_cmVars PROVE CompactionTypeOK'
  OBVIOUS
<1> USE CompactionAssumption
<1>0. cmQueue \in Seq(CmJobs) /\ Len(cmQueue) \in Nat
  BY DEF CompactionTypeOK
<1>1. ASSUME NEW s \in CmSessions, EnqueueCompaction(s) PROVE CompactionTypeOK'
  <2>1. accepted + 1 \in CmJobs /\ accepted + 1 \in 0 .. CmMaxJobs
    BY <1>1 DEF EnqueueCompaction, CompactionTypeOK, CmJobs
  <2>2. cmQueue' \in Seq(CmJobs) /\ Len(cmQueue') <= MaxQueue
    BY <1>0, <1>1, <2>1 DEF EnqueueCompaction
  <2> QED BY <1>1, <2>1, <2>2 DEF EnqueueCompaction, CompactionTypeOK
<1>2. CASE ProcessNext
  <2>1. CASE cmRunning >= MaxConcurrent \/ cmQueue = << >>
    BY <1>2, <2>1 DEF ProcessNext, CompactionTypeOK
  <2>2. CASE ~ (cmRunning >= MaxConcurrent \/ cmQueue = << >>)
    <3>1. cmQueue' = Tail(cmQueue) /\ cmQueue # << >>
      BY <1>2, <2>2 DEF ProcessNext
    <3>2. cmQueue' \in Seq(CmJobs) /\ Len(cmQueue') <= MaxQueue
      BY <1>0, <3>1 DEF CompactionTypeOK
    <3> QED BY <1>2, <2>2, <3>2 DEF ProcessNext, CompactionTypeOK
  <2> QED BY <2>1, <2>2
<1>3. ASSUME NEW j \in CmJobs, NotNeeded(j) \/ Compact(j) \/ Compacted(j) PROVE CompactionTypeOK'
  BY <1>3 DEF NotNeeded, Compact, Compacted, Finally, CompactionTypeOK
<1>4. CASE UNCHANGED cmVars
  BY <1>4 DEF cmVars, CompactionTypeOK
<1> QED BY <1>1, <1>2, <1>3, <1>4 DEF CompactionNext

-----------------------------------------------------------------------------
\* The shutdown.
LEMMA ShutdownTypesStart == ShutdownInit => ShutdownTypeOK
<1>1. 0 \in 0 .. ShHorizon /\ -1 \in -1 .. ShHorizon
  BY ShutdownAssumption
<1> QED BY <1>1 DEF ShutdownInit, ShutdownTypeOK

\* Every step of a request and of the handlers of the signals keeps its types.
LEMMA ShutdownTypesSteps == ShutdownTypeOK /\ [ShutdownNext]_shVars => ShutdownTypeOK'
<1> SUFFICES ASSUME ShutdownTypeOK, [ShutdownNext]_shVars PROVE ShutdownTypeOK'
  OBVIOUS
<1> USE ShutdownAssumption
<1>1. ASSUME NEW r \in ShRequests, Comes(r) \/ ShProceeds(r) PROVE ShutdownTypeOK'
  BY <1>1 DEF Comes, ShProceeds, ShutdownTypeOK
<1>2. ASSUME NEW s \in Signals, GracefulShutdown(s) PROVE ShutdownTypeOK'
  BY <1>2 DEF GracefulShutdown, HandlerGoes, Serving, ShutdownTypeOK
<1>3. ASSUME NEW s \in Signals, Poll(s) PROVE ShutdownTypeOK'
  BY <1>3 DEF Poll, HandlerGoes, ShutdownTypeOK
<1>4. ASSUME NEW s \in Signals, Flush(s) PROVE ShutdownTypeOK'
  BY <1>4 DEF Flush, HandlerGoes, ShutdownTypeOK
<1>5. ASSUME NEW s \in Signals, Exit(s) PROVE ShutdownTypeOK'
  BY <1>5 DEF Exit, ShutdownTypeOK
<1>6. CASE ShutdownTick
  BY <1>6 DEF ShutdownTick, ShutdownTypeOK
<1>7. CASE UNCHANGED shVars
  BY <1>7 DEF shVars, ShutdownTypeOK
<1> QED BY <1>1, <1>2, <1>3, <1>4, <1>5, <1>6, <1>7 DEF ShutdownNext


-----------------------------------------------------------------------------
\* Skills: the types, the versions on disk among them.
SkillsTypes ==
  /\ SkillsTypeOK /\ versions \in Nat
  /\ \A i \in DOMAIN disk : disk[i] \in 0 .. versions

\* Nothing is on disk at the start, and what is installed is preinstalled.
LEMMA SkillsTypesStart == SkillsInit => SkillsTypes
<1> SUFFICES ASSUME SkillsInit PROVE SkillsTypes
  OBVIOUS
<1>1. /\ DOMAIN installed = PreInstall /\ \A i \in PreInstall : installed[i] = 0
      /\ DOMAIN disk = {} /\ DOMAIN created = {} /\ versions = 0 /\ 0 \in 0 .. 0
  BY DEF SkillsInit
<1> QED BY <1>1, SkillsAssumption DEF SkillsInit, SkillsTypes, SkillsTypeOK

\* Every step keeps them.
LEMMA SkillsTypesSteps == SkillsTypes /\ [SkillsNext]_skVars => SkillsTypes'
<1> SUFFICES ASSUME SkillsTypes, [SkillsNext]_skVars PROVE SkillsTypes'
  OBVIOUS
<1> USE SkillsAssumption
<1>0. /\ SkillsTypeOK /\ versions \in Nat /\ \A i \in DOMAIN disk : disk[i] \in 0 .. versions
  BY DEF SkillsTypes
<1>v. 0 \in 0 .. versions
  BY <1>0
<1>1. ASSUME NEW id \in SkIds, Install(id) PROVE SkillsTypes'
  <2>1. CASE installed' = Put(installed, id, 0) /\ UNCHANGED downloads
    <3>1. DOMAIN installed' \subseteq SkIds /\ \A i \in DOMAIN installed' : installed'[i] \in 0 .. versions
      BY <1>0, <1>v, <2>1 DEF Put, Dropped, SkillsTypeOK
    <3> QED BY <1>0, <1>1, <2>1, <3>1 DEF Install, SkillsTypes, SkillsTypeOK, diskVars
  <2>2. CASE downloads' = downloads \cup {id} /\ UNCHANGED installed
    BY <1>0, <1>1, <2>2 DEF Install, SkillsTypes, SkillsTypeOK, diskVars
  <2> QED BY <1>1, <2>1, <2>2 DEF Install
<1>2. ASSUME NEW id \in SkIds, Downloaded(id) PROVE SkillsTypes'
  <2>1. DOMAIN installed' \subseteq SkIds /\ \A i \in DOMAIN installed' : installed'[i] \in 0 .. versions
    BY <1>0, <1>2, <1>v DEF Put, Dropped, Downloaded, SkillsTypeOK
  <2> QED BY <1>0, <1>2, <2>1 DEF Downloaded, SkillsTypes, SkillsTypeOK, diskVars
<1>3. ASSUME NEW id \in SkIds, DownloadFails(id) \/ CacheExpires(id) PROVE SkillsTypes'
  BY <1>0, <1>3 DEF DownloadFails, CacheExpires, SkillsTypes, SkillsTypeOK, diskVars
<1>4. ASSUME NEW id \in SkIds, Delete(id) PROVE SkillsTypes'
  <2>1. DOMAIN installed' \subseteq SkIds /\ \A i \in DOMAIN installed' : installed'[i] \in 0 .. versions
    BY <1>0, <1>4 DEF Put, Dropped, Delete, SkillsTypeOK
  <2>2. DOMAIN disk' \subseteq SkIds /\ \A i \in DOMAIN disk' : disk'[i] \in 0 .. versions
    BY <1>0, <1>4 DEF Put, Dropped, Delete, SkillsTypeOK
  <2>3. DOMAIN created' \subseteq SkIds
    BY <1>0, <1>4 DEF Put, Dropped, Delete, SkillsTypeOK
  <2>4. activeSkills' \in [SkAgents -> SUBSET SkIds]
    BY <1>0, <1>4 DEF Delete, SkillsTypeOK
  <2> QED BY <1>0, <1>4, <2>1, <2>2, <2>3, <2>4 DEF Delete, SkillsTypes, SkillsTypeOK
<1>5. ASSUME NEW id \in SkIds, NEW a \in SkAgents, Create(id, a) PROVE SkillsTypes'
  <2>1. /\ versions' = versions + 1 /\ versions' \in Nat /\ versions + 1 \in 0 .. versions'
        /\ \A n \in 0 .. versions : n \in 0 .. versions'
    BY <1>0, <1>5 DEF Create
  <2>2. DOMAIN installed' \subseteq SkIds /\ \A i \in DOMAIN installed' : installed'[i] \in 0 .. versions'
    BY <1>0, <1>5, <2>1 DEF Put, Dropped, Create, SkillsTypeOK
  <2>3. DOMAIN disk' \subseteq SkIds /\ \A i \in DOMAIN disk' : disk'[i] \in 0 .. versions'
    BY <1>0, <1>5, <2>1 DEF Put, Dropped, Create, SkillsTypeOK
  <2>4. DOMAIN created' \subseteq SkIds
    BY <1>0, <1>5 DEF Put, Dropped, Create, SkillsTypeOK
  <2>5. activeSkills' \in [SkAgents -> SUBSET SkIds]
    BY <1>0, <1>5 DEF Create, SkillsTypeOK
  <2> QED BY <1>0, <1>5, <2>1, <2>2, <2>3, <2>4, <2>5 DEF Create, SkillsTypes, SkillsTypeOK
<1>6. ASSUME NEW id \in SkIds, NEW a \in SkAgents, Activate(id, a) PROVE SkillsTypes'
  <2>1. activeSkills' \in [SkAgents -> SUBSET SkIds]
    BY <1>0, <1>6 DEF Activate, SkillsTypeOK
  <2> QED BY <1>0, <1>6, <2>1 DEF Activate, SkillsTypes, SkillsTypeOK, diskVars
<1>7. CASE RestartSkills
  <2>1. PICK ok \in SUBSET PreInstall : skCache' = skCache \cup ok /\ installed' = Started(ok, disk)
    BY <1>7 DEF RestartSkills
  <2>2. DOMAIN installed' = ok \cup DOMAIN disk
    BY <2>1 DEF Started
  <2>3. \A i \in DOMAIN installed' : installed'[i] \in 0 .. versions
    BY <1>0, <1>v, <2>1 DEF Started
  <2>4. DOMAIN created' \subseteq SkIds
    BY <1>0, <1>7 DEF Put, Dropped, RestartSkills, SkillsTypeOK
  <2> QED BY <1>0, <1>7, <2>1, <2>2, <2>3, <2>4 DEF RestartSkills, SkillsTypes, SkillsTypeOK
<1>8. CASE UNCHANGED skVars
  BY <1>0, <1>8 DEF skVars, SkillsTypes, SkillsTypeOK
<1> QED BY <1>1, <1>2, <1>3, <1>4, <1>5, <1>6, <1>7, <1>8 DEF SkillsNext

-----------------------------------------------------------------------------
\* Onboarding: who is known to be one of the users.
UsersKnown ==
  /\ onboarded \subseteq ObUsers /\ roles \subseteq ObUsers /\ saves \subseteq ObUsers
  /\ cutOff \subseteq ObMessages

\* With the invariant of the questions, these are all types.
OnboardingInv == HandInv /\ UsersKnown

\* Nobody is known at the start.
LEMMA OnboardingStart == OnboardingInit => OnboardingInv
BY HandStart DEF OnboardingInit, OnboardingInv, UsersKnown

\* A message makes its sender known and nobody else.
LEMMA OnboardingSteps == OnboardingInv /\ [OnboardingNext]_obVars => OnboardingInv'
<1> SUFFICES ASSUME OnboardingInv, [OnboardingNext]_obVars PROVE OnboardingInv'
  OBVIOUS
<1>0. HandInv' /\ UsersKnown
  BY HandSteps DEF OnboardingInv
<1>1. UsersKnown'
  <2> USE DEF UsersKnown
  <2>1. ASSUME NEW m \in ObMessages, Arrive(m) PROVE UsersKnown'
    <3>1. SenderOf[m] \in ObUsers
      BY DEF ObUsers
    <3> QED BY <1>0, <2>1, <3>1 DEF Arrive, ProcessInput
  <2>2. ASSUME NEW m \in ObMessages, Answered(m) \/ DialogueAsked(m) \/ ObFails(m) PROVE UsersKnown'
    BY <1>0, <2>2 DEF Answered, DialogueAsked, ObFails
  <2>3. ASSUME NEW m \in ObMessages, LookedUp(m) \/ Registered(m) PROVE UsersKnown'
    <3>1. SenderOf[m] \in ObUsers
      BY DEF ObUsers
    <3> QED BY <1>0, <2>3, <3>1 DEF LookedUp, Registered
  <2>4. ASSUME NEW u \in ObUsers, RowSaved(u) PROVE UsersKnown'
    BY <1>0, <2>4 DEF RowSaved
  <2>5. CASE UNCHANGED obVars
    BY <1>0, <2>5 DEF obVars
  <2> QED BY <2>1, <2>2, <2>3, <2>4, <2>5 DEF OnboardingNext
<1> QED BY <1>0, <1>1 DEF OnboardingInv

\* Which makes the types of the onboarding.
LEMMA OnboardingTyped == OnboardingInv => OnboardingTypeOK
BY DEF OnboardingInv, HandInv, ObTypes, UsersKnown, OnboardingTypeOK, HandlingPlaces
==============================================================================
