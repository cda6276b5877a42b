------------------------------- MODULE A2ATasks -------------------------------
(***************************************************************************)
(* A2ATaskManager of src/a2a/task-manager.js over its store in memory,     *)
(* which is what app.js gives it, as the routes of src/a2a/router.js call  *)
(* it.  Every holder of a task has the same object, so that a cancelation  *)
(* and the run of the agent write to it in turn, and the run keeps writing *)
(* when the store has already dropped the task.                            *)
(*                                                                         *)
(* An operator named Bug... is a plausible wrong version of the definition *)
(* that follows it and is used nowhere in the specification.               *)
(***************************************************************************)
EXTENDS Naturals, FiniteSets, SeqFilters, SequencesExt

CONSTANTS
  A2ATaskIds,
  MaxTasks,      \* _maxTasks
  EvictCount     \* what the eviction removes: a tenth of maxTasks, at least one

ASSUME A2AAssumption == MaxTasks \in Nat \ {0} /\ EvictCount \in Nat \ {0}

VARIABLES
  a2aStore,      \* the ids in the store, in the order they entered its map
  a2aState,      \* task.status.state, "none" before createTask
  a2aHistory,    \* task.history
  a2aArtifacts,  \* the names of task.artifacts
  a2aRun         \* executeTask: "none", "agent", "memory" (what it awaits), "over"

a2aVars == <<a2aStore, a2aState, a2aHistory, a2aArtifacts, a2aRun>>

TerminalStates == {"completed", "failed", "canceled"}
Terminal(t) == a2aState[t] \in TerminalStates
Stored(t) == Contains(a2aStore, t)

A2AInit ==
  /\ a2aStore = <<>>
  /\ a2aState = [t \in A2ATaskIds |-> "none"]
  /\ a2aHistory = [t \in A2ATaskIds |-> <<>>]
  /\ a2aArtifacts = [t \in A2ATaskIds |-> <<>>]
  /\ a2aRun = [t \in A2ATaskIds |-> "none"]

----------------------------------------------------------------------------
\* Ended tasks evicted by a createTask that finds the store full: the first ones.
Evicted ==
  LET ended == Only(a2aStore, {t \in A2ATaskIds : Terminal(t)})
  IN  IF Len(a2aStore) < MaxTasks THEN {}
      ELSE {ended[i] : i \in {j \in DOMAIN ended : j <= EvictCount}}

\* The route creates the task and starts its execution before it answers.
SendTask(t) ==
  /\ a2aState[t] = "none"
  /\ a2aStore' = Append(Only(a2aStore, A2ATaskIds \ Evicted), t)
  /\ a2aState' = [a2aState EXCEPT ![t] = "working"]
  /\ a2aHistory' = [a2aHistory EXCEPT ![t] = <<"submitted", "working">>]
  /\ a2aRun' = [a2aRun EXCEPT ![t] = "agent"]
  /\ UNCHANGED a2aArtifacts

\* The agent has answered; the answer is recorded in the episodic memory next.
Completed(t) ==
  /\ a2aRun[t] = "agent"
  /\ a2aState' = [a2aState EXCEPT ![t] = "completed"]
  /\ a2aHistory' = [a2aHistory EXCEPT ![t] = Append(@, "completed")]
  /\ a2aArtifacts' = [a2aArtifacts EXCEPT ![t] = Append(@, "response")]
  /\ a2aRun' = [a2aRun EXCEPT ![t] = "memory"]
  /\ UNCHANGED a2aStore

\* store.set: a task that is in the map keeps its place.
StoredAgain(t) == IF Stored(t) THEN a2aStore ELSE Append(a2aStore, t)

Failed(t) ==
  /\ a2aRun[t] = "agent"
  /\ a2aState' = [a2aState EXCEPT ![t] = "failed"]
  /\ a2aHistory' = [a2aHistory EXCEPT ![t] = Append(@, "failed")]
  /\ a2aArtifacts' = [a2aArtifacts EXCEPT ![t] = Append(@, "error")]
  /\ a2aRun' = [a2aRun EXCEPT ![t] = "over"]
  /\ a2aStore' = StoredAgain(t)

\* Recorded, or not: an error of the memory is only logged.
Recorded(t) ==
  /\ a2aRun[t] = "memory"
  /\ a2aRun' = [a2aRun EXCEPT ![t] = "over"]
  /\ a2aStore' = StoredAgain(t)
  /\ UNCHANGED <<a2aState, a2aHistory, a2aArtifacts>>

BugCancel(t) ==
  /\ Stored(t)
  /\ a2aState' = [a2aState EXCEPT ![t] = "canceled"]
  /\ a2aHistory' = [a2aHistory EXCEPT ![t] = Append(@, "canceled")]
  /\ UNCHANGED <<a2aStore, a2aArtifacts, a2aRun>>

Cancel(t) ==
  /\ Stored(t) /\ ~ Terminal(t)
  /\ a2aState' = [a2aState EXCEPT ![t] = "canceled"]
  /\ a2aHistory' = [a2aHistory EXCEPT ![t] = Append(@, "canceled")]
  /\ UNCHANGED <<a2aStore, a2aArtifacts, a2aRun>>

\* Tasks older than the retention are dropped, in whatever state they are.
CleanupOldTasks ==
  \E old \in SUBSET ToSet(a2aStore) :
    /\ old # {}
    /\ a2aStore' = Only(a2aStore, A2ATaskIds \ old)
    /\ UNCHANGED <<a2aState, a2aHistory, a2aArtifacts, a2aRun>>

A2ANext ==
  \/ \E t \in A2ATaskIds : SendTask(t) \/ Completed(t) \/ Failed(t) \/ Recorded(t) \/ Cancel(t)
  \/ CleanupOldTasks

A2ASpec == A2AInit /\ [][A2ANext]_a2aVars

----------------------------------------------------------------------------
(* Properties                                                               *)

\* Types, and the store's ids are distinct tasks that were created.
A2ATypeOK ==
  /\ a2aState \in [A2ATaskIds -> {"none", "working"} \cup TerminalStates]
  /\ a2aRun \in [A2ATaskIds -> {"none", "agent", "memory", "over"}]
  /\ IsInjective(a2aStore)
  /\ \A t \in ToSet(a2aStore) : a2aState[t] # "none"

\* However a cancelation, an eviction and the agent's end interleave, what a
\* client reads fits together: the state is the last of the history, a
\* completed task carries the response alone, a failed one the error alone, and
\* a task that is canceled or works carries nothing.
OutcomeMatches ==
  \A t \in A2ATaskIds : a2aState[t] # "none" =>
    /\ Last(a2aHistory[t]) = a2aState[t]
    /\ a2aArtifacts[t] = CASE a2aState[t] = "completed" -> <<"response">>
                           [] a2aState[t] = "failed" -> <<"error">>
                           [] OTHER -> <<>>
=============================================================================
