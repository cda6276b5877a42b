------------------------------- MODULE AgentBus -------------------------------
(***************************************************************************)
(* ask of agents/agent-bus.js: an agent asks another one and waits for its *)
(* answer, for a limited time.  The asks under way are counted and limited *)
(* and recent answers are kept.  The agent is run by the function that     *)
(* app.js injects; whether the communication graph allows the ask, and     *)
(* when and how the agent answers, is chosen.  Each ask has a request id   *)
(* of its own, since that function passes none on, so the depth that is    *)
(* kept by request id never exceeds one and is left out.                   *)
(*                                                                         *)
(* An operator named Bug... is a plausible wrong version of the definition *)
(* that follows it and is used nowhere in the specification.               *)
(***************************************************************************)
EXTENDS Integers, Sequences, FiniteSets

CONSTANTS Asks,      \* calls of ask
          AskKey,    \* ask |-> key of its answer in the cache
          MaxAsks,   \* MAX_CONCURRENT_ASKS
          CacheMax,  \* _cacheMaxSize
          CacheTtl,  \* _cacheTTL in ticks
          AskHorizon \* bound on the ticks of a behaviour

ASSUME AgentBusAssumption ==
  /\ IsFiniteSet(Asks) /\ MaxAsks \in Nat /\ CacheMax \in Nat \ {0} /\ CacheTtl \in Nat

VARIABLES askNow,     \* time in ticks
          askAt,      \* ask |-> "new", "recording", "running", "answered" or "failed"
          activeAsks, \* _activeAsks
          agentRuns,  \* asks whose agent still runs
          answers     \* _responseCache in order of insertion: <<key, time>>

abVars == <<askNow, askAt, activeAsks, agentRuns, answers>>

AgentBusInit ==
  /\ askNow = 0
  /\ askAt = [a \in Asks |-> "new"]
  /\ activeAsks = 0 /\ agentRuns = {} /\ answers = << >>

UnderWay == {a \in Asks : askAt[a] \in {"recording", "running"}}
AskGoes(a, pc) == askAt' = [askAt EXCEPT ![a] = pc]
AnswerKept(a) == \E i \in DOMAIN answers :
              answers[i][1] = AskKey[a] /\ askNow - answers[i][2] < CacheTtl

BugRefuse(a) ==
  /\ askAt[a] = "new"
  /\ \/ activeAsks >= MaxAsks /\ AskGoes(a, "failed") /\ UNCHANGED activeAsks
     \/ AskGoes(a, "failed") /\ UNCHANGED activeAsks
     \/ AnswerKept(a) /\ AskGoes(a, "answered") /\ activeAsks' = activeAsks + 1
  /\ UNCHANGED <<askNow, agentRuns, answers>>

\* Every early return of ask has counted the ask and takes it back: too many
\* asks, one that the graph denies, one whose answer is kept.
Refuse(a) ==
  /\ askAt[a] = "new"
  /\ \/ activeAsks >= MaxAsks /\ AskGoes(a, "failed")
     \/ activeAsks < MaxAsks /\ AskGoes(a, "failed")
     \/ activeAsks < MaxAsks /\ AnswerKept(a) /\ AskGoes(a, "answered")
  /\ UNCHANGED <<askNow, activeAsks, agentRuns, answers>>

\* The ask is counted and its handoff is being recorded.
Ask(a) ==
  /\ askAt[a] = "new" /\ activeAsks < MaxAsks /\ ~AnswerKept(a)
  /\ activeAsks' = activeAsks + 1
  /\ AskGoes(a, "recording")
  /\ UNCHANGED <<askNow, agentRuns, answers>>

\* Recorded or not, the agent runs.
HandoffRecorded(a) ==
  /\ askAt[a] = "recording"
  /\ AskGoes(a, "running")
  /\ agentRuns' = agentRuns \cup {a}
  /\ UNCHANGED <<askNow, activeAsks, answers>>

\* The answer is kept under its key.  A full cache drops its first entry, and an
\* entry that is written again keeps its place.
Kept(a) ==
  LET room == IF Len(answers) >= CacheMax THEN Tail(answers) ELSE answers
  IN IF \E i \in DOMAIN room : room[i][1] = AskKey[a]
     THEN [i \in DOMAIN room |->
             IF room[i][1] = AskKey[a] THEN <<AskKey[a], askNow>> ELSE room[i]]
     ELSE Append(room, <<AskKey[a], askNow>>)

\* The agent has come to an end, with an answer or an error.  After the timeout
\* nobody takes notice.
AgentEnds(a) ==
  /\ a \in agentRuns
  /\ agentRuns' = agentRuns \ {a}
  /\ IF askAt[a] = "running"
     THEN /\ activeAsks' = activeAsks - 1
          /\ \/ AskGoes(a, "answered") /\ answers' = Kept(a)
             \/ AskGoes(a, "failed") /\ UNCHANGED answers
     ELSE UNCHANGED <<askAt, activeAsks, answers>>
  /\ UNCHANGED askNow

\* The timer wins the race; the agent runs on.
AskTimeout(a) ==
  /\ askAt[a] = "running"
  /\ AskGoes(a, "failed")
  /\ activeAsks' = activeAsks - 1
  /\ UNCHANGED <<askNow, agentRuns, answers>>

\* cleanCache, on its timer
CleanCache ==
  /\ answers' = SelectSeq(answers, LAMBDA e : askNow - e[2] <= CacheTtl)
  /\ answers' # answers
  /\ UNCHANGED <<askNow, askAt, activeAsks, agentRuns>>

AskTick ==
  /\ askNow < AskHorizon
  /\ askNow' = askNow + 1
  /\ UNCHANGED <<askAt, activeAsks, agentRuns, answers>>

AgentBusNext ==
  \/ \E a \in Asks : \/ Refuse(a) \/ Ask(a) \/ HandoffRecorded(a)
                     \/ AgentEnds(a) \/ AskTimeout(a)
  \/ CleanCache \/ AskTick

AgentBusSpec == AgentBusInit /\ [][AgentBusNext]_abVars

-----------------------------------------------------------------------------
AgentBusTypeOK ==
  /\ askNow \in Nat
  /\ askAt \in [Asks -> {"new", "recording", "running", "answered", "failed"}]
  /\ activeAsks \in Nat
  /\ agentRuns \subseteq Asks

\* The counter is the number of asks under way, and these are limited, although
\* an ask has many ways out and its agent may end after it: no ask leaves its
\* count behind, which would in the end refuse every ask, and a late answer
\* does not give a place back twice (_activeAsks in ask).
AsksCounted ==
  /\ activeAsks = Cardinality(UnderWay)
  /\ activeAsks <= MaxAsks
=============================================================================
