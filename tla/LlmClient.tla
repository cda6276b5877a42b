------------------------------- MODULE LlmClient -------------------------------
(***************************************************************************)
(* The calls of a language model: createMessage and _callOpenAI of         *)
(* shared/llm-client.js, which switch from the primary provider to the     *)
(* fallback after repeated errors and back after a cooldown, under the     *)
(* loop of runAgent in agents/runtime.js, which calls a model, runs the    *)
(* tools it asks for and calls it again.  Runs of several agents share the *)
(* state of the client, and each waits for its answer while the others go  *)
(* on.  Messages, tools and tokens are left out; which error a provider    *)
(* returns, and whether a model asks for a tool, is chosen.  The fallback  *)
(* is enabled and its SDK is installed.                                    *)
(*                                                                         *)
(* An operator named Bug... is a plausible wrong version of the definition *)
(* that follows it and is used nowhere in the specification.               *)
(***************************************************************************)
EXTENDS Naturals

CONSTANTS LmRuns,         \* the calls of runAgent
          MaxIterations,  \* model calls of one run, config.agents.maxIterations
          MaxRetries,     \* retries of one model call, config.agents.maxRetries
          TriggerAfter,   \* FALLBACK_CONFIG.triggerAfterErrors
          LmCooldown,     \* FALLBACK_CONFIG.cooldownMs, in ticks
          OpenFor,        \* ticks an open fallback refuses, 60 s
          LmHorizon       \* bound on the ticks of a behaviour

ASSUME LlmClientAssumption ==
  /\ MaxIterations \in Nat \ {0} /\ MaxRetries \in Nat
  /\ TriggerAfter \in Nat \ {0}
  /\ LmCooldown \in Nat /\ OpenFor \in Nat /\ LmHorizon \in Nat

VARIABLES lmNow,            \* time in ticks
          primaryFailures,  \* _primaryHealth.failures
          fallbackActive,   \* _fallbackActive
          fallbackStarted,  \* _fallbackStartedAt
          fallbackFailures, \* _fallbackHealth.failures, at most TriggerAfter
          lastFallback,     \* _fallbackHealth.lastFailure
          at,               \* run |-> where it is
          iteration,        \* run |-> i of its loop
          retry,            \* run |-> retry of its inner loop
          lmStreak          \* errors of the primary since its last success or
                            \* the end of a cooldown (history)

primaryVars == <<primaryFailures, fallbackActive, fallbackStarted, lmStreak>>
fallbackVars == <<fallbackFailures, lastFallback>>
runVars == <<at, iteration, retry>>
lmVars == <<lmNow, primaryVars, fallbackVars, runVars>>

Min2(a, b) == IF a <= b THEN a ELSE b

LlmInit ==
  /\ lmNow = 0
  /\ primaryFailures = 0 /\ lmStreak = 0
  /\ fallbackActive = FALSE /\ fallbackStarted = 0
  /\ fallbackFailures = 0 /\ lastFallback = 0
  /\ at = [r \in LmRuns |-> "idle"]
  /\ iteration = [r \in LmRuns |-> 0]
  /\ retry = [r \in LmRuns |-> 0]

CooledOff == fallbackActive /\ lmNow - fallbackStarted > LmCooldown

\* _fallbackHealth.open is set with the last failure that counts.
Refuses == fallbackFailures >= TriggerAfter /\ lmNow - lastFallback < OpenFor

Goto(r, pc) == at' = [at EXCEPT ![r] = pc]

\* _callOpenAI up to its request
AsksFallback(r) == Goto(r, IF Refuses THEN "failed" ELSE "fallback")

-----------------------------------------------------------------------------
\* createMessage up to its request: the primary once the cooldown is over.
CreateMessage(r) ==
  /\ at[r] \in {"calling", "idle"}
  /\ IF CooledOff \/ ~fallbackActive
     THEN /\ IF CooledOff THEN /\ fallbackActive' = FALSE
                               /\ primaryFailures' = 0 /\ lmStreak' = 0
                               /\ UNCHANGED fallbackStarted
                          ELSE UNCHANGED primaryVars
          /\ Goto(r, "primary")
     ELSE AsksFallback(r) /\ UNCHANGED primaryVars
  /\ UNCHANGED <<lmNow, fallbackVars, iteration, retry>>

\* The first call of a run without tools streams, from the primary and past
\* the counts.
StreamMessage(r) ==
  /\ at[r] = "idle" \/ (at[r] = "calling" /\ iteration[r] = 0)
  /\ Goto(r, "streaming")
  /\ UNCHANGED <<lmNow, primaryVars, fallbackVars, iteration, retry>>

\* A response: the end of the run, or tools, whose results go into the next
\* iteration; after the last one the run ends with a notice.
Responded(r) ==
  \/ Goto(r, "ended") /\ UNCHANGED <<iteration, retry>>
  \/ /\ iteration[r] + 1 < MaxIterations
     /\ Goto(r, "calling")
     /\ iteration' = [iteration EXCEPT ![r] = @ + 1]
     /\ retry' = [retry EXCEPT ![r] = 0]

\* The catch of runAgent: a limit or an overload is tried again, any other
\* error ends the run.
Threw(r, overload) ==
  /\ IF overload /\ retry[r] < MaxRetries
     THEN Goto(r, "calling") /\ retry' = [retry EXCEPT ![r] = @ + 1]
     ELSE Goto(r, "failed") /\ UNCHANGED retry
  /\ UNCHANGED iteration

BugPrimaryAnswers(r) ==
  /\ at[r] = "primary"
  /\ primaryFailures' = primaryFailures /\ lmStreak' = 0
  /\ Responded(r)
  /\ UNCHANGED <<lmNow, fallbackActive, fallbackStarted, fallbackVars>>

PrimaryAnswers(r) ==
  /\ at[r] = "primary"
  /\ primaryFailures' = 0 /\ lmStreak' = 0
  /\ Responded(r)
  /\ UNCHANGED <<lmNow, fallbackActive, fallbackStarted, fallbackVars>>

\* An error that speaks for the fallback: below the threshold it is thrown.
\* The count grows on while the fallback is active.
PrimaryErrs(r) ==
  /\ at[r] = "primary"
  /\ primaryFailures' = Min2(primaryFailures + 1, TriggerAfter)
  /\ lmStreak' = Min2(lmStreak + 1, TriggerAfter)
  /\ IF primaryFailures + 1 >= TriggerAfter
     THEN /\ fallbackActive' = TRUE /\ fallbackStarted' = lmNow
          /\ AsksFallback(r) /\ UNCHANGED <<iteration, retry>>
     ELSE /\ \E overload \in BOOLEAN : Threw(r, overload)
          /\ UNCHANGED <<fallbackActive, fallbackStarted>>
  /\ UNCHANGED <<lmNow, fallbackVars>>

\* Any other error of the primary is passed on.
PrimaryRefuses(r) ==
  /\ at[r] = "primary"
  /\ Threw(r, FALSE)
  /\ UNCHANGED <<lmNow, primaryVars, fallbackVars>>

StreamEnds(r) ==
  /\ at[r] = "streaming"
  /\ Responded(r) \/ \E overload \in BOOLEAN : Threw(r, overload)
  /\ UNCHANGED <<lmNow, primaryVars, fallbackVars>>

FallbackAnswers(r) ==
  /\ at[r] = "fallback"
  /\ Responded(r)
  /\ UNCHANGED <<lmNow, primaryVars, fallbackVars>>

\* The count of the fallback is never taken back.
FallbackErrs(r) ==
  /\ at[r] = "fallback"
  /\ fallbackFailures' = Min2(fallbackFailures + 1, TriggerAfter)
  /\ lastFallback' = lmNow
  /\ \E overload \in BOOLEAN : Threw(r, overload)
  /\ UNCHANGED <<lmNow, primaryVars>>

LlmTick ==
  /\ lmNow < LmHorizon
  /\ lmNow' = lmNow + 1
  /\ UNCHANGED <<primaryVars, fallbackVars, runVars>>

\* What brings a run on.
Step(r) ==
  \/ CreateMessage(r) \/ StreamMessage(r)
  \/ PrimaryAnswers(r) \/ PrimaryErrs(r) \/ PrimaryRefuses(r)
  \/ StreamEnds(r) \/ FallbackAnswers(r) \/ FallbackErrs(r)

LlmNext == LlmTick \/ \E r \in LmRuns : Step(r)

LlmSpec == LlmInit /\ [][LlmNext]_lmVars

-----------------------------------------------------------------------------
LlmTypeOK ==
  /\ lmNow \in 0 .. LmHorizon
  /\ primaryFailures \in 0 .. TriggerAfter /\ fallbackActive \in BOOLEAN
  /\ fallbackStarted \in 0 .. lmNow
  /\ fallbackFailures \in 0 .. TriggerAfter /\ lastFallback \in 0 .. lmNow
  /\ at \in [LmRuns -> {"idle", "calling", "primary", "streaming", "fallback",
                        "ended", "failed"}]
  /\ iteration \in [LmRuns -> 0 .. MaxIterations - 1]
  /\ retry \in [LmRuns -> 0 .. MaxRetries]
  /\ lmStreak \in 0 .. TriggerAfter

\* The client switches to the fallback, or stays there longer, only on an error
\* of the primary that is the last of as many as the threshold, of whichever
\* runs, with no success of the primary among them (createMessage).
FallbackEarned ==
  [][fallbackActive' /\ (~fallbackActive \/ fallbackStarted' # fallbackStarted)
       => lmStreak' >= TriggerAfter]_lmVars
=============================================================================
