------------------------------ MODULE Discovery ------------------------------
(***************************************************************************)
(* The circuit breaker of src/distributed/discovery.js and the health      *)
(* checks that feed it, for both discoveries: the static one checks every  *)
(* agent at each interval, the Kubernetes one resolves it first and so     *)
(* checks only what its breaker lets through.  Callers that resolve an     *)
(* address ask the same breaker.  Several checks of an agent may be under  *)
(* way when answers are slower than the interval.                          *)
(*                                                                         *)
(* Time is counted in ticks; discAge is Date.now() - openedAt.             *)
(*                                                                         *)
(* An operator named Bug... is a plausible wrong version of the definition *)
(* that follows it and is used nowhere in the specification.               *)
(***************************************************************************)
EXTENDS Naturals, FiniteSets

CONSTANTS
  DiscAgents,
  FailureThreshold, SuccessThreshold,
  DiscCooldown,      \* cooldownMs
  MaxChecks,         \* bound: checks of an agent under way at a time
  MaxOutages         \* bound: how often an agent goes down

ASSUME DiscoveryAssumption ==
  /\ FailureThreshold \in Nat \ {0} /\ SuccessThreshold \in Nat \ {0}
  /\ DiscCooldown \in Nat /\ MaxChecks \in Nat \ {0} /\ MaxOutages \in Nat

VARIABLES
  discMode,      \* "static" or "kubernetes"
  discUp,        \* the agents that answer (external)
  discOutages,   \* how often each went down
  discState,     \* state of the breakers
  discFailures, discSuccesses,
  discAge,       \* ticks since openedAt, up to one beyond the cooldown
  discChecks,    \* checks under way
  discHealth,    \* healthChecks: "unknown", "up", "down"
  discStreak     \* checks that succeeded since the last that failed, up to
                 \* SuccessThreshold (history)

discVars == <<discMode, discUp, discOutages, discState, discFailures, discSuccesses,
              discAge, discChecks, discHealth, discStreak>>
discBreakers == <<discState, discFailures, discSuccesses, discAge>>

DiscInit ==
  /\ discMode \in {"static", "kubernetes"}
  /\ discUp = DiscAgents
  /\ discOutages = [a \in DiscAgents |-> 0]
  /\ discState = [a \in DiscAgents |-> "CLOSED"]
  /\ discFailures = [a \in DiscAgents |-> 0]
  /\ discSuccesses = [a \in DiscAgents |-> 0]
  /\ discAge = [a \in DiscAgents |-> 0]
  /\ discChecks = [a \in DiscAgents |-> 0]
  /\ discHealth = [a \in DiscAgents |-> "unknown"]
  /\ discStreak = [a \in DiscAgents |-> 0]

----------------------------------------------------------------------------
BugCooledDown(a) == discState[a] = "OPEN" /\ discAge[a] > DiscCooldown /\ discFailures[a] = 0
CooledDown(a) == discState[a] = "OPEN" /\ discAge[a] > DiscCooldown
CanAttempt(a) == discState[a] # "OPEN" \/ CooledDown(a)

\* What canAttempt changes: a breaker that has cooled down is half open.
Attempted(a) ==
  /\ discState' = [discState EXCEPT ![a] = IF CooledDown(a) THEN "HALF_OPEN" ELSE @]
  /\ discSuccesses' = [discSuccesses EXCEPT ![a] = IF CooledDown(a) THEN 0 ELSE @]

\* resolveAgent, and listAgents of the Kubernetes discovery.
Resolve(a) ==
  /\ Attempted(a)
  /\ UNCHANGED <<discMode, discUp, discOutages, discFailures, discAge, discChecks,
                 discHealth, discStreak>>

StartCheck(a) ==
  /\ discChecks[a] < MaxChecks
  /\ discMode = "kubernetes" => CanAttempt(a)
  /\ discChecks' = [discChecks EXCEPT ![a] = @ + 1]
  /\ IF discMode = "kubernetes" THEN Attempted(a) ELSE UNCHANGED <<discState, discSuccesses>>
  /\ UNCHANGED <<discMode, discUp, discOutages, discFailures, discAge, discHealth, discStreak>>

\* A half open breaker closes with the SuccessThreshold'th success.
BugCloses(a) == discState[a] = "HALF_OPEN"
Closes(a) == discState[a] = "HALF_OPEN" /\ discSuccesses[a] + 1 >= SuccessThreshold

RecordSuccess(a) ==
  /\ discState' = [discState EXCEPT ![a] = IF Closes(a) THEN "CLOSED" ELSE @]
  /\ discSuccesses' = [discSuccesses EXCEPT ![a] =
        IF discState[a] = "HALF_OPEN" THEN @ + 1 ELSE @]
  /\ discFailures' = [discFailures EXCEPT ![a] =
        IF discState[a] = "CLOSED" \/ Closes(a) THEN 0 ELSE @]
  /\ UNCHANGED discAge

\* A half open breaker opens again at once, any other at the threshold; one
\* that is open already stays open for another cooldown.
Opens(a) == discState[a] = "HALF_OPEN" \/ discFailures[a] + 1 >= FailureThreshold

RecordFailure(a) ==
  /\ discFailures' = [discFailures EXCEPT ![a] =
        IF @ < FailureThreshold THEN @ + 1 ELSE FailureThreshold]
  /\ discState' = [discState EXCEPT ![a] = IF Opens(a) THEN "OPEN" ELSE @]
  /\ discAge' = [discAge EXCEPT ![a] = IF Opens(a) THEN 0 ELSE @]
  /\ discSuccesses' = [discSuccesses EXCEPT ![a] =
        IF discState[a] = "HALF_OPEN" THEN 0 ELSE @]

\* The answer of a check tells whether the agent is up now; a timeout is a failure.
EndCheck(a) ==
  /\ discChecks[a] > 0
  /\ discChecks' = [discChecks EXCEPT ![a] = @ - 1]
  /\ IF a \in discUp THEN RecordSuccess(a) ELSE RecordFailure(a)
  /\ discHealth' = [discHealth EXCEPT ![a] = IF a \in discUp THEN "up" ELSE "down"]
  /\ discStreak' = [discStreak EXCEPT ![a] =
        IF a \notin discUp THEN 0 ELSE IF @ < SuccessThreshold THEN @ + 1 ELSE @]
  /\ UNCHANGED <<discMode, discUp, discOutages>>

GoesDown(a) ==
  /\ a \in discUp /\ discOutages[a] < MaxOutages
  /\ discUp' = discUp \ {a}
  /\ discOutages' = [discOutages EXCEPT ![a] = @ + 1]
  /\ UNCHANGED <<discMode, discBreakers, discChecks, discHealth, discStreak>>

ComesBack(a) ==
  /\ a \notin discUp /\ discUp' = discUp \cup {a}
  /\ UNCHANGED <<discMode, discOutages, discBreakers, discChecks, discHealth, discStreak>>

DiscTick ==
  /\ discAge' = [a \in DiscAgents |-> IF discAge[a] <= DiscCooldown THEN discAge[a] + 1
                                                                    ELSE discAge[a]]
  /\ discAge' # discAge
  /\ UNCHANGED <<discMode, discUp, discOutages, discState, discFailures, discSuccesses,
                 discChecks, discHealth, discStreak>>

DiscNext ==
  \/ \E a \in DiscAgents : \/ Resolve(a) \/ StartCheck(a) \/ EndCheck(a)
                           \/ GoesDown(a) \/ ComesBack(a)
  \/ DiscTick

\* The interval starts checks, which end, and time passes.  In the static
\* discovery a breaker that is open needs somebody to resolve the address.
DiscFairness ==
  /\ WF_discVars(DiscTick)
  /\ \A a \in DiscAgents :
       WF_discVars(StartCheck(a)) /\ WF_discVars(EndCheck(a)) /\ WF_discVars(Resolve(a))

DiscSpec == DiscInit /\ [][DiscNext]_discVars /\ DiscFairness

----------------------------------------------------------------------------
(* Properties                                                               *)

DiscTypeOK ==
  /\ discState \in [DiscAgents -> {"CLOSED", "OPEN", "HALF_OPEN"}]
  /\ discFailures \in [DiscAgents -> 0 .. FailureThreshold]
  /\ discSuccesses \in [DiscAgents -> 0 .. SuccessThreshold]
  /\ discAge \in [DiscAgents -> 0 .. DiscCooldown + 1]
  /\ discChecks \in [DiscAgents -> 0 .. MaxChecks]

\* A breaker closes again only after SuccessThreshold checks in a row have
\* succeeded: late answers of checks begun before it opened, of either kind, do
\* not close it on the strength of an older success.
CloseEarned ==
  [][\A a \in DiscAgents : discState[a] # "CLOSED" /\ discState'[a] = "CLOSED" =>
       discStreak'[a] >= SuccessThreshold]_discVars

\* An agent that stays up is reachable again at last, in both discoveries.
AgentReturns ==
  \A a \in DiscAgents : <>[](a \in discUp) => <>[](discState[a] = "CLOSED")

=============================================================================
