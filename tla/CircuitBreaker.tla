---------------------------- MODULE CircuitBreaker ----------------------------
(***************************************************************************)
(* CircuitBreaker of src/core/circuit-breaker.js and the three calls the   *)
(* gateway makes of it: isDisabled before a request runs its agent, and    *)
(* recordSuccess or recordError when the run has ended.  Requests that     *)
(* were admitted before the agent was disabled still report afterwards.    *)
(*                                                                         *)
(* Time is counted in ticks and kept relative: left[a] is how long the     *)
(* agent stays disabled (disabledUntil - now, at least 0), quiet[a] how    *)
(* long ago _lastActivity was set, up to one tick beyond StaleAfter.       *)
(*                                                                         *)
(* An operator named Bug... is a plausible wrong version of the definition *)
(* that follows it and is used nowhere in the specification.               *)
(***************************************************************************)
EXTENDS Naturals, FiniteSets

CONSTANTS
  Agents, Requests,
  AgentOf,        \* the agent each request is routed to
  Categories,     \* of errors
  Weight,         \* weight by category
  Immediate,      \* the categories whose action is 'immediate'
  Threshold,      \* errorThreshold
  Cooldown,       \* cooldownMs
  StaleAfter,     \* staleThresholdMs
  Never           \* _lastActivity is not set

ASSUME BreakerAssumption ==
  /\ AgentOf \in [Requests -> Agents]
  /\ Weight \in [Categories -> Nat \ {0}]
  /\ Immediate \in SUBSET Categories
  /\ Threshold \in Nat \ {0}
  /\ Cooldown \in Nat \ {0}
  /\ StaleAfter \in Nat
  /\ Never \notin Nat

VARIABLES
  known,     \* the agents in _agents
  errors,    \* consecutiveErrors
  tripped,   \* disabledUntil > 0
  left, quiet,
  running,   \* the requests that run their agent
  streak,    \* weight of the errors since the last success (history)
  sinceTrip  \* ticks since the last trip, up to Cooldown (history)

breakerVars == <<known, errors, tripped, left, quiet, running, streak, sinceTrip>>
entries == <<known, errors, tripped, left, quiet>>

Disabled(a) == a \in known /\ left[a] > 0

\* A missing entry is kept as the entry recordError would make.
BreakerInit ==
  /\ known = {}
  /\ errors = [a \in Agents |-> 0]
  /\ tripped = [a \in Agents |-> FALSE]
  /\ left = [a \in Agents |-> 0]
  /\ quiet = [a \in Agents |-> Never]
  /\ running = {}
  /\ streak = [a \in Agents |-> 0]
  /\ sinceTrip = [a \in Agents |-> Cooldown]

----------------------------------------------------------------------------
\* The entry of an agent whose cooldown has passed is reset by isDisabled.
Recover(a) == a \in known /\ tripped[a] /\ left[a] = 0

\* isDisabled says no, and the request runs its agent.
Admit(r) ==
  LET a == AgentOf[r]
  IN  /\ r \notin running /\ ~ Disabled(a)
      /\ tripped' = [tripped EXCEPT ![a] = @ /\ ~ Recover(a)]
      /\ errors' = [errors EXCEPT ![a] = IF Recover(a) THEN 0 ELSE @]
      /\ running' = running \cup {r}
      /\ UNCHANGED <<known, left, quiet, streak, sinceTrip>>

BugNoReset(r) ==
  /\ r \in running
  /\ running' = running \ {r}
  /\ streak' = [streak EXCEPT ![AgentOf[r]] = 0]
  /\ UNCHANGED <<known, errors, tripped, left, quiet, sinceTrip>>

RecordSuccess(r) ==
  LET a == AgentOf[r]
  IN  /\ r \in running
      /\ errors' = [errors EXCEPT ![a] = IF a \in known THEN 0 ELSE @]
      /\ running' = running \ {r}
      /\ streak' = [streak EXCEPT ![a] = 0]
      /\ UNCHANGED <<known, tripped, left, quiet, sinceTrip>>

\* consecutiveErrors after an error of category c.
Counted(a, c) == IF c \in Immediate THEN Threshold ELSE errors[a] + Weight[c]

\* History: the weight of a streak after one more error; an error of an
\* immediate category makes a whole streak.
Lengthened(n, c) ==
  IF c \in Immediate \/ n + Weight[c] >= Threshold THEN Threshold ELSE n + Weight[c]

\* The error disables the agent, or prolongs the time it is disabled for.
Trips(a, c) == Counted(a, c) >= Threshold

BugRecordErrorOverlong(r, c) ==
  LET a == AgentOf[r]
  IN  /\ r \in running
      /\ known' = known \cup {a}
      /\ errors' = [errors EXCEPT ![a] = Counted(a, c)]
      /\ tripped' = [tripped EXCEPT ![a] = @ \/ Trips(a, c)]
      /\ left' = [left EXCEPT ![a] = IF Trips(a, c) THEN @ + Cooldown ELSE @]
      /\ running' = running \ {r}
      /\ streak' = [streak EXCEPT ![a] = Lengthened(@, c)]
      /\ sinceTrip' = [sinceTrip EXCEPT ![a] = IF Counted(a, c) >= Threshold THEN 0 ELSE @]
      /\ UNCHANGED quiet

RecordError(r, c) ==
  LET a == AgentOf[r]
  IN  /\ r \in running
      /\ known' = known \cup {a}
      /\ errors' = [errors EXCEPT ![a] = Counted(a, c)]
      /\ tripped' = [tripped EXCEPT ![a] = @ \/ Trips(a, c)]
      /\ left' = [left EXCEPT ![a] = IF Trips(a, c) THEN Cooldown ELSE @]
      /\ running' = running \ {r}
      /\ streak' = [streak EXCEPT ![a] = Lengthened(@, c)]
      /\ sinceTrip' = [sinceTrip EXCEPT ![a] = IF Counted(a, c) >= Threshold THEN 0 ELSE @]
      /\ UNCHANGED quiet

BugStable(a) == errors[a] = 0
Stable(a) == errors[a] = 0 /\ left[a] = 0

\* getStats prunes: entries stable for longer than StaleAfter are deleted.
GetStats ==
  LET stale == {a \in known : Stable(a) /\ quiet[a] # Never /\ quiet[a] > StaleAfter}
      stamped == {a \in known : quiet[a] = Never \/ ~ Stable(a)}
  IN  /\ known' = known \ stale
      /\ tripped' = [a \in Agents |-> tripped[a] /\ a \notin stale]
      /\ left' = [a \in Agents |-> IF a \in stale THEN 0 ELSE left[a]]
      /\ quiet' = [a \in Agents |-> CASE a \in stale -> Never
                                      [] a \in stamped -> 0
                                      [] OTHER -> quiet[a]]
      /\ UNCHANGED <<errors, running, streak, sinceTrip>>

BreakerTick ==
  /\ left' = [a \in Agents |-> IF left[a] > 0 THEN left[a] - 1 ELSE 0]
  /\ quiet' = [a \in Agents |-> IF quiet[a] \in 0 .. StaleAfter THEN quiet[a] + 1
                                                                ELSE quiet[a]]
  /\ sinceTrip' = [a \in Agents |-> IF sinceTrip[a] < Cooldown THEN sinceTrip[a] + 1
                                                               ELSE Cooldown]
  /\ UNCHANGED <<known, errors, tripped, running, streak>>

BreakerNext ==
  \/ \E r \in Requests :
       \/ Admit(r) \/ RecordSuccess(r)
       \/ \E c \in Categories : RecordError(r, c)
  \/ GetStats
  \/ BreakerTick

\* Time passes.
BreakerFairness == WF_breakerVars(BreakerTick)

BreakerSpec == BreakerInit /\ [][BreakerNext]_breakerVars /\ BreakerFairness

----------------------------------------------------------------------------
(* Properties                                                               *)

BreakerTypeOK ==
  /\ known \in SUBSET Agents
  /\ errors \in [Agents -> Nat]
  /\ tripped \in [Agents -> BOOLEAN]
  /\ left \in [Agents -> 0 .. Cooldown]
  /\ quiet \in [Agents -> 0 .. StaleAfter + 1 \cup {Never}]
  /\ running \in SUBSET Requests
  /\ streak \in [Agents -> 0 .. Threshold]
  /\ sinceTrip \in [Agents -> 0 .. Cooldown]

\* An agent stays disabled for the whole cooldown after the last error that
\* reached the threshold: neither a success of a request that still ran, nor
\* the pruning of getStats, nor a check ends it early.
CooldownKept == \A a \in Agents : sinceTrip[a] < Cooldown => Disabled(a)

\* It is not disabled for longer either: when the cooldown has passed, the
\* next request is admitted.
CooldownEnds == \A a \in Agents : Disabled(a) => sinceTrip[a] < Cooldown

\* The agent trips on an error of an immediate category, or on errors that
\* reach the threshold with no success of the agent between them: stale
\* counts of an earlier outage do not disable it.
TripsOnStreak ==
  [][\A a \in Agents : left'[a] > left[a] => streak'[a] = Threshold]_breakerVars

\* A request is admitted only to an agent whose next errors are counted from
\* below the threshold: after a cooldown the count starts anew.
AdmittedBelowThreshold ==
  [][\A r \in Requests : r \notin running /\ r \in running' =>
       errors'[AgentOf[r]] < Threshold]_breakerVars
=============================================================================
