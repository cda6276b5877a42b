------------------------------- MODULE Branches -------------------------------
(***************************************************************************)
(* core/branch-manager.js with the only strategy its caller uses,          *)
(* first_done, and that caller, _executeBranchedAgent of                   *)
(* gateway/gateway-steps.js: a hard request is given to several agent runs *)
(* at once, the first success answers it and the other branches are        *)
(* aborted; when every branch fails the request is run once more in the    *)
(* plain way.  A branch that is aborted or times out is only no longer     *)
(* waited for: its agent run goes on.  The bookkeeping per session and the *)
(* statistics, which nothing reads, are left out, and so is                *)
(* cancelBranches, which nothing calls.                                    *)
(***************************************************************************)
EXTENDS Naturals, Sequences, FiniteSets

CONSTANTS BrRequests,    \* requests that are branched
          MaxBranches,   \* branches of one request
          MaxResults,    \* BranchManager._maxResultsRetained
          NoAnswer       \* the answer of a request that has none

ASSUME BranchesAssumption == MaxBranches \in Nat \ {0} /\ MaxResults \in Nat \ {0}

Branch == BrRequests \X (1 .. MaxBranches)
Siblings(b) == {c \in Branch : c[1] = b[1] /\ c # b}

VARIABLES brPhase,    \* request |-> "idle", "branching", "single", "done", "failed"
          branch,     \* branch |-> "idle", "racing", "success", "aborted", "error"
          agentRun,   \* branch |-> whether its agent run is at work
          results,    \* BranchManager._results, oldest first
          answer      \* request |-> the branch or "single" that answered

brVars == <<brPhase, branch, agentRun, results, answer>>

BranchesInit ==
  /\ brPhase = [q \in BrRequests |-> "idle"]
  /\ branch = [b \in Branch |-> "idle"]
  /\ agentRun = [b \in Branch |-> FALSE]
  /\ results = << >>
  /\ answer = [q \in BrRequests |-> NoAnswer]

\* executeBranches: all branches start at once.
ExecuteBranches(q) ==
  /\ brPhase[q] = "idle"
  /\ brPhase' = [brPhase EXCEPT ![q] = "branching"]
  /\ branch' = [b \in Branch |-> IF b[1] = q THEN "racing" ELSE branch[b]]
  /\ agentRun' = [b \in Branch |-> b[1] = q \/ agentRun[b]]
  /\ UNCHANGED <<results, answer>>

\* Only a success that exceeds the bound drops the oldest result.
Retain(b) ==
  IF Len(results) + 1 > MaxResults THEN Append(Tail(results), b)
                                   ELSE Append(results, b)

\* What _executeBranchedAgent makes of the value of executeBranches: it spreads
\* its field "result", which the value, an agent's own output, does not have.
Unpacked(b) == NoAnswer

\* The first branch whose agent returns: the others are aborted, and each
\* notes that it was.
Succeeds(b) ==
  /\ branch[b] = "racing"
  /\ agentRun' = [agentRun EXCEPT ![b] = FALSE]
  /\ \E order \in [1 .. Cardinality({c \in Siblings(b) : branch[c] = "racing"})
                     -> {c \in Siblings(b) : branch[c] = "racing"}] :
       /\ \A i, j \in DOMAIN order : i < j => order[i][2] < order[j][2]
       /\ results' = Retain(b) \o order
  /\ branch' = [c \in Branch |-> CASE c = b -> "success"
                                   [] c \in Siblings(b) /\ branch[c] = "racing"
                                      -> "aborted"
                                   [] OTHER -> branch[c]]
  /\ brPhase' = [brPhase EXCEPT ![b[1]] = "done"]
  /\ answer' = [answer EXCEPT ![b[1]] = Unpacked(b)]

\* An error of the agent, or the timeout: the last branch to fail leaves the
\* request to a single run.
BranchErrs(b) ==
  /\ branch[b] = "racing"
  /\ branch' = [branch EXCEPT ![b] = "error"]
  /\ results' = Append(results, b)
  /\ brPhase' = IF \A c \in Siblings(b) : branch[c] = "error"
                THEN [brPhase EXCEPT ![b[1]] = "single"] ELSE brPhase
  /\ UNCHANGED answer

AgentErrs(b) ==
  /\ BranchErrs(b)
  /\ agentRun' = [agentRun EXCEPT ![b] = FALSE]

TimesOut(b) == BranchErrs(b) /\ UNCHANGED agentRun

\* An agent run nobody waits for any more comes to its end.
LateReturn(b) ==
  /\ agentRun[b] /\ branch[b] # "racing"
  /\ agentRun' = [agentRun EXCEPT ![b] = FALSE]
  /\ UNCHANGED <<brPhase, branch, results, answer>>

\* The plain run of the fallback
SingleReturns(q) ==
  /\ brPhase[q] = "single"
  /\ \/ /\ brPhase' = [brPhase EXCEPT ![q] = "done"]
        /\ answer' = [answer EXCEPT ![q] = "single"]
     \/ /\ brPhase' = [brPhase EXCEPT ![q] = "failed"]
        /\ UNCHANGED answer
  /\ UNCHANGED <<branch, agentRun, results>>

BranchesNext ==
  \/ \E q \in BrRequests : ExecuteBranches(q) \/ SingleReturns(q)
  \/ \E b \in Branch : Succeeds(b) \/ AgentErrs(b) \/ TimesOut(b) \/ LateReturn(b)

-----------------------------------------------------------------------------
BranchesTypeOK ==
  /\ brPhase \in [BrRequests -> {"idle", "branching", "single", "done", "failed"}]
  /\ branch \in [Branch -> {"idle", "racing", "success", "aborted", "error"}]
  /\ agentRun \in [Branch -> BOOLEAN]
  /\ results \in Seq(Branch)

\* A branched request ends although its agents may hang: the timers of its
\* branches lead to the plain run (executeBranches, _executeBranchedAgent).
BranchedEnds == []<>(\A q \in BrRequests : brPhase[q] \notin {"branching", "single"})

\* A request that is done has the answer of one of its runs, as the caller's
\* comment says of the value of executeBranches.
BranchedAnswerKept ==
  \A q \in BrRequests : brPhase[q] = "done" => answer[q] # NoAnswer
=============================================================================
