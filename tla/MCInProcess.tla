------------------------------ MODULE MCInProcess ------------------------------
(***************************************************************************)
(* The parts of one process in which something waits and must come to an   *)
(* end: they share no state and never call each other within what their    *)
(* modules model, and stand side by side.  Each behaviour moves one of     *)
(* them, chosen at the start; the others stay as they began.               *)
(*                                                                         *)
(* Governor: five requests of two users, from a channel and from none,     *)
(* whose limits all come to bear.                                          *)
(* Breaker: two agents, two requests for the first and one for the second, *)
(* each made again and again; the threshold and the weights are the code's *)
(* and a cooldown of two ticks outlasts the time to become stale, so that  *)
(* pruning meets disabled agents.  Queue: five summaries, at most two of   *)
(* them waiting, and a limit set to anything up to three, 0 becoming 1.    *)
(* Coalescer: three messages of one user, one of another and a DM, a cap   *)
(* of three, and timers that leave room for a message just before each.    *)
(* Branches: two requests with two branches.  Committee: one agent, a      *)
(* configured member and one who joins, two proposals of which one may be  *)
(* stored at a time.  Tools: two servers, one of them a child process,     *)
(* with a tool in common, a call of each tool, and a request of each       *)
(* server.                                                                 *)
(***************************************************************************)
EXTENDS ConcurrencyGovernor, CircuitBreaker, SummarizationQueue,
        MessageCoalescer, Branches, Committee, McpClient, TLC

CONSTANTS alice, bob, general, g1, g2, g3, g4, g5,
          a1, a2, r1, r2, r3, auth, server, unknown,
          t1, t2, t3, t4, t5,
          m1, m2, m3, m4, dm, k1, k2, kd,
          ai, h1, h2,
          v1, v2, w1, w2, x1, x2

VARIABLE component  \* the component that moves

MCUserOf == g1 :> alice @@ g2 :> alice @@ g3 :> alice @@ g4 :> bob @@ g5 :> bob
MCChannelOf == g1 :> general @@ g2 :> general @@ g3 :> NoChannel
               @@ g4 :> general @@ g5 :> NoChannel
MCAgentOf == r1 :> a1 @@ r2 :> a1 @@ r3 :> a2
MCWeight == auth :> 3 @@ server :> 2 @@ unknown :> 1
MCImmediate == {auth}
MCTasks == {t1, t2, t3, t4, t5}
MCLimits == 0 .. 3
MCMessages == {m1, m2, m3, m4, dm}
MCKeyOf == m1 :> k1 @@ m2 :> k1 @@ m3 :> k1 @@ m4 :> k2 @@ dm :> kd
MCDirect == {dm}
MCOffers == v1 :> {w1} @@ v2 :> {w1, w2}
MCToolOf == x1 :> w1 @@ x2 :> w2

allVars == <<governorVars, breakerVars, queueVars, coalescerVars, brVars, cmtVars, mcpVars, component>>

Init ==
  /\ component \in {"governor", "breaker", "queue", "coalescer", "branches", "committee", "tools"}
  /\ GovernorInit /\ BreakerInit /\ QueueInit /\ CoalescerInit /\ BranchesInit /\ CommitteeInit
  /\ McpInit

Next ==
  /\ UNCHANGED component
  /\ IF component = "governor" THEN GovernorNext ELSE UNCHANGED governorVars
  /\ IF component = "breaker" THEN BreakerNext ELSE UNCHANGED breakerVars
  /\ IF component = "queue" THEN QueueNext ELSE UNCHANGED queueVars
  /\ IF component = "coalescer" THEN CoalescerNext ELSE UNCHANGED coalescerVars
  /\ IF component = "branches" THEN BranchesNext ELSE UNCHANGED brVars
  /\ IF component = "committee" THEN CommitteeNext ELSE UNCHANGED cmtVars
  /\ IF component = "tools" THEN McpNext ELSE UNCHANGED mcpVars

\* The fairness of each component, for the behaviours in which it moves.
Fairness ==
  /\ \A r \in SlotRequests : WF_governorVars(component = "governor" /\ Release(r))
  /\ WF_breakerVars(component = "breaker" /\ BreakerTick)
  /\ \A t \in Tasks : WF_queueVars(component = "queue" /\ Finish(t))
  /\ WF_coalescerVars(component = "coalescer" /\ CoalescerTick)
  /\ WF_coalescerVars(component = "coalescer" /\ Fire)
  /\ \A z \in Branch : WF_brVars(component = "branches" /\ TimesOut(z))
  /\ \A q \in BrRequests : WF_brVars(component = "branches" /\ SingleReturns(q))
  /\ WF_cmtVars(component = "committee" /\ AiVotesIn)
  /\ WF_cmtVars(component = "committee" /\ VoteTimeout)
  /\ WF_cmtVars(component = "committee" /\ Announced)
  /\ \A i \in CmtIds : WF_cmtVars(component = "committee" /\ SendEnds(i))
  /\ \A s \in Servers : \A n \in Numbers :
       WF_mcpVars(component = "tools" /\ RequestFails(s, n))

Spec == Init /\ [][Next]_allVars /\ Fairness

\* The components keep their types.
TypeOK ==
  /\ GovernorTypeOK /\ BreakerTypeOK /\ QueueTypeOK /\ CoalescerTypeOK /\ BranchesTypeOK /\ CommitteeTypeOK
  /\ McpTypeOK

\* Whoever waits for others is told in the end, however few of them answer: requests
\* for their branches, proposals for their votes, calls for their servers.
AnsweredInTheEnd == BranchedEnds /\ VotesSettle /\ CallsSettle
=============================================================================
