------------------------------ MODULE MCRecords ------------------------------
(***************************************************************************)
(* The parts of one process that keep what was said, sent, asked, wanted   *)
(* and decided, and must keep it right while calls are awaited, fail and   *)
(* overlap.  They stand side by side, as their modules model them; each    *)
(* behaviour moves one of them, chosen at the start.                       *)
(*                                                                         *)
(* Pipeline: V1 with two messages of one conversation that run at once,    *)
(* one fault and one restart.  Rate limiter: two requests a minute; eight  *)
(* go beyond the cut, which comes with the seventh.  Mailbox: two messages *)
(* to one agent and one to another, queues of one and two messages, so     *)
(* that every bound is met, and two restarts.  Tasks: three in a store of  *)
(* two.  Compaction: four jobs of two sessions.  Models: two runs of two   *)
(* iterations with one retry; two errors bring the fallback.  Suggestions: *)
(* two insights of one channel, two overlapping calls and a change of day. *)
(* Changes: two requests for one channel.  Logins: a callback, a profile   *)
(* update and a request of each kind, for one login link.  Onboarding:     *)
(* four messages of an administrator.  Skills: two, one of them            *)
(* preinstalled.  Shutdown: two requests and both signals.  Asks: three,   *)
(* two with the same key, two at a time.  Knowledge: two calls of the      *)
(* tool, two sessions of one channel and one night, two of them at a time, *)
(* with room for one memory; one prompt at a time.                         *)
(***************************************************************************)
EXTENDS GatewayPipeline, RateLimiter, Mailbox, A2ATasks, Compaction, LlmClient,
        Insights, ChangeControl, UserAuth, Onboarding, Skills, Shutdown,
        AgentBus, Knowledge, TLC

CONSTANTS r1, r2, hello, bye,
          u1,
          m1, m2, m3, x, y,
          t1, t2, t3,
          s1, s2,
          i1, i2, topic1, topic2, c1, p1, p2,
          g1, g2,
          j1, j2, j3, j4, o1,
          n1, n2, n3, n4, ad,
          l1, l2, a1,
          q1, q2, q3, e1, e2,
          k1, k2, k3, k4, k5, d1, f1, f2, f3, f4, team, fact, taste

VARIABLE component  \* the component that moves

MCTexts == r1 :> hello @@ r2 :> bye
MCTo == m1 :> x @@ m2 :> x @@ m3 :> y
MCOrder == <<i1, i2>>
MCTopicOf == i1 :> topic1 @@ i2 :> topic2
MCChannelOf == i1 :> c1 @@ i2 :> c1
MCKind == j1 :> "callback" @@ j2 :> "profile" @@ j3 :> "ms" @@ j4 :> "portal"
MCSenderOf == [m \in ObMessages |-> ad]
MCKeyword == n1 :> "none" @@ n2 :> "none" @@ n3 :> "setup" @@ n4 :> "profile"
MCAgentSkills == a1 :> {l1}
MCAskKey == q1 :> e1 @@ q2 :> e1 @@ q3 :> e2
MCKnKind == k1 :> "tool" @@ k2 :> "tool" @@ k3 :> "index" @@ k4 :> "index" @@ k5 :> "distil"
MCKnContents == k1 :> <<f1>> @@ k2 :> <<f2>> @@ k3 :> <<d1, f3>> @@ k4 :> <<f1>> @@ k5 :> <<f4>>
MCKnUserOf == [k \in KnJobs |-> u1]
MCKnChannelOf == [k \in KnJobs |-> c1]
MCKnPoolOf == [k \in KnJobs |-> team]
MCWritable == [k \in KnJobs |-> IF k = k2 THEN {} ELSE {team}]
MCKnType == f1 :> fact @@ f2 :> taste @@ f3 :> fact @@ f4 :> fact @@ d1 :> fact
MCKnTypes == <<fact, taste>>
MCKnViews == {[of |-> "profile", user |-> u1, channel |-> Nowhere],
              [of |-> "bulletin", user |-> u1, channel |-> c1]}
KnTaking == {k \in KnJobs : step[k] # "done"}

allVars == <<pipelineVars, rateVars, mailboxVars, a2aVars, cmVars, lmVars, inVars,
             ccVars, uaVars, obVars, skVars, shVars, abVars, knVars, component>>

Init ==
  /\ component \in {"pipeline", "rate", "mailbox", "tasks", "compaction", "models",
                    "suggestions", "changes", "logins", "onboarding", "skills",
                    "shutdown", "asks", "knowledge"}
  /\ PipelineInit /\ RateInit /\ MailboxInit /\ A2AInit /\ CompactionInit
  /\ LlmInit /\ InsightsInit /\ ChangeControlInit /\ UserAuthInit
  /\ OnboardingInit /\ SkillsInit /\ ShutdownInit /\ AgentBusInit
  /\ KnowledgeInit /\ KnTaking \in {{}, {k1, k2}, {k1, k3}, {k3, k4}, {k3, k5}}
  \* The others begin in one way only.
  /\ component = "changes" \/ (included = {} /\ excluded = {})
  /\ component = "logins" \/ row = NoRow
  /\ component = "onboarding" \/ (orgDone /\ roles = {})
  /\ component = "knowledge" \/ KnTaking = {}

Next ==
  /\ UNCHANGED component
  /\ IF component = "pipeline" THEN PipelineNext ELSE UNCHANGED pipelineVars
  /\ IF component = "rate" THEN RateNext ELSE UNCHANGED rateVars
  /\ IF component = "mailbox" THEN MailboxNext ELSE UNCHANGED mailboxVars
  /\ IF component = "tasks" THEN A2ANext ELSE UNCHANGED a2aVars
  /\ IF component = "compaction" THEN CompactionNext ELSE UNCHANGED cmVars
  /\ IF component = "models" THEN LlmNext ELSE UNCHANGED lmVars
  /\ IF component = "suggestions" THEN InsightsNext ELSE UNCHANGED inVars
  /\ IF component = "changes" THEN ChangeControlNext ELSE UNCHANGED ccVars
  /\ IF component = "logins" THEN UserAuthNext ELSE UNCHANGED uaVars
  /\ IF component = "onboarding" THEN OnboardingNext ELSE UNCHANGED obVars
  /\ IF component = "skills" THEN SkillsNext ELSE UNCHANGED skVars
  /\ IF component = "shutdown" THEN ShutdownNext ELSE UNCHANGED shVars
  /\ IF component = "asks" THEN AgentBusNext ELSE UNCHANGED abVars
  /\ IF component = "knowledge" THEN KnowledgeNext ELSE UNCHANGED knVars

Spec == Init /\ [][Next]_allVars

\* The components keep their types.
TypeOK ==
  /\ PipelineTypeOK /\ RateTypeOK /\ MailboxTypeOK /\ A2ATypeOK /\ CompactionTypeOK
  /\ LlmTypeOK /\ InsightsTypeOK /\ ChangeControlTypeOK /\ UserAuthTypeOK
  /\ OnboardingTypeOK /\ SkillsTypeOK /\ ShutdownTypeOK /\ AgentBusTypeOK
  /\ KnowledgeTypeOK

\* What is rationed is not given out more often than allowed, whatever overlaps,
\* fails or restarts: restores of a message, suggestions of a day, requests of a
\* minute.
RationsKept == RestoresBounded /\ SuggestionsBounded /\ ModerateKept
=============================================================================
