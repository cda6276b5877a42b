------------------------------- MODULE Insights -------------------------------
(***************************************************************************)
(* Proactive suggestions: observer/insight-store.js, where detected        *)
(* insights wait, and process of observer/proactive-engine.js, which a     *)
(* timer of observer/index.js starts again and again and nobody waits for, *)
(* so that calls overlap.  A call takes a snapshot of the pending insights *)
(* and works it off; each insight costs a place of the budget of the day,  *)
(* and is posted to its channel unless the channel had a suggestion within *)
(* the cooldown.  The ActionRouter between them finds no leader, since the *)
(* entity memory it is given has no findByType, and is one await.  Whether *)
(* the channel is enabled and the confidence is high enough is a constant  *)
(* of the insight; the post succeeds or fails.                             *)
(*                                                                         *)
(* An operator named Bug... is a plausible wrong version of the definition *)
(* that follows it and is used nowhere in the specification.               *)
(***************************************************************************)
EXTENDS Naturals, FiniteSets, SeqFilters, SequencesExt

CONSTANTS InIds,       \* identifiers, one for each insight that is stored
          InOrder,     \* the identifiers as a sequence of falling confidence
          TopicOf,     \* identifier |-> channel, type and content as one value
          ChannelOfInsight, \* identifier |-> channel
          Confident,   \* identifiers whose channel is on, confidence high
          MaxInsights, \* InsightStore.maxInsights
          InsightTtl,  \* InsightStore.ttlMs in ticks
          MaxDaily,    \* the budget of a day, config maxDailySuggestions
          InCooldown,  \* ProactiveEngine.cooldownMs in ticks
          DayLength,   \* ticks of a day
          InCalls,     \* calls of process
          InHorizon    \* bound on the ticks of a behaviour

ASSUME InsightsAssumption ==
  /\ InOrder \in Seq(InIds) /\ Confident \subseteq InIds
  /\ MaxInsights \in Nat \ {0} /\ DayLength \in Nat \ {0}
  /\ MaxDaily \in Nat /\ InCooldown \in Nat /\ InsightTtl \in Nat
  /\ IsFiniteSet(InCalls) /\ InHorizon \in Nat

VARIABLES inNow,       \* time in ticks
          store,       \* the stored identifiers, oldest first
          status,      \* identifier |-> its status, "new" before it is stored
          createdAt,   \* identifier |-> when it was stored
          budgetDay,   \* sharedDailyBudget.resetDate
          budgetCount, \* sharedDailyBudget.count
          lastPost,    \* channel |-> time of the last suggestion, or "never"
          todo,        \* call |-> insights of its snapshot still to process
          inAt,        \* call |-> "idle", "looping", "routing" or "posting"
          paidFor,     \* call |-> day whose budget its insight used (history)
          posts        \* day |-> posts paid from its budget (history)

storeVars == <<store, status, createdAt>>
budgetVars == <<budgetDay, budgetCount>>
callVars == <<todo, inAt>>
inVars == <<inNow, storeVars, budgetVars, lastPost, callVars, paidFor, posts>>

Channels == {ChannelOfInsight[i] : i \in InIds}
Today == inNow \div DayLength
Days == 0 .. InHorizon \div DayLength

InsightsInit ==
  /\ inNow = 0
  /\ store = << >>
  /\ status = [i \in InIds |-> "new"] /\ createdAt = [i \in InIds |-> 0]
  /\ budgetDay = 0 /\ budgetCount = 0
  /\ lastPost = [c \in Channels |-> 0]
  /\ todo = [p \in InCalls |-> << >>]
  /\ inAt = [p \in InCalls |-> "idle"]
  /\ paidFor = [p \in InCalls |-> 0]
  /\ posts = [d \in Days |-> 0]

-----------------------------------------------------------------------------
\* InsightStore.add: an insight of a stored topic is merged into it; a full
\* store drops its oldest.
AddInsight(i) ==
  /\ status[i] = "new"
  /\ \A k \in DOMAIN store : TopicOf[store[k]] # TopicOf[i]
  /\ store' = Append(IF Len(store) >= MaxInsights THEN Tail(store) ELSE store, i)
  /\ status' = [status EXCEPT ![i] = "pending"]
  /\ createdAt' = [createdAt EXCEPT ![i] = inNow]
  /\ UNCHANGED <<inNow, budgetVars, lastPost, callVars, paidFor, posts>>

\* updateStatus: without effect when the insight has left the store.
Updated(i, s) ==
  IF Contains(store, i) THEN [status EXCEPT ![i] = s] ELSE status

\* The reactions of users to a suggestion
Feedback(i) ==
  /\ Contains(store, i) /\ status[i] = "proposed"
  /\ \E s \in {"accepted", "dismissed"} : status' = Updated(i, s)
  /\ UNCHANGED <<inNow, store, createdAt, budgetVars, lastPost, callVars,
                 paidFor, posts>>

\* _expireOld removes the pending insights whose time is over.
Alive(i) == status[i] = "pending" => inNow <= createdAt[i] + InsightTtl

\* The timer starts process, which takes the pending insights that are left.
StartProcess(p) ==
  /\ inAt[p] = "idle"
  /\ store' = Only(store, {i \in InIds : Alive(i)})
  /\ todo' = [todo EXCEPT ![p] = Only(InOrder, {i \in InIds :
                Contains(store, i) /\ Alive(i) /\ status[i] = "pending"})]
  /\ inAt' = [inAt EXCEPT ![p] = "looping"]
  /\ UNCHANGED <<inNow, status, createdAt, budgetVars, lastPost, paidFor, posts>>

NextInsight(p) == todo' = [todo EXCEPT ![p] = Tail(@)]

BugTryConsume(taken) ==
  LET used == IF budgetDay = Today THEN budgetCount ELSE 0
  IN /\ budgetDay' = Today
     /\ taken = (used < MaxDaily)
     /\ budgetCount' = used

\* tryConsume: a new day empties the budget, then a place is taken if there
\* is one.
TryConsume(taken) ==
  LET used == IF budgetDay = Today THEN budgetCount ELSE 0
  IN /\ budgetDay' = Today
     /\ taken = (used < MaxDaily)
     /\ budgetCount' = IF taken THEN used + 1 ELSE used

\* An insight of a channel that is off, or of low confidence, is only logged.
LogSilently(p) ==
  /\ inAt[p] = "looping" /\ todo[p] # << >>
  /\ Head(todo[p]) \notin Confident
  /\ status' = Updated(Head(todo[p]), "logged")
  /\ NextInsight(p)
  /\ UNCHANGED <<inNow, store, createdAt, budgetVars, lastPost, inAt, paidFor,
                 posts>>

\* The budget comes before the cooldown: an insight that the cooldown stops has
\* used its place.
Consider(p) ==
  /\ inAt[p] = "looping" /\ todo[p] # << >>
  /\ Head(todo[p]) \in Confident
  /\ \E taken \in BOOLEAN :
       /\ TryConsume(taken)
       /\ LET ch == ChannelOfInsight[Head(todo[p])]
              cooling == lastPost[ch] > 0 /\ inNow + 1 - lastPost[ch] < InCooldown
          IN IF taken /\ ~cooling
             THEN /\ inAt' = [inAt EXCEPT ![p] = "routing"]
                  /\ paidFor' = [paidFor EXCEPT ![p] = Today]
                  /\ UNCHANGED todo
             ELSE NextInsight(p) /\ UNCHANGED <<inAt, paidFor>>
  /\ UNCHANGED <<inNow, storeVars, lastPost, posts>>

\* ActionRouter.route returns, without a leader.
Routed(p) ==
  /\ inAt[p] = "routing"
  /\ inAt' = [inAt EXCEPT ![p] = "posting"]
  /\ UNCHANGED <<inNow, storeVars, budgetVars, lastPost, todo, paidFor, posts>>

Posted(p) ==
  /\ inAt[p] = "posting"
  /\ status' = Updated(Head(todo[p]), "proposed")
  /\ lastPost' = [lastPost EXCEPT ![ChannelOfInsight[Head(todo[p])]] = inNow + 1]
  /\ posts' = [posts EXCEPT ![paidFor[p]] = @ + 1]
  /\ inAt' = [inAt EXCEPT ![p] = "looping"]
  /\ NextInsight(p)
  /\ UNCHANGED <<inNow, store, createdAt, budgetVars, paidFor>>

PostFails(p) ==
  /\ inAt[p] = "posting"
  /\ status' = Updated(Head(todo[p]), "logged")
  /\ inAt' = [inAt EXCEPT ![p] = "looping"]
  /\ NextInsight(p)
  /\ UNCHANGED <<inNow, store, createdAt, budgetVars, lastPost, paidFor, posts>>

EndProcess(p) ==
  /\ inAt[p] = "looping" /\ todo[p] = << >>
  /\ inAt' = [inAt EXCEPT ![p] = "idle"]
  /\ UNCHANGED <<inNow, storeVars, budgetVars, lastPost, todo, paidFor, posts>>

InsightsTick ==
  /\ inNow < InHorizon
  /\ inNow' = inNow + 1
  /\ UNCHANGED <<storeVars, budgetVars, lastPost, callVars, paidFor, posts>>

InsightsNext ==
  \/ \E i \in InIds : AddInsight(i) \/ Feedback(i)
  \/ \E p \in InCalls : \/ StartProcess(p) \/ LogSilently(p) \/ Consider(p)
                        \/ Routed(p) \/ Posted(p) \/ PostFails(p) \/ EndProcess(p)
  \/ InsightsTick

-----------------------------------------------------------------------------
InsightsTypeOK ==
  /\ inNow \in 0 .. InHorizon
  /\ store \in Seq(InIds) /\ Len(store) <= MaxInsights
  /\ status \in [InIds -> {"new", "pending", "logged", "proposed", "accepted",
                           "dismissed"}]
  /\ createdAt \in [InIds -> 0 .. InHorizon]
  /\ budgetDay \in Days /\ budgetCount \in 0 .. MaxDaily
  /\ lastPost \in [Channels -> 0 .. InHorizon + 1]
  /\ todo \in [InCalls -> Seq(InIds)]
  /\ inAt \in [InCalls -> {"idle", "looping", "routing", "posting"}]
  /\ paidFor \in [InCalls -> Days] /\ posts \in [Days -> Nat]

\* No day pays for more suggestions than its budget, although calls of process
\* overlap and a post may come after midnight (tryConsume, _processOne).
SuggestionsBounded == \A d \in Days : posts[d] <= MaxDaily
=============================================================================
