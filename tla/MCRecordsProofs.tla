--------------------------- MODULE MCRecordsProofs ---------------------------
(***************************************************************************)
(* The process that holds the components of MCRecords, for any messages,   *)
(* calls, users, jobs and limits.  First, what is rationed is given out no *)
(* more often than allowed: restores, suggestions, requests.  An invariant *)
(* of each says what the count it keeps stands for: the budget of a day    *)
(* for what was posted and what is on its way, the retries of a row for    *)
(* its restores, and a window for the last requests of the log.  Then, all *)
(* components keep their types, most of which are not inductive either.    *)
(***************************************************************************)
EXTENDS MCRecords, RecordsProofs, GatewayPipelineProofs, SeqFilterTheorems,
        FiniteSetTheorems

-----------------------------------------------------------------------------
(* Suggestions: the places of the day's budget cover what has been posted   *)
(* and what is on its way to be.                                            *)

\* The calls whose suggestion was paid from the budget of that day.
Underway(places, paid, d) == {c \in InCalls : places[c] \in {"routing", "posting"} /\ paid[c] = d}

\* The places of a day's budget that have been taken: all, for all we know, of a day
\* that is over.
Spent(d) == IF d = budgetDay THEN budgetCount ELSE IF d > budgetDay THEN 0 ELSE MaxDaily

SuggestInv ==
  /\ inNow \in 0 .. InHorizon
  /\ budgetDay \in 0 .. Today /\ budgetCount \in 0 .. MaxDaily
  /\ inAt \in [InCalls -> {"idle", "looping", "routing", "posting"}]
  /\ paidFor \in [InCalls -> Days] /\ posts \in [Days -> Nat]
  /\ \A d \in Days : posts[d] + Cardinality(Underway(inAt, paidFor, d)) <= Spent(d)

\* The day of an instant: the whole days before it.
LEMMA DivFacts ==
  ASSUME NEW n \in Nat, NEW h \in Nat \ {0}
  PROVE  n \div h \in Nat /\ h * (n \div h) <= n /\ n < h * (n \div h) + h
OBVIOUS

\* A later instant is of no earlier day.
LEMMA DivGrows ==
  ASSUME NEW n \in Nat, NEW m \in Nat, NEW h \in Nat \ {0}, n <= m
  PROVE  n \div h <= m \div h
<1>1. PICK v \in Nat : v = n \div h
  BY DivFacts
<1>2. PICK w \in Nat : w = m \div h
  BY DivFacts
<1>3. h * v <= n /\ m < h * w + h
  BY <1>1, <1>2, DivFacts
<1>4. CASE v <= w
  BY <1>1, <1>2, <1>4
<1>5. CASE v >= w + 1
  <2>1. h * v >= h * (w + 1)
    BY <1>5
  <2>2. h * (w + 1) = h * w + h
    OBVIOUS
  <2> QED BY <1>3, <2>1, <2>2
<1> QED BY <1>4, <1>5

\* Today is a day of the horizon, and no day comes before it again.
LEMMA TodayFacts ==
  ASSUME inNow \in 0 .. InHorizon
  PROVE  /\ Today \in Nat /\ Today \in Days /\ InHorizon \div DayLength \in Nat
         /\ inNow < InHorizon => (inNow + 1) \div DayLength \in Nat /\ Today <= (inNow + 1) \div DayLength
<1>1. inNow \in Nat /\ InHorizon \in Nat /\ DayLength \in Nat \ {0} /\ inNow + 1 \in Nat
      /\ inNow <= InHorizon /\ inNow <= inNow + 1
  BY InsightsAssumption
<1>2. Today \in Nat /\ InHorizon \div DayLength \in Nat /\ (inNow + 1) \div DayLength \in Nat
  BY <1>1, DivFacts DEF Today
<1>3. Today <= InHorizon \div DayLength /\ Today <= (inNow + 1) \div DayLength
  BY <1>1, DivGrows DEF Today
<1> QED BY <1>2, <1>3 DEF Days

\* The calls are finitely many.
LEMMA UnderwayFinite ==
  ASSUME NEW places, NEW paid, NEW d
  PROVE  IsFiniteSet(Underway(places, paid, d)) /\ Cardinality(Underway(places, paid, d)) \in Nat
BY InsightsAssumption, FS_Subset, FS_CardinalityType DEF Underway

\* Nothing is spent at the start.
LEMMA SuggestionsStart == InsightsInit => SuggestInv
<1> SUFFICES ASSUME InsightsInit PROVE SuggestInv
  OBVIOUS
<1>1. inNow = 0 /\ inNow \in 0 .. InHorizon
  BY InsightsAssumption DEF InsightsInit
<1>2. Today \in Nat /\ InHorizon \div DayLength \in Nat /\ 0 \in Days
  BY <1>1, TodayFacts DEF Days
<1>3. \A d \in Days : Underway(inAt, paidFor, d) = {}
  BY DEF Underway, InsightsInit
<1>4. Cardinality({}) = 0
  BY FS_EmptySet
<1>5. \A d \in Days : 0 <= Spent(d)
  BY InsightsAssumption DEF Spent, InsightsInit
<1>6. \A d \in Days : posts[d] = 0
  BY DEF InsightsInit
<1>7. budgetDay \in 0 .. Today /\ budgetCount \in 0 .. MaxDaily
  BY <1>2, InsightsAssumption DEF InsightsInit
<1>8. /\ inAt \in [InCalls -> {"idle", "looping", "routing", "posting"}]
      /\ paidFor \in [InCalls -> Days] /\ posts \in [Days -> Nat]
  BY <1>2 DEF InsightsInit
<1>9. \A d \in Days : posts[d] + Cardinality(Underway(inAt, paidFor, d)) <= Spent(d)
  BY <1>3, <1>4, <1>5, <1>6
<1> QED BY <1>1, <1>7, <1>8, <1>9 DEF SuggestInv

\* A step on which no call becomes one that is on its way to post spends nothing.
LEMMA PostsKeep ==
  ASSUME SuggestInv, UNCHANGED <<inNow, budgetDay, budgetCount>>,
         inAt' \in [InCalls -> {"idle", "looping", "routing", "posting"}],
         paidFor' = paidFor, posts' = posts,
         \A c \in InCalls : inAt'[c] \in {"routing", "posting"} => inAt[c] \in {"routing", "posting"}
  PROVE  SuggestInv'
<1>1. ASSUME NEW d \in Days
      PROVE  posts[d] + Cardinality(Underway(inAt', paidFor', d)) <= Spent(d)
  <2>1. Underway(inAt', paidFor', d) \subseteq Underway(inAt, paidFor, d)
    BY DEF Underway
  <2>2. Cardinality(Underway(inAt', paidFor', d)) <= Cardinality(Underway(inAt, paidFor, d))
    BY <2>1, UnderwayFinite, FS_Subset
  <2>3. posts[d] \in Nat /\ posts[d] + Cardinality(Underway(inAt, paidFor, d)) <= Spent(d)
    BY DEF SuggestInv
  <2>4. Spent(d) \in Nat
    BY InsightsAssumption DEF Spent, SuggestInv
  <2> QED BY <2>2, <2>3, <2>4, UnderwayFinite
<1> QED BY <1>1 DEF SuggestInv, Spent, Today

\* A call is on its way to post only with a place of the budget of that day.
LEMMA ConsiderKeeps ==
  ASSUME SuggestInv, NEW c \in InCalls, Consider(c)
  PROVE  SuggestInv'
<1> DEFINE used == IF budgetDay = Today THEN budgetCount ELSE 0
<1>1. PICK taken \in BOOLEAN :
        /\ TryConsume(taken)
        /\ \/ ~ taken /\ UNCHANGED <<inAt, paidFor>>
           \/ taken /\ UNCHANGED <<inAt, paidFor>>
           \/ taken /\ inAt' = [inAt EXCEPT ![c] = "routing"] /\ paidFor' = [paidFor EXCEPT ![c] = Today]
  <2>1. ASSUME NEW taken \in BOOLEAN, NEW cooling,
               IF taken /\ ~cooling
               THEN /\ inAt' = [inAt EXCEPT ![c] = "routing"]
                    /\ paidFor' = [paidFor EXCEPT ![c] = Today]
                    /\ UNCHANGED todo
               ELSE NextInsight(c) /\ UNCHANGED <<inAt, paidFor>>
        PROVE  \/ ~ taken /\ UNCHANGED <<inAt, paidFor>>
               \/ taken /\ UNCHANGED <<inAt, paidFor>>
               \/ taken /\ inAt' = [inAt EXCEPT ![c] = "routing"] /\ paidFor' = [paidFor EXCEPT ![c] = Today]
    BY <2>1
  <2> QED BY <2>1 DEF Consider
<1>2. inAt[c] = "looping" /\ inNow' = inNow /\ posts' = posts
  BY DEF Consider
<1>3. /\ inNow \in 0 .. InHorizon /\ Today \in Nat /\ Today \in Days /\ Today' = Today
      /\ InHorizon \div DayLength \in Nat
      /\ budgetDay \in 0 .. Today /\ budgetCount \in 0 .. MaxDaily /\ used \in 0 .. MaxDaily
  BY <1>2, TodayFacts, InsightsAssumption DEF SuggestInv, Today
<1>4. /\ budgetDay' = Today /\ taken = (used < MaxDaily)
      /\ budgetCount' = IF taken THEN used + 1 ELSE used
  BY <1>1 DEF TryConsume
<1> HIDE DEF used
<1>5. budgetCount' \in 0 .. MaxDaily
  <2>1. CASE used < MaxDaily
    BY <1>3, <1>4, <2>1, InsightsAssumption
  <2>2. CASE ~ (used < MaxDaily)
    BY <1>3, <1>4, <2>2, InsightsAssumption
  <2> QED BY <2>1, <2>2
<1>6. /\ inAt' \in [InCalls -> {"idle", "looping", "routing", "posting"}]
      /\ paidFor' \in [InCalls -> Days]
  BY <1>1, <1>3 DEF SuggestInv
<1>7. ASSUME NEW d \in Days
      PROVE  posts[d] + Cardinality(Underway(inAt', paidFor', d)) <= Spent(d)'
  <2>1. /\ posts[d] \in Nat /\ posts[d] + Cardinality(Underway(inAt, paidFor, d)) <= Spent(d)
        /\ d \in Nat /\ Spent(d) \in Nat /\ Cardinality(Underway(inAt, paidFor, d)) \in Nat
    <3>1. posts[d] \in Nat /\ posts[d] + Cardinality(Underway(inAt, paidFor, d)) <= Spent(d)
      BY DEF SuggestInv
    <3>2. d \in Nat
      BY <1>3 DEF Days
    <3>3. Spent(d) \in Nat
      BY <1>3, InsightsAssumption DEF Spent
    <3> QED BY <3>1, <3>2, <3>3, UnderwayFinite
  <2>2. d # Today => Spent(d) <= Spent(d)'
    BY <1>3, <1>4, <2>1, InsightsAssumption DEF Spent
  <2>3. d = Today => Spent(d) = used /\ Spent(d)' = budgetCount'
    BY <1>3, <1>4, InsightsAssumption DEF Spent, used
  <2>4. CASE UNCHANGED <<inAt, paidFor>>
    <3>1. Underway(inAt', paidFor', d) = Underway(inAt, paidFor, d)
      BY <2>4
    <3>2. Spent(d) <= Spent(d)'
      BY <1>3, <1>4, <2>2, <2>3
    <3>3. Spent(d)' \in Nat
      BY <1>3, <1>4, <1>5, InsightsAssumption DEF Spent
    <3> QED BY <2>1, <3>1, <3>2, <3>3
  <2>5. CASE taken /\ inAt' = [inAt EXCEPT ![c] = "routing"] /\ paidFor' = [paidFor EXCEPT ![c] = Today]
    <3>1. CASE d # Today
      <4>1. Underway(inAt', paidFor', d) = Underway(inAt, paidFor, d)
        BY <1>2, <2>5, <3>1 DEF SuggestInv, Underway
      <4>2. Spent(d)' \in Nat
        BY <1>3, <1>4, <1>5, InsightsAssumption DEF Spent
      <4> QED BY <2>1, <2>2, <3>1, <4>1, <4>2
    <3>2. CASE d = Today
      <4>1. Underway(inAt', paidFor', d) = Underway(inAt, paidFor, d) \cup {c}
            /\ c \notin Underway(inAt, paidFor, d)
        BY <1>2, <2>5, <3>2 DEF SuggestInv, Underway
      <4>2. Cardinality(Underway(inAt', paidFor', d)) = Cardinality(Underway(inAt, paidFor, d)) + 1
        BY <4>1, UnderwayFinite, FS_AddElement
      <4>3. Spent(d)' = Spent(d) + 1
        BY <1>4, <2>3, <2>5, <3>2
      <4> QED BY <2>1, <4>2, <4>3
    <3> QED BY <3>1, <3>2
  <2> QED BY <1>1, <2>4, <2>5
<1>8. budgetDay' \in 0 .. Today' /\ inNow' \in 0 .. InHorizon
  BY <1>2, <1>3, <1>4
<1>9. posts' \in [Days -> Nat] /\ \A d \in Days : posts'[d] = posts[d]
  BY <1>2 DEF SuggestInv
<1> QED BY <1>5, <1>6, <1>7, <1>8, <1>9 DEF SuggestInv

\* A post takes the place of the call that made it.
LEMMA PostedKeeps ==
  ASSUME SuggestInv, NEW c \in InCalls, Posted(c)
  PROVE  SuggestInv'
<1>1. /\ inAt[c] = "posting" /\ inAt' = [inAt EXCEPT ![c] = "looping"]
      /\ posts' = [posts EXCEPT ![paidFor[c]] = @ + 1] /\ paidFor' = paidFor
      /\ inNow' = inNow /\ budgetDay' = budgetDay /\ budgetCount' = budgetCount
  BY DEF Posted, budgetVars
<1>2. /\ inAt \in [InCalls -> {"idle", "looping", "routing", "posting"}]
      /\ paidFor \in [InCalls -> Days] /\ posts \in [Days -> Nat]
  BY DEF SuggestInv
<1>3. ASSUME NEW d \in Days
      PROVE  posts'[d] + Cardinality(Underway(inAt', paidFor', d)) <= Spent(d)
  <2>1. posts[d] \in Nat /\ posts[d] + Cardinality(Underway(inAt, paidFor, d)) <= Spent(d)
        /\ Cardinality(Underway(inAt, paidFor, d)) \in Nat
    BY UnderwayFinite DEF SuggestInv
  <2>2. CASE d # paidFor[c]
    <3>1. Underway(inAt', paidFor', d) = Underway(inAt, paidFor, d) /\ posts'[d] = posts[d]
      BY <1>1, <1>2, <2>2 DEF Underway
    <3> QED BY <2>1, <3>1
  <2>3. CASE d = paidFor[c]
    <3>1. Underway(inAt', paidFor', d) = Underway(inAt, paidFor, d) \ {c}
          /\ c \in Underway(inAt, paidFor, d) /\ posts'[d] = posts[d] + 1
      BY <1>1, <1>2, <2>3 DEF Underway
    <3>2. Cardinality(Underway(inAt', paidFor', d)) = Cardinality(Underway(inAt, paidFor, d)) - 1
      BY <3>1, UnderwayFinite, FS_RemoveElement
    <3> QED BY <2>1, <3>1, <3>2
  <2> QED BY <2>2, <2>3
<1>4. posts' \in [Days -> Nat] /\ inAt' \in [InCalls -> {"idle", "looping", "routing", "posting"}]
  BY <1>1, <1>2
<1> QED BY <1>1, <1>2, <1>3, <1>4 DEF SuggestInv, Spent, Today

\* Every step keeps the budget.
LEMMA SuggestionsSteps == SuggestInv /\ [InsightsNext]_inVars => SuggestInv'
<1> SUFFICES ASSUME SuggestInv, [InsightsNext]_inVars PROVE SuggestInv'
  OBVIOUS
<1>0. inAt \in [InCalls -> {"idle", "looping", "routing", "posting"}]
  BY DEF SuggestInv
<1>1. CASE UNCHANGED <<inNow, budgetDay, budgetCount, inAt, paidFor, posts>>
  BY <1>0, <1>1, PostsKeep
<1>2. ASSUME NEW i \in InIds, AddInsight(i) \/ Feedback(i) PROVE SuggestInv'
  BY <1>1, <1>2 DEF AddInsight, Feedback, budgetVars, callVars
<1>3. ASSUME NEW c \in InCalls, LogSilently(c) PROVE SuggestInv'
  BY <1>1, <1>3 DEF LogSilently, budgetVars
<1>4. ASSUME NEW c \in InCalls, StartProcess(c) \/ Routed(c) \/ PostFails(c) \/ EndProcess(c) PROVE SuggestInv'
  <2>1. /\ UNCHANGED <<inNow, budgetDay, budgetCount>> /\ paidFor' = paidFor /\ posts' = posts
        /\ \/ inAt' = [inAt EXCEPT ![c] = "looping"]
           \/ inAt[c] = "routing" /\ inAt' = [inAt EXCEPT ![c] = "posting"]
           \/ inAt' = [inAt EXCEPT ![c] = "idle"]
    BY <1>4 DEF StartProcess, Routed, PostFails, EndProcess, budgetVars
  <2>2. inAt' \in [InCalls -> {"idle", "looping", "routing", "posting"}]
    BY <1>0, <2>1
  <2>3. \A e \in InCalls : inAt'[e] \in {"routing", "posting"} => inAt[e] \in {"routing", "posting"}
    BY <1>0, <2>1
  <2> QED BY <2>1, <2>2, <2>3, PostsKeep
<1>5. ASSUME NEW c \in InCalls, Consider(c) PROVE SuggestInv'
  BY <1>5, ConsiderKeeps
<1>6. ASSUME NEW c \in InCalls, Posted(c) PROVE SuggestInv'
  BY <1>6, PostedKeeps
<1>7. CASE InsightsTick
  <2>1. inNow < InHorizon /\ inNow' = inNow + 1
        /\ UNCHANGED <<budgetDay, budgetCount, inAt, paidFor, posts>>
    BY <1>7 DEF InsightsTick, budgetVars, callVars
  <2>2. inNow \in 0 .. InHorizon /\ budgetDay \in 0 .. Today /\ Today \in Nat
    BY TodayFacts DEF SuggestInv
  <2>3. Today' \in Nat /\ Today <= Today'
    BY <2>1, <2>2, TodayFacts DEF Today
  <2>4. budgetDay \in 0 .. Today' /\ inNow' \in 0 .. InHorizon
    BY <2>1, <2>2, <2>3, InsightsAssumption
  <2> QED BY <2>1, <2>4 DEF SuggestInv, Spent, Underway
<1>8. CASE UNCHANGED inVars
  BY <1>1, <1>8 DEF inVars, budgetVars, callVars
<1> QED BY <1>2, <1>3, <1>4, <1>5, <1>6, <1>7, <1>8 DEF InsightsNext

\* No more is posted than the budget has places.
LEMMA SuggestionsHold == SuggestInv => SuggestionsBounded
<1> SUFFICES ASSUME SuggestInv, NEW d \in Days PROVE posts[d] <= MaxDaily
  BY DEF SuggestionsBounded
<1>1. posts[d] \in Nat /\ posts[d] + Cardinality(Underway(inAt, paidFor, d)) <= Spent(d)
      /\ Spent(d) \in 0 .. MaxDaily
  BY InsightsAssumption DEF SuggestInv, Spent
<1> QED BY <1>1, UnderwayFinite, InsightsAssumption

-----------------------------------------------------------------------------
(* Restores: a row is counted for each restore, and the rows that are still *)
(* to be treated have restores left.                                        *)

AllApart(s) == \A i, j \in 1 .. Len(s) : s[i] = s[j] => i = j

MbStatuses == {"none", "pending", "delivered", "dead_letter"}

RestoreInv ==
  /\ mbTable \in Seq(MbMessages) /\ AllApart(mbTable)
  /\ mbStatus \in [MbMessages -> MbStatuses]
  /\ \A i \in 1 .. Len(mbTable) : mbStatus[mbTable[i]] # "none"
  /\ mbRetryCount \in [MbMessages -> 0 .. MbMaxRetry] /\ mbRestored \in [MbMessages -> Nat]
  /\ \A m \in MbMessages : mbRestored[m] <= mbRetryCount[m]
  /\ mbRestoring \in Seq(MbMessages) /\ AllApart(mbRestoring)
  /\ \A i \in 1 .. Len(mbRestoring) : mbRetryCount[mbRestoring[i]] < MbMaxRetry

\* No row is counted at the start.
LEMMA RestoresStart == MailboxInit => RestoreInv
BY MailboxAssumption DEF MailboxInit, RestoreInv, AllApart, MbStatuses

\* The rest of the picked are others.
LEMMA RowTreated ==
  ASSUME RestoreInv, mbRestoring # << >>, NEW counted \in BOOLEAN,
         mbRetryCount' = IF counted THEN [mbRetryCount EXCEPT ![Head(mbRestoring)] = @ + 1] ELSE mbRetryCount,
         \/ mbRestored' = mbRestored
         \/ mbRestored' = [mbRestored EXCEPT ![Head(mbRestoring)] = @ + (IF counted THEN 1 ELSE 0)],
         mbRestoring' = Tail(mbRestoring), UNCHANGED <<mbTable, mbStatus>>
  PROVE  RestoreInv'
<1> DEFINE m == Head(mbRestoring)
<1>1. /\ mbRestoring \in Seq(MbMessages) /\ AllApart(mbRestoring) /\ Len(mbRestoring) \in Nat
      /\ mbRetryCount \in [MbMessages -> 0 .. MbMaxRetry] /\ mbRestored \in [MbMessages -> Nat]
      /\ \A k \in MbMessages : mbRestored[k] <= mbRetryCount[k]
      /\ \A i \in 1 .. Len(mbRestoring) : mbRetryCount[mbRestoring[i]] < MbMaxRetry
  BY DEF RestoreInv
<1>2. m = mbRestoring[1] /\ Len(mbRestoring) >= 1 /\ m \in MbMessages /\ mbRetryCount[m] < MbMaxRetry
  <2>1. mbRestoring \in Seq(MbMessages)
    BY <1>1
  <2>2. m = mbRestoring[1] /\ Len(mbRestoring) >= 1 /\ m \in MbMessages
    BY <2>1
  <2>3. 1 \in 1 .. Len(mbRestoring)
    BY <1>1, <2>2
  <2> QED BY <1>1, <2>2, <2>3
<1>3. PICK u \in Seq(MbMessages) : u = Tail(mbRestoring)
  <2>1. mbRestoring \in Seq(MbMessages)
    BY <1>1
  <2>2. Tail(mbRestoring) \in Seq(MbMessages)
    BY <2>1
  <2> QED BY <2>2
<1>4. /\ Len(u) = Len(mbRestoring) - 1 /\ Len(u) \in Nat
      /\ \A i \in 1 .. Len(u) : u[i] = mbRestoring[i + 1] /\ i + 1 \in 1 .. Len(mbRestoring)
                                /\ u[i] \in MbMessages
  <2>1. mbRestoring \in Seq(MbMessages)
    BY <1>1
  <2> QED BY <1>2, <1>3, <2>1
<1>5. \A i \in 1 .. Len(u) : u[i] # m
  <2>1. \A i \in 1 .. Len(u) : mbRestoring[i + 1] # mbRestoring[1]
    <3>1. TAKE i \in 1 .. Len(u)
    <3>2. i + 1 # 1 /\ 1 \in 1 .. Len(mbRestoring) /\ i + 1 \in 1 .. Len(mbRestoring)
      BY <1>1, <1>2, <1>4
    <3> QED BY <1>1, <3>2 DEF AllApart
  <2> QED BY <1>2, <1>4, <2>1
<1>6. AllApart(u)
  <2> SUFFICES ASSUME NEW i \in 1 .. Len(u), NEW j \in 1 .. Len(u), u[i] = u[j] PROVE i = j
    BY DEF AllApart
  <2>1. /\ i + 1 \in 1 .. Len(mbRestoring) /\ j + 1 \in 1 .. Len(mbRestoring)
        /\ mbRestoring[i + 1] = mbRestoring[j + 1]
    BY <1>4
  <2>2. i + 1 = j + 1
    BY <1>1, <2>1 DEF AllApart
  <2> QED BY <1>4, <2>2
<1> HIDE DEF m
<1>7. mbRetryCount' \in [MbMessages -> 0 .. MbMaxRetry] /\ mbRestored' \in [MbMessages -> Nat]
  <2>1. mbRetryCount[m] + 1 \in 0 .. MbMaxRetry /\ mbRestored[m] + 1 \in Nat /\ mbRestored[m] + 0 \in Nat
    BY <1>1, <1>2, MailboxAssumption
  <2>2. CASE counted
    BY <1>1, <2>1, <2>2 DEF m
  <2>3. CASE ~ counted
    BY <1>1, <2>1, <2>3 DEF m
  <2> QED BY <2>2, <2>3
<1>8. \A k \in MbMessages : mbRestored'[k] <= mbRetryCount'[k]
  <2>1. TAKE k \in MbMessages
  <2>2. mbRestored[k] \in Nat /\ mbRetryCount[k] \in Nat /\ mbRestored[k] <= mbRetryCount[k]
    BY <1>1
  <2>3. CASE counted
    BY <1>1, <2>2, <2>3 DEF m
  <2>4. CASE ~ counted
    BY <1>1, <2>2, <2>4 DEF m
  <2> QED BY <2>3, <2>4
<1>9. \A i \in 1 .. Len(u) : mbRetryCount'[u[i]] < MbMaxRetry
  <2>1. \A k \in MbMessages : k # m => mbRetryCount'[k] = mbRetryCount[k]
    BY <1>1 DEF m
  <2>2. TAKE i \in 1 .. Len(u)
  <2>3. u[i] = mbRestoring[i + 1] /\ i + 1 \in 1 .. Len(mbRestoring) /\ u[i] # m /\ u[i] \in MbMessages
    BY <1>4, <1>5
  <2>4. mbRetryCount[mbRestoring[i + 1]] < MbMaxRetry
    BY <1>1, <2>3
  <2>5. mbRetryCount'[u[i]] = mbRetryCount[u[i]]
    BY <2>1, <2>3
  <2> QED BY <2>3, <2>4, <2>5
<1>10. mbRestoring' = u
  BY <1>3
<1> QED BY <1>3, <1>6, <1>7, <1>8, <1>9, <1>10 DEF RestoreInv

\* A restart picks rows that have restores left, each once.
LEMMA RestartKeeps ==
  ASSUME RestoreInv, MailboxRestart
  PROVE  RestoreInv'
<1>1. mbTable' = mbTable /\ mbRetryCount' = mbRetryCount /\ mbRestored' = mbRestored
  BY DEF MailboxRestart
<1>2. /\ mbTable \in Seq(MbMessages) /\ AllApart(mbTable)
      /\ mbStatus \in [MbMessages -> MbStatuses]
      /\ \A i \in 1 .. Len(mbTable) : mbStatus[mbTable[i]] # "none"
      /\ mbRetryCount \in [MbMessages -> 0 .. MbMaxRetry]
  BY DEF RestoreInv
<1>3. CASE UNCHANGED mbStatus /\ mbRestoring' = << >>
  BY <1>1, <1>3 DEF RestoreInv, AllApart
<1>4. CASE mbStatus' = [m \in MbMessages |-> IF m \in DeadLetters THEN "dead_letter" ELSE mbStatus[m]]
  <2> DEFINE S == {m \in MbMessages : mbStatus'[m] = "pending"}
             picked == Only(mbTable, S)
  <2>1. CASE mbRestoring' = << >>
    BY <1>1, <1>2, <1>4, <2>1 DEF RestoreInv, AllApart, MbStatuses
  <2>2. \A m \in S : m \in MbMessages /\ mbRetryCount[m] < MbMaxRetry
    BY <1>2, <1>4, MailboxAssumption DEF DeadLetters
  <2> HIDE DEF S
  <2>3. picked \in Seq(MbMessages) /\ AllApart(picked) /\ \A i \in 1 .. Len(picked) : picked[i] \in S
    BY <1>2, OnlyFacts, OnlyDistinct DEF AllApart
  <2> HIDE DEF picked
  <2>4. CASE mbRestoring' = IF Len(picked) > MbMaxQueue THEN SubSeq(picked, 1, MbMaxQueue) ELSE picked
    <3>1. PICK n \in 0 .. Len(picked) : mbRestoring' = SubSeq(picked, 1, n)
      <4>1. CASE Len(picked) > MbMaxQueue
        BY <2>3, <2>4, <4>1, MailboxAssumption
      <4>2. CASE ~ (Len(picked) > MbMaxQueue)
        <5>1. SubSeq(picked, 1, Len(picked)) = picked /\ Len(picked) \in 0 .. Len(picked)
          BY <2>3
        <5> QED BY <2>4, <4>2, <5>1
      <4> QED BY <4>1, <4>2
    <3>2. /\ mbRestoring' \in Seq(MbMessages) /\ Len(mbRestoring') = n
          /\ \A i \in 1 .. n : mbRestoring'[i] = picked[i] /\ i \in 1 .. Len(picked)
      BY <2>3, <3>1
    <3>3. AllApart(mbRestoring')
      BY <2>3, <3>2 DEF AllApart
    <3>4. \A i \in 1 .. Len(mbRestoring') : mbRetryCount[mbRestoring'[i]] < MbMaxRetry
      BY <2>2, <2>3, <3>2
    <3>5. mbStatus' \in [MbMessages -> MbStatuses] /\ \A i \in 1 .. Len(mbTable) : mbStatus'[mbTable[i]] # "none"
      BY <1>2, <1>4 DEF MbStatuses
    <3> QED BY <1>1, <1>2, <3>2, <3>3, <3>4, <3>5 DEF RestoreInv
  <2> QED BY <1>4, <2>1, <2>4 DEF MailboxRestart, picked, S
<1> QED BY <1>3, <1>4 DEF MailboxRestart

\* Every step of the mailbox keeps the count.
LEMMA RestoresSteps == RestoreInv /\ [MailboxNext]_mailboxVars => RestoreInv'
<1> SUFFICES ASSUME RestoreInv, [MailboxNext]_mailboxVars PROVE RestoreInv'
  OBVIOUS
<1>1. CASE UNCHANGED <<mbTable, mbStatus, mbRetryCount, mbRestoring, mbRestored>>
  BY <1>1 DEF RestoreInv
<1>2. ASSUME NEW m \in MbMessages, RowInserted(m) PROVE RestoreInv'
  <2>1. /\ mbStatus[m] = "none" /\ mbTable' = Append(mbTable, m)
        /\ mbStatus' = [mbStatus EXCEPT ![m] = "pending"]
        /\ UNCHANGED <<mbRetryCount, mbRestoring, mbRestored>>
    BY <1>2 DEF RowInserted
  <2>2. /\ mbTable \in Seq(MbMessages) /\ AllApart(mbTable) /\ Len(mbTable) \in Nat
        /\ mbStatus \in [MbMessages -> MbStatuses]
        /\ \A i \in 1 .. Len(mbTable) : mbStatus[mbTable[i]] # "none" /\ mbTable[i] \in MbMessages
    BY DEF RestoreInv
  <2>3. PICK u \in Seq(MbMessages) : u = Append(mbTable, m)
    <3>1. mbTable \in Seq(MbMessages)
      BY <2>2
    <3>2. Append(mbTable, m) \in Seq(MbMessages)
      BY <3>1
    <3> QED BY <3>2
  <2>4. /\ Len(u) = Len(mbTable) + 1 /\ u[Len(mbTable) + 1] = m
        /\ \A i \in 1 .. Len(mbTable) : u[i] = mbTable[i]
        /\ \A i \in 1 .. Len(u) : i \in 1 .. Len(mbTable) \/ i = Len(mbTable) + 1
    BY <2>2, <2>3
  <2>5. AllApart(u)
    BY <2>1, <2>2, <2>4 DEF AllApart
  <2>6. mbStatus' \in [MbMessages -> MbStatuses] /\ \A i \in 1 .. Len(u) : mbStatus'[u[i]] # "none"
    BY <2>1, <2>2, <2>4 DEF MbStatuses
  <2> QED BY <2>1, <2>3, <2>5, <2>6 DEF RestoreInv
<1>3. CASE MarkDelivered
  <2>1. PICK batch \in mbMarking :
          \/ mbStatus' = [mbStatus EXCEPT ![Head(batch)] = IF @ = "none" THEN @ ELSE "delivered"]
          \/ UNCHANGED mbStatus
    BY <1>3 DEF MarkDelivered
  <2>2. UNCHANGED <<mbTable, mbRetryCount, mbRestoring, mbRestored>>
    BY <1>3 DEF MarkDelivered
  <2>3. /\ mbStatus' \in [MbMessages -> MbStatuses]
        /\ \A m \in MbMessages : mbStatus[m] # "none" => mbStatus'[m] # "none"
    BY <2>1 DEF RestoreInv, MbStatuses
  <2>4. \A i \in 1 .. Len(mbTable) : mbTable[i] \in MbMessages
    BY DEF RestoreInv
  <2> QED BY <2>2, <2>3, <2>4 DEF RestoreInv
<1>4. ASSUME NEW counted \in BOOLEAN, Restored(counted) PROVE RestoreInv'
  BY <1>4, RowTreated DEF Restored
<1>5. ASSUME NEW counted \in BOOLEAN, RestoreSkips(counted) PROVE RestoreInv'
  BY <1>5, RowTreated DEF RestoreSkips
<1>6. CASE MailboxRestart
  BY <1>6, RestartKeeps
<1>7. ASSUME NEW m \in MbMessages, (\E persist \in BOOLEAN : Send(m, persist)) \/ InsertFailed(m) \/ MailboxReceive(MbTo[m])
      PROVE  RestoreInv'
  BY <1>1, <1>7 DEF Send, InsertFailed, MailboxReceive, mbRows
<1>8. CASE RetryPendingPersists \/ Clear \/ RestoreRow
  BY <1>1, <1>8 DEF RetryPendingPersists, Clear, RestoreRow, mbRows
<1>9. CASE UNCHANGED mailboxVars
  BY <1>1, <1>9 DEF mailboxVars, mbRows
<1> QED BY <1>2, <1>3, <1>4, <1>5, <1>6, <1>7, <1>8, <1>9 DEF MailboxNext

\* No message is restored more often than it is counted, nor counted beyond the limit.
LEMMA RestoresHold == RestoreInv => RestoresBounded
<1> SUFFICES ASSUME RestoreInv, NEW m \in MbMessages PROVE mbRestored[m] <= MbMaxRetry
  BY DEF RestoresBounded
<1>1. mbRestored[m] \in Nat /\ mbRetryCount[m] \in 0 .. MbMaxRetry /\ mbRestored[m] <= mbRetryCount[m]
  BY DEF RestoreInv
<1> QED BY <1>1, MailboxAssumption

-----------------------------------------------------------------------------
(* Requests of a minute: a user's window ends with the last l requests of   *)
(* the minute, as old as the log says, after what has expired.              *)
Covers(w, g, l) ==
  /\ l \in 0 .. Len(g) /\ l <= Len(w)
  /\ \A i \in 1 .. Len(w) - l : w[i] = Minute
  /\ \A i \in 1 .. l : w[Len(w) - l + i] = g[Len(g) - l + i].age

\* Who passed, when the window covers the last l requests of the log g.  It covers
\* all of them, and those that passed are among the first; or the array was cut, the
\* request that cut it passed as the last of the limit, and the others that passed
\* are so old that they and it are not of one minute within three times the limit.
Verdicts(g, l) ==
  \/ l = Len(g) /\ \A k \in 1 .. Len(g) : g[k].pass => k <= MaxPerMinute
  \/ /\ l < Len(g) /\ l >= MaxPerMinute
     /\ \A k \in 1 .. Len(g) : g[k].pass =>
          k = Len(g) - l + MaxPerMinute \/ k < Len(g) - l - MaxPerMinute

RateSound(w, g) ==
  /\ w \in Seq(Ages) /\ Len(w) <= 3 * MaxPerMinute
  /\ g \in Seq(RateEntries)
  /\ \A i, j \in 1 .. Len(g) : i < j => g[i].age >= g[j].age
  /\ \E l \in 0 .. Len(g) : Covers(w, g, l) /\ Verdicts(g, l)

\* What has not expired is as old as the log says.
LEMMA FreshCovers ==
  ASSUME NEW w \in Seq(Ages), NEW g \in Seq(RateEntries), NEW l, Covers(w, g, l)
  PROVE  /\ Fresh(w) \in Seq(Ages) /\ Len(Fresh(w)) = l
         /\ \A i \in 1 .. l : Fresh(w)[i] = g[Len(g) - l + i].age
<1>1. /\ Len(w) \in Nat /\ Len(g) \in Nat /\ l \in Nat /\ l <= Len(w) /\ l <= Len(g)
      /\ Minute \in Nat \ {0}
  BY RateAssumption DEF Covers
<1>2. PICK m \in Nat : m = Len(w) - l
  BY <1>1
<1>3. m \in 0 .. Len(w) /\ Len(w) - m = l
  BY <1>1, <1>2
<1>4. ASSUME NEW i \in 1 .. m PROVE w[i] \notin 0 .. Minute - 1
  <2>1. w[i] = Minute
    BY <1>2 DEF Covers
  <2> QED BY <1>1, <2>1
<1>5. ASSUME NEW i \in 1 .. l
      PROVE  w[m + i] = g[Len(g) - l + i].age /\ w[m + i] \in 0 .. Minute - 1
  <2>1. w[m + i] = g[Len(g) - l + i].age
    BY <1>2 DEF Covers
  <2>2. Len(g) - l + i \in 1 .. Len(g)
    BY <1>1
  <2>3. g[Len(g) - l + i] \in RateEntries
    BY <2>2
  <2> QED BY <2>1, <2>3 DEF RateEntries
<1>6. ASSUME NEW k \in m + 1 .. Len(w) PROVE w[k] \in 0 .. Minute - 1
  <2>1. k - m \in 1 .. l /\ m + (k - m) = k
    BY <1>1, <1>2
  <2>2. w[m + (k - m)] \in 0 .. Minute - 1
    BY <1>5, <2>1
  <2> QED BY <2>1, <2>2
<1>7. /\ Fresh(w) \in Seq(Ages) /\ Len(Fresh(w)) = Len(w) - m
      /\ \A i \in 1 .. Len(w) - m : Fresh(w)[i] = w[m + i]
  <2> DEFINE S == 0 .. Minute - 1
  <2>1. (\A i \in 1 .. m : w[i] \notin S) /\ \A i \in m + 1 .. Len(w) : w[i] \in S
    BY <1>4, <1>6
  <2>2. Fresh(w) = Only(w, S)
    BY DEF Fresh
  <2> HIDE DEF S
  <2>3. m \in 0 .. Len(w)
    BY <1>3
  <2>4. /\ Only(w, S) \in Seq(Ages) /\ Len(Only(w, S)) = Len(w) - m
        /\ \A i \in 1 .. Len(w) - m : Only(w, S)[i] = w[m + i]
    BY <2>1, <2>3, OnlySuffix
  <2> QED BY <2>2, <2>4
<1> QED BY <1>3, <1>5, <1>7

\* A window without what has expired.
LEMMA FreshKeeps ==
  ASSUME NEW w, NEW g, RateSound(w, g)
  PROVE  RateSound(Fresh(w), g)
<1>1. PICK l \in 0 .. Len(g) : Covers(w, g, l) /\ Verdicts(g, l)
  BY DEF RateSound
<1>2. w \in Seq(Ages) /\ g \in Seq(RateEntries) /\ Len(w) \in Nat /\ Len(w) <= 3 * MaxPerMinute
      /\ Len(g) \in Nat /\ l \in Nat /\ l <= Len(w) /\ MaxPerMinute \in Nat
  BY <1>1, RateAssumption DEF RateSound, Covers
<1>3. PICK f \in Seq(Ages) : f = Fresh(w) /\ Len(f) = l /\ \A i \in 1 .. l : f[i] = g[Len(g) - l + i].age
  <2>1. /\ Fresh(w) \in Seq(Ages) /\ Len(Fresh(w)) = l
        /\ \A i \in 1 .. l : Fresh(w)[i] = g[Len(g) - l + i].age
    BY <1>1, <1>2, FreshCovers
  <2> QED BY <2>1
<1>4. l - l = 0 /\ \A i \in 1 .. l : l - l + i = i
  BY <1>2
<1>5. Covers(f, g, l)
  BY <1>1, <1>2, <1>3, <1>4 DEF Covers
<1>6. Len(f) <= 3 * MaxPerMinute
  BY <1>2, <1>3
<1> QED BY <1>1, <1>3, <1>5, <1>6 DEF RateSound

\* The log of a request, made just now.
LEMMA LogGrows ==
  ASSUME NEW g \in Seq(RateEntries), NEW pass \in BOOLEAN,
         \A i, j \in 1 .. Len(g) : i < j => g[i].age >= g[j].age
  PROVE  LET h == Append(g, [age |-> 0, pass |-> pass]) IN
         /\ h \in Seq(RateEntries) /\ Len(h) = Len(g) + 1
         /\ h[Len(g) + 1].age = 0 /\ h[Len(g) + 1].pass = pass
         /\ \A i \in 1 .. Len(g) : h[i] = g[i]
         /\ \A i, j \in 1 .. Len(h) : i < j => h[i].age >= h[j].age
<1> DEFINE en == [age |-> 0, pass |-> pass]
           h == Append(g, en)
<1>1. en \in RateEntries /\ en.age = 0 /\ en.pass = pass
  BY RateAssumption DEF RateEntries
<1> HIDE DEF en
<1>2. /\ h \in Seq(RateEntries) /\ Len(h) = Len(g) + 1 /\ h[Len(g) + 1] = en
      /\ \A i \in 1 .. Len(g) : h[i] = g[i]
  BY <1>1, AppendProperties
<1> HIDE DEF h
<1>3. ASSUME NEW i \in 1 .. Len(h), NEW j \in 1 .. Len(h), i < j PROVE h[i].age >= h[j].age
  <2>0. Len(g) \in Nat
    OBVIOUS
  <2>1. i \in 1 .. Len(g) /\ h[i] = g[i] /\ g[i].age \in Nat
    <3>1. i \in 1 .. Len(g)
      BY <1>2, <1>3, <2>0
    <3>2. g[i] \in RateEntries
      BY <3>1
    <3> QED BY <1>2, <3>1, <3>2, RateAssumption DEF RateEntries
  <2>2. CASE j = Len(g) + 1
    BY <1>1, <1>2, <2>1, <2>2
  <2>3. CASE j # Len(g) + 1
    <3>1. j \in 1 .. Len(g)
      BY <1>2, <2>0, <2>3
    <3> QED BY <1>2, <1>3, <2>1, <3>1
  <2> QED BY <2>2, <2>3
<1> QED BY <1>1, <1>2, <1>3 DEF h, en

\* A request is noted, and the array is cut when it has become too long.
LEMMA CheckKeeps ==
  ASSUME NEW w, NEW g, RateSound(w, g)
  PROVE  RateSound(Noted(Fresh(w)),
                   Append(g, [age |-> 0, pass |-> Len(Noted(Fresh(w))) <= MaxPerMinute]))
<1>1. PICK l \in 0 .. Len(g) : Covers(w, g, l) /\ Verdicts(g, l)
  BY DEF RateSound
<1>2. w \in Seq(Ages) /\ g \in Seq(RateEntries) /\ Len(w) \in Nat /\ Len(w) <= 3 * MaxPerMinute
      /\ \A i, j \in 1 .. Len(g) : i < j => g[i].age >= g[j].age
  BY DEF RateSound
<1>3. /\ Len(g) \in Nat /\ l \in Nat /\ l <= 3 * MaxPerMinute /\ l <= Len(g)
      /\ MaxPerMinute \in Nat \ {0}
  BY <1>1, <1>2, RateAssumption DEF Covers
<1>4. PICK f \in Seq(Ages) : f = Fresh(w) /\ Len(f) = l /\ \A i \in 1 .. l : f[i] = g[Len(g) - l + i].age
  <2>1. /\ Fresh(w) \in Seq(Ages) /\ Len(Fresh(w)) = l
        /\ \A i \in 1 .. l : Fresh(w)[i] = g[Len(g) - l + i].age
    BY <1>1, <1>2, FreshCovers
  <2> QED BY <2>1
<1>5. 0 \in Ages
  BY RateAssumption DEF Ages
<1>6. PICK a \in Seq(Ages) : a = Append(f, 0)
  BY <1>5, AppendProperties
<1>7. Len(a) = l + 1 /\ a[l + 1] = 0 /\ \A i \in 1 .. l : a[i] = g[Len(g) - l + i].age
  BY <1>4, <1>5, <1>6, AppendProperties
<1>8. Cut(f) = f
  BY <1>3, <1>4 DEF Cut
<1>9. Noted(Fresh(w)) = Cut(a)
  BY <1>4, <1>6, <1>8 DEF Noted
<1>10. PICK pass \in BOOLEAN : pass = (Len(Cut(a)) <= MaxPerMinute)
  <2>1. (Len(Cut(a)) <= MaxPerMinute) \in BOOLEAN
    <3> DEFINE few == Len(Cut(a)) <= MaxPerMinute
    <3>1. few \in BOOLEAN
      BY SMT
    <3> QED BY <3>1
  <2> QED BY <2>1
<1>11. PICK h : h = Append(g, [age |-> 0, pass |-> pass])
  OBVIOUS
<1>12. /\ h \in Seq(RateEntries) /\ Len(h) = Len(g) + 1
       /\ h[Len(g) + 1].age = 0 /\ h[Len(g) + 1].pass = pass
       /\ \A i \in 1 .. Len(g) : h[i] = g[i]
       /\ \A i, j \in 1 .. Len(h) : i < j => h[i].age >= h[j].age
  BY <1>2, <1>11, LogGrows
<1>13. SUFFICES RateSound(Cut(a), h)
  BY <1>9, <1>10, <1>11
<1>14. \A k \in 1 .. Len(h) : k \in 1 .. Len(g) \/ k = Len(g) + 1
  BY <1>3, <1>12
<1>15. CASE l + 1 <= 3 * MaxPerMinute
  <2>1. Cut(a) = a /\ Len(a) <= 3 * MaxPerMinute
    BY <1>3, <1>7, <1>15 DEF Cut
  <2>2. Covers(a, h, l + 1)
    <3>1. l + 1 \in 0 .. Len(h) /\ l + 1 <= Len(a) /\ Len(a) - (l + 1) = 0
          /\ Len(h) - (l + 1) = Len(g) - l
      BY <1>3, <1>7, <1>12
    <3>2. ASSUME NEW i \in 1 .. l + 1 PROVE a[i] = h[Len(g) - l + i].age
      <4>1. CASE i = l + 1
        <5>1. Len(g) - l + i = Len(g) + 1
          BY <1>3, <4>1
        <5> QED BY <1>7, <1>12, <4>1, <5>1
      <4>2. CASE i # l + 1
        <5>1. i \in 1 .. l /\ Len(g) - l + i \in 1 .. Len(g)
          BY <1>3, <4>2
        <5> QED BY <1>7, <1>12, <5>1
      <4> QED BY <4>1, <4>2
    <3>3. \A i \in 1 .. l + 1 : 0 + i = i
      BY <1>3
    <3>4. \A i \in 1 .. l + 1 : a[Len(a) - (l + 1) + i] = h[Len(h) - (l + 1) + i].age
      BY <3>1, <3>2, <3>3
    <3>5. \A i \in 1 .. Len(a) - (l + 1) : a[i] = Minute
      BY <3>1
    <3> QED BY <3>1, <3>4, <3>5 DEF Covers
  <2>3. pass = (l + 1 <= MaxPerMinute)
    BY <1>7, <1>10, <2>1
  <2>4. Verdicts(h, l + 1)
    <3>1. CASE l = Len(g) /\ \A k \in 1 .. Len(g) : g[k].pass => k <= MaxPerMinute
      <4>1. \A k \in 1 .. Len(h) : h[k].pass => k <= MaxPerMinute
        BY <1>12, <1>14, <2>3, <3>1
      <4> QED BY <1>12, <3>1, <4>1 DEF Verdicts
    <3>2. CASE /\ l < Len(g) /\ l >= MaxPerMinute
               /\ \A k \in 1 .. Len(g) : g[k].pass =>
                    k = Len(g) - l + MaxPerMinute \/ k < Len(g) - l - MaxPerMinute
      <4>0. ~ (l + 1 <= MaxPerMinute) /\ l + 1 < Len(h) /\ l + 1 >= MaxPerMinute
            /\ Len(h) - (l + 1) = Len(g) - l
        BY <1>3, <1>12, <3>2
      <4>1. ~ pass /\ l + 1 < Len(h) /\ l + 1 >= MaxPerMinute /\ Len(h) - (l + 1) = Len(g) - l
        BY <2>3, <4>0, Zenon
      <4>2. \A k \in 1 .. Len(h) : h[k].pass =>
              k = Len(h) - (l + 1) + MaxPerMinute \/ k < Len(h) - (l + 1) - MaxPerMinute
        BY <1>12, <1>14, <3>2, <4>1
      <4> QED BY <4>1, <4>2 DEF Verdicts
    <3> QED BY <1>1, <3>1, <3>2 DEF Verdicts
  <2>5. l + 1 \in 0 .. Len(h)
    BY <2>2 DEF Covers
  <2> QED BY <1>6, <1>12, <2>1, <2>2, <2>4, <2>5 DEF RateSound
<1>16. CASE ~ (l + 1 <= 3 * MaxPerMinute)
  <2>0. l \in Nat /\ l <= 3 * MaxPerMinute /\ MaxPerMinute \in Nat
    BY <1>3
  <2>1. l = 3 * MaxPerMinute /\ Len(a) > 3 * MaxPerMinute
    <3>1. l = 3 * MaxPerMinute
      BY <1>16, <2>0
    <3>2. Len(a) = l + 1
      BY <1>7
    <3> QED BY <2>0, <3>1, <3>2
  <2>2. PICK lo \in Nat : lo = Len(a) - MaxPerMinute
    BY <1>3, <1>7, <2>1
  <2>3. Cut(a) = SubSeq(a, lo + 1, Len(a))
    BY <2>1, <2>2 DEF Cut
  <2>4. /\ Cut(a) \in Seq(Ages) /\ Len(Cut(a)) = MaxPerMinute
        /\ \A i \in 1 .. MaxPerMinute : Cut(a)[i] = a[lo + i]
    <3>0. PICK n \in Nat : n = Len(a)
      OBVIOUS
    <3>1. /\ Len(a) \in Int /\ lo + 1 \in Int /\ lo + 1 <= Len(a)
          /\ Len(a) - (lo + 1) + 1 = MaxPerMinute /\ \A i \in 1 .. MaxPerMinute : lo + 1 + i - 1 = lo + i
      <4>1. n = lo + MaxPerMinute /\ MaxPerMinute \in Nat \ {0}
        BY <1>3, <2>2, <3>0
      <4>2. n \in Int /\ lo + 1 \in Int /\ lo + 1 <= n /\ n - (lo + 1) + 1 = MaxPerMinute
        BY <4>1
      <4>3. \A i \in 1 .. MaxPerMinute : lo + 1 + i - 1 = lo + i
        BY <4>1
      <4> QED BY <3>0, <4>2, <4>3
    <3>2. \A i \in lo + 1 .. Len(a) : a[i] \in Ages
      <4>1. \A i \in lo + 1 .. Len(a) : i \in 1 .. Len(a)
        BY <1>3, <1>7, <2>2
      <4> QED BY <4>1
    <3> QED BY <2>3, <3>1, <3>2, SubSeqProperties
  <2>5. pass
    <3>1. Len(Cut(a)) <= MaxPerMinute
      BY <1>3, <2>4
    <3> QED BY <1>10, <3>1, Zenon
  <2>6. /\ Len(h) - MaxPerMinute = Len(g) + 1 - MaxPerMinute /\ MaxPerMinute <= Len(h)
        /\ lo = l + 1 - MaxPerMinute
    BY <1>3, <1>7, <1>12, <2>1, <2>2
  <2>7. Covers(Cut(a), h, MaxPerMinute)
    <3>1. MaxPerMinute \in 0 .. Len(h) /\ MaxPerMinute <= Len(Cut(a))
          /\ Len(Cut(a)) - MaxPerMinute = 0 /\ \A i \in 1 .. MaxPerMinute : 0 + i = i
      BY <1>3, <1>12, <2>1, <2>4
    <3>2. ASSUME NEW i \in 1 .. MaxPerMinute
          PROVE  Cut(a)[i] = h[Len(h) - MaxPerMinute + i].age
      <4>1. CASE i = MaxPerMinute
        <5>1. lo + i = l + 1 /\ Len(h) - MaxPerMinute + i = Len(g) + 1
          BY <1>3, <1>12, <2>6, <4>1
        <5> QED BY <1>7, <1>12, <2>4, <5>1
      <4>2. CASE i # MaxPerMinute
        <5>1. lo + i \in 1 .. l /\ Len(g) - l + (lo + i) = Len(h) - MaxPerMinute + i
              /\ Len(g) - l + (lo + i) \in 1 .. Len(g)
          BY <1>3, <1>12, <2>1, <2>6, <4>2
        <5> QED BY <1>7, <1>12, <2>4, <5>1
      <4> QED BY <4>1, <4>2
    <3>3. \A i \in 1 .. Len(Cut(a)) - MaxPerMinute : Cut(a)[i] = Minute
      BY <3>1
    <3>4. ASSUME NEW i \in 1 .. MaxPerMinute
          PROVE  Cut(a)[Len(Cut(a)) - MaxPerMinute + i] = h[Len(h) - MaxPerMinute + i].age
      <4>1. Len(Cut(a)) - MaxPerMinute + i = i
        BY <3>1
      <4> QED BY <3>2, <4>1
    <3> QED BY <3>1, <3>3, <3>4 DEF Covers
  <2>8. Verdicts(h, MaxPerMinute)
    <3>1. /\ MaxPerMinute < Len(h) /\ Len(h) - MaxPerMinute + MaxPerMinute = Len(g) + 1
          /\ Len(h) - MaxPerMinute - MaxPerMinute = Len(g) + 1 - 2 * MaxPerMinute
      BY <1>3, <1>12, <2>1
    <3>2. ASSUME NEW k \in 1 .. Len(g), g[k].pass PROVE k < Len(g) + 1 - 2 * MaxPerMinute
      <4>1. CASE k <= MaxPerMinute
        BY <1>3, <2>1, <4>1
      <4>2. CASE k = Len(g) - l + MaxPerMinute
        BY <1>3, <2>1, <4>2
      <4>3. CASE k < Len(g) - l - MaxPerMinute
        BY <1>3, <2>1, <4>3
      <4> QED BY <1>1, <3>2, <4>1, <4>2, <4>3 DEF Verdicts
    <3>3. \A k \in 1 .. Len(h) : h[k].pass =>
            k = Len(h) - MaxPerMinute + MaxPerMinute \/ k < Len(h) - MaxPerMinute - MaxPerMinute
      <4>1. TAKE k \in 1 .. Len(h)
      <4>2. CASE k \in 1 .. Len(g)
        BY <1>12, <3>1, <3>2, <4>2
      <4>3. CASE k = Len(g) + 1
        BY <3>1, <4>3
      <4> QED BY <1>14, <4>2, <4>3
    <3>4. MaxPerMinute < Len(h) /\ MaxPerMinute >= MaxPerMinute
      BY <1>3, <3>1
    <3> QED BY <3>3, <3>4 DEF Verdicts
  <2>9. MaxPerMinute \in 0 .. Len(h) /\ Len(Cut(a)) <= 3 * MaxPerMinute
    BY <1>3, <2>4, <2>6, <1>12
  <2> QED BY <1>12, <2>4, <2>7, <2>8, <2>9 DEF RateSound
<1> QED BY <1>15, <1>16

\* The entries that leave the log at a tick are its first.
LEMMA LogCut ==
  ASSUME NEW g \in Seq(RateEntries), NEW age \in Nat,
         \A i, j \in 1 .. Len(g) : i < j => g[i].age >= g[j].age
  PROVE  \E m \in 0 .. Len(g) : /\ \A i \in 1 .. m : g[i].age >= age
                                /\ \A i \in m + 1 .. Len(g) : g[i].age < age
<1> DEFINE T == {m \in 0 .. Len(g) : \A i \in m + 1 .. Len(g) : g[i].age < age}
<1>1. Len(g) \in Nat /\ \A i \in 1 .. Len(g) : g[i].age \in Nat
  <2>1. \A i \in 1 .. Len(g) : g[i] \in RateEntries
    OBVIOUS
  <2> QED BY <2>1, RateAssumption DEF RateEntries
<1>2. Len(g) \in T /\ T \in SUBSET Nat
  BY <1>1
<1>3. PICK m \in T : \A i \in T : m <= i
  <2> HIDE DEF T
  <2>1. T # {}
    BY <1>2
  <2> QED BY <1>2, <2>1, Least
<1>4. m \in 0 .. Len(g) /\ \A i \in m + 1 .. Len(g) : g[i].age < age
  BY <1>3
<1>5. ASSUME NEW i \in 1 .. m PROVE g[i].age >= age
  <2>0. m - 1 \in 0 .. Len(g) /\ ~(m <= m - 1)
    BY <1>1, <1>4
  <2>1. m - 1 \in 0 .. Len(g) /\ m - 1 \notin T
    <3> HIDE DEF T
    <3> QED BY <1>3, <2>0
  <2>2. PICK j \in m - 1 + 1 .. Len(g) : ~(g[j].age < age)
    BY <2>1
  <2>3. j = m /\ m \in 1 .. Len(g) /\ i \in 1 .. Len(g) /\ i <= m
    BY <1>1, <1>4, <2>2
  <2>4. g[m].age >= age /\ g[m].age \in Nat /\ g[i].age \in Nat
    BY <1>1, <2>2, <2>3
  <2>5. CASE i = m
    BY <2>4, <2>5
  <2>6. CASE i < m
    <3>1. g[i].age >= g[m].age
      BY <2>3, <2>6
    <3> QED BY <2>4, <3>1
  <2> QED BY <2>3, <2>5, <2>6
<1> QED BY <1>4, <1>5

Aged(w) == [i \in DOMAIN w |-> IF w[i] < Minute THEN w[i] + 1 ELSE Minute]
Older(g) ==
  LET kept == Only(g, {r \in RateEntries : r.age < Minute - 1})
  IN  [i \in DOMAIN kept |-> [kept[i] EXCEPT !.age = @ + 1]]

\* A window a tick later.
LEMMA AgedFacts ==
  ASSUME NEW w \in Seq(Ages)
  PROVE  /\ Aged(w) \in Seq(Ages) /\ Len(Aged(w)) = Len(w)
         /\ \A i \in 1 .. Len(w) : Aged(w)[i] = IF w[i] < Minute THEN w[i] + 1 ELSE Minute
<1> DEFINE one(i) == IF w[i] < Minute THEN w[i] + 1 ELSE Minute
<1>1. PICK n \in Nat : n = Len(w) /\ DOMAIN w = 1 .. n
  OBVIOUS
<1>2. ASSUME NEW i \in 1 .. n PROVE one(i) \in Ages
  <2>1. w[i] \in Ages
    BY <1>1
  <2> QED BY <2>1, RateAssumption DEF Ages
<1>3. Aged(w) = [i \in 1 .. n |-> one(i)]
  BY <1>1 DEF Aged
<1> HIDE DEF one
<1>4. PICK a \in [1 .. n -> Ages] : a = Aged(w) /\ \A i \in 1 .. n : a[i] = one(i)
  BY <1>2, <1>3
<1>5. a \in Seq(Ages) /\ Len(a) = n
  BY <1>4
<1> QED BY <1>1, <1>4, <1>5 DEF one

\* A log a tick later, without what has become a minute old.
LEMMA OlderFacts ==
  ASSUME NEW g \in Seq(RateEntries), NEW m \in 0 .. Len(g),
         \A i \in 1 .. m : g[i].age >= Minute - 1,
         \A i \in m + 1 .. Len(g) : g[i].age < Minute - 1
  PROVE  /\ Older(g) \in Seq(RateEntries) /\ Len(Older(g)) = Len(g) - m
         /\ \A i \in 1 .. Len(g) - m : /\ Older(g)[i].age = g[m + i].age + 1
                                       /\ Older(g)[i].pass = g[m + i].pass
<1> DEFINE S == {r \in RateEntries : r.age < Minute - 1}
           kept == Only(g, S)
           one(i) == [kept[i] EXCEPT !.age = @ + 1]
<1>1. Len(g) \in Nat /\ m \in Nat /\ m <= Len(g) /\ Len(g) - m \in Nat
  OBVIOUS
<1>2. /\ \A i \in 1 .. m : g[i] \notin S
      /\ \A i \in m + 1 .. Len(g) : g[i] \in S
  <2>1. \A i \in 1 .. Len(g) : g[i] \in RateEntries /\ g[i].age \in Nat
    <3>1. \A i \in 1 .. Len(g) : g[i] \in RateEntries
      OBVIOUS
    <3> QED BY <3>1, RateAssumption DEF RateEntries
  <2>2. \A i \in 1 .. m : i \in 1 .. Len(g)
    BY <1>1
  <2>3. \A i \in m + 1 .. Len(g) : i \in 1 .. Len(g)
    BY <1>1
  <2> QED BY <2>1, <2>2, <2>3, RateAssumption
<1> HIDE DEF S
<1>3. /\ kept \in Seq(RateEntries) /\ Len(kept) = Len(g) - m
      /\ \A i \in 1 .. Len(g) - m : kept[i] = g[m + i]
  BY <1>2, OnlySuffix
<1>4. PICK n \in Nat : n = Len(g) - m /\ DOMAIN kept = 1 .. n
  BY <1>1, <1>3
<1> HIDE DEF kept
<1>5. ASSUME NEW i \in 1 .. n
      PROVE  one(i) \in RateEntries /\ one(i).age = g[m + i].age + 1 /\ one(i).pass = g[m + i].pass
  <2>1. kept[i] = g[m + i] /\ kept[i] \in RateEntries /\ m + i \in m + 1 .. Len(g)
    BY <1>1, <1>3, <1>4
  <2>2. kept[i].age < Minute - 1
    BY <2>1
  <2>3. kept[i].age + 1 \in 0 .. Minute - 1
    BY <2>1, <2>2, RateAssumption DEF RateEntries
  <2> QED BY <2>1, <2>3 DEF RateEntries
<1>6. Older(g) = [i \in 1 .. n |-> one(i)]
  BY <1>4 DEF Older, kept, S
<1> HIDE DEF one
<1>7. PICK o \in [1 .. n -> RateEntries] : o = Older(g) /\ \A i \in 1 .. n : o[i] = one(i)
  BY <1>5, <1>6
<1>8. o \in Seq(RateEntries) /\ Len(o) = n
  BY <1>7
<1> QED BY <1>4, <1>5, <1>7, <1>8

\* A tick: everything noted is one older, and what was a minute old leaves the log.
LEMMA TickKeeps ==
  ASSUME NEW w, NEW g, RateSound(w, g)
  PROVE  RateSound(Aged(w), Older(g))
<1>1. PICK l \in 0 .. Len(g) : Covers(w, g, l) /\ Verdicts(g, l)
  BY DEF RateSound
<1>2. w \in Seq(Ages) /\ g \in Seq(RateEntries) /\ Len(w) \in Nat /\ Len(w) <= 3 * MaxPerMinute
      /\ \A i, j \in 1 .. Len(g) : i < j => g[i].age >= g[j].age
  BY DEF RateSound
<1>3. PICK m \in 0 .. Len(g) : /\ \A i \in 1 .. m : g[i].age >= Minute - 1
                               /\ \A i \in m + 1 .. Len(g) : g[i].age < Minute - 1
  <2>1. Minute - 1 \in Nat
    BY RateAssumption
  <2> QED BY <1>2, <2>1, LogCut
<1>4. /\ Len(g) \in Nat /\ l \in Nat /\ l <= Len(g) /\ l <= Len(w) /\ m \in Nat /\ m <= Len(g)
      /\ MaxPerMinute \in Nat \ {0} /\ Minute \in Nat \ {0}
  BY <1>1, <1>2, <1>3, RateAssumption DEF Covers
<1>5. PICK o \in Seq(RateEntries) : /\ o = Older(g) /\ Len(o) = Len(g) - m
        /\ \A i \in 1 .. Len(g) - m : o[i].age = g[m + i].age + 1 /\ o[i].pass = g[m + i].pass
  <2>1. /\ Older(g) \in Seq(RateEntries) /\ Len(Older(g)) = Len(g) - m
        /\ \A i \in 1 .. Len(g) - m : /\ Older(g)[i].age = g[m + i].age + 1
                                      /\ Older(g)[i].pass = g[m + i].pass
    BY <1>2, <1>3, OlderFacts
  <2> QED BY <2>1
<1>6. PICK a \in Seq(Ages) : /\ a = Aged(w) /\ Len(a) = Len(w)
        /\ \A i \in 1 .. Len(w) : a[i] = IF w[i] < Minute THEN w[i] + 1 ELSE Minute
  <2>1. /\ Aged(w) \in Seq(Ages) /\ Len(Aged(w)) = Len(w)
        /\ \A i \in 1 .. Len(w) : Aged(w)[i] = IF w[i] < Minute THEN w[i] + 1 ELSE Minute
    BY <1>2, AgedFacts
  <2> QED BY <2>1
<1>7. \A i \in 1 .. Len(g) : g[i].age \in 0 .. Minute - 1
  <2>1. \A i \in 1 .. Len(g) : g[i] \in RateEntries
    BY <1>2
  <2> QED BY <2>1 DEF RateEntries
<1>8. ASSUME NEW i \in 1 .. Len(o), NEW j \in 1 .. Len(o), i < j PROVE o[i].age >= o[j].age
  <2>1. i \in 1 .. Len(g) - m /\ j \in 1 .. Len(g) - m
    BY <1>5
  <2>2. m + i \in 1 .. Len(g) /\ m + j \in 1 .. Len(g) /\ m + i < m + j
    BY <1>4, <1>8, <2>1
  <2>3. g[m + i].age >= g[m + j].age /\ g[m + i].age \in Nat /\ g[m + j].age \in Nat
    BY <1>2, <1>4, <1>7, <2>2
  <2> QED BY <1>5, <2>1, <2>3
<1>9. PICK n \in 0 .. Len(o) : n = IF l <= Len(o) THEN l ELSE Len(o)
  <2>1. CASE l <= Len(o)
    <3>1. l \in 0 .. Len(o)
      BY <1>4, <1>5, <2>1
    <3> QED BY <2>1, <3>1
  <2>2. CASE ~(l <= Len(o))
    <3>1. Len(o) \in 0 .. Len(o)
      BY <1>4, <1>5
    <3> QED BY <2>2, <3>1
  <2> QED BY <2>1, <2>2
<1>10. n \in Nat /\ n <= l /\ n <= Len(o) /\ n <= Len(w) /\ Len(o) - n <= Len(g) - l
       /\ (n = l \/ n = Len(o))
  BY <1>4, <1>5, <1>9
<1>11. Covers(a, o, n)
  <2>1. ASSUME NEW i \in 1 .. Len(a) - n PROVE a[i] = Minute
    <3>1. i \in 1 .. Len(w)
      BY <1>2, <1>6, <1>10
    <3>2. CASE i <= Len(w) - l
      <4>1. w[i] = Minute
        BY <1>1, <1>2, <1>4, <3>1, <3>2 DEF Covers
      <4> QED BY <1>4, <1>6, <3>1, <4>1
    <3>3. CASE i > Len(w) - l
      <4>1. PICK k \in 1 .. l : k = i - (Len(w) - l)
        <5>1. i - (Len(w) - l) \in 1 .. l
          BY <1>2, <1>4, <3>1, <3>3
        <5> QED BY <5>1
      <4>2. Len(w) - l + k = i
        BY <1>2, <1>4, <4>1
      <4>3. w[i] = g[Len(g) - l + k].age
        BY <1>1, <4>2 DEF Covers
      <4>4. n = Len(o) /\ Len(g) - l + k \in 1 .. m
        <5>1. i <= Len(w) - n /\ i > Len(w) - l /\ Len(w) \in Nat /\ i \in Nat
          BY <1>2, <1>6, <1>10, <3>1, <3>3
        <5>2. n < l /\ n = Len(o) /\ Len(o) = Len(g) - m
          BY <1>4, <1>5, <1>10, <5>1
        <5>3. k \in Nat /\ k = i - Len(w) + l /\ k <= l - n
          BY <1>2, <1>4, <1>10, <4>1, <5>1
        <5> QED BY <1>4, <1>10, <5>2, <5>3, <4>1
      <4>5. g[Len(g) - l + k].age >= Minute - 1 /\ g[Len(g) - l + k].age \in 0 .. Minute - 1
        BY <1>3, <1>4, <1>7, <4>4
      <4> QED BY <1>4, <1>6, <3>1, <4>3, <4>5
    <3> QED BY <1>2, <1>4, <3>1, <3>2, <3>3
  <2>2. ASSUME NEW i \in 1 .. n PROVE a[Len(a) - n + i] = o[Len(o) - n + i].age
    <3>1. PICK k \in 1 .. l : k = l - n + i
      BY <1>4, <1>10
    <3>2. Len(a) - n + i = Len(w) - l + k /\ Len(w) - l + k \in 1 .. Len(w)
      BY <1>2, <1>4, <1>6, <1>10, <3>1
    <3>3. PICK j \in 1 .. Len(g) - m : j = Len(o) - n + i
      <4>1. Len(o) - n + i \in 1 .. Len(g) - m
        BY <1>4, <1>5, <1>10
      <4> QED BY <4>1
    <3>4. m + j = Len(g) - l + k /\ m + j \in m + 1 .. Len(g) /\ m + j \in 1 .. Len(g)
      BY <1>4, <1>5, <1>10, <3>1, <3>3
    <3>5. w[Len(w) - l + k] = g[m + j].age
      BY <1>1, <3>4 DEF Covers
    <3>6. g[m + j].age \in 0 .. Minute - 1
      BY <1>7, <3>4
    <3>7. a[Len(w) - l + k] = g[m + j].age + 1
      <4>1. g[m + j].age < Minute
        BY <1>4, <3>6
      <4> QED BY <1>6, <3>2, <3>5, <4>1
    <3> QED BY <1>5, <3>2, <3>3, <3>7
  <2>3. n \in 0 .. Len(o) /\ n <= Len(a)
    BY <1>6, <1>10
  <2> QED BY <2>1, <2>2, <2>3 DEF Covers
<1>12. Verdicts(o, n)
  <2>1. ASSUME NEW k \in 1 .. Len(o), o[k].pass PROVE m + k \in 1 .. Len(g) /\ g[m + k].pass
    <3>1. k \in 1 .. Len(g) - m /\ m + k \in 1 .. Len(g)
      BY <1>4, <1>5
    <3> QED BY <1>5, <2>1, <3>1
  <2>2. CASE l = Len(g) /\ \A k \in 1 .. Len(g) : g[k].pass => k <= MaxPerMinute
    <3>1. n = Len(o)
      BY <1>4, <1>5, <1>9, <2>2
    <3>2. ASSUME NEW k \in 1 .. Len(o), o[k].pass PROVE k <= MaxPerMinute
      <4>1. m + k <= MaxPerMinute
        BY <2>1, <2>2, <3>2
      <4> QED BY <1>4, <4>1
    <3> QED BY <3>1, <3>2 DEF Verdicts
  <2>3. CASE /\ l < Len(g) /\ l >= MaxPerMinute
             /\ \A k \in 1 .. Len(g) : g[k].pass =>
                  k = Len(g) - l + MaxPerMinute \/ k < Len(g) - l - MaxPerMinute
    <3>1. CASE l >= Len(o)
      <4>1. n = Len(o) /\ Len(g) - l <= m
        <5>1. Len(o) \in Nat /\ Len(o) = Len(g) - m
          BY <1>4, <1>5
        <5> QED BY <1>4, <1>9, <3>1, <5>1
      <4>2. ASSUME NEW k \in 1 .. Len(o), o[k].pass PROVE k <= MaxPerMinute
        <5>1. m + k = Len(g) - l + MaxPerMinute \/ m + k < Len(g) - l - MaxPerMinute
          BY <2>1, <2>3, <4>2
        <5> QED BY <1>4, <4>1, <5>1
      <4> QED BY <4>1, <4>2 DEF Verdicts
    <3>2. CASE l < Len(o)
      <4>1. n = l /\ n < Len(o) /\ n >= MaxPerMinute
        BY <1>4, <1>5, <1>9, <2>3, <3>2
      <4>2. ASSUME NEW k \in 1 .. Len(o), o[k].pass
            PROVE  k = Len(o) - n + MaxPerMinute \/ k < Len(o) - n - MaxPerMinute
        <5>1. m + k = Len(g) - l + MaxPerMinute \/ m + k < Len(g) - l - MaxPerMinute
          BY <2>1, <2>3, <4>2
        <5>2. k \in Nat
          BY <1>4, <1>5
        <5> QED BY <1>4, <1>5, <4>1, <5>1, <5>2
      <4> QED BY <4>1, <4>2 DEF Verdicts
    <3> QED BY <1>4, <1>5, <3>1, <3>2
  <2> QED BY <1>1, <2>2, <2>3 DEF Verdicts
<1>13. Len(a) <= 3 * MaxPerMinute
  BY <1>2, <1>6
<1> QED BY <1>5, <1>6, <1>8, <1>11, <1>12, <1>13 DEF RateSound

\* At most MaxPerMinute places of such a log may hold a request that passed.
LEMMA FewPassed ==
  ASSUME NEW w, NEW g, RateSound(w, g), Len(g) <= 3 * MaxPerMinute
  PROVE  Len(Only(g, {r \in RateEntries : r.pass})) <= MaxPerMinute
<1>1. PICK l \in 0 .. Len(g) : Covers(w, g, l) /\ Verdicts(g, l)
  BY DEF RateSound
<1>2. g \in Seq(RateEntries) /\ Len(g) \in Nat /\ l \in Nat /\ MaxPerMinute \in Nat \ {0}
  BY <1>1, RateAssumption DEF RateSound
<1> DEFINE S == {r \in RateEntries : r.pass}
<1>3. \A k \in 1 .. Len(g) : g[k] \in S => g[k].pass
  OBVIOUS
<1> HIDE DEF S
<1>4. CASE l = Len(g) /\ \A k \in 1 .. Len(g) : g[k].pass => k <= MaxPerMinute
  <2>1. IsFiniteSet(1 .. MaxPerMinute) /\ Cardinality(1 .. MaxPerMinute) = MaxPerMinute
    <3>1. PICK n \in Nat : n = MaxPerMinute
      BY <1>2
    <3>2. Cardinality(1 .. n) = IF 1 > n THEN 0 ELSE n - 1 + 1
      BY FS_Interval
    <3>3. IsFiniteSet(1 .. n)
      BY FS_Interval
    <3>4. Cardinality(1 .. n) = n
      BY <3>2
    <3> QED BY <3>1, <3>3, <3>4
  <2>2. \A k \in 1 .. Len(g) : g[k] \in S => k \in 1 .. MaxPerMinute
    BY <1>2, <1>3, <1>4
  <2> DEFINE B == 1 .. MaxPerMinute
  <2> HIDE DEF B
  <2>3. Len(Only(g, S)) <= Cardinality(B)
    BY <1>2, <2>1, <2>2, OnlyCount DEF B
  <2> QED BY <2>1, <2>3 DEF B, S
<1>5. CASE /\ l < Len(g) /\ l >= MaxPerMinute
           /\ \A k \in 1 .. Len(g) : g[k].pass =>
                k = Len(g) - l + MaxPerMinute \/ k < Len(g) - l - MaxPerMinute
  <2> DEFINE B == (1 .. MaxPerMinute - 1) \cup {Len(g) - l + MaxPerMinute}
  <2>1. IsFiniteSet(1 .. MaxPerMinute - 1) /\ Cardinality(1 .. MaxPerMinute - 1) = MaxPerMinute - 1
    <3>1. PICK n \in Nat : n = MaxPerMinute - 1
      BY <1>2
    <3>2. Cardinality(1 .. n) = IF 1 > n THEN 0 ELSE n - 1 + 1
      BY FS_Interval
    <3>3. IsFiniteSet(1 .. n)
      BY FS_Interval
    <3>4. Cardinality(1 .. n) = n
      BY <3>2
    <3> QED BY <3>1, <3>3, <3>4
  <2>2. IsFiniteSet(B) /\ Cardinality(B) = MaxPerMinute
    <3>1. Len(g) - l + MaxPerMinute \notin 1 .. MaxPerMinute - 1
      BY <1>2, <1>5
    <3>2. IsFiniteSet(B) /\ Cardinality(B) = Cardinality(1 .. MaxPerMinute - 1) + 1
      BY <2>1, <3>1, FS_AddElement
    <3> QED BY <1>2, <2>1, <3>2
  <2>3. ASSUME NEW k \in 1 .. Len(g), g[k] \in S PROVE k \in B
    <3>1. k = Len(g) - l + MaxPerMinute \/ k < Len(g) - l - MaxPerMinute
      BY <1>3, <1>5, <2>3
    <3>2. CASE k < Len(g) - l - MaxPerMinute
      <4>1. k <= MaxPerMinute - 1
        BY <1>2, <1>5, <3>2
      <4> QED BY <1>2, <4>1
    <3> QED BY <3>1, <3>2
  <2> HIDE DEF B
  <2>4. Len(Only(g, S)) <= Cardinality(B)
    BY <1>2, <2>2, <2>3, OnlyCount
  <2> QED BY <2>2, <2>4 DEF S
<1> QED BY <1>1, <1>4, <1>5 DEF Verdicts

\* The windows and the log of every user.
ModerateInv ==
  /\ windows = [u \in Users |-> windows[u]] /\ log = [u \in Users |-> log[u]]
  /\ \A u \in Users : RateSound(windows[u], log[u])

\* The windows are empty at the start.
LEMMA ModerateStart == RateInit => ModerateInv
<1> SUFFICES ASSUME RateInit PROVE ModerateInv
  OBVIOUS
<1>1. << >> \in Seq(Ages) /\ << >> \in Seq(RateEntries) /\ Len(<< >>) = 0
  OBVIOUS
<1>2. Covers(<< >>, << >>, 0)
  BY <1>1 DEF Covers
<1>3. Verdicts(<< >>, 0)
  BY <1>1 DEF Verdicts
<1>4. 0 \in 0 .. Len(<< >>) /\ 0 <= 3 * MaxPerMinute
  BY <1>1, RateAssumption
<1>5. \A i, j \in 1 .. Len(<< >>) : i < j => << >>[i].age >= << >>[j].age
  BY <1>1
<1>6. RateSound(<< >>, << >>)
  BY <1>1, <1>2, <1>3, <1>4, <1>5 DEF RateSound
<1> QED BY <1>6 DEF RateInit, ModerateInv

\* Every step keeps the windows in step with the log.
LEMMA ModerateSteps == ModerateInv /\ [RateNext]_rateVars => ModerateInv'
<1> SUFFICES ASSUME ModerateInv, [RateNext]_rateVars PROVE ModerateInv'
  OBVIOUS
<1>0. /\ windows = [u \in Users |-> windows[u]] /\ log = [u \in Users |-> log[u]]
      /\ \A u \in Users : RateSound(windows[u], log[u])
  BY DEF ModerateInv
<1>1. ASSUME NEW v \in Users, Check(v) PROVE ModerateInv'
  <2>1. PICK new : new = Noted(Fresh(windows[v]))
    OBVIOUS
  <2>2. PICK entry : entry = [age |-> 0, pass |-> Len(Noted(Fresh(windows[v]))) <= MaxPerMinute]
    OBVIOUS
  <2>3. RateSound(new, Append(log[v], entry))
    BY <1>0, <2>1, <2>2, CheckKeeps
  <2>4. /\ windows' = [windows EXCEPT ![v] = new]
        /\ log' = [log EXCEPT ![v] = Append(@, entry)]
    BY <1>1, <2>1, <2>2 DEF Check
  <2> QED BY <1>0, <2>3, <2>4 DEF ModerateInv
<1>2. CASE Cleanup
  <2>1. windows' = [u \in Users |-> Fresh(windows[u])] /\ log' = log
    BY <1>2 DEF Cleanup
  <2>2. \A u \in Users : RateSound(Fresh(windows[u]), log[u])
    BY <1>0, FreshKeeps
  <2> QED BY <1>0, <2>1, <2>2 DEF ModerateInv
<1>3. CASE RateTick
  <2>1. windows' = [u \in Users |-> Aged(windows[u])] /\ log' = [u \in Users |-> Older(log[u])]
    BY <1>3 DEF RateTick, Aged, Older
  <2>2. \A u \in Users : RateSound(Aged(windows[u]), Older(log[u]))
    BY <1>0, TickKeeps
  <2> QED BY <2>1, <2>2 DEF ModerateInv
<1>4. CASE UNCHANGED rateVars
  BY <1>4 DEF rateVars, ModerateInv
<1> QED BY <1>1, <1>2, <1>3, <1>4 DEF RateNext

\* Few enough have passed.
LEMMA ModerateHold == ModerateInv => ModerateKept
<1> SUFFICES ASSUME ModerateInv, NEW u \in Users, Len(log[u]) <= 3 * MaxPerMinute
             PROVE  Len(Passed(u)) <= MaxPerMinute
  BY DEF ModerateKept
<1>1. RateSound(windows[u], log[u])
  BY DEF ModerateInv
<1> QED BY <1>1, FewPassed DEF Passed

-----------------------------------------------------------------------------
(* The three, in the process that holds them.                               *)

RationsInv == SuggestInv /\ RestoreInv /\ ModerateInv

\* All of it holds at the start,
LEMMA RationsStart == Init => RationsInv
BY SuggestionsStart, RestoresStart, ModerateStart DEF Init, RationsInv

\* and after every step, as it moves one of the components.
LEMMA RationsSteps == RationsInv /\ [Next]_allVars => RationsInv'
<1> SUFFICES ASSUME RationsInv, [Next]_allVars PROVE RationsInv'
  OBVIOUS
<1>1. CASE Next
  <2>1. [InsightsNext]_inVars /\ [MailboxNext]_mailboxVars /\ [RateNext]_rateVars
    BY <1>1 DEF Next
  <2> QED BY <2>1, SuggestionsSteps, RestoresSteps, ModerateSteps DEF RationsInv
<1>2. CASE UNCHANGED allVars
  <2>1. UNCHANGED inVars /\ UNCHANGED mailboxVars /\ UNCHANGED rateVars
    BY <1>2 DEF allVars
  <2> QED BY <2>1, SuggestionsSteps, RestoresSteps, ModerateSteps DEF RationsInv
<1> QED BY <1>1, <1>2

\* Whatever overlaps, fails or restarts, no message is restored more often than the limit,
\* no more suggestions are posted in a day than its budget, and of the requests of a minute
\* that holds no more than three times the limit no more than the limit have passed.
THEOREM RationsStayKept == Spec => []RationsKept
<1>1. RationsInv => RationsKept
  BY SuggestionsHold, RestoresHold, ModerateHold DEF RationsInv, RationsKept
<1> QED BY <1>1, RationsStart, RationsSteps, PTL DEF Spec

-----------------------------------------------------------------------------
(* Tasks, logins, changes and suggestions.                                   *)

\* A2A tasks: a task enters the store when it is created, and again when the store
\* has dropped it.
TasksInv ==
  /\ OutcomeInv
  /\ a2aStore \in Seq(A2ATaskIds) /\ AllApart(a2aStore)
  /\ \A i \in 1 .. Len(a2aStore) : a2aState[a2aStore[i]] # "none"

\* The store is empty at the start.
LEMMA TasksStart == A2AInit => TasksInv
BY A2AStart DEF A2AInit, TasksInv, AllApart

\* A task that the store does not hold may enter it, at the end.
LEMMA Entered ==
  ASSUME NEW s \in Seq(A2ATaskIds), AllApart(s), NEW t \in A2ATaskIds, \A i \in 1 .. Len(s) : s[i] # t
  PROVE  /\ Append(s, t) \in Seq(A2ATaskIds) /\ AllApart(Append(s, t))
         /\ \A i \in 1 .. Len(Append(s, t)) : Append(s, t)[i] = t \/ \E k \in 1 .. Len(s) : Append(s, t)[i] = s[k]
<1>1. /\ Len(Append(s, t)) = Len(s) + 1 /\ Append(s, t)[Len(s) + 1] = t
      /\ \A i \in 1 .. Len(s) : Append(s, t)[i] = s[i]
      /\ Append(s, t) \in Seq(A2ATaskIds) /\ Len(s) \in Nat
  OBVIOUS
<1> QED BY <1>1 DEF AllApart

\* What a step leaves in the store was there, or is the task of the step.
LEMMA TasksSteps == TasksInv /\ [A2ANext]_a2aVars => TasksInv'
<1> SUFFICES ASSUME TasksInv, [A2ANext]_a2aVars PROVE TasksInv'
  OBVIOUS
<1>0. /\ OutcomeInv /\ OutcomeInv' /\ a2aStore \in Seq(A2ATaskIds) /\ AllApart(a2aStore)
      /\ \A i \in 1 .. Len(a2aStore) : a2aState[a2aStore[i]] # "none"
  BY A2ASteps DEF TasksInv
<1>a. \A u \in A2ATaskIds : a2aState[u] # "none" => a2aState'[u] # "none"
  <2>1. ASSUME NEW t \in A2ATaskIds, SendTask(t) \/ Completed(t) \/ Failed(t) \/ Recorded(t) \/ Cancel(t)
        PROVE  \E s \in {"working", "completed", "failed", "canceled", a2aState[t]} : a2aState' = [a2aState EXCEPT ![t] = s]
    BY <1>0, <2>1 DEF SendTask, Completed, Failed, Recorded, Cancel, OutcomeInv
  <2>2. ASSUME CleanupOldTasks \/ UNCHANGED a2aVars PROVE a2aState' = a2aState
    BY <2>2 DEF CleanupOldTasks, a2aVars
  <2>3. a2aState \in [A2ATaskIds -> {"none", "working"} \cup TerminalStates]
    BY <1>0 DEF OutcomeInv
  <2>4. CASE \E t \in A2ATaskIds : SendTask(t) \/ Completed(t) \/ Failed(t) \/ Recorded(t) \/ Cancel(t)
    <3>1. PICK t \in A2ATaskIds : SendTask(t) \/ Completed(t) \/ Failed(t) \/ Recorded(t) \/ Cancel(t)
      BY <2>4
    <3>2. PICK s \in {"working", "completed", "failed", "canceled", a2aState[t]} : a2aState' = [a2aState EXCEPT ![t] = s]
      BY <2>1, <3>1
    <3> QED BY <2>3, <3>2
  <2> QED BY <2>2, <2>4 DEF A2ANext
<1>b. ASSUME NEW S
      PROVE  LET s == Only(a2aStore, S)
             IN  /\ s \in Seq(A2ATaskIds) /\ AllApart(s)
                 /\ \A i \in 1 .. Len(s) : \E k \in 1 .. Len(a2aStore) : s[i] = a2aStore[k]
  <2>1. Only(a2aStore, S) \in Seq(A2ATaskIds)
    BY <1>0, OnlyFacts
  <2>2. \A i \in 1 .. Len(Only(a2aStore, S)) : \E k \in 1 .. Len(a2aStore) : a2aStore[k] = Only(a2aStore, S)[i]
    BY <1>0, OnlyFacts
  <2>3. AllApart(Only(a2aStore, S))
    BY <1>0, OnlyDistinct DEF AllApart
  <2> QED BY <2>1, <2>2, <2>3
<1>c. ASSUME NEW S, a2aStore' = Only(a2aStore, S) PROVE TasksInv'
  <2>1. /\ a2aStore' \in Seq(A2ATaskIds) /\ AllApart(a2aStore')
        /\ \A i \in 1 .. Len(a2aStore') : \E k \in 1 .. Len(a2aStore) : a2aStore'[i] = a2aStore[k]
    BY <1>b, <1>c
  <2>2. \A i \in 1 .. Len(a2aStore') : a2aState'[a2aStore'[i]] # "none"
    BY <1>0, <1>a, <2>1
  <2> QED BY <1>0, <2>1, <2>2 DEF TasksInv, AllApart
<1>d. ASSUME a2aStore' = a2aStore PROVE TasksInv'
  BY <1>0, <1>a, <1>d DEF TasksInv, AllApart
<1>e. ASSUME NEW t \in A2ATaskIds, a2aStore' = StoredAgain(t), a2aState'[t] # "none" PROVE TasksInv'
  <2>1. CASE Stored(t)
    BY <1>d, <1>e, <2>1 DEF StoredAgain
  <2>2. CASE ~ Stored(t)
    <3>1. a2aStore' = Append(a2aStore, t) /\ \A i \in 1 .. Len(a2aStore) : a2aStore[i] # t
      BY <1>e, <2>2 DEF StoredAgain, Stored, Contains
    <3>2. /\ a2aStore' \in Seq(A2ATaskIds) /\ AllApart(a2aStore')
          /\ \A i \in 1 .. Len(a2aStore') : a2aStore'[i] = t \/ \E k \in 1 .. Len(a2aStore) : a2aStore'[i] = a2aStore[k]
      BY <1>0, <3>1, Entered
    <3>3. \A i \in 1 .. Len(a2aStore') : a2aState'[a2aStore'[i]] # "none"
      BY <1>0, <1>a, <1>e, <3>2
    <3> QED BY <1>0, <3>2, <3>3 DEF TasksInv, AllApart
  <2> QED BY <2>1, <2>2
<1>1. ASSUME NEW t \in A2ATaskIds, SendTask(t) PROVE TasksInv'
  <2>1. PICK s : s = Only(a2aStore, A2ATaskIds \ Evicted)
    OBVIOUS
  <2>2. /\ s \in Seq(A2ATaskIds) /\ AllApart(s)
        /\ \A i \in 1 .. Len(s) : \E k \in 1 .. Len(a2aStore) : s[i] = a2aStore[k]
    BY <1>b, <2>1
  <2>3. a2aStore' = Append(s, t) /\ a2aState[t] = "none" /\ a2aState'[t] = "working"
    BY <1>0, <1>1, <2>1 DEF SendTask, OutcomeInv
  <2>4. \A i \in 1 .. Len(s) : s[i] # t
    BY <1>0, <2>2, <2>3
  <2>5. /\ a2aStore' \in Seq(A2ATaskIds) /\ AllApart(a2aStore')
        /\ \A i \in 1 .. Len(a2aStore') : a2aStore'[i] = t \/ \E k \in 1 .. Len(s) : a2aStore'[i] = s[k]
    BY <2>2, <2>3, <2>4, Entered
  <2>6. ASSUME NEW i \in 1 .. Len(a2aStore') PROVE a2aState'[a2aStore'[i]] # "none"
    <3>1. CASE a2aStore'[i] = t
      BY <2>3, <3>1
    <3>2. CASE \E k \in 1 .. Len(s) : a2aStore'[i] = s[k]
      <4>1. PICK k \in 1 .. Len(a2aStore) : a2aStore'[i] = a2aStore[k]
        BY <2>2, <3>2
      <4>2. a2aStore[k] \in A2ATaskIds
        BY <1>0
      <4> QED BY <1>0, <1>a, <4>1, <4>2
    <3> QED BY <2>5, <3>1, <3>2
  <2> QED BY <1>0, <2>5, <2>6 DEF TasksInv, AllApart
<1>2. ASSUME NEW t \in A2ATaskIds, Completed(t) \/ Cancel(t) PROVE TasksInv'
  BY <1>2, <1>d DEF Completed, Cancel
<1>3. ASSUME NEW t \in A2ATaskIds, Failed(t) PROVE TasksInv'
  <2>1. a2aState'[t] # "none"
    BY <1>0, <1>3 DEF Failed, OutcomeInv
  <2> QED BY <1>3, <1>e, <2>1 DEF Failed
<1>4. ASSUME NEW t \in A2ATaskIds, Recorded(t) PROVE TasksInv'
  <2>1. a2aState'[t] # "none"
    BY <1>0, <1>4 DEF Recorded, OutcomeInv
  <2> QED BY <1>4, <1>e, <2>1 DEF Recorded
<1>5. CASE CleanupOldTasks
  BY <1>5, <1>c DEF CleanupOldTasks
<1>6. CASE UNCHANGED a2aVars
  BY <1>6, <1>d DEF a2aVars
<1> QED BY <1>1, <1>2, <1>3, <1>4, <1>5, <1>6 DEF A2ANext

\* So the store holds created tasks, each once.
LEMMA TasksTyped == TasksInv => A2ATypeOK
<1> SUFFICES ASSUME TasksInv PROVE A2ATypeOK
  OBVIOUS
<1>1. a2aStore \in Seq(A2ATaskIds) /\ DOMAIN a2aStore = 1 .. Len(a2aStore)
  BY DEF TasksInv
<1>2. IsInjective(a2aStore)
  BY <1>1 DEF TasksInv, AllApart, IsInjective
<1>3. \A t \in ToSet(a2aStore) : a2aState[t] # "none"
  BY <1>1 DEF TasksInv, ToSet
<1> QED BY <1>2, <1>3 DEF TasksInv, OutcomeInv, A2ATypeOK

-----------------------------------------------------------------------------
\* Logins: properties are written by one job after the other, and what a job writes are
\* properties of the row and of its own.
Props == UNION {[D -> Logins] : D \in SUBSET {"ms", "portal"}}

\* Where a job can be.
UaPlaces == {"idle", "reading", "writing", "exchanging", "calling", "refreshing", "refreshing portal",
             "exchanging portal", "refreshing again", "calling again", "done"}
\* A job: where it is, what it has read and what it is to write.
Jobs == [pc : UaPlaces, auth : Rows, seen : Rows, props : Props, then : UaPlaces]
\* The jobs are of this kind.
JobsTyped == job \in [UaJobs -> Jobs]

\* The row and what the jobs have of it are rows; links that wait are of the known
\* ones and no older than they may get.
LoginsInv ==
  /\ row \in Rows /\ logins \in Logins /\ JobsTyped
  /\ DOMAIN pendingStates \subseteq OAuthStates
  /\ \A s \in DOMAIN pendingStates : pendingStates[s] \in 0 .. StateTtl + 1
  /\ usedStates \in [OAuthStates -> Nat]

\* What a row has of a login is a login; none counts as 0.
LEMMA LoginFacts ==
  /\ Cardinality(OAuthStates) \in Nat /\ 0 \in Logins
  /\ \A r \in Rows : Login(r) \in Logins /\ Portal(r) \in Logins
<1>1. Cardinality(OAuthStates) \in Nat
  BY UserAuthAssumption, FS_CardinalityType
<1>2. 0 \in Logins
  BY <1>1 DEF Logins
<1>3. ASSUME NEW r \in Rows PROVE Login(r) \in Logins /\ Portal(r) \in Logins
  <2>1. CASE r = NoRow
    BY <1>2, <2>1 DEF Login, Portal
  <2>2. CASE r # NoRow
    <3>1. PICK D \in SUBSET {"ms", "portal"} : r \in [D -> Logins]
      BY <2>2 DEF Rows
    <3> QED BY <1>2, <3>1 DEF Login, Portal
  <2> QED BY <2>1, <2>2
<1> QED BY <1>1, <1>2, <1>3

\* Properties are a row, a single one is properties, and properties merged are properties.
LEMMA PropsFacts ==
  /\ Props \subseteq Rows /\ NoProps \in Props
  /\ \A n \in Logins : Prop("ms", n) \in Props /\ Prop("portal", n) \in Props
  /\ \A p, q \in Props : Merged(q, p) \in Props
<1>1. Props \subseteq Rows
  BY DEF Props, Rows
<1>2. NoProps \in Props
  <2>1. NoProps \in [{} -> Logins] /\ {} \in SUBSET {"ms", "portal"}
    BY DEF NoProps
  <2> QED BY <2>1 DEF Props
<1>3. ASSUME NEW n \in Logins, NEW k \in {"ms", "portal"} PROVE Prop(k, n) \in Props
  <2>1. Prop(k, n) \in [{k} -> Logins] /\ {k} \in SUBSET {"ms", "portal"}
    BY DEF Prop
  <2> QED BY <2>1 DEF Props
<1>4. ASSUME NEW p \in Props, NEW q \in Props PROVE Merged(q, p) \in Props
  <2>1. PICK D \in SUBSET {"ms", "portal"} : p \in [D -> Logins]
    BY DEF Props
  <2>2. PICK E \in SUBSET {"ms", "portal"} : q \in [E -> Logins]
    BY DEF Props
  <2>3. Merged(q, p) \in [D \cup E -> Logins] /\ D \cup E \in SUBSET {"ms", "portal"}
    BY <2>1, <2>2 DEF Merged
  <2> QED BY <2>3 DEF Props
<1> QED BY <1>1, <1>2, <1>3, <1>4

\* At the start nobody has logged in.
LEMMA LoginsStart == UserAuthInit => LoginsInv
<1> SUFFICES ASSUME UserAuthInit PROVE LoginsInv
  OBVIOUS
<1>1. row \in Rows /\ NoProps \in Rows /\ NoProps \in Props
  BY PropsFacts DEF UserAuthInit, Rows
<1>2. JobsTyped
  BY <1>1 DEF UserAuthInit, JobsTyped, Jobs, UaPlaces
<1>3. DOMAIN pendingStates = {}
  BY DEF UserAuthInit, NoProps
<1> QED BY <1>1, <1>2, <1>3, LoginFacts DEF UserAuthInit, LoginsInv

\* A job moves on, or begins to write.
LEMMA JobMoves ==
  ASSUME JobsTyped, NEW j \in UaJobs, NEW pc \in UaPlaces,
         \/ GoesTo(j, pc)
         \/ \E auth \in Rows : job' = [job EXCEPT ![j].pc = pc, ![j].auth = auth]
         \/ \E seen \in Rows : job' = [job EXCEPT ![j].pc = pc, ![j].seen = seen]
         \/ \E props \in Props : Upsert(j, props, pc)
  PROVE  JobsTyped'
<1>1. CASE GoesTo(j, pc)
  BY <1>1 DEF GoesTo, JobsTyped, Jobs
<1>2. CASE \E auth \in Rows : job' = [job EXCEPT ![j].pc = pc, ![j].auth = auth]
  <2>1. PICK auth \in Rows : job' = [job EXCEPT ![j].pc = pc, ![j].auth = auth]
    BY <1>2
  <2>2. job' = [job EXCEPT ![j] = [job[j] EXCEPT !.pc = pc, !.auth = auth]]
    BY <2>1 DEF JobsTyped, Jobs
  <2> QED BY <2>2 DEF JobsTyped, Jobs
<1>3. CASE \E seen \in Rows : job' = [job EXCEPT ![j].pc = pc, ![j].seen = seen]
  <2>1. PICK seen \in Rows : job' = [job EXCEPT ![j].pc = pc, ![j].seen = seen]
    BY <1>3
  <2>2. job' = [job EXCEPT ![j] = [job[j] EXCEPT !.pc = pc, !.seen = seen]]
    BY <2>1 DEF JobsTyped, Jobs
  <2> QED BY <2>2 DEF JobsTyped, Jobs
<1>4. CASE \E props \in Props : Upsert(j, props, pc)
  <2>1. PICK props \in Props : job' = [job EXCEPT ![j].pc = "reading", ![j].props = props, ![j].then = pc]
    BY <1>4 DEF Upsert
  <2>2. job' = [job EXCEPT ![j] = [job[j] EXCEPT !.pc = "reading", !.props = props, !.then = pc]]
    BY <2>1 DEF JobsTyped, Jobs
  <2>3. job[j] \in Jobs /\ "reading" \in UaPlaces
    BY DEF JobsTyped, UaPlaces
  <2>4. [job[j] EXCEPT !.pc = "reading", !.props = props, !.then = pc] \in Jobs
    BY <2>3 DEF Jobs
  <2> QED BY <2>2, <2>4 DEF JobsTyped
<1> QED BY <1>1, <1>2, <1>3, <1>4

\* Links are made, grow old and go.
LinksTyped ==
  /\ DOMAIN pendingStates \subseteq OAuthStates
  /\ \A s \in DOMAIN pendingStates : pendingStates[s] \in 0 .. StateTtl + 1
  /\ usedStates \in [OAuthStates -> Nat]

\* A new link is of age 0.
LEMMA LinkMade ==
  ASSUME LinksTyped, NEW s \in OAuthStates, NewLink(s)
  PROVE  LinksTyped'
<1>1. DOMAIN pendingStates' = DOMAIN pendingStates \cup {s}
  BY DEF NewLink, Merged, Prop
<1>2. \A t \in DOMAIN pendingStates' : pendingStates'[t] = IF t \in DOMAIN pendingStates THEN pendingStates[t] ELSE 0
  BY DEF NewLink, Merged, Prop
<1>3. 0 \in 0 .. StateTtl + 1
  BY UserAuthAssumption
<1> QED BY <1>1, <1>2, <1>3 DEF LinksTyped, NewLink

\* Who has to log in again is at the end.
LEMMA ReauthTyped ==
  ASSUME JobsTyped, LinksTyped, NEW j \in UaJobs, Reauth(j)
  PROVE  JobsTyped' /\ LinksTyped'
<1>1. JobsTyped'
  <2>1. "done" \in UaPlaces
    BY DEF UaPlaces
  <2> QED BY <2>1, JobMoves DEF Reauth
<1>2. LinksTyped'
  BY LinkMade DEF Reauth, linkVars, LinksTyped
<1> QED BY <1>1, <1>2

\* Every step keeps this.
LEMMA LoginsSteps == LoginsInv /\ [UserAuthNext]_uaVars => LoginsInv'
<1> SUFFICES ASSUME LoginsInv, [UserAuthNext]_uaVars PROVE LoginsInv'
  OBVIOUS
<1>0. /\ row \in Rows /\ logins \in Logins /\ JobsTyped /\ LinksTyped
  BY DEF LoginsInv, LinksTyped
<1>z. row' \in Rows /\ logins' \in Logins /\ JobsTyped' /\ LinksTyped' => LoginsInv'
  BY DEF LoginsInv, LinksTyped
<1>l. \A p \in {"ms", "portal"} : \A r \in Rows : Prop(p, Login(r)) \in Props /\ Prop(p, Portal(r)) \in Props
  BY LoginFacts, PropsFacts
<1>j. job \in [UaJobs -> Jobs]
  BY <1>0 DEF JobsTyped
<1>k. ASSUME UNCHANGED linkVars PROVE LinksTyped'
  BY <1>0, <1>k DEF linkVars, LinksTyped
<1>1. CASE AskForLink
  <2>1. JobsTyped' /\ UNCHANGED <<row, logins>>
    BY <1>0, <1>1 DEF AskForLink, JobsTyped
  <2>2. LinksTyped'
    BY <1>0, <1>1, LinkMade DEF AskForLink
  <2> QED BY <1>0, <1>z, <2>1, <2>2
<1>2. CASE AuthTick
  <2>1. JobsTyped' /\ UNCHANGED <<row, logins>>
    BY <1>0, <1>2 DEF AuthTick, JobsTyped
  <2>2. /\ DOMAIN pendingStates' = DOMAIN pendingStates /\ usedStates' = usedStates
        /\ \A s \in DOMAIN pendingStates :
             pendingStates'[s] = IF pendingStates[s] <= StateTtl THEN pendingStates[s] + 1 ELSE pendingStates[s]
    BY <1>2 DEF AuthTick
  <2>3. \A n \in 0 .. StateTtl + 1 : n <= StateTtl => n + 1 \in 0 .. StateTtl + 1
    BY UserAuthAssumption
  <2>4. LinksTyped'
    BY <1>0, <2>2, <2>3 DEF LinksTyped
  <2> QED BY <1>0, <1>z, <2>1, <2>4
<1>3. CASE CleanupStates
  <2>1. JobsTyped' /\ UNCHANGED <<row, logins>>
    BY <1>0, <1>3 DEF CleanupStates, JobsTyped
  <2>2. LinksTyped'
    BY <1>0, <1>3 DEF CleanupStates, LinksTyped
  <2> QED BY <1>0, <1>z, <2>1, <2>2
<1>4. ASSUME NEW j \in UaJobs, UpsertReads(j) PROVE LoginsInv'
  <2>1. JobsTyped'
    <3>1. "writing" \in UaPlaces
      BY DEF UaPlaces
    <3> QED BY <1>0, <1>4, <3>1, JobMoves DEF UpsertReads
  <2>2. LinksTyped' /\ UNCHANGED <<row, logins>>
    BY <1>4, <1>k DEF UpsertReads
  <2> QED BY <1>0, <1>z, <2>1, <2>2
<1>5. ASSUME NEW j \in UaJobs, UpsertWrites(j) PROVE LoginsInv'
  <2>1. \E pc \in UaPlaces : GoesTo(j, pc)
    <3>1. job[j].then \in UaPlaces
      BY <1>j DEF Jobs
    <3> QED BY <1>5, <3>1 DEF UpsertWrites, UaPlaces
  <2>2. JobsTyped'
    BY <1>0, <2>1, JobMoves
  <2>3. row' \in Rows
    <3>1. job[j].props \in Props /\ job[j].seen \in Rows
      BY <1>j DEF Jobs
    <3>2. job[j].seen # NoRow => job[j].seen \in Props
      BY <3>1 DEF Rows, Props
    <3>3. row' \in {row, job[j].props} \/ (job[j].seen # NoRow /\ row' = Merged(job[j].seen, job[j].props))
      BY <1>5 DEF UpsertWrites
    <3>4. CASE row' \in {row, job[j].props}
      BY <1>0, <3>1, <3>4, PropsFacts
    <3>5. CASE job[j].seen # NoRow /\ row' = Merged(job[j].seen, job[j].props)
      BY <3>1, <3>2, <3>5, PropsFacts
    <3> QED BY <3>3, <3>4, <3>5
  <2>4. LinksTyped' /\ logins' = logins
    BY <1>5, <1>k DEF UpsertWrites
  <2> QED BY <1>0, <1>z, <2>2, <2>3, <2>4
<1>6. ASSUME NEW j \in UaJobs, NEW s \in OAuthStates, Callback(j, s) PROVE LoginsInv'
  <2>1. \E pc \in UaPlaces : GoesTo(j, pc)
    BY <1>6 DEF Callback, UaPlaces
  <2>2. JobsTyped' /\ UNCHANGED <<row, logins>>
    BY <1>0, <1>6, <2>1, JobMoves DEF Callback
  <2>3. LinksTyped'
    BY <1>0, <1>6, <1>k DEF Callback, Forget, LinksTyped
  <2> QED BY <1>0, <1>z, <2>2, <2>3
<1>7. ASSUME NEW j \in UaJobs, Exchanged(j) PROVE LoginsInv'
  <2>1. logins + 1 \in Logins /\ logins' = logins + 1
    BY <1>0, <1>7, LoginFacts DEF Exchanged, Logins
  <2>2. Prop("ms", logins + 1) \in Props
    BY <2>1, PropsFacts
  <2>3. JobsTyped'
    <3>1. "done" \in UaPlaces
      BY DEF UaPlaces
    <3> QED BY <1>0, <1>7, <2>2, <3>1, JobMoves DEF Exchanged
  <2>4. LinksTyped' /\ row' = row
    BY <1>7, <1>k DEF Exchanged
  <2> QED BY <1>0, <1>z, <2>1, <2>3, <2>4
<1>8. ASSUME NEW j \in UaJobs,
             \/ ExchangeFails(j) \/ UpdateProfile(j) \/ Refreshed(j) \/ PortalRefreshed(j) \/ PortalExchanged(j)
             \/ AgentAnswered(j) \/ RefreshedAgain(j) \/ AgentAnsweredAgain(j)
      PROVE  LoginsInv'
  <2>1. job[j].auth \in Rows
    BY <1>j DEF Jobs
  <2>2. \E pc \in UaPlaces : GoesTo(j, pc) \/ \E props \in Props : Upsert(j, props, pc)
    BY <1>8, <1>l, <2>1, PropsFacts
       DEF ExchangeFails, UpdateProfile, Refreshed, PortalRefreshed, PortalExchanged, AgentAnswered,
           RefreshedAgain, AgentAnsweredAgain, UaPlaces
  <2>3. JobsTyped'
    BY <1>0, <2>2, JobMoves
  <2>4. UNCHANGED <<row, linkVars, logins>>
    BY <1>8
       DEF ExchangeFails, UpdateProfile, Refreshed, PortalRefreshed, PortalExchanged, AgentAnswered,
           RefreshedAgain, AgentAnsweredAgain
  <2>5. LinksTyped' /\ row' = row /\ logins' = logins
    BY <1>k, <2>4
  <2> QED BY <1>0, <1>z, <2>3, <2>5
<1>9. ASSUME NEW j \in UaJobs, AgentAnsweredExpired(j) PROVE LoginsInv'
  <2>1. \E pc \in UaPlaces : job' = [job EXCEPT ![j].pc = pc, ![j].auth = row]
    BY <1>9 DEF AgentAnsweredExpired, UaPlaces
  <2>2. JobsTyped'
    BY <1>0, <2>1, JobMoves
  <2>3. LinksTyped' /\ row' = row /\ logins' = logins
    BY <1>9, <1>k DEF AgentAnsweredExpired
  <2> QED BY <1>0, <1>z, <2>2, <2>3
<1>10. ASSUME NEW j \in UaJobs, RefreshFails(j) \/ PortalExchangeFails(j) PROVE LoginsInv'
  <2>1. Reauth(j) /\ UNCHANGED <<row, logins>>
    BY <1>10 DEF RefreshFails, PortalExchangeFails
  <2> QED BY <1>0, <1>z, <2>1, ReauthTyped
<1>11. ASSUME NEW j \in UaJobs, PortalRefreshFails(j) PROVE LoginsInv'
  <2>1. UNCHANGED <<row, logins>>
    BY <1>11 DEF PortalRefreshFails
  <2>2. CASE Reauth(j)
    BY <1>0, <1>z, <2>1, <2>2, ReauthTyped
  <2>3. CASE UNCHANGED linkVars /\ \E pc \in {"refreshing", "exchanging portal"} : GoesTo(j, pc)
    <3>1. \E pc \in UaPlaces : GoesTo(j, pc)
      BY <2>3 DEF UaPlaces
    <3>2. JobsTyped'
      BY <1>0, <3>1, JobMoves
    <3> QED BY <1>0, <1>k, <1>z, <2>1, <2>3, <3>2
  <2> QED BY <1>11, <2>2, <2>3 DEF PortalRefreshFails
<1>12. ASSUME NEW j \in UaJobs, StartRequest(j) PROVE LoginsInv'
  <2>1. UNCHANGED <<row, logins>>
    BY <1>12 DEF StartRequest
  <2>2. CASE Reauth(j)
    BY <1>0, <1>z, <2>1, <2>2, ReauthTyped
  <2>3. CASE UNCHANGED linkVars /\ \E pc \in UaPlaces : job' = [job EXCEPT ![j].pc = pc, ![j].auth = row]
    <3>1. JobsTyped'
      BY <1>0, <2>3, JobMoves
    <3> QED BY <1>0, <1>k, <1>z, <2>1, <2>3, <3>1
  <2> QED BY <1>12, <2>2, <2>3 DEF StartRequest, UaPlaces
<1>13. CASE UNCHANGED uaVars
  BY <1>0, <1>13, <1>k, <1>z DEF uaVars, linkVars, JobsTyped
<1> QED BY <1>1, <1>2, <1>3, <1>4, <1>5, <1>6, <1>7, <1>8, <1>9, <1>10, <1>11, <1>12, <1>13 DEF UserAuthNext

\* Which makes the types of the logins.
LEMMA LoginsTyped == LoginsInv => UserAuthTypeOK
<1> SUFFICES ASSUME LoginsInv PROVE UserAuthTypeOK
  OBVIOUS
<1>1. \A j \in UaJobs : {job[j].auth, job[j].seen, job[j].props} \subseteq Rows
  BY PropsFacts DEF LoginsInv, JobsTyped, Jobs
<1> QED BY <1>1 DEF LoginsInv, UserAuthTypeOK

-----------------------------------------------------------------------------
\* Changes: a request is of a channel, and grows old until it is late.
ChangesInv ==
  /\ ChangeControlTypeOK
  /\ \A id \in pendingIds : change[id] \in ChangeRequests

\* Nothing is requested at the start.
LEMMA ChangesStart == ChangeControlInit => ChangesInv
<1> SUFFICES ASSUME ChangeControlInit PROVE ChangesInv
  OBVIOUS
<1>1. 0 \in 0 .. BatchSize - 1 /\ 0 \in 0 .. BatchSize /\ 0 \in 0 .. DismissThreshold
  BY ChangeControlAssumption
<1>2. included \subseteq CcChannels
  BY DEF ChangeControlInit
<1> QED BY <1>1, <1>2 DEF ChangeControlInit, ChangesInv, ChangeControlTypeOK

\* A new request waits, and the others stay.
LEMMA RequestTyped ==
  ASSUME ChangesInv, NEW type \in Types, NEW c \in CcChannels, Requested(type, c)
  PROVE  /\ change' \in [ChangeIds -> ChangeRequests \cup {NoChange}] /\ pendingIds' \subseteq ChangeIds
         /\ \A id \in pendingIds' : change'[id] \in ChangeRequests
<1>1. PICK id \in ChangeIds :
        /\ change' = [change EXCEPT ![id] = [type |-> type, channel |-> c, age |-> 0, status |-> "pending"]]
        /\ pendingIds' = pendingIds \cup {id}
  BY DEF Requested
<1>2. [type |-> type, channel |-> c, age |-> 0, status |-> "pending"] \in ChangeRequests
  <2>1. 0 \in 0 .. ChangeExpiry + 1
    BY ChangeControlAssumption
  <2> QED BY <2>1 DEF ChangeRequests
<1> QED BY <1>1, <1>2 DEF ChangesInv, ChangeControlTypeOK

\* A request that is decided stays a request.
LEMMA DecidedTyped ==
  ASSUME ChangesInv, NEW id \in pendingIds, NEW s \in {"expired", "approved", "rejected"},
         change' = [change EXCEPT ![id].status = s]
  PROVE  /\ change' \in [ChangeIds -> ChangeRequests \cup {NoChange}]
         /\ \A i \in pendingIds : change'[i] \in ChangeRequests
<1>1. change[id] \in ChangeRequests /\ change \in [ChangeIds -> ChangeRequests \cup {NoChange}] /\ pendingIds \subseteq ChangeIds
  BY DEF ChangesInv, ChangeControlTypeOK
<1>2. change' = [change EXCEPT ![id] = [change[id] EXCEPT !.status = s]]
  BY <1>1
<1>3. [change[id] EXCEPT !.status = s] \in ChangeRequests
  BY <1>1 DEF ChangeRequests
<1> QED BY <1>1, <1>2, <1>3 DEF ChangesInv

\* Every step makes, decides or ages requests, and keeps the counts of the listener
\* and the feedback.
LEMMA ChangesSteps == ChangesInv /\ [ChangeControlNext]_ccVars => ChangesInv'
<1> SUFFICES ASSUME ChangesInv, [ChangeControlNext]_ccVars PROVE ChangesInv'
  OBVIOUS
<1> USE ChangeControlAssumption
<1>0. /\ ChangeControlTypeOK /\ pendingIds \subseteq ChangeIds
      /\ \A id \in pendingIds : change[id] \in ChangeRequests
  BY DEF ChangesInv, ChangeControlTypeOK
<1>1. ASSUME NEW c \in CcChannels, NEW type \in Types, Command(type, c) PROVE ChangesInv'
  <2>1. UNCHANGED <<included, excluded, buffered, sinceRemoval, traceVars, proactive, dismissals, disabled>>
    BY <1>1 DEF Command, listenerVars, feedbackVars
  <2> QED BY <1>0, <1>1, <2>1, RequestTyped DEF Command, ChangesInv, ChangeControlTypeOK, traceVars
<1>2. ASSUME NEW c \in CcChannels, ObserveMessage(c) PROVE ChangesInv'
  <2>1. buffered' \in [CcChannels -> 0 .. BatchSize - 1]
    <3>1. \A n \in 0 .. BatchSize - 1 : n + 1 < BatchSize => n + 1 \in 0 .. BatchSize - 1
      OBVIOUS
    <3>2. 0 \in 0 .. BatchSize - 1 /\ buffered[c] \in 0 .. BatchSize - 1
      BY <1>0 DEF ChangeControlTypeOK
    <3>3. (IF buffered[c] + 1 >= BatchSize THEN 0 ELSE buffered[c] + 1) \in 0 .. BatchSize - 1
      BY <3>1, <3>2
    <3> QED BY <1>0, <1>2, <3>3 DEF ObserveMessage, ChangeControlTypeOK
  <2>2. sinceRemoval' \in [CcChannels -> 0 .. BatchSize]
    <3>1. (IF sinceRemoval[c] < BatchSize THEN sinceRemoval[c] + 1 ELSE sinceRemoval[c]) \in 0 .. BatchSize
      <4>1. sinceRemoval[c] \in 0 .. BatchSize
        BY <1>0 DEF ChangeControlTypeOK
      <4> QED BY <4>1
    <3> QED BY <1>0, <1>2, <3>1 DEF ObserveMessage, ChangeControlTypeOK
  <2>3. remembered' \subseteq CcChannels /\ topics' \subseteq CcChannels /\ insightful' \subseteq CcChannels
    BY <1>0, <1>2 DEF ObserveMessage, Analyze, ChangeControlTypeOK
  <2> QED BY <1>0, <1>2, <2>1, <2>2, <2>3 DEF ObserveMessage, ChangesInv, ChangeControlTypeOK, ccRequestVars, feedbackVars
<1>3. ASSUME NEW c \in CcChannels, Accept(c) PROVE ChangesInv'
  <2>1. dismissals' \in [CcChannels -> 0 .. DismissThreshold]
    BY <1>0, <1>3 DEF Accept, ChangeControlTypeOK
  <2> QED BY <1>0, <1>3, <2>1 DEF Accept, ChangesInv, ChangeControlTypeOK, ccRequestVars, listenerVars, traceVars
<1>4. ASSUME NEW c \in CcChannels, Dismiss(c) PROVE ChangesInv'
  <2>1. dismissals' \in [CcChannels -> 0 .. DismissThreshold]
    <3>1. dismissals[c] \in 0 .. DismissThreshold
      BY <1>0 DEF ChangeControlTypeOK
    <3>2. (IF dismissals[c] < DismissThreshold THEN dismissals[c] + 1 ELSE dismissals[c]) \in 0 .. DismissThreshold
      BY <3>1
    <3> QED BY <1>0, <1>4, <3>2 DEF Dismiss, ChangeControlTypeOK
  <2>2. /\ disabled' \subseteq CcChannels
        /\ change' \in [ChangeIds -> ChangeRequests \cup {NoChange}] /\ pendingIds' \subseteq ChangeIds
        /\ \A id \in pendingIds' : change'[id] \in ChangeRequests
    <3>1. CASE disabled' = disabled \cup {c} /\ Requested("disable pattern", c)
      <4>1. "disable pattern" \in Types
        BY DEF Types
      <4> QED BY <1>0, <3>1, <4>1, RequestTyped DEF ChangeControlTypeOK
    <3>2. CASE UNCHANGED <<disabled, ccRequestVars>>
      BY <1>0, <3>2 DEF ChangeControlTypeOK, ccRequestVars
    <3> QED BY <1>4, <3>1, <3>2 DEF Dismiss
  <2> QED BY <1>0, <1>4, <2>1, <2>2 DEF Dismiss, ChangesInv, ChangeControlTypeOK, listenerVars, traceVars
<1>5. ASSUME NEW id \in ChangeIds, Approve(id) PROVE ChangesInv'
  <2>1. /\ \E s \in {"expired", "approved", "rejected"} : change' = [change EXCEPT ![id].status = s]
        /\ pendingIds' \subseteq pendingIds /\ id \in pendingIds /\ UNCHANGED <<traceVars, dismissals, disabled>>
    BY <1>5 DEF Approve, feedbackVars
  <2>2. /\ change' \in [ChangeIds -> ChangeRequests \cup {NoChange}]
        /\ \A i \in pendingIds : change'[i] \in ChangeRequests
    BY <2>1, DecidedTyped
  <2>3. change[id].channel \in CcChannels
    BY <1>0, <2>1 DEF ChangeRequests
  <2>4. /\ included' \subseteq CcChannels /\ excluded' \subseteq CcChannels
        /\ buffered' \in [CcChannels -> 0 .. BatchSize - 1] /\ sinceRemoval' \in [CcChannels -> 0 .. BatchSize]
        /\ proactive' \subseteq CcChannels
    <3>1. CASE UNCHANGED <<listenerVars, proactive>>
      BY <1>0, <3>1 DEF listenerVars, ChangeControlTypeOK
    <3>2. CASE Apply(change[id])
      <4>1. proactive' \subseteq CcChannels
        BY <1>0, <2>3, <3>2 DEF Apply, ChangeControlTypeOK
      <4>2. 0 \in 0 .. BatchSize - 1 /\ 0 \in 0 .. BatchSize
        OBVIOUS
      <4>3. Listen(change[id].channel) \/ Ignore(change[id].channel) \/ UNCHANGED listenerVars
        BY <3>2 DEF Apply
      <4> QED BY <1>0, <2>3, <4>1, <4>2, <4>3 DEF Listen, Ignore, listenerVars, ChangeControlTypeOK
    <3> QED BY <1>5, <3>1, <3>2 DEF Approve
  <2> QED BY <1>0, <2>1, <2>2, <2>4 DEF ChangesInv, ChangeControlTypeOK, traceVars
<1>6. ASSUME NEW id \in ChangeIds, Reject(id) PROVE ChangesInv'
  <2>1. /\ change' = [change EXCEPT ![id].status = "rejected"] /\ id \in pendingIds
        /\ pendingIds' = pendingIds \ {id}
        /\ UNCHANGED <<included, excluded, buffered, sinceRemoval, traceVars, proactive, dismissals, disabled>>
    BY <1>6 DEF Reject, listenerVars, feedbackVars
  <2>2. /\ change' \in [ChangeIds -> ChangeRequests \cup {NoChange}]
        /\ \A i \in pendingIds : change'[i] \in ChangeRequests
    BY <2>1, DecidedTyped
  <2> QED BY <1>0, <2>1, <2>2 DEF ChangesInv, ChangeControlTypeOK, traceVars
<1>7. CASE CleanupChanges \/ ChangeTick
  <2>1. /\ pendingIds' \subseteq pendingIds
        /\ UNCHANGED <<included, excluded, buffered, sinceRemoval, traceVars, proactive, dismissals, disabled>>
    BY <1>7 DEF CleanupChanges, ChangeTick, listenerVars, feedbackVars
  <2>2. \A id \in pendingIds : [change[id] EXCEPT !.status = "expired"] \in ChangeRequests
    BY <1>0 DEF ChangeRequests
  <2>3. ASSUME NEW id \in pendingIds, ~ Late(id) PROVE [change[id] EXCEPT !.age = @ + 1] \in ChangeRequests
    <3>1. change[id] \in ChangeRequests
      BY <1>0
    <3>2. change[id].age + 1 \in 0 .. ChangeExpiry + 1
      BY <2>3, <3>1 DEF Late, ChangeRequests
    <3> QED BY <3>1, <3>2 DEF ChangeRequests
  <2>4. DOMAIN change' = ChangeIds /\ \A id \in ChangeIds : change'[id] = change[id] \/ (id \in pendingIds /\ change'[id] \in ChangeRequests)
    BY <1>7, <2>2, <2>3 DEF CleanupChanges, ChangeTick
  <2>5. change' = [id \in ChangeIds |-> change'[id]]
    BY <1>7 DEF CleanupChanges, ChangeTick
  <2>6. change' \in [ChangeIds -> ChangeRequests \cup {NoChange}]
    BY <1>0, <2>4, <2>5 DEF ChangeControlTypeOK
  <2>7. \A id \in pendingIds' : change'[id] \in ChangeRequests
    BY <1>0, <2>1, <2>4
  <2> QED BY <1>0, <2>1, <2>6, <2>7 DEF ChangesInv, ChangeControlTypeOK, traceVars
<1>8. CASE UNCHANGED ccVars
  BY <1>0, <1>8 DEF ccVars, ccRequestVars, listenerVars, traceVars, feedbackVars, ChangesInv, ChangeControlTypeOK
<1> QED BY <1>1, <1>2, <1>3, <1>4, <1>5, <1>6, <1>7, <1>8 DEF ChangeControlNext

-----------------------------------------------------------------------------
\* Suggestions: a call that routes or posts has an insight to do so for.
InsightsInv ==
  /\ SuggestInv
  /\ store \in Seq(InIds) /\ Len(store) <= MaxInsights
  /\ status \in [InIds -> {"new", "pending", "logged", "proposed", "accepted", "dismissed"}]
  /\ createdAt \in [InIds -> 0 .. InHorizon]
  /\ lastPost \in [Channels -> 0 .. InHorizon + 1]
  /\ todo \in [InCalls -> Seq(InIds)]
  /\ \A p \in InCalls : inAt[p] \in {"routing", "posting"} => todo[p] # << >>

\* Nothing is stored at the start.
LEMMA InsightsStart == InsightsInit => InsightsInv
<1> SUFFICES ASSUME InsightsInit PROVE InsightsInv
  OBVIOUS
<1>1. << >> \in Seq(InIds) /\ Len(<< >>) <= MaxInsights /\ 0 \in 0 .. InHorizon /\ 0 \in 0 .. InHorizon + 1
  BY InsightsAssumption
<1> QED BY <1>1, SuggestionsStart DEF InsightsInit, InsightsInv

\* The first insight of a call is worked off.
LEMMA WorkedOff ==
  ASSUME InsightsInv, NEW p \in InCalls, todo[p] # << >>, NextInsight(p)
  PROVE  /\ todo' \in [InCalls -> Seq(InIds)] /\ Head(todo[p]) \in InIds
         /\ \A q \in InCalls : q # p => todo'[q] = todo[q]
<1>1. todo[p] \in Seq(InIds) /\ todo \in [InCalls -> Seq(InIds)]
  BY DEF InsightsInv
<1>2. Tail(todo[p]) \in Seq(InIds) /\ Head(todo[p]) \in InIds
  BY <1>1
<1> QED BY <1>1, <1>2 DEF NextInsight

\* The status of a stored insight changes.
LEMMA StatusTyped ==
  ASSUME InsightsInv, NEW i \in InIds, NEW s \in {"logged", "proposed", "accepted", "dismissed"},
         status' = Updated(i, s)
  PROVE  status' \in [InIds -> {"new", "pending", "logged", "proposed", "accepted", "dismissed"}]
BY DEF InsightsInv, Updated

\* Every step works off the insights of its call, and what is stored are insights.
LEMMA InsightsSteps == InsightsInv /\ [InsightsNext]_inVars => InsightsInv'
<1> SUFFICES ASSUME InsightsInv, [InsightsNext]_inVars PROVE InsightsInv'
  OBVIOUS
<1> USE InsightsAssumption
<1>0. /\ SuggestInv /\ SuggestInv' /\ store \in Seq(InIds) /\ Len(store) <= MaxInsights
      /\ todo \in [InCalls -> Seq(InIds)] /\ inNow \in 0 .. InHorizon
      /\ inAt \in [InCalls -> {"idle", "looping", "routing", "posting"}]
      /\ \A p \in InCalls : inAt[p] \in {"routing", "posting"} => todo[p] # << >>
  BY SuggestionsSteps DEF InsightsInv, SuggestInv
<1>1. ASSUME NEW i \in InIds, AddInsight(i) PROVE InsightsInv'
  <2>1. PICK room : room = IF Len(store) >= MaxInsights THEN Tail(store) ELSE store
    OBVIOUS
  <2>2. room \in Seq(InIds) /\ Len(room) + 1 <= MaxInsights
    <3>1. CASE Len(store) >= MaxInsights
      <4>1. store # << >> /\ Len(store) = MaxInsights
        BY <1>0, <3>1
      <4> QED BY <1>0, <2>1, <3>1, <4>1
    <3>2. CASE ~ (Len(store) >= MaxInsights)
      BY <1>0, <2>1, <3>2
    <3> QED BY <3>1, <3>2
  <2>3. store' = Append(room, i)
    BY <1>1, <2>1 DEF AddInsight
  <2>4. store' \in Seq(InIds) /\ Len(store') <= MaxInsights
    BY <2>2, <2>3
  <2>5. /\ status' \in [InIds -> {"new", "pending", "logged", "proposed", "accepted", "dismissed"}]
        /\ createdAt' \in [InIds -> 0 .. InHorizon]
    BY <1>0, <1>1 DEF AddInsight, InsightsInv
  <2> QED BY <1>0, <1>1, <2>4, <2>5 DEF AddInsight, InsightsInv, callVars
<1>2. ASSUME NEW i \in InIds, Feedback(i) PROVE InsightsInv'
  <2>1. status' \in [InIds -> {"new", "pending", "logged", "proposed", "accepted", "dismissed"}]
    BY <1>2, StatusTyped DEF Feedback
  <2> QED BY <1>0, <1>2, <2>1 DEF Feedback, InsightsInv, callVars
<1>3. ASSUME NEW p \in InCalls, StartProcess(p) PROVE InsightsInv'
  <2>1. PICK S : S = {i \in InIds : Alive(i)}
    OBVIOUS
  <2>2. store' = Only(store, S)
    BY <1>3, <2>1 DEF StartProcess
  <2>3. store' \in Seq(InIds) /\ Len(store') <= MaxInsights
    <3>1. Only(store, S) \in Seq(InIds) /\ Len(Only(store, S)) <= Len(store)
      BY <1>0, OnlyFacts, OnlyShorter
    <3> QED BY <1>0, <2>2, <3>1
  <2>4. PICK T : T = {i \in InIds : Contains(store, i) /\ Alive(i) /\ status[i] = "pending"}
    OBVIOUS
  <2>5. todo' = [todo EXCEPT ![p] = Only(InOrder, T)] /\ Only(InOrder, T) \in Seq(InIds)
    BY <1>3, <2>4, OnlyFacts DEF StartProcess
  <2>6. todo' \in [InCalls -> Seq(InIds)] /\ \A q \in InCalls : q # p => todo'[q] = todo[q]
    BY <1>0, <2>5
  <2>7. inAt'[p] = "looping" /\ \A q \in InCalls : q # p => inAt'[q] = inAt[q]
    BY <1>0, <1>3 DEF StartProcess
  <2>8. \A q \in InCalls : inAt'[q] \in {"routing", "posting"} => todo'[q] # << >>
    BY <1>0, <2>6, <2>7
  <2> QED BY <1>0, <1>3, <2>3, <2>6, <2>8 DEF StartProcess, InsightsInv
<1>4. ASSUME NEW p \in InCalls, LogSilently(p) PROVE InsightsInv'
  <2>1. /\ todo' \in [InCalls -> Seq(InIds)] /\ Head(todo[p]) \in InIds
        /\ \A q \in InCalls : q # p => todo'[q] = todo[q]
    BY <1>4, WorkedOff DEF LogSilently
  <2>2. status' \in [InIds -> {"new", "pending", "logged", "proposed", "accepted", "dismissed"}]
    BY <1>4, <2>1, StatusTyped DEF LogSilently
  <2>3. inAt' = inAt /\ inAt[p] = "looping"
    BY <1>4 DEF LogSilently
  <2> QED BY <1>0, <1>4, <2>1, <2>2, <2>3 DEF LogSilently, InsightsInv
<1>5. ASSUME NEW p \in InCalls, Consider(p) PROVE InsightsInv'
  <2>1. CASE inAt' = [inAt EXCEPT ![p] = "routing"] /\ UNCHANGED todo
    <3>1. \A q \in InCalls : inAt'[q] \in {"routing", "posting"} => todo'[q] # << >>
      BY <1>0, <1>5, <2>1 DEF Consider
    <3> QED BY <1>0, <1>5, <2>1, <3>1 DEF Consider, InsightsInv, storeVars
  <2>2. CASE NextInsight(p) /\ UNCHANGED inAt
    <3>1. /\ todo' \in [InCalls -> Seq(InIds)]
          /\ \A q \in InCalls : q # p => todo'[q] = todo[q]
      BY <1>5, <2>2, WorkedOff DEF Consider
    <3>2. inAt' = inAt /\ inAt[p] = "looping"
      BY <1>5, <2>2 DEF Consider
    <3> QED BY <1>0, <1>5, <3>1, <3>2 DEF Consider, InsightsInv, storeVars
  <2> QED BY <1>5, <2>1, <2>2 DEF Consider
<1>6. ASSUME NEW p \in InCalls, Routed(p) PROVE InsightsInv'
  <2>1. \A q \in InCalls : inAt'[q] \in {"routing", "posting"} => todo'[q] # << >>
    BY <1>0, <1>6 DEF Routed
  <2> QED BY <1>0, <1>6, <2>1 DEF Routed, InsightsInv, storeVars
<1>7. ASSUME NEW p \in InCalls, Posted(p) \/ PostFails(p) PROVE InsightsInv'
  <2>1. todo[p] # << >> /\ NextInsight(p) /\ inAt' = [inAt EXCEPT ![p] = "looping"]
    BY <1>0, <1>7 DEF Posted, PostFails
  <2>2. /\ todo' \in [InCalls -> Seq(InIds)] /\ Head(todo[p]) \in InIds
        /\ \A q \in InCalls : q # p => todo'[q] = todo[q]
    BY <2>1, WorkedOff
  <2>3. status' \in [InIds -> {"new", "pending", "logged", "proposed", "accepted", "dismissed"}]
    BY <1>7, <2>2, StatusTyped DEF Posted, PostFails
  <2>4. \A q \in InCalls : inAt'[q] \in {"routing", "posting"} => todo'[q] # << >>
    BY <1>0, <2>1, <2>2
  <2>5. lastPost' \in [Channels -> 0 .. InHorizon + 1]
    <3>1. inNow + 1 \in 0 .. InHorizon + 1 /\ ChannelOfInsight[Head(todo[p])] \in Channels
      BY <1>0, <2>2 DEF Channels
    <3> QED BY <1>7, <3>1 DEF Posted, PostFails, InsightsInv
  <2>6. UNCHANGED <<store, createdAt>>
    BY <1>7 DEF Posted, PostFails
  <2> QED BY <1>0, <2>2, <2>3, <2>4, <2>5, <2>6 DEF InsightsInv
<1>8. ASSUME NEW p \in InCalls, EndProcess(p) PROVE InsightsInv'
  <2>1. \A q \in InCalls : inAt'[q] \in {"routing", "posting"} => todo'[q] # << >>
    BY <1>0, <1>8 DEF EndProcess
  <2> QED BY <1>0, <1>8, <2>1 DEF EndProcess, InsightsInv, storeVars
<1>9. CASE InsightsTick
  BY <1>0, <1>9 DEF InsightsTick, InsightsInv, storeVars, callVars
<1>10. CASE UNCHANGED inVars
  BY <1>0, <1>10 DEF inVars, InsightsInv, storeVars, callVars
<1> QED BY <1>1, <1>2, <1>3, <1>4, <1>5, <1>6, <1>7, <1>8, <1>9, <1>10 DEF InsightsNext

\* Which makes the types of the suggestions.
LEMMA InsightsTyped == InsightsInv => InsightsTypeOK
<1> SUFFICES ASSUME InsightsInv PROVE InsightsTypeOK
  OBVIOUS
<1>1. Today \in Days /\ Today \in Nat /\ InHorizon \div DayLength \in Nat
  BY TodayFacts DEF InsightsInv, SuggestInv
<1>2. PICK t \in Nat : t = Today
  BY <1>1
<1>3. PICK h \in Nat : h = InHorizon \div DayLength
  BY <1>1
<1>4. t \in 0 .. h /\ budgetDay \in 0 .. t
  BY <1>1, <1>2, <1>3 DEF InsightsInv, SuggestInv, Days
<1>5. budgetDay \in Days
  BY <1>3, <1>4 DEF Days
<1> QED BY <1>5 DEF InsightsInv, SuggestInv, InsightsTypeOK

-----------------------------------------------------------------------------
(* Long-term memory and the windows of the rate limiter.                    *)

\* A cached view, and one that is built, is one that may be asked for.
ViewsKnown ==
  /\ DOMAIN cache \subseteq KnViews /\ spared \in BOOLEAN
  /\ building = [r \in KnReaders |-> building[r]]
  /\ \A r \in KnReaders : building[r].view \in KnViews \/ building[r] = NoBuild

\* Nothing is cached or built at the start.
LEMMA ViewsStart == KnowledgeInit => ViewsKnown
BY DEF KnowledgeInit, ViewsKnown

\* What is forgotten is no other view.
LEMMA ForgottenViews ==
  ASSUME ViewsKnown, BuildInv, NEW V, NEW query, Forgotten(V, query), UNCHANGED spared
  PROVE  ViewsKnown'
<1>1. DOMAIN cache' \subseteq DOMAIN cache
  BY DEF Forgotten, Sans
<1>2. building' = [r \in KnReaders |->
       IF building[r] # NoBuild /\ building[r].view \in V /\ query \notin Elements(building[r].queries)
       THEN [building[r] EXCEPT !.flawed = TRUE] ELSE building[r]]
  BY DEF Forgotten
<1>3. ASSUME NEW r \in KnReaders PROVE building'[r].view \in KnViews \/ building'[r] = NoBuild
  <2>1. building[r].view \in KnViews \/ building[r] = NoBuild
    BY DEF ViewsKnown
  <2>2. building[r] = [view |-> building[r].view, queries |-> building[r].queries,
                       seen |-> building[r].seen, flawed |-> building[r].flawed]
    BY DEF BuildInv, BuildOK
  <2>3. \/ building[r] # NoBuild /\ building'[r] = [building[r] EXCEPT !.flawed = TRUE]
        \/ building'[r] = building[r]
    BY <1>2
  <2> QED BY <2>1, <2>2, <2>3
<1> QED BY <1>1, <1>2, <1>3 DEF ViewsKnown

\* Every step asks for, builds and caches such views only.
LEMMA ViewsSteps == ViewsKnown /\ BuildInv /\ [KnowledgeNext]_knVars => ViewsKnown'
<1> SUFFICES ASSUME ViewsKnown, BuildInv, [KnowledgeNext]_knVars PROVE ViewsKnown'
  OBVIOUS
<1>0. /\ building = [r \in KnReaders |-> building[r]] /\ DOMAIN cache \subseteq KnViews /\ spared \in BOOLEAN
      /\ \A r \in KnReaders : building[r].view \in KnViews \/ building[r] = NoBuild
  BY DEF ViewsKnown
<1>1. CASE UNCHANGED <<readVars, spared>>
  BY <1>0, <1>1 DEF ViewsKnown, readVars
<1>2. ASSUME NEW r \in KnReaders, NEW v \in KnViews, StartView(r, v) PROVE ViewsKnown'
  <2>1. /\ cache' = cache /\ spared' = spared
        /\ building' = [building EXCEPT ![r] = [view |-> v, queries |-> Queries(v), seen |-> {}, flawed |-> FALSE]]
    BY <1>2 DEF StartView, jobVars
  <2> QED BY <1>0, <2>1 DEF ViewsKnown
<1>3. ASSUME NEW r \in KnReaders, ReadView(r) PROVE ViewsKnown'
  <2>1. /\ cache' = cache /\ spared' = spared /\ building[r].queries # <<>>
        /\ building' = [building EXCEPT ![r].queries = Tail(@),
                          ![r].seen = @ \cup Found(building[r].view, Head(building[r].queries))]
    BY <1>3 DEF ReadView, jobVars
  <2>2. building[r].view \in KnViews
    BY <1>0, <2>1 DEF NoBuild
  <2>3. PICK b : b = building'[r]
    OBVIOUS
  <2>4. building[r] = [view |-> building[r].view, queries |-> building[r].queries,
                       seen |-> building[r].seen, flawed |-> building[r].flawed]
    BY DEF BuildInv, BuildOK
  <2>5. building'[r].view = building[r].view
    BY <1>0, <2>1, <2>4
  <2>6. \A q \in KnReaders : q # r => building'[q] = building[q]
    BY <1>0, <2>1
  <2>7. building' = [q \in KnReaders |-> building'[q]]
    BY <1>0, <2>1
  <2> QED BY <1>0, <2>1, <2>2, <2>5, <2>6, <2>7 DEF ViewsKnown
<1>4. ASSUME NEW r \in KnReaders, ReadFails(r) PROVE ViewsKnown'
  <2>1. /\ cache' = cache /\ spared' = spared /\ building[r].queries # <<>>
        /\ building' = [building EXCEPT ![r] =
             IF building[r].view.of = "profile"
             THEN [building[r] EXCEPT !.queries = Tail(@), !.flawed = TRUE] ELSE NoBuild]
    BY <1>4 DEF ReadFails, jobVars
  <2>2. building[r].view \in KnViews
    BY <1>0, <2>1 DEF NoBuild
  <2>3. building[r] = [view |-> building[r].view, queries |-> building[r].queries,
                       seen |-> building[r].seen, flawed |-> building[r].flawed]
    BY DEF BuildInv, BuildOK
  <2>4. building'[r].view \in KnViews \/ building'[r] = NoBuild
    BY <1>0, <2>1, <2>2, <2>3
  <2>5. \A q \in KnReaders : q # r => building'[q] = building[q]
    BY <1>0, <2>1
  <2>6. building' = [q \in KnReaders |-> building'[q]]
    BY <1>0, <2>1
  <2> QED BY <1>0, <2>1, <2>4, <2>5, <2>6 DEF ViewsKnown
<1>5. ASSUME NEW r \in KnReaders, ShowView(r) PROVE ViewsKnown'
  <2>1. /\ building[r] # NoBuild /\ spared' = spared
        /\ cache' = With(cache, building[r].view, [seen |-> building[r].seen, flawed |-> building[r].flawed])
        /\ building' = [building EXCEPT ![r] = NoBuild]
    BY <1>5 DEF ShowView, jobVars
  <2>2. DOMAIN cache' = DOMAIN cache \cup {building[r].view} /\ building[r].view \in KnViews
    BY <1>0, <2>1 DEF With
  <2> QED BY <1>0, <2>1, <2>2 DEF ViewsKnown
<1>6. ASSUME NEW v \in KnViews, ViewExpires(v) PROVE ViewsKnown'
  <2>1. DOMAIN cache' \subseteq DOMAIN cache /\ building' = building /\ spared' = spared
    BY <1>6 DEF ViewExpires, Sans, jobVars
  <2> QED BY <1>0, <2>1 DEF ViewsKnown
<1>7. ASSUME NEW j \in KnJobs, \/ Distil(j) \/ Accepted(j) \/ Declined(j) \/ SaveRow(j)
                               \/ SaveFails(j) \/ CreateMemory(j) \/ CountRows(j) \/ ArchiveRows(j)
      PROVE  ViewsKnown'
  BY <1>1, <1>7 DEF Distil, Accepted, Declined, SaveRow, SaveFails, CreateMemory, CountRows, ArchiveRows
<1>8. ASSUME NEW j \in KnJobs, Saved(j) PROVE ViewsKnown'
  <2>1. Forgotten({Profile(KnUserOf[j])}, KnType[Head(left[j])]) /\ UNCHANGED spared
    BY <1>8 DEF Saved, RefreshProfile
  <2> QED BY <2>1, ForgottenViews
<1>9. ASSUME NEW j \in KnJobs, SessionIndexed(j) PROVE ViewsKnown'
  <2>1. /\ UNCHANGED spared
        /\ Forgotten(BulletinsOf(KnChannelOf[j]), "decisions") \/ UNCHANGED readVars
    BY <1>9 DEF SessionIndexed
  <2> QED BY <1>1, <2>1, ForgottenViews
<1>10. ASSUME NEW j \in KnJobs, EnforcementFails(j) PROVE ViewsKnown'
  <2>1. UNCHANGED readVars /\ spared' = TRUE
    BY <1>10 DEF EnforcementFails
  <2> QED BY <1>0, <2>1 DEF ViewsKnown, readVars
<1>11. CASE UNCHANGED knVars
  BY <1>1, <1>11 DEF knVars, readVars
<1> QED BY <1>2, <1>3, <1>4, <1>5, <1>6, <1>7, <1>8, <1>9, <1>10, <1>11 DEF KnowledgeNext

\* With the rows and the jobs in order, these are the types of the memory.
LEMMA KnowledgeTyped == KnowInv /\ ViewsKnown => KnowledgeTypeOK
BY DEF KnowInv, ViewsKnown, JobsInv, TablesInv, IsRow, KnSteps, KnowledgeTypeOK

-----------------------------------------------------------------------------
\* The windows are of the length the clean-up leaves, the oldest request first.
LEMMA RateTyped == ModerateInv => RateTypeOK
<1> SUFFICES ASSUME ModerateInv PROVE RateTypeOK
  OBVIOUS
<1>1. /\ windows = [u \in Users |-> windows[u]] /\ log = [u \in Users |-> log[u]]
      /\ \A u \in Users : RateSound(windows[u], log[u])
  BY DEF ModerateInv
<1>2. ASSUME NEW w, NEW g, RateSound(w, g)
      PROVE  /\ w \in Seq(Ages) /\ Len(w) <= 3 * MaxPerMinute /\ g \in Seq(RateEntries)
             /\ \A i, j \in DOMAIN w : i < j => w[i] >= w[j]
  <2>1. /\ w \in Seq(Ages) /\ Len(w) <= 3 * MaxPerMinute /\ g \in Seq(RateEntries)
        /\ \A i, j \in 1 .. Len(g) : i < j => g[i].age >= g[j].age
    BY <1>2 DEF RateSound
  <2>2. PICK l \in 0 .. Len(g) : Covers(w, g, l)
    BY <1>2 DEF RateSound
  <2>3. PICK n \in Nat : n = Len(w)
    BY <2>1
  <2>4. PICK h \in Nat : h = Len(g)
    BY <2>1
  <2>5. /\ l \in Nat /\ l <= h /\ l <= n /\ \A i \in 1 .. n - l : w[i] = Minute
        /\ \A i \in 1 .. l : w[n - l + i] = g[h - l + i].age
    BY <2>2, <2>3, <2>4 DEF Covers
  <2>6. DOMAIN w = 1 .. n /\ Minute \in Nat /\ \A i \in 1 .. n : w[i] \in 0 .. Minute
    BY <2>1, <2>3, RateAssumption DEF Ages
  <2>7. ASSUME NEW i \in 1 .. n, NEW j \in 1 .. n, i < j PROVE w[i] >= w[j]
    <3>1. CASE i <= n - l
      <4>1. w[i] = Minute
        BY <2>5, <3>1
      <4> QED BY <2>6, <4>1
    <3>2. CASE i > n - l
      <4>1. PICK a \in 1 .. l : i = n - l + a
        <5>1. i - (n - l) \in 1 .. l /\ i = n - l + (i - (n - l))
          BY <2>5, <3>2
        <5> QED BY <5>1
      <4>2. PICK b \in 1 .. l : j = n - l + b
        <5>1. j - (n - l) \in 1 .. l /\ j = n - l + (j - (n - l))
          BY <2>5, <2>7, <3>2
        <5> QED BY <5>1
      <4>3. a < b /\ h - l + a \in 1 .. h /\ h - l + b \in 1 .. h /\ h - l + a < h - l + b
        BY <2>5, <2>7, <4>1, <4>2
      <4>4. g[h - l + a].age >= g[h - l + b].age
        BY <2>1, <2>4, <4>3
      <4> QED BY <2>5, <4>1, <4>2, <4>4
    <3> QED BY <2>5, <3>1, <3>2
  <2> QED BY <2>1, <2>6, <2>7
<1>3. \A u \in Users : /\ windows[u] \in Seq(Ages) /\ Len(windows[u]) <= 3 * MaxPerMinute
                       /\ log[u] \in Seq(RateEntries)
                       /\ \A i, j \in DOMAIN windows[u] : i < j => windows[u][i] >= windows[u][j]
  BY <1>1, <1>2
<1>4. windows \in [Users -> Seq(Ages)] /\ log \in [Users -> Seq(RateEntries)]
  BY <1>1, <1>3
<1> QED BY <1>3, <1>4 DEF RateTypeOK

-----------------------------------------------------------------------------
(* Mailbox: how long a queue gets while it is restored and written to.      *)

\* What the mailbox holds in memory was sent, and is in the table if it has a status.
SentInv ==
  /\ mbSent \subseteq MbMessages /\ mbLine \in Seq(mbSent)
  /\ mbPersist \in [MbMessages -> 0 .. MbMaxPersists \cup {NotPending}]
  /\ \A m \in MbMessages : mbStatus[m] # "none" =>
       m \in mbSent /\ \E i \in 1 .. Len(mbTable) : mbTable[i] = m
  /\ \A i \in 1 .. Len(mbRestoring) : mbRestoring[i] \in mbSent

\* The agents that are written to.
Receivers == {MbTo[m] : m \in MbMessages}

\* The restore holds a queue that has room for its message, as the one that sends makes
\* room in it.
QueuesInv ==
  /\ mbQueueRef \in {"none", "live", "detached"}
  /\ mbQueueRef # "none" => mbRestoring # << >>
  /\ \A a \in Receivers :
       /\ Len(Queued(a)) <= MbMaxPerAgent + 1
       /\ mbQueueRef = "live" /\ MbTo[Head(mbRestoring)] = a => Len(Queued(a)) <= MbMaxPerAgent

\* Nothing is sent at the start.
LEMMA SentStart == MailboxInit => SentInv /\ QueuesInv
<1> SUFFICES ASSUME MailboxInit PROVE SentInv /\ QueuesInv
  OBVIOUS
<1>1. mbLine \in Seq(mbSent) /\ mbLine = << >>
  BY DEF MailboxInit
<1>2. \A a : Len(Queued(a)) = 0
  BY <1>1, OnlyEmpty DEF Queued, QueueIn
<1>3. SentInv
  BY <1>1 DEF MailboxInit, SentInv
<1>4. QueuesInv
  BY <1>2, MailboxAssumption DEF MailboxInit, QueuesInv
<1> QED BY <1>3, <1>4

\* A queue is what the line has for its agent.
LEMMA QueueFacts ==
  ASSUME NEW M, NEW line \in Seq(M), NEW a
  PROVE  /\ QueueIn(line, a) \in Seq(M) /\ Len(QueueIn(line, a)) \in Nat
         /\ \A m \in M : Len(QueueIn(Append(line, m), a)) =
              IF m \in MbMessages /\ MbTo[m] = a THEN Len(QueueIn(line, a)) + 1 ELSE Len(QueueIn(line, a))
         /\ line # << >> => Len(QueueIn(Tail(line), a)) <= Len(QueueIn(line, a)) /\ Tail(line) \in Seq(M)
         /\ \A S : /\ Only(line, S) \in Seq(M) /\ Len(QueueIn(Only(line, S), a)) <= Len(QueueIn(line, a))
                   /\ QueueIn(line, a) # << >> /\ Head(QueueIn(line, a)) \notin S =>
                        Len(QueueIn(Only(line, S), a)) <= Len(QueueIn(line, a)) - 1
<1> DEFINE T == {m \in MbMessages : MbTo[m] = a}
<1>1. PICK q \in Seq(M) : q = QueueIn(line, a) /\ q = Only(line, T)
  BY OnlyFacts DEF QueueIn
<1>2. ASSUME NEW m \in M
      PROVE Len(QueueIn(Append(line, m), a)) =
              IF m \in MbMessages /\ MbTo[m] = a THEN Len(QueueIn(line, a)) + 1 ELSE Len(QueueIn(line, a))
  <2>1. QueueIn(Append(line, m), a) = IF m \in T THEN Append(q, m) ELSE q
    BY <1>1, OnlyAppend DEF QueueIn
  <2>2. Len(Append(q, m)) = Len(q) + 1
    OBVIOUS
  <2> QED BY <1>1, <2>1, <2>2
<1>3. line # << >> => Len(QueueIn(Tail(line), a)) <= Len(QueueIn(line, a)) /\ Tail(line) \in Seq(M)
  BY OnlyTail DEF QueueIn
<1>4. ASSUME NEW S
      PROVE /\ Only(line, S) \in Seq(M) /\ Len(QueueIn(Only(line, S), a)) <= Len(QueueIn(line, a))
            /\ QueueIn(line, a) # << >> /\ Head(QueueIn(line, a)) \notin S =>
                 Len(QueueIn(Only(line, S), a)) <= Len(QueueIn(line, a)) - 1
  BY OnlyFewer, OnlyFacts DEF QueueIn
<1> QED BY <1>1, <1>2, <1>3, <1>4

\* A queue that the restore holds is replaced by none that is longer.
LEMMA QueuesStay ==
  ASSUME QueuesInv, mbLine' \in Seq(MbMessages), UNCHANGED mbRestoring,
         mbQueueRef' = mbQueueRef \/ (mbQueueRef = "live" /\ mbQueueRef' = "detached"),
         \A a \in Receivers :
           /\ Len(Queued(a)') <= MbMaxPerAgent + 1
           /\ Len(Queued(a)) <= MbMaxPerAgent => Len(Queued(a)') <= MbMaxPerAgent
  PROVE  QueuesInv'
<1>1. mbQueueRef' \in {"none", "live", "detached"} /\ (mbQueueRef' # "none" => mbRestoring' # << >>)
  BY DEF QueuesInv
<1>2. ASSUME NEW a \in Receivers
      PROVE  /\ Len(Queued(a)') <= MbMaxPerAgent + 1
             /\ mbQueueRef' = "live" /\ MbTo[Head(mbRestoring')] = a => Len(Queued(a)') <= MbMaxPerAgent
  BY <1>2 DEF QueuesInv, Receivers
<1> QED BY <1>1, <1>2 DEF QueuesInv, Receivers

\* Shorter queues are such ones.
LEMMA ShorterQueues ==
  ASSUME QueuesInv, mbLine \in Seq(MbMessages), mbLine' \in Seq(MbMessages), UNCHANGED mbRestoring,
         mbQueueRef' = mbQueueRef \/ (mbQueueRef = "live" /\ mbQueueRef' = "detached"),
         \A a \in Receivers : Len(Queued(a)') <= Len(Queued(a))
  PROVE  QueuesInv'
<1>1. ASSUME NEW a \in Receivers
      PROVE  /\ Len(Queued(a)') <= MbMaxPerAgent + 1
             /\ Len(Queued(a)) <= MbMaxPerAgent => Len(Queued(a)') <= MbMaxPerAgent
  <2>1. Len(Queued(a)) \in Nat /\ Len(Queued(a)') \in Nat
    BY QueueFacts DEF Queued
  <2>2. Len(Queued(a)) <= MbMaxPerAgent + 1 /\ MbMaxPerAgent \in Nat
    BY MailboxAssumption DEF QueuesInv, Receivers
  <2> QED BY <2>1, <2>2
<1> QED BY <1>1, QueuesStay

\* A sent message finds room in the queue, made by dropping the oldest of its agent, and
\* is at the end of the line, unless the queue was deleted meanwhile.
LEMMA SendQueues ==
  ASSUME QueuesInv, mbLine \in Seq(MbMessages), NEW m \in MbMessages, NEW persist, Send(m, persist)
  PROVE  QueuesInv' /\ mbLine' \in Seq(MbMessages)
<1> DEFINE agent == MbTo[m]
           old == Only(mbLine, MbMessages \ {Head(Queued(agent))})
<1>1. PICK roomy : roomy = IF Len(Queued(agent)) >= MbMaxPerAgent THEN old ELSE mbLine
  OBVIOUS
<1>2. PICK kept : kept = IF Len(roomy) >= MbMaxQueue THEN Tail(roomy) ELSE roomy
  OBVIOUS
<1>3. /\ mbLine' = kept \/ mbLine' = Append(kept, m)
      /\ UNCHANGED mbRestoring
      /\ mbQueueRef' = mbQueueRef \/ (mbQueueRef = "live" /\ mbQueueRef' = "detached")
  BY <1>1, <1>2 DEF Send, RefAfterDelete
<1>4. MbMaxPerAgent \in Nat \ {0} /\ MbMaxQueue \in Nat \ {0}
  BY MailboxAssumption
<1>5. /\ roomy \in Seq(MbMessages) /\ \A a : Len(QueueIn(roomy, a)) <= Len(Queued(a))
      /\ Len(Queued(agent)) >= MbMaxPerAgent => Len(QueueIn(roomy, agent)) <= Len(Queued(agent)) - 1
  <2>1. CASE Len(Queued(agent)) >= MbMaxPerAgent
    <3>1. Queued(agent) \in Seq(MbMessages) /\ Queued(agent) # << >>
      <4>1. Queued(agent) \in Seq(MbMessages) /\ Len(Queued(agent)) >= 1
        BY <1>4, <2>1, QueueFacts DEF Queued
      <4> QED BY <4>1
    <3>2. PICK S : S = MbMessages \ {Head(Queued(agent))}
      OBVIOUS
    <3>3. /\ Only(mbLine, S) \in Seq(MbMessages)
          /\ \A a : Len(QueueIn(Only(mbLine, S), a)) <= Len(QueueIn(mbLine, a))
      BY QueueFacts
    <3>4. Len(QueueIn(Only(mbLine, S), agent)) <= Len(QueueIn(mbLine, agent)) - 1
      <4>1. QueueIn(mbLine, agent) # << >> /\ Head(QueueIn(mbLine, agent)) \notin S
        BY <3>1, <3>2 DEF Queued
      <4> QED BY <4>1, QueueFacts
    <3>5. roomy = Only(mbLine, S)
      BY <1>1, <2>1, <3>2
    <3> QED BY <3>3, <3>4, <3>5 DEF Queued
  <2>2. CASE ~ (Len(Queued(agent)) >= MbMaxPerAgent)
    <3>1. roomy = mbLine
      BY <1>1, <2>2
    <3>2. \A a : Len(Queued(a)) \in Nat
      BY QueueFacts DEF Queued
    <3> QED BY <2>2, <3>1, <3>2 DEF Queued
  <2> QED BY <2>1, <2>2
<1> HIDE DEF agent
<1>6. kept \in Seq(MbMessages) /\ \A a : Len(QueueIn(kept, a)) <= Len(QueueIn(roomy, a))
  <2>1. CASE Len(roomy) >= MbMaxQueue
    <3>1. roomy # << >>
      <4>1. Len(roomy) >= 1
        BY <1>4, <1>5, <2>1
      <4> QED BY <4>1
    <3> QED BY <1>2, <1>5, <2>1, <3>1, QueueFacts
  <2>2. CASE ~ (Len(roomy) >= MbMaxQueue)
    <3>1. kept = roomy /\ \A a : Len(QueueIn(roomy, a)) \in Nat
      BY <1>2, <1>5, <2>2, QueueFacts
    <3> QED BY <1>5, <3>1
  <2> QED BY <2>1, <2>2
<1>7. mbLine' \in Seq(MbMessages)
  BY <1>3, <1>6
<1>8. ASSUME NEW a \in Receivers
      PROVE  /\ Len(Queued(a)') <= MbMaxPerAgent + 1
             /\ Len(Queued(a)) <= MbMaxPerAgent => Len(Queued(a)') <= MbMaxPerAgent
  <2>1. /\ Len(QueueIn(kept, a)) \in Nat /\ Len(QueueIn(roomy, a)) \in Nat /\ Len(Queued(a)) \in Nat
        /\ Len(QueueIn(Append(kept, m), a)) =
             IF agent = a THEN Len(QueueIn(kept, a)) + 1 ELSE Len(QueueIn(kept, a))
    BY <1>5, <1>6, QueueFacts DEF Queued, agent
  <2>2. Len(QueueIn(kept, a)) <= Len(QueueIn(roomy, a)) /\ Len(QueueIn(roomy, a)) <= Len(Queued(a))
    BY <1>5, <1>6
  <2>3. Len(Queued(a)) <= MbMaxPerAgent + 1
    BY DEF QueuesInv, Receivers
  <2>4. agent = a /\ Len(Queued(a)) >= MbMaxPerAgent => Len(QueueIn(roomy, a)) <= Len(Queued(a)) - 1
    BY <1>5
  <2>5. Len(Queued(a)') = Len(QueueIn(kept, a)) \/ Len(Queued(a)') = Len(QueueIn(Append(kept, m), a))
    BY <1>3 DEF Queued, QueueIn
  <2> QED BY <1>4, <2>1, <2>2, <2>3, <2>4, <2>5
<1> QED BY <1>3, <1>7, <1>8, QueuesStay

\* Every step leaves the queues no longer than that.
LEMMA QueuesSteps ==
  QueuesInv /\ mbLine \in Seq(MbMessages) /\ mbRestoring \in Seq(MbMessages) /\ [MailboxNext]_mailboxVars
    => QueuesInv' /\ mbLine' \in Seq(MbMessages)
<1> SUFFICES ASSUME QueuesInv, mbLine \in Seq(MbMessages), mbRestoring \in Seq(MbMessages),
                    [MailboxNext]_mailboxVars
             PROVE  QueuesInv' /\ mbLine' \in Seq(MbMessages)
  OBVIOUS
<1>0. \A a : Len(Queued(a)) \in Nat
  BY QueueFacts DEF Queued
<1>1. CASE UNCHANGED <<mbLine, mbQueueRef, mbRestoring>>
  BY <1>1 DEF QueuesInv, Queued, QueueIn
<1>2. ASSUME NEW m \in MbMessages, NEW persist, Send(m, persist) PROVE QueuesInv' /\ mbLine' \in Seq(MbMessages)
  BY <1>2, SendQueues
<1>3. ASSUME NEW m \in MbMessages, RowInserted(m) \/ InsertFailed(m) PROVE QueuesInv' /\ mbLine' \in Seq(MbMessages)
  BY <1>1, <1>3 DEF RowInserted, InsertFailed
<1>4. CASE RetryPendingPersists \/ MarkDelivered \/ UNCHANGED mailboxVars
  BY <1>1, <1>4 DEF RetryPendingPersists, MarkDelivered, mailboxVars
<1>5. ASSUME NEW b, MailboxReceive(b) PROVE QueuesInv' /\ mbLine' \in Seq(MbMessages)
  <2>1. /\ UNCHANGED mbRestoring /\ \E S : mbLine' = Only(mbLine, S)
        /\ mbQueueRef' = mbQueueRef \/ (mbQueueRef = "live" /\ mbQueueRef' = "detached")
    BY <1>5 DEF MailboxReceive, RefAfterDelete
  <2>2. mbLine' \in Seq(MbMessages) /\ \A a : Len(QueueIn(mbLine, a)') <= Len(QueueIn(mbLine, a))
    <3>1. PICK S : mbLine' = Only(mbLine, S)
      BY <2>1
    <3>2. /\ Only(mbLine, S) \in Seq(MbMessages)
          /\ \A a : Len(QueueIn(Only(mbLine, S), a)) <= Len(QueueIn(mbLine, a))
      BY QueueFacts
    <3> QED BY <3>1, <3>2 DEF QueueIn
  <2> QED BY <2>1, <2>2, ShorterQueues DEF Queued
<1>6. CASE MailboxRestart
  <2>1. mbLine' = << >> /\ mbQueueRef' = "none"
    BY <1>6 DEF MailboxRestart
  <2>2. \A a : Len(Queued(a)') = 0
    <3>1. \A a : Queued(a)' = << >>
      BY <2>1, OnlyEmpty DEF Queued, QueueIn
    <3> QED BY <3>1
  <2> QED BY <2>1, <2>2, MailboxAssumption DEF QueuesInv
<1>7. CASE Clear
  <2>1. /\ mbLine' = << >> /\ UNCHANGED mbRestoring
        /\ mbQueueRef' = mbQueueRef \/ (mbQueueRef = "live" /\ mbQueueRef' = "detached")
    BY <1>7 DEF Clear
  <2>2. mbLine' \in Seq(MbMessages)
    BY <2>1
  <2>3. \A a : Len(Queued(a)') <= Len(Queued(a))
    <3>1. \A a : Queued(a)' = << >>
      BY <2>1, OnlyEmpty DEF Queued, QueueIn
    <3> QED BY <1>0, <3>1
  <2> QED BY <2>1, <2>2, <2>3, ShorterQueues
<1>8. CASE RestoreRow
  <2>1. /\ mbLine' = mbLine /\ mbRestoring' = mbRestoring /\ mbRestoring # << >> /\ mbQueueRef' = "live"
        /\ Len(Queued(MbTo[Head(mbRestoring)])) < MbMaxPerAgent
    BY <1>8 DEF RestoreRow
  <2>2. \A a : Queued(a)' = Queued(a)
    BY <2>1 DEF Queued, QueueIn
  <2>3. \A a \in Receivers : Len(Queued(a)) <= MbMaxPerAgent + 1
    BY DEF QueuesInv
  <2>4. ASSUME NEW a \in Receivers
        PROVE  /\ Len(Queued(a)') <= MbMaxPerAgent + 1
               /\ mbQueueRef' = "live" /\ MbTo[Head(mbRestoring')] = a => Len(Queued(a)') <= MbMaxPerAgent
    BY <1>0, <2>1, <2>2, <2>3, MailboxAssumption
  <2> QED BY <2>1, <2>4 DEF QueuesInv
<1>9. ASSUME NEW counted, Restored(counted) PROVE QueuesInv' /\ mbLine' \in Seq(MbMessages)
  <2>1. /\ mbRestoring # << >> /\ mbQueueRef # "none" /\ mbQueueRef' = "none"
        /\ \/ mbLine' = mbLine
           \/ mbQueueRef = "live" /\ mbLine' = Append(mbLine, Head(mbRestoring))
    BY <1>9 DEF Restored
  <2>2. Head(mbRestoring) \in MbMessages
    BY <2>1
  <2>3. mbLine' \in Seq(MbMessages)
    BY <2>1, <2>2
  <2>4. ASSUME NEW a \in Receivers PROVE Len(Queued(a)') <= MbMaxPerAgent + 1
    <3>1. /\ Len(Queued(a)) <= MbMaxPerAgent + 1
          /\ mbQueueRef = "live" /\ MbTo[Head(mbRestoring)] = a => Len(Queued(a)) <= MbMaxPerAgent
      BY DEF QueuesInv
    <3>2. Len(QueueIn(Append(mbLine, Head(mbRestoring)), a)) =
            IF MbTo[Head(mbRestoring)] = a THEN Len(Queued(a)) + 1 ELSE Len(Queued(a))
      BY <2>2, QueueFacts DEF Queued
    <3>3. \/ Len(Queued(a)') = Len(Queued(a))
          \/ mbQueueRef = "live" /\ Len(Queued(a)') = Len(QueueIn(Append(mbLine, Head(mbRestoring)), a))
      BY <2>1 DEF Queued, QueueIn
    <3> QED BY <1>0, <3>1, <3>2, <3>3, MailboxAssumption
  <2> QED BY <2>1, <2>3, <2>4 DEF QueuesInv
<1>10. ASSUME NEW counted, RestoreSkips(counted) PROVE QueuesInv' /\ mbLine' \in Seq(MbMessages)
  <2>1. mbLine' = mbLine /\ mbQueueRef' = mbQueueRef /\ mbQueueRef = "none"
    BY <1>10 DEF RestoreSkips
  <2>2. \A a : Queued(a)' = Queued(a)
    BY <2>1 DEF Queued, QueueIn
  <2> QED BY <2>1, <2>2 DEF QueuesInv
<1> QED BY <1>2, <1>3, <1>4, <1>5, <1>6, <1>7, <1>8, <1>9, <1>10 DEF MailboxNext

\* Whatever is in the line, in the table or picked by the restore was sent.
LEMMA SentSteps ==
  SentInv /\ RestoreInv /\ WritesCounted /\ [MailboxNext]_mailboxVars => SentInv'
<1> SUFFICES ASSUME SentInv, RestoreInv, WritesCounted, [MailboxNext]_mailboxVars PROVE SentInv'
  OBVIOUS
<1> DEFINE InTable(m) == \E i \in 1 .. Len(mbTable) : mbTable[i] = m
           Sent(s) == \A i \in 1 .. Len(s) : s[i] \in mbSent
<1>0. /\ mbSent \subseteq MbMessages /\ mbLine \in Seq(mbSent)
      /\ mbPersist \in [MbMessages -> 0 .. MbMaxPersists \cup {NotPending}]
      /\ \A m \in MbMessages : mbStatus[m] # "none" => m \in mbSent /\ InTable(m)
      /\ Sent(mbRestoring)
      /\ mbTable \in Seq(MbMessages) /\ mbRestoring \in Seq(MbMessages)
      /\ mbStatus \in [MbMessages -> MbStatuses]
      /\ \A i \in 1 .. Len(mbTable) : mbStatus[mbTable[i]] # "none"
  BY DEF SentInv, RestoreInv
<1>1. CASE UNCHANGED <<mbSent, mbLine, mbPersist, mbStatus, mbTable, mbRestoring>>
  BY <1>0, <1>1 DEF SentInv
<1>2. ASSUME NEW m \in MbMessages, NEW persist, Send(m, persist) PROVE SentInv'
  <2> DEFINE old == Only(mbLine, MbMessages \ {Head(Queued(MbTo[m]))})
  <2>1. PICK roomy : roomy = IF Len(Queued(MbTo[m])) >= MbMaxPerAgent THEN old ELSE mbLine
    OBVIOUS
  <2>2. PICK kept : kept = IF Len(roomy) >= MbMaxQueue THEN Tail(roomy) ELSE roomy
    OBVIOUS
  <2>3. /\ mbLine' = kept \/ mbLine' = Append(kept, m)
        /\ mbSent' = mbSent \cup {m} /\ UNCHANGED <<mbPersist, mbStatus, mbTable, mbRestoring>>
    <3>1. mbLine' = kept \/ mbLine' = Append(kept, m)
      BY <1>2, <2>1, <2>2 DEF Send
    <3>2. mbSent' = mbSent \cup {m} /\ UNCHANGED <<mbPersist, mbStatus, mbTable, mbRestoring>>
      BY <1>2 DEF Send, mbRows
    <3> QED BY <3>1, <3>2
  <2>4. roomy \in Seq(mbSent)
    BY <1>0, <2>1, OnlyFacts
  <2> HIDE DEF old
  <2>5. kept \in Seq(mbSent)
    <3>1. CASE Len(roomy) >= MbMaxQueue
      <4>1. roomy # << >>
        BY <2>4, <3>1, MailboxAssumption
      <4>2. Tail(roomy) \in Seq(mbSent)
        BY <2>4, <4>1
      <4> QED BY <2>2, <3>1, <4>2
    <3>2. CASE ~ (Len(roomy) >= MbMaxQueue)
      BY <2>2, <2>4, <3>2
    <3> QED BY <3>1, <3>2
  <2>6. PICK all : all = mbSent \cup {m}
    OBVIOUS
  <2>7. kept \in Seq(all) /\ m \in all
    BY <2>5, <2>6, SeqGrows
  <2>8. Append(kept, m) \in Seq(all)
    BY <2>7
  <2>9. mbLine' \in Seq(mbSent')
    BY <2>3, <2>6, <2>7, <2>8
  <2> QED BY <1>0, <2>3, <2>9 DEF SentInv
<1>3. ASSUME NEW m \in MbMessages, RowInserted(m) PROVE SentInv'
  <2>1. /\ UNCHANGED <<mbSent, mbLine, mbRestoring>> /\ mbWriting[m] > 0
        /\ mbTable' = Append(mbTable, m) /\ mbStatus' = [mbStatus EXCEPT ![m] = "pending"]
        /\ mbPersist' = [mbPersist EXCEPT ![m] = NotPending]
    BY <1>3 DEF RowInserted
  <2>2. m \in mbSent
    BY <2>1 DEF WritesCounted, Unwritten
  <2>3. mbPersist' \in [MbMessages -> 0 .. MbMaxPersists \cup {NotPending}]
    BY <1>0, <2>1
  <2>4. /\ Append(mbTable, m) \in Seq(MbMessages) /\ Len(Append(mbTable, m)) = Len(mbTable) + 1
        /\ Len(mbTable) \in Nat /\ Append(mbTable, m)[Len(mbTable) + 1] = m
        /\ \A i \in 1 .. Len(mbTable) : Append(mbTable, m)[i] = mbTable[i]
    BY <1>0, AppendProperties
  <2>5. ASSUME NEW k \in MbMessages, mbStatus'[k] # "none" PROVE k \in mbSent /\ InTable(k)'
    <3>1. CASE k = m
      BY <2>1, <2>2, <2>4, <3>1
    <3>2. CASE k # m
      <4>1. mbStatus[k] # "none"
        BY <1>0, <2>1, <2>5, <3>2
      <4>2. k \in mbSent /\ InTable(k)
        BY <1>0, <4>1
      <4>3. PICK i \in 1 .. Len(mbTable) : mbTable[i] = k
        BY <4>2
      <4>4. i \in 1 .. Len(mbTable) + 1 /\ Append(mbTable, m)[i] = k
        BY <2>4, <4>3
      <4> QED BY <2>1, <2>4, <4>2, <4>4
    <3> QED BY <3>1, <3>2
  <2> QED BY <1>0, <2>1, <2>3, <2>5 DEF SentInv
<1>4. ASSUME NEW m \in MbMessages, InsertFailed(m) PROVE SentInv'
  <2>1. /\ UNCHANGED <<mbSent, mbLine, mbStatus, mbTable, mbRestoring>>
        /\ mbPersist' = [mbPersist EXCEPT ![m] = 0]
    BY <1>4 DEF InsertFailed, mbRows
  <2>2. mbPersist' \in [MbMessages -> 0 .. MbMaxPersists \cup {NotPending}]
    BY <1>0, <2>1, MailboxAssumption
  <2> QED BY <1>0, <2>1, <2>2 DEF SentInv
<1>5. ASSUME NEW b, MailboxReceive(b) PROVE SentInv'
  <2>1. /\ UNCHANGED <<mbSent, mbPersist, mbStatus, mbTable, mbRestoring>>
        /\ \E S : mbLine' = Only(mbLine, S)
    BY <1>5 DEF MailboxReceive, mbRows
  <2>2. mbLine' \in Seq(mbSent)
    BY <1>0, <2>1, OnlyFacts
  <2> QED BY <1>0, <2>1, <2>2 DEF SentInv
<1>6. CASE RetryPendingPersists
  <2>1. UNCHANGED <<mbSent, mbLine, mbStatus, mbTable, mbRestoring>>
    BY <1>6 DEF RetryPendingPersists, mbRows
  <2>2. PICK due : mbPersist' = [m \in MbMessages |->
             IF m \notin due THEN mbPersist[m]
             ELSE IF mbPersist[m] >= MbMaxPersists THEN NotPending ELSE mbPersist[m] + 1]
          /\ due \subseteq {m \in MbMessages : mbPersist[m] # NotPending}
    BY <1>6 DEF RetryPendingPersists
  <2>3. ASSUME NEW m \in MbMessages PROVE mbPersist'[m] \in 0 .. MbMaxPersists \cup {NotPending}
    <3>1. mbPersist[m] \in 0 .. MbMaxPersists \cup {NotPending}
      BY <1>0
    <3>2. CASE m \notin due
      BY <2>2, <3>1, <3>2
    <3>3. CASE m \in due
      <4>1. mbPersist[m] \in 0 .. MbMaxPersists
        BY <2>2, <3>1, <3>3
      <4> QED BY <2>2, <3>3, <4>1, MailboxAssumption
    <3> QED BY <3>2, <3>3
  <2>4. mbPersist' \in [MbMessages -> 0 .. MbMaxPersists \cup {NotPending}]
    BY <2>2, <2>3
  <2> QED BY <1>0, <2>1, <2>4 DEF SentInv
<1>7. CASE MarkDelivered
  <2>1. /\ UNCHANGED <<mbSent, mbLine, mbTable, mbRestoring, mbPersist>>
        /\ \/ UNCHANGED mbStatus
           \/ \E m : mbStatus' = [mbStatus EXCEPT ![m] = IF @ = "none" THEN @ ELSE "delivered"]
    BY <1>7 DEF MarkDelivered
  <2>2. \A k \in MbMessages : mbStatus'[k] # "none" => mbStatus[k] # "none"
    BY <1>0, <2>1
  <2> QED BY <1>0, <2>1, <2>2 DEF SentInv
<1>8. CASE MailboxRestart
  <2>1. /\ UNCHANGED <<mbSent, mbTable>> /\ mbLine' = << >>
        /\ mbPersist' = [m \in MbMessages |-> NotPending]
    BY <1>8 DEF MailboxRestart
  <2>2. \A k \in MbMessages : mbStatus'[k] # "none" => mbStatus[k] # "none"
    BY <1>0, <1>8 DEF MailboxRestart, DeadLetters
  <2>3. Sent(mbRestoring')
    <3>0. \/ mbRestoring' = << >>
          \/ \E S : mbRestoring' \in {<< >>, IF Len(Only(mbTable, S)) > MbMaxQueue
                                     THEN SubSeq(Only(mbTable, S), 1, MbMaxQueue) ELSE Only(mbTable, S)}
      <4>1. CASE mbRestoring' = << >>
        BY <4>1
      <4>2. CASE mbRestoring' # << >>
        BY <1>8, <4>2 DEF MailboxRestart
      <4> QED BY <4>1, <4>2
    <3>1. PICK S : \/ mbRestoring' \in {<< >>, Only(mbTable, S)}
                   \/ /\ mbRestoring' = SubSeq(Only(mbTable, S), 1, MbMaxQueue)
                      /\ Len(Only(mbTable, S)) > MbMaxQueue
      BY <3>0
    <3>2. PICK picked \in Seq(MbMessages) : picked = Only(mbTable, S)
      BY <1>0, OnlyFacts
    <3>3. \A i \in 1 .. Len(picked) : picked[i] \in mbSent
      <4>1. TAKE i \in 1 .. Len(picked)
      <4>2. PICK k \in 1 .. Len(mbTable) : mbTable[k] = picked[i]
        BY <1>0, <3>2, OnlyFacts
      <4>3. mbTable[k] \in MbMessages
        BY <1>0
      <4> QED BY <1>0, <4>2, <4>3
    <3>4. CASE mbRestoring' = << >> \/ mbRestoring' = picked
      BY <3>3, <3>4
    <3>5. CASE mbRestoring' = SubSeq(picked, 1, MbMaxQueue) /\ Len(picked) > MbMaxQueue
      <4>1. Len(SubSeq(picked, 1, MbMaxQueue)) = MbMaxQueue /\ \A i \in 1 .. MbMaxQueue : SubSeq(picked, 1, MbMaxQueue)[i] = picked[i] /\ i \in 1 .. Len(picked)
        BY <3>1, <3>2, <3>5, MailboxAssumption
      <4> QED BY <3>3, <3>5, <4>1
    <3> QED BY <3>1, <3>2, <3>4, <3>5
  <2>4. mbLine' \in Seq(mbSent) /\ mbPersist' \in [MbMessages -> 0 .. MbMaxPersists \cup {NotPending}]
    BY <2>1
  <2> QED BY <1>0, <2>1, <2>2, <2>3, <2>4 DEF SentInv
<1>9. CASE Clear
  <2>1. /\ UNCHANGED <<mbSent, mbTable, mbStatus, mbRestoring>> /\ mbLine' = << >>
        /\ mbPersist' = [m \in MbMessages |-> NotPending]
    BY <1>9 DEF Clear, mbRows
  <2>2. mbLine' \in Seq(mbSent) /\ mbPersist' \in [MbMessages -> 0 .. MbMaxPersists \cup {NotPending}]
    BY <2>1
  <2> QED BY <1>0, <2>1, <2>2 DEF SentInv
<1>10. CASE RestoreRow \/ UNCHANGED mailboxVars
  BY <1>1, <1>10 DEF RestoreRow, mbRows, mailboxVars
<1>11. ASSUME NEW counted, Restored(counted) \/ RestoreSkips(counted) PROVE SentInv'
  <2>1. /\ UNCHANGED <<mbSent, mbTable, mbStatus, mbPersist>> /\ mbRestoring # << >>
        /\ mbRestoring' = Tail(mbRestoring)
        /\ mbLine' = mbLine \/ mbLine' = Append(mbLine, Head(mbRestoring))
    BY <1>11 DEF Restored, RestoreSkips
  <2>2. /\ Len(mbRestoring) \in Nat /\ Len(mbRestoring) >= 1 /\ Head(mbRestoring) = mbRestoring[1]
        /\ Len(Tail(mbRestoring)) = Len(mbRestoring) - 1
        /\ \A i \in 1 .. Len(Tail(mbRestoring)) : Tail(mbRestoring)[i] = mbRestoring[i + 1]
                                                 /\ i + 1 \in 1 .. Len(mbRestoring)
    BY <1>0, <2>1
  <2>3. Head(mbRestoring) \in mbSent
    BY <1>0, <2>2
  <2>4. Sent(Tail(mbRestoring))
    BY <1>0, <2>2
  <2>5. mbLine' \in Seq(mbSent)
    <3>1. Append(mbLine, Head(mbRestoring)) \in Seq(mbSent)
      BY <1>0, <2>3
    <3> QED BY <1>0, <2>1, <3>1
  <2>6. Sent(mbRestoring)'
    BY <2>1, <2>4
  <2> QED BY <1>0, <2>1, <2>5, <2>6 DEF SentInv
<1> QED BY <1>2, <1>3, <1>4, <1>5, <1>6, <1>7, <1>8, <1>9, <1>10, <1>11 DEF MailboxNext

\* What the types of the mailbox follow from.
MailInv == RestoreInv /\ WritesCounted /\ SentInv /\ QueuesInv

\* It holds of the empty mailbox,
LEMMA MailStart == MailboxInit => MailInv
BY RestoresStart, WriteStart, SentStart DEF MailInv

\* and after every step;
LEMMA MailSteps == MailInv /\ [MailboxNext]_mailboxVars => MailInv'
<1> SUFFICES ASSUME MailInv, [MailboxNext]_mailboxVars PROVE MailInv'
  OBVIOUS
<1>1. mbLine \in Seq(MbMessages) /\ mbRestoring \in Seq(MbMessages)
  BY SeqGrows DEF MailInv, SentInv, RestoreInv
<1> QED BY <1>1, RestoresSteps, WriteSteps, SentSteps, QueuesSteps DEF MailInv

\* it makes a queue no longer than the limit and one more, and the rows those with a
\* status.
LEMMA MailTyped == MailInv => MailboxTypeOK
<1> SUFFICES ASSUME MailInv PROVE MailboxTypeOK
  OBVIOUS
<1>1. \A m \in MbMessages : Len(Queued(MbTo[m])) <= MbMaxPerAgent + 1
  BY DEF MailInv, QueuesInv, Receivers
<1>2. ToSet(mbLine) \subseteq mbSent
  BY DEF MailInv, SentInv, ToSet
<1>3. ToSet(mbTable) = {m \in MbMessages : mbStatus[m] # "none"}
  <2>1. /\ mbTable \in Seq(MbMessages) /\ \A i \in 1 .. Len(mbTable) : mbStatus[mbTable[i]] # "none"
        /\ \A m \in MbMessages : mbStatus[m] # "none" => \E i \in 1 .. Len(mbTable) : mbTable[i] = m
    BY DEF MailInv, RestoreInv, SentInv
  <2>2. DOMAIN mbTable = 1 .. Len(mbTable) /\ \A i \in 1 .. Len(mbTable) : mbTable[i] \in MbMessages
    BY <2>1
  <2> QED BY <2>1, <2>2 DEF ToSet
<1>4. mbQueueRef # "none" => mbRestoring # << >>
  BY DEF MailInv, QueuesInv
<1> QED BY <1>1, <1>2, <1>3, <1>4 DEF MailInv, SentInv, RestoreInv, MbStatuses, MailboxTypeOK

-----------------------------------------------------------------------------
(* The types of them all, in the process that holds them.                   *)

\* Each component with the invariant its types follow from.
TypesInv ==
  /\ PipelineTypes /\ ModerateInv /\ MailInv /\ TasksInv /\ CompactionTypeOK
  /\ LlmTypeOK /\ InsightsInv /\ ChangesInv /\ LoginsInv
  /\ OnboardingInv /\ SkillsTypes /\ ShutdownTypeOK /\ AskInv
  /\ KnowInv /\ ViewsKnown

\* All of it holds at the start,
LEMMA TypesStart == Init => TypesInv
BY PipelineTypesStart, ModerateStart, MailStart, TasksStart, CompactionTypesStart,
   LlmTypesStart, InsightsStart, ChangesStart, LoginsStart, OnboardingStart,
   SkillsTypesStart, ShutdownTypesStart, AskStart, KnowledgeStart, ViewsStart
   DEF Init, TypesInv

\* A step of the process is one of a component, and none of the others.
LEMMA OneComponentMoves ==
  ASSUME [Next]_allVars
  PROVE  /\ [PipelineNext]_pipelineVars /\ [RateNext]_rateVars /\ [MailboxNext]_mailboxVars
         /\ [A2ANext]_a2aVars /\ [CompactionNext]_cmVars /\ [LlmNext]_lmVars
         /\ [InsightsNext]_inVars /\ [ChangeControlNext]_ccVars /\ [UserAuthNext]_uaVars
         /\ [OnboardingNext]_obVars /\ [SkillsNext]_skVars /\ [ShutdownNext]_shVars
         /\ [AgentBusNext]_abVars /\ [KnowledgeNext]_knVars
<1>1. CASE Next
  BY <1>1 DEF Next
<1>2. CASE UNCHANGED allVars
  BY <1>2 DEF allVars
<1> QED BY <1>1, <1>2

\* and after every step.
LEMMA TypesSteps == TypesInv /\ [Next]_allVars => TypesInv'
<1> SUFFICES ASSUME TypesInv, [Next]_allVars PROVE TypesInv'
  OBVIOUS
<1>1. PipelineTypes' /\ ModerateInv' /\ MailInv' /\ TasksInv' /\ CompactionTypeOK'
  BY OneComponentMoves, PipelineTypesSteps, ModerateSteps, MailSteps, TasksSteps, CompactionTypesSteps
     DEF TypesInv
<1>2. LlmTypeOK' /\ InsightsInv' /\ ChangesInv' /\ LoginsInv'
  BY OneComponentMoves, LlmTypesSteps, InsightsSteps, ChangesSteps, LoginsSteps DEF TypesInv
<1>3. OnboardingInv' /\ SkillsTypes' /\ ShutdownTypeOK' /\ AskInv'
  BY OneComponentMoves, OnboardingSteps, SkillsTypesSteps, ShutdownTypesSteps, AskSteps DEF TypesInv
<1>4. KnowInv'
  BY OneComponentMoves, KnJobsNext, TablesNext, ViewsNext, BloatNext DEF TypesInv, KnowInv
<1>5. ViewsKnown'
  BY OneComponentMoves, ViewsSteps DEF TypesInv, KnowInv
<1> QED BY <1>1, <1>2, <1>3, <1>4, <1>5 DEF TypesInv

\* All components of the process keep their types, for any messages, users, jobs, agents
\* and limits: among them that no queue of the mailbox holds more than one message above
\* MAX_PER_AGENT although messages are sent while a restore awaits its UPDATE, that a task is
\* stored once, that a user's window is cut, and that no view is built nobody asks for.
THEOREM RecordsTypeCorrect == Spec => []TypeOK
<1>1. TypesInv => TypeOK
  <2> SUFFICES ASSUME TypesInv PROVE TypeOK
    OBVIOUS
  <2>1. PipelineTypeOK /\ RateTypeOK /\ MailboxTypeOK /\ A2ATypeOK /\ CompactionTypeOK /\ LlmTypeOK
    BY PipelineTyped, RateTyped, MailTyped, TasksTyped DEF TypesInv
  <2>2. InsightsTypeOK /\ ChangeControlTypeOK /\ UserAuthTypeOK /\ OnboardingTypeOK
    BY InsightsTyped, LoginsTyped, OnboardingTyped DEF TypesInv, ChangesInv
  <2>3. SkillsTypeOK /\ ShutdownTypeOK /\ AgentBusTypeOK /\ KnowledgeTypeOK
    BY KnowledgeTyped DEF TypesInv, SkillsTypes, AskInv
  <2> QED BY <2>1, <2>2, <2>3 DEF TypeOK
<1> QED BY <1>1, TypesStart, TypesSteps, PTL DEF Spec
=============================================================================
