------------------------ MODULE GatewayGovernorProofs ------------------------
(***************************************************************************)
(* The concurrency governor of the gateway keeps its limits, for any       *)
(* requests, users, channels and limits, in both backends.  Requests ask,  *)
(* time out, release and drain the queue while answers are under way, and  *)
(* a lock may be overwritten by another slot of the conversation: the      *)
(* invariant therefore gives every holder some slot of its conversation,   *)
(* and every array of the queue at most one drain that writes it.          *)
(***************************************************************************)
EXTENDS GatewayGovernor, SeqFilterTheorems, FiniteSetTheorems

Tokens == Requests \X Requests
Arrays == Requests \cup {None}
AnswerSet == [call : {"acquire", "return", "release", "drain"}, of : Requests,
              at : (Arrays \X Nat) \cup {0}, result : {"granted", "refused", "done", "error"}]

(***************************************************************************)
(* The parts of the invariant are operators of the state's values: the     *)
(* callers c, the locks L, the backend's slots B, the arrays A, the queue  *)
(* Q and the set P of the answers under way.                               *)
(***************************************************************************)

\* The slot an answer is about; whether it grants one.
TokenOf(A, a) == IF a.call = "drain" THEN <<A[a.at[1]][a.at[2]], a.of>> ELSE <<a.of, a.of>>
Grant(a) == a.call \in {"acquire", "drain"} /\ a.result = "granted"

ValueTypes(c, L, B, A, Q, P) ==
  /\ c \in [Requests -> Phases]
  /\ L \in [Keys -> Tokens \cup {None}]
  /\ B \in SUBSET Tokens /\ IsFiniteSet(B)
  /\ A \in [Arrays -> Seq(Requests)]
  /\ Q \in Arrays
  /\ P \in SUBSET AnswerSet

\* A request awaits one answer at a time: of its own acquire, or of the drain that its
\* release started.
OneAnswer(c, P) ==
  /\ \A a, b \in P : a.of = b.of => a = b
  /\ \A a \in P : c[a.of] = IF a.call \in {"acquire", "return"} THEN "acquiring" ELSE "released"

\* The array x is a queue that is not being written: the first one, or a finished drain's.
Over(c, P, x) == x # None => c[x] = "released" /\ \A a \in P : a.of # x

\* No request is in an array twice, and none that has not been queued.
Listed(c, A) ==
  \A x \in Arrays : \A i \in 1 .. Len(A[x]) :
    /\ c[A[x][i]] \notin {"new", "acquiring"}
    /\ \A j \in 1 .. Len(A[x]) : A[x][i] = A[x][j] => i = j

\* A drain stands at a place of an array that is no longer written, and has kept
\* some of what it has passed.
DrainsStand(c, A, P) ==
  \A a \in P : a.call = "drain" =>
    /\ a.at \in Arrays \X Nat /\ a.at[2] \in 1 .. Len(A[a.at[1]])
    /\ Over(c, P, a.at[1])
    /\ A[a.at[1]][a.at[2]] # a.of
    /\ \A j \in 1 .. Len(A[a.of]) : \E i \in 1 .. a.at[2] - 1 : A[a.of][j] = A[a.at[1]][i]

\* A slot that exists has been asked for: by the request itself, or by a drain for an
\* entry it has come to.
AskedFor(c, A, P, t) ==
  IF t[1] = t[2] THEN c[t[1]] # "new"
  ELSE /\ c[t[2]] = "released"
       /\ \A a \in P : a.of = t[2] =>
            a.call = "drain" /\ \E j \in 1 .. a.at[2] : A[a.at[1]][j] = t[1]

TokensAsked(c, L, B, A, P) ==
  /\ \A t \in B : AskedFor(c, A, P, t)
  /\ \A k \in Keys : L[k] # None => AskedFor(c, A, P, L[k]) /\ Key(L[k][1]) = k

\* A granted slot whose answer is under way is counted and is nobody's lock yet.
GrantsCounted(L, B, A, P) ==
  \A a \in P : Grant(a) => TokenOf(A, a) \in B /\ \A k \in Keys : L[k] # TokenOf(A, a)

\* Every request that runs has a slot of its conversation, although not always its own.
Backs(f, c, B, A, P) ==
  /\ \A r \in Requests : c[r] = "held" =>
       /\ f[r] \in B /\ Key(f[r][1]) = Key(r)
       /\ \A a \in P : Grant(a) => TokenOf(A, a) # f[r]
  /\ \A r, s \in Requests : c[r] = "held" /\ c[s] = "held" /\ f[r] = f[s] => r = s

HoldersBacked(c, B, A, P) == \E f \in [Requests -> Tokens] : Backs(f, c, B, A, P)

SlotsLimited(B) ==
  /\ Cardinality(B) <= GlobalLimit
  /\ \A r \in Requests :
       /\ Cardinality({t \in B : UserOf[t[1]] = UserOf[r]}) <= PerUserLimit
       /\ Cardinality({t \in B : ChannelOf[t[1]] = ChannelOf[r]}) <= PerChannelLimit

Sound(c, L, B, A, Q, P) ==
  /\ ValueTypes(c, L, B, A, Q, P)
  /\ OneAnswer(c, P)
  /\ Over(c, P, Q)
  /\ Listed(c, A)
  /\ DrainsStand(c, A, P)
  /\ TokensAsked(c, L, B, A, P)
  /\ GrantsCounted(L, B, A, P)
  /\ HoldersBacked(c, B, A, P)
  /\ SlotsLimited(B)

-----------------------------------------------------------------------------
\* Two requests of a conversation are of one user and one channel.
LEMMA KeyFacts ==
  /\ \A r \in Requests : Key(r) \in Keys
  /\ \A r, s \in Requests : Key(r) = Key(s) => UserOf[r] = UserOf[s] /\ ChannelOf[r] = ChannelOf[s]
BY DEF Key, Keys

\* The limits hold of the requests that run, as each of them has a slot of its own.
LEMMA LimitsFollow ==
  ASSUME NEW c, NEW B \in SUBSET Tokens, IsFiniteSet(B), NEW A, NEW P, HoldersBacked(c, B, A, P),
         SlotsLimited(B), NEW H, H = {r \in Requests : c[r] = "held"}
  PROVE  \A r \in Requests :
           /\ Cardinality(H) <= GlobalLimit
           /\ Cardinality({s \in H : UserOf[s] = UserOf[r]}) <= PerUserLimit
           /\ Cardinality({s \in H : ChannelOf[s] = ChannelOf[r]}) <= PerChannelLimit
<1>1. PICK f \in [Requests -> Tokens] : Backs(f, c, B, A, P)
  BY DEF HoldersBacked
<1>2. ASSUME NEW S \in SUBSET H, NEW C \in SUBSET B, \A s \in S : f[s] \in C
      PROVE  Cardinality(S) <= Cardinality(C)
  <2> DEFINE g == [s \in S |-> f[s]]
  <2>1. g \in [S -> C] /\ \A s, t \in S : g[s] = g[t] => s = t
    BY <1>1, <1>2 DEF Backs
  <2>2. g \in Injection(S, C)
    BY <2>1 DEF Injection, IsInjective
  <2>3. IsFiniteSet(C)
    BY FS_Subset
  <2> QED BY <2>2, <2>3, FS_Injection
<1>3. ASSUME NEW S \in SUBSET H PROVE IsFiniteSet(S) /\ Cardinality(S) \in Nat
  <2> DEFINE g == [s \in S |-> f[s]]
  <2>1. g \in [S -> B] /\ \A s, t \in S : g[s] = g[t] => s = t
    BY <1>1, <1>3 DEF Backs
  <2>2. g \in Injection(S, B)
    BY <2>1 DEF Injection, IsInjective
  <2>3. IsFiniteSet(S)
    BY <2>2, FS_Injection
  <2> QED BY <2>3, FS_CardinalityType
<1>4. ASSUME NEW C \in SUBSET B PROVE Cardinality(C) \in Nat
  BY FS_Subset, FS_CardinalityType
<1>5. \A s \in H : f[s] \in B /\ UserOf[f[s][1]] = UserOf[s] /\ ChannelOf[f[s][1]] = ChannelOf[s]
  <2>1. TAKE s \in H
  <2>2. s \in Requests /\ f[s] \in B /\ Key(f[s][1]) = Key(s) /\ f[s][1] \in Requests
    BY <1>1 DEF Backs, Tokens
  <2> QED BY <2>2, KeyFacts
<1> TAKE r \in Requests
<1> DEFINE HU == {s \in H : UserOf[s] = UserOf[r]}
           HC == {s \in H : ChannelOf[s] = ChannelOf[r]}
           BU == {t \in B : UserOf[t[1]] = UserOf[r]}
           BC == {t \in B : ChannelOf[t[1]] = ChannelOf[r]}
<1>6. Cardinality(H) <= Cardinality(B)
  BY <1>2, <1>5
<1>7. Cardinality(HU) <= Cardinality(BU)
  <2>1. \A s \in HU : f[s] \in BU
    BY <1>5
  <2> QED BY <1>2, <2>1
<1>8. Cardinality(HC) <= Cardinality(BC)
  <2>1. \A s \in HC : f[s] \in BC
    BY <1>5
  <2> QED BY <1>2, <2>1
<1>9. /\ Cardinality(H) \in Nat /\ Cardinality(HU) \in Nat /\ Cardinality(HC) \in Nat
      /\ Cardinality(B) \in Nat /\ Cardinality(BU) \in Nat /\ Cardinality(BC) \in Nat
  BY <1>3, <1>4
<1>10. Cardinality(B) <= GlobalLimit /\ Cardinality(BU) <= PerUserLimit
       /\ Cardinality(BC) <= PerChannelLimit
  BY DEF SlotsLimited
<1> HIDE DEF HU, HC, BU, BC
<1>11. Cardinality(H) <= GlobalLimit /\ Cardinality(HU) <= PerUserLimit
       /\ Cardinality(HC) <= PerChannelLimit
  BY <1>6, <1>7, <1>8, <1>9, <1>10, GovernorAssumption
<1> QED BY <1>11 DEF HU, HC

\* A slot that a backend grants or takes back leaves the limits kept.
LEMMA GrantKeepsLimits ==
  ASSUME NEW B \in SUBSET Tokens, IsFiniteSet(B), SlotsLimited(B), NEW t \in Tokens,
         Grants(B, t[1])
  PROVE  SlotsLimited(B \cup {t}) /\ IsFiniteSet(B \cup {t})
<1>1. ASSUME NEW C \in SUBSET B
      PROVE  /\ IsFiniteSet(C) /\ Cardinality(C) \in Nat
             /\ Cardinality(C \cup {t}) <= Cardinality(C) + 1 /\ Cardinality(C \cup {t}) \in Nat
  <2>1. IsFiniteSet(C) /\ Cardinality(C) \in Nat
    BY FS_Subset, FS_CardinalityType
  <2>2. IsFiniteSet(C \cup {t})
        /\ Cardinality(C \cup {t}) = IF t \in C THEN Cardinality(C) ELSE Cardinality(C) + 1
    BY <2>1, FS_AddElement
  <2> QED BY <2>1, <2>2
<1>2. Cardinality(B \cup {t}) <= GlobalLimit
  BY <1>1, GovernorAssumption DEF Grants
<1>3. ASSUME NEW r \in Requests
      PROVE  Cardinality({u \in B \cup {t} : UserOf[u[1]] = UserOf[r]}) <= PerUserLimit
  <2>1. CASE UserOf[t[1]] = UserOf[r]
    <3> DEFINE C == {u \in B : UserOf[u[1]] = UserOf[t[1]]}
    <3>1. {u \in B \cup {t} : UserOf[u[1]] = UserOf[r]} = C \cup {t}
      BY <2>1
    <3>2. Cardinality(C) < PerUserLimit /\ C \in SUBSET B
      BY DEF Grants
    <3> HIDE DEF C
    <3>3. Cardinality(C \cup {t}) <= PerUserLimit
      BY <1>1, <3>2, GovernorAssumption
    <3> QED BY <3>1, <3>3
  <2>2. CASE UserOf[t[1]] # UserOf[r]
    <3>1. {u \in B \cup {t} : UserOf[u[1]] = UserOf[r]} = {u \in B : UserOf[u[1]] = UserOf[r]}
      BY <2>2
    <3> QED BY <3>1 DEF SlotsLimited
  <2> QED BY <2>1, <2>2
<1>4. ASSUME NEW r \in Requests
      PROVE  Cardinality({u \in B \cup {t} : ChannelOf[u[1]] = ChannelOf[r]}) <= PerChannelLimit
  <2>1. CASE ChannelOf[t[1]] = ChannelOf[r]
    <3> DEFINE C == {u \in B : ChannelOf[u[1]] = ChannelOf[t[1]]}
    <3>1. {u \in B \cup {t} : ChannelOf[u[1]] = ChannelOf[r]} = C \cup {t}
      BY <2>1
    <3>2. Cardinality(C) < PerChannelLimit /\ C \in SUBSET B
      BY DEF Grants
    <3> HIDE DEF C
    <3>3. Cardinality(C \cup {t}) <= PerChannelLimit
      BY <1>1, <3>2, GovernorAssumption
    <3> QED BY <3>1, <3>3
  <2>2. CASE ChannelOf[t[1]] # ChannelOf[r]
    <3>1. {u \in B \cup {t} : ChannelOf[u[1]] = ChannelOf[r]}
            = {u \in B : ChannelOf[u[1]] = ChannelOf[r]}
      BY <2>2
    <3> QED BY <3>1 DEF SlotsLimited
  <2> QED BY <2>1, <2>2
<1>5. IsFiniteSet(B \cup {t})
  BY FS_AddElement
<1> QED BY <1>2, <1>3, <1>4, <1>5 DEF SlotsLimited

\* A slot that is taken back leaves the limits kept.
LEMMA ReturnKeepsLimits ==
  ASSUME NEW B \in SUBSET Tokens, IsFiniteSet(B), SlotsLimited(B), NEW D \in SUBSET B
  PROVE  SlotsLimited(D) /\ IsFiniteSet(D)
<1>1. ASSUME NEW C \in SUBSET B, NEW E \in SUBSET C
      PROVE  Cardinality(E) <= Cardinality(C) /\ Cardinality(E) \in Nat /\ Cardinality(C) \in Nat
  <2>1. IsFiniteSet(C) /\ IsFiniteSet(E)
    BY FS_Subset
  <2> QED BY <2>1, FS_Subset, FS_CardinalityType
<1>2. IsFiniteSet(D) /\ Cardinality(D) <= GlobalLimit
  BY <1>1, FS_Subset, GovernorAssumption DEF SlotsLimited
<1>3. ASSUME NEW r \in Requests
      PROVE  /\ Cardinality({u \in D : UserOf[u[1]] = UserOf[r]}) <= PerUserLimit
             /\ Cardinality({u \in D : ChannelOf[u[1]] = ChannelOf[r]}) <= PerChannelLimit
  <2> DEFINE EU == {u \in D : UserOf[u[1]] = UserOf[r]}
             EC == {u \in D : ChannelOf[u[1]] = ChannelOf[r]}
             CU == {u \in B : UserOf[u[1]] = UserOf[r]}
             CC == {u \in B : ChannelOf[u[1]] = ChannelOf[r]}
  <2>1. Cardinality(CU) <= PerUserLimit /\ Cardinality(CC) <= PerChannelLimit
    BY DEF SlotsLimited
  <2>2. EU \in SUBSET CU /\ EC \in SUBSET CC /\ CU \in SUBSET B /\ CC \in SUBSET B
    OBVIOUS
  <2> HIDE DEF EU, EC, CU, CC
  <2>3. Cardinality(EU) <= PerUserLimit
    BY <1>1, <2>1, <2>2, GovernorAssumption
  <2>4. Cardinality(EC) <= PerChannelLimit
    BY <1>1, <2>1, <2>2, GovernorAssumption
  <2> QED BY <2>3, <2>4 DEF EU, EC
<1> QED BY <1>2, <1>3 DEF SlotsLimited

-----------------------------------------------------------------------------
\* What holds besides with the local backend, where one answer is awaited at a time: a
\* counted slot is granted just now or held under its conversation's lock, and that lock
\* is of the request that runs.
LocalSlots(c, L, B, A, P) ==
  /\ \A a, b \in P : a = b
  /\ \A t \in B : \/ \E a \in P : Grant(a) /\ TokenOf(A, a) = t
                  \/ (c[t[1]] = "held" /\ L[Key(t[1])] = t)
  /\ \A r \in Requests : c[r] = "held" => L[Key(r)] # None /\ L[Key(r)][1] = r

\* The entry that a drain has acquired for still waits when the answer comes.
DrainsUndisturbed(c, L, A, P) ==
  \A a \in P : a.call = "drain" =>
    /\ c[TokenOf(A, a)[1]] = "waiting"
    /\ L[Key(TokenOf(A, a)[1])] = None

Locally(c, L, B, A, P) == LocalSlots(c, L, B, A, P) /\ DrainsUndisturbed(c, L, A, P)

\* The slot an answer is about: of the request that awaits it, or one that its drain
\* asks for an entry of the queue.
LEMMA TokenFacts ==
  ASSUME NEW c, NEW L, NEW B, NEW A, NEW Q, NEW P, ValueTypes(c, L, B, A, Q, P),
         DrainsStand(c, A, P), NEW a \in P
  PROVE  /\ a \in AnswerSet /\ a.of \in Requests
         /\ TokenOf(A, a) \in Tokens /\ TokenOf(A, a)[2] = a.of
         /\ TokenOf(A, a)[1] = a.of <=> a.call # "drain"
<1>1. a \in AnswerSet /\ a.of \in Requests
  BY DEF ValueTypes, AnswerSet
<1>2. CASE a.call = "drain"
  <2>1. a.at \in Arrays \X Nat /\ a.at[2] \in 1 .. Len(A[a.at[1]])
        /\ A[a.at[1]][a.at[2]] # a.of
    BY <1>2 DEF DrainsStand
  <2>2. a.at[1] \in Arrays /\ A[a.at[1]] \in Seq(Requests)
    BY <2>1 DEF ValueTypes
  <2>3. A[a.at[1]][a.at[2]] \in Requests
    BY <2>1, <2>2
  <2> QED BY <1>1, <1>2, <2>1, <2>3 DEF TokenOf, Tokens
<1>3. CASE a.call # "drain"
  BY <1>1, <1>3 DEF TokenOf, Tokens
<1> QED BY <1>1, <1>2, <1>3

\* Nobody goes back.
Onward(c, c2) ==
  \A x \in Requests : /\ c[x] = "released" => c2[x] = "released"
                      /\ c[x] # "new" => c2[x] # "new"
                      /\ c[x] \notin {"new", "acquiring"} => c2[x] \notin {"new", "acquiring"}

\* What a step that leaves the arrays alone, and takes nobody back, leaves as it was.
\* The answers of P2 are those of P, if with other results, or to somebody who has released nothing yet.
Joined(c, P, P2) ==
  \A a \in P2 :
               \/ a \in P
               \/ \E b \in P : b.call = a.call /\ b.of = a.of /\ b.at = a.at
               \/ (a.call # "drain" /\ c[a.of] # "released")

\* The queue and the arrays, and what has been asked for, remain what they were.
Standing(c, A, Q, P, c2, P2) ==
  /\ Over(c2, P2, Q) /\ Listed(c2, A) /\ DrainsStand(c2, A, P2)
  /\ \A t \in Tokens : AskedFor(c, A, P, t) => AskedFor(c2, A, P2, t)

\* What the answers rest on stands as long as callers only go on and the answers that
\* join are of callers that had none: the arrays they read are no longer written.
LEMMA StandsStill ==
  ASSUME NEW c, NEW L, NEW B, NEW A, NEW Q, NEW P, Sound(c, L, B, A, Q, P)
  PROVE  \A c2 : \A P2 \in SUBSET AnswerSet :
           Onward(c, c2) /\ Joined(c, P, P2) => Standing(c, A, Q, P, c2, P2)
<1> SUFFICES ASSUME NEW c2, NEW P2 \in SUBSET AnswerSet, Onward(c, c2), Joined(c, P, P2)
             PROVE  Standing(c, A, Q, P, c2, P2)
  OBVIOUS
<1> USE DEF Joined, Standing
<1>1. /\ ValueTypes(c, L, B, A, Q, P) /\ Over(c, P, Q) /\ Listed(c, A) /\ DrainsStand(c, A, P)
  BY DEF Sound
<1>2. \A x \in Arrays : Over(c, P, x) => Over(c2, P2, x)
  <2>1. TAKE x \in Arrays
  <2>2. CASE x = None
    BY <2>2 DEF Over
  <2>3. CASE x \in Requests
    BY <2>3 DEF Over, Onward
  <2> QED BY <2>2, <2>3 DEF Arrays
<1>3. Listed(c2, A)
  <2>1. \A x \in Arrays : \A i \in 1 .. Len(A[x]) : A[x][i] \in Requests
    BY <1>1 DEF ValueTypes
  <2> QED BY <1>1, <2>1 DEF Listed, Onward
<1>4. DrainsStand(c2, A, P2)
  <2>1. ASSUME NEW a \in P2, a.call = "drain"
        PROVE  \E b \in P : b.call = a.call /\ b.of = a.of /\ b.at = a.at
    BY <2>1
  <2>2. ASSUME NEW a \in P, a.call = "drain" PROVE a.at[1] \in Arrays
    BY <1>1, <2>2 DEF DrainsStand
  <2>3. ASSUME NEW a \in P2, a.call = "drain"
        PROVE  /\ a.at \in Arrays \X Nat /\ a.at[2] \in 1 .. Len(A[a.at[1]])
               /\ Over(c2, P2, a.at[1])
               /\ A[a.at[1]][a.at[2]] # a.of
               /\ \A j \in 1 .. Len(A[a.of]) : \E i \in 1 .. a.at[2] - 1 : A[a.of][j] = A[a.at[1]][i]
    <3>1. PICK b \in P : b.call = a.call /\ b.of = a.of /\ b.at = a.at
      BY <2>1, <2>3
    <3>2. Over(c2, P2, b.at[1])
      BY <1>1, <1>2, <2>2, <2>3, <3>1 DEF DrainsStand
    <3>3. /\ b.at \in Arrays \X Nat /\ b.at[2] \in 1 .. Len(A[b.at[1]])
          /\ A[b.at[1]][b.at[2]] # b.of
          /\ \A j \in 1 .. Len(A[b.of]) : \E i \in 1 .. b.at[2] - 1 : A[b.of][j] = A[b.at[1]][i]
      BY <1>1, <2>3, <3>1 DEF DrainsStand
    <3> QED BY <3>1, <3>2, <3>3
  <2> QED BY <2>3 DEF DrainsStand
<1>5. ASSUME NEW t \in Tokens, AskedFor(c, A, P, t) PROVE AskedFor(c2, A, P2, t)
  <2>1. t[1] \in Requests /\ t[2] \in Requests
    BY DEF Tokens
  <2> QED BY <1>5, <2>1 DEF AskedFor, Onward
<1>6. Over(c2, P2, Q)
  BY <1>1, <1>2 DEF ValueTypes
<1> QED BY <1>3, <1>4, <1>5, <1>6

AskStep(c, B, P, r, result, c2, B2, b, P2) ==
  /\ r \in Requests
  /\ c[r] = "new"
  /\ result \in {"granted", "refused", "error"}
  /\ (result = "granted" => Grants(B, r))
  /\ c2 = [c EXCEPT ![r] = "acquiring"]
  /\ B2 = Acquired(B, <<r, r>>, result)
  /\ b = Answer("acquire", r, 0, result)
  /\ P2 = P \cup {b}

\* A request asks for a slot, and the answer is under way.
LEMMA AskKeeps ==
  ASSUME NEW c, NEW L, NEW B, NEW A, NEW Q, NEW P, NEW r, NEW result, NEW c2, NEW B2, NEW b, NEW P2,
         Sound(c, L, B, A, Q, P),
         AskStep(c, B, P, r, result, c2, B2, b, P2)
  PROVE  /\ Sound(c2, L, B2, A, Q, P2)
         /\ P = {} /\ Locally(c, L, B, A, P) => Locally(c2, L, B2, A, P2)
<1>0. /\ r \in Requests
      /\ c[r] = "new"
      /\ result \in {"granted", "refused", "error"}
      /\ (result = "granted" => Grants(B, r))
      /\ c2 = [c EXCEPT ![r] = "acquiring"]
      /\ B2 = Acquired(B, <<r, r>>, result)
      /\ b = Answer("acquire", r, 0, result)
      /\ P2 = P \cup {b}
  BY DEF AskStep
<1> USE <1>0
<1>1. /\ ValueTypes(c, L, B, A, Q, P) /\ OneAnswer(c, P) /\ Over(c, P, Q) /\ Listed(c, A)
      /\ DrainsStand(c, A, P) /\ TokensAsked(c, L, B, A, P) /\ GrantsCounted(L, B, A, P)
      /\ HoldersBacked(c, B, A, P) /\ SlotsLimited(B)
  BY DEF Sound
<1>2. /\ b \in AnswerSet /\ b.of = r /\ b.call = "acquire" /\ b.result = result
      /\ TokenOf(A, b) = <<r, r>> /\ <<r, r>> \in Tokens
  BY DEF Answer, AnswerSet, TokenOf, Tokens
<1>3. /\ c \in [Requests -> Phases] /\ c2 \in [Requests -> Phases] /\ c2[r] = "acquiring"
      /\ \A s \in Requests : s # r => c2[s] = c[s]
  BY <1>1 DEF ValueTypes, Phases
<1>4. \A a \in P : a.of # r /\ a.of \in Requests
  BY <1>1 DEF OneAnswer, ValueTypes, AnswerSet
<1>5. B2 = B \/ (B2 = B \cup {<<r, r>>} /\ result = "granted")
  BY DEF Acquired
<1>6. <<r, r>> \notin B /\ \A k \in Keys : L[k] # <<r, r>>
  <2>1. ~ AskedFor(c, A, P, <<r, r>>)
    BY DEF AskedFor
  <2>2. \A k \in Keys : L[k] = <<r, r>> => L[k] # None
    BY GovernorAssumption
  <2> QED BY <1>1, <2>1, <2>2 DEF TokensAsked, Standing
<1>11. ValueTypes(c2, L, B2, A, Q, P2)
  <2>1. IsFiniteSet(B) /\ IsFiniteSet(B \cup {<<r, r>>})
    BY <1>1, FS_AddElement DEF ValueTypes
  <2> QED BY <1>1, <1>2, <1>3, <1>5, <2>1 DEF ValueTypes
<1>12. OneAnswer(c2, P2)
  BY <1>1, <1>2, <1>3, <1>4 DEF OneAnswer
<1>17. Standing(c, A, Q, P, c2, P2)
  <2>1. Onward(c, c2) /\ P2 \in SUBSET AnswerSet
    BY <1>3, <1>11 DEF Onward, ValueTypes
  <2>2. b.call # "drain" /\ c[b.of] # "released"
    BY <1>2
  <2>3. Joined(c, P, P2)
    BY <2>2 DEF Joined
  <2> QED BY <2>1, <2>3, StandsStill
<1>18. TokensAsked(c2, L, B2, A, P2)
  <2>1. AskedFor(c2, A, P2, <<r, r>>)
    BY <1>3 DEF AskedFor
  <2>2. B \in SUBSET Tokens /\ \A k \in Keys : L[k] # None => L[k] \in Tokens
    BY <1>1 DEF ValueTypes
  <2> QED BY <1>1, <1>5, <1>17, <2>1, <2>2 DEF TokensAsked, Standing
<1>19. GrantsCounted(L, B2, A, P2)
  <2>1. Grant(b) => <<r, r>> \in B2
    BY <1>2, <1>5 DEF Grant, Acquired
  <2> QED BY <1>1, <1>2, <1>5, <1>6, <2>1 DEF GrantsCounted
<1>20. HoldersBacked(c2, B2, A, P2)
  <2>1. PICK f \in [Requests -> Tokens] : Backs(f, c, B, A, P)
    BY <1>1 DEF HoldersBacked
  <2>2. Backs(f, c2, B2, A, P2)
    BY <1>2, <1>3, <1>5, <1>6, <2>1 DEF Backs
  <2> QED BY <2>2 DEF HoldersBacked
<1>21. SlotsLimited(B2)
  <2>1. CASE result = "granted"
    BY <1>1, <1>2, <1>5, <2>1, GrantKeepsLimits DEF ValueTypes
  <2>2. CASE result # "granted"
    BY <1>1, <1>5, <2>2
  <2> QED BY <2>1, <2>2
<1>22. ASSUME P = {}, Locally(c, L, B, A, P) PROVE Locally(c2, L, B2, A, P2)
  <2>1. \A t \in B : t[1] \in Requests
    BY <1>1 DEF ValueTypes, Tokens
  <2>2. B2 = B \cup {<<r, r>>} => Grant(b)
    BY <1>2, <1>5, <1>6 DEF Grant
  <2> QED BY <1>2, <1>3, <1>5, <1>22, <2>1, <2>2 DEF Locally, LocalSlots, DrainsUndisturbed
<1> QED BY <1>11, <1>12, <1>17, <1>18, <1>19, <1>20, <1>21, <1>22 DEF Sound, Standing

\* The answer h is taken and its request is told, or has been.
LEMMA TakenFacts ==
  ASSUME NEW c, NEW L, NEW B, NEW A, NEW Q, NEW P, Sound(c, L, B, A, Q, P),
         NEW h \in P, NEW P2, P2 = {a \in P : a.of # h.of}
  PROVE  /\ P2 \in SUBSET P /\ P2 \in SUBSET AnswerSet /\ P = P2 \cup {h} /\ h \notin P2
         /\ \A a \in P2 : TokenOf(A, a) # TokenOf(A, h)
         /\ \A a, b \in P2 : a.of = b.of => a = b
<1>1. ValueTypes(c, L, B, A, Q, P) /\ OneAnswer(c, P) /\ DrainsStand(c, A, P)
  BY DEF Sound
<1>2. \A a \in P : TokenOf(A, a)[2] = a.of
  BY <1>1, TokenFacts
<1>3. P \in SUBSET AnswerSet
  BY <1>1 DEF ValueTypes
<1>4. \A a \in P : a.of = h.of => a = h
  BY <1>1 DEF OneAnswer
<1> QED BY <1>1, <1>2, <1>3, <1>4 DEF OneAnswer

FailStep(c, P, h, P2, c2) ==
  /\ h \in P
  /\ ~ Grant(h)
  /\ P2 = {a \in P : a.of # h.of}
  /\ \/ c2 = c /\ h.call \in {"release", "drain"}
     \/ c2 = [c EXCEPT ![h.of] = "failed"] /\ h.call \in {"acquire", "return"}

\* An acquire that failed, or was refused and timed out, takes nothing.
LEMMA FailKeeps ==
  ASSUME NEW c, NEW L, NEW B, NEW A, NEW Q, NEW P, NEW h, NEW P2, NEW c2,
         Sound(c, L, B, A, Q, P),
         FailStep(c, P, h, P2, c2)
  PROVE  /\ Sound(c2, L, B, A, Q, P2)
         /\ Locally(c, L, B, A, P) => Locally(c2, L, B, A, P2)
<1>0. /\ h \in P
      /\ ~ Grant(h)
      /\ P2 = {a \in P : a.of # h.of}
      /\ \/ c2 = c /\ h.call \in {"release", "drain"}
         \/ c2 = [c EXCEPT ![h.of] = "failed"] /\ h.call \in {"acquire", "return"}
  BY DEF FailStep
<1> USE <1>0
<1>1. /\ ValueTypes(c, L, B, A, Q, P) /\ OneAnswer(c, P) /\ Over(c, P, Q) /\ Listed(c, A)
      /\ DrainsStand(c, A, P) /\ TokensAsked(c, L, B, A, P) /\ GrantsCounted(L, B, A, P)
      /\ HoldersBacked(c, B, A, P) /\ SlotsLimited(B)
  BY DEF Sound
<1>2. /\ P2 \in SUBSET P /\ P2 \in SUBSET AnswerSet /\ P = P2 \cup {h} /\ h \notin P2
      /\ \A a, b \in P2 : a.of = b.of => a = b
  BY TakenFacts
<1>3. /\ c \in [Requests -> Phases] /\ c2 \in [Requests -> Phases] /\ h.of \in Requests
      /\ \A x \in Requests : c2[x] = c[x] \/ (x = h.of /\ c[x] = "acquiring" /\ c2[x] = "failed")
  BY <1>1 DEF ValueTypes, Phases, OneAnswer, AnswerSet
<1>4. ValueTypes(c2, L, B, A, Q, P2)
  BY <1>1, <1>2, <1>3 DEF ValueTypes
<1>5. OneAnswer(c2, P2)
  <2>1. \A a \in P2 : a.of \in Requests /\ a.of # h.of
    BY <1>2 DEF AnswerSet
  <2> QED BY <1>1, <1>2, <1>3, <2>1 DEF OneAnswer
<1>6. Standing(c, A, Q, P, c2, P2)
  <2>1. Onward(c, c2) /\ Joined(c, P, P2) /\ P2 \in SUBSET AnswerSet
    BY <1>2, <1>3 DEF Onward, Joined
  <2> QED BY <2>1, StandsStill
<1>7. TokensAsked(c2, L, B, A, P2)
  <2>1. B \in SUBSET Tokens /\ \A k \in Keys : L[k] # None => L[k] \in Tokens
    BY <1>1 DEF ValueTypes
  <2> QED BY <1>1, <1>6, <2>1 DEF TokensAsked, Standing
<1>8. GrantsCounted(L, B, A, P2)
  BY <1>1, <1>2 DEF GrantsCounted
<1>9. \A x \in Requests : c2[x] = "held" <=> c[x] = "held"
  BY <1>3
<1>10. HoldersBacked(c2, B, A, P2)
  BY <1>1, <1>2, <1>9 DEF HoldersBacked, Backs
<1>11. ASSUME Locally(c, L, B, A, P) PROVE Locally(c2, L, B, A, P2)
  <2>1. P2 = {}
    BY <1>2, <1>11 DEF Locally, LocalSlots, DrainsUndisturbed
  <2>2. \A t \in B : t[1] \in Requests
    BY <1>1 DEF ValueTypes, Tokens
  <2>3. P = {h}
    BY <1>2, <2>1
  <2> QED BY <1>9, <1>11, <2>1, <2>2, <2>3 DEF Locally, LocalSlots, DrainsUndisturbed
<1> QED BY <1>1, <1>4, <1>5, <1>6, <1>7, <1>8, <1>10, <1>11 DEF Sound, Standing

TimeoutStep(c, r, c2) ==
  /\ r \in Requests
  /\ c[r] = "waiting"
  /\ c2 = [c EXCEPT ![r] = "timedOut"]

\* A timer that fires ends the wait of its request.
LEMMA TimeoutKeeps ==
  ASSUME NEW c, NEW L, NEW B, NEW A, NEW Q, NEW P, NEW r, NEW c2,
         Sound(c, L, B, A, Q, P),
         TimeoutStep(c, r, c2)
  PROVE  /\ Sound(c2, L, B, A, Q, P)
         /\ P = {} /\ Locally(c, L, B, A, P) => Locally(c2, L, B, A, P)
<1>0. /\ r \in Requests
      /\ c[r] = "waiting"
      /\ c2 = [c EXCEPT ![r] = "timedOut"]
  BY DEF TimeoutStep
<1> USE <1>0
<1>1. /\ ValueTypes(c, L, B, A, Q, P) /\ OneAnswer(c, P) /\ Over(c, P, Q) /\ Listed(c, A)
      /\ DrainsStand(c, A, P) /\ TokensAsked(c, L, B, A, P) /\ GrantsCounted(L, B, A, P)
      /\ HoldersBacked(c, B, A, P) /\ SlotsLimited(B)
  BY DEF Sound
<1>2. /\ c2 \in [Requests -> Phases] /\ P \in SUBSET AnswerSet
      /\ \A x \in Requests : c2[x] = c[x] \/ (c[x] = "waiting" /\ c2[x] = "timedOut")
  BY <1>1 DEF ValueTypes, Phases
<1>3. Standing(c, A, Q, P, c2, P)
  <2>1. Onward(c, c2) /\ Joined(c, P, P)
    BY <1>2 DEF Onward, Joined
  <2> QED BY <1>2, <2>1, StandsStill
<1>4. TokensAsked(c2, L, B, A, P)
  <2>1. B \in SUBSET Tokens /\ \A k \in Keys : L[k] # None => L[k] \in Tokens
    BY <1>1 DEF ValueTypes
  <2> QED BY <1>1, <1>3, <2>1 DEF TokensAsked, Standing
<1>5. OneAnswer(c2, P) /\ ValueTypes(c2, L, B, A, Q, P)
  <2>1. \A a \in P : a.of \in Requests
    BY <1>2 DEF AnswerSet
  <2> QED BY <1>1, <1>2, <2>1 DEF OneAnswer, ValueTypes
<1>6. \A x \in Requests : c2[x] = "held" <=> c[x] = "held"
  BY <1>2
<1>7. HoldersBacked(c2, B, A, P)
  BY <1>1, <1>6 DEF HoldersBacked, Backs
<1>8. ASSUME P = {}, Locally(c, L, B, A, P) PROVE Locally(c2, L, B, A, P)
  <2>1. \A t \in B : t[1] \in Requests
    BY <1>1 DEF ValueTypes, Tokens
  <2> QED BY <1>6, <1>8, <2>1 DEF Locally, LocalSlots, DrainsUndisturbed
<1> QED BY <1>1, <1>3, <1>4, <1>5, <1>7, <1>8 DEF Sound, Standing

LockStep(c, L, P, h, P2, c2, L2) ==
  /\ h \in P
  /\ h.call = "acquire"
  /\ Grant(h)
  /\ L[Key(h.of)] = None
  /\ P2 = {a \in P : a.of # h.of}
  /\ c2 = [c EXCEPT ![h.of] = "held"]
  /\ L2 = [L EXCEPT ![Key(h.of)] = <<h.of, h.of>>]

\* A slot that arrives becomes the lock of its conversation, if it has none.
LEMMA LockKeeps ==
  ASSUME NEW c, NEW L, NEW B, NEW A, NEW Q, NEW P, NEW h, NEW P2, NEW c2, NEW L2,
         Sound(c, L, B, A, Q, P),
         LockStep(c, L, P, h, P2, c2, L2)
  PROVE  /\ Sound(c2, L2, B, A, Q, P2)
         /\ Locally(c, L, B, A, P) => Locally(c2, L2, B, A, P2)
<1>0. /\ h \in P
      /\ h.call = "acquire"
      /\ Grant(h)
      /\ L[Key(h.of)] = None
      /\ P2 = {a \in P : a.of # h.of}
      /\ c2 = [c EXCEPT ![h.of] = "held"]
      /\ L2 = [L EXCEPT ![Key(h.of)] = <<h.of, h.of>>]
  BY DEF LockStep
<1> USE <1>0
<1>1. /\ ValueTypes(c, L, B, A, Q, P) /\ OneAnswer(c, P) /\ Over(c, P, Q) /\ Listed(c, A)
      /\ DrainsStand(c, A, P) /\ TokensAsked(c, L, B, A, P) /\ GrantsCounted(L, B, A, P)
      /\ HoldersBacked(c, B, A, P) /\ SlotsLimited(B)
  BY DEF Sound
<1> DEFINE r == h.of
           t == <<h.of, h.of>>
<1>2. /\ P2 \in SUBSET P /\ P2 \in SUBSET AnswerSet /\ P = P2 \cup {h} /\ h \notin P2
      /\ \A a, b \in P2 : a.of = b.of => a = b
      /\ \A a \in P2 : TokenOf(A, a) # t
  <2>1. TokenOf(A, h) = t
    BY DEF TokenOf
  <2> QED BY <2>1, TakenFacts
<1>3. /\ c \in [Requests -> Phases] /\ c2 \in [Requests -> Phases] /\ r \in Requests
      /\ c[r] = "acquiring" /\ c2[r] = "held" /\ \A x \in Requests : x # r => c2[x] = c[x]
  BY <1>1 DEF ValueTypes, Phases, OneAnswer, AnswerSet
<1>4. /\ t \in Tokens /\ t \in B /\ t[1] = r /\ t[2] = r
      /\ Key(r) \in Keys /\ L2 \in [Keys -> Tokens \cup {None}] /\ L2[Key(r)] = t
      /\ \A k \in Keys : k # Key(r) => L2[k] = L[k]
  <2>1. t \in Tokens /\ Key(r) \in Keys /\ t[1] = r /\ t[2] = r
    BY <1>3, KeyFacts DEF Tokens
  <2>2. t \in B
    BY <1>1 DEF GrantsCounted, TokenOf
  <2> QED BY <1>1, <2>1, <2>2 DEF ValueTypes
<1>5. t # None
  BY <1>4, GovernorAssumption DEF Tokens
<1> HIDE DEF r, t
<1>6. ValueTypes(c2, L2, B, A, Q, P2)
  BY <1>1, <1>2, <1>3, <1>4 DEF ValueTypes
<1>7. OneAnswer(c2, P2)
  <2>1. \A a \in P2 : a.of \in Requests /\ a.of # r
    BY <1>2 DEF AnswerSet, r
  <2> QED BY <1>1, <1>2, <1>3, <2>1 DEF OneAnswer
<1>8. Standing(c, A, Q, P, c2, P2)
  <2>1. Onward(c, c2) /\ Joined(c, P, P2) /\ P2 \in SUBSET AnswerSet
    BY <1>2, <1>3 DEF Onward, Joined
  <2> QED BY <2>1, StandsStill
<1>9. TokensAsked(c2, L2, B, A, P2)
  <2>1. B \in SUBSET Tokens /\ \A k \in Keys : L[k] # None => L[k] \in Tokens
    BY <1>1 DEF ValueTypes
  <2>2. AskedFor(c2, A, P2, t)
    BY <1>3, <1>4 DEF AskedFor
  <2> QED BY <1>1, <1>4, <1>8, <2>1, <2>2 DEF TokensAsked, Standing
<1>10. GrantsCounted(L2, B, A, P2)
  BY <1>1, <1>2, <1>4 DEF GrantsCounted
<1>11. HoldersBacked(c2, B, A, P2)
  <2>1. PICK f \in [Requests -> Tokens] : Backs(f, c, B, A, P)
    BY <1>1 DEF HoldersBacked
  <2> DEFINE g == [f EXCEPT ![r] = t]
  <2>2. g \in [Requests -> Tokens] /\ g[r] = t /\ \A x \in Requests : x # r => g[x] = f[x]
    BY <1>3, <1>4
  <2> HIDE DEF g
  <2>3. \A x \in Requests : c[x] = "held" => f[x] # t
    BY <2>1 DEF Backs, TokenOf, t
  <2>4. Backs(g, c2, B, A, P2)
    BY <1>2, <1>3, <1>4, <2>1, <2>2, <2>3 DEF Backs
  <2> QED BY <2>2, <2>4 DEF HoldersBacked
<1>12. ASSUME Locally(c, L, B, A, P) PROVE Locally(c2, L2, B, A, P2)
  <2>1. P2 = {} /\ P = {h}
    BY <1>2, <1>12 DEF Locally, LocalSlots, DrainsUndisturbed
  <2>2. \A u \in B : u[1] \in Requests
    BY <1>1 DEF ValueTypes, Tokens
  <2>3. TokenOf(A, h) = t
    BY DEF TokenOf, t
  <2>4. \A u \in B : u = t \/ (c2[u[1]] = "held" /\ L2[Key(u[1])] = u)
    <3>1. ASSUME NEW u \in B, u # t PROVE c2[u[1]] = "held" /\ L2[Key(u[1])] = u
      <4>1. c[u[1]] = "held" /\ L[Key(u[1])] = u
        BY <1>12, <2>1, <2>3, <3>1 DEF Locally, LocalSlots, DrainsUndisturbed
      <4>2. u[1] # r /\ Key(u[1]) \in Keys /\ u # None
        BY <1>1, <1>3, <2>2, <4>1, KeyFacts, GovernorAssumption DEF ValueTypes, Tokens
      <4>3. Key(u[1]) # Key(r)
        BY <4>1, <4>2 DEF r
      <4> QED BY <1>3, <1>4, <2>2, <4>1, <4>2, <4>3
    <3> QED BY <3>1
  <2>5. \A x \in Requests : c2[x] = "held" => L2[Key(x)] # None /\ L2[Key(x)][1] = x
    <3>1. TAKE x \in Requests
    <3>2. CASE x = r
      BY <1>4, <1>5, <3>2
    <3>3. CASE x # r
      <4>1. HAVE c2[x] = "held"
      <4>2. L[Key(x)] # None /\ L[Key(x)][1] = x /\ Key(x) \in Keys
        BY <1>3, <1>12, <3>3, <4>1, KeyFacts DEF Locally, LocalSlots, DrainsUndisturbed
      <4>3. Key(x) # Key(r)
        BY <4>2 DEF r
      <4> QED BY <1>4, <4>2, <4>3
    <3> QED BY <3>2, <3>3
  <2> QED BY <1>3, <1>4, <2>1, <2>4, <2>5 DEF Locally, LocalSlots, DrainsUndisturbed
<1> QED BY <1>1, <1>6, <1>7, <1>8, <1>9, <1>10, <1>11, <1>12 DEF Sound, Standing

ReturnStep(B, P, h, result, B2, b, P2) ==
  /\ h \in P
  /\ h.call = "acquire"
  /\ Grant(h)
  /\ result \in {"done", "error"}
  /\ B2 = ReleasedFrom(B, <<h.of, h.of>>, result)
  /\ b = Answer("return", h.of, 0, result)
  /\ P2 = {a \in P : a.of # h.of} \cup {b}

\* A slot that comes to a conversation with a lock is given back.
LEMMA ReturnKeeps ==
  ASSUME NEW c, NEW L, NEW B, NEW A, NEW Q, NEW P, NEW h, NEW result, NEW B2, NEW b, NEW P2,
         Sound(c, L, B, A, Q, P),
         ReturnStep(B, P, h, result, B2, b, P2)
  PROVE  /\ Sound(c, L, B2, A, Q, P2)
         /\ result = "done" /\ Locally(c, L, B, A, P) => Locally(c, L, B2, A, P2)
<1>0. /\ h \in P
      /\ h.call = "acquire"
      /\ Grant(h)
      /\ result \in {"done", "error"}
      /\ B2 = ReleasedFrom(B, <<h.of, h.of>>, result)
      /\ b = Answer("return", h.of, 0, result)
      /\ P2 = {a \in P : a.of # h.of} \cup {b}
  BY DEF ReturnStep
<1> USE <1>0
<1>1. /\ ValueTypes(c, L, B, A, Q, P) /\ OneAnswer(c, P) /\ Over(c, P, Q) /\ Listed(c, A)
      /\ DrainsStand(c, A, P) /\ TokensAsked(c, L, B, A, P) /\ GrantsCounted(L, B, A, P)
      /\ HoldersBacked(c, B, A, P) /\ SlotsLimited(B)
  BY DEF Sound
<1> DEFINE r == h.of
           t == <<h.of, h.of>>
           P1 == {a \in P : a.of # h.of}
<1>2. /\ P1 \in SUBSET P /\ P1 \in SUBSET AnswerSet /\ P = P1 \cup {h} /\ h \notin P1
      /\ \A a, d \in P1 : a.of = d.of => a = d
      /\ \A a \in P1 : TokenOf(A, a) # t
  <2>1. TokenOf(A, h) = t /\ P1 = {a \in P : a.of # h.of}
    BY DEF TokenOf
  <2> HIDE DEF P1, t
  <2> QED BY <2>1, TakenFacts
<1>3. c \in [Requests -> Phases] /\ r \in Requests /\ c[r] = "acquiring"
  BY <1>1 DEF ValueTypes, OneAnswer, AnswerSet
<1>4. /\ b \in AnswerSet /\ b.of = r /\ b.call = "return" /\ ~ Grant(b) /\ P2 = P1 \cup {b}
      /\ \A a \in P1 : a.of # r
  BY <1>3 DEF Answer, AnswerSet, Grant
<1> HIDE DEF r, t, P1
<1>5. /\ B2 \in SUBSET B /\ \A u \in B : u # t => u \in B2
      /\ result = "done" => B2 = B \ {t}
  BY DEF ReleasedFrom, t
<1>6. ValueTypes(c, L, B2, A, Q, P2) /\ SlotsLimited(B2)
  <2>1. IsFiniteSet(B2) /\ SlotsLimited(B2)
    BY <1>1, <1>5, ReturnKeepsLimits DEF ValueTypes
  <2> QED BY <1>1, <1>2, <1>4, <1>5, <2>1 DEF ValueTypes
<1>7. OneAnswer(c, P2)
  BY <1>1, <1>2, <1>3, <1>4 DEF OneAnswer
<1>8. Standing(c, A, Q, P, c, P2)
  <2>1. Onward(c, c) /\ Joined(c, P, P2) /\ P2 \in SUBSET AnswerSet
    BY <1>2, <1>3, <1>4 DEF Onward, Joined
  <2> QED BY <2>1, StandsStill
<1>9. TokensAsked(c, L, B2, A, P2)
  <2>1. B \in SUBSET Tokens /\ \A k \in Keys : L[k] # None => L[k] \in Tokens
    BY <1>1 DEF ValueTypes
  <2> QED BY <1>1, <1>5, <1>8, <2>1 DEF TokensAsked, Standing
<1>10. GrantsCounted(L, B2, A, P2)
  BY <1>1, <1>2, <1>4, <1>5 DEF GrantsCounted
<1>11. HoldersBacked(c, B2, A, P2)
  <2>1. PICK f \in [Requests -> Tokens] : Backs(f, c, B, A, P)
    BY <1>1 DEF HoldersBacked
  <2>2. \A x \in Requests : c[x] = "held" => f[x] # t
    BY <2>1 DEF Backs, TokenOf, t
  <2>3. Backs(f, c, B2, A, P2)
    BY <1>2, <1>4, <1>5, <2>1, <2>2 DEF Backs
  <2> QED BY <2>3 DEF HoldersBacked
<1>12. ASSUME result = "done", Locally(c, L, B, A, P) PROVE Locally(c, L, B2, A, P2)
  <2>1. P2 = {b} /\ P = {h} /\ TokenOf(A, h) = t
    BY <1>2, <1>4, <1>12 DEF Locally, LocalSlots, DrainsUndisturbed, TokenOf, t
  <2> QED BY <1>4, <1>5, <1>12, <2>1 DEF Locally, LocalSlots, DrainsUndisturbed
<1> QED BY <1>1, <1>6, <1>7, <1>8, <1>9, <1>10, <1>11, <1>12 DEF Sound, Standing

\* Another request at the end of the array x.
LEMMA Lengthened ==
  ASSUME NEW A \in [Arrays -> Seq(Requests)], NEW x \in Arrays, NEW r \in Requests,
         NEW A2, A2 = [A EXCEPT ![x] = Append(@, r)]
  PROVE  /\ A2 \in [Arrays -> Seq(Requests)]
         /\ \A y \in Arrays : y # x => A2[y] = A[y]
         /\ Len(A[x]) \in Nat /\ Len(A2[x]) = Len(A[x]) + 1 /\ A2[x][Len(A[x]) + 1] = r
         /\ \A y \in Arrays : /\ 1 .. Len(A[y]) \subseteq 1 .. Len(A2[y])
                              /\ \A i \in 1 .. Len(A[y]) : A2[y][i] = A[y][i]
<1>1. A[x] \in Seq(Requests) /\ A2[x] = Append(A[x], r) /\ \A y \in Arrays : y # x => A2[y] = A[y]
  OBVIOUS
<1>2. /\ Append(A[x], r) \in Seq(Requests) /\ Len(A[x]) \in Nat
      /\ Len(Append(A[x], r)) = Len(A[x]) + 1 /\ Append(A[x], r)[Len(A[x]) + 1] = r
      /\ \A i \in 1 .. Len(A[x]) : Append(A[x], r)[i] = A[x][i]
  BY <1>1
<1>3. A2 \in [Arrays -> Seq(Requests)]
  BY <1>1, <1>2
<1>4. 1 .. Len(A[x]) \subseteq 1 .. Len(A2[x])
  BY <1>1, <1>2
<1> QED BY <1>1, <1>2, <1>3, <1>4

QueueStep(c, A, Q, P, h, P2, c2, A2) ==
  /\ h \in P
  /\ h.call \in {"acquire", "return"}
  /\ ~ Grant(h)
  /\ P2 = {a \in P : a.of # h.of}
  /\ c2 = [c EXCEPT ![h.of] = "waiting"]
  /\ A2 = [A EXCEPT ![Q] = Append(@, h.of)]

\* A request that was refused joins the queue.
LEMMA QueueKeeps ==
  ASSUME NEW c, NEW L, NEW B, NEW A, NEW Q, NEW P, NEW h, NEW P2, NEW c2, NEW A2,
         Sound(c, L, B, A, Q, P),
         QueueStep(c, A, Q, P, h, P2, c2, A2)
  PROVE  /\ Sound(c2, L, B, A2, Q, P2)
         /\ Locally(c, L, B, A, P) => Locally(c2, L, B, A2, P2)
<1>0. /\ h \in P
      /\ h.call \in {"acquire", "return"}
      /\ ~ Grant(h)
      /\ P2 = {a \in P : a.of # h.of}
      /\ c2 = [c EXCEPT ![h.of] = "waiting"]
      /\ A2 = [A EXCEPT ![Q] = Append(@, h.of)]
  BY DEF QueueStep
<1> USE <1>0
<1>1. /\ ValueTypes(c, L, B, A, Q, P) /\ OneAnswer(c, P) /\ Over(c, P, Q) /\ Listed(c, A)
      /\ DrainsStand(c, A, P) /\ TokensAsked(c, L, B, A, P) /\ GrantsCounted(L, B, A, P)
      /\ HoldersBacked(c, B, A, P) /\ SlotsLimited(B)
  BY DEF Sound
<1> DEFINE r == h.of
<1>2. /\ P2 \in SUBSET P /\ P2 \in SUBSET AnswerSet /\ P = P2 \cup {h} /\ h \notin P2
      /\ \A a, b \in P2 : a.of = b.of => a = b
      /\ \A a \in P2 : a.of # r /\ a.of \in Requests
  <2>1. P \in SUBSET AnswerSet
    BY <1>1 DEF ValueTypes
  <2> QED BY <2>1, TakenFacts DEF AnswerSet
<1>3. /\ c \in [Requests -> Phases] /\ c2 \in [Requests -> Phases] /\ r \in Requests
      /\ c[r] = "acquiring" /\ c2[r] = "waiting" /\ \A x \in Requests : x # r => c2[x] = c[x]
  BY <1>1 DEF ValueTypes, Phases, OneAnswer, AnswerSet
<1>4. /\ A \in [Arrays -> Seq(Requests)] /\ Q \in Arrays /\ A2 = [A EXCEPT ![Q] = Append(@, r)]
  BY <1>1 DEF ValueTypes
<1>5. /\ A2 \in [Arrays -> Seq(Requests)]
      /\ \A y \in Arrays : y # Q => A2[y] = A[y]
      /\ Len(A[Q]) \in Nat /\ Len(A2[Q]) = Len(A[Q]) + 1 /\ A2[Q][Len(A[Q]) + 1] = r
      /\ \A y \in Arrays : /\ 1 .. Len(A[y]) \subseteq 1 .. Len(A2[y])
                           /\ \A i \in 1 .. Len(A[y]) : A2[y][i] = A[y][i]
  <2> HIDE DEF r
  <2> QED BY <1>3, <1>4, Lengthened
<1> HIDE DEF r
<1>6. \A y \in Arrays : \A i \in 1 .. Len(A2[y]) :
        i \in 1 .. Len(A[y]) \/ (y = Q /\ i = Len(A[Q]) + 1)
  <2>1. TAKE y \in Arrays
  <2>2. CASE y = Q
    BY <1>5, <2>2
  <2>3. CASE y # Q
    BY <1>5, <2>3
  <2> QED BY <2>2, <2>3
<1>7. ValueTypes(c2, L, B, A2, Q, P2)
  BY <1>1, <1>2, <1>3, <1>5 DEF ValueTypes
<1>8. OneAnswer(c2, P2)
  BY <1>1, <1>2, <1>3 DEF OneAnswer
<1>9. Standing(c, A, Q, P, c2, P2)
  <2>1. Onward(c, c2) /\ Joined(c, P, P2) /\ P2 \in SUBSET AnswerSet
    BY <1>2, <1>3 DEF Onward, Joined
  <2> QED BY <2>1, StandsStill
<1>10. Listed(c2, A2)
  <2>1. \A y \in Arrays : \A i \in 1 .. Len(A[y]) : A[y][i] # r /\ A[y][i] \in Requests
    BY <1>1, <1>3 DEF Listed, ValueTypes
  <2>2. ASSUME NEW y \in Arrays, NEW i \in 1 .. Len(A2[y])
        PROVE  c2[A2[y][i]] \notin {"new", "acquiring"}
    <3>1. CASE i \in 1 .. Len(A[y])
      BY <1>5, <1>9, <3>1 DEF Standing, Listed
    <3>2. CASE y = Q /\ i = Len(A[Q]) + 1
      BY <1>3, <1>5, <3>2
    <3> QED BY <1>6, <3>1, <3>2
  <2>3. ASSUME NEW y \in Arrays, NEW i \in 1 .. Len(A2[y]), NEW j \in 1 .. Len(A2[y]),
               A2[y][i] = A2[y][j]
        PROVE  i = j
    <3>1. CASE i \in 1 .. Len(A[y]) /\ j \in 1 .. Len(A[y])
      BY <1>1, <1>5, <2>3, <3>1 DEF Listed
    <3>2. CASE y = Q /\ (i = Len(A[Q]) + 1 \/ j = Len(A[Q]) + 1)
      BY <1>5, <1>6, <2>1, <2>3, <3>2
    <3> QED BY <1>6, <3>1, <3>2
  <2> QED BY <2>2, <2>3 DEF Listed
<1>11. \A a \in P : a.call = "drain" =>
         /\ a.at \in Arrays \X Nat /\ a.at[1] \in Arrays /\ a.at[2] \in 1 .. Len(A[a.at[1]])
         /\ A2[a.at[1]][a.at[2]] = A[a.at[1]][a.at[2]] /\ TokenOf(A2, a) = TokenOf(A, a)
         /\ \A j \in 1 .. a.at[2] :
              j \in 1 .. Len(A[a.at[1]]) /\ A2[a.at[1]][j] = A[a.at[1]][j]
  <2>1. TAKE a \in P
  <2>2. HAVE a.call = "drain"
  <2>3. a.at \in Arrays \X Nat /\ a.at[1] \in Arrays /\ a.at[2] \in 1 .. Len(A[a.at[1]])
    BY <1>1, <2>2 DEF DrainsStand
  <2>4. \A j \in 1 .. a.at[2] : j \in 1 .. Len(A[a.at[1]])
    BY <1>4, <2>3
  <2> QED BY <1>5, <2>2, <2>3, <2>4 DEF TokenOf
<1>12. \A a \in P : TokenOf(A2, a) = TokenOf(A, a)
  BY <1>11 DEF TokenOf
<1>13. DrainsStand(c2, A2, P2)
  <2>1. ASSUME NEW a \in P2, a.call = "drain"
        PROVE  /\ a.at \in Arrays \X Nat /\ a.at[2] \in 1 .. Len(A2[a.at[1]])
               /\ Over(c2, P2, a.at[1])
               /\ A2[a.at[1]][a.at[2]] # a.of
               /\ \A j \in 1 .. Len(A2[a.of]) : \E i \in 1 .. a.at[2] - 1 : A2[a.of][j] = A2[a.at[1]][i]
    <3>1. /\ a.at \in Arrays \X Nat /\ a.at[2] \in 1 .. Len(A[a.at[1]])
          /\ Over(c2, P2, a.at[1]) /\ A[a.at[1]][a.at[2]] # a.of
          /\ \A j \in 1 .. Len(A[a.of]) : \E i \in 1 .. a.at[2] - 1 : A[a.of][j] = A[a.at[1]][i]
      BY <1>9, <2>1 DEF Standing, DrainsStand
    <3>2. a.of # Q /\ a.of \in Arrays
      <4>1. a.of # None /\ a.of \in Requests
        BY <1>2, <2>1, GovernorAssumption
      <4> QED BY <1>2, <1>9, <2>1, <4>1 DEF Standing, Over, Arrays
    <3>3. A2[a.of] = A[a.of]
      BY <1>5, <3>2
    <3>4. \A i \in 1 .. a.at[2] - 1 : A2[a.at[1]][i] = A[a.at[1]][i]
      BY <1>2, <1>11, <2>1, <3>1
    <3>5. a.at[2] \in 1 .. Len(A2[a.at[1]]) /\ A2[a.at[1]][a.at[2]] = A[a.at[1]][a.at[2]]
      BY <1>2, <1>5, <1>11, <2>1
    <3>6. \A j \in 1 .. Len(A2[a.of]) : \E i \in 1 .. a.at[2] - 1 : A2[a.of][j] = A2[a.at[1]][i]
      <4>1. TAKE j \in 1 .. Len(A2[a.of])
      <4>2. PICK i \in 1 .. a.at[2] - 1 : A[a.of][j] = A[a.at[1]][i]
        BY <3>1, <3>3
      <4> QED BY <3>3, <3>4, <4>2
    <3> QED BY <3>1, <3>5, <3>6
  <2> QED BY <2>1 DEF DrainsStand
<1>14. \A t \in Tokens : AskedFor(c, A, P, t) => AskedFor(c2, A2, P2, t)
  <2>1. ASSUME NEW t \in Tokens, AskedFor(c, A, P, t) PROVE AskedFor(c2, A2, P2, t)
    <3>1. AskedFor(c2, A, P2, t)
      BY <1>9, <2>1 DEF Standing
    <3>2. \A a \in P2 : a.call = "drain" => \A j \in 1 .. a.at[2] : A2[a.at[1]][j] = A[a.at[1]][j]
      BY <1>2, <1>11
    <3>3. CASE t[1] = t[2]
      BY <3>1, <3>3 DEF AskedFor
    <3>4. CASE t[1] # t[2]
      <4>1. ASSUME NEW a \in P2, a.of = t[2]
            PROVE  a.call = "drain" /\ \E j \in 1 .. a.at[2] : A2[a.at[1]][j] = t[1]
        <5>1. a.call = "drain" /\ \E j \in 1 .. a.at[2] : A[a.at[1]][j] = t[1]
          BY <3>1, <3>4, <4>1 DEF AskedFor
        <5> QED BY <3>2, <5>1
      <4> QED BY <3>1, <3>4, <4>1 DEF AskedFor
    <3> QED BY <3>3, <3>4
  <2> QED BY <2>1
<1>15. TokensAsked(c2, L, B, A2, P2)
  <2>1. B \in SUBSET Tokens /\ \A k \in Keys : L[k] # None => L[k] \in Tokens
    BY <1>1 DEF ValueTypes
  <2> QED BY <1>1, <1>14, <2>1 DEF TokensAsked
<1>16. GrantsCounted(L, B, A2, P2)
  BY <1>1, <1>2, <1>12 DEF GrantsCounted
<1>17. \A x \in Requests : c2[x] = "held" <=> c[x] = "held"
  BY <1>3
<1>18. HoldersBacked(c2, B, A2, P2)
  <2>1. PICK f \in [Requests -> Tokens] : Backs(f, c, B, A, P)
    BY <1>1 DEF HoldersBacked
  <2>2. \A a \in P2 : a \in P /\ TokenOf(A2, a) = TokenOf(A, a)
    BY <1>2, <1>12
  <2>3. Backs(f, c2, B, A2, P2)
    BY <1>17, <2>1, <2>2 DEF Backs
  <2> QED BY <2>3 DEF HoldersBacked
<1>19. ASSUME Locally(c, L, B, A, P) PROVE Locally(c2, L, B, A2, P2)
  <2>1. P2 = {} /\ P = {h}
    BY <1>2, <1>19 DEF Locally, LocalSlots, DrainsUndisturbed
  <2>2. \A t \in B : t[1] \in Requests
    BY <1>1 DEF ValueTypes, Tokens
  <2> QED BY <1>17, <1>19, <2>1, <2>2 DEF Locally, LocalSlots, DrainsUndisturbed
<1> QED BY <1>1, <1>7, <1>8, <1>9, <1>10, <1>13, <1>15, <1>16, <1>18, <1>19
        DEF Sound, Standing

ReleaseStep(c, L, B, P, r, t, c2, L2, result, B2, b, P2) ==
  /\ r \in Requests
  /\ c[r] = "held"
  /\ t = L[Key(r)]
  /\ t # None
  /\ c2 = [c EXCEPT ![r] = "released"]
  /\ L2 = [L EXCEPT ![Key(r)] = None]
  /\ result \in {"done", "error"}
  /\ B2 = ReleasedFrom(B, t, result)
  /\ b = Answer("release", r, 0, result)
  /\ P2 = P \cup {b}

\* A release gives the lock up and its slot back, unless the call fails.
LEMMA ReleaseKeeps ==
  ASSUME NEW c, NEW L, NEW B, NEW A, NEW Q, NEW P, NEW r, NEW t, NEW c2, NEW L2, NEW result, NEW B2, NEW b, NEW P2,
         Sound(c, L, B, A, Q, P),
         ReleaseStep(c, L, B, P, r, t, c2, L2, result, B2, b, P2)
  PROVE  /\ Sound(c2, L2, B2, A, Q, P2)
         /\ P = {} /\ result = "done" /\ Locally(c, L, B, A, P) => Locally(c2, L2, B2, A, P2)
<1>0. /\ r \in Requests
      /\ c[r] = "held"
      /\ t = L[Key(r)]
      /\ t # None
      /\ c2 = [c EXCEPT ![r] = "released"]
      /\ L2 = [L EXCEPT ![Key(r)] = None]
      /\ result \in {"done", "error"}
      /\ B2 = ReleasedFrom(B, t, result)
      /\ b = Answer("release", r, 0, result)
      /\ P2 = P \cup {b}
  BY DEF ReleaseStep
<1> USE <1>0
<1>1. /\ ValueTypes(c, L, B, A, Q, P) /\ OneAnswer(c, P) /\ Over(c, P, Q) /\ Listed(c, A)
      /\ DrainsStand(c, A, P) /\ TokensAsked(c, L, B, A, P) /\ GrantsCounted(L, B, A, P)
      /\ HoldersBacked(c, B, A, P) /\ SlotsLimited(B)
  BY DEF Sound
<1>2. /\ b \in AnswerSet /\ b.of = r /\ b.call = "release" /\ ~ Grant(b)
      /\ P \in SUBSET AnswerSet
  BY <1>1 DEF Answer, AnswerSet, Grant, ValueTypes
<1>3. /\ c \in [Requests -> Phases] /\ c2 \in [Requests -> Phases] /\ c2[r] = "released"
      /\ \A s \in Requests : s # r => c2[s] = c[s]
  BY <1>1 DEF ValueTypes, Phases
<1>4. \A a \in P : a.of # r /\ a.of \in Requests
  BY <1>1 DEF OneAnswer, ValueTypes, AnswerSet
<1>5. /\ t \in Tokens /\ Key(r) \in Keys /\ Key(t[1]) = Key(r) /\ t[1] \in Requests
      /\ L \in [Keys -> Tokens \cup {None}] /\ L2 \in [Keys -> Tokens \cup {None}]
      /\ L2[Key(r)] = None /\ \A k \in Keys : k # Key(r) => L2[k] = L[k]
  BY <1>1, KeyFacts DEF ValueTypes, TokensAsked, Tokens
<1>6. /\ B2 \in SUBSET B /\ \A u \in B : u # t => u \in B2
      /\ result = "done" => B2 = B \ {t}
  BY DEF ReleasedFrom
<1>7. ValueTypes(c2, L2, B2, A, Q, P2) /\ SlotsLimited(B2)
  <2>1. IsFiniteSet(B2) /\ SlotsLimited(B2)
    BY <1>1, <1>6, ReturnKeepsLimits DEF ValueTypes
  <2> QED BY <1>1, <1>2, <1>3, <1>5, <1>6, <2>1 DEF ValueTypes
<1>8. OneAnswer(c2, P2)
  BY <1>1, <1>2, <1>3, <1>4 DEF OneAnswer
<1>9. Standing(c, A, Q, P, c2, P2)
  <2>1. b.call # "drain" /\ c[b.of] # "released"
    BY <1>2
  <2>2. Onward(c, c2)
    BY <1>3 DEF Onward
  <2>3. Joined(c, P, P2) /\ P2 \in SUBSET AnswerSet
    BY <1>2, <2>1 DEF Joined
  <2> QED BY <2>2, <2>3, StandsStill
<1>10. TokensAsked(c2, L2, B2, A, P2)
  <2>1. B \in SUBSET Tokens /\ \A k \in Keys : L[k] # None => L[k] \in Tokens
    BY <1>1 DEF ValueTypes
  <2> QED BY <1>1, <1>5, <1>6, <1>9, <2>1 DEF TokensAsked, Standing
<1>11. GrantsCounted(L2, B2, A, P2)
  <2>1. ASSUME NEW a \in P, Grant(a)
        PROVE  TokenOf(A, a) \in B2 /\ \A k \in Keys : L2[k] # TokenOf(A, a)
    <3>1. TokenOf(A, a) \in B /\ TokenOf(A, a) # t /\ TokenOf(A, a) # None
      BY <1>1, <1>5, <2>1, GovernorAssumption DEF GrantsCounted, ValueTypes, Tokens
    <3> QED BY <1>1, <1>5, <1>6, <2>1, <3>1 DEF GrantsCounted
  <2> QED BY <1>2, <2>1 DEF GrantsCounted
<1>12. HoldersBacked(c2, B2, A, P2)
  <2>1. PICK f \in [Requests -> Tokens] : Backs(f, c, B, A, P)
    BY <1>1 DEF HoldersBacked
  <2> DEFINE g == [s \in Requests |-> IF f[s] = t THEN f[r] ELSE f[s]]
  <2>2. g \in [Requests -> Tokens] /\ \A s \in Requests : g[s] = IF f[s] = t THEN f[r] ELSE f[s]
    OBVIOUS
  <2> HIDE DEF g
  <2>3. \A s \in Requests : c2[s] = "held" => c[s] = "held" /\ s # r
    BY <1>3
  <2>4. \A s \in Requests : c2[s] = "held" => g[s] \in B /\ g[s] # t /\ Key(g[s][1]) = Key(s)
    <3>1. TAKE s \in Requests
    <3>2. HAVE c2[s] = "held"
    <3>3. c[s] = "held" /\ s # r
      BY <2>3, <3>2
    <3>4. f[s] # f[r] /\ f[s] \in B /\ f[r] \in B /\ Key(f[s][1]) = Key(s) /\ Key(f[r][1]) = Key(r)
      BY <2>1, <3>3 DEF Backs
    <3>5. CASE f[s] = t
      BY <1>5, <2>2, <3>4, <3>5
    <3>6. CASE f[s] # t
      BY <2>2, <3>4, <3>6
    <3> QED BY <3>5, <3>6
  <2>5. \A s \in Requests : c2[s] = "held" => \A a \in P2 : Grant(a) => TokenOf(A, a) # g[s]
    BY <1>2, <2>1, <2>2, <2>3 DEF Backs
  <2>6. \A s, u \in Requests : c2[s] = "held" /\ c2[u] = "held" /\ g[s] = g[u] => s = u
    BY <2>1, <2>2, <2>3 DEF Backs
  <2>7. Backs(g, c2, B2, A, P2)
    BY <1>6, <2>4, <2>5, <2>6 DEF Backs
  <2> QED BY <2>2, <2>7 DEF HoldersBacked
<1>13. ASSUME P = {}, result = "done", Locally(c, L, B, A, P) PROVE Locally(c2, L2, B2, A, P2)
  <2>1. t[1] = r /\ P2 = {b} /\ B2 = B \ {t}
    BY <1>6, <1>13 DEF Locally, LocalSlots, DrainsUndisturbed
  <2>2. ASSUME NEW u \in B2 PROVE c2[u[1]] = "held" /\ L2[Key(u[1])] = u
    <3>1. u \in B /\ u # t /\ u[1] \in Requests /\ c[u[1]] = "held" /\ L[Key(u[1])] = u
      BY <1>1, <1>13, <2>1, <2>2 DEF Locally, LocalSlots, DrainsUndisturbed, ValueTypes, Tokens
    <3>2. Key(u[1]) # Key(r) /\ Key(u[1]) \in Keys
      BY <3>1, KeyFacts
    <3> QED BY <1>3, <1>5, <3>1, <3>2
  <2>3. ASSUME NEW s \in Requests, c2[s] = "held" PROVE L2[Key(s)] # None /\ L2[Key(s)][1] = s
    <3>1. s # r /\ c[s] = "held" /\ L[Key(s)] # None /\ L[Key(s)][1] = s /\ Key(s) \in Keys
      BY <1>3, <1>13, <2>3, KeyFacts DEF Locally, LocalSlots, DrainsUndisturbed
    <3>2. Key(s) # Key(r)
      BY <2>1, <3>1
    <3> QED BY <1>5, <3>1, <3>2
  <2> QED BY <1>2, <2>1, <2>2, <2>3 DEF Locally, LocalSlots, DrainsUndisturbed
<1> QED BY <1>1, <1>7, <1>8, <1>9, <1>10, <1>11, <1>12, <1>13 DEF Sound, Standing

\* The drain learns that its entry has been granted a slot: the request gets it, if it
\* still waits, and in any case the lock.
DrainGrantStep(c, L, A, P, h, r, c2, L2, b, P2) ==
  /\ h \in P
  /\ h.call = "drain"
  /\ Grant(h)
  /\ r = A[h.at[1]][h.at[2]]
  /\ c2 = [c EXCEPT ![r] = IF c[r] = "waiting" THEN "held" ELSE @]
  /\ L2 = [L EXCEPT ![Key(r)] = <<r, h.of>>]
  /\ b = Answer("drain", h.of, h.at, "refused")
  /\ P2 = {a \in P : a.of # h.of} \cup {b}

\* A drain hands the slot it was granted to the entry it was granted for.
LEMMA DrainGrantKeeps ==
  ASSUME NEW c, NEW L, NEW B, NEW A, NEW Q, NEW P, NEW h, NEW r, NEW c2, NEW L2, NEW b, NEW P2,
         Sound(c, L, B, A, Q, P),
         DrainGrantStep(c, L, A, P, h, r, c2, L2, b, P2)
  PROVE  /\ Sound(c2, L2, B, A, Q, P2) /\ ~ Grant(b)
         /\ Locally(c, L, B, A, P) => LocalSlots(c2, L2, B, A, P2)
<1>0. /\ h \in P
      /\ h.call = "drain"
      /\ Grant(h)
      /\ r = A[h.at[1]][h.at[2]]
      /\ c2 = [c EXCEPT ![r] = IF c[r] = "waiting" THEN "held" ELSE @]
      /\ L2 = [L EXCEPT ![Key(r)] = <<r, h.of>>]
      /\ b = Answer("drain", h.of, h.at, "refused")
      /\ P2 = {a \in P : a.of # h.of} \cup {b}
  BY DEF DrainGrantStep
<1> USE <1>0
<1>1. /\ ValueTypes(c, L, B, A, Q, P) /\ OneAnswer(c, P) /\ Over(c, P, Q) /\ Listed(c, A)
      /\ DrainsStand(c, A, P) /\ TokensAsked(c, L, B, A, P) /\ GrantsCounted(L, B, A, P)
      /\ HoldersBacked(c, B, A, P) /\ SlotsLimited(B)
  BY DEF Sound
<1> DEFINE t == <<r, h.of>>
           P1 == {a \in P : a.of # h.of}
<1>2. /\ P1 \in SUBSET P /\ P1 \in SUBSET AnswerSet /\ P = P1 \cup {h} /\ h \notin P1
      /\ \A a, d \in P1 : a.of = d.of => a = d
      /\ \A a \in P1 : TokenOf(A, a) # t
  <2>1. TokenOf(A, h) = t /\ P1 = {a \in P : a.of # h.of} /\ h \in P
    BY DEF TokenOf
  <2> HIDE DEF P1, t
  <2> HIDE <1>0
  <2> QED BY <2>1, TakenFacts
<1>3. h.of \in Requests /\ h \in AnswerSet /\ TokenOf(A, h) = t /\ t \in Tokens /\ t \in B
  <2>1. h.of \in Requests /\ h \in AnswerSet /\ TokenOf(A, h) \in Tokens
    BY <1>1, TokenFacts
  <2>2. TokenOf(A, h) = t /\ TokenOf(A, h) \in B
    BY <1>1 DEF TokenOf, GrantsCounted
  <2> QED BY <2>1, <2>2
<1>4. r \in Requests /\ t[1] = r /\ t[2] = h.of /\ t # None /\ Key(r) \in Keys
  BY <1>3, KeyFacts, GovernorAssumption DEF Tokens
<1>5. /\ b \in AnswerSet /\ b.of = h.of /\ b.call = "drain" /\ b.at = h.at /\ ~ Grant(b)
      /\ P2 = P1 \cup {b} /\ \A a \in P1 : a.of # h.of /\ a.of \in Requests
  BY <1>2, <1>3 DEF Answer, AnswerSet, Grant
<1>6. /\ c \in [Requests -> Phases] /\ c2 \in [Requests -> Phases]
      /\ c2[r] = (IF c[r] = "waiting" THEN "held" ELSE c[r])
      /\ \A x \in Requests : x # r => c2[x] = c[x]
      /\ L \in [Keys -> Tokens \cup {None}] /\ L2 \in [Keys -> Tokens \cup {None}]
      /\ L2[Key(r)] = t /\ \A k \in Keys : k # Key(r) => L2[k] = L[k]
  BY <1>1, <1>3, <1>4 DEF ValueTypes, Phases
<1>h. h \in P /\ h.call = "drain" /\ Grant(h)
  OBVIOUS
<1> HIDE DEF t, P1
<1> HIDE <1>0
<1> USE <1>h
<1>7. ValueTypes(c2, L2, B, A, Q, P2)
  BY <1>1, <1>2, <1>5, <1>6 DEF ValueTypes
<1>8. OneAnswer(c2, P2)
  <2>1. \A x \in Requests : c[x] \in {"acquiring", "released"} => c2[x] = c[x]
    BY <1>6
  <2>2. \A a \in P : c2[a.of] = c[a.of]
    BY <1>1, <1>2, <1>3, <1>5, <2>1 DEF OneAnswer
  <2> QED BY <1>1, <1>2, <1>5, <2>2 DEF OneAnswer
<1>9. Standing(c, A, Q, P, c2, P2)
  <2>1. Onward(c, c2)
    BY <1>6 DEF Onward
  <2>2. Joined(c, P, P2) /\ P2 \in SUBSET AnswerSet
    BY <1>2, <1>5 DEF Joined
  <2> QED BY <2>1, <2>2, StandsStill
<1>10. TokensAsked(c2, L2, B, A, P2)
  <2>1. B \in SUBSET Tokens /\ \A k \in Keys : L[k] # None => L[k] \in Tokens
    BY <1>1 DEF ValueTypes
  <2>2. \A u \in B : AskedFor(c2, A, P2, u)
    BY <1>1, <1>9, <2>1 DEF TokensAsked, Standing
  <2> QED BY <1>1, <1>3, <1>4, <1>6, <1>9, <2>1, <2>2 DEF TokensAsked, Standing
<1>11. GrantsCounted(L2, B, A, P2)
  BY <1>1, <1>2, <1>5, <1>6 DEF GrantsCounted
<1>12. HoldersBacked(c2, B, A, P2)
  <2>1. PICK f \in [Requests -> Tokens] : Backs(f, c, B, A, P)
    BY <1>1 DEF HoldersBacked
  <2>2. \A x \in Requests : c[x] = "held" => f[x] # t
    BY <1>3, <2>1 DEF Backs
  <2>3. CASE c[r] # "waiting"
    <3>1. \A x \in Requests : c2[x] = c[x]
      BY <1>6, <2>3
    <3>2. Backs(f, c2, B, A, P2)
      BY <1>2, <1>5, <2>1, <3>1 DEF Backs
    <3> QED BY <3>2 DEF HoldersBacked
  <2>4. CASE c[r] = "waiting"
    <3> DEFINE g == [f EXCEPT ![r] = t]
    <3>1. g \in [Requests -> Tokens] /\ g[r] = t /\ \A x \in Requests : x # r => g[x] = f[x]
      BY <1>3, <1>4
    <3> HIDE DEF g
    <3>2. \A x \in Requests : c2[x] = "held" => x = r \/ (c[x] = "held" /\ g[x] = f[x] /\ g[x] # t)
      BY <1>6, <2>2, <3>1
    <3>3. ASSUME NEW x \in Requests, c2[x] = "held"
          PROVE  /\ g[x] \in B /\ Key(g[x][1]) = Key(x)
                 /\ \A a \in P2 : Grant(a) => TokenOf(A, a) # g[x]
      <4>1. CASE x = r
        BY <1>2, <1>3, <1>4, <1>5, <3>1, <4>1
      <4>2. CASE x # r
        BY <1>2, <1>5, <2>1, <3>2, <3>3, <4>2 DEF Backs
      <4> QED BY <4>1, <4>2
    <3>4. \A x, y \in Requests : c2[x] = "held" /\ c2[y] = "held" /\ g[x] = g[y] => x = y
      BY <2>1, <3>1, <3>2 DEF Backs
    <3>5. Backs(g, c2, B, A, P2)
      BY <3>3, <3>4 DEF Backs
    <3> QED BY <3>1, <3>5 DEF HoldersBacked
  <2> QED BY <2>3, <2>4
<1>13. ASSUME Locally(c, L, B, A, P) PROVE LocalSlots(c2, L2, B, A, P2)
  <2>1. P2 = {b} /\ P = {h}
    BY <1>2, <1>5, <1>13 DEF Locally, LocalSlots
  <2>2. c[r] = "waiting" /\ L[Key(r)] = None
    BY <1>3, <1>4, <1>13 DEF Locally, DrainsUndisturbed
  <2>3. ASSUME NEW u \in B PROVE c2[u[1]] = "held" /\ L2[Key(u[1])] = u
    <3>1. CASE u = t
      BY <1>4, <1>6, <2>2, <3>1
    <3>2. CASE u # t
      <4>1. c[u[1]] = "held" /\ L[Key(u[1])] = u
        BY <1>3, <1>13, <2>1, <3>2 DEF Locally, LocalSlots
      <4>2. u[1] # r /\ u[1] \in Requests /\ Key(u[1]) \in Keys /\ u # None
        BY <1>1, <2>2, <4>1, KeyFacts, GovernorAssumption DEF ValueTypes, Tokens
      <4>3. Key(u[1]) # Key(r)
        BY <2>2, <4>1, <4>2
      <4> QED BY <1>6, <4>1, <4>2, <4>3
    <3> QED BY <3>1, <3>2
  <2>4. ASSUME NEW x \in Requests, c2[x] = "held" PROVE L2[Key(x)] # None /\ L2[Key(x)][1] = x
    <3>1. CASE x = r
      BY <1>4, <1>6, <3>1
    <3>2. CASE x # r
      <4>1. L[Key(x)] # None /\ L[Key(x)][1] = x /\ Key(x) \in Keys
        BY <1>6, <1>13, <2>4, <3>2, KeyFacts DEF Locally, LocalSlots
      <4>2. Key(x) # Key(r)
        BY <2>2, <4>1
      <4> QED BY <1>6, <4>1, <4>2
    <3> QED BY <3>1, <3>2
  <2> QED BY <2>1, <2>3, <2>4 DEF LocalSlots
<1> QED BY <1>1, <1>5, <1>7, <1>8, <1>9, <1>10, <1>11, <1>12, <1>13 DEF Sound, Standing

\* The elements of t are, without repetitions, some of the first n of E.
PartOf(t, E, n) ==
  /\ t \in Seq(Requests)
  /\ \A i, j \in 1 .. Len(t) : t[i] = t[j] => i = j
  /\ \A j \in 1 .. Len(t) : \E i \in 1 .. n : t[j] = E[i]

\* What two parts of a sequence without repetitions leave has no repetitions.
LEMMA PartsApart ==
  ASSUME NEW E \in Seq(Requests), \A i, j \in 1 .. Len(E) : E[i] = E[j] => i = j,
         NEW m \in Nat, NEW n \in Nat, m <= n, n <= Len(E),
         NEW s, PartOf(s, E, m), NEW S
  PROVE  PartOf(s \o Only(SubSeq(E, m + 1, n), S), E, n)
<1>s. /\ s \in Seq(Requests) /\ \A i, j \in 1 .. Len(s) : s[i] = s[j] => i = j
      /\ \A j \in 1 .. Len(s) : \E i \in 1 .. m : s[j] = E[i]
  BY DEF PartOf
<1> DEFINE u == SubSeq(E, m + 1, n)
<1>1. u \in Seq(Requests) /\ Len(u) = n - m /\ \A i \in 1 .. Len(u) : u[i] = E[m + i]
  OBVIOUS
<1>2. \A i, j \in 1 .. Len(u) : u[i] = u[j] => i = j
  BY <1>1
<1> HIDE DEF u
<1>3. PICK k \in Seq(Requests) : k = Only(u, S)
  BY <1>1, OnlyFacts
<1>4. /\ \A i, j \in 1 .. Len(k) : k[i] = k[j] => i = j
      /\ \A j \in 1 .. Len(k) : \E i \in 1 .. Len(u) : u[i] = k[j]
  <2>1. \A i, j \in 1 .. Len(Only(u, S)) : Only(u, S)[i] = Only(u, S)[j] => i = j
    BY <1>1, <1>2, OnlyDistinct
  <2>2. \A j \in 1 .. Len(Only(u, S)) : \E i \in 1 .. Len(u) : u[i] = Only(u, S)[j]
    BY <1>1, OnlyFacts
  <2> QED BY <1>3, <2>1, <2>2
<1>5. \A j \in 1 .. Len(k) : \E i \in m + 1 .. n : k[j] = E[i]
  <2>1. TAKE j \in 1 .. Len(k)
  <2>2. PICK i \in 1 .. Len(u) : u[i] = k[j]
    BY <1>4
  <2>3. m + i \in m + 1 .. n /\ k[j] = E[m + i]
    BY <1>1, <2>2
  <2> QED BY <2>3
<1> DEFINE t == s \o k
<1>6. /\ t \in Seq(Requests) /\ Len(t) = Len(s) + Len(k) /\ Len(s) \in Nat /\ Len(k) \in Nat
      /\ \A i \in 1 .. Len(s) : t[i] = s[i]
      /\ \A i \in Len(s) + 1 .. Len(t) : t[i] = k[i - Len(s)] /\ i - Len(s) \in 1 .. Len(k)
      /\ \A i \in 1 .. Len(t) : i \in 1 .. Len(s) \/ i \in Len(s) + 1 .. Len(t)
  BY <1>s
<1> HIDE DEF t
<1>7. \A j \in 1 .. Len(t) : \E i \in 1 .. n : t[j] = E[i]
  <2>1. TAKE j \in 1 .. Len(t)
  <2>2. CASE j \in 1 .. Len(s)
    <3>1. PICK i \in 1 .. m : s[j] = E[i]
      BY <1>s, <2>2
    <3>2. i \in 1 .. n /\ t[j] = E[i]
      BY <1>6, <2>2, <3>1
    <3> QED BY <3>2
  <2>3. CASE j \in Len(s) + 1 .. Len(t)
    <3>1. t[j] = k[j - Len(s)] /\ j - Len(s) \in 1 .. Len(k)
      BY <1>6, <2>3
    <3>2. PICK i \in m + 1 .. n : k[j - Len(s)] = E[i]
      BY <1>5, <3>1
    <3>3. i \in 1 .. n /\ t[j] = E[i]
      BY <3>1, <3>2
    <3> QED BY <3>3
  <2> QED BY <1>6, <2>2, <2>3
<1>8. ASSUME NEW i \in 1 .. Len(s), NEW j \in Len(s) + 1 .. Len(t) PROVE t[i] # t[j]
  <2>1. PICK a \in 1 .. m : s[i] = E[a]
    BY <1>s
  <2>2. PICK b \in m + 1 .. n : k[j - Len(s)] = E[b]
    BY <1>5, <1>6
  <2>3. E[a] # E[b]
    <3>1. a \in 1 .. Len(E) /\ b \in 1 .. Len(E) /\ a # b
      OBVIOUS
    <3> QED BY <3>1
  <2> QED BY <1>6, <2>1, <2>2, <2>3
<1>9. ASSUME NEW i \in 1 .. Len(t), NEW j \in 1 .. Len(t), t[i] = t[j] PROVE i = j
  <2>1. CASE i \in 1 .. Len(s) /\ j \in 1 .. Len(s)
    BY <1>s, <1>6, <1>9, <2>1
  <2>2. CASE i \in Len(s) + 1 .. Len(t) /\ j \in Len(s) + 1 .. Len(t)
    <3>1. /\ t[i] = k[i - Len(s)] /\ i - Len(s) \in 1 .. Len(k)
          /\ t[j] = k[j - Len(s)] /\ j - Len(s) \in 1 .. Len(k)
      BY <1>6, <2>2
    <3>2. k[i - Len(s)] = k[j - Len(s)]
      BY <1>9, <3>1
    <3>3. i - Len(s) = j - Len(s)
      BY <1>4, <3>1, <3>2
    <3> QED BY <1>6, <2>2, <3>3
  <2> QED BY <1>6, <1>8, <1>9, <2>1, <2>2
<1> QED BY <1>3, <1>6, <1>7, <1>9 DEF PartOf, t, u

\* What a drain writes: of the array it goes through, the entries before the place stop
\* where it stops now, without repetitions.
Writes(A, A2, q, array, stop) ==
  /\ A2 \in [Arrays -> Seq(Requests)]
  /\ \A y \in Arrays : y # q => A2[y] = A[y]
  /\ \A i, j \in 1 .. Len(A2[q]) : A2[q][i] = A2[q][j] => i = j
  /\ \A j \in 1 .. Len(A2[q]) : \E i \in 1 .. stop - 1 : A2[q][j] = A[array][i]

\* The drain of the answer h has come to the place upto of the array, and has kept rest.
ComesTo(A, Q, h, array, upto, rest) ==
  \/ h.call = "release" /\ array = Q /\ upto = 0 /\ rest = << >>
  \/ /\ h.call = "drain" /\ array = h.at[1] /\ upto = h.at[2]
     /\ rest = A[h.of] \/ rest = Append(A[h.of], A[array][upto])

\* The array and the place that a drain goes on from, and what it keeps of the queue.
LEMMA ComesToFacts ==
  ASSUME NEW c, NEW L, NEW B, NEW A, NEW Q, NEW P, Sound(c, L, B, A, Q, P),
         NEW h \in P, NEW array, NEW upto, NEW rest, ComesTo(A, Q, h, array, upto, rest)
  PROVE  /\ array \in Arrays /\ array # h.of /\ Over(c, P, array)
         /\ upto \in 0 .. Len(A[array]) /\ PartOf(rest, A[array], upto)
<1>1. /\ ValueTypes(c, L, B, A, Q, P) /\ OneAnswer(c, P) /\ Over(c, P, Q) /\ Listed(c, A)
      /\ DrainsStand(c, A, P) /\ TokensAsked(c, L, B, A, P) /\ GrantsCounted(L, B, A, P)
      /\ HoldersBacked(c, B, A, P) /\ SlotsLimited(B)
  BY DEF Sound
<1> DEFINE q == h.of
           E == A[array]
<1>2. q \in Requests /\ q \in Arrays /\ q # None /\ A \in [Arrays -> Seq(Requests)]
  BY <1>1, GovernorAssumption DEF ValueTypes, AnswerSet, Arrays
<1>3. array \in Arrays /\ Over(c, P, array) /\ upto \in 0 .. Len(A[array])
  <2>1. CASE h.call = "release" /\ array = Q /\ upto = 0
    <3>1. array \in Arrays /\ Over(c, P, array)
      BY <1>1, <2>1 DEF ValueTypes
    <3>2. A[array] \in Seq(Requests)
      BY <1>2, <3>1
    <3> QED BY <2>1, <3>1, <3>2
  <2>2. CASE h.call = "drain" /\ array = h.at[1] /\ upto = h.at[2]
    BY <1>1, <2>2 DEF DrainsStand
  <2> QED BY <2>1, <2>2 DEF ComesTo
<1>4. array # q
  BY <1>2, <1>3 DEF Over
<1>5. E \in Seq(Requests) /\ A[q] \in Seq(Requests)
  BY <1>2, <1>3
<1>6. CASE h.call = "release"
  <2>1. rest = << >>
    BY <1>6 DEF ComesTo
  <2> QED BY <1>3, <1>4, <2>1 DEF PartOf
<1>7. CASE h.call = "drain"
  <2>1. /\ array = h.at[1] /\ upto = h.at[2] /\ upto \in 1 .. Len(E)
        /\ \A j \in 1 .. Len(A[q]) : \E i \in 1 .. upto - 1 : A[q][j] = E[i]
    <3>1. array = h.at[1] /\ upto = h.at[2]
      BY <1>7 DEF ComesTo
    <3>2. /\ h.at[2] \in 1 .. Len(A[h.at[1]])
          /\ \A j \in 1 .. Len(A[h.of]) : \E i \in 1 .. h.at[2] - 1 : A[h.of][j] = A[h.at[1]][i]
      BY <1>1, <1>7 DEF DrainsStand
    <3> QED BY <3>1, <3>2
  <2>2. \A i, j \in 1 .. Len(A[q]) : A[q][i] = A[q][j] => i = j
    BY <1>1, <1>2 DEF Listed
  <2>3. \A i, j \in 1 .. Len(E) : E[i] = E[j] => i = j
    BY <1>1, <1>3 DEF Listed
  <2> HIDE DEF E, q
  <2>4. \A j \in 1 .. Len(A[q]) : \E i \in 1 .. upto : A[q][j] = E[i]
    <3>1. TAKE j \in 1 .. Len(A[q])
    <3>2. PICK i \in 1 .. upto - 1 : A[q][j] = E[i]
      BY <2>1
    <3>3. i \in 1 .. upto
      BY <2>1
    <3> QED BY <3>2, <3>3
  <2>5. CASE rest = A[q]
    BY <1>3, <1>4, <1>5, <2>2, <2>4, <2>5 DEF q, E, PartOf
  <2>6. CASE rest = Append(A[q], E[upto])
    <3>1. E[upto] \in Requests /\ Len(A[q]) \in Nat
      BY <1>5, <2>1
    <3>2. /\ rest \in Seq(Requests) /\ Len(rest) = Len(A[q]) + 1 /\ rest[Len(A[q]) + 1] = E[upto]
          /\ \A i \in 1 .. Len(A[q]) : rest[i] = A[q][i]
          /\ \A i \in 1 .. Len(rest) : i \in 1 .. Len(A[q]) \/ i = Len(A[q]) + 1
      BY <1>5, <2>6, <3>1
    <3>3. \A j \in 1 .. Len(A[q]) : A[q][j] # E[upto]
      <4>1. TAKE j \in 1 .. Len(A[q])
      <4>2. PICK i \in 1 .. upto - 1 : A[q][j] = E[i]
        BY <2>1
      <4>3. i \in 1 .. Len(E) /\ i # upto
        BY <1>5, <2>1
      <4> QED BY <2>1, <2>3, <4>2, <4>3
    <3>4. \A i, j \in 1 .. Len(rest) : rest[i] = rest[j] => i = j
      BY <2>2, <3>2, <3>3
    <3>5. \A j \in 1 .. Len(rest) : \E i \in 1 .. upto : rest[j] = E[i]
      <4>1. TAKE j \in 1 .. Len(rest)
      <4>2. CASE j \in 1 .. Len(A[q])
        <5>1. PICK i \in 1 .. upto : A[q][j] = E[i]
          BY <2>4, <4>2
        <5> QED BY <3>2, <4>2, <5>1
      <4>3. CASE j = Len(A[q]) + 1
        <5>1. upto \in 1 .. upto
          BY <2>1
        <5> QED BY <3>2, <4>3, <5>1
      <4> QED BY <3>2, <4>2, <4>3
    <3> QED BY <1>3, <1>4, <3>2, <3>4, <3>5 DEF q, E, PartOf
  <2> QED BY <1>7, <2>5, <2>6 DEF ComesTo, q, E
<1> QED BY <1>6, <1>7 DEF ComesTo

\* What a drain writes to its own array are entries of the one it reads.
LEMMA DrainWrites ==
  ASSUME NEW c, NEW L, NEW B, NEW A, NEW Q, NEW P, Sound(c, L, B, A, Q, P),
         NEW h \in P, NEW array, NEW upto, NEW rest, ComesTo(A, Q, h, array, upto, rest),
         NEW stop \in upto + 1 .. Len(A[array]) + 1, NEW S, NEW A2,
         A2 = [A EXCEPT ![h.of] = rest \o Only(SubSeq(A[array], upto + 1, stop - 1), S)]
  PROVE  Writes(A, A2, h.of, array, stop)
<1>1. array \in Arrays /\ upto \in 0 .. Len(A[array]) /\ PartOf(rest, A[array], upto)
  BY ComesToFacts
<1>2. A \in [Arrays -> Seq(Requests)] /\ h.of \in Arrays
  BY DEF Sound, ValueTypes, AnswerSet, Arrays
<1>3. PICK E \in Seq(Requests) : E = A[array]
  BY <1>1, <1>2
<1>4. \A i, j \in 1 .. Len(E) : E[i] = E[j] => i = j
  BY <1>1, <1>3 DEF Sound, Listed
<1>5. PICK n \in Nat : n = stop - 1
  BY <1>1, <1>3
<1>6. upto \in Nat /\ upto <= n /\ n <= Len(E)
  BY <1>1, <1>3, <1>5
<1>7. PICK t : t = rest \o Only(SubSeq(E, upto + 1, n), S)
  OBVIOUS
<1>8. PartOf(t, E, n)
  BY <1>1, <1>3, <1>4, <1>6, <1>7, PartsApart
<1>9. A2 = [A EXCEPT ![h.of] = t]
  BY <1>3, <1>5, <1>7
<1>10. A2 \in [Arrays -> Seq(Requests)] /\ A2[h.of] = t /\ \A y \in Arrays : y # h.of => A2[y] = A[y]
  BY <1>2, <1>8, <1>9 DEF PartOf
<1>11. \A j \in 1 .. Len(t) : \E i \in 1 .. stop - 1 : t[j] = A[array][i]
  BY <1>3, <1>5, <1>8 DEF PartOf
<1>12. \A i, j \in 1 .. Len(t) : t[i] = t[j] => i = j
  BY <1>8 DEF PartOf
<1>13. PICK D : D = A2
  OBVIOUS
<1>14. D \in [Arrays -> Seq(Requests)] /\ D[h.of] = t /\ \A y \in Arrays : y # h.of => D[y] = A[y]
  BY <1>10, <1>13
<1>15. PICK q : q = h.of
  OBVIOUS
<1>16. Writes(A, D, q, array, stop)
  BY <1>11, <1>12, <1>14, <1>15 DEF Writes
<1> QED BY <1>13, <1>15, <1>16

\* A drain stands at a place of arrays that A and A2 agree on.
StandsAt(c, A, A2, P, a) ==
  /\ a.at \in Arrays \X Nat /\ a.at[2] \in 1 .. Len(A2[a.at[1]])
  /\ Over(c, P, a.at[1])
  /\ A2[a.at[1]][a.at[2]] # a.of
  /\ \A j \in 1 .. Len(A2[a.of]) : \E i \in 1 .. a.at[2] - 1 : A2[a.of][j] = A2[a.at[1]][i]
  /\ A2[a.at[1]] = A[a.at[1]]

\* What the arrays' new contents leave as it was, for the answers besides the drain's.
Spares(c, A, A2, P, q) ==
  \A a \in P : a.of # q =>
    TokenOf(A2, a) = TokenOf(A, a) /\ (a.call = "drain" => StandsAt(c, A, A2, P, a))

\* The array that a drain writes is read by no other drain.
LEMMA WritingKeeps ==
  ASSUME NEW c, NEW L, NEW B, NEW A, NEW Q, NEW P, Sound(c, L, B, A, Q, P),
         NEW h \in P, h.call \in {"release", "drain"},
         NEW array, NEW upto, NEW rest, ComesTo(A, Q, h, array, upto, rest),
         NEW stop \in upto + 1 .. Len(A[array]) + 1,
         NEW A2, Writes(A, A2, h.of, array, stop)
  PROVE  Listed(c, A2) /\ Spares(c, A, A2, P, h.of)
<1>1. /\ ValueTypes(c, L, B, A, Q, P) /\ OneAnswer(c, P) /\ Over(c, P, Q) /\ Listed(c, A)
      /\ DrainsStand(c, A, P) /\ TokensAsked(c, L, B, A, P) /\ GrantsCounted(L, B, A, P)
      /\ HoldersBacked(c, B, A, P) /\ SlotsLimited(B)
  BY DEF Sound
<1>2. /\ array \in Arrays /\ array # h.of /\ Over(c, P, array) /\ upto \in 0 .. Len(A[array])
  BY ComesToFacts
<1>3. /\ A \in [Arrays -> Seq(Requests)] /\ h.of \in Requests /\ h.of \in Arrays /\ h.of # None
      /\ A2 \in [Arrays -> Seq(Requests)] /\ A2[array] = A[array]
      /\ \A y \in Arrays : y # h.of => A2[y] = A[y]
  BY <1>1, <1>2, GovernorAssumption DEF ValueTypes, AnswerSet, Arrays, Writes
<1>4. Len(A[array]) \in Nat /\ stop - 1 \in 0 .. Len(A[array])
  BY <1>2, <1>3
<1>5. Listed(c, A2)
  <2>1. ASSUME NEW y \in Arrays, NEW i \in 1 .. Len(A2[y])
        PROVE  /\ c[A2[y][i]] \notin {"new", "acquiring"}
               /\ \A j \in 1 .. Len(A2[y]) : A2[y][i] = A2[y][j] => i = j
    <3>1. CASE y # h.of
      BY <1>1, <1>3, <3>1 DEF Listed
    <3>2. CASE y = h.of
      <4>1. PICK k \in 1 .. stop - 1 : A2[y][i] = A[array][k]
        BY <2>1, <3>2 DEF Writes
      <4>2. k \in 1 .. Len(A[array])
        BY <1>4
      <4>3. c[A2[y][i]] \notin {"new", "acquiring"}
        BY <1>1, <1>2, <4>1, <4>2 DEF Listed
      <4>4. \A j \in 1 .. Len(A2[y]) : A2[y][i] = A2[y][j] => i = j
        BY <2>1, <3>2 DEF Writes
      <4> QED BY <4>3, <4>4
    <3> QED BY <3>1, <3>2
  <2> QED BY <2>1 DEF Listed
<1>6. ASSUME NEW a \in P, a.of # h.of, a.call = "drain"
      PROVE  StandsAt(c, A, A2, P, a)
  <2>1. /\ a.at \in Arrays \X Nat /\ a.at[2] \in 1 .. Len(A[a.at[1]]) /\ Over(c, P, a.at[1])
        /\ A[a.at[1]][a.at[2]] # a.of
        /\ \A j \in 1 .. Len(A[a.of]) : \E i \in 1 .. a.at[2] - 1 : A[a.of][j] = A[a.at[1]][i]
    BY <1>1, <1>6 DEF DrainsStand
  <2>2. a.at[1] \in Arrays /\ a.at[1] # h.of
    BY <1>3, <2>1 DEF Over
  <2>3. a.of \in Arrays
    BY <1>1 DEF ValueTypes, AnswerSet, Arrays
  <2>4. A2[a.at[1]] = A[a.at[1]] /\ A2[a.of] = A[a.of]
    BY <1>3, <1>6, <2>2, <2>3
  <2> QED BY <2>1, <2>4 DEF StandsAt
<1>7. \A a \in P : a.of # h.of => TokenOf(A2, a) = TokenOf(A, a)
  BY <1>6 DEF TokenOf, StandsAt
<1> QED BY <1>5, <1>6, <1>7 DEF Spares

DrainEndStep(A, Q, P, h, array, upto, rest, stop, A2, P2) ==
  /\ h \in P
  /\ h.call \in {"release", "drain"}
  /\ ~ Grant(h)
  /\ ComesTo(A, Q, h, array, upto, rest)
  /\ stop \in upto + 1 .. Len(A[array]) + 1
  /\ Writes(A, A2, h.of, array, stop)
  /\ P2 = {a \in P : a.of # h.of}

\* A drain that has come to the end leaves the entries it kept as the queue.
LEMMA DrainEndKeeps ==
  ASSUME NEW c, NEW L, NEW B, NEW A, NEW Q, NEW P, NEW h, NEW array, NEW upto, NEW rest, NEW stop, NEW A2, NEW P2,
         Sound(c, L, B, A, Q, P),
         DrainEndStep(A, Q, P, h, array, upto, rest, stop, A2, P2)
  PROVE  /\ Sound(c, L, B, A2, h.of, P2)
         /\ LocalSlots(c, L, B, A, P) => Locally(c, L, B, A2, P2)
<1>0. /\ h \in P
      /\ h.call \in {"release", "drain"}
      /\ ~ Grant(h)
      /\ ComesTo(A, Q, h, array, upto, rest)
      /\ stop \in upto + 1 .. Len(A[array]) + 1
      /\ Writes(A, A2, h.of, array, stop)
      /\ P2 = {a \in P : a.of # h.of}
  BY DEF DrainEndStep
<1> USE <1>0
<1>1. /\ ValueTypes(c, L, B, A, Q, P) /\ OneAnswer(c, P) /\ Over(c, P, Q) /\ Listed(c, A)
      /\ DrainsStand(c, A, P) /\ TokensAsked(c, L, B, A, P) /\ GrantsCounted(L, B, A, P)
      /\ HoldersBacked(c, B, A, P) /\ SlotsLimited(B)
  BY DEF Sound
<1>2. /\ P2 \in SUBSET P /\ P2 \in SUBSET AnswerSet /\ P = P2 \cup {h} /\ h \notin P2
      /\ \A a, b \in P2 : a.of = b.of => a = b
      /\ \A a \in P2 : a.of # h.of
  BY TakenFacts
<1>3. /\ Listed(c, A2)
      /\ \A a \in P2 : TokenOf(A2, a) = TokenOf(A, a)
      /\ \A a \in P2 : a.call = "drain" => StandsAt(c, A, A2, P, a)
  <2>1. Listed(c, A2) /\ Spares(c, A, A2, P, h.of)
    BY WritingKeeps
  <2> QED BY <1>2, <2>1 DEF Spares
<1>4. h.of \in Requests /\ h.of \in Arrays /\ c[h.of] = "released" /\ A2 \in [Arrays -> Seq(Requests)]
  BY <1>1 DEF ValueTypes, AnswerSet, Arrays, OneAnswer, Writes
<1>5. ValueTypes(c, L, B, A2, h.of, P2)
  BY <1>1, <1>2, <1>4 DEF ValueTypes
<1>6. OneAnswer(c, P2) /\ Over(c, P2, h.of)
  BY <1>1, <1>2, <1>4 DEF OneAnswer, Over
<1>7. DrainsStand(c, A2, P2)
  <2>1. \A a \in P2 : a.call = "drain" => Over(c, P2, a.at[1])
    BY <1>2, <1>3 DEF Over, StandsAt
  <2> QED BY <1>3, <2>1 DEF DrainsStand, StandsAt
<1>8. ASSUME NEW t, AskedFor(c, A, P, t) PROVE AskedFor(c, A2, P2, t)
  <2>1. ASSUME NEW a \in P2, t[1] # t[2], a.of = t[2]
        PROVE  a.call = "drain" /\ \E j \in 1 .. a.at[2] : A2[a.at[1]][j] = t[1]
    <3>1. a.call = "drain" /\ \E j \in 1 .. a.at[2] : A[a.at[1]][j] = t[1]
      BY <1>2, <1>8, <2>1 DEF AskedFor
    <3>2. A2[a.at[1]] = A[a.at[1]]
      BY <1>3, <3>1 DEF StandsAt
    <3> QED BY <3>1, <3>2
  <2> QED BY <1>8, <2>1 DEF AskedFor
<1>9. TokensAsked(c, L, B, A2, P2)
  BY <1>1, <1>8 DEF TokensAsked
<1>10. GrantsCounted(L, B, A2, P2)
  BY <1>1, <1>2, <1>3 DEF GrantsCounted
<1>11. HoldersBacked(c, B, A2, P2)
  <2>1. PICK f \in [Requests -> Tokens] : Backs(f, c, B, A, P)
    BY <1>1 DEF HoldersBacked
  <2>2. Backs(f, c, B, A2, P2)
    BY <1>2, <1>3, <2>1 DEF Backs
  <2> QED BY <2>2 DEF HoldersBacked
<1>12. ASSUME LocalSlots(c, L, B, A, P) PROVE Locally(c, L, B, A2, P2)
  <2>1. P2 = {} /\ P = {h}
    BY <1>2, <1>12 DEF LocalSlots
  <2> QED BY <1>12, <2>1 DEF Locally, LocalSlots, DrainsUndisturbed
<1> QED BY <1>1, <1>3, <1>5, <1>6, <1>7, <1>9, <1>10, <1>11, <1>12 DEF Sound

\* A drain of the release of q stands at that place.
Stands(c, A, P, q, at) ==
  /\ at \in Arrays \X Nat /\ at[2] \in 1 .. Len(A[at[1]])
  /\ Over(c, P, at[1])
  /\ A[at[1]][at[2]] # q
  /\ \A j \in 1 .. Len(A[q]) : \E i \in 1 .. at[2] - 1 : A[q][j] = A[at[1]][i]

DrainAskStep(c, L, B, A, Q, P, h, array, upto, rest, stop, A2, x, result, B2, b, P2) ==
  /\ h \in P
  /\ h.call \in {"release", "drain"}
  /\ ~ Grant(h)
  /\ ComesTo(A, Q, h, array, upto, rest)
  /\ stop \in upto + 1 .. Len(A[array])
  /\ Writes(A, A2, h.of, array, stop)
  /\ x = A[array][stop]
  /\ c[x] = "waiting"
  /\ L[Key(x)] = None
  /\ result \in {"granted", "refused", "error"}
  /\ (result = "granted" => Grants(B, x))
  /\ B2 = Acquired(B, <<x, h.of>>, result)
  /\ b = Answer("drain", h.of, <<array, stop>>, result)
  /\ P2 = {a \in P : a.of # h.of} \cup {b}

\* A drain asks for a slot for the next entry that waits.
LEMMA DrainAskKeeps ==
  ASSUME NEW c, NEW L, NEW B, NEW A, NEW Q, NEW P, NEW h, NEW array, NEW upto, NEW rest, NEW stop, NEW A2, NEW x, NEW result, NEW B2, NEW b, NEW P2,
         Sound(c, L, B, A, Q, P),
         DrainAskStep(c, L, B, A, Q, P, h, array, upto, rest, stop, A2, x, result, B2, b, P2)
  PROVE  /\ Sound(c, L, B2, A2, Q, P2)
         /\ LocalSlots(c, L, B, A, P) => Locally(c, L, B2, A2, P2)
<1>0. /\ h \in P
      /\ h.call \in {"release", "drain"}
      /\ ~ Grant(h)
      /\ ComesTo(A, Q, h, array, upto, rest)
      /\ stop \in upto + 1 .. Len(A[array])
      /\ Writes(A, A2, h.of, array, stop)
      /\ x = A[array][stop]
      /\ c[x] = "waiting"
      /\ L[Key(x)] = None
      /\ result \in {"granted", "refused", "error"}
      /\ (result = "granted" => Grants(B, x))
      /\ B2 = Acquired(B, <<x, h.of>>, result)
      /\ b = Answer("drain", h.of, <<array, stop>>, result)
      /\ P2 = {a \in P : a.of # h.of} \cup {b}
  BY DEF DrainAskStep
<1> USE <1>0
<1>1. /\ ValueTypes(c, L, B, A, Q, P) /\ OneAnswer(c, P) /\ Over(c, P, Q) /\ Listed(c, A)
      /\ DrainsStand(c, A, P) /\ TokensAsked(c, L, B, A, P) /\ GrantsCounted(L, B, A, P)
      /\ HoldersBacked(c, B, A, P) /\ SlotsLimited(B)
  BY DEF Sound
<1> DEFINE P1 == {a \in P : a.of # h.of}
           t == <<x, h.of>>
<1>2. /\ P1 \in SUBSET P /\ P1 \in SUBSET AnswerSet /\ P = P1 \cup {h} /\ h \notin P1
      /\ \A a, d \in P1 : a.of = d.of => a = d
      /\ \A a \in P1 : a.of # h.of
  <2>1. P1 = {a \in P : a.of # h.of}
    OBVIOUS
  <2> HIDE DEF P1, t
  <2> QED BY <2>1, TakenFacts
<1>3. /\ array \in Arrays /\ array # h.of /\ Over(c, P, array) /\ upto \in 0 .. Len(A[array])
  BY ComesToFacts
<1>4. /\ h.of \in Requests /\ h.of \in Arrays /\ c[h.of] = "released"
      /\ A \in [Arrays -> Seq(Requests)] /\ A2 \in [Arrays -> Seq(Requests)]
      /\ A2[array] = A[array]
  BY <1>1, <1>3 DEF ValueTypes, AnswerSet, Arrays, OneAnswer, Writes
<1>5. stop \in Nat /\ stop \in 1 .. Len(A[array]) /\ stop \in upto + 1 .. Len(A[array]) + 1
  BY <1>3, <1>4
<1>6. /\ Listed(c, A2)
      /\ \A a \in P1 : TokenOf(A2, a) = TokenOf(A, a)
      /\ \A a \in P1 : a.call = "drain" => StandsAt(c, A, A2, P, a)
  <2>1. Listed(c, A2) /\ Spares(c, A, A2, P, h.of)
    BY <1>5, WritingKeeps
  <2> QED BY <1>2, <2>1 DEF Spares
<1>7. x \in Requests /\ x # h.of /\ t \in Tokens /\ t[1] = x /\ t[2] = h.of
  BY <1>3, <1>4, <1>5 DEF Tokens
<1>8. /\ b \in AnswerSet /\ b.of = h.of /\ b.call = "drain" /\ b.at = <<array, stop>>
      /\ b.at[1] = array /\ b.at[2] = stop /\ b.result = result
      /\ P2 = P1 \cup {b} /\ TokenOf(A2, b) = t
  BY <1>3, <1>4, <1>5 DEF Answer, AnswerSet, TokenOf
<1>9. t \notin B /\ \A k \in Keys : L[k] # t
  <2>1. ~ AskedFor(c, A, P, t)
    <3>1. SUFFICES ASSUME AskedFor(c, A, P, t) PROVE FALSE
      OBVIOUS
    <3>2. h.call = "drain" /\ \E j \in 1 .. h.at[2] : A[h.at[1]][j] = x
      BY <1>7, <3>1 DEF AskedFor
    <3>3. array = h.at[1] /\ upto = h.at[2]
      BY <3>2 DEF ComesTo
    <3>4. PICK j \in 1 .. upto : A[array][j] = A[array][stop]
      BY <3>2, <3>3
    <3>5. j \in 1 .. Len(A[array]) /\ j # stop
      BY <1>3, <1>4, <1>5
    <3> QED BY <1>1, <1>3, <1>5, <3>4, <3>5 DEF Listed
  <2>2. \A k \in Keys : L[k] = t => L[k] # None
    BY <1>7, GovernorAssumption DEF Tokens
  <2> QED BY <1>1, <2>1, <2>2 DEF TokensAsked
<1>10. B2 = B \/ (B2 = B \cup {t} /\ result = "granted")
  BY DEF Acquired
<1>11. result = "granted" => t \in B2
  BY DEF Acquired
<1>12. SlotsLimited(B2) /\ IsFiniteSet(B2)
  <2>1. B \in SUBSET Tokens /\ IsFiniteSet(B)
    BY <1>1 DEF ValueTypes
  <2>2. CASE result = "granted"
    <3>1. Grants(B, t[1])
      BY <1>7, <2>2
    <3>2. SlotsLimited(B \cup {t}) /\ IsFiniteSet(B \cup {t})
      BY <1>1, <1>7, <2>1, <3>1, GrantKeepsLimits
    <3> QED BY <1>1, <1>10, <2>1, <3>2
  <2>3. CASE result # "granted"
    BY <1>1, <1>10, <2>1, <2>3
  <2> QED BY <2>2, <2>3
<1> HIDE DEF P1, t
<1>13. ValueTypes(c, L, B2, A2, Q, P2)
  BY <1>1, <1>2, <1>4, <1>7, <1>8, <1>10, <1>12 DEF ValueTypes
<1>14. OneAnswer(c, P2)
  BY <1>1, <1>2, <1>4, <1>8 DEF OneAnswer
<1>15. \A y : Over(c, P, y) => Over(c, P2, y)
  BY <1>2, <1>8 DEF Over
<1>16. DrainsStand(c, A2, P2)
  <2>1. ASSUME NEW a \in P1, a.call = "drain"
        PROVE  Stands(c, A2, P2, a.of, a.at)
    BY <1>6, <1>15, <2>1 DEF StandsAt, Stands
  <2>2. Stands(c, A2, P2, h.of, <<array, stop>>)
    <3>1. <<array, stop>> \in Arrays \X Nat /\ stop \in 1 .. Len(A2[array]) /\ Over(c, P2, array)
      BY <1>3, <1>4, <1>5, <1>15
    <3>2. A2[array][stop] # h.of
      BY <1>4, <1>7
    <3>3. \A j \in 1 .. Len(A2[h.of]) : \E i \in 1 .. stop - 1 : A2[h.of][j] = A2[array][i]
      BY <1>4 DEF Writes
    <3> QED BY <3>1, <3>2, <3>3 DEF Stands
  <2>3. Stands(c, A2, P2, b.of, b.at)
    BY <1>8, <2>2
  <2>4. \A a \in P2 : a.call = "drain" => Stands(c, A2, P2, a.of, a.at)
    BY <1>8, <2>1, <2>3
  <2> QED BY <2>4 DEF DrainsStand, Stands
<1>17. ASSUME NEW u, AskedFor(c, A, P, u) PROVE AskedFor(c, A2, P2, u)
  <2>1. CASE u[1] = u[2]
    BY <1>17, <2>1 DEF AskedFor
  <2>2. CASE u[1] # u[2]
    <3>1. c[u[2]] = "released"
      BY <1>17, <2>2 DEF AskedFor
    <3>2. ASSUME NEW a \in P1, a.of = u[2]
          PROVE  a.call = "drain" /\ \E j \in 1 .. a.at[2] : A2[a.at[1]][j] = u[1]
      <4>1. a.call = "drain" /\ \E j \in 1 .. a.at[2] : A[a.at[1]][j] = u[1]
        BY <1>2, <1>17, <2>2, <3>2 DEF AskedFor
      <4>2. A2[a.at[1]] = A[a.at[1]]
        BY <1>6, <4>1 DEF StandsAt
      <4> QED BY <4>1, <4>2
    <3>3. ASSUME h.of = u[2]
          PROVE  \E j \in 1 .. stop : A2[array][j] = u[1]
      <4>1. h.call = "drain" /\ \E j \in 1 .. h.at[2] : A[h.at[1]][j] = u[1]
        BY <1>17, <2>2, <3>3 DEF AskedFor
      <4>2. array = h.at[1] /\ upto = h.at[2]
        BY <4>1 DEF ComesTo
      <4>3. PICK j \in 1 .. upto : A[array][j] = u[1]
        BY <4>1, <4>2
      <4>4. j \in 1 .. stop
        BY <1>3, <1>4, <1>5
      <4> QED BY <1>4, <4>3, <4>4
    <3> QED BY <1>8, <2>2, <3>1, <3>2, <3>3 DEF AskedFor
  <2> QED BY <2>1, <2>2
<1>18. AskedFor(c, A2, P2, t)
  <2>0. x = A[array][stop]
    OBVIOUS
  <2> HIDE <1>0
  <2>1. \A a \in P2 : a.of = h.of => a = b
    BY <1>2, <1>8
  <2>2. stop \in 1 .. b.at[2] /\ A2[b.at[1]][stop] = x
    BY <1>4, <1>5, <1>8, <2>0
  <2> QED BY <1>4, <1>7, <1>8, <2>1, <2>2 DEF AskedFor
<1>19. TokensAsked(c, L, B2, A2, P2)
  BY <1>1, <1>10, <1>17, <1>18 DEF TokensAsked
<1>20. GrantsCounted(L, B2, A2, P2)
  <2>1. Grant(b) => t \in B2
    BY <1>8, <1>11 DEF Grant
  <2> QED BY <1>1, <1>2, <1>6, <1>8, <1>9, <1>10, <2>1 DEF GrantsCounted
<1>21. HoldersBacked(c, B2, A2, P2)
  <2>1. PICK f \in [Requests -> Tokens] : Backs(f, c, B, A, P)
    BY <1>1 DEF HoldersBacked
  <2>2. Backs(f, c, B2, A2, P2)
    BY <1>2, <1>6, <1>8, <1>9, <1>10, <2>1 DEF Backs
  <2> QED BY <2>2 DEF HoldersBacked
<1>22. ASSUME LocalSlots(c, L, B, A, P) PROVE Locally(c, L, B2, A2, P2)
  <2>1. P2 = {b} /\ P = {h}
    BY <1>2, <1>8, <1>22 DEF LocalSlots
  <2>2. Grant(b) <=> result = "granted"
    BY <1>8 DEF Grant
  <2>3. LocalSlots(c, L, B2, A2, P2)
    BY <1>8, <1>10, <1>22, <2>1, <2>2 DEF LocalSlots
  <2>4. DrainsUndisturbed(c, L, A2, P2)
    BY <1>7, <1>8, <2>1 DEF DrainsUndisturbed
  <2> QED BY <2>3, <2>4 DEF Locally
<1>23. Over(c, P2, Q)
  BY <1>1, <1>15
<1> QED BY <1>6, <1>12, <1>13, <1>14, <1>16, <1>19, <1>20, <1>21, <1>22, <1>23 DEF Sound

ReleaseUnlockedStep(c, L, r, c2) ==
  /\ r \in Requests
  /\ c[r] = "held"
  /\ L[Key(r)] = None
  /\ c2 = [c EXCEPT ![r] = "released"]

\* A release that finds no lock, of a holder whose lock was overwritten, gives nothing back.
LEMMA ReleaseUnlockedKeeps ==
  ASSUME NEW c, NEW L, NEW B, NEW A, NEW Q, NEW P, NEW r, NEW c2,
         Sound(c, L, B, A, Q, P),
         ReleaseUnlockedStep(c, L, r, c2)
  PROVE  /\ Sound(c2, L, B, A, Q, P)
         /\ ~ Locally(c, L, B, A, P)
<1>0. /\ r \in Requests
      /\ c[r] = "held"
      /\ L[Key(r)] = None
      /\ c2 = [c EXCEPT ![r] = "released"]
  BY DEF ReleaseUnlockedStep
<1> USE <1>0
<1>1. /\ ValueTypes(c, L, B, A, Q, P) /\ OneAnswer(c, P) /\ Over(c, P, Q) /\ Listed(c, A)
      /\ DrainsStand(c, A, P) /\ TokensAsked(c, L, B, A, P) /\ GrantsCounted(L, B, A, P)
      /\ HoldersBacked(c, B, A, P) /\ SlotsLimited(B)
  BY DEF Sound
<1>2. /\ c \in [Requests -> Phases] /\ c2 \in [Requests -> Phases]
      /\ c2[r] = "released" /\ \A x \in Requests : x # r => c2[x] = c[x]
  BY <1>1 DEF ValueTypes, Phases
<1>3. ValueTypes(c2, L, B, A, Q, P)
  BY <1>1, <1>2 DEF ValueTypes
<1>4. OneAnswer(c2, P)
  <2>1. \A a \in P : a.of # r
    BY <1>1 DEF OneAnswer
  <2> QED BY <1>1, <1>2, <2>1 DEF OneAnswer, ValueTypes, AnswerSet
<1>5. Standing(c, A, Q, P, c2, P)
  <2>1. Onward(c, c2) /\ Joined(c, P, P) /\ P \in SUBSET AnswerSet
    BY <1>1, <1>2 DEF Onward, Joined, ValueTypes
  <2> QED BY <2>1, StandsStill
<1>6. TokensAsked(c2, L, B, A, P)
  BY <1>1, <1>5 DEF TokensAsked, Standing, ValueTypes
<1>7. HoldersBacked(c2, B, A, P)
  <2>1. PICK f \in [Requests -> Tokens] : Backs(f, c, B, A, P)
    BY <1>1 DEF HoldersBacked
  <2>2. Backs(f, c2, B, A, P)
    BY <1>2, <2>1 DEF Backs
  <2> QED BY <2>2 DEF HoldersBacked
<1>8. ~ Locally(c, L, B, A, P)
  BY DEF Locally, LocalSlots
<1> QED BY <1>1, <1>3, <1>4, <1>5, <1>6, <1>7, <1>8 DEF Sound, Standing

-----------------------------------------------------------------------------
\* The answers under way, each of another request.
Els(s) == {s[i] : i \in 1 .. Len(s)}
InLine(s) == s \in Seq(AnswerSet) /\ \A i, j \in 1 .. Len(s) : s[i].of = s[j].of => i = j

\* The first answer under way leaves the line.
LEMMA Popped ==
  ASSUME NEW s, InLine(s), s # << >>
  PROVE  /\ InLine(Tail(s)) /\ Head(s) \in Els(s) /\ Head(s) \in AnswerSet
         /\ Els(Tail(s)) = {a \in Els(s) : a.of # Head(s).of}
<1>1. /\ s \in Seq(AnswerSet) /\ Len(s) \in Nat /\ Len(s) >= 1 /\ Head(s) = s[1]
      /\ \A i, j \in 1 .. Len(s) : s[i].of = s[j].of => i = j
  BY DEF InLine
<1>2. PICK u \in Seq(AnswerSet) : u = Tail(s)
  <2>1. Tail(s) \in Seq(AnswerSet)
    <3> HIDE DEF AnswerSet
    <3>1. s \in Seq(AnswerSet)
      BY <1>1
    <3> QED BY <3>1
  <2> QED BY <2>1
<1>3. Len(u) = Len(s) - 1 /\ \A i \in 1 .. Len(u) : u[i] = s[i + 1] /\ i + 1 \in 1 .. Len(s)
  BY <1>1, <1>2
<1>4. InLine(u)
  BY <1>1, <1>3 DEF InLine
<1>5. Head(s) \in Els(s) /\ Head(s) \in AnswerSet
  BY <1>1 DEF Els
<1>6. ASSUME NEW a \in Els(u) PROVE a \in Els(s) /\ a.of # s[1].of
  <2>1. PICK i \in 1 .. Len(u) : a = u[i]
    BY DEF Els
  <2> QED BY <1>1, <1>3, <2>1 DEF Els
<1>7. ASSUME NEW a \in Els(s), a.of # s[1].of PROVE a \in Els(u)
  <2>1. PICK i \in 1 .. Len(s) : a = s[i]
    BY DEF Els
  <2>2. i - 1 \in 1 .. Len(u) /\ u[i - 1] = s[i]
    BY <1>1, <1>3, <1>7, <2>1
  <2> QED BY <2>1, <2>2 DEF Els
<1> QED BY <1>1, <1>2, <1>4, <1>5, <1>6, <1>7

\* An answer joins the line, of a caller that had none in it.
LEMMA Pushed ==
  ASSUME NEW s, InLine(s), NEW b \in AnswerSet, \A a \in Els(s) : a.of # b.of
  PROVE  InLine(Append(s, b)) /\ Els(Append(s, b)) = Els(s) \cup {b}
<1>1. /\ s \in Seq(AnswerSet) /\ Len(s) \in Nat
      /\ \A i, j \in 1 .. Len(s) : s[i].of = s[j].of => i = j
      /\ \A i \in 1 .. Len(s) : s[i].of # b.of
  BY DEF InLine, Els
<1>2. PICK u \in Seq(AnswerSet) : u = Append(s, b)
  <2>1. Append(s, b) \in Seq(AnswerSet)
    <3>1. s \in Seq(AnswerSet)
      BY <1>1
    <3> QED BY <3>1
  <2> QED BY <2>1
<1>3. /\ Len(u) = Len(s) + 1 /\ u[Len(s) + 1] = b /\ \A i \in 1 .. Len(s) : u[i] = s[i]
      /\ \A i \in 1 .. Len(u) : i \in 1 .. Len(s) \/ i = Len(s) + 1
      /\ Len(s) + 1 \in 1 .. Len(u) /\ 1 .. Len(s) \subseteq 1 .. Len(u)
  BY <1>1, <1>2
<1>4. InLine(u)
  BY <1>1, <1>3 DEF InLine
<1>5. \A a : a \in Els(u) <=> a \in Els(s) \/ a = b
  BY <1>3 DEF Els
<1> QED BY <1>2, <1>4, <1>5

\* The local backend does not fail.
LEMMA OutcomeFacts ==
  ASSUME NEW ok, NEW result \in Outcomes(ok)
  PROVE  result \in {ok, "error"} /\ (kind = "local" => result = ok)
BY DEF Outcomes

\* The inductive invariant.
GovInv ==
  /\ kind \in {"local", "redis"}
  /\ InLine(answers)
  /\ Sound(caller, activeLocks, backend, arrays, queue, Els(answers))
  /\ kind = "local" => Locally(caller, activeLocks, backend, arrays, Els(answers))

\* At the start nothing has been asked.
LEMMA GovernorStart == GovernorInit => GovInv
<1> SUFFICES ASSUME GovernorInit PROVE GovInv
  OBVIOUS
<1> USE DEF GovernorInit
<1>1. Els(answers) = {} /\ InLine(answers)
  BY DEF Els, InLine
<1>2. \A r \in Requests : caller[r] = "new"
  OBVIOUS
<1>3. /\ IsFiniteSet(backend) /\ Cardinality({}) = 0
  BY FS_EmptySet
<1>4. SlotsLimited(backend)
  <2>1. \A r \in Requests : /\ {t \in backend : UserOf[t[1]] = UserOf[r]} = {}
                            /\ {t \in backend : ChannelOf[t[1]] = ChannelOf[r]} = {}
    OBVIOUS
  <2> QED BY <1>3, <2>1, GovernorAssumption DEF SlotsLimited
<1>5. arrays \in [Arrays -> Seq(Requests)] /\ \A x \in Arrays : Len(arrays[x]) = 0
  BY DEF Arrays
<1>6. ValueTypes(caller, activeLocks, backend, arrays, queue, Els(answers))
  BY <1>1, <1>3, <1>5 DEF ValueTypes, Phases, Arrays
<1>7. Listed(caller, arrays)
  BY <1>5 DEF Listed
<1>8. TokensAsked(caller, activeLocks, backend, arrays, Els(answers))
  BY DEF TokensAsked
<1>9. HoldersBacked(caller, backend, arrays, Els(answers))
  <2>1. [r \in Requests |-> <<r, r>>] \in [Requests -> Tokens]
    BY DEF Tokens
  <2>2. Backs([r \in Requests |-> <<r, r>>], caller, backend, arrays, Els(answers))
    BY <1>2 DEF Backs
  <2> QED BY <2>1, <2>2 DEF HoldersBacked
<1>10. Sound(caller, activeLocks, backend, arrays, queue, Els(answers))
  BY <1>1, <1>4, <1>6, <1>7, <1>8, <1>9 DEF Sound, OneAnswer, Over, DrainsStand, GrantsCounted
<1>11. Locally(caller, activeLocks, backend, arrays, Els(answers))
  BY <1>1, <1>2 DEF Locally, LocalSlots, DrainsUndisturbed
<1>12. kind \in {"local", "redis"}
  BY GovernorAssumption
<1> QED BY <1>1, <1>10, <1>11, <1>12 DEF GovInv

-----------------------------------------------------------------------------
\* The actions.

\* The answer that comes next is one of those under way; the others stay.
LEMMA HeadFacts ==
  ASSUME GovInv, answers # << >>
  PROVE  /\ InLine(Tail(answers)) /\ Next1 \in Els(answers) /\ Next1 \in AnswerSet /\ Next1.of \in Requests
         /\ Els(Tail(answers)) = {a \in Els(answers) : a.of # Next1.of}
BY Popped DEF GovInv, Next1, AnswerSet

\* Each action keeps the invariant: a request that asks.
LEMMA WaitForSlotKeeps ==
  ASSUME GovInv, NEW r \in Requests, WaitForSlot(r)
  PROVE  GovInv'
<1> DEFINE b(result) == Answer("acquire", r, 0, result)
<1>1. PICK result \in AcquireOutcomes(backend, r) :
        backend' = Acquired(backend, <<r, r>>, result) /\ answers' = Append(answers, b(result))
  BY DEF WaitForSlot
<1>2. /\ caller[r] = "new" /\ caller' = [caller EXCEPT ![r] = "acquiring"] /\ Settled
      /\ kind' = kind /\ activeLocks' = activeLocks /\ arrays' = arrays /\ queue' = queue
  BY DEF WaitForSlot
<1>3. result \in {"granted", "refused", "error"} /\ (result = "granted" => Grants(backend, r))
  BY <1>1, OutcomeFacts DEF AcquireOutcomes
<1>4. InLine(answers) /\ Sound(caller, activeLocks, backend, arrays, queue, Els(answers))
  BY DEF GovInv
<1>5. InLine(answers)' /\ Els(answers)' = Els(answers) \cup {b(result)}
  <2>1. b(result) \in AnswerSet /\ b(result).of = r
    BY <1>3 DEF Answer, AnswerSet
  <2>2. \A a \in Els(answers) : a.of # r
    BY <1>2, <1>4 DEF Sound, OneAnswer
  <2>3. InLine(Append(answers, b(result)))
        /\ Els(Append(answers, b(result))) = Els(answers) \cup {b(result)}
    BY <1>4, <2>1, <2>2, Pushed
  <2> QED BY <1>1, <2>3
<1>6. /\ Sound(caller', activeLocks, backend', arrays, queue, Els(answers)')
      /\ Els(answers) = {} /\ Locally(caller, activeLocks, backend, arrays, Els(answers))
           => Locally(caller', activeLocks, backend', arrays, Els(answers)')
  <2>1. AskStep(caller, backend, Els(answers), r, result, caller', backend', b(result), Els(answers)')
    BY <1>1, <1>2, <1>3, <1>5 DEF AskStep
  <2> QED BY <1>4, <2>1, AskKeeps
<1>7. kind = "local" => Els(answers) = {}
  BY <1>2 DEF Settled, Els
<1> QED BY <1>2, <1>5, <1>6, <1>7 DEF GovInv

\* The answer to an acquire: a slot, for a conversation without a lock.
LEMMA SlotGrantedKeeps ==
  ASSUME GovInv, SlotGranted
  PROVE  GovInv'
<1>1. answers # << >> /\ answers' = Tail(answers)
  BY DEF SlotGranted, Answered
<1>2. /\ InLine(answers)' /\ Next1 \in Els(answers)
      /\ Els(answers)' = {a \in Els(answers) : a.of # Next1.of}
  BY <1>1, HeadFacts
<1>3. LockStep(caller, activeLocks, Els(answers), Next1, Els(answers)', caller', activeLocks')
  BY <1>2 DEF SlotGranted, Answered, LockStep, Grant
<1>4. /\ Sound(caller', activeLocks', backend, arrays, queue, Els(answers)')
      /\ Locally(caller, activeLocks, backend, arrays, Els(answers))
           => Locally(caller', activeLocks', backend, arrays, Els(answers)')
  BY <1>3, LockKeeps DEF GovInv
<1> QED BY <1>2, <1>4 DEF GovInv, SlotGranted

\* A slot, for a conversation that has a lock by now.
LEMMA SlotReturnedKeeps ==
  ASSUME GovInv, SlotReturned
  PROVE  GovInv'
<1> DEFINE b(result) == Answer("return", Next1.of, 0, result)
<1>1. PICK result \in Outcomes("done") :
        /\ backend' = ReleasedFrom(backend, <<Next1.of, Next1.of>>, result)
        /\ answers' = Append(Tail(answers), b(result))
  BY DEF SlotReturned
<1>2. /\ answers # << >> /\ Next1.call = "acquire" /\ Next1.result = "granted"
      /\ kind' = kind /\ caller' = caller /\ activeLocks' = activeLocks
      /\ arrays' = arrays /\ queue' = queue
  BY DEF SlotReturned, Answered
<1>3. result \in {"done", "error"} /\ (kind = "local" => result = "done")
  BY OutcomeFacts
<1>4. /\ InLine(Tail(answers)) /\ Next1 \in Els(answers) /\ Next1.of \in Requests
      /\ Els(Tail(answers)) = {a \in Els(answers) : a.of # Next1.of}
  BY <1>2, HeadFacts
<1>5. InLine(answers)' /\ Els(answers)' = {a \in Els(answers) : a.of # Next1.of} \cup {b(result)}
  <2>1. b(result) \in AnswerSet /\ b(result).of = Next1.of
    BY <1>3, <1>4 DEF Answer, AnswerSet
  <2>2. \A a \in Els(Tail(answers)) : a.of # b(result).of
    BY <1>4, <2>1
  <2>3. InLine(Append(Tail(answers), b(result)))
        /\ Els(Append(Tail(answers), b(result))) = Els(Tail(answers)) \cup {b(result)}
    BY <1>4, <2>1, <2>2, Pushed
  <2> QED BY <1>1, <1>4, <2>3
<1>6. ReturnStep(backend, Els(answers), Next1, result, backend', b(result), Els(answers)')
  BY <1>1, <1>2, <1>3, <1>4, <1>5 DEF ReturnStep, Grant
<1>7. /\ Sound(caller, activeLocks, backend', arrays, queue, Els(answers)')
      /\ result = "done" /\ Locally(caller, activeLocks, backend, arrays, Els(answers))
           => Locally(caller, activeLocks, backend', arrays, Els(answers)')
  BY <1>6, ReturnKeeps DEF GovInv
<1> QED BY <1>2, <1>3, <1>5, <1>7 DEF GovInv

\* A refusal, on which the request joins the queue.
LEMMA SlotAwaitedKeeps ==
  ASSUME GovInv, SlotAwaited
  PROVE  GovInv'
<1>1. answers # << >> /\ answers' = Tail(answers)
  BY DEF SlotAwaited, Answered
<1>2. /\ InLine(answers)' /\ Next1 \in Els(answers)
      /\ Els(answers)' = {a \in Els(answers) : a.of # Next1.of}
  BY <1>1, HeadFacts
<1>3. QueueStep(caller, arrays, queue, Els(answers), Next1, Els(answers)', caller', arrays')
  BY <1>2 DEF SlotAwaited, Answered, QueueStep, Grant, Enqueue
<1>4. /\ Sound(caller', activeLocks, backend, arrays', queue, Els(answers)')
      /\ Locally(caller, activeLocks, backend, arrays, Els(answers))
           => Locally(caller', activeLocks, backend, arrays', Els(answers)')
  BY <1>3, QueueKeeps DEF GovInv
<1> QED BY <1>2, <1>4 DEF GovInv, SlotAwaited

\* An error of the backend, or of the way to it.
LEMMA FailsKeep ==
  ASSUME GovInv, WaitFails \/ DrainFails
  PROVE  GovInv'
<1>1. answers # << >> /\ answers' = Tail(answers)
  BY DEF WaitFails, DrainFails, Answered
<1>2. /\ InLine(answers)' /\ Next1 \in Els(answers)
      /\ Els(answers)' = {a \in Els(answers) : a.of # Next1.of}
  BY <1>1, HeadFacts
<1>3. FailStep(caller, Els(answers), Next1, Els(answers)', caller')
  BY <1>2 DEF WaitFails, DrainFails, Answered, FailStep, Grant
<1>4. /\ Sound(caller', activeLocks, backend, arrays, queue, Els(answers)')
      /\ Locally(caller, activeLocks, backend, arrays, Els(answers))
           => Locally(caller', activeLocks, backend, arrays, Els(answers)')
  BY <1>3, FailKeeps DEF GovInv
<1> QED BY <1>2, <1>4 DEF GovInv, WaitFails, DrainFails

\* A request gives up.
LEMMA TimeoutsKeep ==
  ASSUME GovInv, NEW r \in Requests, Timeout(r)
  PROVE  GovInv'
<1>1. Settled /\ UNCHANGED <<kind, activeLocks, backend, arrays, queue, answers>>
  BY DEF Timeout
<1>2. TimeoutStep(caller, r, caller')
  BY DEF Timeout, Live, TimeoutStep
<1>3. /\ Sound(caller', activeLocks, backend, arrays, queue, Els(answers))
      /\ Els(answers) = {} /\ Locally(caller, activeLocks, backend, arrays, Els(answers))
           => Locally(caller', activeLocks, backend, arrays, Els(answers))
  BY <1>2, TimeoutKeeps DEF GovInv
<1>4. kind = "local" => Els(answers) = {}
  BY <1>1 DEF Settled, Els
<1>5. Els(answers)' = Els(answers) /\ InLine(answers)' = InLine(answers)
  BY <1>1 DEF Els, InLine
<1> QED BY <1>1, <1>3, <1>4, <1>5 DEF GovInv

\* A release, of a request with a lock or without.
LEMMA ReleasesKeep ==
  ASSUME GovInv, NEW r \in Requests, Release(r)
  PROVE  GovInv'
<1> DEFINE t == activeLocks[Key(r)]
           b(result) == Answer("release", r, 0, result)
<1>1. /\ caller[r] = "held" /\ Settled /\ caller' = [caller EXCEPT ![r] = "released"]
      /\ kind' = kind /\ arrays' = arrays /\ queue' = queue
  BY DEF Release
<1>2. kind = "local" => Els(answers) = {}
  BY <1>1 DEF Settled, Els
<1>3. CASE t = None
  <2>1. activeLocks' = activeLocks /\ backend' = backend /\ answers' = answers
    BY <1>3 DEF Release
  <2>2. ReleaseUnlockedStep(caller, activeLocks, r, caller')
    BY <1>1, <1>3 DEF ReleaseUnlockedStep
  <2>3. /\ Sound(caller', activeLocks, backend, arrays, queue, Els(answers))
        /\ ~ Locally(caller, activeLocks, backend, arrays, Els(answers))
    BY <2>2, ReleaseUnlockedKeeps DEF GovInv
  <2>4. Els(answers)' = Els(answers) /\ InLine(answers)' = InLine(answers)
    BY <2>1 DEF Els, InLine
  <2> QED BY <1>1, <2>1, <2>3, <2>4 DEF GovInv
<1>4. CASE t # None
  <2>1. PICK result \in Outcomes("done") :
          backend' = ReleasedFrom(backend, t, result) /\ answers' = Append(answers, b(result))
    BY <1>4 DEF Release
  <2>2. activeLocks' = [activeLocks EXCEPT ![Key(r)] = None]
    BY <1>4 DEF Release
  <2>3. result \in {"done", "error"} /\ (kind = "local" => result = "done")
    BY OutcomeFacts
  <2>4. InLine(answers)' /\ Els(answers)' = Els(answers) \cup {b(result)}
    <3>1. b(result) \in AnswerSet /\ b(result).of = r
      BY <2>3 DEF Answer, AnswerSet
    <3>2. InLine(answers) /\ \A a \in Els(answers) : a.of # r
      BY <1>1 DEF GovInv, Sound, OneAnswer
    <3>3. InLine(Append(answers, b(result)))
          /\ Els(Append(answers, b(result))) = Els(answers) \cup {b(result)}
      BY <3>1, <3>2, Pushed
    <3> QED BY <2>1, <3>3
  <2>5. ReleaseStep(caller, activeLocks, backend, Els(answers), r, t, caller', activeLocks',
                    result, backend', b(result), Els(answers)')
    BY <1>1, <1>4, <2>1, <2>2, <2>3, <2>4 DEF ReleaseStep
  <2>6. /\ Sound(caller', activeLocks', backend', arrays, queue, Els(answers)')
        /\ Els(answers) = {} /\ result = "done"
           /\ Locally(caller, activeLocks, backend, arrays, Els(answers))
             => Locally(caller', activeLocks', backend', arrays, Els(answers)')
    BY <2>5, ReleaseKeeps DEF GovInv
  <2> QED BY <1>1, <1>2, <2>3, <2>4, <2>6 DEF GovInv
<1> QED BY <1>3, <1>4

\* Any set of naturals that is not empty has a least element.
\* The drain of the answer h goes on with callers c and locks L, P being the answers
\* under way.
LEMMA DrainKeeps ==
  ASSUME InLine(answers), answers # << >>, kind \in {"local", "redis"},
         NEW c, NEW L, NEW P, NEW h, NEW array, NEW upto, NEW rest,
         Sound(c, L, backend, arrays, queue, P),
         h \in P, h.call \in {"release", "drain"}, ~ Grant(h),
         ComesTo(arrays, queue, h, array, upto, rest), h.of \in Requests,
         InLine(Tail(answers)), Els(Tail(answers)) = {a \in P : a.of # h.of},
         \A i \in upto + 1 .. Len(arrays[array]) : c[arrays[array][i]] = caller[arrays[array][i]],
         Drain(h.of, array, upto + 1, rest, L)
  PROVE  /\ activeLocks' = L /\ InLine(answers)'
         /\ Sound(c, L, backend', arrays', queue', Els(answers)')
         /\ LocalSlots(c, L, backend, arrays, P) => Locally(c, L, backend', arrays', Els(answers)')
<1> DEFINE E == arrays[array]
           S == {r \in Requests : Live(r)}
           Stops == {i \in upto + 1 .. Len(E) : Tries(E[i], L)}
           stop == IF Stops = {} THEN Len(E) + 1
                   ELSE CHOOSE i \in Stops : \A j \in Stops : i <= j
           b(result) == Answer("drain", h.of, <<array, stop>>, result)
<1>1. /\ array \in Arrays /\ upto \in 0 .. Len(arrays[array]) /\ arrays \in [Arrays -> Seq(Requests)]
  BY ComesToFacts DEF Sound, ValueTypes
<1>2. E \in Seq(Requests) /\ Len(E) \in Nat /\ upto \in Nat /\ upto <= Len(E)
  BY <1>1
<1>3. /\ activeLocks' = L
      /\ arrays' = [arrays EXCEPT ![h.of] = rest \o Only(SubSeq(arrays[array], upto + 1, stop - 1), S)]
      /\ Stops = {} => queue' = h.of /\ answers' = Tail(answers) /\ backend' = backend
      /\ Stops # {} =>
           /\ queue' = queue
           /\ \E result \in AcquireOutcomes(backend, E[stop]) :
                /\ backend' = Acquired(backend, <<E[stop], h.of>>, result)
                /\ answers' = Append(Tail(answers), b(result))
  BY DEF Drain, Kept
<1>4. Stops # {} => stop \in Stops
  <2>1. Stops \in SUBSET Nat
    BY <1>2
  <2> HIDE DEF Stops
  <2>2. ASSUME Stops # {} PROVE \E i \in Stops : \A j \in Stops : i <= j
    BY <2>1, <2>2, Least
  <2> QED BY <2>2
<1>5. Stops # {} => /\ stop \in upto + 1 .. Len(arrays[array]) /\ E[stop] \in Requests
                    /\ c[E[stop]] = "waiting" /\ L[Key(E[stop])] = None
  <2>1. SUFFICES ASSUME Stops # {} PROVE /\ stop \in upto + 1 .. Len(arrays[array]) /\ E[stop] \in Requests
                    /\ c[E[stop]] = "waiting" /\ L[Key(E[stop])] = None
    OBVIOUS
  <2>2. stop \in upto + 1 .. Len(E) /\ Tries(E[stop], L)
    BY <1>4, <2>1
  <2> HIDE DEF stop
  <2>3. stop \in 1 .. Len(E)
    BY <1>2, <2>2
  <2> QED BY <1>2, <2>2, <2>3 DEF Tries, Live
<1>6. stop \in upto + 1 .. Len(arrays[array]) + 1
  <2>1. Stops = {} => stop = Len(E) + 1
    OBVIOUS
  <2> HIDE DEF stop, Stops
  <2> QED BY <1>2, <1>5, <2>1
<1> HIDE DEF stop, Stops, S
<1>7. Writes(arrays, arrays', h.of, array, stop)
  BY <1>3, <1>6, DrainWrites
<1>8. CASE Stops = {}
  <2>1. queue' = h.of /\ answers' = Tail(answers) /\ backend' = backend
    BY <1>3, <1>8
  <2>2. InLine(answers)' /\ Els(answers)' = {a \in P : a.of # h.of}
    BY <2>1
  <2>3. DrainEndStep(arrays, queue, P, h, array, upto, rest, stop, arrays', Els(answers)')
    BY <1>6, <1>7, <2>2 DEF DrainEndStep
  <2>4. /\ Sound(c, L, backend, arrays', h.of, Els(answers)')
        /\ LocalSlots(c, L, backend, arrays, P) => Locally(c, L, backend, arrays', Els(answers)')
    BY <2>3, DrainEndKeeps
  <2> QED BY <1>3, <2>1, <2>2, <2>4
<1>9. CASE Stops # {}
  <2>1. PICK result \in AcquireOutcomes(backend, E[stop]) :
           /\ backend' = Acquired(backend, <<E[stop], h.of>>, result)
           /\ answers' = Append(Tail(answers), b(result))
    BY <1>3, <1>9
  <2>2. result \in {"granted", "refused", "error"} /\ (result = "granted" => Grants(backend, E[stop]))
    BY <2>1, OutcomeFacts DEF AcquireOutcomes
  <2>3. InLine(answers)' /\ Els(answers)' = {a \in P : a.of # h.of} \cup {b(result)}
    <3>1. b(result) \in AnswerSet /\ b(result).of = h.of
      BY <1>1, <1>2, <1>5, <1>9, <2>2 DEF Answer, AnswerSet
    <3>2. \A a \in Els(Tail(answers)) : a.of # b(result).of
      BY <3>1
    <3>3. InLine(Append(Tail(answers), b(result)))
          /\ Els(Append(Tail(answers), b(result))) = Els(Tail(answers)) \cup {b(result)}
      BY <3>1, <3>2, Pushed
    <3> QED BY <2>1, <3>3
  <2>4. DrainAskStep(c, L, backend, arrays, queue, P, h, array, upto, rest, stop, arrays', E[stop],
                     result, backend', b(result), Els(answers)')
    BY <1>5, <1>7, <1>9, <2>1, <2>2, <2>3 DEF DrainAskStep
  <2>5. /\ Sound(c, L, backend', arrays', queue, Els(answers)')
        /\ LocalSlots(c, L, backend, arrays, P) => Locally(c, L, backend', arrays', Els(answers)')
    BY <2>4, DrainAskKeeps
  <2> QED BY <1>3, <1>9, <2>3, <2>5
<1> QED BY <1>8, <1>9

\* The drain that follows a release, once the slot has been given back.
LEMMA DrainStartsKeeps ==
  ASSUME GovInv, DrainStarts
  PROVE  GovInv'
<1>1. answers # << >> /\ Next1.call = "release" /\ Next1.result = "done"
      /\ kind' = kind /\ caller' = caller
  BY DEF DrainStarts, Answered
<1>2. /\ InLine(Tail(answers)) /\ Next1 \in Els(answers) /\ Next1.of \in Requests
      /\ Els(Tail(answers)) = {a \in Els(answers) : a.of # Next1.of}
  BY <1>1, HeadFacts
<1>3. Next1.call \in {"release", "drain"} /\ ~ Grant(Next1)
      /\ ComesTo(arrays, queue, Next1, queue, 0, << >>)
  BY <1>1 DEF Grant, ComesTo
<1>4. Drain(Next1.of, queue, 0 + 1, << >>, activeLocks)
  BY DEF DrainStarts
<1>5. /\ activeLocks' = activeLocks /\ InLine(answers)'
      /\ Sound(caller, activeLocks, backend', arrays', queue', Els(answers)')
      /\ LocalSlots(caller, activeLocks, backend, arrays, Els(answers))
           => Locally(caller, activeLocks, backend', arrays', Els(answers)')
  BY <1>1, <1>2, <1>3, <1>4, DrainKeeps DEF GovInv
<1> QED BY <1>1, <1>5 DEF GovInv, Locally

\* A drain that has its answer, for the entry it stands at.
LEMMA DrainGoesOnKeeps ==
  ASSUME GovInv, DrainGoesOn
  PROVE  GovInv'
<1> DEFINE q == Next1.of
           array == Next1.at[1]
           i == Next1.at[2]
           r == arrays[array][i]
<1>1. answers # << >> /\ Next1.call = "drain" /\ Next1.result # "error" /\ kind' = kind
  BY DEF DrainGoesOn, Answered
<1>2. /\ InLine(Tail(answers)) /\ Next1 \in Els(answers) /\ Next1.of \in Requests
      /\ Els(Tail(answers)) = {a \in Els(answers) : a.of # Next1.of}
  BY <1>1, HeadFacts
<1>3. /\ array \in Arrays /\ i \in 1 .. Len(arrays[array]) /\ arrays[array] \in Seq(Requests)
      /\ r \in Requests /\ \A j \in i + 1 .. Len(arrays[array]) : arrays[array][j] # r /\ arrays[array][j] \in Requests
  <2>1. /\ Next1.at \in Arrays \X Nat /\ i \in 1 .. Len(arrays[array])
        /\ Listed(caller, arrays) /\ arrays \in [Arrays -> Seq(Requests)]
    BY <1>1, <1>2 DEF GovInv, Sound, DrainsStand, ValueTypes
  <2>2. array \in Arrays /\ arrays[array] \in Seq(Requests)
    BY <2>1
  <2>3. \A j \in i + 1 .. Len(arrays[array]) : j \in 1 .. Len(arrays[array]) /\ j # i
    BY <2>1, <2>2
  <2> QED BY <2>1, <2>2, <2>3 DEF Listed
<1>4. CASE Next1.result # "granted"
  <2>1. /\ caller' = caller
        /\ Drain(Next1.of, Next1.at[1], Next1.at[2] + 1, Append(arrays[Next1.of], arrays[Next1.at[1]][Next1.at[2]]), activeLocks)
    BY <1>4 DEF DrainGoesOn
  <2>2. Next1.call \in {"release", "drain"} /\ ~ Grant(Next1)
        /\ ComesTo(arrays, queue, Next1, Next1.at[1], Next1.at[2],
                   Append(arrays[Next1.of], arrays[Next1.at[1]][Next1.at[2]]))
    BY <1>1, <1>4 DEF Grant, ComesTo
  <2>3. /\ activeLocks' = activeLocks /\ InLine(answers)'
        /\ Sound(caller, activeLocks, backend', arrays', queue', Els(answers)')
        /\ LocalSlots(caller, activeLocks, backend, arrays, Els(answers))
             => Locally(caller, activeLocks, backend', arrays', Els(answers)')
    BY <1>1, <1>2, <2>1, <2>2, DrainKeeps DEF GovInv
  <2> QED BY <1>1, <2>1, <2>3 DEF GovInv, Locally
<1>5. CASE Next1.result = "granted"
  <2> DEFINE M == [activeLocks EXCEPT ![Key(r)] = <<r, q>>]
             h == Answer("drain", Next1.of, Next1.at, "refused")
             P == {a \in Els(answers) : a.of # Next1.of} \cup {h}
  <2>1. /\ caller' = [caller EXCEPT ![r] = IF Live(r) THEN "held" ELSE @]
        /\ Drain(Next1.of, Next1.at[1], Next1.at[2] + 1, arrays[Next1.of], M)
    BY <1>5 DEF DrainGoesOn
  <2>2. DrainGrantStep(caller, activeLocks, arrays, Els(answers), Next1, r, caller', M, h, P)
    BY <1>1, <1>2, <1>5, <2>1 DEF DrainGrantStep, Grant, Live
  <2>3. /\ Sound(caller', M, backend, arrays, queue, P) /\ ~ Grant(h)
        /\ Locally(caller, activeLocks, backend, arrays, Els(answers))
             => LocalSlots(caller', M, backend, arrays, P)
    BY <2>2, DrainGrantKeeps DEF GovInv
  <2>4. \A j \in i + 1 .. Len(arrays[array]) : caller'[arrays[array][j]] = caller[arrays[array][j]]
    BY <1>3, <2>1 DEF GovInv, Sound, ValueTypes
  <2>5. /\ h \in P /\ h.call \in {"release", "drain"} /\ h.of = Next1.of /\ h.at = Next1.at
        /\ ComesTo(arrays, queue, h, Next1.at[1], Next1.at[2], arrays[Next1.of])
    BY DEF Answer, ComesTo
  <2>6. Els(Tail(answers)) = {a \in P : a.of # h.of}
    BY <1>2, <2>5
  <2> HIDE DEF M, h, P
  <2>7. Drain(h.of, Next1.at[1], Next1.at[2] + 1, arrays[Next1.of], M)
    BY <2>1, <2>5
  <2>8. /\ activeLocks' = M /\ InLine(answers)'
        /\ Sound(caller', M, backend', arrays', queue', Els(answers)')
        /\ LocalSlots(caller', M, backend, arrays, P)
             => Locally(caller', M, backend', arrays', Els(answers)')
    <3>1. PICK c : c = caller'
      OBVIOUS
    <3>2. /\ activeLocks' = M /\ InLine(answers)'
          /\ Sound(c, M, backend', arrays', queue', Els(answers)')
          /\ LocalSlots(c, M, backend, arrays, P)
               => Locally(c, M, backend', arrays', Els(answers)')
      BY <1>1, <1>2, <2>3, <2>4, <2>5, <2>6, <2>7, <3>1, DrainKeeps DEF GovInv
    <3> QED BY <3>1, <3>2
  <2> QED BY <1>1, <2>3, <2>8 DEF GovInv
<1> QED BY <1>4, <1>5

-----------------------------------------------------------------------------
\* Every step keeps the invariant.
LEMMA GovernorSteps == GovInv /\ [GovernorNext]_governorVars => GovInv'
<1> SUFFICES ASSUME GovInv, [GovernorNext]_governorVars PROVE GovInv'
  OBVIOUS
<1>1. CASE UNCHANGED governorVars
  <2>1. UNCHANGED <<kind, caller, activeLocks, backend, arrays, queue, answers, failures>>
    BY <1>1 DEF governorVars
  <2> QED BY <2>1 DEF GovInv, Els, InLine
<1>2. CASE Continue
  BY <1>2, SlotGrantedKeeps, SlotReturnedKeeps, SlotAwaitedKeeps, FailsKeep, DrainStartsKeeps,
     DrainGoesOnKeeps DEF Continue
<1>3. CASE \E r \in Requests : WaitForSlot(r) \/ Timeout(r) \/ Release(r)
  BY <1>3, WaitForSlotKeeps, TimeoutsKeep, ReleasesKeep
<1> QED BY <1>1, <1>2, <1>3 DEF GovernorNext

\* The limits hold of the holders, since each has a slot of its own; in the local backend
\* no slot is without an owner, and a conversation has one holder.
LEMMA GovInvSuffices == GovInv => SlotsKept
<1> SUFFICES ASSUME GovInv PROVE SlotsKept
  OBVIOUS
<1>1. /\ ValueTypes(caller, activeLocks, backend, arrays, queue, Els(answers))
      /\ HoldersBacked(caller, backend, arrays, Els(answers)) /\ SlotsLimited(backend)
      /\ DrainsStand(caller, arrays, Els(answers))
      /\ backend \in SUBSET Tokens /\ IsFiniteSet(backend)
  BY DEF GovInv, Sound, ValueTypes
<1>2. HoldersWithinLimits
  <2>1. Holding = {r \in Requests : caller[r] = "held"}
    BY DEF Holding
  <2> QED BY <1>1, <2>1, LimitsFollow DEF HoldersWithinLimits
<1>3. ASSUME kind = "local" PROVE NoSlotLeak
  <2>1. ASSUME NEW t \in backend, NEW a \in Els(answers), Grant(a), TokenOf(arrays, a) = t
        PROVE  InFlight(t)
    <3>1. PICK i \in 1 .. Len(answers) : a = answers[i]
      BY <2>1 DEF Els
    <3>2. i \in DOMAIN answers
      BY DEF GovInv, InLine
    <3> QED BY <2>1, <3>1, <3>2 DEF InFlight, TokenOf, Grant
  <2> QED BY <1>3, <2>1 DEF NoSlotLeak, GovInv, Locally, LocalSlots
<1>4. ASSUME kind = "local" PROVE \A r, s \in Holding : r # s => Key(r) # Key(s)
  BY <1>4 DEF Holding, GovInv, Locally, LocalSlots
<1> QED BY <1>2, <1>3, <1>4 DEF SlotsKept, NoSlotLeakLocally, OneHolderPerKey

\* Whatever calls overlap, time out, fail or drain the queue: no more requests run than
\* the limits allow, in a local backend one at a time of a conversation, and none of its
\* slots is lost.
THEOREM SlotsStayKept == GovernorSpec => []SlotsKept
<1>1. GovernorInit => GovInv
  BY GovernorStart
<1>2. GovInv /\ [GovernorNext]_governorVars => GovInv'
  BY GovernorSteps
<1>3. GovInv => SlotsKept
  BY GovInvSuffices
<1> QED BY <1>1, <1>2, <1>3, PTL DEF GovernorSpec
=============================================================================
