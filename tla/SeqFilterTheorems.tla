-------------------------- MODULE SeqFilterTheorems --------------------------
(***************************************************************************)
(* What a filter of a sequence keeps, and induction over the numbers and   *)
(* the sequences that it takes to prove it.                                *)
(***************************************************************************)
EXTENDS SeqFilters, SequenceTheorems, FiniteSetTheorems, WellFoundedInduction, TLAPS

\* Induction over the natural numbers, for a set in place of a formula.
LEMMA CountUp ==
  ASSUME NEW T \in SUBSET Nat, 0 \in T, \A n \in T : n + 1 \in T
  PROVE  T = Nat
<1>1. IsWellFoundedOn(OpToRel(<, Nat), Nat)
  BY NatLessThanWellFounded
<1>2. SUFFICES ASSUME Nat \ T # {} PROVE FALSE
  OBVIOUS
<1>3. PICK x \in Nat \ T : \A y \in Nat \ T : ~(<<y, x>> \in OpToRel(<, Nat))
  BY <1>1, <1>2, WFMin
<1>4. \A y \in Nat \ T : ~(y < x)
  BY <1>3 DEF OpToRel
<1>5. x \in Nat /\ x \notin T /\ x # 0
  OBVIOUS
<1>6. x - 1 \in Nat /\ x - 1 < x /\ (x - 1) + 1 = x
  BY <1>5, SMT
<1>7. x - 1 \in T
  BY <1>4, <1>6
<1> QED BY <1>5, <1>6, <1>7

\* A set of natural numbers has a least element.
LEMMA Least ==
  ASSUME NEW T \in SUBSET Nat, T # {}
  PROVE  \E i \in T : \A j \in T : i <= j
<1>1. IsWellFoundedOn(OpToRel(<, Nat), Nat)
  BY NatLessThanWellFounded
<1>2. PICK i \in T : \A j \in T : ~(<<j, i>> \in OpToRel(<, Nat))
  BY <1>1, WFMin
<1>3. \A j \in T : ~(j < i)
  BY <1>2 DEF OpToRel
<1>4. \A j \in T : i <= j
  BY <1>3
<1> QED BY <1>4

IsKept(f, s, S, n) ==
  f[n] = IF n = 0 THEN << >>
         ELSE IF s[n] \in S THEN Append(f[n - 1], s[n]) ELSE f[n - 1]

\* The recursion that defines Only has a solution,
LEMMA KeptExists ==
  ASSUME NEW A, NEW s \in Seq(A), NEW S
  PROVE  \E f \in [0 .. Len(s) -> Seq(A)] : \A n \in 0 .. Len(s) : IsKept(f, s, S, n)
<1> DEFINE Up(m) == \E f \in [0 .. m -> Seq(A)] : \A n \in 0 .. m : IsKept(f, s, S, n)
           T == {m \in Nat : m <= Len(s) => Up(m)}
<1>1. Up(0)
  <2> DEFINE f == [n \in 0 .. 0 |-> << >>]
  <2>1. f \in [0 .. 0 -> Seq(A)] /\ \A n \in 0 .. 0 : IsKept(f, s, S, n)
    BY DEF IsKept
  <2> QED BY <2>1
<1>2. ASSUME NEW m \in Nat, m + 1 <= Len(s), Up(m) PROVE Up(m + 1)
  <2>1. PICK f \in [0 .. m -> Seq(A)] : \A n \in 0 .. m : IsKept(f, s, S, n)
    BY <1>2
  <2> DEFINE last == IF s[m + 1] \in S THEN Append(f[m], s[m + 1]) ELSE f[m]
             g == [n \in 0 .. m + 1 |-> IF n = m + 1 THEN last ELSE f[n]]
  <2>2. s[m + 1] \in A /\ f[m] \in Seq(A)
    BY <1>2
  <2>3. last \in Seq(A)
    BY <2>2
  <2>4. g \in [0 .. m + 1 -> Seq(A)]
    BY <2>3
  <2>5. ASSUME NEW n \in 0 .. m + 1 PROVE IsKept(g, s, S, n)
    <3>1. CASE n = m + 1
      BY <3>1 DEF IsKept
    <3>2. CASE n # m + 1
      <4>1. n \in 0 .. m /\ IsKept(f, s, S, n) /\ g[n] = f[n]
        BY <2>1, <2>5, <3>2
      <4>2. n # 0 => g[n - 1] = f[n - 1]
        BY <3>2
      <4> QED BY <4>1, <4>2 DEF IsKept
    <3> QED BY <3>1, <3>2
  <2> QED BY <2>4, <2>5
<1>3. T = Nat
  <2> HIDE DEF Up
  <2>1. T \in SUBSET Nat /\ 0 \in T /\ \A n \in T : n + 1 \in T
    BY <1>1, <1>2
  <2> QED BY <2>1, CountUp
<1>4. Len(s) \in Nat /\ Len(s) <= Len(s)
  OBVIOUS
<1> HIDE DEF Up
<1>5. Up(Len(s))
  BY <1>3, <1>4
<1> QED BY <1>5 DEF Up

\* and Only is its last value.
LEMMA KeptDef ==
  ASSUME NEW A, NEW s \in Seq(A), NEW S
  PROVE  \E f \in [0 .. Len(s) -> Seq(A)] :
           (\A n \in 0 .. Len(s) : IsKept(f, s, S, n)) /\ Only(s, S) = f[Len(s)]
<1> DEFINE Body(f, n) == IF n = 0 THEN << >>
              ELSE IF s[n] \in S THEN Append(f[n - 1], s[n]) ELSE f[n - 1]
           kept == CHOOSE f : f = [n \in 0 .. Len(s) |-> Body(f, n)]
<1>1. PICK f \in [0 .. Len(s) -> Seq(A)] : \A n \in 0 .. Len(s) : IsKept(f, s, S, n)
  BY KeptExists
<1>2. f = [n \in 0 .. Len(s) |-> Body(f, n)]
  BY <1>1 DEF IsKept
<1>3. kept = [n \in 0 .. Len(s) |-> Body(kept, n)]
  BY <1>2
<1>4. Only(s, S) = kept[Len(s)]
  BY DEF Only
<1>5. \A n \in 0 .. Len(s) : IsKept(kept, s, S, n)
  <2> HIDE DEF kept
  <2> QED BY <1>3 DEF IsKept
<1>6. kept \in [0 .. Len(s) -> Seq(A)]
  <2> DEFINE T == {n \in Nat : n <= Len(s) => kept[n] = f[n]}
  <2> HIDE DEF kept
  <2>1. 0 \in T
    BY <1>1, <1>5 DEF IsKept
  <2>2. ASSUME NEW n \in T PROVE n + 1 \in T
    <3>1. n \in Nat /\ n + 1 \in Nat /\ (n + 1) - 1 = n /\ n + 1 # 0
      BY <2>2
    <3>2. CASE n + 1 <= Len(s)
      <4>1. n + 1 \in 0 .. Len(s) /\ n <= Len(s)
        BY <3>1, <3>2
      <4>2. IsKept(kept, s, S, n + 1) /\ IsKept(f, s, S, n + 1) /\ kept[n] = f[n]
        BY <1>1, <1>5, <2>2, <4>1
      <4>3. kept[n + 1] = f[n + 1]
        BY <3>1, <4>2 DEF IsKept
      <4> QED BY <3>1, <4>3
    <3> QED BY <3>1, <3>2
  <2>3. T = Nat
    <3> HIDE DEF T
    <3>1. T \in SUBSET Nat
      BY DEF T
    <3> QED BY <2>1, <2>2, <3>1, CountUp
  <2>4. \A n \in 0 .. Len(s) : kept[n] = f[n]
    BY <2>3
  <2>5. kept = [n \in 0 .. Len(s) |-> kept[n]]
    BY <1>3
  <2> QED BY <2>4, <2>5
<1> HIDE DEF kept
<1> QED BY <1>4, <1>5, <1>6

\* t is the part of s that lies in S: its places in s, in order.
Embeds(e, t, s, S) ==
  /\ e \in [DOMAIN t -> DOMAIN s]
  /\ \A i \in DOMAIN t : t[i] = s[e[i]] /\ t[i] \in S
  /\ \A i, j \in DOMAIN t : i < j => e[i] < e[j]
  /\ \A k \in DOMAIN s : s[k] \in S => \E i \in DOMAIN t : e[i] = k

\* A filter treats the elements one by one.
LEMMA OnlyAppend ==
  ASSUME NEW A, NEW s \in Seq(A), NEW x \in A, NEW S
  PROVE  Only(Append(s, x), S) = IF x \in S THEN Append(Only(s, S), x) ELSE Only(s, S)
<1> DEFINE u == Append(s, x)
<1>1. u \in Seq(A) /\ Len(u) = Len(s) + 1 /\ u[Len(s) + 1] = x
      /\ \A i \in 1 .. Len(s) : u[i] = s[i]
  BY AppendProperties
<1> HIDE DEF u
<1>2. PICK f \in [0 .. Len(s) -> Seq(A)] :
        (\A n \in 0 .. Len(s) : IsKept(f, s, S, n)) /\ Only(s, S) = f[Len(s)]
  BY KeptDef
<1>3. PICK g \in [0 .. Len(u) -> Seq(A)] :
        (\A n \in 0 .. Len(u) : IsKept(g, u, S, n)) /\ Only(u, S) = g[Len(u)]
  BY <1>1, KeptDef
<1> DEFINE T == {n \in Nat : n <= Len(s) => g[n] = f[n]}
<1>4. 0 \in T
  BY <1>2, <1>3 DEF IsKept
<1>5. ASSUME NEW n \in T PROVE n + 1 \in T
  <2>1. n \in Nat /\ n + 1 \in Nat /\ (n + 1) - 1 = n /\ n + 1 # 0
    BY <1>5
  <2>2. CASE n + 1 <= Len(s)
    <3>1. n + 1 \in 0 .. Len(s) /\ n + 1 \in 0 .. Len(u) /\ n <= Len(s) /\ u[n + 1] = s[n + 1]
      BY <1>1, <2>1, <2>2
    <3>2. IsKept(f, s, S, n + 1) /\ IsKept(g, u, S, n + 1) /\ g[n] = f[n]
      BY <1>2, <1>3, <1>5, <3>1
    <3>3. g[n + 1] = f[n + 1]
      BY <2>1, <3>1, <3>2 DEF IsKept
    <3> QED BY <2>1, <3>3
  <2> QED BY <2>1, <2>2
<1>6. T = Nat
  <2> HIDE DEF T
  <2>1. T \in SUBSET Nat
    BY DEF T
  <2> QED BY <1>4, <1>5, <2>1, CountUp
<1>7. Len(s) \in Nat /\ g[Len(s)] = f[Len(s)]
  BY <1>6
<1>8. IsKept(g, u, S, Len(s) + 1) /\ Len(s) + 1 # 0 /\ (Len(s) + 1) - 1 = Len(s)
  BY <1>1, <1>3, <1>7
<1> QED BY <1>1, <1>2, <1>3, <1>7, <1>8 DEF IsKept, u

\* Nothing comes of nothing.
LEMMA OnlyEmpty == \A S : Only(<< >>, S) = << >>
<1> TAKE S
<1>1. << >> \in Seq({}) /\ Len(<< >>) = 0
  OBVIOUS
<1>2. PICK f \in [0 .. Len(<< >>) -> Seq({})] :
        (\A n \in 0 .. Len(<< >>) : IsKept(f, << >>, S, n)) /\ Only(<< >>, S) = f[Len(<< >>)]
  BY <1>1, KeptDef
<1>3. IsKept(f, << >>, S, 0)
  BY <1>1, <1>2
<1> QED BY <1>1, <1>2, <1>3 DEF IsKept

\* Induction over the sequences of a set.
LEMMA SeqInduct ==
  ASSUME NEW A, NEW T \in SUBSET Seq(A), << >> \in T,
         \A s \in T : \A x \in A : Append(s, x) \in T
  PROVE  T = Seq(A)
<1> DEFINE L == {n \in Nat : \A s \in Seq(A) : Len(s) = n => s \in T}
<1>1. 0 \in L
  <2>1. ASSUME NEW s \in Seq(A), Len(s) = 0 PROVE s \in T
    <3>1. s = << >>
      BY <2>1
    <3> QED BY <3>1
  <2> QED BY <2>1
<1>2. ASSUME NEW n \in L PROVE n + 1 \in L
  <2>1. ASSUME NEW s \in Seq(A), Len(s) = n + 1 PROVE s \in T
    <3>1. n \in Nat
      OBVIOUS
    <3> DEFINE p == SubSeq(s, 1, n)
    <3>2. p \in Seq(A) /\ Len(p) = n /\ s[n + 1] \in A
      BY <2>1, <3>1
    <3>3. s = Append(p, s[n + 1])
      <4>1. /\ Append(p, s[n + 1]) \in Seq(A) /\ Len(Append(p, s[n + 1])) = Len(s)
        BY <2>1, <3>1, <3>2
      <4>2. ASSUME NEW i \in 1 .. Len(s) PROVE Append(p, s[n + 1])[i] = s[i]
        BY <2>1, <3>1, <3>2
      <4> QED BY <2>1, <4>1, <4>2, SeqEqual
    <3>4. p \in T
      BY <3>2
    <3> HIDE DEF p
    <3> QED BY <3>2, <3>3, <3>4
  <2> QED BY <2>1
<1>3. L = Nat
  <2>1. L \in SUBSET Nat
    OBVIOUS
  <2> HIDE DEF L
  <2> QED BY <1>1, <1>2, <2>1, CountUp
<1>4. ASSUME NEW s \in Seq(A) PROVE s \in T
  <2>1. Len(s) \in L
    BY <1>3
  <2> QED BY <2>1
<1> QED BY <1>4

\* The empty sequence is the filtered part of itself.
LEMMA EmbedsNone ==
  \A S : Embeds(<< >>, << >>, << >>, S)
BY DEF Embeds

\* An element that is dropped leaves the places of the others as they are.
LEMMA EmbedsSkip ==
  ASSUME NEW A, NEW p \in Seq(A), NEW t \in Seq(A), NEW x \in A, NEW S, x \notin S,
         NEW e, Embeds(e, t, p, S)
  PROVE  Embeds(e, t, Append(p, x), S)
<1> DEFINE q == Append(p, x)
<1>1. /\ Len(p) \in Nat /\ DOMAIN p = 1 .. Len(p) /\ DOMAIN q = 1 .. Len(p) + 1
      /\ q[Len(p) + 1] = x /\ \A i \in 1 .. Len(p) : q[i] = p[i]
  OBVIOUS
<1> HIDE DEF q
<1>2. e \in [DOMAIN t -> 1 .. Len(p)]
  BY <1>1 DEF Embeds
<1>3. e \in [DOMAIN t -> DOMAIN q]
  <2>1. 1 .. Len(p) \subseteq DOMAIN q
    BY <1>1
  <2> QED BY <1>2, <2>1
<1>4. \A i \in DOMAIN t : t[i] = q[e[i]] /\ t[i] \in S
  <2>1. TAKE i \in DOMAIN t
  <2>2. e[i] \in 1 .. Len(p) /\ t[i] = p[e[i]] /\ t[i] \in S
    BY <1>2 DEF Embeds
  <2> QED BY <1>1, <2>2
<1>5. \A k \in DOMAIN q : q[k] \in S => \E i \in DOMAIN t : e[i] = k
  <2>1. TAKE k \in DOMAIN q
  <2>2. HAVE q[k] \in S
  <2>3. k \in 1 .. Len(p) /\ p[k] \in S
    BY <1>1, <2>2
  <2> QED BY <1>1, <2>3 DEF Embeds
<1>6. \A i, j \in DOMAIN t : i < j => e[i] < e[j]
  BY DEF Embeds
<1>7. Embeds(e, t, q, S)
  BY <1>3, <1>4, <1>5, <1>6 DEF Embeds
<1> QED BY <1>7 DEF q

\* An element that is kept comes last.
LEMMA EmbedsTake ==
  ASSUME NEW A, NEW p \in Seq(A), NEW t \in Seq(A), NEW x \in A, NEW S, x \in S,
         NEW e, Embeds(e, t, p, S)
  PROVE  \E d : Embeds(d, Append(t, x), Append(p, x), S)
<1> DEFINE q == Append(p, x)
           v == Append(t, x)
           d == [i \in 1 .. Len(t) + 1 |-> IF i = Len(t) + 1 THEN Len(p) + 1 ELSE e[i]]
<1>1. /\ Len(p) \in Nat /\ DOMAIN p = 1 .. Len(p) /\ DOMAIN q = 1 .. Len(p) + 1
      /\ q[Len(p) + 1] = x /\ \A i \in 1 .. Len(p) : q[i] = p[i]
  OBVIOUS
<1>2. /\ Len(t) \in Nat /\ DOMAIN t = 1 .. Len(t) /\ DOMAIN v = 1 .. Len(t) + 1
      /\ v[Len(t) + 1] = x /\ \A i \in 1 .. Len(t) : v[i] = t[i]
  OBVIOUS
<1>3. e \in [1 .. Len(t) -> 1 .. Len(p)]
  BY <1>1, <1>2 DEF Embeds
<1>4. /\ d[Len(t) + 1] = Len(p) + 1
      /\ \A i \in 1 .. Len(t) : d[i] = e[i] /\ d[i] \in 1 .. Len(p)
  <2>1. Len(t) + 1 \in 1 .. Len(t) + 1
    BY <1>2
  <2>2. \A i \in 1 .. Len(t) : i \in 1 .. Len(t) + 1 /\ i # Len(t) + 1
    BY <1>2
  <2> QED BY <1>3, <2>1, <2>2
<1>5. \A i \in 1 .. Len(t) + 1 : i \in 1 .. Len(t) \/ i = Len(t) + 1
  BY <1>2
<1>6. d = [i \in 1 .. Len(t) + 1 |-> d[i]]
  OBVIOUS
<1> HIDE DEF q, v, d
<1>7. d \in [DOMAIN v -> DOMAIN q]
  <2>1. \A i \in 1 .. Len(t) + 1 : d[i] \in 1 .. Len(p) + 1
    BY <1>1, <1>4, <1>5
  <2> QED BY <1>1, <1>2, <1>6, <2>1
<1>8. \A i \in DOMAIN v : v[i] = q[d[i]] /\ v[i] \in S
  <2>1. ASSUME NEW i \in 1 .. Len(t) PROVE v[i] = q[d[i]] /\ v[i] \in S
    <3>1. t[i] = p[e[i]] /\ t[i] \in S
      BY <1>2 DEF Embeds
    <3> QED BY <1>1, <1>2, <1>4, <3>1
  <2> QED BY <1>1, <1>2, <1>4, <1>5, <2>1
<1>9. \A i, j \in DOMAIN v : i < j => d[i] < d[j]
  <2>1. TAKE i, j \in DOMAIN v
  <2>2. HAVE i < j
  <2>3. i \in 1 .. Len(t)
    BY <1>2, <2>2
  <2>4. CASE j = Len(t) + 1
    BY <1>1, <1>4, <2>3, <2>4
  <2>5. CASE j \in 1 .. Len(t)
    <3>1. e[i] < e[j]
      BY <1>2, <2>2, <2>3, <2>5 DEF Embeds
    <3> QED BY <1>4, <2>3, <2>5, <3>1
  <2> QED BY <1>2, <1>5, <2>4, <2>5
<1>10. \A k \in DOMAIN q : q[k] \in S => \E i \in DOMAIN v : d[i] = k
  <2>1. TAKE k \in DOMAIN q
  <2>2. HAVE q[k] \in S
  <2>3. CASE k = Len(p) + 1
    <3>1. Len(t) + 1 \in DOMAIN v
      BY <1>2
    <3> QED BY <1>4, <2>3, <3>1
  <2>4. CASE k \in 1 .. Len(p)
    <3>1. p[k] \in S
      BY <1>1, <2>2, <2>4
    <3>2. PICK i \in DOMAIN t : e[i] = k
      BY <1>1, <2>4, <3>1 DEF Embeds
    <3>3. i \in DOMAIN v
      BY <1>2
    <3> QED BY <1>2, <1>4, <3>2, <3>3
  <2> QED BY <1>1, <2>3, <2>4
<1>11. Embeds(d, v, q, S)
  BY <1>7, <1>8, <1>9, <1>10 DEF Embeds
<1> QED BY <1>11 DEF q, v

\* What a filter leaves is the part of the sequence that lies in the set, in its order.
LEMMA OnlyEmbeds ==
  ASSUME NEW A, NEW S
  PROVE  \A s \in Seq(A) : Only(s, S) \in Seq(A) /\ \E e : Embeds(e, Only(s, S), s, S)
<1> DEFINE Good(s) == Only(s, S) \in Seq(A) /\ \E e : Embeds(e, Only(s, S), s, S)
           T == {s \in Seq(A) : Good(s)}
<1>1. << >> \in T
  <2>1. << >> \in Seq(A) /\ Only(<< >>, S) = << >>
    BY OnlyEmpty
  <2>2. Embeds(<< >>, << >>, << >>, S)
    BY EmbedsNone
  <2>3. Good(<< >>)
    BY <2>1, <2>2
  <2> QED BY <2>1, <2>3
<1>2. ASSUME NEW s \in Seq(A), NEW x \in A, Good(s) PROVE Good(Append(s, x))
  <2>1. Only(Append(s, x), S) = IF x \in S THEN Append(Only(s, S), x) ELSE Only(s, S)
    BY OnlyAppend
  <2>2. PICK e : Embeds(e, Only(s, S), s, S)
    BY <1>2
  <2>3. CASE x \notin S
    <3>1. Embeds(e, Only(s, S), Append(s, x), S)
      BY <1>2, <2>2, <2>3, EmbedsSkip
    <3> QED BY <1>2, <2>1, <2>3, <3>1
  <2>4. CASE x \in S
    <3>1. \E d : Embeds(d, Append(Only(s, S), x), Append(s, x), S)
      BY <1>2, <2>2, <2>4, EmbedsTake
    <3> QED BY <1>2, <2>1, <2>4, <3>1
  <2> QED BY <2>3, <2>4
<1>3. T = Seq(A)
  <2> HIDE DEF Good
  <2>1. T \in SUBSET Seq(A) /\ << >> \in T /\ \A s \in T : \A x \in A : Append(s, x) \in T
    BY <1>1, <1>2
  <2> HIDE DEF T
  <2> QED BY <2>1, SeqInduct
<1> QED BY <1>3

\* What it leaves is in the set and in the sequence; what is in both, it leaves.
LEMMA OnlyFacts ==
  ASSUME NEW A, NEW S, NEW s \in Seq(A)
  PROVE  /\ Only(s, S) \in Seq(A)
         /\ \A i \in 1 .. Len(Only(s, S)) :
              Only(s, S)[i] \in S /\ \E k \in 1 .. Len(s) : s[k] = Only(s, S)[i]
         /\ \A k \in 1 .. Len(s) :
              s[k] \in S => \E i \in 1 .. Len(Only(s, S)) : Only(s, S)[i] = s[k]
<1>1. PICK t \in Seq(A) : t = Only(s, S)
  BY OnlyEmbeds
<1>2. PICK e : Embeds(e, t, s, S)
  BY <1>1, OnlyEmbeds
<1>3. DOMAIN t = 1 .. Len(t) /\ DOMAIN s = 1 .. Len(s)
  OBVIOUS
<1>4. ASSUME NEW i \in 1 .. Len(t) PROVE t[i] \in S /\ \E k \in 1 .. Len(s) : s[k] = t[i]
  <2>1. e[i] \in 1 .. Len(s) /\ t[i] = s[e[i]] /\ t[i] \in S
    BY <1>2, <1>3 DEF Embeds
  <2> QED BY <2>1
<1>5. ASSUME NEW k \in 1 .. Len(s), s[k] \in S PROVE \E i \in 1 .. Len(t) : t[i] = s[k]
  <2>1. PICK i \in 1 .. Len(t) : e[i] = k
    BY <1>2, <1>3, <1>5 DEF Embeds
  <2>2. t[i] = s[e[i]]
    BY <1>2, <1>3 DEF Embeds
  <2> QED BY <2>1, <2>2
<1> QED BY <1>1, <1>4, <1>5

\* An entry that is in S is kept.
LEMMA OnlyKeepsIt ==
  ASSUME NEW A, NEW S, NEW s \in Seq(A), NEW k \in 1 .. Len(s), s[k] \in S
  PROVE  \E i \in 1 .. Len(Only(s, S)) : Only(s, S)[i] = s[k]
<1>1. \A h \in 1 .. Len(s) : s[h] \in S => \E i \in 1 .. Len(Only(s, S)) : Only(s, S)[i] = s[h]
  BY OnlyFacts
<1> QED BY <1>1

\* What the elements of a sequence have in pairs, those a filter leaves have too.
LEMMA OnlyDistinct ==
  ASSUME NEW A, NEW S, NEW s \in Seq(A), \A i, j \in 1 .. Len(s) : s[i] = s[j] => i = j
  PROVE  \A i, j \in 1 .. Len(Only(s, S)) : Only(s, S)[i] = Only(s, S)[j] => i = j
<1>1. PICK t \in Seq(A) : t = Only(s, S)
  BY OnlyEmbeds
<1>2. PICK e : Embeds(e, t, s, S)
  BY <1>1, OnlyEmbeds
<1>3. DOMAIN t = 1 .. Len(t) /\ DOMAIN s = 1 .. Len(s) /\ Len(t) \in Nat
  OBVIOUS
<1>4. ASSUME NEW i \in 1 .. Len(t), NEW j \in 1 .. Len(t), t[i] = t[j] PROVE i = j
  <2>1. e[i] \in 1 .. Len(s) /\ e[j] \in 1 .. Len(s) /\ s[e[i]] = s[e[j]]
    BY <1>2, <1>3, <1>4 DEF Embeds
  <2>2. e[i] = e[j]
    BY <2>1
  <2>3. ~(i < j) /\ ~(j < i)
    BY <1>2, <1>3, <2>1, <2>2 DEF Embeds
  <2> QED BY <1>3, <2>3
<1> QED BY <1>1, <1>4

\* A filter makes nothing longer.
LEMMA OnlyShorter ==
  ASSUME NEW A, NEW S
  PROVE  \A s \in Seq(A) : Len(Only(s, S)) <= Len(s)
<1> DEFINE T == {s \in Seq(A) : Len(Only(s, S)) <= Len(s)}
<1>1. << >> \in T
  BY OnlyEmpty
<1>2. ASSUME NEW s \in T, NEW x \in A PROVE Append(s, x) \in T
  <2>1. Only(Append(s, x), S) = IF x \in S THEN Append(Only(s, S), x) ELSE Only(s, S)
    BY OnlyAppend
  <2>2. Only(s, S) \in Seq(A) /\ s \in Seq(A) /\ Len(Only(s, S)) <= Len(s)
    BY OnlyFacts
  <2>3. Append(s, x) \in Seq(A) /\ Len(Append(s, x)) = Len(s) + 1
        /\ Len(Append(Only(s, S), x)) = Len(Only(s, S)) + 1
        /\ Len(s) \in Nat /\ Len(Only(s, S)) \in Nat
    BY <2>2
  <2> QED BY <2>1, <2>2, <2>3
<1>3. T = Seq(A)
  <2>1. T \in SUBSET Seq(A)
    OBVIOUS
  <2> HIDE DEF T
  <2> QED BY <1>1, <1>2, <2>1, SeqInduct
<1> QED BY <1>3
\* A filter that drops the first m elements and no other leaves the rest as it stands.
LEMMA OnlySuffix ==
  ASSUME NEW A, NEW S, NEW s \in Seq(A), NEW m \in 0 .. Len(s),
         \A i \in 1 .. m : s[i] \notin S,
         \A i \in m + 1 .. Len(s) : s[i] \in S
  PROVE  /\ Only(s, S) \in Seq(A) /\ Len(Only(s, S)) = Len(s) - m
         /\ \A i \in 1 .. Len(s) - m : Only(s, S)[i] = s[m + i]
<1> DEFINE Split(r, k) == (\A i \in 1 .. k : r[i] \notin S) /\ (\A i \in k + 1 .. Len(r) : r[i] \in S)
           Rest(r, k) == /\ Len(Only(r, S)) = Len(r) - k
                         /\ \A i \in 1 .. Len(r) - k : Only(r, S)[i] = r[k + i]
           T == {r \in Seq(A) : \A k \in 0 .. Len(r) : Split(r, k) => Rest(r, k)}
<1>1. << >> \in T
  <2>1. << >> \in Seq(A) /\ Len(<< >>) = 0 /\ Only(<< >>, S) = << >>
    BY OnlyEmpty
  <2>2. \A k \in 0 .. Len(<< >>) : Rest(<< >>, k)
    BY <2>1
  <2> QED BY <2>1, <2>2
<1>2. ASSUME NEW r \in T, NEW x \in A PROVE Append(r, x) \in T
  <2>1. r \in Seq(A) /\ Len(r) \in Nat /\ \A k \in 0 .. Len(r) : Split(r, k) => Rest(r, k)
    BY <1>2
  <2>2. PICK u \in Seq(A) : u = Append(r, x)
    <3>1. r \in Seq(A)
      BY <2>1
    <3>2. Append(r, x) \in Seq(A)
      BY <3>1
    <3> QED BY <3>2
  <2>3. /\ Len(u) = Len(r) + 1 /\ u[Len(r) + 1] = x
        /\ \A i \in 1 .. Len(r) : u[i] = r[i]
    BY <2>1, <2>2, AppendProperties
  <2>4. PICK o \in Seq(A) : o = Only(r, S)
    BY <2>1, OnlyFacts
  <2>5. Only(u, S) = IF x \in S THEN Append(o, x) ELSE o
    BY <2>1, <2>2, <2>4, OnlyAppend
  <2>6. ASSUME NEW k \in 0 .. Len(u), Split(u, k) PROVE Rest(u, k)
    <3>1. CASE k = Len(u)
      <4>1. Len(u) \in 1 .. k
        BY <2>1, <2>3, <3>1
      <4>2. x \notin S
        BY <2>3, <2>6, <4>1
      <4>3. Split(r, Len(r)) /\ Len(r) \in 0 .. Len(r)
        BY <2>1, <2>3, <2>6, <3>1
      <4>4. Rest(r, Len(r))
        BY <2>1, <4>3
      <4>5. Len(o) = 0 /\ Only(u, S) = o
        BY <2>1, <2>4, <2>5, <4>2, <4>4
      <4> QED BY <2>1, <2>3, <3>1, <4>5
    <3>2. CASE k \in 0 .. Len(r)
      <4>1. Len(u) \in k + 1 .. Len(u)
        BY <2>1, <2>3, <3>2
      <4>2. x \in S
        BY <2>3, <2>6, <4>1
      <4>3. Split(r, k)
        <5>0. Len(r) \in Nat /\ k \in Nat /\ k <= Len(r)
          BY <2>1, <3>2
        <5>1. ASSUME NEW i \in 1 .. k PROVE r[i] \notin S
          <6>1. i \in 1 .. Len(r)
            BY <5>0
          <6> QED BY <2>3, <2>6, <6>1
        <5>2. ASSUME NEW i \in k + 1 .. Len(r) PROVE r[i] \in S
          <6>1. i \in 1 .. Len(r) /\ i \in k + 1 .. Len(u)
            BY <2>3, <5>0
          <6> QED BY <2>3, <2>6, <6>1
        <5> QED BY <5>1, <5>2
      <4>4. Rest(r, k)
        BY <2>1, <3>2, <4>3
      <4> DEFINE v == Append(o, x)
      <4>5. Only(u, S) = v
        BY <2>5, <4>2
      <4>6. /\ Len(v) = Len(o) + 1 /\ v[Len(o) + 1] = x
            /\ \A i \in 1 .. Len(o) : v[i] = o[i]
        BY <2>4, AppendProperties
      <4> HIDE DEF v
      <4>7. /\ Len(o) = Len(r) - k
            /\ \A i \in 1 .. Len(r) - k : o[i] = r[k + i]
        BY <2>4, <4>4
      <4>8. Len(v) = Len(u) - k
        BY <2>1, <2>3, <3>2, <4>6, <4>7
      <4>9. ASSUME NEW i \in 1 .. Len(u) - k PROVE v[i] = u[k + i]
        <5>1. CASE i = Len(u) - k
          BY <2>1, <2>3, <3>2, <4>6, <4>7, <5>1
        <5>2. CASE i # Len(u) - k
          <6>0. Len(r) \in Nat /\ k \in Nat /\ k <= Len(r)
            BY <2>1, <3>2
          <6>1. i \in 1 .. Len(r) - k /\ k + i \in 1 .. Len(r)
            BY <2>3, <5>2, <6>0
          <6> QED BY <2>3, <4>6, <4>7, <6>1
        <5> QED BY <5>1, <5>2
      <4> QED BY <4>5, <4>8, <4>9
    <3> QED BY <2>1, <2>3, <3>1, <3>2
  <2>7. u \in T
    BY <2>6
  <2> QED BY <2>2, <2>7
<1>3. T = Seq(A)
  <2>1. T \in SUBSET Seq(A)
    OBVIOUS
  <2> HIDE DEF T
  <2> QED BY <1>1, <1>2, <2>1, SeqInduct
<1>4. Split(s, m) /\ s \in T
  BY <1>3
<1>5. Rest(s, m)
  BY <1>4
<1> QED BY <1>5, OnlyFacts

\* A filter leaves no more elements than the places it may keep.
LEMMA OnlyCount ==
  ASSUME NEW A, NEW S, NEW s \in Seq(A), NEW B, IsFiniteSet(B),
         \A k \in 1 .. Len(s) : s[k] \in S => k \in B
  PROVE  Len(Only(s, S)) <= Cardinality(B)
<1>1. PICK t \in Seq(A) : t = Only(s, S)
  BY OnlyEmbeds
<1>2. PICK e : Embeds(e, t, s, S)
  BY <1>1, OnlyEmbeds
<1>3. DOMAIN t = 1 .. Len(t) /\ DOMAIN s = 1 .. Len(s) /\ Len(t) \in Nat
  OBVIOUS
<1>4. \A i \in 1 .. Len(t) : e[i] \in B /\ e[i] \in Nat
  <2>1. TAKE i \in 1 .. Len(t)
  <2>2. e[i] \in 1 .. Len(s) /\ s[e[i]] \in S
    BY <1>2, <1>3 DEF Embeds
  <2> QED BY <2>2
<1>5. \A i, j \in 1 .. Len(t) : i < j => e[i] < e[j]
  BY <1>2, <1>3 DEF Embeds
<1>6. \A i, j \in 1 .. Len(t) : e[i] = e[j] => i = j
  <2>1. TAKE i, j \in 1 .. Len(t)
  <2>2. i \in Nat /\ j \in Nat /\ e[i] \in Nat /\ e[j] \in Nat
    BY <1>3, <1>4
  <2>3. (i < j => e[i] < e[j]) /\ (j < i => e[j] < e[i])
    BY <1>5
  <2> QED BY <2>2, <2>3
<1>7. e \in [1 .. Len(t) -> B]
  BY <1>2, <1>3, <1>4 DEF Embeds
<1>8. e \in Injection(1 .. Len(t), B)
  BY <1>6, <1>7 DEF Injection, IsInjective
<1>9. Cardinality(1 .. Len(t)) <= Cardinality(B)
  BY <1>8, FS_Injection
<1>10. Cardinality(1 .. Len(t)) = Len(t)
  <2>1. PICK n \in Nat : n = Len(t)
    BY <1>3
  <2>2. Cardinality(1 .. n) = IF 1 > n THEN 0 ELSE n - 1 + 1
    BY FS_Interval
  <2>3. Cardinality(1 .. n) = n
    BY <2>2
  <2> QED BY <2>1, <2>3
<1> QED BY <1>1, <1>9, <1>10

\* What a filter leaves stands no farther from the end than it stood.
LEMMA OnlyRank ==
  ASSUME NEW A, NEW S
  PROVE  \A s \in Seq(A) : \A i \in 1 .. Len(Only(s, S)) :
           \E k \in 1 .. Len(s) : s[k] = Only(s, S)[i] /\ Len(Only(s, S)) - i <= Len(s) - k
<1> DEFINE Good(s) == \A i \in 1 .. Len(Only(s, S)) :
             \E k \in 1 .. Len(s) : s[k] = Only(s, S)[i] /\ Len(Only(s, S)) - i <= Len(s) - k
           T == {s \in Seq(A) : Good(s)}
<1>1. << >> \in T
  BY OnlyEmpty
<1>2. ASSUME NEW s \in Seq(A), NEW x \in A, Good(s) PROVE Good(Append(s, x))
  <2>1. PICK o \in Seq(A) : o = Only(s, S)
    BY OnlyFacts
  <2>2. Only(Append(s, x), S) = IF x \in S THEN Append(o, x) ELSE o
    BY <2>1, OnlyAppend
  <2>3. PICK u \in Seq(A) : u = Append(s, x)
    BY AppendProperties
  <2>4. /\ Len(u) = Len(s) + 1 /\ u[Len(s) + 1] = x /\ Len(s) \in Nat /\ Len(o) \in Nat
        /\ \A i \in 1 .. Len(s) : u[i] = s[i] /\ i \in 1 .. Len(u)
    BY <2>3, AppendProperties
  <2>5. ASSUME NEW i \in 1 .. Len(o)
        PROVE  \E k \in 1 .. Len(s) : s[k] = o[i] /\ Len(o) - i <= Len(s) - k
    BY <1>2, <2>1
  <2>6. CASE x \notin S
    <3>1. ASSUME NEW i \in 1 .. Len(o)
          PROVE  \E k \in 1 .. Len(u) : u[k] = o[i] /\ Len(o) - i <= Len(u) - k
      <4>1. PICK k \in 1 .. Len(s) : s[k] = o[i] /\ Len(o) - i <= Len(s) - k
        BY <2>5
      <4>2. k \in 1 .. Len(u) /\ u[k] = o[i] /\ Len(o) - i <= Len(u) - k
        BY <2>4, <4>1
      <4> QED BY <4>2
    <3> QED BY <2>2, <2>3, <2>6, <3>1
  <2>7. CASE x \in S
    <3>1. PICK v \in Seq(A) : v = Append(o, x)
      BY AppendProperties
    <3>2. Len(v) = Len(o) + 1 /\ v[Len(o) + 1] = x /\ \A i \in 1 .. Len(o) : v[i] = o[i]
      BY <3>1, AppendProperties
    <3>3. ASSUME NEW i \in 1 .. Len(v)
          PROVE  \E k \in 1 .. Len(u) : u[k] = v[i] /\ Len(v) - i <= Len(u) - k
      <4>1. CASE i = Len(v)
        <5>1. Len(u) \in 1 .. Len(u) /\ u[Len(u)] = v[i] /\ Len(v) - i <= Len(u) - Len(u)
          BY <2>4, <3>2, <4>1
        <5> QED BY <5>1
      <4>2. CASE i # Len(v)
        <5>1. i \in 1 .. Len(o)
          BY <2>4, <3>2, <4>2
        <5>2. PICK k \in 1 .. Len(s) : s[k] = o[i] /\ Len(o) - i <= Len(s) - k
          BY <2>5, <5>1
        <5>3. k \in 1 .. Len(u) /\ u[k] = v[i] /\ Len(v) - i <= Len(u) - k
          BY <2>4, <3>2, <5>1, <5>2
        <5> QED BY <5>3
      <4> QED BY <4>1, <4>2
    <3> QED BY <2>2, <2>3, <2>7, <3>1, <3>3
  <2> QED BY <2>6, <2>7
<1>3. T = Seq(A)
  <2> HIDE DEF Good
  <2>1. T \in SUBSET Seq(A) /\ \A s \in T : \A x \in A : Append(s, x) \in T
    <3>1. ASSUME NEW s \in T, NEW x \in A PROVE Append(s, x) \in T
      <4>1. s \in Seq(A) /\ Good(s)
        OBVIOUS
      <4>2. Append(s, x) \in Seq(A)
        BY <4>1, AppendProperties
      <4> QED BY <1>2, <4>1, <4>2
    <3> QED BY <3>1
  <2> HIDE DEF T
  <2> QED BY <1>1, <2>1, SeqInduct
<1> QED BY <1>3

\* Two filters may change places.
LEMMA OnlyCommutes ==
  ASSUME NEW A, NEW S, NEW T
  PROVE  \A s \in Seq(A) : Only(Only(s, S), T) = Only(Only(s, T), S)
<1> DEFINE Same == {s \in Seq(A) : Only(Only(s, S), T) = Only(Only(s, T), S)}
<1>1. << >> \in Same
  BY OnlyEmpty
<1>2. ASSUME NEW s \in Same, NEW e \in A PROVE Append(s, e) \in Same
  <2>1. PICK a \in Seq(A) : a = Only(s, S)
    BY OnlyFacts
  <2>2. PICK b \in Seq(A) : b = Only(s, T)
    BY OnlyFacts
  <2>3. s \in Seq(A) /\ Append(s, e) \in Seq(A) /\ Only(a, T) = Only(b, S)
    BY <2>1, <2>2
  <2>4. Only(Append(s, e), S) = IF e \in S THEN Append(a, e) ELSE a
    BY <2>1, <2>3, OnlyAppend
  <2>5. Only(Append(s, e), T) = IF e \in T THEN Append(b, e) ELSE b
    BY <2>2, <2>3, OnlyAppend
  <2>6. Only(Append(a, e), T) = IF e \in T THEN Append(Only(a, T), e) ELSE Only(a, T)
    BY OnlyAppend
  <2>7. Only(Append(b, e), S) = IF e \in S THEN Append(Only(b, S), e) ELSE Only(b, S)
    BY OnlyAppend
  <2> QED BY <2>3, <2>4, <2>5, <2>6, <2>7
<1>3. Same = Seq(A)
  <2>1. Same \in SUBSET Seq(A)
    OBVIOUS
  <2> HIDE DEF Same
  <2> QED BY <1>1, <1>2, <2>1, SeqInduct
<1> QED BY <1>3

\* Without its first element a sequence has no more of any elements.
LEMMA OnlyTail ==
  ASSUME NEW A, NEW S
  PROVE  \A s \in Seq(A) : s # << >> => Len(Only(Tail(s), S)) <= Len(Only(s, S))
<1> DEFINE Fewer == {s \in Seq(A) : s # << >> => Len(Only(Tail(s), S)) <= Len(Only(s, S))}
<1>1. << >> \in Fewer
  OBVIOUS
<1>2. ASSUME NEW s \in Fewer, NEW e \in A PROVE Append(s, e) \in Fewer
  <2>1. s \in Seq(A) /\ Append(s, e) \in Seq(A)
    OBVIOUS
  <2>2. Only(Append(s, e), S) = IF e \in S THEN Append(Only(s, S), e) ELSE Only(s, S)
    BY <2>1, OnlyAppend
  <2>3. PICK a \in Seq(A) : a = Only(s, S)
    BY <2>1, OnlyFacts
  <2>4. Len(Append(a, e)) = Len(a) + 1 /\ Len(a) \in Nat
    OBVIOUS
  <2>5. CASE s = << >>
    <3>1. Tail(Append(s, e)) = << >>
      BY <2>1, <2>5
    <3>2. Len(Only(Tail(Append(s, e)), S)) = 0
      <4>1. Only(Tail(Append(s, e)), S) = << >>
        BY <3>1, OnlyEmpty
      <4> QED BY <4>1
    <3>3. Len(Only(Append(s, e), S)) \in Nat
      BY <2>2, <2>3, <2>4
    <3> QED BY <2>1, <3>2, <3>3
  <2>6. CASE s # << >>
    <3>0. Tail(s) \in Seq(A)
      BY <2>1, <2>6
    <3>1. PICK r \in Seq(A) : r = Tail(s)
      BY <3>0
    <3>2. Tail(Append(s, e)) = Append(r, e)
      BY <2>1, <2>6, <3>1
    <3>3. PICK b \in Seq(A) : b = Only(r, S)
      BY OnlyFacts
    <3>4. Only(Append(r, e), S) = IF e \in S THEN Append(b, e) ELSE b
      BY <3>3, OnlyAppend
    <3>5. Len(b) <= Len(a) /\ Len(b) \in Nat /\ Len(Append(b, e)) = Len(b) + 1
      BY <2>3, <2>6, <3>1, <3>3
    <3>6. Len(Only(Append(r, e), S)) <= Len(Only(Append(s, e), S))
      BY <2>2, <2>3, <2>4, <3>4, <3>5
    <3> QED BY <2>1, <3>2, <3>6
  <2> QED BY <2>5, <2>6
<1>3. Fewer = Seq(A)
  <2>1. Fewer \in SUBSET Seq(A)
    OBVIOUS
  <2> HIDE DEF Fewer
  <2> QED BY <1>1, <1>2, <2>1, SeqInduct
<1> QED BY <1>3

\* Of what a filter T leaves, another drops the first if it is in none of its sets.
LEMMA OnlyFewer ==
  ASSUME NEW A, NEW S, NEW T, NEW s \in Seq(A)
  PROVE  /\ Only(Only(s, S), T) \in Seq(A)
         /\ Len(Only(Only(s, S), T)) <= Len(Only(s, T))
         /\ Only(s, T) # << >> /\ Head(Only(s, T)) \notin S =>
              Len(Only(Only(s, S), T)) <= Len(Only(s, T)) - 1
<1>1. PICK t \in Seq(A) : t = Only(s, T)
  BY OnlyFacts
<1>2. Only(Only(s, S), T) = Only(t, S) /\ Only(t, S) \in Seq(A) /\ Len(Only(t, S)) <= Len(t)
  BY <1>1, OnlyCommutes, OnlyFacts, OnlyShorter
<1>3. ASSUME t # << >>, Head(t) \notin S PROVE Len(Only(t, S)) <= Len(t) - 1
  <2>1. PICK n \in Nat : n = Len(t) /\ n >= 1 /\ Head(t) = t[1]
    BY <1>3
  <2>2. IsFiniteSet(2 .. n) /\ Cardinality(2 .. n) = n - 1
    <3>1. 2 \in Int /\ n \in Int
      BY <2>1
    <3>2. IsFiniteSet(2 .. n) /\ Cardinality(2 .. n) = IF 2 > n THEN 0 ELSE n - 2 + 1
      BY <3>1, FS_Interval
    <3>3. (IF 2 > n THEN 0 ELSE n - 2 + 1) = n - 1
      BY <2>1
    <3> QED BY <3>2, <3>3
  <2>3. \A k \in 1 .. n : t[k] \in S => k \in 2 .. n
    BY <1>3, <2>1
  <2>4. Len(Only(t, S)) <= Cardinality(2 .. n)
    BY <2>1, <2>2, <2>3, OnlyCount
  <2> QED BY <2>1, <2>2, <2>4
<1> QED BY <1>1, <1>2, <1>3

\* A sequence over a set is one over a larger set.
LEMMA SeqGrows ==
  ASSUME NEW S, NEW T, S \subseteq T, NEW s \in Seq(S)
  PROVE  s \in Seq(T)
OBVIOUS
==============================================================================
