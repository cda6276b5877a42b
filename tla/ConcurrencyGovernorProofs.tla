--------------------- MODULE ConcurrencyGovernorProofs ---------------------
(***************************************************************************)
(* Proofs about ConcurrencyGovernor for any finite set of requests and any *)
(* limits.  The argument is carried by sets of requests instead of         *)
(* counters: Match says that counters g, uc, cc count the set H, and under *)
(* it canAcquire is Room, which shrinks as the set grows.                  *)
(***************************************************************************)
EXTENDS ConcurrencyGovernor, FiniteSetTheorems, WellFoundedInduction, TLAPS

Match(g, uc, cc, H) ==
  /\ g = Cardinality(H)
  /\ uc \in [Users -> Nat]
  /\ cc \in [Channels -> Nat]
  /\ \A u \in Users : uc[u] = Cardinality(ByUser(H, u))
  /\ \A c \in Channels : cc[c] = Cardinality(ByChannel(H, c))

\* Request r fits beside the requests of H.
Room(H, r) ==
  /\ Cardinality(H) < GlobalLimit
  /\ Cardinality(ByUser(H, UserOf[r])) < PerUserLimit
  /\ ChannelOf[r] # NoChannel =>
       Cardinality(ByChannel(H, ChannelOf[r])) < PerChannelLimit

WithinLimits(H) ==
  /\ Cardinality(H) <= GlobalLimit
  /\ \A u \in Users : Cardinality(ByUser(H, u)) <= PerUserLimit
  /\ \A c \in Channels : Cardinality(ByChannel(H, c)) <= PerChannelLimit

----------------------------------------------------------------------------
(* Sets of requests and their sizes.                                        *)

\* Every set of requests, and its share of a user or a channel, is finite.
LEMMA FiniteShares ==
  ASSUME NEW H \in SUBSET SlotRequests
  PROVE  /\ IsFiniteSet(H) /\ Cardinality(H) \in Nat
         /\ \A u : /\ ByUser(H, u) \subseteq H
                   /\ IsFiniteSet(ByUser(H, u))
                   /\ Cardinality(ByUser(H, u)) \in Nat
         /\ \A c : /\ ByChannel(H, c) \subseteq H
                   /\ IsFiniteSet(ByChannel(H, c))
                   /\ Cardinality(ByChannel(H, c)) \in Nat
<1>1. IsFiniteSet(H)
  BY RequestsAssumption, FS_Subset
<1>2. \A S \in SUBSET H : IsFiniteSet(S) /\ Cardinality(S) \in Nat
  BY <1>1, FS_Subset, FS_CardinalityType
<1>3. \A u : ByUser(H, u) \in SUBSET H
  BY DEF ByUser
<1>4. \A c : ByChannel(H, c) \in SUBSET H
  BY DEF ByChannel
<1> QED BY <1>1, <1>2, <1>3, <1>4

\* The size of a union of two disjoint sets of requests, and of its shares.
LEMMA DisjointUnion ==
  ASSUME NEW H \in SUBSET SlotRequests, NEW S \in SUBSET SlotRequests, H \cap S = {}
  PROVE  /\ Cardinality(H \cup S) = Cardinality(H) + Cardinality(S)
         /\ \A u : Cardinality(ByUser(H \cup S, u))
                     = Cardinality(ByUser(H, u)) + Cardinality(ByUser(S, u))
         /\ \A c : Cardinality(ByChannel(H \cup S, c))
                     = Cardinality(ByChannel(H, c)) + Cardinality(ByChannel(S, c))
<1>1. ASSUME NEW A \in SUBSET H, NEW B \in SUBSET S
      PROVE  Cardinality(A \cup B) = Cardinality(A) + Cardinality(B)
  <2>1. IsFiniteSet(A) /\ IsFiniteSet(B) /\ Cardinality(A) \in Nat /\ Cardinality(B) \in Nat
    BY FiniteShares
  <2>2. A \cap B = {}
    OBVIOUS
  <2>3. Cardinality(A \cap B) = 0
    BY <2>2, FS_EmptySet
  <2>4. Cardinality(A \cup B) = Cardinality(A) + Cardinality(B) - Cardinality(A \cap B)
    BY <2>1, FS_Union
  <2> QED BY <2>1, <2>3, <2>4
<1>2. \A u : /\ ByUser(H \cup S, u) = ByUser(H, u) \cup ByUser(S, u)
             /\ ByUser(H, u) \in SUBSET H /\ ByUser(S, u) \in SUBSET S
  BY DEF ByUser
<1>3. \A c : /\ ByChannel(H \cup S, c) = ByChannel(H, c) \cup ByChannel(S, c)
             /\ ByChannel(H, c) \in SUBSET H /\ ByChannel(S, c) \in SUBSET S
  BY DEF ByChannel
<1> QED BY <1>1, <1>2, <1>3

\* The smaller set leaves at least the room of the larger one.
LEMMA RoomShrinks ==
  ASSUME NEW H \in SUBSET SlotRequests, NEW K \in SUBSET H, NEW r, Room(H, r)
  PROVE  Room(K, r)
<1>1. \A A, B : A \in SUBSET B /\ B \in SUBSET H =>
        /\ Cardinality(A) <= Cardinality(B)
        /\ Cardinality(A) \in Nat /\ Cardinality(B) \in Nat
  <2> SUFFICES ASSUME NEW B \in SUBSET H, NEW A \in SUBSET B
               PROVE  /\ Cardinality(A) <= Cardinality(B)
                      /\ Cardinality(A) \in Nat /\ Cardinality(B) \in Nat
    OBVIOUS
  <2>1. IsFiniteSet(B) /\ IsFiniteSet(A)
    BY FiniteShares
  <2> QED BY <2>1, FS_Subset, FS_CardinalityType
<1>2. \A u : ByUser(K, u) \in SUBSET ByUser(H, u) /\ ByUser(H, u) \in SUBSET H
  BY DEF ByUser
<1>3. \A c : ByChannel(K, c) \in SUBSET ByChannel(H, c) /\ ByChannel(H, c) \in SUBSET H
  BY DEF ByChannel
<1>4. GlobalLimit \in Nat /\ PerUserLimit \in Nat /\ PerChannelLimit \in Nat
  BY LimitsAssumption
<1>5. Cardinality(K) < GlobalLimit
  BY <1>1, <1>4 DEF Room
<1>6. Cardinality(ByUser(K, UserOf[r])) < PerUserLimit
  BY <1>1, <1>2, <1>4 DEF Room
<1>7. ASSUME ChannelOf[r] # NoChannel
      PROVE  Cardinality(ByChannel(K, ChannelOf[r])) < PerChannelLimit
  BY <1>1, <1>3, <1>4, <1>7 DEF Room
<1> QED BY <1>5, <1>6, <1>7 DEF Room

\* SlotRequests of the same user and channel find the same room.
LEMMA RoomOfKey ==
  ASSUME NEW H, NEW r, NEW s, SameKey(r, s), Room(H, r)
  PROVE  Room(H, s)
BY DEF SameKey, Room

\* A non-empty finite set has an element that arrived last.
LEMMA LastOf ==
  ASSUME NEW G, IsFiniteSet(G), G # {}, NEW f, \A r \in G : f[r] \in Int
  PROVE  \E r \in G : \A s \in G : f[s] <= f[r]
<1> DEFINE Later(r) == {s \in G : f[s] > f[r]}
           Fam == {Later(r) : r \in G}
           R == StrictSubsetOrdering(G)
<1>1. IsWellFoundedOn(R, FiniteSubsetsOf(G))
  BY FS_StrictSubsetOrderingWellFounded
<1>2. Fam \subseteq FiniteSubsetsOf(G)
  BY FS_Subset DEF FiniteSubsetsOf
<1>3. Fam # {}
  OBVIOUS
<1>4. \E x \in Fam : \A y \in Fam : ~ (<<y, x>> \in R)
  <2> HIDE DEF R, Fam
  <2> QED BY <1>1, <1>2, <1>3, WFMin
<1>5. PICK r \in G : \A y \in Fam : ~ (<<y, Later(r)>> \in R)
  BY <1>4
<1>6. ASSUME NEW s \in G, f[s] > f[r] PROVE FALSE
  <2>1. Later(s) \subseteq Later(r)
    BY <1>6
  <2>2. s \in Later(r) /\ s \notin Later(s)
    BY <1>6
  <2>3. <<Later(s), Later(r)>> \in R
    BY <2>1, <2>2 DEF StrictSubsetOrdering
  <2> QED BY <2>3, <1>5
<1> QED BY <1>6

----------------------------------------------------------------------------
(* canAcquire, acquire and release in terms of sets.                        *)

\* canAcquire answers whether there is room beside the requests counted.
LEMMA CanAcquireIsRoom ==
  ASSUME NEW H \in SUBSET SlotRequests, NEW S \in SUBSET SlotRequests, H \cap S = {},
         NEW g, NEW uc, NEW cc, Match(g, uc, cc, H), NEW r \in SlotRequests
  PROVE  CanAcquire(g, uc, cc, S, r) <=> Room(H \cup S, r)
<1>1. UserOf[r] \in Users /\ (ChannelOf[r] # NoChannel => ChannelOf[r] \in Channels)
  BY RequestsAssumption
<1>2. /\ Cardinality(H \cup S) = Cardinality(H) + Cardinality(S)
      /\ \A u : Cardinality(ByUser(H \cup S, u))
                  = Cardinality(ByUser(H, u)) + Cardinality(ByUser(S, u))
      /\ \A c : Cardinality(ByChannel(H \cup S, c))
                  = Cardinality(ByChannel(H, c)) + Cardinality(ByChannel(S, c))
  BY DisjointUnion, ZenonT(90)
<1>3. g + Cardinality(S) = Cardinality(H \cup S)
  BY <1>2 DEF Match
<1>4. uc[UserOf[r]] + Cardinality(ByUser(S, UserOf[r]))
        = Cardinality(ByUser(H \cup S, UserOf[r]))
  BY <1>1, <1>2 DEF Match
<1>5. ChannelOf[r] # NoChannel =>
        cc[ChannelOf[r]] + Cardinality(ByChannel(S, ChannelOf[r]))
          = Cardinality(ByChannel(H \cup S, ChannelOf[r]))
  BY <1>1, <1>2 DEF Match
<1> QED BY <1>3, <1>4, <1>5 DEF CanAcquire, Room

\* acquire keeps the counters in agreement with the holders.
LEMMA AcquireMatches ==
  ASSUME NEW H \in SUBSET SlotRequests, NEW S \in SUBSET SlotRequests, H \cap S = {},
         NEW g, NEW uc, NEW cc, Match(g, uc, cc, H), Acquire(g, uc, cc, S)
  PROVE  Match(globalCount', userCounts', channelCounts', H \cup S)
<1>1. globalCount' = Cardinality(H \cup S)
  BY DisjointUnion DEF Match, Acquire
<1>2. /\ \A u \in Users : Cardinality(ByUser(S, u)) \in Nat
      /\ \A c \in Channels : Cardinality(ByChannel(S, c)) \in Nat
  BY FiniteShares
<1>3. userCounts' \in [Users -> Nat] /\ channelCounts' \in [Channels -> Nat]
  BY <1>2 DEF Match, Acquire
<1>4. ASSUME NEW u \in Users PROVE userCounts'[u] = Cardinality(ByUser(H \cup S, u))
  <2>1. userCounts'[u] = Cardinality(ByUser(H, u)) + Cardinality(ByUser(S, u))
    BY DEF Match, Acquire
  <2>2. Cardinality(ByUser(H \cup S, u)) = Cardinality(ByUser(H, u)) + Cardinality(ByUser(S, u))
    BY DisjointUnion, ZenonT(90)
  <2> QED BY <2>1, <2>2
<1>5. ASSUME NEW d \in Channels PROVE channelCounts'[d] = Cardinality(ByChannel(H \cup S, d))
  <2>1. channelCounts'[d] = Cardinality(ByChannel(H, d)) + Cardinality(ByChannel(S, d))
    BY DEF Match, Acquire
  <2>2. \A c : Cardinality(ByChannel(H \cup S, c))
                = Cardinality(ByChannel(H, c)) + Cardinality(ByChannel(S, c))
    BY DisjointUnion, ZenonT(90)
  <2> QED BY <2>1, <2>2
<1> QED BY <1>1, <1>3, <1>4, <1>5 DEF Match

\* The decrements of release keep them in agreement as well; none of them
\* runs into the lower bound 0 of the code.
LEMMA ReleaseMatches ==
  ASSUME NEW H \in SUBSET SlotRequests, NEW r \in H,
         NEW g, NEW uc, NEW cc, Match(g, uc, cc, H)
  PROVE  Match(Decrement(g), [uc EXCEPT ![UserOf[r]] = Decrement(@)],
               IF ChannelOf[r] = NoChannel THEN cc
               ELSE [cc EXCEPT ![ChannelOf[r]] = Decrement(@)], H \ {r})
<1> DEFINE K == H \ {r}
<1>0. r \in SlotRequests /\ K \in SUBSET SlotRequests /\ {r} \in SUBSET SlotRequests
      /\ K \cap {r} = {} /\ K \cup {r} = H
  OBVIOUS
<1> HIDE DEF K
<1>1. /\ Cardinality(H) = Cardinality(K) + Cardinality({r})
      /\ \A u : Cardinality(ByUser(H, u))
                  = Cardinality(ByUser(K, u)) + Cardinality(ByUser({r}, u))
      /\ \A c : Cardinality(ByChannel(H, c))
                  = Cardinality(ByChannel(K, c)) + Cardinality(ByChannel({r}, c))
  <2>1. /\ Cardinality(K \cup {r}) = Cardinality(K) + Cardinality({r})
        /\ \A u : Cardinality(ByUser(K \cup {r}, u))
                    = Cardinality(ByUser(K, u)) + Cardinality(ByUser({r}, u))
        /\ \A c : Cardinality(ByChannel(K \cup {r}, c))
                    = Cardinality(ByChannel(K, c)) + Cardinality(ByChannel({r}, c))
    BY <1>0, DisjointUnion, Zenon
  <2> QED BY <2>1, <1>0
<1>2. \A u : ByUser({r}, u) = IF u = UserOf[r] THEN {r} ELSE {}
  BY DEF ByUser
<1>3. \A c : ByChannel({r}, c) = IF c = ChannelOf[r] THEN {r} ELSE {}
  BY DEF ByChannel
<1>4. Cardinality({r}) = 1 /\ Cardinality({}) = 0
  BY FS_Singleton, FS_EmptySet
<1>5. /\ Cardinality(K) \in Nat
      /\ \A u : Cardinality(ByUser(K, u)) \in Nat
      /\ \A c : Cardinality(ByChannel(K, c)) \in Nat
  BY <1>0, FiniteShares
<1>6. Decrement(g) = Cardinality(K)
  BY <1>1, <1>4, <1>5 DEF Match, Decrement
<1>7. /\ [uc EXCEPT ![UserOf[r]] = Decrement(@)] \in [Users -> Nat]
      /\ \A u \in Users :
           [uc EXCEPT ![UserOf[r]] = Decrement(@)][u] = Cardinality(ByUser(K, u))
  <2>1. UserOf[r] \in Users
    BY <1>0, RequestsAssumption
  <2>2. \A u \in Users : uc[u] = Cardinality(ByUser(K, u)) + (IF u = UserOf[r] THEN 1 ELSE 0)
    <3> TAKE u \in Users
    <3>1. uc[u] = Cardinality(ByUser(K, u)) + Cardinality(ByUser({r}, u))
      BY <1>1 DEF Match
    <3>2. Cardinality(ByUser({r}, u)) = IF u = UserOf[r] THEN 1 ELSE 0
      BY <1>2, <1>4
    <3> QED BY <3>1, <3>2
  <2>3. Decrement(uc[UserOf[r]]) = Cardinality(ByUser(K, UserOf[r]))
    BY <2>1, <2>2, <1>5 DEF Decrement
  <2>4. \A u \in Users : u # UserOf[r] => uc[u] = Cardinality(ByUser(K, u))
    BY <2>2, <1>5
  <2> QED BY <2>1, <2>3, <2>4, <1>5 DEF Match
<1>8. LET dd == IF ChannelOf[r] = NoChannel THEN cc
                ELSE [cc EXCEPT ![ChannelOf[r]] = Decrement(@)]
      IN  /\ dd \in [Channels -> Nat]
          /\ \A c \in Channels : dd[c] = Cardinality(ByChannel(K, c))
  <2>1. \A c \in Channels : cc[c] = Cardinality(ByChannel(K, c))
                                      + (IF c = ChannelOf[r] THEN 1 ELSE 0)
    <3> TAKE c \in Channels
    <3>1. cc[c] = Cardinality(ByChannel(K, c)) + Cardinality(ByChannel({r}, c))
      BY <1>1 DEF Match
    <3>2. Cardinality(ByChannel({r}, c)) = IF c = ChannelOf[r] THEN 1 ELSE 0
      BY <1>3, <1>4
    <3> QED BY <3>1, <3>2
  <2>2. \A c \in Channels : c # ChannelOf[r] => cc[c] = Cardinality(ByChannel(K, c))
    BY <2>1, <1>5
  <2>3. CASE ChannelOf[r] = NoChannel
    BY <2>2, <2>3, RequestsAssumption DEF Match
  <2>4. CASE ChannelOf[r] # NoChannel
    <3>1. ChannelOf[r] \in Channels
      BY <1>0, <2>4, RequestsAssumption
    <3>2. Decrement(cc[ChannelOf[r]]) = Cardinality(ByChannel(K, ChannelOf[r]))
      BY <3>1, <2>1, <1>5 DEF Decrement
    <3> QED BY <2>4, <3>1, <3>2, <2>2, <1>5 DEF Match
  <2> QED BY <2>3, <2>4
<1> QED BY <1>6, <1>7, <1>8 DEF Match, K

----------------------------------------------------------------------------
(* What a sweep of the queue does, starting with the requests of H holding. *)

\* The sweep seen with sets: an entry is granted iff it is live and finds
\* room beside H and the entries granted in front of it.
SweepOf(G, H) ==
  \A r \in queue : r \in G <=> ~ Done(r) /\ Room(H \cup (G \cap Ahead(r)), r)

QueueInv ==
  /\ \A r \in SlotRequests : caller[r] = "waiting" => r \in queue
  /\ \A r \in queue : caller[r] \in {"waiting", "timedOut"} /\ arrival[r] < pushes
  /\ \A r, s \in queue : arrival[r] = arrival[s] => r = s

\* The entries that _drainQueue admits by its counters are those for whom there is
\* room beside the holders and the ones admitted ahead of them.
LEMMA SweepMeaning ==
  ASSUME GovernorTypeOK, NEW H \in SUBSET SlotRequests, NEW G \in SUBSET queue, H \cap queue = {},
         NEW g, NEW uc, NEW cc, Match(g, uc, cc, H), IsSweep(G, g, uc, cc)
  PROVE  SweepOf(G, H)
<1> SUFFICES ASSUME NEW r \in queue
             PROVE  r \in G <=> ~ Done(r) /\ Room(H \cup (G \cap Ahead(r)), r)
  BY DEF SweepOf
<1>1. G \cap Ahead(r) \in SUBSET SlotRequests /\ H \cap (G \cap Ahead(r)) = {} /\ r \in SlotRequests
  BY DEF GovernorTypeOK
<1>2. CanAcquire(g, uc, cc, G \cap Ahead(r), r) <=> Room(H \cup (G \cap Ahead(r)), r)
  BY <1>1, CanAcquireIsRoom
<1> QED BY <1>2 DEF IsSweep

\* A set of requests to which no request was added without room for it stays
\* within a limit: the last one to arrive found room for itself.
LEMMA SweepWithinLimits ==
  ASSUME GovernorTypeOK, QueueInv, NEW H \in SUBSET SlotRequests, NEW G \in SUBSET queue,
         H \cap queue = {}, SweepOf(G, H), WithinLimits(H)
  PROVE  WithinLimits(H \cup G)
<1>0. /\ G \in SUBSET SlotRequests /\ H \cap G = {}
      /\ \A r \in G : arrival[r] \in Int
      /\ GlobalLimit \in Nat /\ PerUserLimit \in Nat /\ PerChannelLimit \in Nat
  BY LimitsAssumption DEF GovernorTypeOK
\* The share A of G, with its last element r: the rest was there before r.
<1>1. ASSUME NEW A \in SUBSET G, A # {}
      PROVE  \E r \in A : /\ Room(H \cup (G \cap Ahead(r)), r)
                          /\ A \ {r} \subseteq G \cap Ahead(r)
  <2>1. IsFiniteSet(A)
    BY <1>0, FiniteShares
  <2>2. PICK r \in A : \A s \in A : arrival[s] <= arrival[r]
    <3>1. \A s \in A : arrival[s] \in Int
      BY <1>0
    <3> QED BY <1>1, <2>1, <3>1, LastOf
  <2>3. Room(H \cup (G \cap Ahead(r)), r)
    BY DEF SweepOf
  <2>4. \A s \in A \ {r} : arrival[s] # arrival[r] /\ s \in queue /\ r \in queue
    BY DEF QueueInv
  <2>5. A \ {r} \subseteq G \cap Ahead(r)
    BY <2>2, <2>4, <1>0 DEF Ahead
  <2> QED BY <2>3, <2>5
\* Adding one request r to a set B adds at most one.
<1>2. ASSUME NEW r, NEW B \in SUBSET SlotRequests, NEW C \in SUBSET (B \cup {r}), NEW n \in Nat,
             Cardinality(B) < n
      PROVE  Cardinality(C) <= n
  <2>1. IsFiniteSet(B) /\ Cardinality(B) \in Nat
    BY FiniteShares
  <2>2. IsFiniteSet(B \cup {r}) /\ Cardinality(B \cup {r}) <= n
    BY <1>2, <2>1, FS_AddElement
  <2>3. /\ Cardinality(C) <= Cardinality(B \cup {r})
        /\ Cardinality(C) \in Nat /\ Cardinality(B \cup {r}) \in Nat
    BY <2>2, FS_Subset, FS_CardinalityType
  <2> QED BY <2>2, <2>3
<1>3. Cardinality(H \cup G) <= GlobalLimit
  <2>1. CASE G = {}
    <3>1. H \cup G = H
      BY <2>1
    <3> QED BY <3>1 DEF WithinLimits
  <2>2. CASE G # {}
    <3>1. PICK r \in G : Room(H \cup (G \cap Ahead(r)), r) /\ G \ {r} \subseteq G \cap Ahead(r)
      BY <1>1, <2>2
    <3> DEFINE B == H \cup (G \cap Ahead(r))
    <3>2. B \in SUBSET SlotRequests /\ H \cup G \in SUBSET (B \cup {r}) /\ Cardinality(B) < GlobalLimit
      BY <3>1, <1>0 DEF Room
    <3> HIDE DEF B
    <3> QED BY <3>2, <1>2, <1>0
  <2> QED BY <2>1, <2>2
<1>4. ASSUME NEW u \in Users
      PROVE  Cardinality(ByUser(H \cup G, u)) <= PerUserLimit
  <2>1. CASE ByUser(G, u) = {}
    <3>1. ByUser(H \cup G, u) = ByUser(H, u)
      BY <2>1 DEF ByUser
    <3> QED BY <3>1 DEF WithinLimits
  <2>2. CASE ByUser(G, u) # {}
    <3>1. PICK r \in ByUser(G, u) : /\ Room(H \cup (G \cap Ahead(r)), r)
                                    /\ ByUser(G, u) \ {r} \subseteq G \cap Ahead(r)
      <4>1. ByUser(G, u) \in SUBSET G
        BY DEF ByUser
      <4> QED BY <4>1, <1>1, <2>2
    <3> DEFINE B == ByUser(H \cup (G \cap Ahead(r)), u)
    <3>2. B \in SUBSET SlotRequests /\ ByUser(H \cup G, u) \in SUBSET (B \cup {r})
      BY <3>1, <1>0 DEF ByUser
    <3>3. Cardinality(B) < PerUserLimit
      BY <3>1 DEF Room, ByUser
    <3> HIDE DEF B
    <3> QED BY <3>2, <3>3, <1>2, <1>0
  <2> QED BY <2>1, <2>2
<1>5. ASSUME NEW c \in Channels
      PROVE  Cardinality(ByChannel(H \cup G, c)) <= PerChannelLimit
  <2>1. CASE ByChannel(G, c) = {}
    <3>1. ByChannel(H \cup G, c) = ByChannel(H, c)
      BY <2>1 DEF ByChannel
    <3> QED BY <3>1 DEF WithinLimits
  <2>2. CASE ByChannel(G, c) # {}
    <3>1. PICK r \in ByChannel(G, c) : /\ Room(H \cup (G \cap Ahead(r)), r)
                                       /\ ByChannel(G, c) \ {r} \subseteq G \cap Ahead(r)
      <4>1. ByChannel(G, c) \in SUBSET G
        BY DEF ByChannel
      <4> QED BY <4>1, <1>1, <2>2
    <3> DEFINE B == ByChannel(H \cup (G \cap Ahead(r)), c)
    <3>2. B \in SUBSET SlotRequests /\ ByChannel(H \cup G, c) \in SUBSET (B \cup {r})
      BY <3>1, <1>0 DEF ByChannel
    <3>3. Cardinality(B) < PerChannelLimit
      <4>1. ChannelOf[r] = c /\ c # NoChannel
        BY <3>1, RequestsAssumption DEF ByChannel
      <4> QED BY <3>1, <4>1 DEF Room
    <3> HIDE DEF B
    <3> QED BY <3>2, <3>3, <1>2, <1>0
  <2> QED BY <2>1, <2>2
<1> QED BY <1>3, <1>4, <1>5 DEF WithinLimits

\* An entry the sweep leaves waiting has no room beside all it granted.
LEMMA SweepComplete ==
  ASSUME GovernorTypeOK, NEW H \in SUBSET SlotRequests, NEW G \in SUBSET queue, SweepOf(G, H),
         NEW r \in Live \ G
  PROVE  ~ Room(H \cup G, r)
<1>1. ~ Room(H \cup (G \cap Ahead(r)), r)
  BY DEF SweepOf, Live
<1>2. H \cup G \in SUBSET SlotRequests /\ H \cup (G \cap Ahead(r)) \in SUBSET (H \cup G)
  BY DEF GovernorTypeOK
<1> QED BY <1>1, <1>2, RoomShrinks

\* Among entries of one key the sweep grants earlier ones first.
LEMMA SweepFifo ==
  ASSUME GovernorTypeOK, QueueInv, NEW H \in SUBSET SlotRequests, NEW G \in SUBSET queue, SweepOf(G, H),
         NEW r \in G, NEW s \in Live \ G, SameKey(r, s)
  PROVE  arrival[s] > arrival[r]
<1>0. r \in queue /\ s \in queue /\ s # r /\ arrival[r] \in Nat /\ arrival[s] \in Nat
  BY DEF Live, GovernorTypeOK
<1>1. SUFFICES ASSUME arrival[s] < arrival[r] PROVE FALSE
  BY <1>0 DEF QueueInv
<1>2. Room(H \cup (G \cap Ahead(r)), r) /\ ~ Room(H \cup (G \cap Ahead(s)), s)
  BY <1>0 DEF SweepOf, Live
<1>3. /\ H \cup (G \cap Ahead(r)) \in SUBSET SlotRequests
      /\ H \cup (G \cap Ahead(s)) \in SUBSET (H \cup (G \cap Ahead(r)))
  BY <1>0, <1>1 DEF Ahead, GovernorTypeOK
<1>4. Room(H \cup (G \cap Ahead(r)), s)
  BY <1>2, RoomOfKey
<1> QED BY <1>2, <1>3, <1>4, RoomShrinks

----------------------------------------------------------------------------
(* The inductive invariant and its preservation, action by action.          *)

GovernorInv ==
  /\ GovernorTypeOK
  /\ QueueInv
  /\ CountsMatchHolders
  /\ LimitsRespected
  /\ NoAdmissibleWaiter
  /\ BacklogBounded

\* The invariant in terms of the set of holders.
LEMMA InvMeaning ==
  ASSUME GovernorInv
  PROVE  /\ Holding \in SUBSET SlotRequests /\ Live \in SUBSET SlotRequests
         /\ Holding \cap queue = {}
         /\ Match(globalCount, userCounts, channelCounts, Holding)
         /\ WithinLimits(Holding)
         /\ \A r \in SlotRequests : CanAcquireNow(r) <=> Room(Holding, r)
         /\ \A r \in Live : ~ Room(Holding, r)
<1>1. Holding \in SUBSET SlotRequests /\ Live \in SUBSET SlotRequests
  BY DEF GovernorInv, GovernorTypeOK, Holding, Live
<1>2. Holding \cap queue = {}
  BY DEF GovernorInv, QueueInv, Holding
<1>3. Match(globalCount, userCounts, channelCounts, Holding)
  BY DEF GovernorInv, GovernorTypeOK, CountsMatchHolders, Match
<1>4. WithinLimits(Holding)
  BY DEF GovernorInv, LimitsRespected, WithinLimits
<1>5. ASSUME NEW r \in SlotRequests PROVE CanAcquireNow(r) <=> Room(Holding, r)
  <2>1. {} \in SUBSET SlotRequests /\ Holding \cap {} = {} /\ Holding \cup {} = Holding
    OBVIOUS
  <2> QED BY <1>1, <1>3, <2>1, CanAcquireIsRoom DEF CanAcquireNow
<1>6. \A r \in Live : ~ Room(Holding, r)
  BY <1>1, <1>5 DEF GovernorInv, NoAdmissibleWaiter
<1> QED BY <1>1, <1>2, <1>3, <1>4, <1>5, <1>6

\* Conversely, what has to be shown of the next state.
LEMMA InvFromMeaning ==
  ASSUME GovernorTypeOK', QueueInv', Cardinality(Live') <= GovMaxQueueDepth,
         Match(globalCount', userCounts', channelCounts', Holding'),
         WithinLimits(Holding'),
         \A r \in Live' : ~ Room(Holding', r)
  PROVE  GovernorInv'
<1>1. Holding' \in SUBSET SlotRequests /\ Live' \in SUBSET SlotRequests
  BY DEF GovernorTypeOK, Holding, Live
<1>2. CountsMatchHolders'
  BY DEF CountsMatchHolders, Match
<1>3. LimitsRespected'
  BY DEF LimitsRespected, WithinLimits
<1>4. NoAdmissibleWaiter'
  <2> SUFFICES ASSUME NEW r \in Live' PROVE ~ CanAcquireNow(r)'
    BY DEF NoAdmissibleWaiter
  <2>1. {} \in SUBSET SlotRequests /\ Holding' \cap {} = {} /\ Holding' \cup {} = Holding'
        /\ r \in SlotRequests
    BY <1>1
  <2>2. CanAcquire(globalCount', userCounts', channelCounts', {}, r) <=> Room(Holding', r)
    BY <1>1, <2>1, CanAcquireIsRoom
  <2> QED BY <2>2 DEF CanAcquireNow
<1>5. BacklogBounded'
  BY DEF BacklogBounded, QueueInv
<1> QED BY <1>2, <1>3, <1>4, <1>5 DEF GovernorInv

\* Nobody holds or waits at the start.
LEMMA GovernorStart == GovernorInit => GovernorInv
<1> SUFFICES ASSUME GovernorInit PROVE GovernorInv
  OBVIOUS
<1>1. GovernorTypeOK
  BY DEF GovernorInit, GovernorTypeOK, Phases
<1>2. QueueInv
  BY DEF GovernorInit, QueueInv
<1>3. Holding = {} /\ Live = {}
  BY DEF GovernorInit, Holding, Live
<1>4. Cardinality({}) = 0 /\ \A u : ByUser({}, u) = {} /\ \A c : ByChannel({}, c) = {}
  BY FS_EmptySet DEF ByUser, ByChannel
<1>5. CountsMatchHolders
  BY <1>3, <1>4 DEF GovernorInit, CountsMatchHolders
<1>6. LimitsRespected
  BY <1>3, <1>4, LimitsAssumption DEF LimitsRespected
<1>7. NoAdmissibleWaiter /\ BacklogBounded
  BY <1>3, <1>4, LimitsAssumption DEF NoAdmissibleWaiter, BacklogBounded, GovernorInit
<1> QED BY <1>1, <1>2, <1>5, <1>6, <1>7 DEF GovernorInv

\* Whom waitForSlot admits at once did not jump over anybody there was room for.
LEMMA GrantAtOnceInv ==
  ASSUME GovernorInv, NEW r \in SlotRequests, GrantAtOnce(r)
  PROVE  GovernorInv'
<1>1. /\ Holding' = Holding \cup {r} /\ r \notin Holding /\ r \notin queue
      /\ queue' = queue /\ Live' = Live /\ arrival' = arrival /\ pushes' = pushes
  BY DEF GovernorInv, GovernorTypeOK, QueueInv, GrantAtOnce, Holding, Live, Done
<1>2. Match(globalCount', userCounts', channelCounts', Holding')
  <2>1. {r} \in SUBSET SlotRequests /\ Holding \cap {r} = {}
    BY <1>1
  <2>2. Acquire(globalCount, userCounts, channelCounts, {r})
    BY DEF GrantAtOnce
  <2> QED BY <1>1, <2>1, <2>2, InvMeaning, AcquireMatches
<1>3. Room(Holding, r)
  BY InvMeaning DEF GrantAtOnce
<1>4. WithinLimits(Holding')
  <2>1. \A u : ByUser(Holding', u) = IF u = UserOf[r] THEN ByUser(Holding, u) \cup {r}
                                      ELSE ByUser(Holding, u)
    BY <1>1 DEF ByUser
  <2>2. \A c : ByChannel(Holding', c) = IF c = ChannelOf[r] THEN ByChannel(Holding, c) \cup {r}
                                         ELSE ByChannel(Holding, c)
    BY <1>1 DEF ByChannel
  <2>3. \A n \in Nat : \A S \in SUBSET SlotRequests :
          Cardinality(S) < n => Cardinality(S \cup {r}) <= n
    <3> TAKE n \in Nat
    <3> TAKE S \in SUBSET SlotRequests
    <3>1. IsFiniteSet(S) /\ Cardinality(S) \in Nat
      BY FiniteShares
    <3>2. Cardinality(S \cup {r}) = IF r \in S THEN Cardinality(S) ELSE Cardinality(S) + 1
      BY <3>1, FS_AddElement
    <3> QED BY <3>1, <3>2
  <2>4. /\ Holding \in SUBSET SlotRequests
        /\ \A u : ByUser(Holding, u) \in SUBSET SlotRequests
        /\ \A c : ByChannel(Holding, c) \in SUBSET SlotRequests
    BY DEF Holding, ByUser, ByChannel
  <2>5. Cardinality(Holding') <= GlobalLimit
    BY <1>1, <1>3, <2>3, <2>4, LimitsAssumption DEF Room
  <2>6. \A u \in Users : Cardinality(ByUser(Holding', u)) <= PerUserLimit
    BY <1>3, <2>1, <2>3, <2>4, InvMeaning, LimitsAssumption DEF Room, WithinLimits
  <2>7. \A c \in Channels : Cardinality(ByChannel(Holding', c)) <= PerChannelLimit
    BY <1>3, <2>2, <2>3, <2>4, InvMeaning, LimitsAssumption, RequestsAssumption
       DEF Room, WithinLimits
  <2> QED BY <2>5, <2>6, <2>7 DEF WithinLimits
<1>5. \A s \in Live' : ~ Room(Holding', s)
  <2>1. Holding' \in SUBSET SlotRequests /\ Holding \in SUBSET Holding'
    BY <1>1, InvMeaning
  <2> QED BY <1>1, <2>1, InvMeaning, RoomShrinks
<1>6. GovernorTypeOK'
  <2>1. globalCount' \in Nat /\ userCounts' \in [Users -> Nat]
        /\ channelCounts' \in [Channels -> Nat]
    <3>1. Cardinality(Holding') \in Nat
      BY <1>1, InvMeaning, FiniteShares
    <3> QED BY <1>2, <3>1 DEF Match
  <2> QED BY <2>1 DEF GovernorInv, GovernorTypeOK, GrantAtOnce, Phases
<1>7. QueueInv'
  BY <1>1 DEF GovernorInv, GovernorTypeOK, QueueInv, GrantAtOnce
<1>8. Cardinality(Live') <= GovMaxQueueDepth
  BY <1>1 DEF GovernorInv, BacklogBounded
<1> QED BY <1>2, <1>4, <1>5, <1>6, <1>7, <1>8, InvFromMeaning

\* A request that is turned away because the queue is full changes nothing else.
LEMMA RejectInv ==
  ASSUME GovernorInv, NEW r \in SlotRequests, TurnAway(r)
  PROVE  GovernorInv'
<1>1. /\ Holding' = Holding /\ Live' = Live /\ queue' = queue
      /\ arrival' = arrival /\ pushes' = pushes /\ UNCHANGED counts
      /\ globalCount' = globalCount /\ userCounts' = userCounts
      /\ channelCounts' = channelCounts
  BY DEF GovernorInv, GovernorTypeOK, QueueInv, TurnAway, Holding, Live, Done, counts
<1>2. GovernorTypeOK'
  BY <1>1 DEF GovernorInv, GovernorTypeOK, TurnAway, Phases
<1>3. QueueInv'
  BY <1>1 DEF GovernorInv, GovernorTypeOK, QueueInv, TurnAway
<1> QED BY <1>1, <1>2, <1>3, InvMeaning, InvFromMeaning DEF GovernorInv, BacklogBounded

\* A request that has to wait joins the end of the queue, as there is no room for it.
LEMMA EnqueueInv ==
  ASSUME GovernorInv, NEW r \in SlotRequests, Wait(r)
  PROVE  GovernorInv'
<1>1. /\ Holding' = Holding /\ queue' = queue \cup {r} /\ r \notin queue
      /\ globalCount' = globalCount /\ userCounts' = userCounts
      /\ channelCounts' = channelCounts
  BY DEF GovernorInv, GovernorTypeOK, QueueInv, Wait, Holding, counts
<1>2. Live' = Live \cup {r}
  BY <1>1 DEF GovernorInv, GovernorTypeOK, Wait, Live, Done
<1>3. GovernorTypeOK'
  BY <1>1 DEF GovernorInv, GovernorTypeOK, Wait, Phases
<1>4. QueueInv'
  <2>1. \A s \in queue : arrival'[s] = arrival[s] /\ caller'[s] = caller[s] /\ arrival[s] < pushes
    BY <1>1 DEF GovernorInv, GovernorTypeOK, QueueInv, Wait
  <2>2. arrival'[r] = pushes /\ pushes' = pushes + 1 /\ caller'[r] = "waiting"
    BY DEF GovernorInv, GovernorTypeOK, Wait
  <2>3. \A s \in SlotRequests : caller'[s] = "waiting" => s \in queue'
    BY <1>1 DEF GovernorInv, GovernorTypeOK, QueueInv, Wait
  <2>4. \A s \in queue : arrival[s] \in Nat
    BY DEF GovernorInv, GovernorTypeOK
  <2>5. pushes \in Nat
    BY DEF GovernorInv, GovernorTypeOK
  <2> QED BY <1>1, <2>1, <2>2, <2>3, <2>4, <2>5 DEF GovernorInv, QueueInv
<1>5. Cardinality(Live') <= GovMaxQueueDepth
  <2>1. IsFiniteSet(Live) /\ Cardinality(Live) \in Nat
    BY InvMeaning, FiniteShares
  <2>2. Cardinality(Live \cup {r}) = IF r \in Live THEN Cardinality(Live) ELSE Cardinality(Live) + 1
    BY <2>1, FS_AddElement
  <2>3. Cardinality(Live) < GovMaxQueueDepth
    BY <2>1, LimitsAssumption DEF Wait, QueueFull
  <2> HIDE DEF Live
  <2> QED BY <1>2, <2>1, <2>2, <2>3, LimitsAssumption
<1>6. \A s \in Live' : ~ Room(Holding', s)
  BY <1>1, <1>2, InvMeaning DEF Wait
<1> QED BY <1>1, <1>3, <1>4, <1>5, <1>6, InvMeaning, InvFromMeaning

\* A timer that fires marks its entry and leaves it in the queue.
LEMMA TimeoutInv ==
  ASSUME GovernorInv, NEW r \in SlotRequests, Timeout(r)
  PROVE  GovernorInv'
<1>1. /\ Holding' = Holding /\ queue' = queue /\ r \in queue
      /\ arrival' = arrival /\ pushes' = pushes
      /\ globalCount' = globalCount /\ userCounts' = userCounts
      /\ channelCounts' = channelCounts
  BY DEF GovernorInv, GovernorTypeOK, Timeout, Holding, Live, Done, counts
<1>2. Live' = Live \ {r}
  BY <1>1 DEF GovernorInv, GovernorTypeOK, Timeout, Live, Done
<1>3. GovernorTypeOK'
  BY <1>1 DEF GovernorInv, GovernorTypeOK, Timeout, Phases
<1>4. QueueInv'
  BY <1>1 DEF GovernorInv, GovernorTypeOK, QueueInv, Timeout
<1>5. Cardinality(Live') <= GovMaxQueueDepth
  <2>1. IsFiniteSet(Live) /\ Cardinality(Live) \in Nat
    BY InvMeaning, FiniteShares
  <2>2. Cardinality(Live) <= GovMaxQueueDepth
    BY DEF GovernorInv, BacklogBounded
  <2>3. Cardinality(Live \ {r}) = IF r \in Live THEN Cardinality(Live) - 1 ELSE Cardinality(Live)
    BY <2>1, FS_RemoveElement
  <2> QED BY <1>2, <2>1, <2>2, <2>3, LimitsAssumption
<1> QED BY <1>1, <1>2, <1>3, <1>4, <1>5, InvMeaning, InvFromMeaning

\* What a release does, with H the requests that still hold and G the
\* entries it lets in.
LEMMA ReleaseMeaning ==
  ASSUME GovernorInv, NEW r \in SlotRequests, Release(r)
  PROVE  \E G \in SUBSET queue :
           /\ Holding \ {r} \in SUBSET SlotRequests
           /\ (Holding \ {r}) \cap queue = {}
           /\ SweepOf(G, Holding \ {r})
           /\ Match(globalCount', userCounts', channelCounts', (Holding \ {r}) \cup G)
           /\ Holding' = (Holding \ {r}) \cup G
           /\ G \subseteq Live /\ queue' = Live \ G /\ Live' = Live \ G
           /\ caller' = [s \in SlotRequests |->
                           IF s = r THEN "released"
                           ELSE IF s \in G THEN "held" ELSE caller[s]]
           /\ arrival' = arrival /\ pushes' = pushes
<1> DEFINE H == Holding \ {r}
           g == Decrement(globalCount)
           uc == [userCounts EXCEPT ![UserOf[r]] = Decrement(@)]
           cc == IF ChannelOf[r] = NoChannel THEN channelCounts
                 ELSE [channelCounts EXCEPT ![ChannelOf[r]] = Decrement(@)]
<1>1. PICK G \in SUBSET queue :
        /\ DrainQueue(G, g, uc, cc)
        /\ caller' = [s \in SlotRequests |-> IF s = r THEN "released"
                                         ELSE IF s \in G THEN "held" ELSE caller[s]]
  BY DEF Release
<1>2. H \in SUBSET SlotRequests /\ H \cap queue = {} /\ r \in Holding
  BY InvMeaning DEF Release, Holding
<1>3. Match(g, uc, cc, H)
  BY <1>2, InvMeaning, ReleaseMatches
<1> HIDE DEF g, uc, cc, H
<1>4. SweepOf(G, H)
  BY <1>1, <1>2, <1>3, SweepMeaning DEF DrainQueue, GovernorInv
<1>5. Match(globalCount', userCounts', channelCounts', H \cup G)
  <2>1. G \in SUBSET SlotRequests /\ H \cap G = {}
    BY <1>2 DEF GovernorInv, GovernorTypeOK
  <2> QED BY <1>1, <1>2, <1>3, <2>1, AcquireMatches DEF DrainQueue
<1>6. G \subseteq Live
  BY <1>4 DEF SweepOf, Live
<1>7. Holding' = H \cup G
  <2>1. G \subseteq SlotRequests /\ r \notin G /\ r \notin H
    BY <1>1, <1>2 DEF GovernorInv, GovernorTypeOK, H, QueueInv, Holding
  <2>2. \A s \in SlotRequests : caller'[s] = "held" <=> s # r /\ (s \in G \/ caller[s] = "held")
    BY <1>1, <2>1
  <2> QED BY <2>1, <2>2 DEF Holding, H
<1>8. queue' = Live \ G /\ arrival' = arrival /\ pushes' = pushes
  BY <1>1 DEF DrainQueue, Release
<1>9. Live' = Live \ G
  <2>1. \A s \in Live \ G : s \in SlotRequests /\ s # r /\ caller'[s] = caller[s]
    BY <1>1, <1>2 DEF GovernorInv, GovernorTypeOK, Live, H, Holding, Done
  <2> QED BY <1>8, <2>1 DEF Live, Done
<1> QED BY <1>1, <1>2, <1>4, <1>5, <1>6, <1>7, <1>8, <1>9 DEF H

\* A release makes room, which the sweep gives to those for whom there is any.
LEMMA ReleaseInv ==
  ASSUME GovernorInv, NEW r \in SlotRequests, Release(r)
  PROVE  GovernorInv'
<1> DEFINE H == Holding \ {r}
<1>1. PICK G \in SUBSET queue :
           /\ H \in SUBSET SlotRequests
           /\ H \cap queue = {}
           /\ SweepOf(G, H)
           /\ Match(globalCount', userCounts', channelCounts', H \cup G)
           /\ Holding' = H \cup G
           /\ G \subseteq Live /\ queue' = Live \ G /\ Live' = Live \ G
           /\ caller' = [s \in SlotRequests |->
                           IF s = r THEN "released"
                           ELSE IF s \in G THEN "held" ELSE caller[s]]
           /\ arrival' = arrival /\ pushes' = pushes
  BY ReleaseMeaning
<1>2. WithinLimits(H)
  <2>1. \A A, B : A \in SUBSET B /\ B \in SUBSET SlotRequests =>
          Cardinality(A) <= Cardinality(B) /\ Cardinality(A) \in Nat /\ Cardinality(B) \in Nat
    <3> SUFFICES ASSUME NEW B \in SUBSET SlotRequests, NEW A \in SUBSET B
                 PROVE  Cardinality(A) <= Cardinality(B)
                        /\ Cardinality(A) \in Nat /\ Cardinality(B) \in Nat
      OBVIOUS
    <3>1. IsFiniteSet(B) /\ IsFiniteSet(A)
      BY FiniteShares
    <3> QED BY <3>1, FS_Subset, FS_CardinalityType
  <2>2. /\ H \in SUBSET Holding /\ Holding \in SUBSET SlotRequests
        /\ \A u : ByUser(H, u) \in SUBSET ByUser(Holding, u)
                  /\ ByUser(Holding, u) \in SUBSET SlotRequests
        /\ \A c : ByChannel(H, c) \in SUBSET ByChannel(Holding, c)
                  /\ ByChannel(Holding, c) \in SUBSET SlotRequests
    BY DEF Holding, ByUser, ByChannel
  <2>3. WithinLimits(Holding)
    BY InvMeaning
  <2> HIDE DEF H
  <2>4. Cardinality(H) <= GlobalLimit
    BY <2>1, <2>2, <2>3, LimitsAssumption DEF WithinLimits
  <2>5. \A u \in Users : Cardinality(ByUser(H, u)) <= PerUserLimit
    BY <2>1, <2>2, <2>3, LimitsAssumption DEF WithinLimits
  <2>6. \A c \in Channels : Cardinality(ByChannel(H, c)) <= PerChannelLimit
    BY <2>1, <2>2, <2>3, LimitsAssumption DEF WithinLimits
  <2> QED BY <2>4, <2>5, <2>6 DEF WithinLimits
<1> HIDE DEF H
<1>3. WithinLimits(Holding')
  BY <1>1, <1>2, SweepWithinLimits DEF GovernorInv
<1>4. \A s \in Live' : ~ Room(Holding', s)
  BY <1>1, SweepComplete DEF GovernorInv
<1>5. Cardinality(Live') <= GovMaxQueueDepth
  <2>1. IsFiniteSet(Live) /\ Live' \in SUBSET Live /\ Live \in SUBSET SlotRequests
    BY <1>1, InvMeaning, FiniteShares
  <2>2. Cardinality(Live') <= Cardinality(Live)
        /\ Cardinality(Live) \in Nat /\ Cardinality(Live') \in Nat
    BY <2>1, FS_Subset, FS_CardinalityType
  <2> QED BY <2>2, LimitsAssumption DEF GovernorInv, BacklogBounded
<1>6. GovernorTypeOK'
  <2>1. globalCount' \in Nat /\ userCounts' \in [Users -> Nat]
        /\ channelCounts' \in [Channels -> Nat]
    <3>1. H \cup G \in SUBSET SlotRequests
      BY <1>1 DEF GovernorInv, GovernorTypeOK
    <3>2. Cardinality(H \cup G) \in Nat
      BY <3>1, FiniteShares
    <3> QED BY <1>1, <3>2 DEF Match
  <2>2. caller' \in [SlotRequests -> Phases]
    BY <1>1 DEF GovernorInv, GovernorTypeOK, Phases
  <2>3. queue' \in SUBSET SlotRequests
    BY <1>1, InvMeaning
  <2> QED BY <1>1, <2>1, <2>2, <2>3 DEF GovernorInv, GovernorTypeOK
<1>7. QueueInv'
  <2>1. \A s \in SlotRequests : caller'[s] = "waiting" => caller[s] = "waiting" /\ s \notin G
    BY <1>1
  <2>2. \A s \in SlotRequests : caller[s] = "waiting" => s \in Live
    BY DEF GovernorInv, QueueInv, Live, Done
  <2>3. \A s \in queue' : s \in queue /\ s \in SlotRequests /\ s # r /\ s \notin G
                          /\ caller[s] = "waiting"
    BY <1>1, InvMeaning DEF Live, Done, Release
  <2>4. \A s \in queue' : caller'[s] = "waiting"
    BY <1>1, <2>3
  <2> QED BY <1>1, <2>1, <2>2, <2>3, <2>4 DEF GovernorInv, QueueInv
<1> QED BY <1>1, <1>3, <1>4, <1>5, <1>6, <1>7, InvFromMeaning

\* Every step keeps the invariant.
LEMMA GovernorSteps == GovernorInv /\ [GovernorNext]_governorVars => GovernorInv'
<1> SUFFICES ASSUME GovernorInv, [GovernorNext]_governorVars PROVE GovernorInv'
  OBVIOUS
<1>1. ASSUME NEW r \in SlotRequests, GrantAtOnce(r) PROVE GovernorInv'
  BY <1>1, GrantAtOnceInv
<1>2. ASSUME NEW r \in SlotRequests, TurnAway(r) PROVE GovernorInv'
  BY <1>2, RejectInv
<1>3. ASSUME NEW r \in SlotRequests, Wait(r) PROVE GovernorInv'
  BY <1>3, EnqueueInv
<1>4. ASSUME NEW r \in SlotRequests, Timeout(r) PROVE GovernorInv'
  BY <1>4, TimeoutInv
<1>5. ASSUME NEW r \in SlotRequests, Release(r) PROVE GovernorInv'
  BY <1>5, ReleaseInv
<1>6. CASE UNCHANGED governorVars
  BY <1>6 DEF governorVars, GovernorInv, GovernorTypeOK, QueueInv, CountsMatchHolders, LimitsRespected,
     NoAdmissibleWaiter, BacklogBounded, Holding, Live, Done, CanAcquireNow
<1> QED BY <1>1, <1>2, <1>3, <1>4, <1>5, <1>6 DEF GovernorNext

\* The invariant holds in every behaviour.
LEMMA Invariance == GovernorSpec => []GovernorInv
<1>1. GovernorInit => GovernorInv
  BY GovernorStart
<1>2. GovernorInv /\ [GovernorNext]_governorVars => GovernorInv'
  BY GovernorSteps
<1> QED BY <1>1, <1>2, PTL DEF GovernorSpec

----------------------------------------------------------------------------
(* The theorems.                                                            *)

\* The state of the governor keeps its types.
THEOREM TypeCorrect == GovernorSpec => []GovernorTypeOK
<1>1. GovernorInv => GovernorTypeOK
  BY DEF GovernorInv
<1> QED BY <1>1, Invariance, PTL

\* canAcquire, acquire, release and _drainQueue never lose or double-count a
\* request: the counters always equal the numbers of requests that hold a slot.
THEOREM CountersCorrect == GovernorSpec => []CountsMatchHolders
<1>1. GovernorInv => CountsMatchHolders
  BY DEF GovernorInv
<1> QED BY <1>1, Invariance, PTL

\* The three limits of config.concurrency bound the requests that run at the
\* same time, whatever a single release lets in.
THEOREM LimitsHold == GovernorSpec => []LimitsRespected
<1>1. GovernorInv => LimitsRespected
  BY DEF GovernorInv
<1> QED BY <1>1, Invariance, PTL

\* One sweep of _drainQueue is enough: no request waits that could run.
THEOREM WorkConserving == GovernorSpec => []NoAdmissibleWaiter
<1>1. GovernorInv => NoAdmissibleWaiter
  BY DEF GovernorInv
<1> QED BY <1>1, Invariance, PTL

\* maxQueueDepth bounds the unresolved requests, and each is in the queue.
THEOREM BacklogIsBounded == GovernorSpec => []BacklogBounded
<1>1. GovernorInv => BacklogBounded
  BY DEF GovernorInv
<1> QED BY <1>1, Invariance, PTL

\* SlotRequests of one user and channel get their slots in the order in which
\* they started to wait; a newcomer overtakes none of them.
THEOREM FirstInFirstOut == GovernorSpec => FifoPerKey
<1> DEFINE Fifo(r, s) ==
      /\ SameKey(r, s)
      /\ caller[s] = "waiting" /\ caller'[s] = "waiting"
      /\ caller[r] # "held" /\ caller'[r] = "held"
      => caller[r] = "waiting" /\ arrival[s] > arrival[r]
<1>1. ASSUME GovernorInv, [GovernorNext]_governorVars, NEW r \in SlotRequests, NEW s \in SlotRequests,
             SameKey(r, s), caller[s] = "waiting", caller'[s] = "waiting",
             caller[r] # "held", caller'[r] = "held"
      PROVE  caller[r] = "waiting" /\ arrival[s] > arrival[r]
  <2>0. s \in Live /\ GovernorTypeOK
    BY <1>1 DEF GovernorInv, QueueInv, Live, Done
  <2>1. ASSUME NEW q \in SlotRequests, GrantAtOnce(q) PROVE FALSE
    <3>1. q = r
      BY <2>0, <2>1, <1>1 DEF GrantAtOnce, GovernorTypeOK
    <3>2. Room(Holding, r) /\ ~ Room(Holding, s)
      BY <1>1, <2>0, <2>1, <3>1, InvMeaning DEF GrantAtOnce
    <3> QED BY <1>1, <3>2, RoomOfKey
  <2>2. ASSUME NEW q \in SlotRequests, TurnAway(q) \/ Wait(q) \/ Timeout(q) PROVE FALSE
    BY <1>1, <2>0, <2>2 DEF TurnAway, Wait, Timeout, GovernorTypeOK
  <2>3. ASSUME NEW q \in SlotRequests, Release(q)
        PROVE  caller[r] = "waiting" /\ arrival[s] > arrival[r]
    <3>1. PICK G \in SUBSET queue :
            /\ Holding \ {q} \in SUBSET SlotRequests
            /\ SweepOf(G, Holding \ {q})
            /\ G \subseteq Live
            /\ caller' = [x \in SlotRequests |->
                            IF x = q THEN "released"
                            ELSE IF x \in G THEN "held" ELSE caller[x]]
      BY <1>1, <2>3, ReleaseMeaning
    <3>2. r \in G /\ s \notin G
      BY <1>1, <3>1
    <3>3. caller[r] = "waiting"
      BY <3>1, <3>2 DEF Live, Done
    <3> QED BY <1>1, <2>0, <3>1, <3>2, <3>3, SweepFifo DEF GovernorInv
  <2>4. CASE UNCHANGED governorVars
    BY <1>1, <2>4 DEF governorVars
  <2> QED BY <1>1, <2>1, <2>2, <2>3, <2>4 DEF GovernorNext
<1>2. GovernorInv /\ [GovernorNext]_governorVars => [\A r, s \in SlotRequests : Fifo(r, s)]_governorVars
  BY <1>1
<1> QED BY <1>2, Invariance, PTL DEF GovernorSpec, FifoPerKey

\* The abstract specification measures sets the same way.
LEMMA SameCardinality == \A S : Pool!Cardinality(S) = Cardinality(S)
BY DEF Pool!Cardinality, Cardinality

\* The governor implements the abstract pool of slots: every step is a step of
\* SlotPool or leaves it unchanged.
THEOREM ImplementsSlotPool == GovernorSpec => PoolSpec
<1>1. GovernorInit => Pool!Init
  BY DEF GovernorInit, Pool!Init
\* Fits and Room say the same of a set of holders.
<1>2. ASSUME NEW H \in SUBSET SlotRequests, WithinLimits(H) PROVE Pool!Fits(H)
  <2>1. ASSUME NEW q \in H
        PROVE  /\ Cardinality(Pool!SameUser(H, q)) <= PerUserLimit
               /\ \/ ChannelOf[q] = NoChannel
                  \/ Cardinality(Pool!SameChannel(H, q)) <= PerChannelLimit
    <3>1. /\ Pool!SameUser(H, q) = ByUser(H, UserOf[q])
          /\ Pool!SameChannel(H, q) = ByChannel(H, ChannelOf[q])
      BY DEF Pool!SameUser, Pool!SameChannel, ByUser, ByChannel
    <3> QED BY <1>2, <3>1, RequestsAssumption DEF WithinLimits
  <2>2. Cardinality(H) <= GlobalLimit
    BY <1>2 DEF WithinLimits
  <2> QED BY <2>1, <2>2, SameCardinality, Zenon DEF Pool!Fits
<1>3. ASSUME NEW H \in SUBSET SlotRequests, NEW r \in SlotRequests \ H, Pool!Fits(H \cup {r})
      PROVE  Room(H, r)
  <2> DEFINE K == H \cup {r}
  <2>0. IsFiniteSet(H) /\ {r} \in SUBSET SlotRequests /\ H \cap {r} = {}
    BY FiniteShares
  <2>1. /\ Cardinality(K) = Cardinality(H) + Cardinality({r})
        /\ \A u : Cardinality(ByUser(K, u)) = Cardinality(ByUser(H, u)) + Cardinality(ByUser({r}, u))
        /\ \A c : Cardinality(ByChannel(K, c))
                    = Cardinality(ByChannel(H, c)) + Cardinality(ByChannel({r}, c))
    BY <2>0, DisjointUnion, Zenon
  <2>2. ByUser({r}, UserOf[r]) = {r} /\ ByChannel({r}, ChannelOf[r]) = {r} /\ Cardinality({r}) = 1
    BY FS_Singleton DEF ByUser, ByChannel
  <2>3. /\ Cardinality(H) \in Nat
        /\ Cardinality(ByUser(H, UserOf[r])) \in Nat
        /\ Cardinality(ByChannel(H, ChannelOf[r])) \in Nat
    BY FiniteShares
  <2>4. /\ Cardinality(K) = Cardinality(H) + 1
        /\ Cardinality(ByUser(K, UserOf[r])) = Cardinality(ByUser(H, UserOf[r])) + 1
        /\ Cardinality(ByChannel(K, ChannelOf[r])) = Cardinality(ByChannel(H, ChannelOf[r])) + 1
    BY <2>1, <2>2
  <2>5. /\ Cardinality(K) <= GlobalLimit
        /\ Cardinality(ByUser(K, UserOf[r])) <= PerUserLimit
        /\ ChannelOf[r] # NoChannel => Cardinality(ByChannel(K, ChannelOf[r])) <= PerChannelLimit
    <3>1. /\ Pool!SameUser(K, r) = ByUser(K, UserOf[r])
          /\ Pool!SameChannel(K, r) = ByChannel(K, ChannelOf[r])
      BY DEF Pool!SameUser, Pool!SameChannel, ByUser, ByChannel
    <3>2. r \in K
      OBVIOUS
    <3>3. /\ Cardinality(K) <= GlobalLimit
          /\ Cardinality(Pool!SameUser(K, r)) <= PerUserLimit
          /\ \/ ChannelOf[r] = NoChannel
             \/ Cardinality(Pool!SameChannel(K, r)) <= PerChannelLimit
      BY <1>3, <3>2, SameCardinality, Zenon DEF Pool!Fits
    <3> QED BY <3>1, <3>3
  <2> HIDE DEF K
  <2> QED BY <2>3, <2>4, <2>5, LimitsAssumption DEF Room
<1>4. Holding = Pool!Holding /\ (GovernorInv => Live = Pool!Waiting)
  BY DEF Holding, Pool!Holding, Live, Pool!Waiting, Done, GovernorInv, GovernorTypeOK, QueueInv
<1>5. ASSUME GovernorInv, NEW r \in SlotRequests, GrantAtOnce(r) PROVE Pool!Ask(r)
  <2>1. GovernorInv' /\ Holding' = Holding \cup {r}
    BY <1>5, GrantAtOnceInv DEF GrantAtOnce, Holding, GovernorInv, GovernorTypeOK
  <2>2. WithinLimits(Holding \cup {r}) /\ Holding \cup {r} \in SUBSET SlotRequests
    BY <2>1 DEF GovernorInv, LimitsRespected, WithinLimits, Holding
  <2> QED BY <1>2, <1>4, <1>5, <2>2 DEF GrantAtOnce, Pool!Ask
<1>6. ASSUME GovernorInv, NEW r \in SlotRequests, TurnAway(r) \/ Wait(r) PROVE Pool!Ask(r)
  <2>1. r \notin Holding /\ Holding \in SUBSET SlotRequests /\ ~ Room(Holding, r)
    BY <1>6, InvMeaning DEF TurnAway, Wait, Holding
  <2>2. ~ Pool!Fits(Holding \cup {r})
    BY <2>1, <1>3
  <2> QED BY <1>4, <1>6, <2>2 DEF TurnAway, Wait, Pool!Ask
<1>7. ASSUME GovernorInv, NEW r \in SlotRequests, Timeout(r) PROVE Pool!GiveUp(r)
  BY <1>7 DEF Timeout, Live, Done, Pool!GiveUp
<1>8. ASSUME GovernorInv, NEW r \in SlotRequests, Release(r) PROVE Pool!Finish(r)
  <2> DEFINE H == Holding \ {r}
  <2>1. PICK G \in SUBSET queue :
           /\ H \in SUBSET SlotRequests
           /\ H \cap queue = {}
           /\ SweepOf(G, H)
           /\ Holding' = H \cup G
           /\ G \subseteq Live /\ Live' = Live \ G
           /\ caller' = [s \in SlotRequests |->
                           IF s = r THEN "released"
                           ELSE IF s \in G THEN "held" ELSE caller[s]]
    BY <1>8, ReleaseMeaning
  <2>2. GovernorInv'
    BY <1>8, ReleaseInv
  <2> HIDE DEF H
  <2>3. WithinLimits(H \cup G) /\ H \cup G \in SUBSET SlotRequests
    BY <2>1, <2>2 DEF GovernorInv, LimitsRespected, WithinLimits, Holding
  <2>4. Pool!Fits(H \cup G)
    BY <2>3, <1>2
  <2>5. ASSUME NEW w \in Live \ G PROVE ~ Pool!Fits((H \cup G) \cup {w})
    <3>1. ~ Room(H \cup G, w)
      BY <1>8, <2>1, SweepComplete DEF GovernorInv
    <3>2. w \in SlotRequests \ (H \cup G)
      BY <2>1, <1>8 DEF Live, GovernorInv, GovernorTypeOK
    <3> QED BY <2>3, <3>1, <3>2, <1>3
  <2>6. caller[r] = "held"
    BY <1>8 DEF Release
  <2> QED BY <1>4, <1>8, <2>1, <2>4, <2>5, <2>6 DEF Pool!Finish, H
<1>9. GovernorInv /\ [GovernorNext]_governorVars => [Pool!Next]_caller
  <2> SUFFICES ASSUME GovernorInv, [GovernorNext]_governorVars PROVE [Pool!Next]_caller
    OBVIOUS
  <2>1. CASE UNCHANGED governorVars
    BY <2>1 DEF governorVars
  <2>2. CASE GovernorNext
    BY <2>2, <1>5, <1>6, <1>7, <1>8 DEF GovernorNext, Pool!Next
  <2> QED BY <2>1, <2>2
<1> QED BY <1>1, <1>9, Invariance, PTL DEF GovernorSpec, PoolSpec, Pool!Spec

=============================================================================
