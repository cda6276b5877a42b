---------------------------- MODULE LimitedLeases ----------------------------
(***************************************************************************)
(* What the slots in Redis promise, whatever counters are kept for it: a   *)
(* request is granted a lease only while none of the scopes it counts in   *)
(* is full, and leases end, by a release or by expiry, at any time.        *)
(***************************************************************************)
EXTENDS Naturals, FiniteSets

CONSTANTS
  Requests,
  ScopesOf,   \* the scopes a request counts in
  Limit       \* how many leases a scope may have

VARIABLE leased    \* the requests that have a lease

InScope(S, k) == {r \in S : k \in ScopesOf[r]}

Init == leased = {}

Grant(r) ==
  /\ r \notin leased
  /\ \A k \in ScopesOf[r] : Cardinality(InScope(leased \cup {r}, k)) <= Limit[k]
  /\ leased' = leased \cup {r}

End(S) == leased' = leased \ S

Next == \/ \E r \in Requests : Grant(r)
        \/ \E S \in SUBSET leased : End(S)

Spec == Init /\ [][Next]_leased
=============================================================================
