------------------------------ MODULE SeqFilters ------------------------------
(***************************************************************************)
(* What Array.prototype.filter leaves of a sequence: the elements that lie *)
(* in a set, in their order.                                               *)
(***************************************************************************)
EXTENDS Naturals, Sequences

Only(s, S) ==
  LET kept[n \in 0 .. Len(s)] ==
        IF n = 0 THEN << >>
        ELSE IF s[n] \in S THEN Append(kept[n - 1], s[n]) ELSE kept[n - 1]
  IN  kept[Len(s)]
===============================================================================
