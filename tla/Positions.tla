------------------------------ MODULE Positions ------------------------------
(* Subsequences by the set of their positions.  SelectSeq keeps the same     *)
(* elements; this form says nothing by recursion, so that proofs can use it. *)
EXTENDS Naturals, FiniteSets

(* The k-th of the positions I has k - 1 of them before it.                  *)
AtPositions(s, I) ==
  [k \in 1 .. Cardinality(I) |-> s[CHOOSE i \in I : Cardinality({h \in I : h < i}) = k - 1]]
=============================================================================
