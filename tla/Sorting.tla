------------------------------ MODULE Sorting -------------------------------
(***************************************************************************)
(* Lists in an order.  SetToSortSeq of the community modules picks one of  *)
(* all permutations, of which the proof system knows nothing; here every   *)
(* element stands behind as many as are less.                              *)
(***************************************************************************)
EXTENDS Naturals, FiniteSets

\* `sorted', for a strict total order of the elements of a finite set.
Sorted(S, Less(_, _)) ==
  [i \in 1 .. Cardinality(S) |-> CHOOSE x \in S : Cardinality({y \in S : Less(y, x)}) = i - 1]
Ascending(S) == Sorted(S, <)

=============================================================================
