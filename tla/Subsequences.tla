------------------------------ MODULE Subsequences ------------------------------
(***************************************************************************)
(* What is left of a list when some of its elements are dropped, as        *)
(* Array.prototype.filter and deletions from a Map leave it: the elements  *)
(* at some positions, in their order.  (SelectSeq of the standard modules  *)
(* says the same of elements; nothing can be proved about it.)             *)
(***************************************************************************)
EXTENDS Naturals, Sequences, FiniteSets

\* Position i is the Place(positions, i)-th of the positions.
Place(positions, i) == Cardinality({j \in positions : j <= i})

Picked(s, positions) ==
    [k \in 1 .. Cardinality(positions) |->
        s[CHOOSE i \in positions : Place(positions, i) = k]]
=============================================================================
