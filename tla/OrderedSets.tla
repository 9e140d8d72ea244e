------------------------------ MODULE OrderedSets ------------------------------
(***************************************************************************)
(* Sets of places, listed from the first to the last: what a loop leaves     *)
(* that appends the items that pass a test (diff.go:135-149).                *)
(***************************************************************************)
EXTENDS Naturals, FiniteSets

InOrder(S) ==
    LET Place(i) == Cardinality({j \in S : j <= i})
    IN  [k \in 1..Cardinality(S) |-> CHOOSE i \in S : Place(i) = k]
=============================================================================
