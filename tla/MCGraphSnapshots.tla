-------------------------- MODULE MCGraphSnapshots --------------------------
(* Instances of GraphSnapshots for TLC. *)
EXTENDS SharedGraphRefinement

\* Three nodes fill a page of two and begin another.
ThreeNodes == [v \in 0 .. 2 |-> IF v = 1 THEN <<2>> ELSE <<>>]
=============================================================================
