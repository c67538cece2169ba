-------------------------- MODULE MCNodeAgreement --------------------------
(* NodeAgreement with the calls TLC lets each rank make.                   *)
EXTENDS NodeRefinement

OneCallEach == [r \in Ranks |-> 1]
=============================================================================
