-------------------------- MODULE MCMergeProtocol --------------------------
(* MergeProtocol with the calls of start_merge TLC lets each rank make.    *)
EXTENDS MergeProtocol

StartEach == [r \in Ranks |-> 1]
StartFirst == [r \in Ranks |-> IF r = 0 THEN 1 ELSE 0]
=============================================================================
