--------------------------- MODULE MCSimpleDllama ---------------------------
(* SimpleDllama with the calls TLC lets each rank make.                    *)
EXTENDS SimpleDllama

OneCallEach == [r \in Ranks |-> 1]
LastTwice == [r \in Ranks |-> IF r = 0 THEN 1 ELSE 2]
FirstOnly == [r \in Ranks |-> IF r = 0 THEN 1 ELSE 0]
LastOnly == [r \in Ranks |-> IF r = N - 1 THEN 1 ELSE 0]
Nobody == [r \in Ranks |-> 0]
=============================================================================
