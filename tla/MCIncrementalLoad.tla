-------------------------- MODULE MCIncrementalLoad --------------------------
(* Edges 0->1, 1->0, 2->1, 0->2, 1->1: opposite directions, a cycle through   *)
(* three nodes and a loop, on two queues.                                     *)
EXTENDS IncrementalLoad

MCNodes    == {0, 1, 2}
MCSource   == <<0, 1, 2, 0, 1>>
MCTarget   == <<1, 0, 1, 2, 1>>
MCStripeOf == [n \in MCNodes |-> n % 2]
=============================================================================
