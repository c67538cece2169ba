--------------------------- MODULE MCSlidingWindow ---------------------------
(* A source of seven edges on two nodes, the second one on the last page.      *)
EXTENDS SlidingWindow

MCEdge == 1 .. 7
MCNode == {"a", "b"}
MCTail == [e \in MCEdge |-> IF e % 2 = 1 THEN "a" ELSE "b"]
MCLastPage == {"b"}
=============================================================================
