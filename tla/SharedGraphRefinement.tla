------------------------ MODULE SharedGraphRefinement ------------------------
(***************************************************************************)
(* The levels, pages and edge tables of the ranks implement the shared     *)
(* graph, as their readers see it.                                         *)
(***************************************************************************)
EXTENDS GraphSnapshots

BagOf(seq) == [x \in ToSet(seq) |-> Cardinality({i \in DOMAIN seq : seq[i] = x})]

Shared == INSTANCE SharedGraph WITH
    nodes <- nextNode,
    seen <- [r \in Ranks |-> [s \in Nodes |-> BagOf(Neighbours(r, s))]],
    fresh <- [r \in Ranks |-> [s \in Nodes |-> BagOf(new[r][s])]]

\* No edge is lost, duplicated or seen too early by a checkpoint or a merge:
\* whatever the ranks do, their iterators return what the shared graph has
\* (ll_writable_graph.h:1967-2030, snapshot_merger.cpp:372-443).
ImplementsSharedGraph == Shared!Spec
=============================================================================
