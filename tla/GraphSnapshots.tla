--------------------------- MODULE GraphSnapshots ---------------------------
(***************************************************************************)
(* The graphs of the ranks of dllama as data: the writable graph in        *)
(* memory, the levels a checkpoint adds, and the level 0 a merge makes of  *)
(* the snapshots of all ranks.                                             *)
(*                                                                         *)
(* The steps the ranks take to agree are the subject of other modules.     *)
(* Here nodes are added at all ranks at once, and a merge reads all the    *)
(* snapshots there are; each rank writes its own new level 0 of them.  A   *)
(* rank forgets what the others announced when it has merged.              *)
(***************************************************************************)
EXTENDS MultiLevelCsr, FiniteSets, SequencesExt

CONSTANTS
    N,            \* world_size
    Fresh,        \* between two merges, all ranks that use checkpoints make one
    InitNodes,    \* nodes of the loaded graph
    InitEdges,    \* InitEdges[v]: the targets of v in the loaded graph
    MaxNodes,     \* bound: nodes
    Sources,      \* bound: the nodes edges are added to ...
    Targets,      \* ... and those they lead to
    MaxEdges,     \* bound: edges added by all ranks
    MaxLevels,    \* bound: levels of a rank
    MaxMerges     \* bound: merges

Ranks == 0 .. N-1
Nodes == 0 .. MaxNodes-1

ASSUME ConstantsAssumption ==
    /\ N \in Nat \ {0} /\ Fresh \in BOOLEAN
    /\ MaxNodes \in Nat /\ InitNodes \in 1 .. MaxNodes
    /\ InitEdges \in [0 .. InitNodes-1 -> Seq(0 .. InitNodes-1)]
    /\ Sources \subseteq Nodes /\ Targets \subseteq Nodes
    /\ {MaxEdges, MaxLevels, MaxMerges} \subseteq Nat

VARIABLES
    nextNode,   \* _next_new_node_id
    new,        \* new[r][v]: targets of wn_out_edges of node v
    changed,    \* changed[r]: one of the counters _newNodes, _newEdges is not 0
    levels,     \* levels[r]: the read-only graph of r and its files, level 0 first
    vertices,   \* dllama_number_of_vertices, the number of the last vertex
    current,    \* current_snapshot_level, which a merge announces
    announced,  \* received_num_vertices of r at the other ranks
    saved,      \* the last checkpoint of r: "never", "since" its last merge, or "before"
    added,      \* edges added so far
    merges      \* merges so far

saveVars == <<vertices, current, announced, saved>>
vars == <<nextNode, new, changed, levels, saveVars, added, merges>>

NumLevels(r) == Len(levels[r]) + 1

NoEdges == [v \in Nodes |-> <<>>]

Init ==
    /\ nextNode = InitNodes
    /\ new = [r \in Ranks |-> NoEdges]
    /\ changed = [r \in Ranks |-> FALSE]
    /\ levels = [r \in Ranks |-> <<NewLevel(<<>>, InitEdges, InitNodes)>>]
    /\ vertices = [r \in Ranks |-> InitNodes - 1]
    /\ current = [r \in Ranks |-> NumLevels(r)]
    /\ announced = [r \in Ranks |-> 0]
    /\ saved = [r \in Ranks |-> "never"]
    /\ added = 0
    /\ merges = 0

-----------------------------------------------------------------------------
\* add_node, at all ranks.
AddNode ==
    /\ nextNode < MaxNodes
    /\ nextNode' = nextNode + 1
    /\ changed' = [r \in Ranks |-> TRUE]
    /\ UNCHANGED <<new, levels, saveVars, added, merges>>

AddEdge(r, s, t) ==
    /\ added < MaxEdges
    /\ s < nextNode /\ t < nextNode
    /\ new' = [new EXCEPT ![r][s] = Append(@, t)]
    /\ changed' = [changed EXCEPT ![r] = TRUE]
    /\ added' = added + 1
    /\ UNCHANGED <<nextNode, levels, saveVars, merges>>

\* checkpoint: a graph without changes gets no new level.  The number of
\* the last vertex is sent with the snapshot.
Checkpoint(r) ==
    /\ Len(levels[r]) < MaxLevels
    /\ levels' = [levels EXCEPT ![r] =
                     IF changed[r] THEN Append(@, NewLevel(@, new[r], nextNode)) ELSE @]
    /\ new' = [new EXCEPT ![r] = NoEdges]
    /\ changed' = [changed EXCEPT ![r] = FALSE]
    /\ vertices' = [vertices EXCEPT ![r] = nextNode - 1]
    /\ current' = [current EXCEPT ![r] = NumLevels(r)']
    /\ announced' = [announced EXCEPT ![r] = nextNode - 1]
    /\ saved' = [saved EXCEPT ![r] = "since"]
    /\ UNCHANGED <<nextNode, added, merges>>

\* received_num_vertices of q at rank r.
LastVertex(r, q) == IF q = r THEN vertices[r] ELSE announced[q]

\* Mutant: the last vertex of a snapshot is left out.
HasVertexShort(r, q, v) == v < LastVertex(r, q)
HasVertex(r, q, v) == v <= LastVertex(r, q)

\* The order of a std::set.
Sorted(S) ==
    CHOOSE s \in [1 .. Cardinality(S) -> S] : \A i, j \in DOMAIN s : i < j => s[i] < s[j]

\* The neighbours of v that rank r gathers from the snapshots of all ranks
\* and from level 0: sorted, and each of them once.
Gathered(r, v) ==
    LET ofSnapshots(q) == IF HasVertex(r, q, v) THEN ToSet(SnapshotNeighbours(levels[q], v)) ELSE {}
        all == ToSet(Level0Neighbours(levels[r][1], v)) \cup UNION {ofSnapshots(q) : q \in Ranks}
    IN Sorted(all)

\* Mutant: a rank counts its own vertices only.
OwnMergedSize(r) == vertices[r] + 1
\* Mutant: the number of the last vertex is taken for a count.
MergedSizeOfCounts(r) == Max({LastVertex(r, q) : q \in Ranks}) + 2
MergedSize(r) == Max({LastVertex(r, q) : q \in Ranks}) + 1

\* All ranks complete a merge when each announces the last snapshot the
\* others have of it: no current_snapshot_level is from before a merge.
MergeCompletes == \A r \in Ranks : current[r] = NumLevels(r)

\* merge_snapshots and refresh_ro_graph at every rank: the new level 0
\* replaces all levels, the writable graph is kept, and what was received
\* is forgotten.
Merge ==
    /\ merges < MaxMerges
    /\ MergeCompletes
    /\ Fresh => \A r \in Ranks : saved[r] # "before"
    /\ merges' = merges + 1
    /\ levels' = [r \in Ranks |->
           <<MergedLevel([v \in 0 .. MergedSize(r) - 1 |-> Gathered(r, v)], MergedSize(r))>>]
    /\ announced' = [r \in Ranks |-> 0]
    /\ saved' = [r \in Ranks |-> IF saved[r] = "since" THEN "before" ELSE saved[r]]
    /\ UNCHANGED <<nextNode, new, changed, vertices, current, added>>

Next ==
    \/ AddNode
    \/ \E r \in Ranks, s \in Sources, t \in Targets : AddEdge(r, s, t)
    \/ \E r \in Ranks : Checkpoint(r)
    \/ Merge

Spec == Init /\ [][Next]_vars

-----------------------------------------------------------------------------
(* What a reader of rank r gets (out_iter_begin and out_iter_next, and     *)
(* out_degree, of the writable graph).                                     *)

Neighbours(r, v) ==
    Reverse(new[r][v])
        \o (IF NodeExists(levels[r], v) THEN RoNeighbours(levels[r], v) ELSE <<>>)

OutDegree(r, v) ==
    Len(new[r][v]) + (IF NodeExists(levels[r], v) THEN RoDegree(levels[r], v) ELSE 0)

-----------------------------------------------------------------------------
TypeOK ==
    /\ nextNode \in InitNodes .. MaxNodes
    /\ new \in [Ranks -> [Nodes -> Seq(Nodes)]]
    /\ changed \in [Ranks -> BOOLEAN]
    /\ \A r \in Ranks : levels[r] # <<>> /\ Latest(levels[r]).size \in InitNodes .. nextNode
    /\ vertices \in [Ranks -> 0 .. nextNode - 1]
    /\ current \in [Ranks -> Nat]
    /\ announced \in [Ranks -> 0 .. nextNode - 1]
    /\ saved \in [Ranks -> {"never", "since", "before"}]
    /\ added \in 0 .. MaxEdges
    /\ merges \in 0 .. MaxMerges

\* The degree a rank reports, which each level computes from the one below,
\* is the number of neighbours its iterator returns (ll_mlcsr_sp.h:1496-1518).
DegreesCount ==
    \A r \in Ranks, v \in 0 .. nextNode - 1 : OutDegree(r, v) = Len(Neighbours(r, v))

\* No level writes more cells than its edge table was given
\* (ll_mlcsr_sp.h:687, written to by init_node without a test).
TablesFit ==
    \A r \in Ranks : \A k \in DOMAIN levels[r] : Len(levels[r][k].cells) <= levels[r][k].capacity

\* All ranks have the same level 0, byte for byte, though each counts the
\* vertices and gathers the edges on its own, its own last vertex known and
\* those of others announced since the last merge or forgotten
\* (snapshot_merger.cpp:372-429, 136-140).  It depends on Fresh.
BasesAgree == \A p, q \in Ranks : levels[p][1] = levels[q][1]
=============================================================================
