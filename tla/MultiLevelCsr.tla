--------------------------- MODULE MultiLevelCsr ---------------------------
(***************************************************************************)
(* The multi-version compressed sparse row representation of LLAMA, as     *)
(* dllama builds it: a graph is a sequence of levels, one in each file     *)
(* csr__out__<k>.dat.  A level adds edges to the graph below it.           *)
(*                                                                         *)
(* A level has a vertex table and an edge table.  The vertex table is a    *)
(* list of pages with one entry for each node; a page that a level does    *)
(* not change is the page of an older level.  An entry says where the      *)
(* adjacency list of the node starts, how many edges it has in that        *)
(* level, and the degree of the node in all levels.  In the edge table of  *)
(* a level above 0 the edges of a node are followed by its continuation:   *)
(* the entry that the node had in the level below.                         *)
(*                                                                         *)
(* The build has LL_PERSISTENCE, LL_PRECOMPUTED_DEGREE and                 *)
(* LL_MLCSR_CONTINUATIONS, and no deletions.                               *)
(***************************************************************************)
EXTENDS Integers, Sequences

CONSTANT PageSize   \* LL_ENTRIES_PER_PAGE

ASSUME PageSizeAssumption == PageSize \in Nat \ {0}

-----------------------------------------------------------------------------
(* Vertex table entries and edge table cells.                              *)

\* ll_mlcsr_core__begin_t; level and index are the halves of adj_list_start.
Entry(level, index, length, degree) ==
    [level |-> level, index |-> index, length |-> length, degree |-> degree]

Entries == [level : Int, index : Nat, length : Nat, degree : Nat]

\* LL_NIL_EDGE: as an unsigned number its level is above all others.
NilLevel == -1
NilEntry == Entry(NilLevel, 0, 0, 0)
ZeroEntry == Entry(0, 0, 0, 0)

\* A cell holds the target of an edge, or the first or second half of a
\* continuation.  Unset stands for memory nobody has written.
Unset == -1
EdgeTo(t) == [target |-> t, entry |-> NilEntry]
Continuation(e) == <<[target |-> Unset, entry |-> e], EdgeTo(Unset)>>
ContinuationSize == 2

\* edge_table(level)->edge_ptr(index)
Cell(levels, level, index) ==
    IF level + 1 \in DOMAIN levels /\ index + 1 \in DOMAIN levels[level + 1].cells
    THEN levels[level + 1].cells[index + 1]
    ELSE EdgeTo(Unset)

\* The edges an entry stands for in its own level, and the entry they
\* continue.
EdgesOf(levels, e) ==
    [i \in 1 .. e.length |-> Cell(levels, e.level, e.index + i - 1).target]
NextOf(levels, e) == Cell(levels, e.level, e.index + e.length).entry

-----------------------------------------------------------------------------
(* Vertex tables.                                                          *)

ZeroPage == [level |-> 0, entries |-> [i \in 0 .. PageSize - 1 |-> ZeroEntry]]

EntryAt(pages, v) == pages[v \div PageSize].entries[v % PageSize]

\* Room for four more entries than nodes.
NumPages(size) == (size + 4 + PageSize - 1) \div PageSize

\* cow_init: all pages are those of the previous level.
InheritedPages(prev, size) ==
    [p \in 0 .. NumPages(size) - 1 |-> IF p \in DOMAIN prev.pages THEN prev.pages[p] ELSE ZeroPage]

\* Mutant: the chunk table keeps the level of the page that was copied.
CowWriteUnowned(pages, level, v, e) ==
    [pages EXCEPT ![v \div PageSize].entries[v % PageSize] = e]

\* cow_write: the page becomes one of this level when it is first written.
CowWrite(pages, level, v, e) ==
    [pages EXCEPT ![v \div PageSize] =
        [level |-> level, entries |-> [@.entries EXCEPT ![v % PageSize] = e]]]

-----------------------------------------------------------------------------
(* A new level.                                                            *)

NoLevel == [size |-> 0, pages |-> <<>>, cells |-> <<>>, capacity |-> 0]

\* The entry of v in the previous level.
Previous(prev, v) == IF v < prev.size THEN EntryAt(prev.pages, v) ELSE NilEntry

\* Mutant: the degree is that of the new edges only.
NewDegreeAlone(old, targets) == Len(targets)
NewDegree(old, targets) ==
    Len(targets) + (IF old.level # NilLevel THEN old.degree ELSE 0)

\* Mutant: a node with new edges is continued by nothing.
ContinuationOfNothing(k, old, targets) ==
    IF k > 0 /\ targets # <<>> THEN Continuation(NilEntry) ELSE <<>>
ContinuationCells(k, old, targets) ==
    IF k > 0 /\ targets # <<>> THEN Continuation(old) ELSE <<>>

\* init_node, and write_values of its new edges.  A level above 0 leaves the
\* entries of nodes without new edges alone, but for nodes it is the first
\* to have.
InitNode(prev, k, table, v, targets) ==
    LET old == Previous(prev, v)
        entry == IF targets = <<>> THEN NilEntry
                 ELSE Entry(k, Len(table.cells), Len(targets), NewDegree(old, targets))
    IN  IF k > 0 /\ targets = <<>> /\ v < prev.size
        THEN table
        ELSE [pages |-> CowWrite(table.pages, k, v, entry),
              cells |-> table.cells \o [i \in DOMAIN targets |-> EdgeTo(targets[i])]
                            \o ContinuationCells(k, old, targets)]

\* Mutant: the edge table has no room for continuations.
ValuesLengthOfEdges(k, lists, edges) == edges
\* values_length: the number of cells the edge table is given.
ValuesLength(k, lists, edges) ==
    IF k = 0 THEN edges ELSE edges + (lists + 4) * ContinuationSize

\* init_level_from_degrees, with the new edges of each node; the vertex
\* table ends with an entry for no node.
NewLevel(levels, new, size) ==
    LET k == Len(levels)
        prev == IF k = 0 THEN NoLevel ELSE levels[k]
        table[v \in 0 .. size] ==
            IF v = 0 THEN [pages |-> InheritedPages(prev, size), cells |-> <<>>]
            ELSE InitNode(prev, k, table[v - 1], v - 1, new[v - 1])
        edges[v \in 0 .. size] == IF v = 0 THEN 0 ELSE edges[v - 1] + Len(new[v - 1])
        lists[v \in 0 .. size] ==
            IF v = 0 THEN 0 ELSE lists[v - 1] + (IF new[v - 1] = <<>> THEN 0 ELSE 1)
        end == Entry(k, Len(table[size].cells), 0, 0)
    IN  [size |-> size,
         pages |-> CowWrite(table[size].pages, k, size, end),
         cells |-> table[size].cells,
         capacity |-> ValuesLength(k, lists[size], edges[size])]

-----------------------------------------------------------------------------
(* Reading the graph in memory.                                            *)

Latest(levels) == levels[Len(levels)]

\* A node without edges does not exist for the read-only graph.
NodeExists(levels, v) ==
    v < Latest(levels).size /\ EntryAt(Latest(levels).pages, v).degree # 0

RoDegree(levels, v) == EntryAt(Latest(levels).pages, v).degree

\* iter_begin, and iter_next until the end: the edges of the newest level
\* that has some, then those of its continuation, down to level 0 or to an
\* entry without edges.
RoNeighbours(levels, v) ==
    LET read[e \in Entries] ==
            IF e.length = 0 THEN <<>>
            ELSE EdgesOf(levels, e)
                     \o (IF e.level = 0 THEN <<>> ELSE read[NextOf(levels, e)])
    IN read[EntryAt(Latest(levels).pages, v)]

-----------------------------------------------------------------------------
(* Reading the files of a rank, level 0 excepted (snapshot_manager).       *)

\* Mutant: a snapshot is read like level 0, without continuations.
FileNeighboursAlone(levels, first) == IF first.level = 0 THEN <<>> ELSE EdgesOf(levels, first)

\* The loop of get_neighbours_of_vertex: it ends at an entry of level 0, and
\* when it has read as many edges as the node has.
FileNeighbours(levels, first) ==
    LET read[p \in Entries \X Int] ==
            LET e == p[1]
                left == p[2]
            IN  IF e.level = 0 THEN <<>>
                ELSE EdgesOf(levels, e)
                         \o (IF left > e.length THEN read[<<NextOf(levels, e), left - e.length>>]
                             ELSE <<>>)
    IN read[<<first, first.degree>>]

\* The page of a node is in the file its level says.  A page of level 0 has
\* no edges of snapshots.
SnapshotNeighbours(levels, v) ==
    LET k == Latest(levels).pages[v \div PageSize].level
    IN IF Len(levels) = 1 \/ k = 0 THEN <<>>
       ELSE FileNeighbours(levels, EntryAt(levels[k + 1].pages, v))

\* get_level_0_neighbours_of_vertex: the file of level 0 is all it reads.
Level0Neighbours(base, v) ==
    IF v < base.size THEN EdgesOf(<<base>>, EntryAt(base.pages, v)) ELSE <<>>

-----------------------------------------------------------------------------
(* The level 0 a merge writes.                                             *)

\* merge_snapshots_helper and write_merged_snapshot, with the merged
\* adjacency list of each node.  Every node has an entry of level 0, also
\* one without edges.
MergedLevel(lists, size) ==
    LET cells[v \in 0 .. size] ==
            IF v = 0 THEN <<>>
            ELSE cells[v - 1] \o [i \in DOMAIN lists[v - 1] |-> EdgeTo(lists[v - 1][i])]
        entry(v) == IF v < size
                    THEN Entry(0, Len(cells[v]), Len(lists[v]), Len(lists[v]))
                    ELSE ZeroEntry
    IN  [size |-> size,
         pages |-> [p \in 0 .. (size + PageSize - 1) \div PageSize - 1 |->
                       [level |-> 0,
                        entries |-> [i \in 0 .. PageSize - 1 |-> entry(p * PageSize + i)]]],
         cells |-> cells[size],
         capacity |-> Len(cells[size])]
=============================================================================
