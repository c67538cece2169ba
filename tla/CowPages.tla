------------------------------ MODULE CowPages ------------------------------
(* The levels of a property in memory: the page manager of ll_page_manager.h, *)
(* the copy-on-write tables of ll_mem_array.h, and threads that add to values *)
(* of the newest level (cow_write_add of ll_mlcsr_properties.h).              *)
(*                                                                            *)
(* Levels, pages and threads are numbered from 0. A table is the indirection  *)
(* table of a level with its page ids; it has the number of the level that    *)
(* allocated it. A slot of a table is numbered from 1, the last one is the    *)
(* extra page past the end.                                                   *)
EXTENDS Integers, FiniteSets, SequencesExt

CONSTANTS
    ThreadCount,   \* the threads that add
    Share,         \* thread -> the nodes it adds to
    Sizes,         \* the numbers of pages a level may have
    PageLength,    \* values per page
    Junk,          \* what a read through uninitialised memory may return
    MaxLevels,     \* bound: levels created
    MaxAdds        \* bound: additions begun

Threads == 0 .. ThreadCount - 1
Entry   == 0 .. PageLength - 1
None    == -1
Link    == -1      \* what the free list writes over the first value of a page
Keep    == 2       \* swc_keep of the driver: the versions that are not deleted

ASSUME CowAssumption == /\ ThreadCount \in Nat \ {0} /\ PageLength \in Nat \ {0}
                        /\ Share \in [Threads -> SUBSET Nat]
                        /\ Sizes \subseteq Nat \ {0} /\ Junk \subseteq Nat
                        /\ MaxLevels \in Nat /\ MaxAdds \in Nat

VARIABLES
    newest,    \* _max_level
    live,      \* the levels that exist
    size,      \* level -> _pages
    table,     \* level -> its table
    tables,    \* the tables that are allocated
    ptr,       \* table -> slot -> page: _indirection
    ids,       \* table -> slot -> page: _page_ids
    modified,  \* _modified_pages # 0 in the newest level
    pm,        \* the page manager
    lock,      \* the holder of _cow_spinlock of the newest level
    pc, node, value, page, pageId,   \* the threads and their local variables
    torn,      \* the threads that read their value in an unfilled table
    started,   \* additions begun
    added,     \* additions ended
    closing    \* the destructor of the collection runs

levelVars  == <<newest, live, size, table>>
tableVars  == <<tables, ptr, ids>>
threadVars == <<pc, node, value, page, pageId>>
addVars    == <<torn, started, added, closing>>
vars == <<levelVars, tableVars, modified, pm, lock, threadVars, addVars>>

Init ==
    /\ newest = -1 /\ live = {} /\ size = <<>> /\ table = <<>>
    /\ tables = {} /\ ptr = <<>> /\ ids = <<>> /\ modified = FALSE
    /\ pm = [refs |-> <<>>, mem |-> <<>>, zero |-> None,
             free |-> [t \in Threads |-> <<>>]]
    /\ lock = None
    /\ pc = [t \in Threads |-> "idle"] /\ node = [t \in Threads |-> None]
    /\ value = [t \in Threads |-> 0]
    /\ page = [t \in Threads |-> None] /\ pageId = [t \in Threads |-> None]
    /\ torn = {} /\ started = 0 /\ added = 0 /\ closing = FALSE

----------------------------------------------------------------------------
(* The page manager: operators from one of its states to the next.            *)

Zeros == [e \in Entry |-> 0]

\* A table or a map with the value v at x, whether it had one there or not.
With(f, x, v) == [y \in DOMAIN f \cup {x} |-> IF y = x THEN v ELSE f[y]]

(* allocate(): the first page of the first free list that has one, from the   *)
(* thread's own list on, else a new page; zeroed, with one reference.         *)
Allocate(m, t) ==
    LET full == {i \in 0 .. ThreadCount - 1 : m.free[(t + i) % ThreadCount] # <<>>}
        k    == (t + CHOOSE i \in full : \A j \in full : i <= j) % ThreadCount
        p    == IF full = {} THEN Cardinality(DOMAIN m.refs) ELSE Head(m.free[k])
    IN  [page |-> p,
         pm |-> [m EXCEPT !.refs = With(@, p, 1), !.mem = With(@, p, Zeros),
                          !.free = IF full = {} THEN m.free
                                   ELSE [m.free EXCEPT ![k] = Tail(@)]]]

(* release_page(): the count, not the page, is compared with the zero page.   *)
Release(m, t, p) ==
    LET n == m.refs[p] - 1
        counted == [m EXCEPT !.refs[p] = n]
    IN  IF n = 0 /\ n # m.zero
        THEN [counted EXCEPT !.mem[p][0] = Link, !.free[t] = <<p>> \o @]
        ELSE counted

(* acquire_pages(): one more reference for each slot that has the page.       *)
Acquire(m, pages) ==
    [m EXCEPT !.refs = [p \in DOMAIN @ |->
        @[p] + Cardinality({i \in DOMAIN pages : pages[i] = p})]]

\* Mutant: a new zero page has one reference, whatever the count.
ZeroPageOnce(m, count) ==
    IF m.zero >= 0
    THEN [page |-> m.zero, pm |-> [m EXCEPT !.refs[m.zero] = @ + count]]
    ELSE LET a == Allocate(m, 0)
         IN  [page |-> a.page, pm |-> [a.pm EXCEPT !.zero = a.page]]

(* zero_page(): the zero page, with count more references.                    *)
ZeroPage(m, count) ==
    IF m.zero >= 0
    THEN [page |-> m.zero, pm |-> [m EXCEPT !.refs[m.zero] = @ + count]]
    ELSE LET a == Allocate(m, 0)
         IN  [page |-> a.page,
              pm |-> [a.pm EXCEPT !.zero = a.page, !.refs[a.page] = count]]

(* allocate() of a range, and release_pages(), by the one thread there is.    *)
AllocateRange(m, count) ==
    LET after[i \in 0 .. count] ==
            IF i = 0 THEN [pages |-> <<>>, pm |-> m]
            ELSE LET b == after[i - 1]
                     a == Allocate(b.pm, 0)
                 IN  [pages |-> Append(b.pages, a.page), pm |-> a.pm]
    IN  after[count]

ReleasePages(m, pages) ==
    LET after[i \in 0 .. Len(pages)] ==
            IF i = 0 THEN m ELSE Release(after[i - 1], 0, pages[i])
    IN  after[Len(pages)]

----------------------------------------------------------------------------
(* Levels come and go while no thread adds.                                   *)

Quiet == \A t \in Threads : pc[t] = "idle"

AddLevel(l, k, tbl) ==
    /\ newest' = l /\ live' = live \cup {l}
    /\ size' = With(size, l, k)
    /\ table' = With(table, l, tbl)

OwnTable(l, pages) ==
    /\ tables' = tables \cup {l}
    /\ ptr' = With(ptr, l, pages)
    /\ ids' = With(ids, l, pages)

(* dense_init(): the first level has pages of its own.                        *)
DenseInit(k) ==
    LET l == newest + 1
        r == AllocateRange(pm, k + 1)
    IN  /\ Quiet /\ ~ closing /\ live = {} /\ l < MaxLevels
        /\ AddLevel(l, k, l)
        /\ OwnTable(l, r.pages)
        /\ pm' = r.pm
        /\ modified' = TRUE
        /\ UNCHANGED <<lock, threadVars, addVars>>

(* cow_init() with no more pages than before: the table is shared.            *)
CowInitShared(k) ==
    LET l == newest + 1 IN
    /\ Quiet /\ ~ closing /\ live # {} /\ l < MaxLevels
    /\ k = size[newest]
    /\ AddLevel(l, k, table[newest])
    /\ pm' = Acquire(pm, SubSeq(ids[table[newest]], 1, k + 1))
    /\ modified' = FALSE
    /\ UNCHANGED <<tableVars, lock, threadVars, addVars>>

\* Mutant: the copied slots are not acquired.
CowInitLargerFree(k) ==
    LET l   == newest + 1
        mp  == size[newest]
        old == SubSeq(ids[table[newest]], 1, mp)
        z   == ZeroPage(pm, k + 1 - mp)
    IN  /\ Quiet /\ ~ closing /\ live # {} /\ l < MaxLevels
        /\ k > mp
        /\ AddLevel(l, k, l)
        /\ OwnTable(l, [i \in 1 .. k + 1 |-> IF i <= mp THEN old[i] ELSE z.page])
        /\ pm' = z.pm
        /\ modified' = FALSE
        /\ UNCHANGED <<lock, threadVars, addVars>>

(* cow_init() of a larger level: copy_indirection_range() copies the slots,   *)
(* but for the extra one, and fills up with the zero page.                    *)
CowInitLarger(k) ==
    LET l   == newest + 1
        mp  == size[newest]
        old == SubSeq(ids[table[newest]], 1, mp)
        z   == ZeroPage(Acquire(pm, old), k + 1 - mp)
    IN  /\ Quiet /\ ~ closing /\ live # {} /\ l < MaxLevels
        /\ k > mp
        /\ AddLevel(l, k, l)
        /\ OwnTable(l, [i \in 1 .. k + 1 |-> IF i <= mp THEN old[i] ELSE z.page])
        /\ pm' = z.pm
        /\ modified' = FALSE
        /\ UNCHANGED <<lock, threadVars, addVars>>

\* Mutant: only the level before is asked for the table.
DeleteAsksOne(l) ==
    /\ live' = live \ {l}
    /\ pm' = ReleasePages(pm, SubSeq(ids[table[l]], 1, size[l] + 1))
    /\ tables' = IF \E k \in live \cap {l - 1} : table[k] = table[l]
                 THEN tables ELSE tables \ {table[l]}
    /\ UNCHANGED <<newest, size, table, ptr, ids, modified, lock, threadVars>>

(* delete_level(): the table stays while a neighbour has it.                  *)
Delete(l) ==
    /\ live' = live \ {l}
    /\ pm' = ReleasePages(pm, SubSeq(ids[table[l]], 1, size[l] + 1))
    /\ tables' = IF \E k \in live \cap {l - 1, l + 1} : table[k] = table[l]
                 THEN tables ELSE tables \ {table[l]}
    /\ UNCHANGED <<newest, size, table, ptr, ids, modified, lock, threadVars>>

(* keep_only_recent_levels(), from the oldest level on.                       *)
DeleteOldest ==
    /\ Quiet /\ ~ closing
    /\ \E l \in live : (\A k \in live : l <= k) /\ l <= newest - Keep /\ Delete(l)
    /\ UNCHANGED addVars

(* The destructor of the collection, from the newest level on.                *)
Destroy ==
    /\ Quiet /\ live # {}
    /\ closing' = TRUE
    /\ \E l \in live : (\A k \in live : l >= k) /\ Delete(l)
    /\ UNCHANGED <<torn, started, added>>

----------------------------------------------------------------------------
(* cow_write_add() of thread t in the newest level.                           *)

Slot(n)  == n \div PageLength + 1
Place(t) == node[t] % PageLength
Tab      == table[newest]
Goto(t, label) == pc' = [pc EXCEPT ![t] = label]

(* acquire_for(node): the nodes of two additions are not the same.            *)
BeginAdd(t) ==
    /\ pc[t] = "idle" /\ ~ closing /\ live # {} /\ started < MaxAdds
    /\ \E n \in Share[t] :
          /\ n < size[newest] * PageLength
          /\ \A u \in Threads : node[u] # n
          /\ node' = [node EXCEPT ![t] = n]
    /\ started' = started + 1
    /\ Goto(t, "get")
    /\ UNCHANGED <<levelVars, tableVars, modified, pm, lock, value, page, pageId,
                   torn, added, closing>>

(* A table is being taken off the level before: the newest level already has  *)
(* it, its slots are not written yet.                                         *)
Unfilled == \E t \in Threads : pc[t] = "fill"

(* get(node) takes no lock: in an unfilled table it may follow any pointer.   *)
Get(t) ==
    /\ pc[t] = "get"
    /\ \E x \in {pm.mem[ptr[Tab][Slot(node[t])]][Place(t)]}
                \cup (IF Unfilled THEN Junk ELSE {}) :
          value' = [value EXCEPT ![t] = x + 1]
    /\ torn' = IF Unfilled THEN torn \cup {t} ELSE torn
    /\ Goto(t, IF modified THEN "readPage" ELSE "detach")
    /\ UNCHANGED <<levelVars, tableVars, modified, pm, lock, node, page, pageId,
                   started, added, closing>>

\* Mutant: a shared table is written as it is.
DetachNot(t) ==
    /\ pc[t] = "detach" /\ lock = None
    /\ Goto(t, "readPage")
    /\ UNCHANGED <<levelVars, tableVars, modified, pm, lock, node, value, page, pageId,
                   addVars>>

(* The first write of a level takes its table off the level before, under the *)
(* lock; the arrays of the new one are stored first.                          *)
Detach(t) ==
    /\ pc[t] = "detach" /\ lock = None
    /\ IF ~ modified /\ Tab = table[newest - 1]
       THEN lock' = t /\ Goto(t, "fill")
       ELSE UNCHANGED lock /\ Goto(t, "readPage")
    /\ UNCHANGED <<levelVars, tableVars, modified, pm, node, value, page, pageId,
                   addVars>>

(* Then they are filled. Until here the level keeps its row of table, which   *)
(* only get(node) reads, and knows to be unfilled.                            *)
FillTable(t) ==
    /\ pc[t] = "fill"
    /\ OwnTable(newest, SubSeq(ptr[Tab], 1, size[newest] + 1))
    /\ table' = [table EXCEPT ![newest] = newest]
    /\ lock' = None
    /\ Goto(t, "readPage")
    /\ UNCHANGED <<newest, live, size, modified, pm, node, value, page, pageId, addVars>>

(* Without the lock: the page, its id and its count are read one by one.      *)
ReadPage(t) ==
    /\ pc[t] = "readPage"
    /\ page' = [page EXCEPT ![t] = ptr[Tab][Slot(node[t])]]
    /\ Goto(t, "readId")
    /\ UNCHANGED <<levelVars, tableVars, modified, pm, lock, node, value, pageId, addVars>>

ReadId(t) ==
    /\ pc[t] = "readId"
    /\ pageId' = [pageId EXCEPT ![t] = ids[Tab][Slot(node[t])]]
    /\ Goto(t, "test")
    /\ UNCHANGED <<levelVars, tableVars, modified, pm, lock, node, value, page, addVars>>

TestCount(t) ==
    /\ pc[t] = "test"
    /\ Goto(t, IF pm.refs[pageId[t]] = 1 THEN "write" ELSE "lock")
    /\ UNCHANGED <<levelVars, tableVars, modified, pm, lock, node, value, page, pageId,
                   addVars>>

Lock(t) ==
    /\ pc[t] = "lock" /\ lock = None
    /\ lock' = t
    /\ page' = [page EXCEPT ![t] = ptr[Tab][Slot(node[t])]]
    /\ pageId' = [pageId EXCEPT ![t] = ids[Tab][Slot(node[t])]]
    /\ Goto(t, IF pm.refs[pageId'[t]] = 1 THEN "write" ELSE "allocate")
    /\ UNCHANGED <<levelVars, tableVars, modified, pm, node, value, addVars>>

(* cow(): allocate() stores the new page in the table before it is filled.    *)
AllocateCopy(t) ==
    /\ pc[t] = "allocate"
    /\ LET a == Allocate(pm, t)
       IN  pm' = a.pm /\ ptr' = [ptr EXCEPT ![Tab][Slot(node[t])] = a.page]
    /\ Goto(t, "copy")
    /\ UNCHANGED <<levelVars, tables, ids, modified, lock, node, value, page, pageId,
                   addVars>>

CopyPage(t) ==
    /\ pc[t] = "copy"
    /\ pm' = [pm EXCEPT !.mem[ptr[Tab][Slot(node[t])]] = pm.mem[page[t]]]
    /\ Goto(t, "drop")
    /\ UNCHANGED <<levelVars, tableVars, modified, lock, node, value, page, pageId, addVars>>

DropOld(t) ==
    /\ pc[t] = "drop"
    /\ pm' = Release(pm, t, pageId[t])
    /\ Goto(t, "setId")
    /\ UNCHANGED <<levelVars, tableVars, modified, lock, node, value, page, pageId, addVars>>

SetId(t) ==
    /\ pc[t] = "setId"
    /\ ids' = [ids EXCEPT ![Tab][Slot(node[t])] = ptr[Tab][Slot(node[t])]]
    /\ page' = [page EXCEPT ![t] = ptr[Tab][Slot(node[t])]]
    /\ modified' = TRUE
    /\ Goto(t, "write")
    /\ UNCHANGED <<levelVars, tables, ptr, pm, lock, node, value, pageId, addVars>>

(* The value is stored, with or without the lock, and both locks are left.    *)
Write(t) ==
    /\ pc[t] = "write"
    /\ pm' = [pm EXCEPT !.mem[page[t]][Place(t)] = value[t]]
    /\ lock' = IF lock = t THEN None ELSE lock
    /\ node' = [node EXCEPT ![t] = None] /\ value' = [value EXCEPT ![t] = 0]
    /\ page' = [page EXCEPT ![t] = None] /\ pageId' = [pageId EXCEPT ![t] = None]
    /\ added' = added + 1
    /\ torn' = torn \ {t}
    /\ Goto(t, "idle")
    /\ UNCHANGED <<levelVars, tableVars, modified, started, closing>>

AddStep(t) == \/ BeginAdd(t) \/ Get(t) \/ Detach(t) \/ FillTable(t) \/ ReadPage(t)
              \/ ReadId(t) \/ TestCount(t) \/ Lock(t) \/ AllocateCopy(t)
              \/ CopyPage(t) \/ DropOld(t) \/ SetId(t) \/ Write(t)

Gone == closing /\ live = {}

Next == \/ \E k \in Sizes : DenseInit(k) \/ CowInitShared(k) \/ CowInitLarger(k)
        \/ DeleteOldest \/ Destroy
        \/ \E t \in Threads : AddStep(t)
        \/ Gone /\ UNCHANGED vars
Spec == Init /\ [][Next]_vars

----------------------------------------------------------------------------
(* Properties.                                                                *)

Pages == DOMAIN pm.refs
SlotsOf(l) == 1 .. size[l] + 1
FreePages  == UNION {ToSet(pm.free[t]) : t \in Threads}

TypeOK ==
    /\ newest \in -1 .. MaxLevels - 1 /\ live \subseteq 0 .. newest
    /\ DOMAIN size = 0 .. newest /\ DOMAIN table = 0 .. newest
    /\ Range(size) \subseteq Sizes /\ tables \subseteq Range(table)
    /\ \A l \in tables : /\ Range(ptr[l]) \subseteq Pages /\ Range(ids[l]) \subseteq Pages
                         /\ Len(ptr[l]) = Len(ids[l])
    /\ pm.refs \in [Pages -> Nat] /\ pm.zero \in Pages \cup {None}
    /\ pm.mem \in [Pages -> [Entry -> Nat \cup {Link}]]
    /\ lock \in Threads \cup {None} /\ node \in [Threads -> Nat \cup {None}]
    /\ value \in [Threads -> Nat] /\ torn \subseteq Threads /\ added <= started

(* A page has one reference for each slot of each level that shows it,        *)
(* although levels share tables, or copy them, and pages are replaced in one  *)
(* level only. The pages without a reference are those on the free lists,     *)
(* unless the zero page is page 0: release_page() then takes the count 0 for  *)
(* it and puts no page on a list any more.                                    *)
Shows(p) == UNION {{<<l, i>> : i \in {j \in SlotsOf(l) : ids[table[l]][j] = p}} : l \in live}
CountsExact ==
    lock = None => \A p \in Pages : /\ pm.refs[p] = Cardinality(Shows(p))
                                    /\ p \in FreePages => pm.refs[p] = 0
                                    /\ pm.zero # 0 /\ pm.refs[p] = 0 => p \in FreePages

(* No level shows a page of a free list, which is given out again, at any     *)
(* moment of a copy.                                                          *)
FreeApart ==
    /\ \A l \in live : \A i \in SlotsOf(l) :
          {ptr[table[l]][i], ids[table[l]][i]} \cap FreePages = {}
    /\ \A t, u \in Threads : \A i \in DOMAIN pm.free[t], j \in DOMAIN pm.free[u] :
          pm.free[t][i] = pm.free[u][j] => t = u /\ i = j

(* A table is freed by the last level that has it: neither before nor never.  *)
TablesKept == tables = {table[l] : l \in live}

(* The values of a level; while a page is copied, those of its source.        *)
PageOf(l, n) ==
    LET copying == {t \in Threads : pc[t] = "copy" /\ Slot(node[t]) = Slot(n)}
    IN  IF l = newest /\ copying # {}
        THEN page[CHOOSE t \in copying : TRUE]
        ELSE ptr[table[l]][Slot(n)]
Version(l) == [n \in 0 .. size[l] * PageLength - 1 |-> pm.mem[PageOf(l, n)][n % PageLength]]

(* Older levels are as they were, and the newest one has each addition once;  *)
(* only one that read its value while the table of a level no one had written *)
(* to yet was being filled may store a wrong value, and in its own node.      *)
VA == INSTANCE VersionedArray WITH version <- [l \in live |-> Version(l)],
                                   torn <- {node[t] : t \in torn}
ImplementsVersions == VA!Spec

(* "Direct write into a COW property: Atomically add": when no thread adds,   *)
(* the values of the newest level are what was added.                         *)
AddsKept ==
    Quiet /\ live # {} /\ ~ closing =>
        FoldFunction(LAMBDA a, b : a + b, 0, Version(newest)) = added
=============================================================================
