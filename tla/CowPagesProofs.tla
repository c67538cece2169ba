--------------------------- MODULE CowPagesProofs ---------------------------
(* Proofs about CowPages for every number of threads, pages and levels.       *)
EXTENDS CowPages, FiniteSetTheorems, NaturalsInduction, WellFoundedInduction, TLAPS

----------------------------------------------------------------------------
(* The inductive invariant behind TablesKept. Delete asks only the neighbours *)
(* of a level whether they have its table, so the proof is about which levels *)
(* share one: levels in a row, of which none is missing.                      *)

(* The levels that exist are in a row; the newest two are never deleted       *)
(* before the destructor runs, and it runs when no thread adds. None adds     *)
(* before there is a level.                                                   *)
LevelsInRow ==
    /\ newest \in Int /\ newest >= -1 /\ live \subseteq 0 .. newest
    /\ \A a, b \in live : \A c \in a .. b : c \in live
    /\ live = {} => newest = -1 \/ closing
    /\ ~ closing /\ newest >= 0 => newest \in live
    /\ ~ closing /\ newest >= 1 => newest - 1 \in live
    /\ closing \/ newest = -1 => Quiet

(* A level has a table of its own or that of a level before; levels that      *)
(* share a table are in a row. The first level counts as modified, so that a  *)
(* thread does not look for a level before it.                                *)
TablesInRow ==
    /\ table \in [0 .. newest -> Nat]
    /\ \A l \in 0 .. newest : table[l] \in 0 .. l
    /\ \A a, b \in 0 .. newest : \A c \in a .. b :
          table[a] = table[b] => table[c] = table[a]
    /\ newest = 0 => modified

(* Who has the lock by its label. Who fills a table has found the newest level *)
(* with the table of the level before, and nobody else writes meanwhile.      *)
Holders == {"fill", "allocate", "copy", "drop", "setId"}
FillInRow ==
    /\ DOMAIN pc = Threads
    /\ \A t \in Threads : pc[t] \in Holders => lock = t
    /\ \A t \in Threads : pc[t] = "fill" =>
          ~ modified /\ newest >= 1 /\ Tab = table[newest - 1]

RowInv == LevelsInRow /\ TablesInRow /\ TablesKept /\ FillInRow

(* The variables that RowInv is about. *)
rowVars == <<newest, live, table, tables, modified, closing, lock, pc>>

(* A step that leaves them alone keeps the invariant. *)
LEMMA RowStays == ASSUME RowInv, UNCHANGED rowVars PROVE RowInv'
  <1>1. /\ newest' = newest /\ live' = live /\ table' = table /\ tables' = tables
        /\ modified' = modified /\ closing' = closing /\ lock' = lock /\ pc' = pc
    BY DEF rowVars
  <1>2. LevelsInRow'
    BY <1>1 DEF RowInv, LevelsInRow, Quiet
  <1>3. TablesInRow'
    BY <1>1 DEF RowInv, TablesInRow
  <1>4. TablesKept'
    BY <1>1 DEF RowInv, TablesKept
  <1>5. FillInRow'
    BY <1>1 DEF RowInv, FillInRow, Tab
  <1> QED BY <1>2, <1>3, <1>4, <1>5 DEF RowInv

(* Where there is a level, one is the newest. *)
LEMMA HasLevel ==
    ASSUME RowInv, live # {} PROVE newest \in Int /\ newest >= 0
  <1>1. PICK x \in live : TRUE
    OBVIOUS
  <1>2. newest \in Int /\ x \in 0 .. newest
    BY DEF RowInv, LevelsInRow
  <1> QED BY <1>2

(* A new level, with a table of its own or that of the newest level.          *)
LEMMA NewLevel ==
    ASSUME RowInv, NEW k, NEW tbl, AddLevel(newest + 1, k, tbl),
           ~ closing, closing' = closing,
           \/ /\ tbl = newest + 1 /\ tables' = tables \cup {newest + 1}
           \/ /\ live # {} /\ tbl = table[newest] /\ tables' = tables,
           newest = -1 => modified'
    PROVE  LevelsInRow' /\ TablesInRow' /\ TablesKept'
  <1> DEFINE l == newest + 1
  <1>1. /\ newest \in Int /\ newest >= -1 /\ live \subseteq 0 .. newest
        /\ \A a, b \in live : \A c \in a .. b : c \in live
        /\ newest >= 0 => newest \in live
        /\ live # {} => newest >= 0
    BY HasLevel DEF RowInv, LevelsInRow
  <1>2. /\ table \in [0 .. newest -> Nat]
        /\ \A x \in 0 .. newest : table[x] \in 0 .. x
        /\ \A a, b \in 0 .. newest : \A c \in a .. b :
              table[a] = table[b] => table[c] = table[a]
    BY DEF RowInv, TablesInRow
  <1>3. newest' = l /\ live' = live \cup {l} /\ table' = With(table, l, tbl)
    BY DEF AddLevel
  <1>4. 0 .. newest' = (0 .. newest) \cup {l} /\ ~ (l \in 0 .. newest) /\ l \in Nat
    BY <1>1, <1>3
  <1>5. /\ table' \in [0 .. newest' -> Nat]
        /\ table'[l] = tbl
        /\ \A x \in 0 .. newest : table'[x] = table[x]
    <2>1. tbl \in Nat
      BY <1>1, <1>2, <1>4
    <2> HIDE DEF l
    <2>2. /\ With(table, l, tbl) \in [(0 .. newest) \cup {l} -> Nat]
          /\ With(table, l, tbl)[l] = tbl
          /\ \A y \in 0 .. newest : y # l => With(table, l, tbl)[y] = table[y]
      BY <2>1, <1>2 DEF With
    <2> QED BY <2>2, <1>3, <1>4
  <1>6. tbl = l \/ (newest \in live /\ tbl = table[newest])
    BY <1>1
  <1>7. \A x \in 0 .. newest' : table'[x] \in 0 .. x
    <2> SUFFICES ASSUME NEW x \in 0 .. newest' PROVE table'[x] \in 0 .. x
      OBVIOUS
    <2>1. CASE x \in 0 .. newest
      BY <2>1, <1>2, <1>5
    <2>2. CASE x = l
      <3>1. CASE tbl = l
        BY <2>2, <3>1, <1>5, <1>4
      <3>2. CASE newest \in live /\ tbl = table[newest]
        <4>1. table[newest] \in 0 .. newest
          BY <3>2, <1>1, <1>2
        <4> QED BY <4>1, <3>2, <2>2, <1>5, <1>1
      <3> QED BY <3>1, <3>2, <1>6
    <2> QED BY <2>1, <2>2, <1>4
  <1>8. \A a, b \in 0 .. newest' : \A c \in a .. b :
           table'[a] = table'[b] => table'[c] = table'[a]
    <2> SUFFICES ASSUME NEW a \in 0 .. newest', NEW b \in 0 .. newest', NEW c \in a .. b,
                        table'[a] = table'[b]
                 PROVE  table'[c] = table'[a]
      OBVIOUS
    <2>1. CASE b \in 0 .. newest
      <3>1. a \in 0 .. newest /\ c \in 0 .. newest
        BY <2>1, <1>1, <1>3
      <3> QED BY <2>1, <3>1, <1>2, <1>5
    <2>2. CASE b = l /\ a = l
      <3>1. c = l
        BY <2>2, <1>4
      <3> QED BY <3>1, <2>2
    <2>3. CASE b = l /\ a \in 0 .. newest
      <3>1. table'[a] = table[a] /\ table[a] \in 0 .. a /\ table'[b] = tbl
        BY <2>3, <1>2, <1>5
      <3>2. tbl # l
        <4>1. tbl = table[a]
          BY <3>1, Zenon
        <4>2. a \in Int /\ a < l
          BY <2>3, <1>1
        <4> QED BY <4>1, <4>2, <3>1
      <3>3. newest \in 0 .. newest /\ tbl = table[newest]
        BY <3>2, <1>6, <1>1
      <3>4. table[a] = table[newest]
        BY <3>1, <3>3
      <3>5. CASE c = l
        BY <3>5, <2>3
      <3>6. CASE c # l
        <4>1. c \in a .. newest /\ c \in 0 .. newest
          BY <3>6, <2>3, <1>1
        <4>2. table[c] = table[a]
          BY <4>1, <3>3, <3>4, <2>3, <1>2
        <4> QED BY <4>1, <4>2, <3>1, <1>5
      <3> QED BY <3>5, <3>6
    <2> QED BY <2>1, <2>2, <2>3, <1>4
  <1>9. newest' = 0 => modified'
    BY <1>1, <1>3
  <1>10. LevelsInRow'
    <2>1. /\ newest' \in Int /\ newest' >= -1 /\ live' \subseteq 0 .. newest'
          /\ live' # {} /\ newest' \in live' /\ ~ closing'
          /\ newest' >= 1 => newest' - 1 \in live'
      BY <1>1, <1>3
    <2>2. \A a, b \in live' : \A c \in a .. b : c \in live'
      <3> SUFFICES ASSUME NEW a \in live', NEW b \in live', NEW c \in a .. b
                   PROVE  c \in live'
        OBVIOUS
      <3>1. CASE c = l
        BY <3>1, <1>3
      <3>2. CASE c # l
        <4>1. a \in live /\ newest \in live /\ c \in a .. newest
          BY <3>2, <1>1, <1>3
        <4> QED BY <4>1, <1>1, <1>3
      <3> QED BY <3>1, <3>2
    <2> QED BY <2>1, <2>2 DEF LevelsInRow
  <1>11. TablesKept'
    <2>1. tables = {table[x] : x \in live}
      BY DEF RowInv, TablesKept
    <2>2. \A x \in live : table'[x] = table[x]
      BY <1>1, <1>5
    <2>3. {table'[x] : x \in live'} = tables \cup {tbl}
      <3>1. {table'[x] : x \in live'} = {table'[x] : x \in live} \cup {table'[l]}
        BY <1>3
      <3> QED BY <3>1, <2>1, <2>2, <1>5
    <2>4. tables' = tables \cup {tbl}
      BY <2>1, <1>6, <1>1
    <2> QED BY <2>3, <2>4 DEF TablesKept
  <1> QED BY <1>5, <1>7, <1>8, <1>9, <1>10, <1>11 DEF TablesInRow

(* A level at either end goes: another level has its table only if the        *)
(* neighbour has it.                                                          *)
LEMMA OldLevel ==
    ASSUME RowInv, NEW l \in live, Delete(l),
           (\A k \in live : l <= k) \/ (\A k \in live : l >= k),
           \/ closing' /\ Quiet
           \/ ~ closing' /\ ~ closing /\ l <= newest - Keep
    PROVE  LevelsInRow' /\ TablesInRow' /\ TablesKept'
  <1>1. /\ newest \in Int /\ newest >= -1 /\ live \subseteq 0 .. newest
        /\ \A a, b \in live : \A c \in a .. b : c \in live
    BY DEF RowInv, LevelsInRow
  <1>2. /\ table \in [0 .. newest -> Nat]
        /\ \A x \in 0 .. newest : table[x] \in 0 .. x
        /\ \A a, b \in 0 .. newest : \A c \in a .. b :
              table[a] = table[b] => table[c] = table[a]
    BY DEF RowInv, TablesInRow
  <1>3. /\ newest' = newest /\ live' = live \ {l} /\ table' = table
        /\ modified' = modified /\ pc' = pc
    BY DEF Delete, threadVars
  <1>4. TablesInRow'
    BY <1>3 DEF RowInv, TablesInRow
  <1>5. LevelsInRow'
    <2>1. \A a, b \in live' : \A c \in a .. b : c \in live'
      BY <1>1, <1>3
    <2>2. ~ closing' => /\ newest >= 0 => newest \in live'
                        /\ newest >= 1 => newest - 1 \in live'
      BY <1>1, <1>3 DEF RowInv, LevelsInRow, Keep
    <2>3. live' = {} => newest = -1 \/ closing'
      BY <2>2, <1>1
    <2>4. closing' \/ newest' = -1 => Quiet'
      BY <1>1, <1>3 DEF Quiet, RowInv, LevelsInRow
    <2> QED BY <2>1, <2>2, <2>3, <2>4, <1>1, <1>3 DEF LevelsInRow
  <1>6. TablesKept'
    <2>1. tables = {table[x] : x \in live}
      BY DEF RowInv, TablesKept
    <2>2. ASSUME NEW k \in live', table[k] = table[l]
          PROVE  \E n \in live \cap {l - 1, l + 1} : table[n] = table[l]
      <3>1. k \in live /\ k # l /\ k \in 0 .. newest /\ l \in 0 .. newest
        BY <1>1, <1>3
      <3>2. CASE k < l
        <4>1. l - 1 \in k .. l
          BY <3>1, <3>2
        <4>2. l - 1 \in live /\ table[l - 1] = table[k]
          BY <4>1, <3>1, <2>2, <1>1, <1>2
        <4> QED BY <4>2, <2>2
      <3>3. CASE k > l
        <4>1. l + 1 \in l .. k
          BY <3>1, <3>3
        <4>2. l + 1 \in live /\ table[l + 1] = table[l]
          BY <4>1, <3>1, <2>2, <1>1, <1>2
        <4> QED BY <4>2
      <3> QED BY <3>1, <3>2, <3>3
    <2>3. CASE \E n \in live \cap {l - 1, l + 1} : table[n] = table[l]
      <3>1. PICK n \in live \cap {l - 1, l + 1} : table[n] = table[l]
        BY <2>3
      <3>2. n \in live' /\ table[n] = table[l]
        BY <3>1, <1>1, <1>3
      <3>3. tables' = tables
        BY <2>3 DEF Delete
      <3> QED BY <3>2, <3>3, <2>1, <1>3 DEF TablesKept
    <2>4. CASE ~ \E n \in live \cap {l - 1, l + 1} : table[n] = table[l]
      <3>1. tables' = tables \ {table[l]}
        BY <2>4 DEF Delete
      <3>2. \A k \in live' : table[k] # table[l]
        BY <2>2, <2>4
      <3> QED BY <3>1, <3>2, <2>1, <1>3 DEF TablesKept
    <2> QED BY <2>3, <2>4
  <1> QED BY <1>4, <1>5, <1>6

(* Nobody fills a table while levels come and go.                             *)
LEMMA NoneFills ==
    ASSUME RowInv, Quiet, pc' = pc PROVE FillInRow'
  <1>1. \A t \in Threads : pc'[t] = "idle"
    BY DEF Quiet
  <1>2. DOMAIN pc' = Threads
    BY DEF RowInv, FillInRow
  <1> QED BY <1>1, <1>2 DEF FillInRow, Holders

(* The lock and a table that is being filled: a step of one thread.           *)
LEMMA FillStays ==
    ASSUME RowInv, NEW t \in Threads, NEW b, pc' = [pc EXCEPT ![t] = b], newest' = newest,
           \/ lock' = lock /\ (b \in Holders => lock = t)
           \/ lock = None /\ lock' = t
           \/ lock = t /\ b \notin Holders,
           lock # t => modified' = modified /\ table' = table,
           b = "fill" => ~ modified' /\ newest >= 1 /\ Tab' = table'[newest - 1]
    PROVE  FillInRow'
  <1>1. /\ DOMAIN pc = Threads
        /\ \A u \in Threads : pc[u] \in Holders => lock = u
        /\ \A u \in Threads : pc[u] = "fill" =>
              ~ modified /\ newest >= 1 /\ Tab = table[newest - 1]
    BY DEF RowInv, FillInRow
  <1>2. DOMAIN pc' = Threads /\ pc'[t] = b /\ \A u \in Threads : u # t => pc'[u] = pc[u]
    BY <1>1
  <1>3. None \notin Threads
    BY CowAssumption DEF None, Threads
  <1>4. ASSUME NEW u \in Threads, pc'[u] \in Holders PROVE lock' = u
    <2>1. CASE u = t
      BY <2>1, <1>2, <1>4
    <2>2. CASE u # t
      <3>1. lock = u
        BY <2>2, <1>1, <1>2, <1>4
      <3> QED BY <3>1, <2>2, <1>3
    <2> QED BY <2>1, <2>2
  <1>5. ASSUME NEW u \in Threads, pc'[u] = "fill"
        PROVE  ~ modified' /\ newest' >= 1 /\ Tab' = table'[newest' - 1]
    <2>1. CASE u = t
      BY <2>1, <1>2, <1>5
    <2>2. CASE u # t
      <3>1. pc[u] = "fill" /\ lock = u
        BY <2>2, <1>1, <1>2, <1>5 DEF Holders
      <3>2. modified' = modified /\ table' = table
        BY <3>1, <2>2
      <3> QED BY <3>1, <3>2, <1>1 DEF Tab
    <2> QED BY <2>1, <2>2
  <1> QED BY <1>2, <1>4, <1>5 DEF FillInRow

(* The newest level takes its table off the level before, which exists.       *)
LEMMA TakenOff ==
    ASSUME RowInv, NEW t \in Threads, FillTable(t)
    PROVE  LevelsInRow' /\ TablesInRow' /\ TablesKept'
  <1>1. /\ newest \in Int /\ newest >= -1 /\ live \subseteq 0 .. newest
        /\ ~ closing /\ newest >= 0 => newest \in live
        /\ ~ closing /\ newest >= 1 => newest - 1 \in live
    BY DEF RowInv, LevelsInRow
  <1>2. /\ table \in [0 .. newest -> Nat]
        /\ \A x \in 0 .. newest : table[x] \in 0 .. x
        /\ \A a, b \in 0 .. newest : \A c \in a .. b :
              table[a] = table[b] => table[c] = table[a]
    BY DEF RowInv, TablesInRow
  <1>3. ~ closing /\ newest >= 0
    <2>1. ~ Quiet
      BY DEF FillTable, Quiet
    <2> QED BY <2>1, <1>1 DEF RowInv, LevelsInRow
  <1>4. /\ newest' = newest /\ live' = live /\ modified' = modified /\ ~ closing'
    BY <1>3 DEF FillTable, addVars
  <1>5. LevelsInRow'
    BY <1>3, <1>4, <1>1 DEF RowInv, LevelsInRow
  <1>6. newest >= 1 /\ Tab = table[newest - 1]
    BY DEF FillTable, RowInv, FillInRow
  <1>7. TablesInRow' /\ TablesKept'
    <2>1. newest >= 1
      BY <1>6
    <2>2. table' = [table EXCEPT ![newest] = newest] /\ tables' = tables \cup {newest}
      BY DEF FillTable, OwnTable
    <2>3. /\ table' \in [0 .. newest' -> Nat]
          /\ table'[newest] = newest
          /\ \A x \in 0 .. newest : x # newest => table'[x] = table[x]
      BY <2>1, <2>2, <1>1, <1>2, <1>4
    <2>4. \A x \in 0 .. newest' : table'[x] \in 0 .. x
      BY <2>1, <2>3, <1>1, <1>2, <1>4
    <2>5. \A a, b \in 0 .. newest' : \A c \in a .. b :
             table'[a] = table'[b] => table'[c] = table'[a]
      <3> SUFFICES ASSUME NEW a \in 0 .. newest, NEW b \in 0 .. newest, NEW c \in a .. b,
                          table'[a] = table'[b]
                   PROVE  table'[c] = table'[a]
        BY <1>4
      <3>1. CASE b # newest
        <4>1. /\ a \in 0 .. newest /\ b \in 0 .. newest /\ c \in 0 .. newest
              /\ a # newest /\ c # newest
          BY <3>1, <1>1
        <4>2. table[a] = table[b]
          BY <4>1, <3>1, <2>3
        <4>3. table[c] = table[a]
          BY <4>2, <1>2
        <4> QED BY <4>1, <4>3, <2>3
      <3>2. CASE b = newest
        <4>1. a = newest
          <5> SUFFICES ASSUME a # newest PROVE FALSE
            OBVIOUS
          <5>1. table'[a] = table[a] /\ table[a] \in 0 .. a /\ table'[b] = newest
            BY <3>2, <2>3, <1>2
          <5>2. newest = table[a]
            BY <5>1, Zenon
          <5>3. a \in Int /\ a < newest
            BY <1>1
          <5> QED BY <5>1, <5>2, <5>3
        <4>2. c = newest
          BY <4>1, <3>2, <1>1
        <4> QED BY <4>1, <4>2
      <3> QED BY <3>1, <3>2
    <2>6. TablesKept'
      <3>1. tables = {table[x] : x \in live}
        BY DEF RowInv, TablesKept
      <3>2. /\ newest \in live /\ newest - 1 \in live
            /\ newest - 1 # newest /\ table[newest] = table[newest - 1]
        BY <2>1, <1>1, <1>3, <1>6 DEF Tab
      <3>3. \A x \in live : x # newest => table'[x] = table[x]
        BY <2>3, <1>1
      <3>4. {table'[x] : x \in live} = {table[x] : x \in live} \cup {newest}
        <4>1. ASSUME NEW y \in {table'[x] : x \in live}
              PROVE  y \in {table[x] : x \in live} \cup {newest}
          BY <4>1, <3>3, <2>3
        <4>2. ASSUME NEW y \in {table[x] : x \in live} PROVE y \in {table'[x] : x \in live}
          BY <4>2, <3>2, <3>3
        <4>3. newest \in {table'[x] : x \in live}
          BY <3>2, <2>3
        <4> QED BY <4>1, <4>2, <4>3
      <3> QED BY <3>1, <3>4, <2>2, <1>4 DEF TablesKept
    <2> QED BY <2>3, <2>4, <2>5, <2>6, <1>1, <1>4, <2>1 DEF TablesInRow
  <1> QED BY <1>5, <1>7

(* The other steps of an addition leave the levels and their tables alone.    *)
LEMMA AddsStay ==
    ASSUME RowInv, NEW t \in Threads, AddStep(t), ~ FillTable(t)
    PROVE  LevelsInRow' /\ TablesInRow' /\ TablesKept'
  <1>1. /\ newest' = newest /\ live' = live /\ table' = table /\ tables' = tables
        /\ closing' = closing /\ (modified => modified')
    BY DEF AddStep, BeginAdd, Get, Detach, ReadPage, ReadId, TestCount, Lock, AllocateCopy,
           CopyPage, DropOld, SetId, Write, levelVars, tableVars, addVars
  <1>2. ~ closing /\ newest # -1
    <2>1. CASE BeginAdd(t)
      <3>1. ~ closing /\ live # {}
        BY <2>1 DEF BeginAdd
      <3> QED BY <3>1, HasLevel
    <2>2. CASE ~ BeginAdd(t)
      <3>1. pc[t] # "idle"
        BY <2>2 DEF AddStep, Get, Detach, ReadPage, ReadId, TestCount, Lock, AllocateCopy,
                    CopyPage, DropOld, SetId, Write
      <3>2. ~ Quiet
        BY <3>1 DEF Quiet
      <3> QED BY <3>2 DEF RowInv, LevelsInRow
    <2> QED BY <2>1, <2>2
  <1>3. LevelsInRow'
    BY <1>1, <1>2 DEF RowInv, LevelsInRow
  <1>4. TablesInRow'
    BY <1>1 DEF RowInv, TablesInRow
  <1>5. TablesKept'
    BY <1>1 DEF RowInv, TablesKept
  <1> QED BY <1>3, <1>4, <1>5

LEMMA AddsFill ==
    ASSUME RowInv, NEW t \in Threads, AddStep(t) PROVE FillInRow'
  <1>1. pc[t] \in Holders => lock = t
    BY DEF RowInv, FillInRow
  <1>2. CASE BeginAdd(t)
    <2>1. /\ pc' = [pc EXCEPT ![t] = "get"] /\ newest' = newest /\ lock' = lock
          /\ modified' = modified /\ table' = table
      BY <1>2 DEF BeginAdd, Goto, levelVars
    <2> QED BY <2>1, FillStays DEF Holders
  <1>3. CASE Get(t) \/ ReadPage(t) \/ ReadId(t) \/ TestCount(t)
    <2>1. PICK b : b \notin Holders /\ pc' = [pc EXCEPT ![t] = b]
      BY <1>3, Zenon DEF Get, ReadPage, ReadId, TestCount, Goto, Holders
    <2>2. newest' = newest /\ lock' = lock /\ modified' = modified /\ table' = table
      BY <1>3 DEF Get, ReadPage, ReadId, TestCount, levelVars
    <2> QED BY <2>1, <2>2, FillStays DEF Holders
  <1>4. CASE Detach(t)
    <2>1. /\ lock = None /\ newest' = newest /\ modified' = modified /\ table' = table
      BY <1>4 DEF Detach, levelVars
    <2>2. CASE ~ modified /\ Tab = table[newest - 1]
      <3>1. pc' = [pc EXCEPT ![t] = "fill"] /\ lock' = t
        BY <2>2, <1>4 DEF Detach, Goto
      <3>2. newest >= 1
        <4>1. pc[t] # "idle"
          BY <1>4 DEF Detach
        <4>2. ~ Quiet
          BY <4>1 DEF Quiet
        <4> QED BY <4>2, <2>2 DEF RowInv, LevelsInRow, TablesInRow
      <3>3. Tab' = table'[newest - 1]
        BY <2>1, <2>2 DEF Tab
      <3> QED BY <2>1, <2>2, <3>1, <3>2, <3>3, FillStays
    <2>3. CASE ~ (~ modified /\ Tab = table[newest - 1])
      <3>1. pc' = [pc EXCEPT ![t] = "readPage"] /\ lock' = lock
        BY <2>3, <1>4 DEF Detach, Goto
      <3> QED BY <2>1, <3>1, FillStays DEF Holders
    <2> QED BY <2>2, <2>3
  <1>5. CASE FillTable(t)
    <2>1. /\ pc[t] = "fill" /\ pc' = [pc EXCEPT ![t] = "readPage"] /\ newest' = newest
      BY <1>5 DEF FillTable, Goto
    <2>2. lock = t
      BY <2>1, <1>1 DEF Holders
    <2> QED BY <2>1, <2>2, FillStays DEF Holders
  <1>6. CASE Lock(t)
    <2>1. PICK b : b # "fill" /\ pc' = [pc EXCEPT ![t] = b]
      BY <1>6, Zenon DEF Lock, Goto
    <2>2. /\ lock = None /\ lock' = t /\ newest' = newest
          /\ modified' = modified /\ table' = table
      BY <1>6 DEF Lock, levelVars
    <2> QED BY <2>1, <2>2, FillStays
  <1>7. CASE AllocateCopy(t) \/ CopyPage(t) \/ DropOld(t) \/ SetId(t)
    <2>1. PICK b : b # "fill" /\ pc' = [pc EXCEPT ![t] = b]
      BY <1>7, Zenon DEF AllocateCopy, CopyPage, DropOld, SetId, Goto
    <2>2. newest' = newest /\ lock' = lock
      BY <1>7 DEF AllocateCopy, CopyPage, DropOld, SetId, levelVars
    <2>3. lock = t
      BY <1>1, <1>7 DEF AllocateCopy, CopyPage, DropOld, SetId, Holders
    <2> QED BY <2>1, <2>2, <2>3, FillStays
  <1>8. CASE Write(t)
    <2>1. /\ pc' = [pc EXCEPT ![t] = "idle"] /\ newest' = newest
          /\ lock' = lock \/ lock = t
      BY <1>8 DEF Write, Goto, levelVars
    <2>2. modified' = modified /\ table' = table
      BY <1>8 DEF Write, levelVars
    <2> QED BY <2>1, <2>2, FillStays DEF Holders
  <1> QED BY <1>2, <1>3, <1>4, <1>5, <1>6, <1>7, <1>8 DEF AddStep

LEMMA RowStart == Init => RowInv
  <1> SUFFICES ASSUME Init PROVE RowInv
    OBVIOUS
  <1>1. newest = -1 /\ live = {} /\ table = <<>> /\ tables = {} /\ Quiet
    BY DEF Init, Quiet
  <1>3. FillInRow
    BY DEF Init, FillInRow, Holders
  <1>2. 0 .. newest = {} /\ table \in [0 .. newest -> Nat]
    BY <1>1
  <1> QED BY <1>1, <1>2, <1>3 DEF RowInv, LevelsInRow, TablesInRow, TablesKept

LEMMA RowStep == RowInv /\ [Next]_vars => RowInv'
  <1> SUFFICES ASSUME RowInv, [Next]_vars PROVE RowInv'
    OBVIOUS
  <1>1. ASSUME NEW k \in Sizes, DenseInit(k) PROVE RowInv'
    <2>1. /\ AddLevel(newest + 1, k, newest + 1) /\ tables' = tables \cup {newest + 1}
          /\ Quiet /\ pc' = pc /\ ~ closing /\ closing' = closing /\ modified'
      BY <1>1 DEF DenseInit, OwnTable, threadVars, addVars
    <2> QED BY <2>1, NewLevel, NoneFills DEF RowInv
  <1>2. ASSUME NEW k \in Sizes, CowInitShared(k) PROVE RowInv'
    <2>1. /\ AddLevel(newest + 1, k, table[newest]) /\ tables' = tables
          /\ Quiet /\ pc' = pc /\ ~ closing /\ closing' = closing /\ live # {}
      BY <1>2 DEF CowInitShared, tableVars, threadVars, addVars
    <2>2. newest # -1
      BY <2>1, HasLevel
    <2> QED BY <2>1, <2>2, NewLevel, NoneFills DEF RowInv
  <1>3. ASSUME NEW k \in Sizes, CowInitLarger(k) PROVE RowInv'
    <2>1. /\ AddLevel(newest + 1, k, newest + 1) /\ tables' = tables \cup {newest + 1}
          /\ Quiet /\ pc' = pc /\ ~ closing /\ closing' = closing /\ live # {}
      BY <1>3 DEF CowInitLarger, OwnTable, threadVars, addVars
    <2>2. newest # -1
      BY <2>1, HasLevel
    <2> QED BY <2>1, <2>2, NewLevel, NoneFills DEF RowInv
  <1>4. CASE DeleteOldest
    <2>1. PICK l \in live : (\A k \in live : l <= k) /\ l <= newest - Keep /\ Delete(l)
      BY <1>4 DEF DeleteOldest
    <2>2. ~ closing /\ ~ closing' /\ Quiet /\ pc' = pc
      BY <1>4, <2>1 DEF DeleteOldest, addVars, Delete, threadVars
    <2> QED BY <2>1, <2>2, OldLevel, NoneFills DEF RowInv
  <1>5. CASE Destroy
    <2>1. PICK l \in live : (\A k \in live : l >= k) /\ Delete(l)
      BY <1>5 DEF Destroy
    <2>2. closing' /\ Quiet /\ pc' = pc
      BY <1>5, <2>1 DEF Destroy, Delete, threadVars
    <2> QED BY <2>1, <2>2, OldLevel, NoneFills DEF RowInv
  <1>6. ASSUME NEW t \in Threads, AddStep(t) PROVE RowInv'
    BY <1>6, TakenOff, AddsStay, AddsFill DEF RowInv
  <1>7. CASE UNCHANGED vars
    BY <1>7, RowStays DEF vars, rowVars, levelVars, tableVars, threadVars, addVars
  <1> QED BY <1>1, <1>2, <1>3, <1>4, <1>5, <1>6, <1>7 DEF Next

LEMMA RowAlways == Spec => []RowInv
  BY RowStart, RowStep, PTL DEF Spec

----------------------------------------------------------------------------
(* Theorem: for every number of threads, of pages and of levels, the tables   *)
(* that are allocated are exactly those that a level still has: delete_level  *)
(* frees a table with its last level, and no add, deletion or destruction     *)
(* frees one before or forgets it.                                            *)
THEOREM TablesAreKept == Spec => []TablesKept
  <1>1. RowInv => TablesKept
    BY DEF RowInv
  <1> QED BY <1>1, RowAlways, PTL

----------------------------------------------------------------------------
(* The inductive invariant behind CountsExact and FreeApart. They do not      *)
(* depend on which thread adds to which page.                                 *)

(* What the page manager holds for a page, also for one that does not exist.  *)
Held(m, p) == IF p \in DOMAIN m.refs THEN m.refs[p] ELSE 0

(* The pages on the free lists of a state of the page manager.                *)
Listed(m) == UNION {ToSet(m.free[t]) : t \in Threads}

(* The page manager by itself: pages are numbered without a gap, no page is   *)
(* twice on the lists, and those on the lists have no reference. They are all *)
(* those without a reference while the zero page is not page 0.               *)
Typed(m) ==
    /\ m = [refs |-> m.refs, mem |-> m.mem, zero |-> m.zero, free |-> m.free]
    /\ \E n \in Nat : m.refs \in [0 .. n - 1 -> Nat]
    /\ m.zero \in DOMAIN m.refs \cup {None}
    /\ m.free \in [Threads -> Seq(DOMAIN m.refs)]
ListsApart(m) ==
    \A t, u \in Threads : \A i \in DOMAIN m.free[t], j \in DOMAIN m.free[u] :
        m.free[t][i] = m.free[u][j] => t = u /\ i = j
Sound(m) ==
    /\ Typed(m) /\ ListsApart(m)
    /\ \A p \in Listed(m) : m.refs[p] = 0
    /\ m.zero # 0 => \A p \in DOMAIN m.refs : m.refs[p] = 0 => p \in Listed(m)

(* The lock of the newest level is held while a table is filled and from Lock *)
(* to Write; node is a node of the newest level.                              *)
Holding  == {"allocate", "copy", "drop", "setId"}
Copying  == {"copy", "drop", "setId"}
Detached == {"readPage", "readId", "test", "lock", "write"} \cup Holding
LockHeld ==
    /\ pc \in [Threads -> {"idle", "get", "detach", "fill"} \cup Detached]
    /\ lock \in Threads \cup {None}
    /\ DOMAIN node = Threads /\ DOMAIN pageId = Threads
    /\ \A t \in Threads : pc[t] \in Holding => lock = t
    /\ \A t \in Threads : lock = t => pc[t] \in Holding \cup {"write", "fill"}
    /\ \A t \in Threads : pc[t] # "idle" =>
          node[t] \in Nat /\ Slot(node[t]) \in 1 .. size[newest]

(* The tables of the levels that exist, and the last slot of the newest one:  *)
(* once there is a zero page it shows it.                                     *)
TablesTyped ==
    /\ DOMAIN size = 0 .. newest
    /\ \A l \in live :
          /\ size[l] \in Nat \ {0}
          /\ table[l] \in DOMAIN ids /\ table[l] \in DOMAIN ptr
          /\ ids[table[l]] \in [SlotsOf(l) -> DOMAIN pm.refs]
          /\ ptr[table[l]] \in [SlotsOf(l) -> DOMAIN pm.refs]
    /\ ~ closing /\ pm.zero # None =>
          /\ newest \in live
          /\ ids[table[newest]][size[newest] + 1] = pm.zero

(* Who writes the table of the newest level has it for himself.               *)
TableOwned ==
    modified \/ (\E t \in Threads : pc[t] \in Detached) =>
        \A l \in 0 .. newest - 1 : table[l] # table[newest]

(* The slot of a copy, its old page and its new one.                          *)
Copies  == lock # None /\ pc[lock] \in Copying
CopySlot == Slot(node[lock])
Fresh(p) == IF Copies /\ p = ptr[Tab][CopySlot] THEN 1 ELSE 0
Dropped(p) == IF Copies /\ pc[lock] = "setId" /\ p = pageId[lock] THEN 1 ELSE 0

(* Addresses and ids differ at the slot of a copy only.                       *)
SlotsAgree ==
    /\ \A l \in live : \A i \in SlotsOf(l) :
          ptr[table[l]][i] = ids[table[l]][i]
          <=> ~ (Copies /\ l = newest /\ i = CopySlot)
    /\ \A t \in Threads : pc[t] \in Holding =>
          /\ pageId[t] = ids[Tab][Slot(node[t])]
          /\ Held(pm, pageId[t]) >= IF pc[t] = "setId" THEN 1 ELSE 2

(* The counts, exact but for the two pages of a copy.                         *)
Counted ==
    \A p \in Nat : /\ IsFiniteSet(Shows(p))
                   /\ Held(pm, p) + Dropped(p) = Cardinality(Shows(p)) + Fresh(p)

CountInv == /\ Sound(pm) /\ LockHeld /\ TablesTyped /\ TableOwned /\ SlotsAgree /\ Counted

(* A set of numbers has a least one, if it has any.                           *)
Less == {p \in Nat \X Nat : p[1] < p[2]}

LEMMA LessWellFounded == IsWellFoundedOn(Less, Nat)
  BY NatLessThanWellFounded, Zenon DEF OpToRel, Less

LEMMA LeastNumber ==
    ASSUME NEW S, S \subseteq Nat, S # {}
    PROVE  \E i \in S : \A j \in S : i <= j
  <1>1. PICK i \in S : \A j \in S : <<j, i>> \notin Less
    BY LessWellFounded, WFMin, Zenon
  <1>2. ASSUME NEW j \in S PROVE i <= j
    <2>1. i \in Nat /\ j \in Nat /\ <<j, i>> \notin Less
      BY <1>1
    <2> QED BY <2>1 DEF Less
  <1> QED BY <1>2

----------------------------------------------------------------------------
(* The operators of the page manager.                                         *)

(* A value at one place of a table, and the others as they were.              *)
LEMMA WithIs ==
    ASSUME NEW f, NEW x, NEW v
    PROVE  /\ DOMAIN With(f, x, v) = DOMAIN f \cup {x}
           /\ With(f, x, v)[x] = v
           /\ \A y \in DOMAIN f : y # x => With(f, x, v)[y] = f[y]
  BY DEF With

(* A page on a list, by its list and its place there.                         *)
LEMMA ListedIs ==
    ASSUME NEW m, NEW p
    PROVE  p \in Listed(m) <=> \E t \in Threads : \E i \in DOMAIN m.free[t] : p = m.free[t][i]
  BY DEF Listed, ToSet

(* A state of the page manager after new values for three of its parts.       *)
LEMMA ManagerIs ==
    ASSUME NEW m, NEW x, NEW y, NEW z, NEW w,
           m = [refs |-> x, mem |-> y, zero |-> z, free |-> w],
           NEW r, NEW e, NEW f, NEW n, n = [m EXCEPT !.refs = r, !.mem = e, !.free = f]
    PROVE  n = [refs |-> r, mem |-> e, zero |-> z, free |-> f]
  OBVIOUS

(* The page of allocation a is the first one of list k.                       *)
Taken(m, a, k) ==
    /\ m.free[k] # <<>> /\ a.page = Head(m.free[k])
    /\ a.pm.free = [m.free EXCEPT ![k] = Tail(@)]

(* allocate() either makes a new page or takes the first of a free list.      *)
LEMMA AllocateIs ==
    ASSUME NEW m, NEW t \in Threads, Typed(m), NEW a, a = Allocate(m, t)
    PROVE  /\ a.pm = [refs |-> a.pm.refs, mem |-> a.pm.mem, zero |-> a.pm.zero,
                      free |-> a.pm.free]
           /\ a.pm.refs = With(m.refs, a.page, 1) /\ a.pm.zero = m.zero
           /\ a.pm.mem = With(m.mem, a.page, Zeros)
           /\ \/ a.page = Cardinality(DOMAIN m.refs) /\ a.pm.free = m.free
              \/ \E k \in Threads : Taken(m, a, k)
  <1> DEFINE full == {i \in 0 .. ThreadCount - 1 : m.free[(t + i) % ThreadCount] # <<>>}
             k    == (t + CHOOSE i \in full : \A j \in full : i <= j) % ThreadCount
             p    == IF full = {} THEN Cardinality(DOMAIN m.refs) ELSE Head(m.free[k])
             b    == [m EXCEPT !.refs = With(@, p, 1), !.mem = With(@, p, Zeros),
                               !.free = IF full = {} THEN m.free
                                        ELSE [m.free EXCEPT ![k] = Tail(@)]]
  <1>1. a = [page |-> p, pm |-> b]
    BY Zenon DEF Allocate
  <1>2. full # {} => k \in Threads /\ m.free[k] # <<>>
    <2> SUFFICES ASSUME full # {} PROVE k \in Threads /\ m.free[k] # <<>>
      OBVIOUS
    <2>1. full \subseteq Nat
      OBVIOUS
    <2>2. PICK x \in full : \A y \in full : x <= y
      <3> HIDE DEF full
      <3> QED BY <2>1, LeastNumber
    <2>3. (CHOOSE i \in full : \A j \in full : i <= j) \in full
      BY <2>2
    <2>4. ASSUME NEW y \in full PROVE (t + y) % ThreadCount \in Threads
      <3> HIDE DEF full
      <3>1. y \in Nat
        BY <2>1
      <3>2. PICK z : z = t + y
        OBVIOUS
      <3>3. z \in Nat /\ ThreadCount \in Nat \ {0}
        BY <3>1, <3>2, CowAssumption DEF Threads
      <3>4. z % ThreadCount \in 0 .. ThreadCount - 1
        BY <3>3
      <3> QED BY <3>2, <3>4 DEF Threads
    <2> QED BY <2>3, <2>4
  <1> HIDE DEF full, k
  <1>3. m = [refs |-> m.refs, mem |-> m.mem, zero |-> m.zero, free |-> m.free]
    BY DEF Typed
  <1>4. b = [refs |-> With(m.refs, p, 1), mem |-> With(m.mem, p, Zeros), zero |-> m.zero,
             free |-> IF full = {} THEN m.free ELSE [m.free EXCEPT ![k] = Tail(@)]]
    <2> DEFINE f == IF full = {} THEN m.free ELSE [m.free EXCEPT ![k] = Tail(@)]
           r == With(m.refs, p, 1)
           e == With(m.mem, p, Zeros)
    <2>1. b = [m EXCEPT !.refs = r, !.mem = e, !.free = f]
      OBVIOUS
    <2> HIDE DEF p, f, r, e, b
    <2>2. b = [refs |-> r, mem |-> e, zero |-> m.zero, free |-> f]
      BY <1>3, <2>1, ManagerIs
    <2> QED BY <2>2 DEF f, r, e
  <1>5. a.page = p /\ a.pm = b
    BY <1>1
  <1>6. /\ b.refs = With(m.refs, p, 1) /\ b.zero = m.zero /\ b.mem = With(m.mem, p, Zeros)
        /\ b.free = IF full = {} THEN m.free ELSE [m.free EXCEPT ![k] = Tail(@)]
        /\ b = [refs |-> b.refs, mem |-> b.mem, zero |-> b.zero, free |-> b.free]
    <2> HIDE DEF p, b
    <2> QED BY <1>4
  <1> HIDE DEF b
  <1>7. CASE full = {}
    BY <1>5, <1>6, <1>7
  <1>8. CASE full # {}
    BY <1>2, <1>5, <1>6, <1>8 DEF Taken
  <1> QED BY <1>7, <1>8

(* Only pages that exist are on a list.                                       *)
LEMMA ListedIn ==
    ASSUME NEW m, Typed(m), NEW p \in Listed(m) PROVE p \in DOMAIN m.refs
  <1>1. PICK u \in Threads : \E i \in DOMAIN m.free[u] : p = m.free[u][i]
    BY ListedIs
  <1>2. PICK i \in DOMAIN m.free[u] : p = m.free[u][i]
    BY <1>1
  <1>3. m.free[u] \in Seq(DOMAIN m.refs)
    BY DEF Typed
  <1> QED BY <1>2, <1>3

(* One page has one place on one list.                                        *)
LEMMA ApartAt ==
    ASSUME NEW m, ListsApart(m), NEW u \in Threads, NEW v \in Threads,
           NEW x \in DOMAIN m.free[u], NEW y \in DOMAIN m.free[v],
           m.free[u][x] = m.free[v][y]
    PROVE  u = v /\ x = y
  BY Zenon DEF ListsApart

(* A page that is given out was not in use, has one reference, and leaves     *)
(* the lists.                                                                 *)
LEMMA AllocateKeeps ==
    ASSUME NEW m, NEW t \in Threads, Sound(m), NEW a, a = Allocate(m, t)
    PROVE  /\ Sound(a.pm) /\ a.pm.zero = m.zero
           /\ DOMAIN a.pm.refs = DOMAIN m.refs \cup {a.page}
           /\ a.page \in Nat /\ Held(m, a.page) = 0 /\ Held(a.pm, a.page) = 1
           /\ \A p \in Nat : p # a.page => Held(a.pm, p) = Held(m, p)
  <1> DEFINE b == a.pm
             q == a.page
  <1>1. Typed(m) /\ ListsApart(m)
    BY DEF Sound
  <1>2. /\ b = [refs |-> b.refs, mem |-> b.mem, zero |-> b.zero, free |-> b.free]
        /\ b.refs = With(m.refs, q, 1) /\ b.zero = m.zero
        /\ \/ q = Cardinality(DOMAIN m.refs) /\ b.free = m.free
           \/ \E k \in Threads : /\ m.free[k] # <<>> /\ q = Head(m.free[k])
                                 /\ b.free = [m.free EXCEPT ![k] = Tail(@)]
    <2>1. /\ a.pm = [refs |-> a.pm.refs, mem |-> a.pm.mem, zero |-> a.pm.zero,
                     free |-> a.pm.free]
          /\ a.pm.refs = With(m.refs, a.page, 1) /\ a.pm.zero = m.zero
      BY <1>1, AllocateIs
    <2>2. \/ a.page = Cardinality(DOMAIN m.refs) /\ a.pm.free = m.free
          \/ \E k \in Threads : Taken(m, a, k)
      BY <1>1, AllocateIs, Zenon
    <2> QED BY <2>1, <2>2 DEF Taken
  <1>3. PICK n \in Nat : m.refs \in [0 .. n - 1 -> Nat]
    BY <1>1 DEF Typed
  <1>4. /\ m.free \in [Threads -> Seq(DOMAIN m.refs)] /\ m.zero \in DOMAIN m.refs \cup {None}
        /\ \A p \in Listed(m) : m.refs[p] = 0
    BY <1>1 DEF Typed, Sound
  <1> HIDE DEF b, q
  <1>5. Cardinality(DOMAIN m.refs) = n
    <2>1. DOMAIN m.refs = 0 .. n - 1
      BY <1>3
    <2>2. Cardinality(0 .. n - 1) = n
      BY <1>3, FS_Interval
    <2> QED BY <2>1, <2>2
  <1>6. /\ DOMAIN b.refs = DOMAIN m.refs \cup {q} /\ b.refs[q] = 1
        /\ \A p \in DOMAIN m.refs : p # q => b.refs[p] = m.refs[p]
    <2>1. /\ DOMAIN With(m.refs, q, 1) = DOMAIN m.refs \cup {q}
          /\ With(m.refs, q, 1)[q] = 1
          /\ \A p \in DOMAIN m.refs : p # q => With(m.refs, q, 1)[p] = m.refs[p]
      BY DEF With
    <2> QED BY <2>1, <1>2, Zenon
  <1>7. CASE q = n /\ b.free = m.free
    <2>1. q \notin DOMAIN m.refs /\ DOMAIN b.refs = 0 .. (n + 1) - 1 /\ n + 1 \in Nat
      BY <1>3, <1>6, <1>7
    <2>2. b.refs \in [0 .. (n + 1) - 1 -> Nat]
      <3>1. b.refs = [p \in DOMAIN b.refs |-> b.refs[p]]
        BY <1>2 DEF With
      <3>2. \A p \in DOMAIN b.refs : b.refs[p] \in Nat
        BY <1>3, <1>6
      <3> QED BY <3>1, <3>2, <2>1
    <2>3. Typed(b)
      <3>1. b.free \in [Threads -> Seq(DOMAIN b.refs)]
        <4>1. Seq(DOMAIN m.refs) \subseteq Seq(DOMAIN b.refs)
          BY <1>6
        <4> QED BY <4>1, <1>4, <1>7
      <3> QED BY <3>1, <2>1, <2>2, <1>2, <1>4, <1>6 DEF Typed
    <2>4. Listed(b) = Listed(m) /\ ListsApart(b)
      BY <1>1, <1>7 DEF Listed, ListsApart
    <2>5. \A p \in Listed(m) : p \in DOMAIN m.refs
      BY <1>1, ListedIn
    <2>6. \A p \in Listed(b) : b.refs[p] = 0
      BY <2>1, <2>4, <2>5, <1>4, <1>6
    <2>7. b.zero # 0 => \A p \in DOMAIN b.refs : b.refs[p] = 0 => p \in Listed(b)
      <3> SUFFICES ASSUME b.zero # 0, NEW p \in DOMAIN b.refs, b.refs[p] = 0
                   PROVE  p \in Listed(b)
        OBVIOUS
      <3>1. p # q /\ p \in DOMAIN m.refs /\ m.refs[p] = 0
        BY <1>6
      <3> QED BY <3>1, <2>4, <1>2 DEF Sound
    <2>8. Sound(b)
      BY <2>3, <2>4, <2>6, <2>7 DEF Sound
    <2>9. q \in Nat /\ Held(m, q) = 0
      BY <2>1, <1>7 DEF Held
    <2> QED BY <2>8, <2>9, <1>2, <1>6 DEF Held, b, q
  <1>8. ASSUME NEW k \in Threads, m.free[k] # <<>>, q = Head(m.free[k]),
               b.free = [m.free EXCEPT ![k] = Tail(@)]
        PROVE  /\ Sound(b) /\ b.zero = m.zero
               /\ DOMAIN b.refs = DOMAIN m.refs \cup {q}
               /\ q \in Nat /\ Held(m, q) = 0 /\ Held(b, q) = 1
               /\ \A p \in Nat : p # q => Held(b, p) = Held(m, p)
    <2>1. m.free[k] \in Seq(DOMAIN m.refs)
      BY <1>4
    <2> DEFINE s == m.free[k]
    <2>15. s \in Seq(DOMAIN m.refs) /\ s # <<>> /\ q = Head(s)
      BY <2>1, <1>8
    <2>16. /\ q = s[1] /\ 1 \in DOMAIN s /\ q \in DOMAIN m.refs
           /\ Tail(s) \in Seq(DOMAIN m.refs)
           /\ \A i \in DOMAIN Tail(s) :
                 i + 1 \in DOMAIN s /\ i \in Nat \ {0} /\ Tail(s)[i] = s[i + 1]
           /\ \A i \in DOMAIN s : i # 1 =>
                 i - 1 \in DOMAIN Tail(s) /\ Tail(s)[i - 1] = s[i]
      <3> HIDE DEF s
      <3>1. /\ s \in Seq(DOMAIN m.refs) /\ s # <<>> /\ Len(s) \in Nat \ {0}
            /\ DOMAIN s = 1 .. Len(s) /\ \A i \in 1 .. Len(s) : s[i] \in DOMAIN m.refs
        BY <2>15
      <3>2. /\ Head(s) = s[1] /\ Tail(s) \in Seq(DOMAIN m.refs)
            /\ Len(Tail(s)) = Len(s) - 1 /\ DOMAIN Tail(s) = 1 .. Len(Tail(s))
            /\ \A i \in 1 .. Len(s) - 1 : Tail(s)[i] = s[i + 1]
        BY <3>1
      <3> QED BY <3>1, <3>2, <2>15
    <2>2. /\ q = m.free[k][1] /\ 1 \in DOMAIN m.free[k] /\ q \in DOMAIN m.refs
          /\ Tail(m.free[k]) \in Seq(DOMAIN m.refs)
          /\ \A i \in DOMAIN Tail(m.free[k]) :
                i + 1 \in DOMAIN m.free[k] /\ i \in Nat \ {0}
                /\ Tail(m.free[k])[i] = m.free[k][i + 1]
          /\ \A i \in DOMAIN m.free[k] : i # 1 =>
                i - 1 \in DOMAIN Tail(m.free[k]) /\ Tail(m.free[k])[i - 1] = m.free[k][i]
      BY <2>16
    <2>3. q \in Listed(m) /\ m.refs[q] = 0 /\ q \in Nat
      <3>1. \E i \in DOMAIN m.free[k] : q = m.free[k][i]
        BY <2>2
      <3>2. q \in Listed(m)
        BY <3>1, ListedIs
      <3>3. m.refs[q] = 0
        BY <3>2, <1>4
      <3>4. q \in Nat
        BY <2>2, <1>3
      <3> QED BY <3>2, <3>3, <3>4
    <2>4. DOMAIN b.refs = DOMAIN m.refs
      BY <2>2, <1>6
    <2>5. b.refs \in [0 .. n - 1 -> Nat]
      <3>1. b.refs = [p \in DOMAIN b.refs |-> b.refs[p]]
        BY <1>2 DEF With
      <3>2. \A p \in DOMAIN b.refs : b.refs[p] \in Nat
        BY <1>3, <1>6
      <3> QED BY <3>1, <3>2, <2>4, <1>3
    <2>6. Typed(b)
      <3>1. b.free \in [Threads -> Seq(DOMAIN b.refs)]
        BY <2>2, <2>4, <1>4, <1>8
      <3> QED BY <3>1, <2>4, <2>5, <1>2, <1>4 DEF Typed
    <2>7. \A u \in Threads : u # k => b.free[u] = m.free[u]
      BY <1>4, <1>8
    <2>8. b.free[k] = Tail(m.free[k])
      BY <1>4, <1>8
    <2>9. ListsApart(b)
      <3> SUFFICES ASSUME NEW u \in Threads, NEW v \in Threads,
                          NEW i \in DOMAIN b.free[u], NEW j \in DOMAIN b.free[v],
                          b.free[u][i] = b.free[v][j]
                   PROVE  u = v /\ i = j
        BY DEF ListsApart
      <3>1. PICK x : x = (IF u = k THEN i + 1 ELSE i)
        OBVIOUS
      <3>2. PICK y : y = (IF v = k THEN j + 1 ELSE j)
        OBVIOUS
      <3>3. x \in DOMAIN m.free[u] /\ b.free[u][i] = m.free[u][x]
        BY <3>1, <2>2, <2>7, <2>8
      <3>4. y \in DOMAIN m.free[v] /\ b.free[v][j] = m.free[v][y]
        BY <3>2, <2>2, <2>7, <2>8
      <3>5. m.free[u][x] = m.free[v][y]
        BY <3>3, <3>4, Zenon
      <3>6. u = v /\ x = y
        <4>1. ListsApart(m)
          BY <1>1
        <4>2. x \in DOMAIN m.free[u] /\ y \in DOMAIN m.free[v]
          BY <3>3, <3>4
        <4> QED BY <4>1, <4>2, <3>5, ApartAt
      <3>7. CASE u = k
        BY <3>1, <3>2, <3>6, <3>7, <2>2, <2>8
      <3>8. CASE u # k
        BY <3>1, <3>2, <3>6, <3>8
      <3> QED BY <3>7, <3>8
    <2>10. \A p : p \in Listed(b) <=> p \in Listed(m) /\ p # q
      <3>1. ASSUME NEW p, p \in Listed(b) PROVE p \in Listed(m) /\ p # q
        <4>0. PICK u \in Threads : \E i \in DOMAIN b.free[u] : p = b.free[u][i]
          BY <3>1, ListedIs
        <4>1. PICK i \in DOMAIN b.free[u] : p = b.free[u][i]
          BY <4>0
        <4>2. CASE u = k
          <5>1. i + 1 \in DOMAIN m.free[k] /\ p = m.free[k][i + 1] /\ i \in Nat \ {0}
            BY <4>1, <4>2, <2>2, <2>8
          <5>2. i + 1 # 1
            BY <5>1
          <5>3. m.free[k][i + 1] # m.free[k][1]
            BY <5>1, <5>2, <2>2, <1>1 DEF ListsApart
          <5> QED BY <5>1, <5>3, <2>2, ListedIs
        <4>3. CASE u # k
          <5>1. i \in DOMAIN m.free[u] /\ p = m.free[u][i]
            BY <4>1, <4>3, <2>7
          <5>2. m.free[u][i] # m.free[k][1]
            BY <5>1, <4>3, <2>2, <1>1 DEF ListsApart
          <5> QED BY <5>1, <5>2, <2>2, ListedIs
        <4> QED BY <4>2, <4>3
      <3>2. ASSUME NEW p, p \in Listed(m), p # q PROVE p \in Listed(b)
        <4>0. PICK u \in Threads : \E i \in DOMAIN m.free[u] : p = m.free[u][i]
          BY <3>2, ListedIs
        <4>1. PICK i \in DOMAIN m.free[u] : p = m.free[u][i]
          BY <4>0
        <4>2. CASE u = k
          <5>1. i # 1
            BY <4>1, <4>2, <3>2, <2>2
          <5>2. i - 1 \in DOMAIN Tail(m.free[k]) /\ Tail(m.free[k])[i - 1] = p
            BY <5>1, <4>1, <4>2, <2>2
          <5>3. \E j \in DOMAIN b.free[k] : p = b.free[k][j]
            BY <5>2, <2>8
          <5> QED BY <5>3, ListedIs
        <4>3. CASE u # k
          BY <4>1, <4>3, <2>7, ListedIs
        <4> QED BY <4>2, <4>3
      <3> QED BY <3>1, <3>2
    <2>11. \A p \in Listed(m) : p \in DOMAIN m.refs
      BY <1>1, ListedIn
    <2>12. \A p \in Listed(b) : b.refs[p] = 0
      BY <2>10, <2>11, <1>4, <1>6
    <2>13. b.zero # 0 => \A p \in DOMAIN b.refs : b.refs[p] = 0 => p \in Listed(b)
      <3> SUFFICES ASSUME b.zero # 0, NEW p \in DOMAIN b.refs, b.refs[p] = 0
                   PROVE  p \in Listed(b)
        OBVIOUS
      <3>1. p # q /\ p \in DOMAIN m.refs /\ m.refs[p] = 0
        BY <2>4, <1>6
      <3>2. p \in Listed(m)
        BY <3>1, <1>2 DEF Sound
      <3> QED BY <3>1, <3>2, <2>10
    <2>14. Sound(b)
      BY <2>6, <2>9, <2>12, <2>13 DEF Sound
    <2> QED BY <2>14, <2>3, <2>4, <1>2, <1>6 DEF Held
  <1> QED BY <1>2, <1>5, <1>7, <1>8 DEF b, q

LEMMA OneOf == ASSUME NEW S, NEW p \in S PROVE <<p>> \in Seq(S)
  OBVIOUS

(* release_page() takes one reference, and puts a page that has no other on   *)
(* the list of the thread, unless the zero page is page 0.                    *)
LEMMA ReleaseKeeps ==
    ASSUME NEW m, NEW t \in Threads, Sound(m), NEW p \in DOMAIN m.refs, m.refs[p] > 0
    PROVE  /\ Sound(Release(m, t, p)) /\ Release(m, t, p).zero = m.zero
           /\ DOMAIN Release(m, t, p).refs = DOMAIN m.refs
           /\ Held(Release(m, t, p), p) = Held(m, p) - 1
           /\ \A q \in Nat : q # p => Held(Release(m, t, p), q) = Held(m, q)
  <1>1. Typed(m)
    BY DEF Sound
  <1>2. ListsApart(m)
    BY DEF Sound
  <1>3. /\ \A q \in Listed(m) : m.refs[q] = 0
        /\ m.zero # 0 => \A q \in DOMAIN m.refs : m.refs[q] = 0 => q \in Listed(m)
    BY DEF Sound
  <1>4. PICK n \in Nat : m.refs \in [0 .. n - 1 -> Nat]
    BY <1>1 DEF Typed
  <1>5. /\ m = [refs |-> m.refs, mem |-> m.mem, zero |-> m.zero, free |-> m.free]
        /\ m.free \in [Threads -> Seq(DOMAIN m.refs)] /\ m.zero \in DOMAIN m.refs \cup {None}
    BY <1>1 DEF Typed
  <1>6. p \in Nat /\ m.refs[p] \in Nat \ {0} /\ p \notin Listed(m)
    BY <1>3, <1>4
  <1>7. PICK b : b = Release(m, t, p)
    OBVIOUS
  <1>8. PICK c : c = [m EXCEPT !.refs[p] = m.refs[p] - 1]
    OBVIOUS
  <1>9. c = [refs |-> [m.refs EXCEPT ![p] = m.refs[p] - 1], mem |-> m.mem, zero |-> m.zero,
             free |-> m.free]
    BY <1>5, <1>8
  <1>10. PICK r : r = [m.refs EXCEPT ![p] = m.refs[p] - 1]
    OBVIOUS
  <1>11. /\ r \in [0 .. n - 1 -> Nat] /\ r[p] = m.refs[p] - 1 /\ DOMAIN r = DOMAIN m.refs
         /\ \A q \in DOMAIN m.refs : q # p => r[q] = m.refs[q]
    BY <1>4, <1>6, <1>10
  <1>12. c.refs = r /\ c.mem = m.mem /\ c.zero = m.zero /\ c.free = m.free
    BY <1>9, <1>10
  <1>13. CASE m.refs[p] - 1 = 0 /\ m.zero # 0
    <2>1. b = [c EXCEPT !.mem[p][0] = Link, !.free[t] = <<p>> \o @]
      BY <1>7, <1>8, <1>13 DEF Release
    <2>2. PICK f : f = [m.free EXCEPT ![t] = <<p>> \o @]
      OBVIOUS
    <2>3. b.refs = r /\ b.zero = m.zero /\ b.free = f
      BY <2>1, <2>2, <1>9, <1>12
    <2>4. b = [refs |-> b.refs, mem |-> b.mem, zero |-> b.zero, free |-> b.free]
      BY <2>1, <1>9
    <2>5. PICK s : s = m.free[t]
      OBVIOUS
    <2>6. s \in Seq(DOMAIN m.refs) /\ f[t] = <<p>> \o s
      BY <2>2, <2>5, <1>5
    <2>7. /\ <<p>> \o s \in Seq(DOMAIN m.refs)
          /\ 1 \in DOMAIN (<<p>> \o s) /\ (<<p>> \o s)[1] = p
          /\ \A i \in DOMAIN (<<p>> \o s) : i = 1 \/ (i - 1 \in DOMAIN s /\ (<<p>> \o s)[i] = s[i - 1])
          /\ \A i \in DOMAIN s : i + 1 \in DOMAIN (<<p>> \o s) /\ (<<p>> \o s)[i + 1] = s[i]
          /\ \A i \in DOMAIN (<<p>> \o s) : i \in Nat
      <3>7. Len(s) \in Nat /\ DOMAIN s = 1 .. Len(s)
        BY <2>6
      <3>8. <<p>> \in Seq(DOMAIN m.refs)
        BY OneOf
      <3>9. Len(<<p>>) = 1 /\ <<p>>[1] = p
        OBVIOUS
      <3>1. /\ <<p>> \in Seq(DOMAIN m.refs) /\ Len(<<p>>) = 1 /\ <<p>>[1] = p
            /\ Len(s) \in Nat /\ DOMAIN s = 1 .. Len(s)
        BY <3>7, <3>8, <3>9
      <3>2. /\ <<p>> \o s \in Seq(DOMAIN m.refs) /\ Len(<<p>> \o s) = 1 + Len(s)
            /\ \A i \in 1 .. 1 + Len(s) :
                  (<<p>> \o s)[i] = IF i <= 1 THEN <<p>>[i] ELSE s[i - 1]
        BY <3>1, <2>6
      <3>3. DOMAIN (<<p>> \o s) = 1 .. 1 + Len(s)
        BY <3>2
      <3> QED BY <3>1, <3>2, <3>3
    <2>8. \A u \in Threads : u # t => f[u] = m.free[u]
      BY <2>2, <1>5
    <2>9. f \in [Threads -> Seq(DOMAIN m.refs)]
      BY <2>2, <2>5, <2>6, <2>7, <1>5
    <2>10. Typed(b)
      BY <2>3, <2>4, <2>9, <1>5, <1>11 DEF Typed
    <2>11. \A q : q \in Listed(b) <=> q = p \/ q \in Listed(m)
      <3>1. ASSUME NEW q, q \in Listed(b) PROVE q = p \/ q \in Listed(m)
        <4>1. PICK u \in Threads : \E i \in DOMAIN f[u] : q = f[u][i]
          BY <3>1, <2>3, ListedIs
        <4>2. PICK i \in DOMAIN f[u] : q = f[u][i]
          BY <4>1
        <4>3. CASE u # t
          BY <4>2, <4>3, <2>8, ListedIs
        <4>4. CASE u = t
          <5>1. i = 1 \/ (i - 1 \in DOMAIN s /\ f[t][i] = s[i - 1])
            BY <4>2, <4>4, <2>6, <2>7
          <5>2. CASE i = 1
            BY <5>2, <4>2, <4>4, <2>6, <2>7
          <5>3. CASE i - 1 \in DOMAIN s /\ f[t][i] = s[i - 1]
            <6>1. i - 1 \in DOMAIN m.free[t] /\ q = m.free[t][i - 1]
              BY <5>3, <4>2, <4>4, <2>5
            <6> QED BY <6>1, ListedIs
          <5> QED BY <5>1, <5>2, <5>3
        <4> QED BY <4>3, <4>4
      <3>2. p \in Listed(b)
        <4>1. 1 \in DOMAIN f[t] /\ f[t][1] = p
          BY <2>6, <2>7
        <4> QED BY <4>1, <2>3, ListedIs
      <3>3. ASSUME NEW q, q \in Listed(m) PROVE q \in Listed(b)
        <4>1. PICK u \in Threads : \E i \in DOMAIN m.free[u] : q = m.free[u][i]
          BY <3>3, ListedIs
        <4>2. PICK i \in DOMAIN m.free[u] : q = m.free[u][i]
          BY <4>1
        <4>3. CASE u # t
          BY <4>2, <4>3, <2>3, <2>8, ListedIs
        <4>4. CASE u = t
          <5>1. i + 1 \in DOMAIN f[t] /\ f[t][i + 1] = q
            BY <4>2, <4>4, <2>5, <2>6, <2>7
          <5> QED BY <5>1, <2>3, ListedIs
        <4> QED BY <4>3, <4>4
      <3> QED BY <3>1, <3>2, <3>3
    <2>12. ListsApart(b)
      <3> SUFFICES ASSUME NEW u \in Threads, NEW v \in Threads,
                          NEW i \in DOMAIN f[u], NEW j \in DOMAIN f[v],
                          f[u][i] = f[v][j]
                   PROVE  u = v /\ i = j
        BY <2>3 DEF ListsApart
      <3>1. ASSUME NEW w \in Threads, NEW k \in DOMAIN f[w], ~ (w = t /\ k = 1)
            PROVE  \E x \in DOMAIN m.free[w] : /\ f[w][k] = m.free[w][x]
                                               /\ x = IF w = t THEN k - 1 ELSE k
        <4>1. CASE w = t
          <5>1. k - 1 \in DOMAIN s /\ f[t][k] = s[k - 1]
            BY <4>1, <3>1, <2>6, <2>7
          <5> QED BY <5>1, <4>1, <2>5
        <4>2. CASE w # t
          BY <4>2, <2>8
        <4> QED BY <4>1, <4>2
      <3>2. ASSUME NEW w \in Threads, NEW k \in DOMAIN f[w], ~ (w = t /\ k = 1)
            PROVE  f[w][k] # p
        <4>1. PICK x \in DOMAIN m.free[w] : f[w][k] = m.free[w][x]
          BY <3>1, <3>2
        <4>2. f[w][k] \in Listed(m)
          BY <4>1, ListedIs
        <4> QED BY <4>2, <1>6
      <3>3. f[t][1] = p
        BY <2>6, <2>7
      <3>4. CASE u = t /\ i = 1
        BY <3>2, <3>3, <3>4
      <3>5. CASE v = t /\ j = 1
        BY <3>2, <3>3, <3>5
      <3>6. CASE ~ (u = t /\ i = 1) /\ ~ (v = t /\ j = 1)
        <4>1. PICK x \in DOMAIN m.free[u] : /\ f[u][i] = m.free[u][x]
                                            /\ x = IF u = t THEN i - 1 ELSE i
          BY <3>1, <3>6
        <4>2. PICK y \in DOMAIN m.free[v] : /\ f[v][j] = m.free[v][y]
                                            /\ y = IF v = t THEN j - 1 ELSE j
          BY <3>1, <3>6
        <4>3. m.free[u][x] = m.free[v][y]
          BY <4>1, <4>2
        <4>4. u = v /\ x = y
          BY <4>3, <1>2, ApartAt
        <4>5. CASE u = t
          <5>1. i \in Nat /\ j \in Nat
            BY <4>4, <4>5, <2>6, <2>7
          <5> QED BY <5>1, <4>1, <4>2, <4>4, <4>5
        <4>6. CASE u # t
          BY <4>1, <4>2, <4>4, <4>6
        <4> QED BY <4>5, <4>6
      <3> QED BY <3>4, <3>5, <3>6
    <2>13. \A q \in Listed(b) : b.refs[q] = 0
      <3> SUFFICES ASSUME NEW q \in Listed(b) PROVE b.refs[q] = 0
        OBVIOUS
      <3>1. CASE q = p
        BY <3>1, <2>3, <1>11, <1>13
      <3>2. CASE q # p
        <4>1. q \in Listed(m)
          BY <3>2, <2>11
        <4>2. q \in DOMAIN m.refs
          BY <4>1, <1>1, ListedIn
        <4> QED BY <4>1, <4>2, <3>2, <2>3, <1>3, <1>11
      <3> QED BY <3>1, <3>2
    <2>14. \A q \in DOMAIN b.refs : b.refs[q] = 0 => q \in Listed(b)
      <3> SUFFICES ASSUME NEW q \in DOMAIN b.refs, b.refs[q] = 0 PROVE q \in Listed(b)
        OBVIOUS
      <3>1. CASE q = p
        BY <3>1, <2>11
      <3>2. CASE q # p
        BY <3>2, <2>3, <2>11, <1>3, <1>11, <1>13
      <3> QED BY <3>1, <3>2
    <2>15. Sound(b)
      BY <2>10, <2>12, <2>13, <2>14 DEF Sound
    <2> QED BY <2>15, <2>3, <1>6, <1>7, <1>11 DEF Held
  <1>14. CASE ~ (m.refs[p] - 1 = 0 /\ m.zero # 0)
    <2>1. b = c
      BY <1>7, <1>8, <1>14 DEF Release
    <2>2. /\ b.refs = r /\ b.zero = m.zero /\ b.free = m.free
          /\ b = [refs |-> b.refs, mem |-> b.mem, zero |-> b.zero, free |-> b.free]
      BY <2>1, <1>9, <1>12
    <2>3. Typed(b)
      BY <2>2, <1>5, <1>11 DEF Typed
    <2>4. Listed(b) = Listed(m)
      BY <2>2 DEF Listed
    <2>5. ListsApart(b)
      BY <2>2, <1>2 DEF ListsApart
    <2>6. \A q \in Listed(b) : b.refs[q] = 0
      <3> SUFFICES ASSUME NEW q \in Listed(m) PROVE r[q] = 0
        BY <2>2, <2>4
      <3>1. q \in DOMAIN m.refs /\ q # p
        BY <1>1, <1>6, ListedIn
      <3> QED BY <3>1, <1>3, <1>11
    <2>7. b.zero # 0 => \A q \in DOMAIN b.refs : b.refs[q] = 0 => q \in Listed(b)
      <3> SUFFICES ASSUME m.zero # 0, NEW q \in DOMAIN r, r[q] = 0 PROVE q \in Listed(m)
        BY <2>2, <2>4
      <3>1. q # p
        BY <1>6, <1>11, <1>14
      <3> QED BY <3>1, <1>3, <1>11
    <2>8. Sound(b)
      BY <2>3, <2>5, <2>6, <2>7 DEF Sound
    <2> QED BY <2>8, <2>2, <1>6, <1>7, <1>11 DEF Held
  <1> QED BY <1>13, <1>14

(* How often a page is in the first n slots of a table.                       *)
Times(pages, n, p) == Cardinality({i \in 1 .. n : pages[i] = p})

LEMMA SlotsFinite ==
    ASSUME NEW n \in Nat, NEW S, S \subseteq 1 .. n
    PROVE  IsFiniteSet(S) /\ Cardinality(S) \in Nat /\ (Cardinality(S) = 0 <=> S = {})
  <1>1. IsFiniteSet(1 .. n)
    BY FS_Interval
  <1>2. IsFiniteSet(S)
    BY <1>1, FS_Subset
  <1> QED BY <1>2, FS_CardinalityType, FS_EmptySet

LEMMA TimesType == ASSUME NEW pages, NEW n \in Nat, NEW p PROVE Times(pages, n, p) \in Nat
  <1>1. PICK S : S = {i \in 1 .. n : pages[i] = p}
    OBVIOUS
  <1>2. S \subseteq 1 .. n
    BY <1>1
  <1>3. Cardinality(S) \in Nat
    BY <1>2, SlotsFinite
  <1> QED BY <1>1, <1>3 DEF Times

LEMMA TimesNone == ASSUME NEW pages, NEW p PROVE Times(pages, 0, p) = 0
  <1>1. {i \in 1 .. 0 : pages[i] = p} = {}
    OBVIOUS
  <1> QED BY <1>1, FS_EmptySet DEF Times

LEMMA TimesNever ==
    ASSUME NEW pages, NEW n \in Nat, NEW p
    PROVE  Times(pages, n, p) = 0 <=> \A i \in 1 .. n : pages[i] # p
  <1>1. PICK S : S = {i \in 1 .. n : pages[i] = p}
    OBVIOUS
  <1>2. S \subseteq 1 .. n
    BY <1>1
  <1>3. Cardinality(S) = 0 <=> S = {}
    BY <1>2, SlotsFinite
  <1>4. Times(pages, n, p) = Cardinality(S)
    BY <1>1 DEF Times
  <1> QED BY <1>1, <1>3, <1>4

LEMMA TimesNext ==
    ASSUME NEW pages, NEW n \in Nat, NEW p
    PROVE  Times(pages, n + 1, p) = Times(pages, n, p) + IF pages[n + 1] = p THEN 1 ELSE 0
  <1>1. PICK S : S = {i \in 1 .. n : pages[i] = p}
    OBVIOUS
  <1>2. Times(pages, n, p) = Cardinality(S) /\ IsFiniteSet(S) /\ Cardinality(S) \in Nat
    <2>1. S \subseteq 1 .. n
      BY <1>1
    <2>2. IsFiniteSet(S) /\ Cardinality(S) \in Nat
      BY <2>1, SlotsFinite
    <2> QED BY <1>1, <2>2 DEF Times
  <1>3. CASE pages[n + 1] = p
    <2>1. {i \in 1 .. n + 1 : pages[i] = p} = S \cup {n + 1} /\ n + 1 \notin S
      BY <1>1, <1>3
    <2>2. Cardinality(S \cup {n + 1}) = Cardinality(S) + 1
      BY <1>2, <2>1, FS_AddElement
    <2> QED BY <2>1, <2>2, <1>2, <1>3 DEF Times
  <1>4. CASE pages[n + 1] # p
    <2>1. {i \in 1 .. n + 1 : pages[i] = p} = S
      BY <1>1, <1>4
    <2> QED BY <2>1, <1>2, <1>4 DEF Times
  <1> QED BY <1>3, <1>4

(* acquire_pages(): a page in use has one more reference for each of its      *)
(* slots.                                                                     *)
LEMMA AcquireKeeps ==
    ASSUME NEW m, Sound(m), NEW n \in Nat, NEW pages, DOMAIN pages = 1 .. n,
           \A i \in 1 .. n : Held(m, pages[i]) > 0
    PROVE  /\ Sound(Acquire(m, pages)) /\ Acquire(m, pages).zero = m.zero
           /\ DOMAIN Acquire(m, pages).refs = DOMAIN m.refs
           /\ \A p \in Nat : Held(Acquire(m, pages), p) = Held(m, p) + Times(pages, n, p)
  <1>1. Typed(m)
    BY DEF Sound
  <1>2. ListsApart(m)
    BY DEF Sound
  <1>3. /\ \A q \in Listed(m) : m.refs[q] = 0
        /\ m.zero # 0 => \A q \in DOMAIN m.refs : m.refs[q] = 0 => q \in Listed(m)
    BY DEF Sound
  <1>4. PICK k \in Nat : m.refs \in [0 .. k - 1 -> Nat]
    BY <1>1 DEF Typed
  <1>5. /\ m = [refs |-> m.refs, mem |-> m.mem, zero |-> m.zero, free |-> m.free]
        /\ m.free \in [Threads -> Seq(DOMAIN m.refs)] /\ m.zero \in DOMAIN m.refs \cup {None}
    BY <1>1 DEF Typed
  <1>6. PICK b : b = Acquire(m, pages)
    OBVIOUS
  <1>7. PICK r : r = [p \in DOMAIN m.refs |-> m.refs[p] + Times(pages, n, p)]
    OBVIOUS
  <1>8. b = [m EXCEPT !.refs = r]
    BY <1>6, <1>7 DEF Acquire, Times
  <1>9. /\ b.refs = r /\ b.zero = m.zero /\ b.free = m.free
        /\ b = [refs |-> b.refs, mem |-> b.mem, zero |-> b.zero, free |-> b.free]
    BY <1>5, <1>8
  <1>10. \A p : Times(pages, n, p) \in Nat /\ (Times(pages, n, p) = 0 <=> \A i \in 1 .. n : pages[i] # p)
    BY TimesType, TimesNever
  <1>11. /\ r \in [0 .. k - 1 -> Nat] /\ DOMAIN r = DOMAIN m.refs
         /\ \A p \in DOMAIN m.refs : r[p] = m.refs[p] + Times(pages, n, p)
    BY <1>4, <1>7, <1>10
  <1>12. \A p : p \notin DOMAIN m.refs \/ m.refs[p] = 0 => Times(pages, n, p) = 0
    <2> SUFFICES ASSUME NEW p, p \notin DOMAIN m.refs \/ m.refs[p] = 0, NEW i \in 1 .. n,
                        pages[i] = p
                 PROVE  FALSE
      BY <1>10
    <2>1. Held(m, pages[i]) > 0
      OBVIOUS
    <2>2. Held(m, p) = 0
      BY DEF Held
    <2> QED BY <2>1, <2>2
  <1>13. Typed(b)
    BY <1>5, <1>9, <1>11 DEF Typed
  <1>14. Listed(b) = Listed(m)
    BY <1>9 DEF Listed
  <1>15. ListsApart(b)
    BY <1>2, <1>9 DEF ListsApart
  <1>16. \A q \in Listed(b) : b.refs[q] = 0
    <2> SUFFICES ASSUME NEW q \in Listed(m) PROVE r[q] = 0
      BY <1>9, <1>14
    <2>1. q \in DOMAIN m.refs /\ m.refs[q] = 0
      BY <1>1, <1>3, ListedIn
    <2> QED BY <2>1, <1>11, <1>12
  <1>17. b.zero # 0 => \A q \in DOMAIN b.refs : b.refs[q] = 0 => q \in Listed(b)
    <2> SUFFICES ASSUME m.zero # 0, NEW q \in DOMAIN r, r[q] = 0 PROVE q \in Listed(m)
      BY <1>9, <1>14
    <2>1. q \in DOMAIN m.refs /\ m.refs[q] \in Nat /\ Times(pages, n, q) \in Nat
      BY <1>4, <1>10, <1>11
    <2>2. r[q] = m.refs[q] + Times(pages, n, q)
      BY <2>1, <1>11
    <2>3. m.refs[q] = 0
      BY <2>1, <2>2
    <2> QED BY <2>1, <2>3, <1>3
  <1>18. Sound(b)
    BY <1>13, <1>15, <1>16, <1>17 DEF Sound
  <1>19. \A p \in Nat : Held(b, p) = Held(m, p) + Times(pages, n, p)
    <2> SUFFICES ASSUME NEW p \in Nat PROVE Held(b, p) = Held(m, p) + Times(pages, n, p)
      OBVIOUS
    <2>1. CASE p \in DOMAIN m.refs
      BY <2>1, <1>9, <1>11 DEF Held
    <2>2. CASE p \notin DOMAIN m.refs
      BY <2>2, <1>9, <1>11, <1>12 DEF Held
    <2> QED BY <2>1, <2>2
  <1> QED BY <1>6, <1>9, <1>11, <1>18, <1>19

(* A page in use keeps one reference at least, and the zero page is set or    *)
(* stays.                                                                     *)
LEMMA CountSet ==
    ASSUME NEW m, Sound(m), NEW p \in DOMAIN m.refs, m.refs[p] > 0, NEW k \in Nat \ {0},
           NEW b, b = [refs |-> b.refs, mem |-> b.mem, zero |-> b.zero, free |-> b.free],
           b.refs = [m.refs EXCEPT ![p] = k], b.free = m.free, b.zero \in DOMAIN m.refs,
           b.zero = m.zero \/ m.zero # 0
    PROVE  /\ Sound(b) /\ DOMAIN b.refs = DOMAIN m.refs /\ p \in Nat
           /\ Held(b, p) = k
           /\ \A q \in Nat : q # p => Held(b, q) = Held(m, q)
  <1>1. Typed(m)
    BY DEF Sound
  <1>2. ListsApart(m)
    BY DEF Sound
  <1>3. /\ \A q \in Listed(m) : m.refs[q] = 0
        /\ m.zero # 0 => \A q \in DOMAIN m.refs : m.refs[q] = 0 => q \in Listed(m)
    BY DEF Sound
  <1>4. PICK n \in Nat : m.refs \in [0 .. n - 1 -> Nat]
    BY <1>1 DEF Typed
  <1>5. m.free \in [Threads -> Seq(DOMAIN m.refs)]
    BY <1>1 DEF Typed
  <1>6. /\ b.refs \in [0 .. n - 1 -> Nat] /\ b.refs[p] = k /\ DOMAIN b.refs = DOMAIN m.refs
        /\ \A q \in DOMAIN m.refs : q # p => b.refs[q] = m.refs[q]
    BY <1>4
  <1>7. Typed(b)
    BY <1>5, <1>6 DEF Typed
  <1>8. Listed(b) = Listed(m)
    BY DEF Listed
  <1>9. ListsApart(b)
    BY <1>2 DEF ListsApart
  <1>10. \A q \in Listed(b) : b.refs[q] = 0
    <2> SUFFICES ASSUME NEW q \in Listed(m) PROVE b.refs[q] = 0
      BY <1>8
    <2>1. q \in DOMAIN m.refs /\ m.refs[q] = 0
      BY <1>1, <1>3, ListedIn
    <2> QED BY <2>1, <1>6
  <1>11. b.zero # 0 => \A q \in DOMAIN b.refs : b.refs[q] = 0 => q \in Listed(b)
    <2> SUFFICES ASSUME b.zero # 0, NEW q \in DOMAIN m.refs, b.refs[q] = 0
                 PROVE  q \in Listed(m)
      BY <1>6, <1>8
    <2>1. q # p /\ m.zero # 0
      BY <1>6
    <2> QED BY <2>1, <1>3, <1>6
  <1>12. Sound(b)
    BY <1>7, <1>9, <1>10, <1>11 DEF Sound
  <1> QED BY <1>4, <1>6, <1>12 DEF Held

(* zero_page(): count more references for the zero page, which is made when   *)
(* there is none.                                                             *)
LEMMA ZeroPageKeeps ==
    ASSUME NEW m, Sound(m), NEW count \in Nat \ {0}, m.zero # None => Held(m, m.zero) > 0,
           NEW z, z = ZeroPage(m, count)
    PROVE  /\ Sound(z.pm) /\ z.pm.zero = z.page /\ z.page \in Nat
           /\ DOMAIN z.pm.refs = DOMAIN m.refs \cup {z.page}
           /\ Held(z.pm, z.page) = Held(m, z.page) + count
           /\ \A p \in Nat : p # z.page => Held(z.pm, p) = Held(m, p)
  <1>1. Typed(m)
    BY DEF Sound
  <1>2. PICK n \in Nat : m.refs \in [0 .. n - 1 -> Nat]
    BY <1>1 DEF Typed
  <1>3. /\ m = [refs |-> m.refs, mem |-> m.mem, zero |-> m.zero, free |-> m.free]
        /\ m.zero \in DOMAIN m.refs \cup {None}
    BY <1>1 DEF Typed
  <1>4. CASE m.zero # None
    <2>1. m.zero \in DOMAIN m.refs /\ m.zero >= 0
      BY <1>2, <1>3, <1>4
    <2>2. z.page = m.zero /\ z.pm = [m EXCEPT !.refs[m.zero] = @ + count]
      BY <2>1 DEF ZeroPage
    <2>3. m.refs[m.zero] > 0 /\ m.refs[m.zero] + count \in Nat \ {0}
      BY <2>1, <1>2, <1>4 DEF Held
    <2>4. PICK k : k = m.refs[m.zero] + count
      OBVIOUS
    <2>5. PICK r : r = [m.refs EXCEPT ![m.zero] = k]
      OBVIOUS
    <2>6. z.pm = [m EXCEPT !.refs = r]
      BY <2>2, <2>4, <2>5
    <2>7. /\ z.pm.refs = r /\ z.pm.zero = m.zero /\ z.pm.free = m.free
          /\ z.pm = [refs |-> z.pm.refs, mem |-> z.pm.mem, zero |-> z.pm.zero,
                     free |-> z.pm.free]
      BY <2>6, <1>3
    <2>8. /\ Sound(z.pm) /\ DOMAIN z.pm.refs = DOMAIN m.refs /\ m.zero \in Nat
          /\ Held(z.pm, m.zero) = k
          /\ \A q \in Nat : q # m.zero => Held(z.pm, q) = Held(m, q)
      BY <2>1, <2>3, <2>4, <2>5, <2>7, CountSet
    <2>9. Held(m, m.zero) = m.refs[m.zero]
      BY <2>1 DEF Held
    <2> QED BY <2>1, <2>2, <2>4, <2>7, <2>8, <2>9
  <1>5. CASE m.zero = None
    <2>1. ~ (m.zero >= 0)
      BY <1>5 DEF None
    <2>2. PICK a : a = Allocate(m, 0)
      OBVIOUS
    <2>3. z.page = a.page /\ z.pm = [a.pm EXCEPT !.zero = a.page, !.refs[a.page] = count]
      BY <2>1, <2>2 DEF ZeroPage
    <2>4. 0 \in Threads
      BY CowAssumption DEF Threads
    <2>5. /\ Sound(a.pm) /\ a.pm.zero = m.zero
          /\ DOMAIN a.pm.refs = DOMAIN m.refs \cup {a.page}
          /\ a.page \in Nat /\ Held(m, a.page) = 0 /\ Held(a.pm, a.page) = 1
          /\ \A p \in Nat : p # a.page => Held(a.pm, p) = Held(m, p)
      BY <2>2, <2>4, AllocateKeeps
    <2>6. Typed(a.pm)
      BY <2>5 DEF Sound
    <2>7. a.pm = [refs |-> a.pm.refs, mem |-> a.pm.mem, zero |-> a.pm.zero, free |-> a.pm.free]
      BY <2>6 DEF Typed
    <2>8. PICK r : r = [a.pm.refs EXCEPT ![a.page] = count]
      OBVIOUS
    <2>9. PICK c : c = a.pm
      OBVIOUS
    <2>10. z.pm = [c EXCEPT !.zero = a.page, !.refs = r]
      BY <2>3, <2>8, <2>9
    <2>11. /\ z.pm.refs = r /\ z.pm.zero = a.page /\ z.pm.free = a.pm.free
           /\ z.pm = [refs |-> z.pm.refs, mem |-> z.pm.mem, zero |-> z.pm.zero,
                      free |-> z.pm.free]
      BY <2>7, <2>9, <2>10
    <2>12. a.page \in DOMAIN a.pm.refs /\ a.pm.refs[a.page] > 0 /\ a.pm.zero # 0
      BY <2>5, <1>5 DEF Held, None
    <2>13. /\ Sound(z.pm) /\ DOMAIN z.pm.refs = DOMAIN a.pm.refs
           /\ Held(z.pm, a.page) = count
           /\ \A q \in Nat : q # a.page => Held(z.pm, q) = Held(a.pm, q)
      BY <2>5, <2>8, <2>11, <2>12, CountSet
    <2> QED BY <2>3, <2>5, <2>11, <2>13
  <1> QED BY <1>4, <1>5

(* A set that has 0 and with each number the next one has all of them.        *)
LEMMA AllNumbers ==
    ASSUME NEW T, 0 \in T, \A n \in Nat : n \in T => n + 1 \in T
    PROVE  \A n \in Nat : n \in T
  <1> SUFFICES ASSUME Nat \ T # {} PROVE FALSE
    OBVIOUS
  <1>1. PICK n \in Nat \ T : \A j \in Nat \ T : n <= j
    BY LeastNumber
  <1>2. n # 0 /\ n - 1 \in Nat /\ (n - 1) + 1 = n
    BY <1>1
  <1>3. n - 1 \in T
    BY <1>1, <1>2
  <1> QED BY <1>1, <1>2, <1>3

(* The loop of allocate() over a range, up to its step n.                     *)
RangeStep(b) == LET a == Allocate(b.pm, 0)
                IN  [pages |-> Append(b.pages, a.page), pm |-> a.pm]
RangeLoop(m, n, f) ==
    f = [i \in 0 .. n |-> IF i = 0 THEN [pages |-> <<>>, pm |-> m] ELSE RangeStep(f[i - 1])]

LEMMA RangeLoopIs ==
    ASSUME NEW m, NEW count \in Nat
    PROVE  \E f : RangeLoop(m, count, f) /\ AllocateRange(m, count) = f[count]
  <1> DEFINE T == {n \in Nat : \E f : RangeLoop(m, n, f)}
  <1>1. 0 \in T
    <2>1. RangeLoop(m, 0, [i \in 0 .. 0 |-> [pages |-> <<>>, pm |-> m]])
      BY DEF RangeLoop
    <2> QED BY <2>1
  <1>2. ASSUME NEW n \in Nat, n \in T PROVE n + 1 \in T
    <2>1. PICK f : RangeLoop(m, n, f)
      BY <1>2
    <2>2. PICK g : g = [i \in 0 .. n + 1 |-> IF i = n + 1 THEN RangeStep(f[n]) ELSE f[i]]
      OBVIOUS
    <2>3. \A i \in 0 .. n : f[i] = IF i = 0 THEN [pages |-> <<>>, pm |-> m]
                                   ELSE RangeStep(f[i - 1])
      BY <2>1, Zenon DEF RangeLoop
    <2>4. \A i \in 0 .. n : g[i] = f[i]
      BY <2>2
    <2>5. g[n + 1] = RangeStep(f[n])
      BY <2>2
    <2>6. \A i \in 0 .. n + 1 : g[i] = IF i = 0 THEN [pages |-> <<>>, pm |-> m]
                                       ELSE RangeStep(g[i - 1])
      <3> SUFFICES ASSUME NEW i \in 0 .. n + 1
                   PROVE  g[i] = IF i = 0 THEN [pages |-> <<>>, pm |-> m]
                                 ELSE RangeStep(g[i - 1])
        OBVIOUS
      <3>1. CASE i = n + 1
        <4>1. i - 1 = n /\ i # 0 /\ n \in 0 .. n
          BY <3>1
        <4>2. g[n] = f[n]
          BY <4>1, <2>4
        <4> QED BY <4>1, <4>2, <3>1, <2>5
      <3>2. CASE i = 0
        <4>1. i \in 0 .. n
          BY <3>2
        <4> QED BY <4>1, <3>2, <2>3, <2>4
      <3>3. CASE i # n + 1 /\ i # 0
        <4>1. i \in 0 .. n /\ i - 1 \in 0 .. n
          BY <3>3
        <4>2. g[i] = f[i] /\ g[i - 1] = f[i - 1]
          BY <4>1, <2>4
        <4>3. f[i] = RangeStep(f[i - 1])
          BY <4>1, <3>3, <2>3
        <4> QED BY <4>2, <4>3, <3>3
      <3> QED BY <3>1, <3>2, <3>3
    <2>7. g = [i \in 0 .. n + 1 |-> g[i]]
      BY <2>2
    <2>8. RangeLoop(m, n + 1, g)
      BY <2>6, <2>7, Zenon DEF RangeLoop
    <2> QED BY <2>8
  <1> HIDE DEF T
  <1>3. count \in T
    BY <1>1, <1>2, AllNumbers
  <1>4. PICK f : f = CHOOSE g : RangeLoop(m, count, g)
    OBVIOUS
  <1>5. RangeLoop(m, count, f)
    BY <1>3, <1>4 DEF T
  <1>6. AllocateRange(m, count) = f[count]
    BY <1>4, Zenon DEF AllocateRange, RangeLoop, RangeStep
  <1> QED BY <1>5, <1>6

LEMMA AppendIs ==
    ASSUME NEW S, NEW s \in Seq(S), NEW x \in S
    PROVE  /\ Append(s, x) \in Seq(S) /\ Len(Append(s, x)) = Len(s) + 1
           /\ Append(s, x)[Len(s) + 1] = x
           /\ \A j \in 1 .. Len(s) : Append(s, x)[j] = s[j]
  OBVIOUS

(* Slots that agree have a page equally often.                                *)
LEMMA TimesSame ==
    ASSUME NEW s, NEW r, NEW n \in Nat, NEW p, \A i \in 1 .. n : s[i] = r[i]
    PROVE  Times(s, n, p) = Times(r, n, p)
  <1>1. {i \in 1 .. n : s[i] = p} = {i \in 1 .. n : r[i] = p}
    OBVIOUS
  <1> QED BY <1>1 DEF Times

(* More slots, more times.                                                    *)
LEMMA TimesGrow ==
    ASSUME NEW s, NEW n \in Nat, NEW k \in Nat, k <= n, NEW p
    PROVE  Times(s, k, p) <= Times(s, n, p)
  <1> DEFINE S == {i \in 1 .. k : s[i] = p}
             R == {i \in 1 .. n : s[i] = p}
  <1>1. S \subseteq R
    OBVIOUS
  <1>2. IsFiniteSet(R)
    <2>1. R \subseteq 1 .. n
      OBVIOUS
    <2> HIDE DEF R
    <2> QED BY <2>1, SlotsFinite
  <1> HIDE DEF S, R
  <1>3. Cardinality(S) <= Cardinality(R)
    BY <1>1, <1>2, FS_Subset
  <1> QED BY <1>3 DEF S, R, Times

(* allocate() of a range: as many pages as are asked for, each with one       *)
(* reference for each of its slots.                                           *)
LEMMA AllocateRangeKeeps ==
    ASSUME NEW m, Sound(m), NEW count \in Nat, NEW r, r = AllocateRange(m, count)
    PROVE  /\ Sound(r.pm) /\ r.pm.zero = m.zero /\ DOMAIN m.refs \subseteq DOMAIN r.pm.refs
           /\ r.pages \in Seq(DOMAIN r.pm.refs) /\ Len(r.pages) = count
           /\ \A p \in Nat : Held(r.pm, p) = Held(m, p) + Times(r.pages, count, p)
  <1>1. PICK f : RangeLoop(m, count, f) /\ AllocateRange(m, count) = f[count]
    BY RangeLoopIs
  <1> DEFINE Good(i) ==
        /\ Sound(f[i].pm) /\ f[i].pm.zero = m.zero /\ DOMAIN m.refs \subseteq DOMAIN f[i].pm.refs
        /\ f[i].pages \in Seq(DOMAIN f[i].pm.refs) /\ Len(f[i].pages) = i
        /\ \A p \in Nat : Held(f[i].pm, p) = Held(m, p) + Times(f[i].pages, i, p)
             T == {i \in Nat : i <= count => Good(i)}
  <1>2. /\ f[0] = [pages |-> <<>>, pm |-> m]
        /\ \A i \in 0 .. count : i # 0 => f[i] = RangeStep(f[i - 1])
    <2>1. \A i \in 0 .. count : f[i] = IF i = 0 THEN [pages |-> <<>>, pm |-> m]
                                       ELSE RangeStep(f[i - 1])
      BY <1>1, Zenon DEF RangeLoop
    <2> QED BY <2>1
  <1>3. 0 \in T
    <2>1. f[0].pm = m /\ f[0].pages = <<>>
      BY <1>2
    <2>2. \A p \in Nat : Held(m, p) \in Nat
      <3>1. Typed(m)
        BY DEF Sound
      <3>2. PICK n \in Nat : m.refs \in [0 .. n - 1 -> Nat]
        BY <3>1 DEF Typed
      <3> QED BY <3>2 DEF Held
    <2>3. \A p : Times(<<>>, 0, p) = 0
      BY TimesNone
    <2>4. \A p \in Nat : Held(m, p) = Held(m, p) + Times(<<>>, 0, p)
      BY <2>2, <2>3
    <2>5. Good(0)
      BY <2>1, <2>4
    <2> QED BY <2>5
  <1>4. ASSUME NEW i \in Nat, i \in T PROVE i + 1 \in T
    <2> SUFFICES ASSUME i + 1 <= count PROVE Good(i + 1)
      OBVIOUS
    <2>1. Good(i)
      BY <1>4
    <2>2. f[i + 1] = RangeStep(f[i])
      BY <1>2
    <2>3. PICK b : b = f[i]
      OBVIOUS
    <2>4. PICK a : a = Allocate(b.pm, 0)
      OBVIOUS
    <2>5. f[i + 1].pages = Append(b.pages, a.page) /\ f[i + 1].pm = a.pm
      BY <2>2, <2>3, <2>4 DEF RangeStep
    <2>6. 0 \in Threads
      BY CowAssumption DEF Threads
    <2>7. Sound(b.pm)
      BY <2>1, <2>3
    <2>8. /\ b.pm.zero = m.zero /\ DOMAIN m.refs \subseteq DOMAIN b.pm.refs
          /\ b.pages \in Seq(DOMAIN b.pm.refs) /\ Len(b.pages) = i
          /\ \A p \in Nat : Held(b.pm, p) = Held(m, p) + Times(b.pages, i, p)
      BY <2>1, <2>3
    <2>9. /\ Sound(a.pm) /\ a.pm.zero = b.pm.zero
          /\ DOMAIN a.pm.refs = DOMAIN b.pm.refs \cup {a.page}
          /\ a.page \in Nat /\ Held(b.pm, a.page) = 0 /\ Held(a.pm, a.page) = 1
          /\ \A p \in Nat : p # a.page => Held(a.pm, p) = Held(b.pm, p)
      BY <2>4, <2>6, <2>7, AllocateKeeps
    <2>10. PICK s : s = Append(b.pages, a.page)
      OBVIOUS
    <2>11. /\ s \in Seq(DOMAIN a.pm.refs) /\ Len(s) = i + 1 /\ s[i + 1] = a.page
           /\ \A j \in 1 .. i : s[j] = b.pages[j]
      <3>1. b.pages \in Seq(DOMAIN a.pm.refs) /\ a.page \in DOMAIN a.pm.refs
        <4>1. DOMAIN b.pm.refs \subseteq DOMAIN a.pm.refs
          BY <2>9
        <4>2. b.pages \in Seq(DOMAIN b.pm.refs)
          BY <2>8
        <4>3. Seq(DOMAIN b.pm.refs) \subseteq Seq(DOMAIN a.pm.refs)
          BY <4>1
        <4> QED BY <4>2, <4>3, <2>9
      <3>2. Len(b.pages) = i
        BY <2>8
      <3>3. a.page \in DOMAIN a.pm.refs /\ b.pages \in Seq(DOMAIN a.pm.refs)
        BY <3>1
      <3>4. /\ s \in Seq(DOMAIN a.pm.refs) /\ Len(s) = Len(b.pages) + 1
            /\ s[Len(b.pages) + 1] = a.page
            /\ \A j \in 1 .. Len(b.pages) : s[j] = b.pages[j]
        <4>1. a.page \in DOMAIN a.pm.refs
          BY <3>3
        <4>2. b.pages \in Seq(DOMAIN a.pm.refs)
          BY <3>3
        <4>3. PICK D : D = DOMAIN a.pm.refs
          OBVIOUS
        <4>4. PICK w : w = b.pages
          OBVIOUS
        <4>5. PICK x : x = a.page
          OBVIOUS
        <4>6. /\ Append(w, x) \in Seq(D) /\ Len(Append(w, x)) = Len(w) + 1
              /\ Append(w, x)[Len(w) + 1] = x
              /\ \A j \in 1 .. Len(w) : Append(w, x)[j] = w[j]
          <5>1. w \in Seq(D) /\ x \in D
            BY <4>1, <4>2, <4>3, <4>4, <4>5
          <5> QED BY <5>1, AppendIs
        <4> QED BY <4>3, <4>4, <4>5, <4>6, <2>10
      <3> QED BY <3>2, <3>4
    <2>12. \A p \in Nat : Held(a.pm, p) = Held(m, p) + Times(s, i + 1, p)
      <3> SUFFICES ASSUME NEW p \in Nat
                   PROVE  Held(a.pm, p) = Held(m, p) + Times(s, i + 1, p)
        OBVIOUS
      <3>1. Times(s, i + 1, p) = Times(s, i, p) + IF a.page = p THEN 1 ELSE 0
        <4>1. Times(s, i + 1, p) = Times(s, i, p) + IF s[i + 1] = p THEN 1 ELSE 0
          BY TimesNext
        <4> QED BY <4>1, <2>11
      <3>2. Times(s, i, p) = Times(b.pages, i, p)
        <4>1. \A j \in 1 .. i : s[j] = b.pages[j]
          BY <2>11
        <4> QED BY <4>1, TimesSame
      <3>3. Times(s, i, p) \in Nat /\ Held(m, p) \in Nat
        <4>1. Typed(m)
          BY DEF Sound
        <4>2. PICK n \in Nat : m.refs \in [0 .. n - 1 -> Nat]
          BY <4>1 DEF Typed
        <4> QED BY <4>2, TimesType DEF Held
      <3>4. Held(b.pm, p) = Held(m, p) + Times(b.pages, i, p)
        BY <2>8
      <3>5. CASE p = a.page
        BY <3>1, <3>2, <3>3, <3>4, <3>5, <2>9
      <3>6. CASE p # a.page
        BY <3>1, <3>2, <3>3, <3>4, <3>6, <2>9
      <3> QED BY <3>5, <3>6
    <2> QED BY <2>5, <2>8, <2>9, <2>10, <2>11, <2>12
  <1> HIDE DEF T
  <1>5. count \in T
    BY <1>3, <1>4, AllNumbers
  <1>6. Good(count)
    BY <1>5 DEF T
  <1> QED BY <1>1, <1>6

(* The loop of release_pages(), up to its step n.                             *)
ReleaseLoop(m, s, n, f) ==
    f = [i \in 0 .. n |-> IF i = 0 THEN m ELSE Release(f[i - 1], 0, s[i])]

LEMMA ReleaseLoopIs ==
    ASSUME NEW m, NEW s, Len(s) \in Nat
    PROVE  \E f : ReleaseLoop(m, s, Len(s), f) /\ ReleasePages(m, s) = f[Len(s)]
  <1> DEFINE T == {n \in Nat : \E f : ReleaseLoop(m, s, n, f)}
  <1>1. 0 \in T
    <2>1. ReleaseLoop(m, s, 0, [i \in 0 .. 0 |-> m])
      BY DEF ReleaseLoop
    <2> QED BY <2>1
  <1>2. ASSUME NEW n \in Nat, n \in T PROVE n + 1 \in T
    <2>1. PICK f : ReleaseLoop(m, s, n, f)
      BY <1>2
    <2>2. PICK g : g = [i \in 0 .. n + 1 |-> IF i = n + 1 THEN Release(f[n], 0, s[n + 1]) ELSE f[i]]
      OBVIOUS
    <2>3. \A i \in 0 .. n : f[i] = IF i = 0 THEN m ELSE Release(f[i - 1], 0, s[i])
      BY <2>1, Zenon DEF ReleaseLoop
    <2>4. \A i \in 0 .. n : g[i] = f[i]
      BY <2>2
    <2>5. g[n + 1] = Release(f[n], 0, s[n + 1])
      BY <2>2
    <2>6. \A i \in 0 .. n + 1 : g[i] = IF i = 0 THEN m ELSE Release(g[i - 1], 0, s[i])
      <3> SUFFICES ASSUME NEW i \in 0 .. n + 1
                   PROVE  g[i] = IF i = 0 THEN m ELSE Release(g[i - 1], 0, s[i])
        OBVIOUS
      <3>1. CASE i = n + 1
        <4>1. i - 1 = n /\ i # 0 /\ n \in 0 .. n
          BY <3>1
        <4>2. g[n] = f[n]
          BY <4>1, <2>4
        <4> QED BY <4>1, <4>2, <3>1, <2>5
      <3>2. CASE i = 0
        <4>1. i \in 0 .. n
          BY <3>2
        <4> QED BY <4>1, <3>2, <2>3, <2>4
      <3>3. CASE i # n + 1 /\ i # 0
        <4>1. i \in 0 .. n /\ i - 1 \in 0 .. n
          BY <3>3
        <4>2. g[i] = f[i] /\ g[i - 1] = f[i - 1]
          BY <4>1, <2>4
        <4>3. f[i] = Release(f[i - 1], 0, s[i])
          BY <4>1, <3>3, <2>3
        <4> QED BY <4>2, <4>3, <3>3
      <3> QED BY <3>1, <3>2, <3>3
    <2>7. g = [i \in 0 .. n + 1 |-> g[i]]
      BY <2>2
    <2>8. ReleaseLoop(m, s, n + 1, g)
      BY <2>6, <2>7, Zenon DEF ReleaseLoop
    <2> QED BY <2>8
  <1> HIDE DEF T
  <1>3. Len(s) \in T
    BY <1>1, <1>2, AllNumbers
  <1>4. PICK f : f = CHOOSE g : ReleaseLoop(m, s, Len(s), g)
    OBVIOUS
  <1>5. ReleaseLoop(m, s, Len(s), f)
    BY <1>3, <1>4 DEF T
  <1>6. ReleasePages(m, s) = f[Len(s)]
    BY <1>4, Zenon DEF ReleasePages, ReleaseLoop
  <1> QED BY <1>5, <1>6

(* The states of release_pages(), from slot to slot: one reference less for   *)
(* each slot of a page.                                                       *)
LEMMA ReleaseLoopKeeps ==
    ASSUME NEW m, Sound(m), NEW s \in Seq(Nat),
           \A p \in Nat : Times(s, Len(s), p) <= Held(m, p)
    PROVE  \E f : /\ f[0] = m /\ f[Len(s)] = ReleasePages(m, s)
                  /\ \A i \in 0 .. Len(s) : i # 0 => f[i] = Release(f[i - 1], 0, s[i])
                  /\ \A i \in 0 .. Len(s) :
                        /\ Sound(f[i]) /\ f[i].zero = m.zero /\ DOMAIN f[i].refs = DOMAIN m.refs
                        /\ \A p \in Nat : Held(f[i], p) = Held(m, p) - Times(s, i, p)
  <1>0. Len(s) \in Nat
    OBVIOUS
  <1>1. PICK f : ReleaseLoop(m, s, Len(s), f) /\ ReleasePages(m, s) = f[Len(s)]
    BY <1>0, ReleaseLoopIs
  <1> DEFINE Good(i) ==
        /\ Sound(f[i]) /\ f[i].zero = m.zero /\ DOMAIN f[i].refs = DOMAIN m.refs
        /\ \A p \in Nat : Held(f[i], p) = Held(m, p) - Times(s, i, p)
             T == {i \in Nat : i <= Len(s) => Good(i)}
  <1>2. f[0] = m /\ \A i \in 0 .. Len(s) : i # 0 => f[i] = Release(f[i - 1], 0, s[i])
    <2>1. \A i \in 0 .. Len(s) : f[i] = IF i = 0 THEN m ELSE Release(f[i - 1], 0, s[i])
      BY <1>1, Zenon DEF ReleaseLoop
    <2> QED BY <2>1, <1>0
  <1>7. \A p \in Nat : Held(m, p) \in Nat
    <2>1. Typed(m)
      BY DEF Sound
    <2>2. PICK n \in Nat : m.refs \in [0 .. n - 1 -> Nat]
      BY <2>1 DEF Typed
    <2> QED BY <2>2 DEF Held
  <1>3. 0 \in T
    <2>1. \A p : Times(s, 0, p) = 0
      BY TimesNone
    <2>2. Sound(f[0]) /\ f[0].zero = m.zero /\ DOMAIN f[0].refs = DOMAIN m.refs
      BY <1>2
    <2>3. \A p \in Nat : Held(f[0], p) = Held(m, p) - Times(s, 0, p)
      <3> SUFFICES ASSUME NEW p \in Nat PROVE Held(f[0], p) = Held(m, p) - Times(s, 0, p)
        OBVIOUS
      <3>1. Held(m, p) \in Nat /\ Times(s, 0, p) = 0 /\ f[0] = m
        BY <2>1, <1>2, <1>7
      <3> QED BY <3>1
    <2> QED BY <2>2, <2>3
  <1>4. ASSUME NEW i \in Nat, i \in T PROVE i + 1 \in T
    <2> SUFFICES ASSUME i + 1 <= Len(s) PROVE Good(i + 1)
      OBVIOUS
    <2>1. Good(i)
      BY <1>4, <1>0
    <2>2. PICK q : q = s[i + 1]
      OBVIOUS
    <2>3. PICK c : c = f[i]
      OBVIOUS
    <2>4. f[i + 1] = Release(c, 0, q)
      BY <1>0, <1>2, <2>2, <2>3
    <2>5. q \in Nat
      BY <2>2, <1>0
    <2>6. Sound(c)
      BY <2>1, <2>3
    <2>7. /\ c.zero = m.zero /\ DOMAIN c.refs = DOMAIN m.refs
          /\ \A p \in Nat : Held(c, p) = Held(m, p) - Times(s, i, p)
      BY <2>1, <2>3
    <2>8. \A p : /\ Times(s, i, p) \in Nat
                 /\ Times(s, i + 1, p) = Times(s, i, p) + IF q = p THEN 1 ELSE 0
      <3> SUFFICES ASSUME NEW p
                   PROVE  /\ Times(s, i, p) \in Nat
                          /\ Times(s, i + 1, p) = Times(s, i, p) + IF q = p THEN 1 ELSE 0
        OBVIOUS
      <3>1. Times(s, i + 1, p) = Times(s, i, p) + IF s[i + 1] = p THEN 1 ELSE 0
        BY TimesNext
      <3> QED BY <3>1, <2>2, TimesType
    <2>9. Times(s, i + 1, q) <= Held(m, q)
      <3>1. Times(s, i + 1, q) <= Times(s, Len(s), q)
        BY <1>0, TimesGrow
      <3>2. i + 1 \in Nat
        OBVIOUS
      <3>3. Times(s, i + 1, q) \in Nat
        BY <3>2, TimesType
      <3>4. Times(s, Len(s), q) \in Nat
        BY <1>0, TimesType
      <3>5. Times(s, Len(s), q) <= Held(m, q)
        BY <2>5
      <3> QED BY <3>1, <3>3, <3>4, <3>5, <2>5, <1>7
    <2>10. Held(c, q) > 0
      <3>1. /\ Held(c, q) = Held(m, q) - Times(s, i, q) /\ Held(m, q) \in Nat
            /\ Times(s, i, q) \in Nat /\ Times(s, i + 1, q) = Times(s, i, q) + 1
        BY <2>5, <2>7, <2>8, <1>7
      <3> QED BY <3>1, <2>9
    <2>11. q \in DOMAIN c.refs /\ c.refs[q] > 0
      BY <2>10 DEF Held
    <2>12. 0 \in Threads
      BY CowAssumption DEF Threads
    <2>13. PICK d : d = Release(c, 0, q)
      OBVIOUS
    <2>14. /\ Sound(d) /\ d.zero = c.zero /\ DOMAIN d.refs = DOMAIN c.refs
           /\ Held(d, q) = Held(c, q) - 1
           /\ \A p \in Nat : p # q => Held(d, p) = Held(c, p)
      BY <2>6, <2>11, <2>12, <2>13, ReleaseKeeps
    <2>15. \A p \in Nat : Held(d, p) = Held(m, p) - Times(s, i + 1, p)
      <3> SUFFICES ASSUME NEW p \in Nat PROVE Held(d, p) = Held(m, p) - Times(s, i + 1, p)
        OBVIOUS
      <3>1. Held(c, p) = Held(m, p) - Times(s, i, p) /\ Held(m, p) \in Nat
        BY <2>7, <1>7
      <3>2. Times(s, i, p) \in Nat /\ Times(s, i + 1, p) = Times(s, i, p) + IF q = p THEN 1 ELSE 0
        BY <2>8
      <3>3. CASE p = q
        BY <3>1, <3>2, <3>3, <2>14
      <3>4. CASE p # q
        BY <3>1, <3>2, <3>4, <2>14
      <3> QED BY <3>3, <3>4
    <2> QED BY <2>4, <2>7, <2>13, <2>14, <2>15
  <1> HIDE DEF T
  <1>5. \A i \in Nat : i \in T
    BY <1>3, <1>4, AllNumbers
  <1>6. \A i \in 0 .. Len(s) : Good(i)
    BY <1>0, <1>5 DEF T
  <1> QED BY <1>1, <1>2, <1>6

(* release_pages(): one reference less for each slot of a page.               *)
LEMMA ReleasePagesKeeps ==
    ASSUME NEW m, Sound(m), NEW s \in Seq(Nat),
           \A p \in Nat : Times(s, Len(s), p) <= Held(m, p), NEW b, b = ReleasePages(m, s)
    PROVE  /\ Sound(b) /\ b.zero = m.zero /\ DOMAIN b.refs = DOMAIN m.refs
           /\ \A p \in Nat : Held(b, p) = Held(m, p) - Times(s, Len(s), p)
  <1>1. Len(s) \in 0 .. Len(s)
    OBVIOUS
  <1> QED BY <1>1, ReleaseLoopKeeps

----------------------------------------------------------------------------
(* The slots that show a page.                                                *)

LEMMA ShowsIs ==
    ASSUME NEW p, NEW x
    PROVE  x \in Shows(p) <=>
              \E l \in live : \E i \in SlotsOf(l) : ids[table[l]][i] = p /\ x = <<l, i>>
  BY DEF Shows

LEMMA ShowsIsNext ==
    ASSUME NEW p, NEW x
    PROVE  x \in Shows(p)' <=>
              \E l \in live' : \E i \in SlotsOf(l)' : ids'[table'[l]][i] = p /\ x = <<l, i>>
  BY DEF Shows

(* Those of one level: as many as the page has in its table.                  *)
Pairs(l, s, n, p) == {x \in {l} \X (1 .. n) : s[x[2]] = p}

LEMMA PairsIs ==
    ASSUME NEW l, NEW s, NEW n \in Nat, NEW p
    PROVE  /\ IsFiniteSet(Pairs(l, s, n, p))
           /\ Cardinality(Pairs(l, s, n, p)) = Times(s, n, p)
  <1>1. PICK S : S = {i \in 1 .. n : s[i] = p}
    OBVIOUS
  <1>2. PICK P : P = Pairs(l, s, n, p)
    OBVIOUS
  <1>3. \A x : x \in P <=> \E i \in S : x = <<l, i>>
    BY <1>1, <1>2 DEF Pairs
  <1>4. IsFiniteSet(S)
    <2>1. S \subseteq 1 .. n
      BY <1>1
    <2> QED BY <2>1, SlotsFinite
  <1>5. PICK f : f = [i \in S |-> <<l, i>>]
    OBVIOUS
  <1>6. f \in Bijection(S, P)
    <2>1. f \in [S -> P] /\ \A a, b \in S : f[a] = f[b] => a = b
      BY <1>3, <1>5
    <2>2. \A x \in P : \E i \in S : f[i] = x
      BY <1>3, <1>5
    <2> QED BY <2>1, <2>2 DEF Bijection, Injection, Surjection, IsInjective
  <1>7. IsFiniteSet(P) /\ Cardinality(P) = Cardinality(S)
    BY <1>4, <1>6, FS_Bijection DEF ExistsBijection
  <1>8. Cardinality(S) = Times(s, n, p)
    BY <1>1 DEF Times
  <1> QED BY <1>2, <1>7, <1>8

(* A level that comes or goes adds its slots, or takes them away.             *)
Parts(S, T, l, s, n, p) == S = T \cup Pairs(l, s, n, p) /\ T \cap Pairs(l, s, n, p) = {}

LEMMA ShowsSplit ==
    ASSUME NEW S, NEW T, NEW l, NEW s, NEW n \in Nat, NEW p, IsFiniteSet(T),
           Parts(S, T, l, s, n, p)
    PROVE  IsFiniteSet(S) /\ Cardinality(S) = Cardinality(T) + Times(s, n, p)
  <1>1. PICK P : P = Pairs(l, s, n, p)
    OBVIOUS
  <1>2. IsFiniteSet(P)
    BY <1>1, PairsIs
  <1>3. Cardinality(P) = Times(s, n, p)
    BY <1>1, PairsIs
  <1>5. S = T \cup P /\ T \cap P = {}
    BY <1>1 DEF Parts
  <1>6. /\ IsFiniteSet(T \cup P)
        /\ Cardinality(T \cup P) = Cardinality(T) + Cardinality(P) - Cardinality(T \cap P)
    BY <1>2, FS_Union
  <1>7. Cardinality(T) \in Nat /\ Cardinality(P) \in Nat /\ Cardinality({}) = 0
    BY <1>2, FS_CardinalityType, FS_EmptySet
  <1>8. Cardinality(S) = Cardinality(T) + Cardinality(P) - Cardinality({})
    BY <1>5, <1>6, Zenon
  <1>9. IsFiniteSet(S)
    BY <1>5, <1>6
  <1>10. Cardinality(S) = Cardinality(T) + Times(s, n, p)
    BY <1>3, <1>7, <1>8
  <1> QED BY <1>9, <1>10

LEMMA LevelShown ==
    ASSUME NEW l, NEW s, NEW n \in Nat, NEW p, l \notin live, live' = live \cup {l},
           SlotsOf(l)' = 1 .. n, ids'[table'[l]] = s,
           \A x \in live : /\ SlotsOf(x)' = SlotsOf(x) /\ table'[x] = table[x]
                           /\ ids'[table[x]] = ids[table[x]],
           IsFiniteSet(Shows(p))
    PROVE  /\ IsFiniteSet(Shows(p)')
           /\ Cardinality(Shows(p)') = Cardinality(Shows(p)) + Times(s, n, p)
  <1>1. PICK T : T = Shows(p)
    OBVIOUS
  <1>2. PICK S : S = Shows(p)'
    OBVIOUS
  <1>3. \A x : x \in T <=>
           \E k \in live : \E i \in SlotsOf(k) : ids[table[k]][i] = p /\ x = <<k, i>>
    BY <1>1, ShowsIs
  <1>4. \A x : x \in S <=>
           \E k \in live' : \E i \in SlotsOf(k)' : ids'[table'[k]][i] = p /\ x = <<k, i>>
    BY <1>2, ShowsIsNext
  <1>5. \A x : x \in Pairs(l, s, n, p) <=> \E i \in 1 .. n : s[i] = p /\ x = <<l, i>>
    BY DEF Pairs
  <1>6. S = T \cup Pairs(l, s, n, p)
    <2>1. ASSUME NEW x, x \in S PROVE x \in T \/ x \in Pairs(l, s, n, p)
      <3>1. PICK k \in live' : \E i \in SlotsOf(k)' : ids'[table'[k]][i] = p /\ x = <<k, i>>
        BY <1>4, <2>1
      <3>2. CASE k = l
        BY <3>1, <3>2, <1>5
      <3>3. CASE k \in live
        <4>1. \E i \in SlotsOf(k) : ids[table[k]][i] = p /\ x = <<k, i>>
          BY <3>1, <3>3
        <4> QED BY <4>1, <3>3, <1>3
      <3> QED BY <3>2, <3>3
    <2>2. ASSUME NEW x, x \in T PROVE x \in S
      <3>1. PICK k \in live : \E i \in SlotsOf(k) : ids[table[k]][i] = p /\ x = <<k, i>>
        BY <1>3, <2>2
      <3>2. k \in live' /\ \E i \in SlotsOf(k)' : ids'[table'[k]][i] = p /\ x = <<k, i>>
        BY <3>1
      <3> QED BY <3>2, <1>4
    <2>3. ASSUME NEW x, x \in Pairs(l, s, n, p) PROVE x \in S
      <3>1. PICK i \in 1 .. n : s[i] = p /\ x = <<l, i>>
        BY <1>5, <2>3
      <3>2. l \in live' /\ i \in SlotsOf(l)' /\ ids'[table'[l]][i] = p
        BY <3>1
      <3> QED BY <3>1, <3>2, <1>4
    <2> QED BY <2>1, <2>2, <2>3
  <1>7. T \cap Pairs(l, s, n, p) = {}
    <2> SUFFICES ASSUME NEW x, x \in T, x \in Pairs(l, s, n, p) PROVE FALSE
      OBVIOUS
    <2>1. PICK k \in live : \E i \in SlotsOf(k) : ids[table[k]][i] = p /\ x = <<k, i>>
      BY <1>3
    <2>2. PICK i \in 1 .. n : s[i] = p /\ x = <<l, i>>
      BY <1>5
    <2> QED BY <2>1, <2>2
  <1>8. IsFiniteSet(T)
    BY <1>1
  <1>10. Parts(S, T, l, s, n, p)
    BY <1>6, <1>7 DEF Parts
  <1>9. IsFiniteSet(S) /\ Cardinality(S) = Cardinality(T) + Times(s, n, p)
    BY <1>8, <1>10, ShowsSplit
  <1> QED BY <1>1, <1>2, <1>9

LEMMA LevelHidden ==
    ASSUME NEW l \in live, NEW n \in Nat, NEW p, live' = live \ {l}, SlotsOf(l) = 1 .. n,
           size' = size, table' = table, ids' = ids, IsFiniteSet(Shows(p))
    PROVE  /\ IsFiniteSet(Shows(p)')
           /\ Cardinality(Shows(p)') = Cardinality(Shows(p)) - Times(ids[table[l]], n, p)
           /\ Cardinality(Shows(p)) \in Nat /\ Times(ids[table[l]], n, p) <= Cardinality(Shows(p))
  <1>0. PICK s : s = ids[table[l]]
    OBVIOUS
  <1>1. PICK S : S = Shows(p)
    OBVIOUS
  <1>2. PICK T : T = Shows(p)'
    OBVIOUS
  <1>13. \A k : SlotsOf(k)' = SlotsOf(k)
    BY DEF SlotsOf
  <1>3. \A x : x \in S <=>
           \E k \in live : \E i \in SlotsOf(k) : ids[table[k]][i] = p /\ x = <<k, i>>
    BY <1>1, ShowsIs
  <1>4. \A x : x \in T <=>
           \E k \in live \ {l} : \E i \in SlotsOf(k) : ids[table[k]][i] = p /\ x = <<k, i>>
    BY <1>2, <1>13, ShowsIsNext
  <1>5. \A x : x \in Pairs(l, s, n, p) <=> \E i \in 1 .. n : s[i] = p /\ x = <<l, i>>
    BY DEF Pairs
  <1>6. S = T \cup Pairs(l, s, n, p)
    <2>1. ASSUME NEW x, x \in S PROVE x \in T \/ x \in Pairs(l, s, n, p)
      <3>1. PICK k \in live : \E i \in SlotsOf(k) : ids[table[k]][i] = p /\ x = <<k, i>>
        BY <1>3, <2>1
      <3> QED BY <3>1, <1>0, <1>4, <1>5
    <2>2. ASSUME NEW x, x \in T PROVE x \in S
      BY <2>2, <1>3, <1>4
    <2>3. ASSUME NEW x, x \in Pairs(l, s, n, p) PROVE x \in S
      <3>1. PICK i \in 1 .. n : s[i] = p /\ x = <<l, i>>
        BY <1>5, <2>3
      <3>2. i \in SlotsOf(l) /\ ids[table[l]][i] = p
        BY <3>1, <1>0
      <3> QED BY <3>1, <3>2, <1>3
    <2> QED BY <2>1, <2>2, <2>3
  <1>7. T \cap Pairs(l, s, n, p) = {}
    <2> SUFFICES ASSUME NEW x, x \in T, x \in Pairs(l, s, n, p) PROVE FALSE
      OBVIOUS
    <2>1. PICK k \in live \ {l} : \E i \in SlotsOf(k) : ids[table[k]][i] = p /\ x = <<k, i>>
      BY <1>4
    <2>2. PICK i \in 1 .. n : s[i] = p /\ x = <<l, i>>
      BY <1>5
    <2> QED BY <2>1, <2>2
  <1>8. IsFiniteSet(T)
    <2>1. T \subseteq S
      BY <1>6
    <2> QED BY <2>1, <1>1, FS_Subset
  <1>12. Parts(S, T, l, s, n, p)
    BY <1>6, <1>7 DEF Parts
  <1>9. Cardinality(S) = Cardinality(T) + Times(s, n, p)
    BY <1>8, <1>12, ShowsSplit
  <1>10. Cardinality(T) \in Nat /\ Times(s, n, p) \in Nat
    BY <1>8, FS_CardinalityType, TimesType
  <1>11. /\ Cardinality(T) = Cardinality(S) - Times(s, n, p) /\ Cardinality(S) \in Nat
         /\ Times(s, n, p) <= Cardinality(S)
    BY <1>9, <1>10
  <1> QED BY <1>0, <1>1, <1>2, <1>8, <1>11

(* Who adds no value holds no lock and copies no page.                        *)
LEMMA QuietIs ==
    ASSUME LockHeld, Quiet
    PROVE  /\ lock = None /\ ~ Copies
           /\ \A p : Fresh(p) = 0 /\ Dropped(p) = 0
           /\ \A t \in Threads : pc[t] \notin Detached
  <1>1. \A t \in Threads : pc[t] \notin Detached /\ pc[t] \notin Holding \cup {"write", "fill"}
    BY DEF Quiet, Detached, Holding
  <1>2. lock = None
    BY <1>1 DEF LockHeld
  <1> QED BY <1>1, <1>2 DEF Copies, Fresh, Dropped

(* The page manager's counts as numbers.                                      *)
LEMMA HeldType ==
    ASSUME NEW m, Sound(m), NEW p \in Nat PROVE Held(m, p) \in Nat
  <1>1. Typed(m)
    BY DEF Sound
  <1>2. PICK n \in Nat : m.refs \in [0 .. n - 1 -> Nat]
    BY <1>1 DEF Typed
  <1> QED BY <1>2 DEF Held

LEMMA PagesNumbers ==
    ASSUME NEW m, Sound(m), NEW p \in DOMAIN m.refs PROVE p \in Nat
  <1>1. Typed(m)
    BY DEF Sound
  <1>2. PICK n \in Nat : m.refs \in [0 .. n - 1 -> Nat]
    BY <1>1 DEF Typed
  <1> QED BY <1>2

----------------------------------------------------------------------------
(* A new level keeps the invariant, if the references that it takes are those *)
(* of its slots and if its last slot shows the zero page.                     *)
LEMMA CountedLevel ==
    ASSUME RowInv, CountInv, Quiet, ~ closing, NEW k \in Nat \ {0}, NEW tbl, NEW s,
           AddLevel(newest + 1, k, tbl),
           \/ tbl = newest + 1 /\ OwnTable(newest + 1, s)
           \/ /\ live # {} /\ tbl = table[newest] /\ s = ids[tbl] /\ ~ modified'
              /\ UNCHANGED tableVars,
           s \in [1 .. k + 1 -> DOMAIN pm'.refs], DOMAIN pm.refs \subseteq DOMAIN pm'.refs,
           Sound(pm'), \A p \in Nat : Held(pm', p) = Held(pm, p) + Times(s, k + 1, p),
           pm'.zero # None => s[k + 1] = pm'.zero,
           UNCHANGED <<lock, threadVars, addVars>>,
           newest = -1 => tbl = newest + 1
    PROVE  CountInv'
  <1>1. /\ newest \in Int /\ newest >= -1 /\ live \subseteq 0 .. newest
        /\ newest >= 0 => newest \in live
        /\ live # {} => newest >= 0
    BY HasLevel DEF RowInv, LevelsInRow
  <1>2. /\ table \in [0 .. newest -> Nat] /\ \A x \in 0 .. newest : table[x] \in 0 .. x
    BY DEF RowInv, TablesInRow
  <1>3. PICK l : l = newest + 1
    OBVIOUS
  <1>4. /\ newest' = l /\ live' = live \cup {l} /\ size' = With(size, l, k)
        /\ table' = With(table, l, tbl)
    BY <1>3 DEF AddLevel
  <1>5. /\ lock' = lock /\ pc' = pc /\ node' = node /\ pageId' = pageId /\ closing' = closing
    BY DEF threadVars, addVars
  <1>6. Sound(pm) /\ LockHeld /\ TablesTyped
    BY DEF CountInv
  <1>7. l \in Nat /\ l \notin 0 .. newest /\ l \notin live /\ 0 .. l = (0 .. newest) \cup {l}
    BY <1>1, <1>3
  <1>8. DOMAIN size = 0 .. newest /\ DOMAIN table = 0 .. newest
    BY <1>2, <1>6 DEF TablesTyped
  <1>9. /\ DOMAIN size' = 0 .. l /\ size'[l] = k
        /\ \A x \in 0 .. newest : size'[x] = size[x]
    BY <1>4, <1>7, <1>8 DEF With
  <1>10. /\ DOMAIN table' = 0 .. l /\ table'[l] = tbl
         /\ \A x \in 0 .. newest : table'[x] = table[x]
    BY <1>4, <1>7, <1>8 DEF With
  <1>11. \A x \in live : /\ size[x] \in Nat \ {0}
                         /\ table[x] \in DOMAIN ids /\ table[x] \in DOMAIN ptr
                         /\ ids[table[x]] \in [SlotsOf(x) -> DOMAIN pm.refs]
                         /\ ptr[table[x]] \in [SlotsOf(x) -> DOMAIN pm.refs]
    BY <1>6 DEF TablesTyped
  <1>12. /\ lock = None /\ ~ Copies /\ \A p : Fresh(p) = 0 /\ Dropped(p) = 0
         /\ \A t \in Threads : pc[t] \notin Detached
    BY <1>6, QuietIs
  <1>13. /\ ~ Copies' /\ \A p : Fresh(p)' = 0 /\ Dropped(p)' = 0
    BY <1>5, <1>12 DEF Copies, Fresh, Dropped
  <1>14. \A x \in live : ptr[table[x]] = ids[table[x]]
    <2> SUFFICES ASSUME NEW x \in live PROVE ptr[table[x]] = ids[table[x]]
      OBVIOUS
    <2>1. \A i \in SlotsOf(x) : ptr[table[x]][i] = ids[table[x]][i]
      BY <1>12 DEF CountInv, SlotsAgree
    <2> QED BY <2>1, <1>11
  <1>15. \A x \in live : table[x] # l
    BY <1>1, <1>2, <1>7
  (* The tables of the old levels, and the one of the new level. *)
  <1>16. /\ \A x \in live : /\ table[x] \in DOMAIN ids' /\ ids'[table[x]] = ids[table[x]]
                            /\ table[x] \in DOMAIN ptr' /\ ptr'[table[x]] = ptr[table[x]]
         /\ tbl \in DOMAIN ids' /\ tbl \in DOMAIN ptr' /\ ids'[tbl] = s /\ ptr'[tbl] = s
    <2>1. CASE tbl = newest + 1 /\ OwnTable(newest + 1, s)
      <3>1. ids' = With(ids, l, s) /\ ptr' = With(ptr, l, s) /\ tbl = l
        BY <2>1, <1>3 DEF OwnTable
      <3> QED BY <3>1, <1>11, <1>15 DEF With
    <2>2. CASE /\ live # {} /\ tbl = table[newest] /\ s = ids[tbl]
               /\ UNCHANGED tableVars
      <3>1. ids' = ids /\ ptr' = ptr /\ newest \in live
        BY <2>2, <1>1 DEF tableVars
      <3> QED BY <3>1, <2>2, <1>11, <1>14
    <2> QED BY <2>1, <2>2
  <1>17. /\ SlotsOf(l)' = 1 .. k + 1
         /\ \A x \in live : SlotsOf(x)' = SlotsOf(x)
    BY <1>1, <1>9 DEF SlotsOf
  <1>18. LockHeld'
    <2>1. \A t \in Threads : pc[t] = "idle"
      BY DEF Quiet
    <2>2. \A t \in Threads : ~ (pc[t] \in Holding)
      BY <2>1 DEF Holding
    <2> QED BY <2>1, <2>2, <1>5, <1>6, <1>12 DEF LockHeld, None, Threads
  <1>19. TablesTyped'
    <2>1. \A x \in live' :
             /\ size'[x] \in Nat \ {0}
             /\ table'[x] \in DOMAIN ids' /\ table'[x] \in DOMAIN ptr'
             /\ ids'[table'[x]] \in [SlotsOf(x)' -> DOMAIN pm'.refs]
             /\ ptr'[table'[x]] \in [SlotsOf(x)' -> DOMAIN pm'.refs]
      <3> SUFFICES ASSUME NEW x \in live'
                   PROVE  /\ size'[x] \in Nat \ {0}
                          /\ table'[x] \in DOMAIN ids' /\ table'[x] \in DOMAIN ptr'
                          /\ ids'[table'[x]] \in [SlotsOf(x)' -> DOMAIN pm'.refs]
                          /\ ptr'[table'[x]] \in [SlotsOf(x)' -> DOMAIN pm'.refs]
        OBVIOUS
      <3>1. CASE x = l
        BY <3>1, <1>9, <1>10, <1>16, <1>17
      <3>2. CASE x \in live
        <4>1. size'[x] = size[x] /\ table'[x] = table[x] /\ SlotsOf(x)' = SlotsOf(x)
          BY <3>2, <1>1, <1>9, <1>10, <1>17
        <4>2. /\ ids'[table[x]] \in [SlotsOf(x) -> DOMAIN pm'.refs]
              /\ ptr'[table[x]] \in [SlotsOf(x) -> DOMAIN pm'.refs]
          <5>1. /\ ids[table[x]] \in [SlotsOf(x) -> DOMAIN pm.refs]
                /\ ptr[table[x]] \in [SlotsOf(x) -> DOMAIN pm.refs]
            BY <3>2, <1>11
          <5>2. /\ ids[table[x]] \in [SlotsOf(x) -> DOMAIN pm'.refs]
                /\ ptr[table[x]] \in [SlotsOf(x) -> DOMAIN pm'.refs]
            BY <5>1
          <5> QED BY <5>2, <3>2, <1>16
        <4> QED BY <4>1, <4>2, <3>2, <1>11, <1>16
      <3> QED BY <3>1, <3>2, <1>4
    <2>2. newest' \in live' /\ (pm'.zero # None => ids'[table'[newest']][size'[newest'] + 1] = pm'.zero)
      BY <1>4, <1>9, <1>10, <1>16
    <2> QED BY <2>1, <2>2, <1>4, <1>9 DEF TablesTyped
  <1>20. TableOwned'
    <2> SUFFICES ASSUME modified' PROVE \A x \in 0 .. l - 1 : table'[x] # table'[l]
      BY <1>4, <1>5, <1>12 DEF TableOwned
    <2>1. tbl = l
      BY <1>3
    <2> SUFFICES ASSUME NEW x \in 0 .. l - 1 PROVE table'[x] # table'[l]
      OBVIOUS
    <2>2. x \in 0 .. newest
      BY <1>1, <1>3
    <2> QED BY <2>1, <2>2, <1>2, <1>7, <1>10
  <1>21. SlotsAgree'
    <2>1. \A x \in live' : \A i \in SlotsOf(x)' : ptr'[table'[x]][i] = ids'[table'[x]][i]
      <3> SUFFICES ASSUME NEW x \in live' PROVE ptr'[table'[x]] = ids'[table'[x]]
        OBVIOUS
      <3>1. CASE x = l
        BY <3>1, <1>10, <1>16
      <3>2. CASE x \in live
        BY <3>2, <1>1, <1>10, <1>14, <1>16
      <3> QED BY <3>1, <3>2, <1>4
    <2>2. \A t \in Threads : pc'[t] \notin Holding
      BY <1>5, <1>12 DEF Detached
    <2> QED BY <2>1, <2>2, <1>13 DEF SlotsAgree
  <1>22. Counted'
    <2> SUFFICES ASSUME NEW p \in Nat
                 PROVE  /\ IsFiniteSet(Shows(p)')
                        /\ Held(pm', p) + Dropped(p)' = Cardinality(Shows(p)') + Fresh(p)'
      BY DEF Counted
    <2>1. IsFiniteSet(Shows(p)) /\ Held(pm, p) + Dropped(p) = Cardinality(Shows(p)) + Fresh(p)
      BY DEF CountInv, Counted
    <2>2. Cardinality(Shows(p)) \in Nat /\ Held(pm, p) \in Nat /\ Times(s, k + 1, p) \in Nat
      BY <2>1, <1>6, FS_CardinalityType, HeldType, TimesType
    <2>3. \A x \in live : /\ SlotsOf(x)' = SlotsOf(x) /\ table'[x] = table[x]
                          /\ ids'[table[x]] = ids[table[x]]
      BY <1>1, <1>10, <1>16, <1>17
    <2>4. ids'[table'[l]] = s
      BY <1>10, <1>16
    <2>5. /\ IsFiniteSet(Shows(p)')
          /\ Cardinality(Shows(p)') = Cardinality(Shows(p)) + Times(s, k + 1, p)
      BY <2>1, <2>3, <2>4, <1>4, <1>7, <1>17, LevelShown
    <2>6. Held(pm', p) = Held(pm, p) + Times(s, k + 1, p)
      OBVIOUS
    <2> QED BY <2>1, <2>2, <2>5, <2>6, <1>12, <1>13
  <1> QED BY <1>18, <1>19, <1>20, <1>21, <1>22 DEF CountInv

(* A page that a level shows is in use.                                       *)
LEMMA ShownCounts ==
    ASSUME CountInv, NEW l \in live, NEW i \in SlotsOf(l), NEW p \in Nat, p = ids[table[l]][i]
    PROVE  Cardinality(Shows(p)) \in Nat \ {0}
  <1>1. <<l, i>> \in Shows(p)
    BY ShowsIs
  <1>2. IsFiniteSet(Shows(p))
    BY DEF CountInv, Counted
  <1>3. Shows(p) # {}
    BY <1>1
  <1> QED BY <1>2, <1>3, FS_CardinalityType, FS_EmptySet

LEMMA ShownUsed ==
    ASSUME CountInv, ~ Copies, NEW l \in live, NEW i \in SlotsOf(l)
    PROVE  ids[table[l]][i] \in Nat /\ Held(pm, ids[table[l]][i]) > 0
  <1>1. PICK p : p = ids[table[l]][i]
    OBVIOUS
  <1>2. p \in DOMAIN pm.refs
    BY <1>1 DEF CountInv, TablesTyped
  <1>3. p \in Nat
    BY <1>2, PagesNumbers DEF CountInv
  <1>4. Cardinality(Shows(p)) \in Nat \ {0}
    BY <1>1, <1>3, ShownCounts
  <1>5. Fresh(p) = 0 /\ Dropped(p) = 0
    BY DEF Fresh, Dropped
  <1>6. Held(pm, p) \in Nat
    BY <1>3, HeldType DEF CountInv
  <1>7. Held(pm, p) + Dropped(p) = Cardinality(Shows(p)) + Fresh(p)
    BY <1>3 DEF CountInv, Counted
  <1> QED BY <1>1, <1>3, <1>4, <1>5, <1>6, <1>7

LEMMA ShownHeld ==
    ASSUME CountInv, Quiet, NEW l \in live, NEW i \in SlotsOf(l)
    PROVE  ids[table[l]][i] \in Nat /\ Held(pm, ids[table[l]][i]) > 0
  <1>1. ~ Copies
    BY QuietIs DEF CountInv
  <1> QED BY <1>1, ShownUsed

(* The first slots of a table.                                                *)
LEMMA FirstSlots ==
    ASSUME NEW n \in Nat, NEW k \in Nat, k <= n, NEW S, NEW s \in [1 .. n -> S]
    PROVE  SubSeq(s, 1, k) \in [1 .. k -> S] /\ \A i \in 1 .. k : SubSeq(s, 1, k)[i] = s[i]
  <1>1. s \in Seq(S) /\ Len(s) = n
    OBVIOUS
  <1>2. PICK q : q = SubSeq(s, 1, k)
    OBVIOUS
  <1>3. q = [i \in 1 .. k |-> s[i]]
    BY <1>1, <1>2
  <1>4. \A i \in 1 .. k : s[i] \in S
    OBVIOUS
  <1>5. q \in [1 .. k -> S]
    BY <1>3, <1>4
  <1>6. \A i \in 1 .. k : q[i] = s[i]
    BY <1>3
  <1> QED BY <1>2, <1>5, <1>6

(* The newest level of a collection that is not being destroyed.              *)
LEMMA NewestIs ==
    ASSUME RowInv, CountInv, ~ closing, live # {}
    PROVE  /\ newest \in Nat /\ newest \in live /\ size[newest] \in Nat \ {0}
           /\ ids[table[newest]] \in [1 .. size[newest] + 1 -> DOMAIN pm.refs]
           /\ SlotsOf(newest) = 1 .. size[newest] + 1
           /\ pm.zero # None => ids[table[newest]][size[newest] + 1] = pm.zero
  <1>1. newest \in Nat /\ newest \in live
    BY HasLevel DEF RowInv, LevelsInRow
  <1> QED BY <1>1 DEF CountInv, TablesTyped, SlotsOf

LEMMA CountedDense ==
    ASSUME RowInv, CountInv, NEW k \in Sizes, DenseInit(k) PROVE CountInv'
  <1>1. k \in Nat \ {0} /\ k + 1 \in Nat
    BY CowAssumption
  <1>2. PICK r : r = AllocateRange(pm, k + 1)
    OBVIOUS
  <1>3. Sound(pm)
    BY DEF CountInv
  <1>4. /\ Quiet /\ ~ closing /\ live = {}
        /\ AddLevel(newest + 1, k, newest + 1) /\ OwnTable(newest + 1, r.pages)
        /\ pm' = r.pm /\ UNCHANGED <<lock, threadVars, addVars>>
    BY <1>2 DEF DenseInit
  <1>5. /\ Sound(r.pm) /\ r.pm.zero = pm.zero /\ DOMAIN pm.refs \subseteq DOMAIN r.pm.refs
        /\ r.pages \in Seq(DOMAIN r.pm.refs) /\ Len(r.pages) = k + 1
        /\ \A p \in Nat : Held(r.pm, p) = Held(pm, p) + Times(r.pages, k + 1, p)
    <2>1. PICK c : c = k + 1
      OBVIOUS
    <2>2. c \in Nat /\ r = AllocateRange(pm, c)
      BY <2>1, <1>1, <1>2
    <2>3. Sound(r.pm) /\ r.pm.zero = pm.zero /\ DOMAIN pm.refs \subseteq DOMAIN r.pm.refs
      BY <2>2, <1>3, AllocateRangeKeeps
    <2>4. r.pages \in Seq(DOMAIN r.pm.refs) /\ Len(r.pages) = c
      BY <2>2, <1>3, AllocateRangeKeeps
    <2>5. \A p \in Nat : Held(r.pm, p) = Held(pm, p) + Times(r.pages, c, p)
      BY <2>2, <1>3, AllocateRangeKeeps, SMTT(40)
    <2> QED BY <2>1, <2>3, <2>4, <2>5
  <1>6. pm'.zero = None
    <2>1. pm.zero = None
      BY <1>4 DEF CountInv, TablesTyped
    <2> QED BY <2>1, <1>4, <1>5
  <1>7. r.pages \in [1 .. k + 1 -> DOMAIN pm'.refs]
    <2>1. \A D, s : s \in Seq(D) => s \in [1 .. Len(s) -> D]
      OBVIOUS
    <2>2. r.pages \in [1 .. Len(r.pages) -> DOMAIN r.pm.refs]
      BY <2>1, <1>5
    <2> QED BY <2>2, <1>4, <1>5
  <1>8. Sound(pm') /\ \A p \in Nat : Held(pm', p) = Held(pm, p) + Times(r.pages, k + 1, p)
    BY <1>4, <1>5
  <1>9. DOMAIN pm.refs \subseteq DOMAIN pm'.refs
    BY <1>4, <1>5
  <1> QED BY <1>1, <1>4, <1>6, <1>7, <1>8, <1>9, CountedLevel

LEMMA CountedShared ==
    ASSUME RowInv, CountInv, NEW k \in Sizes, CowInitShared(k) PROVE CountInv'
  <1>1. k \in Nat \ {0} /\ k + 1 \in Nat
    BY CowAssumption
  <1>2. Sound(pm)
    BY DEF CountInv
  <1>3. PICK s : s = ids[table[newest]]
    OBVIOUS
  <1>4. /\ Quiet /\ ~ closing /\ live # {} /\ k = size[newest]
        /\ AddLevel(newest + 1, k, table[newest])
        /\ pm' = Acquire(pm, SubSeq(s, 1, k + 1)) /\ ~ modified'
        /\ UNCHANGED tableVars /\ UNCHANGED <<lock, threadVars, addVars>>
    BY <1>3 DEF CowInitShared
  <1>5. /\ newest \in Nat /\ newest \in live
        /\ s \in [1 .. k + 1 -> DOMAIN pm.refs] /\ SlotsOf(newest) = 1 .. k + 1
        /\ pm.zero # None => s[k + 1] = pm.zero
    BY <1>3, <1>4, NewestIs
  <1>6. PICK q : q = SubSeq(s, 1, k + 1)
    OBVIOUS
  <1>7. q \in [1 .. k + 1 -> DOMAIN pm.refs] /\ \A i \in 1 .. k + 1 : q[i] = s[i]
    BY <1>1, <1>5, <1>6, FirstSlots
  <1>8. \A i \in 1 .. k + 1 : Held(pm, q[i]) > 0
    <2> SUFFICES ASSUME NEW i \in 1 .. k + 1 PROVE Held(pm, q[i]) > 0
      OBVIOUS
    <2>1. Held(pm, ids[table[newest]][i]) > 0
      BY <1>4, <1>5, ShownHeld
    <2> QED BY <2>1, <1>3, <1>7
  <1>9. DOMAIN q = 1 .. k + 1
    BY <1>7
  <1>10. /\ Sound(pm') /\ pm'.zero = pm.zero /\ DOMAIN pm'.refs = DOMAIN pm.refs
         /\ \A p \in Nat : Held(pm', p) = Held(pm, p) + Times(q, k + 1, p)
    <2>1. PICK c : c = k + 1
      OBVIOUS
    <2>2. c \in Nat /\ DOMAIN q = 1 .. c /\ \A i \in 1 .. c : Held(pm, q[i]) > 0
      BY <2>1, <1>1, <1>8, <1>9
    <2>3. PICK m : m = Acquire(pm, q)
      OBVIOUS
    <2>4. Sound(m) /\ m.zero = pm.zero /\ DOMAIN m.refs = DOMAIN pm.refs
      BY <2>2, <2>3, <1>2, AcquireKeeps
    <2>5. \A p \in Nat : Held(m, p) = Held(pm, p) + Times(q, c, p)
      BY <2>2, <2>3, <1>2, AcquireKeeps
    <2>6. pm' = m
      BY <2>3, <1>4, <1>6
    <2> QED BY <2>1, <2>4, <2>5, <2>6
  <1>11. \A p \in Nat : Held(pm', p) = Held(pm, p) + Times(s, k + 1, p)
    BY <1>1, <1>7, <1>10, TimesSame
  <1>12. /\ s \in [1 .. k + 1 -> DOMAIN pm'.refs] /\ DOMAIN pm.refs \subseteq DOMAIN pm'.refs
         /\ pm'.zero # None => s[k + 1] = pm'.zero
    BY <1>5, <1>10
  <1>13. newest # -1 /\ live # {} /\ ~ modified' /\ UNCHANGED tableVars
    BY <1>4, <1>5
  <1>14. PICK tbl : tbl = table[newest]
    OBVIOUS
  <1>15. Quiet /\ ~ closing /\ UNCHANGED <<lock, threadVars, addVars>>
    BY <1>4
  <1>16. AddLevel(newest + 1, k, tbl) /\ s = ids[tbl]
    BY <1>3, <1>4, <1>14
  <1>17. Sound(pm')
    BY <1>10
  <1> QED BY <1>1, <1>11, <1>12, <1>13, <1>14, <1>15, <1>16, <1>17, CountedLevel

(* The new table: the old slots but the extra one, then the zero page.        *)
Filled(s, a, n, old, z) ==
    (\A i \in 1 .. a : s[i] = old[i]) /\ (\A i \in a + 1 .. n : s[i] = z)

LEMMA FilledTimes ==
    ASSUME NEW a \in Nat, NEW n \in Nat, a <= n, NEW old, NEW z, NEW s, NEW p,
           Filled(s, a, n, old, z)
    PROVE  /\ p = z => Times(s, n, p) = Times(old, a, p) + (n - a)
           /\ p # z => Times(s, n, p) = Times(old, a, p)
  <1> DEFINE Good(j) == Times(s, a + j, p) = Times(old, a, p) + IF p = z THEN j ELSE 0
             T == {j \in Nat : a + j <= n => Good(j)}
  <1>1. 0 \in T
    <2>2. Times(s, a, p) = Times(old, a, p)
      BY TimesSame DEF Filled
    <2>3. Times(old, a, p) \in Nat
      BY TimesType
    <2> QED BY <2>2, <2>3
  <1>2. ASSUME NEW j \in Nat, j \in T PROVE j + 1 \in T
    <2> SUFFICES ASSUME a + (j + 1) <= n PROVE Good(j + 1)
      OBVIOUS
    <2>1. Times(s, a + j, p) = Times(old, a, p) + IF p = z THEN j ELSE 0
      BY <1>2
    <2>2. a + j \in Nat /\ (a + j) + 1 = a + (j + 1)
      OBVIOUS
    <2>3. Times(s, (a + j) + 1, p) = Times(s, a + j, p) + IF s[(a + j) + 1] = p THEN 1 ELSE 0
      BY <2>2, TimesNext
    <2>4. s[(a + j) + 1] = z
      <3>1. (a + j) + 1 \in a + 1 .. n
        BY <2>2
      <3> QED BY <3>1 DEF Filled
    <2>5. Times(old, a, p) \in Nat
      BY TimesType
    <2>6. CASE p = z
      BY <2>1, <2>2, <2>3, <2>4, <2>5, <2>6
    <2>7. CASE p # z
      BY <2>1, <2>2, <2>3, <2>4, <2>5, <2>7
    <2> QED BY <2>6, <2>7
  <1> HIDE DEF T
  <1>3. n - a \in Nat /\ a + (n - a) = n
    OBVIOUS
  <1>4. n - a \in T
    BY <1>1, <1>2, <1>3, AllNumbers
  <1>5. Good(n - a)
    BY <1>3, <1>4 DEF T
  <1>6. Times(s, n, p) = Times(old, a, p) + IF p = z THEN n - a ELSE 0
    BY <1>3, <1>5
  <1>7. Times(old, a, p) \in Nat
    BY TimesType
  <1> HIDE DEF Good
  <1> QED BY <1>6, <1>7

(* A larger level: what it acquires, and the zero page behind it.             *)
Larger(k, a, o, old, m, z, s) ==
    /\ a = size[newest] /\ o = ids[table[newest]] /\ m = Acquire(pm, old)
    /\ z = ZeroPage(m, k + 1 - a)
    /\ s = [i \in 1 .. k + 1 |-> IF i <= a THEN old[i] ELSE z.page]
    /\ Quiet /\ ~ closing /\ live # {} /\ k > a
    /\ AddLevel(newest + 1, k, newest + 1) /\ OwnTable(newest + 1, s)
    /\ pm' = z.pm /\ UNCHANGED <<lock, threadVars, addVars>>
    /\ newest \in Nat /\ newest \in live /\ a \in Nat \ {0} /\ a + 1 \in Nat
    /\ o \in [1 .. a + 1 -> DOMAIN pm.refs] /\ SlotsOf(newest) = 1 .. a + 1
    /\ pm.zero # None => o[a + 1] = pm.zero
    /\ old \in [1 .. a -> DOMAIN pm.refs] /\ \A i \in 1 .. a : old[i] = o[i]
    /\ \A i \in 1 .. a + 1 : Held(pm, o[i]) > 0
    /\ Sound(m) /\ m.zero = pm.zero /\ DOMAIN m.refs = DOMAIN pm.refs
    /\ \A p \in Nat : Held(m, p) = Held(pm, p) + Times(old, a, p)
    /\ m.zero # None => Held(m, m.zero) > 0
    /\ k + 1 - a \in Nat \ {0}

LEMMA LargerTakes ==
    ASSUME RowInv, CountInv, NEW k \in Sizes, CowInitLarger(k)
    PROVE  \E a, o, old, m, z, s : Larger(k, a, o, old, m, z, s)
  <1>1. k \in Nat \ {0} /\ k + 1 \in Nat
    BY CowAssumption
  <1>2. Sound(pm)
    BY DEF CountInv
  <1>3. PICK o : o = ids[table[newest]]
    OBVIOUS
  <1>4. PICK a : a = size[newest]
    OBVIOUS
  <1>5. PICK old : old = SubSeq(o, 1, a)
    OBVIOUS
  <1>6. PICK m : m = Acquire(pm, old)
    OBVIOUS
  <1>7. PICK z : z = ZeroPage(m, k + 1 - a)
    OBVIOUS
  <1>8. PICK s : s = [i \in 1 .. k + 1 |-> IF i <= a THEN old[i] ELSE z.page]
    OBVIOUS
  <1>9. /\ Quiet /\ ~ closing /\ live # {} /\ k > a
        /\ AddLevel(newest + 1, k, newest + 1) /\ OwnTable(newest + 1, s)
        /\ pm' = z.pm /\ UNCHANGED <<lock, threadVars, addVars>>
    BY <1>3, <1>4, <1>5, <1>6, <1>7, <1>8 DEF CowInitLarger
  <1>10. /\ newest \in Nat /\ newest \in live /\ a \in Nat \ {0} /\ a + 1 \in Nat
         /\ o \in [1 .. a + 1 -> DOMAIN pm.refs] /\ SlotsOf(newest) = 1 .. a + 1
         /\ pm.zero # None => o[a + 1] = pm.zero
    BY <1>3, <1>4, <1>9, NewestIs
  <1>11. old \in [1 .. a -> DOMAIN pm.refs] /\ \A i \in 1 .. a : old[i] = o[i]
    <2>1. PICK n : n = a + 1
      OBVIOUS
    <2>2. n \in Nat /\ a \in Nat /\ a <= n /\ o \in [1 .. n -> DOMAIN pm.refs]
      BY <2>1, <1>10
    <2>3. SubSeq(o, 1, a) \in [1 .. a -> DOMAIN pm.refs]
      BY <2>2, FirstSlots
    <2>4. \A i \in 1 .. a : SubSeq(o, 1, a)[i] = o[i]
      BY <2>2, FirstSlots
    <2> QED BY <2>3, <2>4, <1>5
  <1>12. \A i \in 1 .. a + 1 : Held(pm, o[i]) > 0
    BY <1>3, <1>9, <1>10, ShownHeld
  <1>13. /\ Sound(m) /\ m.zero = pm.zero /\ DOMAIN m.refs = DOMAIN pm.refs
         /\ \A p \in Nat : Held(m, p) = Held(pm, p) + Times(old, a, p)
    <2>1. DOMAIN old = 1 .. a
      BY <1>11
    <2>2. \A i \in 1 .. a : Held(pm, old[i]) > 0
      BY <1>10, <1>11, <1>12
    <2> QED BY <2>1, <2>2, <1>2, <1>6, <1>10, AcquireKeeps
  <1>14. m.zero # None => Held(m, m.zero) > 0
    <2> SUFFICES ASSUME m.zero # None PROVE Held(m, m.zero) > 0
      OBVIOUS
    <2>1. m.zero = o[a + 1] /\ a + 1 \in 1 .. a + 1
      BY <1>10, <1>13
    <2>2. m.zero \in DOMAIN pm.refs /\ Held(pm, m.zero) > 0
      BY <2>1, <1>10, <1>12
    <2>3. m.zero \in Nat
      BY <2>2, <1>2, PagesNumbers
    <2>4. Held(pm, m.zero) \in Nat /\ Times(old, a, m.zero) \in Nat
      BY <2>3, <1>2, <1>10, HeldType, TimesType
    <2> QED BY <2>2, <2>3, <2>4, <1>13
  <1>15. k + 1 - a \in Nat \ {0}
    BY <1>1, <1>9, <1>10
  <1>16. Larger(k, a, o, old, m, z, s)
    BY <1>3, <1>4, <1>6, <1>7, <1>8, <1>9, <1>10, <1>11, <1>12, <1>13, <1>14, <1>15, Zenon
    DEF Larger
  <1> QED BY <1>16

LEMMA CountedLarger ==
    ASSUME RowInv, CountInv, NEW k \in Sizes, CowInitLarger(k) PROVE CountInv'
  <1>1. k \in Nat \ {0} /\ k + 1 \in Nat
    BY CowAssumption
  <1>2. Sound(pm)
    BY DEF CountInv
  <1>3. PICK a, o, old, m, z, s : Larger(k, a, o, old, m, z, s)
    BY LargerTakes
  <1>7. z = ZeroPage(m, k + 1 - a)
    BY <1>3 DEF Larger
  <1>8. s = [i \in 1 .. k + 1 |-> IF i <= a THEN old[i] ELSE z.page]
    BY <1>3 DEF Larger
  <1>9. /\ Quiet /\ ~ closing /\ live # {} /\ k > a
        /\ AddLevel(newest + 1, k, newest + 1) /\ OwnTable(newest + 1, s)
        /\ pm' = z.pm /\ UNCHANGED <<lock, threadVars, addVars>>
    BY <1>3 DEF Larger
  <1>10. a \in Nat \ {0} /\ a + 1 \in Nat
    BY <1>3 DEF Larger
  <1>11. old \in [1 .. a -> DOMAIN pm.refs]
    BY <1>3 DEF Larger
  <1>13. /\ Sound(m) /\ m.zero = pm.zero /\ DOMAIN m.refs = DOMAIN pm.refs
         /\ \A p \in Nat : Held(m, p) = Held(pm, p) + Times(old, a, p)
    BY <1>3 DEF Larger
  <1>14. m.zero # None => Held(m, m.zero) > 0
    BY <1>3 DEF Larger
  <1>15. k + 1 - a \in Nat \ {0}
    BY <1>3 DEF Larger
  <1>16. /\ Sound(z.pm) /\ z.pm.zero = z.page /\ z.page \in Nat
         /\ DOMAIN z.pm.refs = DOMAIN m.refs \cup {z.page}
         /\ Held(z.pm, z.page) = Held(m, z.page) + (k + 1 - a)
         /\ \A p \in Nat : p # z.page => Held(z.pm, p) = Held(m, p)
    BY <1>7, <1>13, <1>14, <1>15, ZeroPageKeeps
  <1>17. s \in [1 .. k + 1 -> DOMAIN pm'.refs] /\ DOMAIN pm.refs \subseteq DOMAIN pm'.refs
    <2>1. DOMAIN pm'.refs = DOMAIN pm.refs \cup {z.page}
      BY <1>9, <1>13, <1>16
    <2>2. \A i \in 1 .. k + 1 : (IF i <= a THEN old[i] ELSE z.page) \in DOMAIN pm'.refs
      BY <2>1, <1>1, <1>10, <1>11
    <2> QED BY <2>1, <2>2, <1>8
  <1>18. pm'.zero # None => s[k + 1] = pm'.zero
    BY <1>1, <1>8, <1>9, <1>10, <1>16
  <1>19. \A p \in Nat : Held(pm', p) = Held(pm, p) + Times(s, k + 1, p)
    <2> SUFFICES ASSUME NEW p \in Nat PROVE Held(pm', p) = Held(pm, p) + Times(s, k + 1, p)
      OBVIOUS
    <2>1. \A i \in 1 .. k + 1 : s[i] = IF i <= a THEN old[i] ELSE z.page
      BY <1>8
    <2>2. a \in Nat /\ a <= k + 1
      BY <1>1, <1>9, <1>10
    <2>3. Times(s, k + 1, p) = Times(old, a, p) + IF p = z.page THEN (k + 1) - a ELSE 0
      <3>1. PICK c : c = k + 1
        OBVIOUS
      <3>2. c \in Nat /\ a \in Nat /\ a <= c
        BY <3>1, <2>2, <1>1
      <3>3. Filled(s, a, c, old, z.page)
        BY <3>1, <3>2, <2>1 DEF Filled
      <3>4. p = z.page => Times(s, c, p) = Times(old, a, p) + (c - a)
        BY <3>2, <3>3, FilledTimes
      <3>5. p # z.page => Times(s, c, p) = Times(old, a, p)
        BY <3>2, <3>3, FilledTimes
      <3>6. Times(old, a, p) \in Nat
        BY <3>2, TimesType
      <3> QED BY <3>1, <3>4, <3>5, <3>6
    <2>4. Held(m, p) = Held(pm, p) + Times(old, a, p) /\ pm' = z.pm
      BY <1>9, <1>13
    <2>5. Held(pm, p) \in Nat /\ Times(old, a, p) \in Nat
      BY <2>2, <1>2, HeldType, TimesType
    <2>6. CASE p = z.page
      <3>1. Held(z.pm, p) = Held(m, p) + (k + 1 - a)
        BY <2>6, <1>16
      <3>2. Times(s, k + 1, p) = Times(old, a, p) + ((k + 1) - a)
        BY <2>3, <2>6
      <3>3. k \in Nat /\ a \in Nat
        BY <2>2, <1>1
      <3> QED BY <3>1, <3>2, <3>3, <2>4, <2>5
    <2>7. CASE p # z.page
      <3>1. Held(z.pm, p) = Held(m, p)
        BY <2>7, <1>16
      <3>2. Times(s, k + 1, p) = Times(old, a, p) + 0
        BY <2>3, <2>7
      <3> QED BY <3>1, <3>2, <2>4, <2>5
    <2> QED BY <2>6, <2>7
  <1>20. Sound(pm')
    BY <1>9, <1>16
  <1> QED BY <1>1, <1>9, <1>17, <1>18, <1>19, <1>20, CountedLevel

(* A level that goes takes the references of its slots with it.               *)
LEMMA DeleteTakes ==
    ASSUME RowInv, CountInv, Quiet, NEW l \in live, Delete(l)
    PROVE  \E s \in Seq(Nat) :
              /\ pm' = ReleasePages(pm, s)
              /\ \A p \in Nat : /\ IsFiniteSet(Shows(p)') /\ Times(s, Len(s), p) <= Held(pm, p)
                                /\ Cardinality(Shows(p)') = Held(pm, p) - Times(s, Len(s), p)
  <1>1. /\ newest' = newest /\ live' = live \ {l} /\ size' = size /\ table' = table
        /\ ptr' = ptr /\ ids' = ids /\ modified' = modified /\ lock' = lock
        /\ pc' = pc /\ node' = node /\ pageId' = pageId
    BY DEF Delete, threadVars
  <1>2. Sound(pm) /\ LockHeld /\ TablesTyped /\ TableOwned /\ SlotsAgree /\ Counted
    BY DEF CountInv
  <1>3. PICK n : n = size[l] + 1
    OBVIOUS
  <1>4. PICK o : o = ids[table[l]]
    OBVIOUS
  <1>5. n \in Nat /\ o \in [1 .. n -> DOMAIN pm.refs] /\ SlotsOf(l) = 1 .. n
    BY <1>2, <1>3, <1>4 DEF TablesTyped, SlotsOf
  <1>6. PICK s : s = SubSeq(o, 1, n)
    OBVIOUS
  <1>7. PICK b : b = ReleasePages(pm, s)
    OBVIOUS
  <1>8. pm' = b
    BY <1>3, <1>4, <1>6, <1>7 DEF Delete
  <1>9. s \in [1 .. n -> DOMAIN pm.refs] /\ \A i \in 1 .. n : s[i] = o[i]
    BY <1>5, <1>6, FirstSlots
  <1>10. s \in Seq(Nat) /\ Len(s) = n
    <2>1. \A i \in 1 .. n : s[i] \in Nat
      BY <1>2, <1>9, PagesNumbers
    <2>2. DOMAIN s = 1 .. n /\ s = [i \in 1 .. n |-> s[i]]
      BY <1>9
    <2> QED BY <2>1, <2>2, <1>5
  <1>11. lock = None /\ ~ Copies /\ \A t \in Threads : pc[t] \notin Detached
    BY <1>2, QuietIs
  <1>12. \A p : Fresh(p) = 0 /\ Dropped(p) = 0
    BY <1>2, QuietIs
  <1>14. ASSUME NEW p \in Nat
         PROVE  /\ IsFiniteSet(Shows(p)') /\ Times(s, n, p) <= Held(pm, p)
                /\ Cardinality(Shows(p)') = Held(pm, p) - Times(s, n, p)
    <2>1. IsFiniteSet(Shows(p)) /\ Held(pm, p) + Dropped(p) = Cardinality(Shows(p)) + Fresh(p)
      BY <1>2 DEF Counted
    <2>2. /\ Cardinality(Shows(p)) \in Nat /\ Held(pm, p) \in Nat /\ Times(s, n, p) \in Nat
          /\ Times(s, n, p) = Times(o, n, p)
      <3>1. Cardinality(Shows(p)) \in Nat
        BY <2>1, FS_CardinalityType
      <3>2. Held(pm, p) \in Nat
        BY <1>2, HeldType
      <3>3. Times(s, n, p) \in Nat
        BY <1>5, TimesType
      <3>4. Times(s, n, p) = Times(o, n, p)
        BY <1>5, <1>9, TimesSame
      <3> QED BY <3>1, <3>2, <3>3, <3>4
    <2>3. IsFiniteSet(Shows(p)')
      BY <2>1, <1>1, <1>5, LevelHidden
    <2>4. Cardinality(Shows(p)') = Cardinality(Shows(p)) - Times(ids[table[l]], n, p)
      BY <2>1, <1>1, <1>5, LevelHidden
    <2>5. Times(ids[table[l]], n, p) <= Cardinality(Shows(p))
      BY <2>1, <1>1, <1>5, LevelHidden
    <2>6. Held(pm, p) = Cardinality(Shows(p))
      BY <2>1, <2>2, <1>12
    <2> QED BY <2>2, <2>3, <2>4, <2>5, <2>6, <1>4
  <1> QED BY <1>7, <1>8, <1>10, <1>14

LEMMA CountedDelete ==
    ASSUME RowInv, CountInv, Quiet, NEW l \in live, Delete(l),
           ~ closing' => ~ closing /\ newest \in live'
    PROVE  CountInv'
  <1>1. /\ newest' = newest /\ live' = live \ {l} /\ size' = size /\ table' = table
        /\ ptr' = ptr /\ ids' = ids /\ modified' = modified /\ lock' = lock
        /\ pc' = pc /\ node' = node /\ pageId' = pageId
    BY DEF Delete, threadVars
  <1>2. Sound(pm) /\ LockHeld /\ TablesTyped /\ TableOwned /\ SlotsAgree /\ Counted
    BY DEF CountInv
  <1>3. PICK s \in Seq(Nat) :
           /\ pm' = ReleasePages(pm, s)
           /\ \A p \in Nat : /\ IsFiniteSet(Shows(p)') /\ Times(s, Len(s), p) <= Held(pm, p)
                             /\ Cardinality(Shows(p)') = Held(pm, p) - Times(s, Len(s), p)
    BY DeleteTakes
  <1>7. PICK b : b = ReleasePages(pm, s)
    OBVIOUS
  <1>8. pm' = b
    BY <1>3, <1>7
  <1>10. s \in Seq(Nat)
    OBVIOUS
  <1>11. lock = None /\ ~ Copies /\ \A t \in Threads : pc[t] \notin Detached
    BY <1>2, QuietIs
  <1>12. \A p : Fresh(p) = 0 /\ Dropped(p) = 0
    BY <1>2, QuietIs
  <1>13. ~ Copies' /\ \A p : Fresh(p)' = 0 /\ Dropped(p)' = 0
    BY <1>1, <1>11 DEF Copies, Fresh, Dropped
  <1>14. \A p \in Nat : /\ IsFiniteSet(Shows(p)') /\ Times(s, Len(s), p) <= Held(pm, p)
                        /\ Cardinality(Shows(p)') = Held(pm, p) - Times(s, Len(s), p)
    BY <1>3
  <1>15. \A p \in Nat : Times(s, Len(s), p) <= Held(pm, p)
    BY <1>14
  <1>16. Sound(b) /\ b.zero = pm.zero /\ DOMAIN b.refs = DOMAIN pm.refs
    BY <1>2, <1>7, <1>10, <1>15, ReleasePagesKeeps
  <1>17. \A p \in Nat : Held(b, p) = Held(pm, p) - Times(s, Len(s), p)
    BY <1>2, <1>7, <1>10, <1>15, ReleasePagesKeeps
  <1>18. Sound(pm')
    BY <1>8, <1>16
  <1>19. LockHeld'
    BY <1>1, <1>2 DEF LockHeld
  <1>20. \A x \in live : SlotsOf(x)' = SlotsOf(x)
    BY <1>1 DEF SlotsOf
  <1>21. TablesTyped'
    <2>1. DOMAIN size' = 0 .. newest'
      BY <1>1, <1>2 DEF TablesTyped
    <2>2. ASSUME NEW x \in live'
          PROVE  /\ size'[x] \in Nat \ {0}
                 /\ table'[x] \in DOMAIN ids' /\ table'[x] \in DOMAIN ptr'
                 /\ ids'[table'[x]] \in [SlotsOf(x)' -> DOMAIN pm'.refs]
                 /\ ptr'[table'[x]] \in [SlotsOf(x)' -> DOMAIN pm'.refs]
      <3>1. x \in live /\ SlotsOf(x)' = SlotsOf(x) /\ DOMAIN pm'.refs = DOMAIN pm.refs
        BY <1>1, <1>8, <1>16, <1>20
      <3> QED BY <3>1, <1>1, <1>2 DEF TablesTyped
    <2>3. ASSUME ~ closing', pm'.zero # None
          PROVE  newest' \in live' /\ ids'[table'[newest']][size'[newest'] + 1] = pm'.zero
      <3>1. ~ closing /\ newest \in live' /\ pm.zero # None
        BY <2>3, <1>8, <1>16
      <3>2. ids[table[newest]][size[newest] + 1] = pm.zero
        BY <3>1, <1>2 DEF TablesTyped
      <3> QED BY <3>1, <3>2, <1>1, <1>8, <1>16
    <2> QED BY <2>1, <2>2, <2>3 DEF TablesTyped
  <1>22. TableOwned'
    BY <1>1, <1>2 DEF TableOwned
  <1>23. SlotsAgree'
    <2>1. ASSUME NEW x \in live', NEW i \in SlotsOf(x)'
          PROVE  ptr'[table'[x]][i] = ids'[table'[x]][i]
      <3>1. x \in live /\ i \in SlotsOf(x)
        BY <1>1, <1>20
      <3>2. ptr[table[x]][i] = ids[table[x]][i]
        BY <3>1, <1>2, <1>11 DEF SlotsAgree
      <3> QED BY <3>2, <1>1
    <2>2. \A t \in Threads : pc'[t] \notin Holding
      BY <1>1, <1>11 DEF Detached
    <2> QED BY <2>1, <2>2, <1>13 DEF SlotsAgree
  <1>24. Counted'
    <2> SUFFICES ASSUME NEW p \in Nat
                 PROVE  /\ IsFiniteSet(Shows(p)')
                        /\ Held(pm', p) + Dropped(p)' = Cardinality(Shows(p)') + Fresh(p)'
      BY DEF Counted
    <2>1. Held(pm', p) = Cardinality(Shows(p)')
      BY <1>8, <1>10, <1>14, <1>17
    <2>2. Held(pm', p) \in Nat
      BY <1>18, HeldType
    <2> QED BY <2>1, <2>2, <1>13, <1>14
  <1> QED BY <1>18, <1>19, <1>21, <1>22, <1>23, <1>24 DEF CountInv

LEMMA CountedOldest ==
    ASSUME RowInv, CountInv, DeleteOldest PROVE CountInv'
  <1>1. /\ Quiet /\ ~ closing /\ closing' = closing
        /\ \E l \in live : (\A k \in live : l <= k) /\ l <= newest - Keep /\ Delete(l)
    BY DEF DeleteOldest, addVars
  <1>2. PICK l \in live : l <= newest - Keep /\ Delete(l)
    BY <1>1
  <1>3. newest \in Nat /\ newest \in live
    BY <1>1, NewestIs
  <1>4. newest \in live'
    BY <1>2, <1>3 DEF Delete, Keep
  <1> QED BY <1>1, <1>2, <1>4, CountedDelete

LEMMA CountedDestroy ==
    ASSUME RowInv, CountInv, Destroy PROVE CountInv'
  <1>1. Quiet /\ closing' /\ \E l \in live : (\A k \in live : l >= k) /\ Delete(l)
    BY DEF Destroy
  <1>2. PICK l \in live : Delete(l)
    BY <1>1
  <1>3. Quiet /\ closing'
    BY <1>1
  <1> QED BY <1>2, <1>3, CountedDelete

----------------------------------------------------------------------------
(* The steps of an addition. While a thread adds there is a newest level.     *)
LEMMA BusyIs ==
    ASSUME RowInv, CountInv, NEW t \in Threads, pc[t] # "idle"
    PROVE  /\ ~ closing /\ newest \in Nat /\ newest \in live /\ size[newest] \in Nat \ {0}
           /\ newest \notin 0 .. newest - 1 /\ live \subseteq 0 .. newest
           /\ node[t] \in Nat /\ Slot(node[t]) \in 1 .. size[newest]
           /\ Slot(node[t]) \in SlotsOf(newest)
           /\ Tab \in DOMAIN ids /\ Tab \in DOMAIN ptr
           /\ ids[Tab] \in [SlotsOf(newest) -> DOMAIN pm.refs]
           /\ ptr[Tab] \in [SlotsOf(newest) -> DOMAIN pm.refs]
  <1>1. ~ Quiet
    BY DEF Quiet
  <1>2. ~ closing /\ newest # -1
    BY <1>1 DEF RowInv, LevelsInRow
  <1>3. newest \in Nat /\ newest \in live /\ live \subseteq 0 .. newest
    BY <1>2 DEF RowInv, LevelsInRow
  <1>4. /\ size[newest] \in Nat \ {0} /\ Tab \in DOMAIN ids /\ Tab \in DOMAIN ptr
        /\ ids[Tab] \in [SlotsOf(newest) -> DOMAIN pm.refs]
        /\ ptr[Tab] \in [SlotsOf(newest) -> DOMAIN pm.refs]
    BY <1>3 DEF CountInv, TablesTyped, Tab
  <1>5. node[t] \in Nat /\ Slot(node[t]) \in 1 .. size[newest]
    BY DEF CountInv, LockHeld
  <1>6. Slot(node[t]) \in SlotsOf(newest)
    BY <1>4, <1>5 DEF SlotsOf
  <1> QED BY <1>2, <1>3, <1>4, <1>5, <1>6

(* No other level has the table that a thread writes.                         *)
LEMMA TableAlone ==
    ASSUME RowInv, CountInv, NEW t \in Threads, pc[t] \in Detached
    PROVE  \A l \in live : l # newest => table[l] # Tab
  <1>1. \A l \in 0 .. newest - 1 : table[l] # table[newest]
    BY DEF CountInv, TableOwned
  <1>2. newest \in Nat /\ live \subseteq 0 .. newest
    <2>1. pc[t] # "idle"
      BY DEF Detached, Holding
    <2> QED BY <2>1, BusyIs
  <1>3. ASSUME NEW l \in live, l # newest PROVE l \in 0 .. newest - 1
    BY <1>2, <1>3
  <1> QED BY <1>1, <1>3 DEF Tab

(* The labels of an addition and the lock: a step of one thread.              *)
LEMMA LockStays ==
    ASSUME LockHeld, NEW t \in Threads, NEW b \in {"idle", "get", "detach", "fill"} \cup Detached,
           pc' = [pc EXCEPT ![t] = b], newest' = newest, size' = size,
           \/ /\ lock' = lock /\ (b \in Holding => lock = t)
              /\ lock = t => b \in Holding \cup {"write", "fill"}
           \/ lock = None /\ lock' = t /\ b \in Holding \cup {"write", "fill"}
           \/ lock = t /\ lock' = None /\ b \notin Holding,
           DOMAIN node' = Threads, DOMAIN pageId' = Threads,
           \A u \in Threads : u # t => node'[u] = node[u],
           b # "idle" => node'[t] \in Nat /\ Slot(node'[t]) \in 1 .. size[newest]
    PROVE  LockHeld'
  <1>1. /\ pc \in [Threads -> {"idle", "get", "detach", "fill"} \cup Detached]
        /\ lock \in Threads \cup {None}
    BY DEF LockHeld
  <1>2. /\ pc' \in [Threads -> {"idle", "get", "detach", "fill"} \cup Detached]
        /\ pc'[t] = b /\ \A u \in Threads : u # t => pc'[u] = pc[u]
    BY <1>1
  <1>3. lock' \in Threads \cup {None} /\ \A u \in Threads : u # None
    BY <1>1, CowAssumption DEF Threads, None
  <1>4. \A u \in Threads : pc'[u] \in Holding => lock' = u
    <2> SUFFICES ASSUME NEW u \in Threads, pc'[u] \in Holding PROVE lock' = u
      OBVIOUS
    <2>1. CASE u = t
      BY <2>1, <1>2
    <2>2. CASE u # t
      <3>1. lock = u
        BY <2>2, <1>2 DEF LockHeld
      <3> QED BY <3>1, <2>2, <1>3
    <2> QED BY <2>1, <2>2
  <1>5. \A u \in Threads : lock' = u => pc'[u] \in Holding \cup {"write", "fill"}
    <2> SUFFICES ASSUME NEW u \in Threads, lock' = u PROVE pc'[u] \in Holding \cup {"write", "fill"}
      OBVIOUS
    <2>1. CASE u = t
      BY <2>1, <1>2, <1>3
    <2>2. CASE u # t
      <3>1. lock = u
        BY <2>2, <1>3
      <3> QED BY <3>1, <2>2, <1>2 DEF LockHeld
    <2> QED BY <2>1, <2>2
  <1>6. \A u \in Threads : pc'[u] # "idle" =>
            node'[u] \in Nat /\ Slot(node'[u]) \in 1 .. size'[newest']
    <2> SUFFICES ASSUME NEW u \in Threads, pc'[u] # "idle"
                 PROVE  node'[u] \in Nat /\ Slot(node'[u]) \in 1 .. size'[newest']
      OBVIOUS
    <2>1. CASE u = t
      BY <2>1, <1>2
    <2>2. CASE u # t
      <3>1. node[u] \in Nat /\ Slot(node[u]) \in 1 .. size[newest]
        BY <2>2, <1>2 DEF LockHeld
      <3> QED BY <3>1, <2>2
    <2> QED BY <2>1, <2>2
  <1> QED BY <1>2, <1>3, <1>4, <1>5, <1>6 DEF LockHeld

(* The table of the newest level and a step of one thread.                    *)
LEMMA OwnedStays ==
    ASSUME LockHeld, TableOwned, NEW t \in Threads, NEW b, pc' = [pc EXCEPT ![t] = b],
           newest' = newest, table' = table,
           modified' => modified \/ pc[t] \in Detached,
           b \in Detached => modified \/ pc[t] \in Detached
    PROVE  TableOwned'
  <1>1. \A u \in Threads : pc'[u] = IF u = t THEN b ELSE pc[u]
    BY DEF LockHeld
  <1>2. modified' \/ (\E u \in Threads : pc'[u] \in Detached)
        => modified \/ \E u \in Threads : pc[u] \in Detached
    BY <1>1
  <1> QED BY <1>2 DEF TableOwned

(* A step that leaves the tables and the counts alone, and a copy that is     *)
(* under way.                                                                 *)
LEMMA CountsStay ==
    ASSUME CountInv, UNCHANGED <<newest, live, size, table, ptr, ids, closing>>,
           Sound(pm'), pm'.refs = pm.refs, pm'.zero = pm.zero, LockHeld', TableOwned',
           Copies' <=> Copies,
           Copies => /\ lock' = lock /\ node'[lock] = node[lock]
                     /\ pageId'[lock] = pageId[lock]
                     /\ pc'[lock] = "setId" <=> pc[lock] = "setId",
           \A u \in Threads : pc'[u] \in Holding =>
              /\ pageId'[u] = ids[Tab][Slot(node'[u])]
              /\ Held(pm, pageId'[u]) >= IF pc'[u] = "setId" THEN 1 ELSE 2
    PROVE  CountInv'
  <1>1. /\ newest' = newest /\ live' = live /\ size' = size /\ table' = table
        /\ ptr' = ptr /\ ids' = ids /\ closing' = closing
    OBVIOUS
  <1>2. Tab' = Tab /\ \A x \in live : SlotsOf(x)' = SlotsOf(x)
    BY <1>1 DEF Tab, SlotsOf
  <1>3. \A p : Held(pm', p) = Held(pm, p)
    BY DEF Held
  <1>4. Copies => CopySlot' = CopySlot
    BY DEF CopySlot, Slot
  <1>5. \A p : Fresh(p)' = Fresh(p)
    BY <1>1, <1>2, <1>4 DEF Fresh
  <1>6. \A p : Dropped(p)' = Dropped(p)
    BY DEF Dropped
  <1>7. TablesTyped'
    <2>1. TablesTyped
      BY DEF CountInv
    <2> QED BY <2>1, <1>1, <1>2 DEF TablesTyped
  <1>8. SlotsAgree'
    <2>1. \A l \in live' : \A i \in SlotsOf(l)' :
             ptr'[table'[l]][i] = ids'[table'[l]][i]
             <=> ~ (Copies' /\ l = newest' /\ i = CopySlot')
      BY <1>1, <1>2, <1>4 DEF CountInv, SlotsAgree
    <2>2. \A u \in Threads : pc'[u] \in Holding =>
             /\ pageId'[u] = ids'[Tab'][Slot(node'[u])]
             /\ Held(pm', pageId'[u]) >= IF pc'[u] = "setId" THEN 1 ELSE 2
      BY <1>1, <1>2, <1>3
    <2> QED BY <2>1, <2>2 DEF SlotsAgree, Slot
  <1>9. Counted'
    <2>1. \A p : Shows(p)' = Shows(p)
      BY <1>1, <1>2 DEF Shows
    <2> QED BY <2>1, <1>3, <1>5, <1>6 DEF CountInv, Counted
  <1> QED BY <1>7, <1>8, <1>9 DEF CountInv

LEMMA StepStays ==
    ASSUME CountInv, UNCHANGED <<newest, live, size, table, ptr, ids, closing>>,
           Sound(pm'), pm'.refs = pm.refs, pm'.zero = pm.zero,
           NEW t \in Threads, NEW b \in {"idle", "get", "detach", "fill"} \cup Detached,
           pc' = [pc EXCEPT ![t] = b],
           \/ /\ lock' = lock /\ (b \in Holding => lock = t)
              /\ lock = t => b \in Holding \cup {"write", "fill"}
           \/ lock = None /\ lock' = t /\ b \in Holding \cup {"write", "fill"}
           \/ lock = t /\ lock' = None /\ b \notin Holding,
           b \in Copying <=> pc[t] \in Copying, b # "setId", pc[t] # "setId",
           DOMAIN node' = Threads, DOMAIN pageId' = Threads,
           \A u \in Threads : u # t \/ pc[t] \in Copying
                                 => node'[u] = node[u] /\ pageId'[u] = pageId[u],
           b # "idle" => node'[t] \in Nat /\ Slot(node'[t]) \in 1 .. size[newest],
           modified' => modified, b \in Detached => modified \/ pc[t] \in Detached,
           b \in Holding => /\ pageId'[t] = ids[Tab][Slot(node'[t])]
                            /\ Held(pm, pageId'[t]) >= 2
    PROVE  CountInv'
  <1>1. LockHeld /\ TableOwned /\ SlotsAgree
    BY DEF CountInv
  <1>2. LockHeld'
    BY <1>1, LockStays
  <1>3. TableOwned'
    BY <1>1, OwnedStays
  <1>4. /\ pc'[t] = b /\ \A u \in Threads : u # t => pc'[u] = pc[u]
        /\ lock \in Threads \cup {None} /\ None \notin Threads
        /\ \A u \in Threads : pc[u] \in Holding => lock = u
    BY <1>1, CowAssumption DEF LockHeld, Threads, None
  <1>5. Copying \subseteq Holding
    BY DEF Copying, Holding
  <1>6. Copies => lock' = lock /\ Copies'
    <2> SUFFICES ASSUME Copies PROVE lock' = lock /\ pc'[lock] \in Copying
      BY DEF Copies
    <2>1. lock \in Threads /\ pc[lock] \in Copying
      BY <1>4 DEF Copies
    <2>2. CASE lock = t
      BY <2>1, <2>2, <1>4, <1>5
    <2>3. CASE lock # t
      BY <2>1, <2>3, <1>4
    <2> QED BY <2>2, <2>3
  <1>7. Copies' => Copies
    <2> SUFFICES ASSUME Copies' PROVE Copies
      OBVIOUS
    <2>1. lock' \in Threads /\ pc'[lock'] \in Copying
      BY <1>2 DEF Copies, LockHeld
    <2>2. CASE lock' = t
      <3>1. pc[t] \in Copying
        BY <2>1, <2>2, <1>4
      <3>2. lock = t
        BY <3>1, <1>4, <1>5
      <3> QED BY <3>1, <3>2, <1>4 DEF Copies
    <2>3. CASE lock' # t
      <3>1. lock' = lock
        BY <2>1, <2>3, <1>4
      <3> QED BY <3>1, <2>1, <2>3, <1>4 DEF Copies
    <2> QED BY <2>2, <2>3
  <1>8. Copies => /\ lock' = lock /\ node'[lock] = node[lock]
                  /\ pageId'[lock] = pageId[lock]
                  /\ pc'[lock] = "setId" <=> pc[lock] = "setId"
    <2> SUFFICES ASSUME Copies
                 PROVE  /\ lock' = lock /\ node'[lock] = node[lock]
                        /\ pageId'[lock] = pageId[lock]
                        /\ pc'[lock] = "setId" <=> pc[lock] = "setId"
      OBVIOUS
    <2>1. lock \in Threads /\ pc[lock] \in Copying
      BY <1>4 DEF Copies
    <2>2. lock # t \/ pc[t] \in Copying
      BY <2>1
    <2>3. node'[lock] = node[lock] /\ pageId'[lock] = pageId[lock]
      BY <2>1, <2>2
    <2>4. pc'[lock] = "setId" <=> pc[lock] = "setId"
      BY <2>1, <1>4
    <2> QED BY <2>3, <2>4, <1>6
  <1>9. \A u \in Threads : pc'[u] \in Holding =>
           /\ pageId'[u] = ids[Tab][Slot(node'[u])]
           /\ Held(pm, pageId'[u]) >= IF pc'[u] = "setId" THEN 1 ELSE 2
    <2> SUFFICES ASSUME NEW u \in Threads, pc'[u] \in Holding
                 PROVE  /\ pageId'[u] = ids[Tab][Slot(node'[u])]
                        /\ Held(pm, pageId'[u]) >= IF pc'[u] = "setId" THEN 1 ELSE 2
      OBVIOUS
    <2>1. CASE u = t
      BY <2>1, <1>4
    <2>2. CASE u # t
      <3>1. /\ pageId[u] = ids[Tab][Slot(node[u])]
            /\ Held(pm, pageId[u]) >= IF pc[u] = "setId" THEN 1 ELSE 2
        BY <2>2, <1>1, <1>4 DEF SlotsAgree
      <3>2. node'[u] = node[u] /\ pageId'[u] = pageId[u] /\ pc'[u] = pc[u]
        BY <2>2, <1>4
      <3> QED BY <3>1, <3>2
    <2> QED BY <2>1, <2>2
  <1> QED BY <1>2, <1>3, <1>6, <1>7, <1>8, <1>9, CountsStay

(* A value in a page says nothing of its count.                               *)
LEMMA MemStays ==
    ASSUME NEW m, Sound(m), NEW e, NEW n, n = [m EXCEPT !.mem = e]
    PROVE  Sound(n) /\ n.refs = m.refs /\ n.zero = m.zero
  <1>1. Typed(m)
    BY DEF Sound
  <1>2. PICK x : x = m.refs
    OBVIOUS
  <1>3. PICK z : z = m.zero
    OBVIOUS
  <1>4. PICK f : f = m.free
    OBVIOUS
  <1>5. PICK y : y = m.mem
    OBVIOUS
  <1>6. m = [refs |-> x, mem |-> y, zero |-> z, free |-> f]
    BY <1>1, <1>2, <1>3, <1>4, <1>5 DEF Typed
  <1>7. n = [refs |-> x, mem |-> e, zero |-> z, free |-> f]
    BY <1>6
  <1>8. /\ n.refs = m.refs /\ n.zero = m.zero /\ n.free = m.free
        /\ n = [refs |-> n.refs, mem |-> n.mem, zero |-> n.zero, free |-> n.free]
    BY <1>2, <1>3, <1>4, <1>7
  <1>9. Typed(n)
    BY <1>1, <1>8 DEF Typed
  <1>10. ListsApart(n)
    BY <1>8 DEF Sound, ListsApart
  <1>11. Listed(n) = Listed(m)
    BY <1>8 DEF Listed
  <1> QED BY <1>8, <1>9, <1>10, <1>11 DEF Sound

(* A node has a slot in the level that has its number.                        *)
LEMMA SlotIn ==
    ASSUME NEW n \in Nat, NEW k \in Nat, n < k * PageLength
    PROVE  Slot(n) \in 1 .. k
  <1>1. PageLength \in Nat \ {0}
    BY CowAssumption
  <1>2. PICK q : q = n \div PageLength
    OBVIOUS
  <1>3. q \in Nat /\ q * PageLength <= n
    BY <1>1, <1>2
  <1>4. q < k
    <2> SUFFICES ASSUME k <= q PROVE FALSE
      BY <1>3
    <2>1. k * PageLength <= q * PageLength
      BY <1>1, <1>3
    <2> QED BY <2>1, <1>1, <1>3
  <1> QED BY <1>2, <1>3, <1>4 DEF Slot

(* The steps that change nothing of the tables and the counts.                *)
LEMMA CountedBegin ==
    ASSUME RowInv, CountInv, NEW t \in Threads, BeginAdd(t) PROVE CountInv'
  <1>1. /\ pc[t] = "idle" /\ ~ closing /\ live # {} /\ pc' = [pc EXCEPT ![t] = "get"]
        /\ UNCHANGED <<newest, live, size, table, ptr, ids, closing>>
        /\ pm' = pm /\ lock' = lock /\ modified' = modified /\ pageId' = pageId
    BY DEF BeginAdd, Goto, levelVars, tableVars
  <1>2. PICK n \in Share[t] : n < size[newest] * PageLength /\ node' = [node EXCEPT ![t] = n]
    BY DEF BeginAdd
  <1>3. n \in Nat
    BY CowAssumption
  <1>4. size[newest] \in Nat
    BY <1>1, NewestIs
  <1>5. Slot(n) \in 1 .. size[newest]
    BY <1>2, <1>3, <1>4, SlotIn
  <1>6. Sound(pm) /\ DOMAIN node = Threads /\ DOMAIN pageId = Threads
    BY DEF CountInv, LockHeld
  <1>7. /\ node'[t] = n /\ DOMAIN node' = Threads
        /\ \A u \in Threads : u # t => node'[u] = node[u]
    BY <1>2, <1>6
  <1>8. lock # t
    <2>1. pc[t] \notin Holding \cup {"write", "fill"}
      BY <1>1 DEF Holding
    <2> QED BY <2>1 DEF CountInv, LockHeld
  <1>9. "get" \notin Holding /\ "get" \notin Copying /\ pc[t] \notin Copying /\ "get" \notin Detached
    BY <1>1 DEF Holding, Copying, Detached
  <1>10. /\ Sound(pm') /\ pm'.refs = pm.refs /\ pm'.zero = pm.zero
         /\ node'[t] \in Nat /\ Slot(node'[t]) \in 1 .. size[newest]
         /\ DOMAIN pageId' = Threads
    BY <1>1, <1>3, <1>5, <1>6, <1>7
  <1>11. \A u \in Threads : u # t \/ pc[t] \in Copying
                               => node'[u] = node[u] /\ pageId'[u] = pageId[u]
    BY <1>1, <1>7, <1>9
  <1>12. UNCHANGED <<newest, live, size, table, ptr, ids, closing>>
    BY <1>1
  <1> QED BY <1>1, <1>7, <1>8, <1>9, <1>10, <1>11, <1>12, StepStays

(* A step of a thread without the lock that goes on with another label.       *)
LEMMA CountedGoes ==
    ASSUME RowInv, CountInv, NEW t \in Threads, pc[t] # "idle", lock # t,
           NEW b \in {"detach", "readPage", "readId", "test", "lock", "write"},
           b \in Detached => modified \/ pc[t] \in Detached,
           pc' = [pc EXCEPT ![t] = b],
           UNCHANGED <<newest, live, size, table, ptr, ids, closing>>,
           pm' = pm, lock' = lock, modified' = modified, node' = node,
           \A u \in Threads : u # t => pageId'[u] = pageId[u], DOMAIN pageId' = Threads
    PROVE  CountInv'
  <1>1. Sound(pm) /\ DOMAIN node = Threads
    BY DEF CountInv, LockHeld
  <1>2. node[t] \in Nat /\ Slot(node[t]) \in 1 .. size[newest]
    BY BusyIs
  <1>3. pc[t] \notin Copying /\ pc[t] \notin Holding
    <2>1. pc[t] \notin Holding
      BY DEF CountInv, LockHeld
    <2> QED BY <2>1 DEF Holding, Copying
  <1>4. /\ b \notin Holding /\ b \notin Copying /\ pc[t] # "setId" /\ b # "setId" /\ b # "idle"
        /\ b \in {"idle", "get", "detach", "fill"} \cup Detached
    BY <1>3 DEF Holding, Copying, Detached
  <1>5. /\ Sound(pm') /\ pm'.refs = pm.refs /\ pm'.zero = pm.zero
        /\ node'[t] \in Nat /\ Slot(node'[t]) \in 1 .. size[newest] /\ DOMAIN node' = Threads
    BY <1>1, <1>2
  <1>6. \A u \in Threads : u # t \/ pc[t] \in Copying
                              => node'[u] = node[u] /\ pageId'[u] = pageId[u]
    BY <1>3
  <1> QED BY <1>3, <1>4, <1>5, <1>6, StepStays

(* Who does not hold the lock.                                                *)
LEMMA NotHolder ==
    ASSUME CountInv, NEW t \in Threads, pc[t] \notin Holding \cup {"write", "fill"} PROVE lock # t
  BY DEF CountInv, LockHeld

LEMMA CountedGet ==
    ASSUME RowInv, CountInv, NEW t \in Threads, Get(t) PROVE CountInv'
  <1>1. PICK b : b = IF modified THEN "readPage" ELSE "detach"
    OBVIOUS
  <1>2. /\ pc[t] = "get" /\ pc' = [pc EXCEPT ![t] = b]
        /\ pm' = pm /\ lock' = lock /\ modified' = modified /\ node' = node /\ pageId' = pageId
    BY <1>1 DEF Get, Goto
  <1>3. UNCHANGED <<newest, live, size, table, ptr, ids, closing>>
    BY DEF Get, levelVars, tableVars
  <1>4. lock # t
    BY <1>2, NotHolder DEF Holding
  <1>5. DOMAIN pageId' = Threads /\ \A u \in Threads : u # t => pageId'[u] = pageId[u]
    BY <1>2 DEF CountInv, LockHeld
  <1>6. /\ b \in {"detach", "readPage", "readId", "test", "lock", "write"}
        /\ b \in Detached => modified
    BY <1>1 DEF Detached, Holding
  <1> QED BY <1>2, <1>3, <1>4, <1>5, <1>6, CountedGoes

LEMMA CountedReadPage ==
    ASSUME RowInv, CountInv, NEW t \in Threads, ReadPage(t) PROVE CountInv'
  <1>1. PICK b : b = "readId"
    OBVIOUS
  <1>2. /\ pc[t] = "readPage" /\ pc' = [pc EXCEPT ![t] = b]
        /\ pm' = pm /\ lock' = lock /\ modified' = modified /\ node' = node /\ pageId' = pageId
    BY <1>1 DEF ReadPage, Goto
  <1>3. UNCHANGED <<newest, live, size, table, ptr, ids, closing>>
    BY DEF ReadPage, levelVars, tableVars, addVars
  <1>4. lock # t
    BY <1>2, NotHolder DEF Holding
  <1>5. DOMAIN pageId' = Threads /\ \A u \in Threads : u # t => pageId'[u] = pageId[u]
    BY <1>2 DEF CountInv, LockHeld
  <1>6. b \in {"detach", "readPage", "readId", "test", "lock", "write"} /\ pc[t] \in Detached
    BY <1>1, <1>2 DEF Detached
  <1> QED BY <1>2, <1>3, <1>4, <1>5, <1>6, CountedGoes

LEMMA CountedReadId ==
    ASSUME RowInv, CountInv, NEW t \in Threads, ReadId(t) PROVE CountInv'
  <1>1. PICK b : b = "test"
    OBVIOUS
  <1>2. /\ pc[t] = "readId" /\ pc' = [pc EXCEPT ![t] = b]
        /\ pm' = pm /\ lock' = lock /\ modified' = modified /\ node' = node
    BY <1>1 DEF ReadId, Goto
  <1>3. UNCHANGED <<newest, live, size, table, ptr, ids, closing>>
    BY DEF ReadId, levelVars, tableVars, addVars
  <1>4. lock # t
    BY <1>2, NotHolder DEF Holding
  <1>5. DOMAIN pageId' = Threads /\ \A u \in Threads : u # t => pageId'[u] = pageId[u]
    <2>1. DOMAIN pageId = Threads
      BY DEF CountInv, LockHeld
    <2> QED BY <2>1 DEF ReadId
  <1>6. b \in {"detach", "readPage", "readId", "test", "lock", "write"} /\ pc[t] \in Detached
    BY <1>1, <1>2 DEF Detached
  <1> QED BY <1>2, <1>3, <1>4, <1>5, <1>6, CountedGoes

LEMMA CountedTest ==
    ASSUME RowInv, CountInv, NEW t \in Threads, TestCount(t) PROVE CountInv'
  <1>1. PICK b : b = IF pm.refs[pageId[t]] = 1 THEN "write" ELSE "lock"
    OBVIOUS
  <1>2. /\ pc[t] = "test" /\ pc' = [pc EXCEPT ![t] = b]
        /\ pm' = pm /\ lock' = lock /\ modified' = modified /\ node' = node /\ pageId' = pageId
    BY <1>1 DEF TestCount, Goto
  <1>3. UNCHANGED <<newest, live, size, table, ptr, ids, closing>>
    BY DEF TestCount, levelVars, tableVars, addVars
  <1>4. lock # t
    BY <1>2, NotHolder DEF Holding
  <1>5. DOMAIN pageId' = Threads /\ \A u \in Threads : u # t => pageId'[u] = pageId[u]
    BY <1>2 DEF CountInv, LockHeld
  <1>6. b \in {"detach", "readPage", "readId", "test", "lock", "write"} /\ pc[t] \in Detached
    BY <1>1, <1>2 DEF Detached
  <1> QED BY <1>2, <1>3, <1>4, <1>5, <1>6, CountedGoes

(* With the lock the count is read again: a page that others show as well has *)
(* two references at least.                                                   *)
LEMMA CountedLock ==
    ASSUME RowInv, CountInv, NEW t \in Threads, Lock(t) PROVE CountInv'
  <1>1. PICK p : p = ids[Tab][Slot(node[t])]
    OBVIOUS
  <1>2. PICK b : b = IF pm.refs[p] = 1 THEN "write" ELSE "allocate"
    OBVIOUS
  <1>3. Sound(pm) /\ DOMAIN node = Threads /\ DOMAIN pageId = Threads
    BY DEF CountInv, LockHeld
  <1>4. /\ pc[t] = "lock" /\ lock = None /\ lock' = t
        /\ pm' = pm /\ modified' = modified /\ node' = node
        /\ pageId' = [pageId EXCEPT ![t] = p] /\ pageId'[t] = p
    BY <1>1, <1>3 DEF Lock
  <1>5. pc' = [pc EXCEPT ![t] = b]
    BY <1>2, <1>4 DEF Lock, Goto
  <1>6. UNCHANGED <<newest, live, size, table, ptr, ids, closing>>
    BY DEF Lock, levelVars, tableVars, addVars
  <1>7. ~ Copies
    BY <1>4 DEF Copies
  <1>8. pc[t] # "idle"
    BY <1>4
  <1>9. /\ newest \in live /\ Slot(node[t]) \in SlotsOf(newest)
        /\ node[t] \in Nat /\ Slot(node[t]) \in 1 .. size[newest]
        /\ ids[Tab] \in [SlotsOf(newest) -> DOMAIN pm.refs]
    BY <1>8, BusyIs
  <1>10. p \in DOMAIN pm.refs /\ p \in Nat /\ Held(pm, p) > 0
    <2>1. p = ids[table[newest]][Slot(node[t])]
      BY <1>1 DEF Tab
    <2>2. p \in Nat /\ Held(pm, p) > 0
      BY <2>1, <1>7, <1>9, ShownUsed
    <2> QED BY <2>2, <1>1, <1>9
  <1>11. b \in Holding => Held(pm, p) >= 2
    <2>1. Held(pm, p) \in Nat /\ Held(pm, p) = pm.refs[p]
      BY <1>3, <1>10, HeldType DEF Held
    <2> QED BY <2>1, <1>2, <1>10 DEF Holding
  <1>12. /\ b \in Holding \cup {"write", "fill"} /\ b \notin Copying /\ pc[t] \notin Copying
         /\ pc[t] # "setId" /\ b # "setId" /\ b # "idle" /\ pc[t] \in Detached
         /\ b \in {"idle", "get", "detach", "fill"} \cup Detached
    BY <1>2, <1>4 DEF Holding, Copying, Detached
  <1>13. /\ DOMAIN node' = Threads /\ DOMAIN pageId' = Threads
         /\ \A u \in Threads : u # t \/ pc[t] \in Copying
                                  => node'[u] = node[u] /\ pageId'[u] = pageId[u]
    BY <1>3, <1>4, <1>12
  <1>14. /\ Sound(pm') /\ pm'.refs = pm.refs /\ pm'.zero = pm.zero
         /\ node'[t] \in Nat /\ Slot(node'[t]) \in 1 .. size[newest]
    BY <1>3, <1>4, <1>9
  <1>15. b \in Holding => /\ pageId'[t] = ids[Tab][Slot(node'[t])]
                          /\ Held(pm, pageId'[t]) >= 2
    BY <1>1, <1>4, <1>11
  <1> QED BY <1>4, <1>5, <1>6, <1>12, <1>13, <1>14, <1>15, StepStays

LEMMA CountedCopy ==
    ASSUME RowInv, CountInv, NEW t \in Threads, CopyPage(t) PROVE CountInv'
  <1>1. PICK b : b = "drop"
    OBVIOUS
  <1>2. PICK e : e = [pm.mem EXCEPT ![ptr[Tab][Slot(node[t])]] = pm.mem[page[t]]]
    OBVIOUS
  <1>3. Sound(pm) /\ DOMAIN node = Threads /\ DOMAIN pageId = Threads
    BY DEF CountInv, LockHeld
  <1>4. /\ pc[t] = "copy" /\ pc' = [pc EXCEPT ![t] = b] /\ lock' = lock
        /\ modified' = modified /\ node' = node /\ pageId' = pageId
    BY <1>1 DEF CopyPage, Goto, threadVars
  <1>5. UNCHANGED <<newest, live, size, table, ptr, ids, closing>>
    BY DEF CopyPage, levelVars, tableVars, addVars
  <1>6. pm' = [pm EXCEPT !.mem = e]
    BY <1>2 DEF CopyPage
  <1>7. Sound(pm') /\ pm'.refs = pm.refs /\ pm'.zero = pm.zero
    BY <1>3, <1>6, MemStays
  <1>8. /\ b \in Holding /\ b \in Copying /\ pc[t] \in Copying /\ pc[t] \in Holding
        /\ pc[t] # "setId" /\ b # "setId" /\ b # "idle" /\ pc[t] # "idle" /\ pc[t] \in Detached
        /\ b \in {"idle", "get", "detach", "fill"} \cup Detached
    BY <1>1, <1>4 DEF Holding, Copying, Detached
  <1>9. lock = t
    BY <1>8 DEF CountInv, LockHeld
  <1>10. node'[t] \in Nat /\ Slot(node'[t]) \in 1 .. size[newest]
    BY <1>4, <1>8, BusyIs
  <1>11. /\ pageId'[t] = ids[Tab][Slot(node'[t])]
         /\ Held(pm, pageId'[t]) >= 2
    BY <1>4, <1>8 DEF CountInv, SlotsAgree
  <1>12. /\ DOMAIN node' = Threads /\ DOMAIN pageId' = Threads
         /\ \A u \in Threads : u # t \/ pc[t] \in Copying
                                  => node'[u] = node[u] /\ pageId'[u] = pageId[u]
    BY <1>3, <1>4
  <1> QED BY <1>4, <1>5, <1>7, <1>8, <1>9, <1>10, <1>11, <1>12, StepStays

LEMMA CountedWrite ==
    ASSUME RowInv, CountInv, NEW t \in Threads, Write(t) PROVE CountInv'
  <1>1. PICK b : b = "idle"
    OBVIOUS
  <1>2. PICK e : e = [pm.mem EXCEPT ![page[t]][Place(t)] = value[t]]
    OBVIOUS
  <1>3. Sound(pm) /\ DOMAIN node = Threads /\ DOMAIN pageId = Threads
    BY DEF CountInv, LockHeld
  <1>4. /\ pc[t] = "write" /\ pc' = [pc EXCEPT ![t] = b] /\ modified' = modified
        /\ lock' = IF lock = t THEN None ELSE lock
        /\ node' = [node EXCEPT ![t] = None] /\ pageId' = [pageId EXCEPT ![t] = None]
    BY <1>1 DEF Write, Goto
  <1>5. UNCHANGED <<newest, live, size, table, ptr, ids, closing>>
    BY DEF Write, levelVars, tableVars
  <1>6. pm' = [pm EXCEPT !.mem = e]
    BY <1>2 DEF Write
  <1>7. Sound(pm') /\ pm'.refs = pm.refs /\ pm'.zero = pm.zero
    BY <1>3, <1>6, MemStays
  <1>8. /\ b \notin Holding /\ b \notin Copying /\ pc[t] \notin Copying
        /\ pc[t] # "setId" /\ b # "setId" /\ b \notin Detached
        /\ b \in {"idle", "get", "detach", "fill"} \cup Detached
    BY <1>1, <1>4 DEF Holding, Copying, Detached
  <1>9. /\ DOMAIN node' = Threads /\ DOMAIN pageId' = Threads
        /\ \A u \in Threads : u # t \/ pc[t] \in Copying
                                 => node'[u] = node[u] /\ pageId'[u] = pageId[u]
    BY <1>3, <1>4, <1>8
  <1>10. (lock' = lock /\ lock # t) \/ (lock = t /\ lock' = None)
    BY <1>4
  <1> QED BY <1>1, <1>4, <1>5, <1>7, <1>8, <1>9, <1>10, StepStays

(* When the table of a first write is filled, each level shows what it showed, *)
(* and the newest one has a table of its own.                                 *)
LEMMA FillShows ==
    ASSUME RowInv, CountInv, NEW t \in Threads, FillTable(t)
    PROVE  /\ \A l \in live : /\ table'[l] \in DOMAIN ids' /\ table'[l] \in DOMAIN ptr'
                              /\ ids'[table'[l]] = ids[table[l]]
                              /\ ptr'[table'[l]] = ptr[table[l]]
           /\ \A l \in 0 .. newest - 1 : table'[l] # table'[newest]
  <1>1. PICK b : b = "readPage"
    OBVIOUS
  <1>2. /\ pc[t] = "fill" /\ pc' = [pc EXCEPT ![t] = b]
        /\ newest' = newest /\ live' = live /\ size' = size /\ closing' = closing
    BY <1>1 DEF FillTable, Goto, addVars
  <1>3. pc[t] # "idle"
    BY <1>2
  <1>4. /\ ~ closing /\ newest \in Nat /\ newest \in live /\ size[newest] \in Nat \ {0}
        /\ live \subseteq 0 .. newest
        /\ node[t] \in Nat /\ Slot(node[t]) \in 1 .. size[newest]
        /\ ids[Tab] \in [SlotsOf(newest) -> DOMAIN pm.refs]
        /\ ptr[Tab] \in [SlotsOf(newest) -> DOMAIN pm.refs]
    BY <1>3, BusyIs
  <1>5. Sound(pm) /\ LockHeld /\ TablesTyped /\ TableOwned /\ SlotsAgree /\ Counted
    BY DEF CountInv
  <1>6. /\ table \in [0 .. newest -> Nat] /\ \A x \in 0 .. newest : table[x] \in 0 .. x
        /\ \A x, y \in 0 .. newest : \A z \in x .. y : table[x] = table[y] => table[z] = table[x]
    BY DEF RowInv, TablesInRow
  <1>7. ~ Copies
    <2>1. lock = t
      BY <1>2 DEF RowInv, FillInRow, Holders
    <2> QED BY <2>1, <1>2 DEF Copies, Copying
  <1>8. \A x \in live : /\ size[x] \in Nat \ {0}
                         /\ table[x] \in DOMAIN ids /\ table[x] \in DOMAIN ptr
                         /\ ids[table[x]] \in [SlotsOf(x) -> DOMAIN pm.refs]
                         /\ ptr[table[x]] \in [SlotsOf(x) -> DOMAIN pm.refs]
    BY <1>5 DEF TablesTyped
  <1>9. \A x \in live : ptr[table[x]] = ids[table[x]]
    <2> SUFFICES ASSUME NEW x \in live PROVE ptr[table[x]] = ids[table[x]]
      OBVIOUS
    <2>1. \A i \in SlotsOf(x) : ptr[table[x]][i] = ids[table[x]][i]
      BY <1>5, <1>7 DEF SlotsAgree
    <2> QED BY <2>1, <1>8
  <1>10. PICK s : s = SubSeq(ptr[Tab], 1, size[newest] + 1)
    OBVIOUS
  <1>11. /\ table' = [table EXCEPT ![newest] = newest]
         /\ ptr' = With(ptr, newest, s) /\ ids' = With(ids, newest, s)
    BY <1>10 DEF FillTable, OwnTable
  <1>12. /\ \A l \in live : /\ table'[l] \in DOMAIN ids' /\ table'[l] \in DOMAIN ptr'
                            /\ ids'[table'[l]] = ids[table[l]]
                            /\ ptr'[table'[l]] = ptr[table[l]]
         /\ \A l \in 0 .. newest - 1 : table'[l] # table'[newest]
    <2>3. PICK n : n = size[newest] + 1
      OBVIOUS
    <2>4. n \in Nat /\ ptr[Tab] \in [1 .. n -> DOMAIN pm.refs]
      BY <2>3, <1>4 DEF SlotsOf
    <2>5. s \in [1 .. n -> DOMAIN pm.refs] /\ \A i \in 1 .. n : s[i] = ptr[Tab][i]
      <3>1. PICK o : o = ptr[Tab]
        OBVIOUS
      <3>2. n \in Nat /\ n <= n /\ o \in [1 .. n -> DOMAIN pm.refs] /\ s = SubSeq(o, 1, n)
        BY <3>1, <1>10, <2>3, <2>4
      <3>3. s \in [1 .. n -> DOMAIN pm.refs]
        BY <3>2, FirstSlots
      <3>4. \A i \in 1 .. n : s[i] = o[i]
        BY <3>2, FirstSlots
      <3> QED BY <3>1, <3>3, <3>4
    <2>6. s = ptr[Tab] /\ s = ids[Tab]
      BY <2>4, <2>5, <1>4, <1>9 DEF Tab
    <2>7. table'[newest] = newest /\ \A x \in 0 .. newest : x # newest => table'[x] = table[x]
      BY <1>11, <1>4, <1>6
    <2>8. /\ newest \in DOMAIN ids' /\ newest \in DOMAIN ptr'
          /\ ids'[newest] = s /\ ptr'[newest] = s
      BY <1>11 DEF With
    <2>9. ASSUME NEW x \in live, x # newest
          PROVE  /\ table'[x] = table[x]
                 /\ table'[x] \in DOMAIN ids' /\ table'[x] \in DOMAIN ptr'
                 /\ ids'[table[x]] = ids[table[x]] /\ ptr'[table[x]] = ptr[table[x]]
      <3>1. x \in 0 .. newest /\ table[x] \in 0 .. x /\ x < newest
        BY <2>9, <1>4, <1>6
      <3>2. table[x] # newest
        BY <3>1, <1>4
      <3>3. table[x] \in DOMAIN ids /\ table[x] \in DOMAIN ptr
        BY <1>8
      <3>4. /\ table[x] \in DOMAIN ids' /\ table[x] \in DOMAIN ptr'
            /\ ids'[table[x]] = ids[table[x]] /\ ptr'[table[x]] = ptr[table[x]]
        BY <3>2, <3>3, <1>11 DEF With
      <3> QED BY <3>1, <3>4, <2>7, <2>9
    <2>10. ASSUME NEW x \in 0 .. newest - 1 PROVE table'[x] # table'[newest]
      <3>1. x \in 0 .. newest /\ x # newest /\ table[x] \in 0 .. x
        BY <1>4, <1>6
      <3>2. table[x] # newest
        BY <3>1, <1>4
      <3> QED BY <3>1, <3>2, <2>7
    <2> QED BY <2>6, <2>7, <2>8, <2>9, <2>10 DEF Tab
  <1> QED BY <1>12

LEMMA CountedFill ==
    ASSUME RowInv, CountInv, NEW t \in Threads, FillTable(t) PROVE CountInv'
  <1>1. PICK b : b = "readPage"
    OBVIOUS
  <1>2. /\ pc[t] = "fill" /\ pc' = [pc EXCEPT ![t] = b] /\ lock' = None
        /\ newest' = newest /\ live' = live /\ size' = size /\ closing' = closing
        /\ pm' = pm /\ modified' = modified /\ node' = node /\ pageId' = pageId
    BY <1>1 DEF FillTable, Goto, addVars
  <1>3. pc[t] # "idle"
    BY <1>2
  <1>4. /\ ~ closing /\ newest \in Nat /\ newest \in live /\ size[newest] \in Nat \ {0}
        /\ live \subseteq 0 .. newest
        /\ node[t] \in Nat /\ Slot(node[t]) \in 1 .. size[newest]
        /\ ids[Tab] \in [SlotsOf(newest) -> DOMAIN pm.refs]
        /\ ptr[Tab] \in [SlotsOf(newest) -> DOMAIN pm.refs]
    BY <1>3, BusyIs
  <1>5. Sound(pm) /\ LockHeld /\ TablesTyped /\ TableOwned /\ SlotsAgree /\ Counted
    BY DEF CountInv
  <1>6. lock = t
    BY <1>2 DEF RowInv, FillInRow, Holders
  <1>7. ~ Copies /\ ~ Copies'
    BY <1>2, <1>6 DEF Copies, Copying
  <1>8. \A p : Fresh(p) = 0 /\ Dropped(p) = 0 /\ Fresh(p)' = 0 /\ Dropped(p)' = 0
    BY <1>7 DEF Fresh, Dropped
  <1>9. \A x \in live : SlotsOf(x)' = SlotsOf(x)
    BY <1>2 DEF SlotsOf
  <1>10. \A x \in live : /\ size[x] \in Nat \ {0}
                         /\ table[x] \in DOMAIN ids /\ table[x] \in DOMAIN ptr
                         /\ ids[table[x]] \in [SlotsOf(x) -> DOMAIN pm.refs]
                         /\ ptr[table[x]] \in [SlotsOf(x) -> DOMAIN pm.refs]
    BY <1>5 DEF TablesTyped
  <1>11. \A x \in live : ptr[table[x]] = ids[table[x]]
    <2> SUFFICES ASSUME NEW x \in live PROVE ptr[table[x]] = ids[table[x]]
      OBVIOUS
    <2>1. \A i \in SlotsOf(x) : ptr[table[x]][i] = ids[table[x]][i]
      BY <1>5, <1>7 DEF SlotsAgree
    <2> QED BY <2>1, <1>10
  <1>12. LockHeld'
    <2>1. /\ b \in {"idle", "get", "detach", "fill"} \cup Detached /\ b \notin Holding
      BY <1>1 DEF Detached, Holding
    <2>2. DOMAIN node' = Threads /\ DOMAIN pageId' = Threads
      BY <1>2, <1>5 DEF LockHeld
    <2> QED BY <2>1, <2>2, <1>2, <1>4, <1>5, <1>6, LockStays
  <1>13. /\ \A l \in live : /\ table'[l] \in DOMAIN ids' /\ table'[l] \in DOMAIN ptr'
                            /\ ids'[table'[l]] = ids[table[l]]
                            /\ ptr'[table'[l]] = ptr[table[l]]
         /\ \A l \in 0 .. newest - 1 : table'[l] # table'[newest]
    BY FillShows
  <1>14. TablesTyped'
    <2>1. DOMAIN size' = 0 .. newest'
      BY <1>2, <1>5 DEF TablesTyped
    <2>2. ASSUME NEW x \in live'
          PROVE  /\ size'[x] \in Nat \ {0}
                 /\ table'[x] \in DOMAIN ids' /\ table'[x] \in DOMAIN ptr'
                 /\ ids'[table'[x]] \in [SlotsOf(x)' -> DOMAIN pm'.refs]
                 /\ ptr'[table'[x]] \in [SlotsOf(x)' -> DOMAIN pm'.refs]
      <3>1. x \in live /\ SlotsOf(x)' = SlotsOf(x)
        BY <1>2, <1>9
      <3> QED BY <3>1, <1>2, <1>10, <1>13
    <2>3. pm'.zero # None => ids'[table'[newest']][size'[newest'] + 1] = pm'.zero
      BY <1>2, <1>4, <1>5, <1>13 DEF TablesTyped
    <2> QED BY <2>1, <2>2, <2>3, <1>2, <1>4 DEF TablesTyped
  <1>15. TableOwned'
    BY <1>2, <1>13 DEF TableOwned
  <1>16. SlotsAgree'
    <2>1. ASSUME NEW x \in live', NEW i \in SlotsOf(x)'
          PROVE  ptr'[table'[x]][i] = ids'[table'[x]][i]
      BY <1>2, <1>11, <1>13
    <2>2. \A u \in Threads : pc'[u] \notin Holding
      <3>1. \A u \in Threads : lock' # u
        BY <1>2, CowAssumption DEF None, Threads
      <3> QED BY <3>1, <1>12 DEF LockHeld
    <2> QED BY <2>1, <2>2, <1>7 DEF SlotsAgree
  <1>17. Counted'
    <2>1. ASSUME NEW p PROVE Shows(p)' = Shows(p)
      <3>1. \A x \in live : ids'[table'[x]] = ids[table[x]] /\ SlotsOf(x)' = SlotsOf(x)
        BY <1>9, <1>13
      <3> QED BY <3>1, <1>2 DEF Shows
    <2> QED BY <2>1, <1>2, <1>5, <1>8 DEF Counted
  <1> QED BY <1>2, <1>5, <1>12, <1>14, <1>15, <1>16, <1>17 DEF CountInv

(* The newest level has no table of its own yet exactly when that of the level *)
(* before is its own.                                                         *)
LEMMA AloneBefore ==
    ASSUME RowInv, CountInv, NEW t \in Threads, pc[t] # "idle",
           ~ (~ modified /\ Tab = table[newest - 1])
    PROVE  \A l \in 0 .. newest - 1 : table[l] # table[newest]
  <1>1. newest \in Nat
    BY BusyIs
  <1>2. \A x, y \in 0 .. newest : \A z \in x .. y : table[x] = table[y] => table[z] = table[x]
    BY DEF RowInv, TablesInRow
  <1>3. ASSUME NEW x \in 0 .. newest - 1, ~ modified PROVE table[x] # table[newest]
    <2>1. x \in 0 .. newest /\ newest \in 0 .. newest /\ newest - 1 \in x .. newest
      BY <1>1
    <2>2. table[x] = table[newest] => table[newest - 1] = table[x]
      BY <2>1, <1>2
    <2> QED BY <2>2, <1>3 DEF Tab
  <1>4. modified => \A x \in 0 .. newest - 1 : table[x] # table[newest]
    BY DEF CountInv, TableOwned
  <1> QED BY <1>3, <1>4

LEMMA CountedDetach ==
    ASSUME RowInv, CountInv, NEW t \in Threads, Detach(t) PROVE CountInv'
  <1>1. /\ pc[t] = "detach" /\ lock = None /\ pm' = pm /\ modified' = modified
        /\ node' = node /\ pageId' = pageId
        /\ UNCHANGED <<newest, live, size, table, ptr, ids, closing>>
    BY DEF Detach, levelVars, tableVars, addVars
  <1>2. Sound(pm) /\ LockHeld /\ SlotsAgree /\ DOMAIN node = Threads /\ DOMAIN pageId = Threads
    BY DEF CountInv, LockHeld
  <1>3. node[t] \in Nat /\ Slot(node[t]) \in 1 .. size[newest] /\ pc[t] # "idle"
    BY <1>1, BusyIs
  <1>4. pc[t] \notin Copying /\ pc[t] \notin Holding /\ lock # t
    BY <1>1, CowAssumption DEF Copying, Holding, None, Threads
  <1>5. CASE ~ modified /\ Tab = table[newest - 1]
    <2>1. PICK b : b = "fill"
      OBVIOUS
    <2>2. lock' = t /\ pc' = [pc EXCEPT ![t] = b]
      BY <2>1, <1>5 DEF Detach, Goto
    <2>3. /\ b \in {"idle", "get", "detach", "fill"} \cup Detached
          /\ b \in Holding \cup {"write", "fill"} /\ b \notin Holding /\ b \notin Copying
          /\ b \notin Detached /\ b # "setId" /\ b # "idle" /\ pc[t] # "setId"
      BY <2>1, <1>1 DEF Detached, Holding, Copying
    <2>4. /\ Sound(pm') /\ pm'.refs = pm.refs /\ pm'.zero = pm.zero
          /\ node'[t] \in Nat /\ Slot(node'[t]) \in 1 .. size[newest]
          /\ DOMAIN node' = Threads /\ DOMAIN pageId' = Threads
      BY <1>1, <1>2, <1>3
    <2>5. \A u \in Threads : u # t \/ pc[t] \in Copying
                                => node'[u] = node[u] /\ pageId'[u] = pageId[u]
      BY <1>1
    <2> QED BY <2>2, <2>3, <2>4, <2>5, <1>1, <1>4, StepStays
  <1>6. CASE ~ (~ modified /\ Tab = table[newest - 1])
    <2>1. PICK b : b = "readPage"
      OBVIOUS
    <2>2. lock' = lock /\ pc' = [pc EXCEPT ![t] = b]
      BY <2>1, <1>6 DEF Detach, Goto
    <2>3. /\ b \in {"idle", "get", "detach", "fill"} \cup Detached
          /\ b \notin Holding /\ b # "idle"
      BY <2>1 DEF Detached, Holding
    <2>4. LockHeld'
      BY <2>2, <2>3, <1>1, <1>2, <1>3, <1>4, LockStays
    <2>5. TableOwned'
      BY <1>1, <1>3, <1>6, AloneBefore DEF TableOwned
    <2>6. ~ Copies /\ ~ Copies'
      BY <1>1, <2>2 DEF Copies
    <2>7. \A u \in Threads : pc'[u] \notin Holding
      <3>1. \A u \in Threads : lock' # u
        BY <1>1, <2>2, CowAssumption DEF None, Threads
      <3> QED BY <3>1, <2>4 DEF LockHeld
    <2>8. Sound(pm') /\ pm'.refs = pm.refs /\ pm'.zero = pm.zero
      BY <1>1, <1>2
    <2> QED BY <2>4, <2>5, <2>6, <2>7, <2>8, <1>1, CountsStay
  <1> QED BY <1>5, <1>6

(* Who holds the lock, from its labels.                                       *)
LEMMA HolderIs ==
    ASSUME CountInv, NEW t \in Threads, pc[t] \in Holding
    PROVE  /\ lock = t /\ CopySlot = Slot(node[t]) /\ lock # None
           /\ \A u \in Threads : pc[u] \in Holding => u = t
           /\ pageId[t] = ids[Tab][Slot(node[t])]
           /\ Held(pm, pageId[t]) >= IF pc[t] = "setId" THEN 1 ELSE 2
           /\ pc[t] # "idle" /\ pc[t] \in Detached
  <1>1. lock = t /\ \A u \in Threads : pc[u] \in Holding => u = t
    BY DEF CountInv, LockHeld
  <1>2. CopySlot = Slot(node[t])
    BY <1>1 DEF CopySlot
  <1>3. lock # None
    BY <1>1, CowAssumption DEF None, Threads
  <1>4. pc[t] # "idle" /\ pc[t] \in Detached
    BY DEF Holding, Detached
  <1>5. /\ pageId[t] = ids[Tab][Slot(node[t])]
        /\ Held(pm, pageId[t]) >= IF pc[t] = "setId" THEN 1 ELSE 2
    BY DEF CountInv, SlotsAgree
  <1> QED BY <1>1, <1>2, <1>3, <1>4, <1>5

(* cow() stores a new page at the slot of the copy: it has one reference, and *)
(* no level shows it.                                                         *)
LEMMA CountedAllocate ==
    ASSUME RowInv, CountInv, NEW t \in Threads, AllocateCopy(t) PROVE CountInv'
  <1>1. PICK b : b = "copy"
    OBVIOUS
  <1>2. PICK a : a = Allocate(pm, t)
    OBVIOUS
  <1>3. PICK k : k = Slot(node[t])
    OBVIOUS
  <1>4. /\ pc[t] = "allocate" /\ pc' = [pc EXCEPT ![t] = b]
        /\ newest' = newest /\ live' = live /\ size' = size /\ table' = table /\ ids' = ids
        /\ modified' = modified /\ lock' = lock /\ node' = node /\ pageId' = pageId
        /\ closing' = closing
    BY <1>1 DEF AllocateCopy, Goto, levelVars, addVars
  <1>5. pm' = a.pm /\ ptr' = [ptr EXCEPT ![Tab][k] = a.page]
    BY <1>2, <1>3 DEF AllocateCopy
  <1>6. pc[t] \in Holding /\ pc[t] \notin Copying
    BY <1>4 DEF Holding, Copying
  <1>7. /\ lock = t /\ CopySlot = k /\ lock # None
        /\ \A u \in Threads : pc[u] \in Holding => u = t
        /\ pc[t] # "idle" /\ pc[t] \in Detached
    BY <1>3, <1>6, HolderIs
  <1>8. pageId[t] = ids[Tab][k] /\ Held(pm, pageId[t]) >= 2
    BY <1>3, <1>4, <1>6, HolderIs
  <1>9. /\ ~ closing /\ newest \in live /\ size[newest] \in Nat \ {0} /\ k \in SlotsOf(newest)
        /\ ids[Tab] \in [SlotsOf(newest) -> DOMAIN pm.refs]
        /\ ptr[Tab] \in [SlotsOf(newest) -> DOMAIN pm.refs]
        /\ Tab \in DOMAIN ptr /\ node[t] \in Nat /\ Slot(node[t]) \in 1 .. size[newest]
    BY <1>3, <1>7, BusyIs
  <1>10. \A l \in live : l # newest => table[l] # Tab
    BY <1>7, TableAlone
  <1>11. Sound(pm) /\ LockHeld /\ TablesTyped /\ TableOwned /\ SlotsAgree /\ Counted
    BY DEF CountInv
  <1>12. Sound(a.pm) /\ a.pm.zero = pm.zero /\ DOMAIN a.pm.refs = DOMAIN pm.refs \cup {a.page}
    BY <1>2, <1>11, AllocateKeeps
  <1>13. a.page \in Nat /\ Held(pm, a.page) = 0 /\ Held(a.pm, a.page) = 1
    BY <1>2, <1>11, AllocateKeeps
  <1>14. \A p \in Nat : p # a.page => Held(a.pm, p) = Held(pm, p)
    BY <1>2, <1>11, AllocateKeeps
  <1>15. ~ Copies
    BY <1>6, <1>7 DEF Copies
  <1>16. pc'[t] = b /\ \A u \in Threads : u # t => pc'[u] = pc[u]
    BY <1>4, <1>11 DEF LockHeld
  <1>17. Copies' /\ CopySlot' = k /\ pc'[lock'] = "copy"
    <2>1. pc'[lock'] = "copy"
      BY <1>1, <1>4, <1>7, <1>16
    <2> QED BY <2>1, <1>3, <1>4, <1>7 DEF Copies, Copying, CopySlot, Slot
  <1>18. Tab' = Tab /\ \A x \in live : SlotsOf(x)' = SlotsOf(x)
    BY <1>4 DEF Tab, SlotsOf
  <1>19. /\ DOMAIN ptr' = DOMAIN ptr
         /\ ptr'[Tab] \in [SlotsOf(newest) -> DOMAIN pm'.refs]
         /\ ptr'[Tab][k] = a.page
         /\ \A i \in SlotsOf(newest) : i # k => ptr'[Tab][i] = ptr[Tab][i]
         /\ \A x \in live : x # newest => ptr'[table[x]] = ptr[table[x]]
    <2>1. ptr' = [ptr EXCEPT ![Tab] = [ptr[Tab] EXCEPT ![k] = a.page]]
      BY <1>5
    <2>2. ptr'[Tab] = [ptr[Tab] EXCEPT ![k] = a.page] /\ DOMAIN ptr' = DOMAIN ptr
      BY <2>1, <1>9
    <2>3. /\ DOMAIN pm.refs \subseteq DOMAIN pm'.refs /\ a.page \in DOMAIN pm'.refs
      BY <1>5, <1>12
    <2>4. ptr'[Tab] \in [SlotsOf(newest) -> DOMAIN pm'.refs]
      BY <2>2, <2>3, <1>9
    <2>5. /\ ptr'[Tab][k] = a.page
          /\ \A i \in SlotsOf(newest) : i # k => ptr'[Tab][i] = ptr[Tab][i]
      BY <2>2, <1>9
    <2>6. \A x \in live : x # newest => ptr'[table[x]] = ptr[table[x]]
      <3>1. \A x \in live : table[x] \in DOMAIN ptr
        BY <1>11 DEF TablesTyped
      <3> QED BY <3>1, <2>1, <1>10
    <2> QED BY <2>2, <2>4, <2>5, <2>6
  <1>20. LockHeld'
    <2>1. /\ b \in {"idle", "get", "detach", "fill"} \cup Detached /\ b \in Holding /\ b # "idle"
      BY <1>1 DEF Detached, Holding
    <2>2. DOMAIN node' = Threads /\ DOMAIN pageId' = Threads
      BY <1>4, <1>11 DEF LockHeld
    <2> QED BY <2>1, <2>2, <1>4, <1>7, <1>9, <1>11, LockStays
  <1>21. TablesTyped'
    <2>1. DOMAIN size' = 0 .. newest'
      BY <1>4, <1>11 DEF TablesTyped
    <2>2. ASSUME NEW x \in live'
          PROVE  /\ size'[x] \in Nat \ {0}
                 /\ table'[x] \in DOMAIN ids' /\ table'[x] \in DOMAIN ptr'
                 /\ ids'[table'[x]] \in [SlotsOf(x)' -> DOMAIN pm'.refs]
                 /\ ptr'[table'[x]] \in [SlotsOf(x)' -> DOMAIN pm'.refs]
      <3>1. x \in live /\ SlotsOf(x)' = SlotsOf(x) /\ DOMAIN pm.refs \subseteq DOMAIN pm'.refs
        BY <1>4, <1>5, <1>12, <1>18
      <3>2. /\ size[x] \in Nat \ {0}
            /\ table[x] \in DOMAIN ids /\ table[x] \in DOMAIN ptr
            /\ ids[table[x]] \in [SlotsOf(x) -> DOMAIN pm.refs]
            /\ ptr[table[x]] \in [SlotsOf(x) -> DOMAIN pm.refs]
        BY <3>1, <1>11 DEF TablesTyped
      <3>3. ids'[table[x]] \in [SlotsOf(x) -> DOMAIN pm'.refs]
        BY <3>1, <3>2, <1>4
      <3>4. ptr'[table[x]] \in [SlotsOf(x) -> DOMAIN pm'.refs]
        <4>1. CASE x = newest
          BY <4>1, <1>19 DEF Tab
        <4>2. CASE x # newest
          <5>1. ptr'[table[x]] = ptr[table[x]]
            BY <4>2, <3>1, <1>19
          <5> QED BY <5>1, <3>1, <3>2
        <4> QED BY <4>1, <4>2
      <3> QED BY <3>1, <3>2, <3>3, <3>4, <1>4, <1>19
    <2>3. pm'.zero # None => ids'[table'[newest']][size'[newest'] + 1] = pm'.zero
      BY <1>4, <1>5, <1>9, <1>11, <1>12 DEF TablesTyped
    <2> QED BY <2>1, <2>2, <2>3, <1>4, <1>9 DEF TablesTyped
  <1>22. TableOwned'
    BY <1>4, <1>7, <1>11, OwnedStays
  <1>23. pageId[t] # a.page
    BY <1>8, <1>13
  <1>24. SlotsAgree'
    <2>1. ASSUME NEW x \in live', NEW i \in SlotsOf(x)'
          PROVE  ptr'[table'[x]][i] = ids'[table'[x]][i] <=> ~ (x = newest /\ i = k)
      <3>1. x \in live /\ i \in SlotsOf(x) /\ table'[x] = table[x] /\ ids' = ids
        BY <1>4, <1>18
      <3>2. ptr[table[x]][i] = ids[table[x]][i]
        BY <3>1, <1>11, <1>15 DEF SlotsAgree
      <3>3. CASE x # newest
        BY <3>1, <3>2, <3>3, <1>19
      <3>4. CASE x = newest /\ i # k
        BY <3>1, <3>2, <3>4, <1>19 DEF Tab
      <3>5. CASE x = newest /\ i = k
        BY <3>1, <3>5, <1>8, <1>19, <1>23 DEF Tab
      <3> QED BY <3>3, <3>4, <3>5
    <2>2. ASSUME NEW u \in Threads, pc'[u] \in Holding
          PROVE  /\ pageId'[u] = ids'[Tab'][Slot(node'[u])]
                 /\ Held(pm', pageId'[u]) >= IF pc'[u] = "setId" THEN 1 ELSE 2
      <3>1. u = t
        BY <2>2, <1>7, <1>16
      <3>2. pc'[t] # "setId"
        BY <1>1, <1>16
      <3>3. pageId[t] \in Nat
        <4>1. pageId[t] \in DOMAIN pm.refs
          BY <1>8, <1>9
        <4> QED BY <4>1, <1>11, PagesNumbers
      <3>4. Held(pm', pageId[t]) >= 2
        BY <3>3, <1>5, <1>8, <1>14, <1>23
      <3> QED BY <3>1, <3>2, <3>4, <1>3, <1>4, <1>8, <1>18
    <2> QED BY <2>1, <2>2, <1>4, <1>17 DEF SlotsAgree, Slot
  <1>25. Counted'
    <2> SUFFICES ASSUME NEW p \in Nat
                 PROVE  /\ IsFiniteSet(Shows(p)')
                        /\ Held(pm', p) + Dropped(p)' = Cardinality(Shows(p)') + Fresh(p)'
      BY DEF Counted
    <2>1. IsFiniteSet(Shows(p)) /\ Held(pm, p) + Dropped(p) = Cardinality(Shows(p)) + Fresh(p)
      BY <1>11 DEF Counted
    <2>2. Fresh(p) = 0 /\ Dropped(p) = 0 /\ Dropped(p)' = 0
      BY <1>15, <1>17 DEF Fresh, Dropped
    <2>3. Fresh(p)' = IF p = a.page THEN 1 ELSE 0
      <3>1. ptr'[Tab'][CopySlot'] = a.page
        BY <1>17, <1>18, <1>19
      <3> QED BY <3>1, <1>17 DEF Fresh
    <2>4. Shows(p)' = Shows(p)
      BY <1>4, <1>18 DEF Shows
    <2>5. Cardinality(Shows(p)) \in Nat /\ Held(pm, p) \in Nat
      BY <2>1, <1>11, FS_CardinalityType, HeldType
    <2>6. Held(pm, p) = Cardinality(Shows(p))
      BY <2>1, <2>2, <2>5
    <2>7. Held(pm', p) = Cardinality(Shows(p)) + IF p = a.page THEN 1 ELSE 0
      <3>1. CASE p = a.page
        BY <3>1, <2>5, <2>6, <1>5, <1>13
      <3>2. CASE p # a.page
        BY <3>2, <2>5, <2>6, <1>5, <1>14
      <3> QED BY <3>1, <3>2
    <2>8. Held(pm', p) + 0 = Held(pm', p)
      <3>1. Held(pm', p) \in Nat
        BY <1>5, <1>12, HeldType
      <3> QED BY <3>1
    <2> QED BY <2>1, <2>2, <2>3, <2>4, <2>7, <2>8
  <1>26. Sound(pm')
    BY <1>5, <1>12
  <1> QED BY <1>20, <1>21, <1>22, <1>24, <1>25, <1>26 DEF CountInv

(* cow() gives back the reference of the slot. Another level shows the page,  *)
(* so that it never comes on a list.                                          *)
LEMMA CountedDrop ==
    ASSUME RowInv, CountInv, NEW t \in Threads, DropOld(t) PROVE CountInv'
  <1>1. PICK b : b = "setId"
    OBVIOUS
  <1>2. PICK p0 : p0 = pageId[t]
    OBVIOUS
  <1>3. PICK m : m = Release(pm, t, p0)
    OBVIOUS
  <1>4. /\ pc[t] = "drop" /\ pc' = [pc EXCEPT ![t] = b]
        /\ newest' = newest /\ live' = live /\ size' = size /\ table' = table
        /\ ids' = ids /\ ptr' = ptr /\ pm' = m
        /\ modified' = modified /\ lock' = lock /\ node' = node /\ pageId' = pageId
        /\ closing' = closing
    BY <1>1, <1>2, <1>3 DEF DropOld, Goto, levelVars, tableVars, addVars
  <1>5. pc[t] \in Holding /\ pc[t] \in Copying
    BY <1>4 DEF Holding, Copying
  <1>6. /\ lock = t /\ CopySlot = Slot(node[t]) /\ lock # None
        /\ \A u \in Threads : pc[u] \in Holding => u = t
        /\ pc[t] # "idle" /\ pc[t] \in Detached
    BY <1>5, HolderIs
  <1>7. p0 = ids[Tab][Slot(node[t])] /\ Held(pm, p0) >= 2
    BY <1>2, <1>4, <1>5, HolderIs
  <1>8. /\ ~ closing /\ newest \in live /\ size[newest] \in Nat \ {0}
        /\ Slot(node[t]) \in SlotsOf(newest)
        /\ ids[Tab] \in [SlotsOf(newest) -> DOMAIN pm.refs]
        /\ node[t] \in Nat /\ Slot(node[t]) \in 1 .. size[newest]
    BY <1>6, BusyIs
  <1>9. Sound(pm) /\ LockHeld /\ TablesTyped /\ TableOwned /\ SlotsAgree /\ Counted
    BY DEF CountInv
  <1>10. p0 \in DOMAIN pm.refs /\ p0 \in Nat /\ Held(pm, p0) \in Nat
    <2>1. p0 \in DOMAIN pm.refs
      BY <1>7, <1>8
    <2>2. p0 \in Nat
      BY <2>1, <1>9, PagesNumbers
    <2> QED BY <2>1, <2>2, <1>9, HeldType
  <1>11. pm.refs[p0] > 0
    BY <1>7, <1>10 DEF Held
  <1>12. Sound(m) /\ m.zero = pm.zero /\ DOMAIN m.refs = DOMAIN pm.refs
    BY <1>3, <1>9, <1>10, <1>11, ReleaseKeeps
  <1>13. Held(m, p0) = Held(pm, p0) - 1
    BY <1>3, <1>9, <1>10, <1>11, ReleaseKeeps
  <1>14. \A p \in Nat : p # p0 => Held(m, p) = Held(pm, p)
    BY <1>3, <1>9, <1>10, <1>11, ReleaseKeeps
  <1>15. pc'[t] = b /\ \A u \in Threads : u # t => pc'[u] = pc[u]
    BY <1>4, <1>9 DEF LockHeld
  <1>16. Copies /\ Copies' /\ CopySlot' = CopySlot
    <2>1. Copies
      BY <1>5, <1>6 DEF Copies
    <2>2. pc'[lock'] = "setId"
      BY <1>1, <1>4, <1>6, <1>15
    <2> QED BY <2>1, <2>2, <1>4, <1>6 DEF Copies, Copying, CopySlot, Slot
  <1>17. Tab' = Tab /\ \A x \in live : SlotsOf(x)' = SlotsOf(x)
    BY <1>4 DEF Tab, SlotsOf
  <1>18. LockHeld'
    <2>1. b \in {"idle", "get", "detach", "fill"} \cup Detached /\ b \in Holding /\ b # "idle"
      BY <1>1 DEF Detached, Holding
    <2>2. DOMAIN node' = Threads /\ DOMAIN pageId' = Threads
      BY <1>4, <1>9 DEF LockHeld
    <2> QED BY <2>1, <2>2, <1>4, <1>6, <1>8, <1>9, LockStays
  <1>19. TablesTyped'
    BY <1>4, <1>9, <1>12, <1>17 DEF TablesTyped
  <1>20. TableOwned'
    BY <1>4, <1>6, <1>9, OwnedStays
  <1>21. SlotsAgree'
    <2>1. \A x \in live' : \A i \in SlotsOf(x)' :
             ptr'[table'[x]][i] = ids'[table'[x]][i]
             <=> ~ (Copies' /\ x = newest' /\ i = CopySlot')
      BY <1>4, <1>9, <1>16, <1>17 DEF SlotsAgree
    <2>2. ASSUME NEW u \in Threads, pc'[u] \in Holding
          PROVE  /\ pageId'[u] = ids'[Tab'][Slot(node'[u])]
                 /\ Held(pm', pageId'[u]) >= IF pc'[u] = "setId" THEN 1 ELSE 2
      <3>1. u = t
        BY <2>2, <1>6, <1>15
      <3>2. Held(m, p0) >= 1
        BY <1>7, <1>10, <1>13
      <3> QED BY <3>1, <3>2, <1>1, <1>2, <1>4, <1>7, <1>15, <1>17
    <2> QED BY <2>1, <2>2 DEF SlotsAgree, Slot
  <1>22. Counted'
    <2> SUFFICES ASSUME NEW p \in Nat
                 PROVE  /\ IsFiniteSet(Shows(p)')
                        /\ Held(pm', p) + Dropped(p)' = Cardinality(Shows(p)') + Fresh(p)'
      BY DEF Counted
    <2>1. IsFiniteSet(Shows(p)) /\ Held(pm, p) + Dropped(p) = Cardinality(Shows(p)) + Fresh(p)
      BY <1>9 DEF Counted
    <2>2. Fresh(p)' = Fresh(p)
      BY <1>4, <1>16, <1>17 DEF Fresh
    <2>3. Dropped(p) = 0
      BY <1>4, <1>6 DEF Dropped
    <2>4. Dropped(p)' = IF p = p0 THEN 1 ELSE 0
      <3>1. pc'[lock'] = "setId" /\ pageId'[lock'] = p0
        BY <1>1, <1>2, <1>4, <1>6, <1>15
      <3> QED BY <3>1, <1>16 DEF Dropped
    <2>5. Shows(p)' = Shows(p)
      BY <1>4, <1>17 DEF Shows
    <2>6. Held(pm, p) \in Nat /\ Held(m, p) \in Nat
      BY <1>9, <1>12, HeldType
    <2>7. Held(m, p) + (IF p = p0 THEN 1 ELSE 0) = Held(pm, p) + 0
      <3>1. CASE p = p0
        BY <3>1, <2>6, <1>13
      <3>2. CASE p # p0
        BY <3>2, <2>6, <1>14
      <3> QED BY <3>1, <3>2
    <2>8. pm' = m
      BY <1>4
    <2> QED BY <2>1, <2>2, <2>3, <2>4, <2>5, <2>7, <2>8
  <1>23. Sound(pm')
    BY <1>4, <1>12
  <1> QED BY <1>18, <1>19, <1>20, <1>21, <1>22, <1>23 DEF CountInv

(* Then the slot shows the new page instead of the old one.                   *)
LEMMA CountedSetId ==
    ASSUME RowInv, CountInv, NEW t \in Threads, SetId(t) PROVE CountInv'
  <1>1. PICK b : b = "write"
    OBVIOUS
  <1>2. PICK k : k = Slot(node[t])
    OBVIOUS
  <1>3. PICK q : q = ptr[Tab][k]
    OBVIOUS
  <1>4. PICK p0 : p0 = pageId[t]
    OBVIOUS
  <1>5. /\ pc[t] = "setId" /\ pc' = [pc EXCEPT ![t] = b]
        /\ newest' = newest /\ live' = live /\ size' = size /\ table' = table
        /\ ptr' = ptr /\ pm' = pm /\ lock' = lock /\ node' = node /\ pageId' = pageId
        /\ closing' = closing
    BY <1>1 DEF SetId, Goto, levelVars, addVars
  <1>6. ids' = [ids EXCEPT ![Tab][k] = q]
    BY <1>2, <1>3 DEF SetId
  <1>7. pc[t] \in Holding /\ pc[t] \in Copying
    BY <1>5 DEF Holding, Copying
  <1>8. /\ lock = t /\ CopySlot = k /\ lock # None
        /\ \A u \in Threads : pc[u] \in Holding => u = t
        /\ pc[t] # "idle" /\ pc[t] \in Detached
    BY <1>2, <1>7, HolderIs
  <1>9. p0 = ids[Tab][k]
    BY <1>2, <1>4, <1>7, HolderIs
  <1>10. /\ ~ closing /\ newest \in live /\ size[newest] \in Nat \ {0}
         /\ k \in SlotsOf(newest) /\ k \in 1 .. size[newest]
         /\ ids[Tab] \in [SlotsOf(newest) -> DOMAIN pm.refs]
         /\ ptr[Tab] \in [SlotsOf(newest) -> DOMAIN pm.refs]
         /\ Tab \in DOMAIN ids /\ node[t] \in Nat /\ Slot(node[t]) \in 1 .. size[newest]
    BY <1>2, <1>8, BusyIs
  <1>11. \A l \in live : l # newest => table[l] # Tab
    BY <1>8, TableAlone
  <1>12. Sound(pm) /\ LockHeld /\ TablesTyped /\ TableOwned /\ SlotsAgree /\ Counted
    BY DEF CountInv
  <1>13. q \in DOMAIN pm.refs /\ q \in Nat /\ p0 \in Nat
    <2>1. q \in DOMAIN pm.refs /\ p0 \in DOMAIN pm.refs
      BY <1>3, <1>9, <1>10
    <2> QED BY <2>1, <1>12, PagesNumbers
  <1>14. Copies /\ ~ Copies'
    <2>1. Copies
      BY <1>7, <1>8 DEF Copies
    <2>2. pc'[lock'] = "write"
      BY <1>1, <1>5, <1>8, <1>12 DEF LockHeld
    <2> QED BY <2>1, <2>2 DEF Copies, Copying
  <1>15. pc'[t] = b /\ \A u \in Threads : u # t => pc'[u] = pc[u]
    BY <1>5, <1>12 DEF LockHeld
  <1>16. q # p0
    BY <1>3, <1>8, <1>9, <1>10, <1>12, <1>14 DEF SlotsAgree, Tab
  <1>17. Tab' = Tab /\ \A x \in live : SlotsOf(x)' = SlotsOf(x)
    BY <1>5 DEF Tab, SlotsOf
  <1>18. /\ DOMAIN ids' = DOMAIN ids
         /\ ids'[Tab] \in [SlotsOf(newest) -> DOMAIN pm.refs]
         /\ ids'[Tab][k] = q
         /\ \A i \in SlotsOf(newest) : i # k => ids'[Tab][i] = ids[Tab][i]
         /\ \A x \in live : x # newest => ids'[table[x]] = ids[table[x]]
    <2>1. ids' = [ids EXCEPT ![Tab] = [ids[Tab] EXCEPT ![k] = q]]
      BY <1>6
    <2>2. ids'[Tab] = [ids[Tab] EXCEPT ![k] = q] /\ DOMAIN ids' = DOMAIN ids
      BY <2>1, <1>10
    <2>3. ids'[Tab] \in [SlotsOf(newest) -> DOMAIN pm.refs]
      BY <2>2, <1>10, <1>13
    <2>4. /\ ids'[Tab][k] = q
          /\ \A i \in SlotsOf(newest) : i # k => ids'[Tab][i] = ids[Tab][i]
      BY <2>2, <1>10
    <2>5. \A x \in live : x # newest => ids'[table[x]] = ids[table[x]]
      <3>1. \A x \in live : table[x] \in DOMAIN ids
        BY <1>12 DEF TablesTyped
      <3> QED BY <3>1, <2>1, <1>11
    <2> QED BY <2>2, <2>3, <2>4, <2>5
  <1>19. LockHeld'
    <2>1. /\ b \in {"idle", "get", "detach", "fill"} \cup Detached /\ b \notin Holding /\ b # "idle"
          /\ b \in Holding \cup {"write", "fill"}
      BY <1>1 DEF Detached, Holding
    <2>2. DOMAIN node' = Threads /\ DOMAIN pageId' = Threads
      BY <1>5, <1>12 DEF LockHeld
    <2> QED BY <2>1, <2>2, <1>5, <1>8, <1>10, <1>12, LockStays
  <1>20. TablesTyped'
    <2>1. DOMAIN size' = 0 .. newest'
      BY <1>5, <1>12 DEF TablesTyped
    <2>2. ASSUME NEW x \in live'
          PROVE  /\ size'[x] \in Nat \ {0}
                 /\ table'[x] \in DOMAIN ids' /\ table'[x] \in DOMAIN ptr'
                 /\ ids'[table'[x]] \in [SlotsOf(x)' -> DOMAIN pm'.refs]
                 /\ ptr'[table'[x]] \in [SlotsOf(x)' -> DOMAIN pm'.refs]
      <3>1. x \in live /\ SlotsOf(x)' = SlotsOf(x)
        BY <1>5, <1>17
      <3>2. /\ size[x] \in Nat \ {0}
            /\ table[x] \in DOMAIN ids /\ table[x] \in DOMAIN ptr
            /\ ids[table[x]] \in [SlotsOf(x) -> DOMAIN pm.refs]
            /\ ptr[table[x]] \in [SlotsOf(x) -> DOMAIN pm.refs]
        BY <3>1, <1>12 DEF TablesTyped
      <3>3. ids'[table[x]] \in [SlotsOf(x) -> DOMAIN pm.refs]
        <4>1. CASE x = newest
          BY <4>1, <1>18 DEF Tab
        <4>2. CASE x # newest
          <5>1. ids'[table[x]] = ids[table[x]]
            BY <4>2, <3>1, <1>18
          <5> QED BY <5>1, <3>2
        <4> QED BY <4>1, <4>2
      <3> QED BY <3>1, <3>2, <3>3, <1>5, <1>18
    <2>3. pm'.zero # None => ids'[table'[newest']][size'[newest'] + 1] = pm'.zero
      <3>1. pm.zero # None => ids[Tab][size[newest] + 1] = pm.zero
        BY <1>10, <1>12 DEF TablesTyped, Tab
      <3>2. size[newest] + 1 \in SlotsOf(newest) /\ size[newest] + 1 # k
        BY <1>10 DEF SlotsOf
      <3>3. ids'[Tab][size[newest] + 1] = ids[Tab][size[newest] + 1]
        BY <3>2, <1>18
      <3> QED BY <3>1, <3>3, <1>5 DEF Tab
    <2> QED BY <2>1, <2>2, <2>3, <1>5, <1>10 DEF TablesTyped
  <1>21. TableOwned'
    BY <1>5, <1>8, <1>12, OwnedStays
  <1>22. SlotsAgree'
    <2>1. ASSUME NEW x \in live', NEW i \in SlotsOf(x)'
          PROVE  ptr'[table'[x]][i] = ids'[table'[x]][i]
      <3>1. x \in live /\ i \in SlotsOf(x) /\ table'[x] = table[x] /\ ptr' = ptr
        BY <1>5, <1>17
      <3>2. x # newest \/ i # k => ptr[table[x]][i] = ids[table[x]][i]
        BY <3>1, <1>8, <1>12 DEF SlotsAgree
      <3>3. CASE x # newest
        BY <3>1, <3>2, <3>3, <1>18
      <3>4. CASE x = newest /\ i # k
        BY <3>1, <3>2, <3>4, <1>18 DEF Tab
      <3>5. CASE x = newest /\ i = k
        BY <3>1, <3>5, <1>3, <1>18 DEF Tab
      <3> QED BY <3>3, <3>4, <3>5
    <2>2. \A u \in Threads : pc'[u] \notin Holding
      BY <1>1, <1>8, <1>15 DEF Holding
    <2> QED BY <2>1, <2>2, <1>14 DEF SlotsAgree
  <1>23. Counted'
    <2> SUFFICES ASSUME NEW p \in Nat
                 PROVE  /\ IsFiniteSet(Shows(p)')
                        /\ Held(pm', p) + Dropped(p)' = Cardinality(Shows(p)') + Fresh(p)'
      BY DEF Counted
    <2>1. IsFiniteSet(Shows(p)) /\ Held(pm, p) + Dropped(p) = Cardinality(Shows(p)) + Fresh(p)
      BY <1>12 DEF Counted
    <2>2. Fresh(p)' = 0 /\ Dropped(p)' = 0
      BY <1>14 DEF Fresh, Dropped
    <2>3. Fresh(p) = IF p = q THEN 1 ELSE 0
      BY <1>3, <1>8, <1>14 DEF Fresh
    <2>4. Dropped(p) = IF p = p0 THEN 1 ELSE 0
      BY <1>4, <1>5, <1>8, <1>14 DEF Dropped
    <2>5. PICK z : z = <<newest, k>>
      OBVIOUS
    (* Which slots show the page after the step. *)
    <2>6. \A x \in live : \A i \in SlotsOf(x) : <<x, i>> # z =>
             ids'[table'[x]][i] = ids[table[x]][i]
      <3> SUFFICES ASSUME NEW x \in live, NEW i \in SlotsOf(x), <<x, i>> # z
                   PROVE  ids'[table'[x]][i] = ids[table[x]][i]
        OBVIOUS
      <3>1. x # newest \/ i # k
        BY <2>5
      <3>2. CASE x # newest
        BY <3>2, <1>5, <1>18
      <3>3. CASE x = newest /\ i # k
        BY <3>3, <1>5, <1>18 DEF Tab
      <3> QED BY <3>1, <3>2, <3>3
    <2>7. z \in Shows(p) <=> p = p0
      BY <2>5, <1>9, <1>10, ShowsIs DEF Tab
    <2>8. z \in Shows(p)' <=> p = q
      <3>1. newest \in live' /\ k \in SlotsOf(newest)' /\ ids'[table'[newest]][k] = q
        BY <1>5, <1>10, <1>17, <1>18 DEF Tab
      <3>2. ASSUME p = q PROVE z \in Shows(p)'
        <4>1. PICK l : l = newest
          OBVIOUS
        <4>2. l \in live' /\ k \in SlotsOf(l)' /\ ids'[table'[l]][k] = p /\ z = <<l, k>>
          BY <4>1, <3>1, <3>2, <2>5, <1>10, <1>17
        <4> QED BY <4>2, ShowsIsNext
      <3>3. ASSUME z \in Shows(p)' PROVE p = q
        <4>1. PICK l \in live' : \E i \in SlotsOf(l)' : ids'[table'[l]][i] = p /\ z = <<l, i>>
          BY <3>3, ShowsIsNext
        <4>2. l = newest /\ ids'[table'[l]][k] = p
          BY <4>1, <2>5
        <4> QED BY <4>2, <3>1, <1>5
      <3> QED BY <3>2, <3>3
    <2>9. ASSUME NEW x, x # z PROVE x \in Shows(p)' <=> x \in Shows(p)
      <3>1. ASSUME x \in Shows(p)' PROVE x \in Shows(p)
        <4>1. PICK l \in live' : \E i \in SlotsOf(l)' : ids'[table'[l]][i] = p /\ x = <<l, i>>
          BY <3>1, ShowsIsNext
        <4>2. PICK i \in SlotsOf(l)' : ids'[table'[l]][i] = p /\ x = <<l, i>>
          BY <4>1
        <4>3. l \in live /\ i \in SlotsOf(l)
          BY <1>5, <1>17
        <4>4. ids[table[l]][i] = p
          BY <4>2, <4>3, <2>6, <2>9
        <4> QED BY <4>2, <4>3, <4>4, ShowsIs
      <3>2. ASSUME x \in Shows(p) PROVE x \in Shows(p)'
        <4>1. PICK l \in live : \E i \in SlotsOf(l) : ids[table[l]][i] = p /\ x = <<l, i>>
          BY <3>2, ShowsIs
        <4>2. PICK i \in SlotsOf(l) : ids[table[l]][i] = p /\ x = <<l, i>>
          BY <4>1
        <4>3. l \in live' /\ i \in SlotsOf(l)'
          BY <1>5, <1>17
        <4>4. ids'[table'[l]][i] = p
          BY <4>2, <2>6, <2>9
        <4> QED BY <4>2, <4>3, <4>4, ShowsIsNext
      <3> QED BY <3>1, <3>2
    <2>10. Held(pm, p) \in Nat /\ Cardinality(Shows(p)) \in Nat
      BY <2>1, <1>12, HeldType, FS_CardinalityType
    <2>11. CASE p = p0
      <3>1. Shows(p)' = Shows(p) \ {z} /\ z \in Shows(p)
        BY <2>7, <2>8, <2>9, <2>11, <1>16
      <3>2. IsFiniteSet(Shows(p)') /\ Cardinality(Shows(p)') = Cardinality(Shows(p)) - 1
        BY <3>1, <2>1, FS_RemoveElement
      <3>3. Held(pm, p) + 1 = Cardinality(Shows(p)) + 0
        BY <2>1, <2>3, <2>4, <2>11, <1>16
      <3> QED BY <3>2, <3>3, <2>2, <2>10, <1>5
    <2>12. CASE p = q
      <3>1. Shows(p)' = Shows(p) \cup {z} /\ z \notin Shows(p)
        BY <2>7, <2>8, <2>9, <2>12, <1>16
      <3>2. IsFiniteSet(Shows(p)') /\ Cardinality(Shows(p)') = Cardinality(Shows(p)) + 1
        BY <3>1, <2>1, FS_AddElement
      <3>3. Held(pm, p) + 0 = Cardinality(Shows(p)) + 1
        BY <2>1, <2>3, <2>4, <2>12, <1>16
      <3> QED BY <3>2, <3>3, <2>2, <2>10, <1>5
    <2>13. CASE p # p0 /\ p # q
      <3>1. Shows(p)' = Shows(p)
        BY <2>7, <2>8, <2>9, <2>13
      <3> QED BY <3>1, <2>1, <2>2, <2>3, <2>4, <2>13, <1>5
    <2> QED BY <2>11, <2>12, <2>13
  <1>24. Sound(pm')
    BY <1>5, <1>12
  <1> QED BY <1>19, <1>20, <1>21, <1>22, <1>23, <1>24 DEF CountInv

----------------------------------------------------------------------------
(* Each step keeps both invariants.                                           *)
LEMMA CountedAdd ==
    ASSUME RowInv, CountInv, NEW t \in Threads, AddStep(t) PROVE CountInv'
  BY CountedBegin, CountedGet, CountedDetach, CountedFill, CountedReadPage, CountedReadId, CountedTest,
     CountedLock, CountedAllocate, CountedCopy, CountedDrop, CountedSetId, CountedWrite
  DEF AddStep

LEMMA CountedStart == Init => CountInv
  <1> SUFFICES ASSUME Init PROVE CountInv
    OBVIOUS
  <1>1. /\ newest = -1 /\ live = {} /\ size = <<>> /\ lock = None /\ ~ closing /\ ~ modified
        /\ pm = [refs |-> <<>>, mem |-> <<>>, zero |-> None, free |-> [t \in Threads |-> <<>>]]
        /\ pc = [t \in Threads |-> "idle"] /\ node = [t \in Threads |-> None]
        /\ pageId = [t \in Threads |-> None]
    BY DEF Init
  <1>2. /\ pm.refs = <<>> /\ pm.mem = <<>> /\ pm.zero = None
        /\ pm.free = [t \in Threads |-> <<>>]
    BY <1>1
  <1>3. DOMAIN pm.refs = {} /\ pm.refs \in [0 .. 0 - 1 -> Nat]
    BY <1>2
  <1>4. Typed(pm)
    <2>1. pm.free \in [Threads -> Seq(DOMAIN pm.refs)]
      BY <1>2
    <2>2. pm = [refs |-> pm.refs, mem |-> pm.mem, zero |-> pm.zero, free |-> pm.free]
      BY <1>1
    <2>3. \E n \in Nat : pm.refs \in [0 .. n - 1 -> Nat]
      BY <1>3
    <2> QED BY <2>1, <2>2, <2>3, <1>2 DEF Typed
  <1>5. ListsApart(pm)
    BY <1>2 DEF ListsApart
  <1>6. Listed(pm) = {}
    BY <1>2 DEF Listed, ToSet
  <1>7. Sound(pm)
    BY <1>3, <1>4, <1>5, <1>6 DEF Sound
  <1>8. None \notin Threads /\ \A t \in Threads : pc[t] = "idle"
    BY <1>1, CowAssumption DEF None, Threads
  <1>9. LockHeld
    BY <1>1, <1>8 DEF LockHeld, Holding
  <1>10. TablesTyped
    BY <1>1, <1>2 DEF TablesTyped
  <1>11. \A t \in Threads : pc[t] \notin Detached /\ pc[t] \notin Holding
    BY <1>8 DEF Detached, Holding
  <1>12. TableOwned
    BY <1>1, <1>11 DEF TableOwned
  <1>13. SlotsAgree
    BY <1>1, <1>11 DEF SlotsAgree
  <1>14. Counted
    <2> SUFFICES ASSUME NEW p \in Nat
                 PROVE  /\ IsFiniteSet(Shows(p))
                        /\ Held(pm, p) + Dropped(p) = Cardinality(Shows(p)) + Fresh(p)
      BY DEF Counted
    <2>1. Shows(p) = {}
      BY <1>1 DEF Shows
    <2>2. IsFiniteSet(Shows(p)) /\ Cardinality(Shows(p)) = 0
      BY <2>1, FS_EmptySet
    <2>3. Held(pm, p) = 0 /\ Dropped(p) = 0 /\ Fresh(p) = 0
      BY <1>1, <1>3 DEF Held, Dropped, Fresh, Copies
    <2> QED BY <2>2, <2>3
  <1> QED BY <1>7, <1>9, <1>10, <1>12, <1>13, <1>14 DEF CountInv

LEMMA CountedRests == ASSUME CountInv, UNCHANGED vars PROVE CountInv'
  <1>1. /\ newest' = newest /\ live' = live /\ size' = size /\ table' = table
        /\ ptr' = ptr /\ ids' = ids /\ modified' = modified /\ pm' = pm /\ lock' = lock
        /\ pc' = pc /\ node' = node /\ pageId' = pageId /\ closing' = closing
    BY DEF vars, levelVars, tableVars, threadVars, addVars
  <1>2. LockHeld'
    BY <1>1 DEF CountInv, LockHeld, Slot
  <1>3. TablesTyped'
    BY <1>1 DEF CountInv, TablesTyped, SlotsOf
  <1>4. TableOwned'
    BY <1>1 DEF CountInv, TableOwned
  <1>5. /\ Tab' = Tab /\ (Copies' <=> Copies) /\ CopySlot' = CopySlot
        /\ \A l : SlotsOf(l)' = SlotsOf(l)
    BY <1>1 DEF Tab, Copies, CopySlot, Slot, SlotsOf
  <1>6. SlotsAgree'
    BY <1>1, <1>5 DEF CountInv, SlotsAgree, Slot
  <1>7. Counted'
    <2>1. \A p : Fresh(p)' = Fresh(p) /\ Dropped(p)' = Dropped(p)
      BY <1>1, <1>5 DEF Fresh, Dropped
    <2>2. \A p : Shows(p)' = Shows(p)
      BY <1>1, <1>5 DEF Shows
    <2> QED BY <2>1, <2>2, <1>1 DEF CountInv, Counted
  <1> QED BY <1>1, <1>2, <1>3, <1>4, <1>6, <1>7 DEF CountInv

LEMMA CountedStep == RowInv /\ CountInv /\ [Next]_vars => CountInv'
  <1> SUFFICES ASSUME RowInv, CountInv, [Next]_vars PROVE CountInv'
    OBVIOUS
  <1> QED BY CountedDense, CountedShared, CountedLarger, CountedOldest, CountedDestroy,
             CountedAdd, CountedRests DEF Next

LEMMA CountAlways == Spec => [](RowInv /\ CountInv)
  <1>1. Init => CountInv
    BY CountedStart
  <1>2. RowInv /\ CountInv /\ [Next]_vars => CountInv'
    BY CountedStep
  <1> QED BY <1>1, <1>2, RowAlways, PTL DEF Spec

(* A page on a free list has no reference, and no level shows it: not even    *)
(* while a thread copies a page, when the counts are not those of the slots.  *)
LEMMA ShownRefs ==
    ASSUME RowInv, CountInv, NEW l \in live, NEW i \in SlotsOf(l)
    PROVE  /\ ids[table[l]][i] \in DOMAIN pm.refs /\ pm.refs[ids[table[l]][i]] > 0
           /\ ptr[table[l]][i] \in DOMAIN pm.refs /\ pm.refs[ptr[table[l]][i]] > 0
  <1>1. /\ ids[table[l]][i] \in DOMAIN pm.refs /\ ptr[table[l]][i] \in DOMAIN pm.refs
    BY DEF CountInv, TablesTyped
  <1>2. Sound(pm) /\ SlotsAgree /\ LockHeld
    BY DEF CountInv
  <1>3. ASSUME NEW p \in Nat
        PROVE  /\ IsFiniteSet(Shows(p)) /\ Cardinality(Shows(p)) \in Nat /\ Held(pm, p) \in Nat
               /\ Held(pm, p) + Dropped(p) = Cardinality(Shows(p)) + Fresh(p)
    <2>1. IsFiniteSet(Shows(p)) /\ Held(pm, p) + Dropped(p) = Cardinality(Shows(p)) + Fresh(p)
      BY DEF CountInv, Counted
    <2> QED BY <2>1, <1>2, FS_CardinalityType, HeldType
  <1>4. pm.refs[ids[table[l]][i]] > 0
    <2>1. PICK p : p = ids[table[l]][i]
      OBVIOUS
    <2>2. p \in Nat /\ p \in DOMAIN pm.refs
      BY <2>1, <1>1, <1>2, PagesNumbers
    <2>3. Cardinality(Shows(p)) > 0
      <3>1. Cardinality(Shows(p)) \in Nat \ {0}
        BY <2>1, <2>2, ShownCounts
      <3> QED BY <3>1
    <2>4. Fresh(p) \in {0, 1}
      BY DEF Fresh
    <2>5. CASE Dropped(p) = 0
      <3>1. Held(pm, p) > 0
        BY <2>2, <2>3, <2>4, <2>5, <1>3
      <3> QED BY <3>1, <2>1, <2>2 DEF Held
    <2>6. CASE Dropped(p) # 0
      <3>1. Copies /\ pc[lock] = "setId" /\ p = pageId[lock]
        BY <2>6 DEF Dropped
      <3>2. lock \in Threads /\ pc[lock] \in Holding
        BY <3>1, <1>2 DEF Copies, LockHeld, Holding
      <3>3. Held(pm, pageId[lock]) >= 1
        BY <3>1, <3>2, <1>2 DEF SlotsAgree
      <3>4. pm.refs[p] >= 1 /\ pm.refs[p] \in Nat
        BY <3>1, <3>3, <2>2, <1>3 DEF Held
      <3> QED BY <3>4, <2>1
    <2> QED BY <2>5, <2>6
  <1>5. pm.refs[ptr[table[l]][i]] > 0
    <2>1. CASE ptr[table[l]][i] = ids[table[l]][i]
      BY <2>1, <1>4
    <2>2. CASE ptr[table[l]][i] # ids[table[l]][i]
      <3>1. PICK q : q = ptr[table[l]][i]
        OBVIOUS
      <3>2. Copies /\ l = newest /\ i = CopySlot
        BY <2>2, <1>2 DEF SlotsAgree
      <3>3. Fresh(q) = 1
        BY <3>1, <3>2 DEF Fresh, Tab
      <3>4. q \in Nat /\ q \in DOMAIN pm.refs
        BY <3>1, <1>1, <1>2, PagesNumbers
      <3>5. Dropped(q) = 0
        <4>1. lock \in Threads /\ pc[lock] \in Holding
          BY <3>2, <1>2 DEF Copies, LockHeld, Copying, Holding
        <4>2. pageId[lock] = ids[Tab][Slot(node[lock])]
          BY <4>1, <1>2 DEF SlotsAgree
        <4>3. q # pageId[lock]
          BY <4>2, <3>1, <3>2, <2>2 DEF Tab, CopySlot
        <4> QED BY <4>3 DEF Dropped
      <3>6. Held(pm, q) > 0
        BY <3>3, <3>4, <3>5, <1>3
      <3> QED BY <3>1, <3>4, <3>6 DEF Held
    <2> QED BY <2>1, <2>2
  <1> QED BY <1>1, <1>4, <1>5

----------------------------------------------------------------------------
(* Theorem: for every number of threads, of pages and of levels, a page that  *)
(* no thread is copying has one reference for each slot of each level that    *)
(* shows it, a page on a free list has none, and, unless the zero page is     *)
(* page 0, each page without a reference is on a free list: what copying,     *)
(* sharing, zero filling and release_pages() together do to the counts.       *)
THEOREM CountsAreExact == Spec => []CountsExact
  <1>1. RowInv /\ CountInv => CountsExact
    <2> SUFFICES ASSUME RowInv, CountInv, lock = None, NEW p \in Pages
                 PROVE  /\ pm.refs[p] = Cardinality(Shows(p))
                        /\ p \in FreePages => pm.refs[p] = 0
                        /\ pm.zero # 0 /\ pm.refs[p] = 0 => p \in FreePages
      BY DEF CountsExact
    <2>1. Sound(pm) /\ p \in DOMAIN pm.refs
      BY DEF CountInv, Pages
    <2>2. FreePages = Listed(pm)
      BY DEF FreePages, Listed
    <2>3. p \in Nat
      BY <2>1, PagesNumbers
    <2>4. Dropped(p) = 0 /\ Fresh(p) = 0
      BY DEF Dropped, Fresh, Copies
    <2>5. IsFiniteSet(Shows(p)) /\ Held(pm, p) + Dropped(p) = Cardinality(Shows(p)) + Fresh(p)
      BY <2>3 DEF CountInv, Counted
    <2>6. Held(pm, p) \in Nat /\ Cardinality(Shows(p)) \in Nat /\ Held(pm, p) = pm.refs[p]
      BY <2>1, <2>3, <2>5, HeldType, FS_CardinalityType DEF Held
    <2>7. pm.refs[p] = Cardinality(Shows(p))
      BY <2>4, <2>5, <2>6
    <2> QED BY <2>1, <2>2, <2>7 DEF Sound
  <1> QED BY <1>1, CountAlways, PTL

(* Theorem: for every number of threads, of pages and of levels, and at every *)
(* moment of a copy, no level shows a page of a free list, neither by address *)
(* nor by id, and no page is twice on the lists: what allocate() gives out    *)
(* belongs to nobody.                                                         *)
THEOREM FreePagesApart == Spec => []FreeApart
  <1>1. RowInv /\ CountInv => FreeApart
    <2> SUFFICES ASSUME RowInv, CountInv PROVE FreeApart
      OBVIOUS
    <2>1. Sound(pm) /\ FreePages = Listed(pm)
      BY DEF CountInv, FreePages, Listed
    <2>2. \A p \in FreePages : pm.refs[p] = 0
      BY <2>1 DEF Sound
    <2>3. ASSUME NEW l \in live, NEW i \in SlotsOf(l)
          PROVE  {ptr[table[l]][i], ids[table[l]][i]} \cap FreePages = {}
      <3>1. pm.refs[ids[table[l]][i]] > 0
        BY ShownRefs
      <3>2. pm.refs[ptr[table[l]][i]] > 0
        BY ShownRefs
      <3> QED BY <3>1, <3>2, <2>2
    <2>4. ListsApart(pm)
      BY <2>1 DEF Sound
    <2> QED BY <2>3, <2>4 DEF FreeApart, ListsApart
  <1> QED BY <1>1, CountAlways, PTL

----------------------------------------------------------------------------
(* The values in the pages: each page has one for each entry, and the         *)
(* operators of the page manager change none of a page in use.                *)
MemTyped(m) ==
    /\ DOMAIN m.mem = DOMAIN m.refs
    /\ \A p \in DOMAIN m.mem : DOMAIN m.mem[p] = Entry

LEMMA AllocateMem ==
    ASSUME NEW m, NEW t \in Threads, Sound(m), MemTyped(m), NEW a, a = Allocate(m, t)
    PROVE  /\ MemTyped(a.pm) /\ a.pm.mem[a.page] = Zeros
           /\ \A p \in DOMAIN m.refs : p # a.page => a.pm.mem[p] = m.mem[p]
  <1>1. Typed(m)
    BY DEF Sound
  <1>2. a.pm.mem = With(m.mem, a.page, Zeros)
    BY <1>1, AllocateIs
  <1>3. DOMAIN a.pm.refs = DOMAIN m.refs \cup {a.page}
    BY AllocateKeeps
  <1>4. /\ DOMAIN a.pm.mem = DOMAIN m.mem \cup {a.page} /\ a.pm.mem[a.page] = Zeros
        /\ \A p \in DOMAIN m.mem : p # a.page => a.pm.mem[p] = m.mem[p]
    BY <1>2 DEF With
  <1>5. DOMAIN m.mem = DOMAIN m.refs /\ \A p \in DOMAIN m.mem : DOMAIN m.mem[p] = Entry
    BY DEF MemTyped
  <1>6. DOMAIN Zeros = Entry
    BY DEF Zeros
  <1>7. \A p \in DOMAIN a.pm.mem : DOMAIN a.pm.mem[p] = Entry
    BY <1>4, <1>5, <1>6
  <1> QED BY <1>3, <1>4, <1>5, <1>7 DEF MemTyped

LEMMA AcquireMem ==
    ASSUME NEW m, Typed(m), MemTyped(m), NEW pages
    PROVE  MemTyped(Acquire(m, pages)) /\ Acquire(m, pages).mem = m.mem
  <1>1. m = [refs |-> m.refs, mem |-> m.mem, zero |-> m.zero, free |-> m.free]
    BY DEF Typed
  <1>2. PICK r : r = [p \in DOMAIN m.refs |->
                         m.refs[p] + Cardinality({i \in DOMAIN pages : pages[i] = p})]
    OBVIOUS
  <1>3. Acquire(m, pages) = [m EXCEPT !.refs = r]
    BY <1>2 DEF Acquire
  <1>4. Acquire(m, pages).refs = r /\ Acquire(m, pages).mem = m.mem
    BY <1>1, <1>3
  <1> QED BY <1>2, <1>4 DEF MemTyped

LEMMA ZeroPageMem ==
    ASSUME NEW m, Sound(m), MemTyped(m), NEW count \in Nat \ {0},
           m.zero # None => Held(m, m.zero) > 0 /\ m.mem[m.zero] = Zeros,
           NEW z, z = ZeroPage(m, count)
    PROVE  /\ MemTyped(z.pm) /\ z.pm.mem[z.page] = Zeros
           /\ \A p \in Nat : Held(m, p) > 0 => z.pm.mem[p] = m.mem[p]
  <1>1. Typed(m)
    BY DEF Sound
  <1>2. PICK n \in Nat : m.refs \in [0 .. n - 1 -> Nat]
    BY <1>1 DEF Typed
  <1>3. /\ m = [refs |-> m.refs, mem |-> m.mem, zero |-> m.zero, free |-> m.free]
        /\ m.zero \in DOMAIN m.refs \cup {None}
    BY <1>1 DEF Typed
  <1>4. CASE m.zero # None
    <2>1. m.zero \in DOMAIN m.refs /\ m.zero >= 0
      BY <1>2, <1>3, <1>4
    <2>2. z.page = m.zero /\ z.pm = [m EXCEPT !.refs[m.zero] = @ + count]
      BY <2>1 DEF ZeroPage
    <2>3. PICK r : r = [m.refs EXCEPT ![m.zero] = @ + count]
      OBVIOUS
    <2>4. z.pm = [m EXCEPT !.refs = r]
      BY <2>2, <2>3
    <2>5. z.pm.refs = r /\ z.pm.mem = m.mem
      BY <2>4, <1>3
    <2>6. DOMAIN r = DOMAIN m.refs
      BY <2>3
    <2> QED BY <2>2, <2>5, <2>6, <1>4 DEF MemTyped
  <1>5. CASE m.zero = None
    <2>1. ~ (m.zero >= 0)
      BY <1>5 DEF None
    <2>2. PICK a : a = Allocate(m, 0)
      OBVIOUS
    <2>3. z.page = a.page /\ z.pm = [a.pm EXCEPT !.zero = a.page, !.refs[a.page] = count]
      BY <2>1, <2>2 DEF ZeroPage
    <2>4. 0 \in Threads
      BY CowAssumption DEF Threads
    <2>5. /\ MemTyped(a.pm) /\ a.pm.mem[a.page] = Zeros
          /\ \A p \in DOMAIN m.refs : p # a.page => a.pm.mem[p] = m.mem[p]
      BY <2>2, <2>4, AllocateMem
    <2>6. Held(m, a.page) = 0
      BY <2>2, <2>4, AllocateKeeps
    <2>7. a.pm = [refs |-> a.pm.refs, mem |-> a.pm.mem, zero |-> a.pm.zero, free |-> a.pm.free]
      BY <1>1, <2>2, <2>4, AllocateIs
    <2>8. PICK r : r = [a.pm.refs EXCEPT ![a.page] = count]
      OBVIOUS
    <2>9. z.pm = [a.pm EXCEPT !.zero = a.page, !.refs = r]
      BY <2>3, <2>8
    <2>10. z.pm.refs = r /\ z.pm.mem = a.pm.mem
      BY <2>7, <2>9
    <2>11. DOMAIN r = DOMAIN a.pm.refs
      BY <2>8
    <2>12. MemTyped(z.pm)
      BY <2>5, <2>10, <2>11 DEF MemTyped
    <2>13. ASSUME NEW p \in Nat, Held(m, p) > 0 PROVE z.pm.mem[p] = m.mem[p]
      <3>1. p \in DOMAIN m.refs /\ p # a.page
        BY <2>6, <2>13 DEF Held
      <3> QED BY <3>1, <2>5, <2>10
    <2> QED BY <2>3, <2>5, <2>10, <2>12, <2>13
  <1> QED BY <1>4, <1>5

LEMMA AllocateRangeMem ==
    ASSUME NEW m, Sound(m), MemTyped(m), NEW count \in Nat, NEW r, r = AllocateRange(m, count)
    PROVE  /\ MemTyped(r.pm)
           /\ \A j \in 1 .. count : r.pm.mem[r.pages[j]] = Zeros
           /\ \A p \in Nat : Held(m, p) > 0 => r.pm.mem[p] = m.mem[p]
  <1>1. PICK f : RangeLoop(m, count, f) /\ AllocateRange(m, count) = f[count]
    BY RangeLoopIs
  <1> DEFINE Good(i) ==
        /\ Sound(f[i].pm) /\ MemTyped(f[i].pm) /\ f[i].pages \in Seq(Nat) /\ Len(f[i].pages) = i
        /\ \A j \in 1 .. i : /\ Held(f[i].pm, f[i].pages[j]) > 0
                             /\ f[i].pm.mem[f[i].pages[j]] = Zeros
        /\ \A p \in Nat : Held(m, p) > 0 => Held(f[i].pm, p) > 0 /\ f[i].pm.mem[p] = m.mem[p]
             T == {i \in Nat : i <= count => Good(i)}
  <1>2. /\ f[0] = [pages |-> <<>>, pm |-> m]
        /\ \A i \in 0 .. count : i # 0 => f[i] = RangeStep(f[i - 1])
    <2>1. \A i \in 0 .. count : f[i] = IF i = 0 THEN [pages |-> <<>>, pm |-> m]
                                       ELSE RangeStep(f[i - 1])
      BY <1>1, Zenon DEF RangeLoop
    <2> QED BY <2>1
  <1>3. 0 \in T
    <2>1. f[0].pm = m /\ f[0].pages = <<>>
      BY <1>2
    <2>2. Good(0)
      BY <2>1
    <2> QED BY <2>2
  <1>4. ASSUME NEW i \in Nat, i \in T PROVE i + 1 \in T
    <2> SUFFICES ASSUME i + 1 <= count PROVE Good(i + 1)
      OBVIOUS
    <2>1. Good(i)
      BY <1>4
    <2>2. f[i + 1] = RangeStep(f[i])
      BY <1>2
    <2>3. PICK b : b = f[i].pm
      OBVIOUS
    <2>4. PICK a : a = Allocate(b, 0)
      OBVIOUS
    <2>5. PICK w : w = f[i].pages
      OBVIOUS
    <2>6. f[i + 1].pages = Append(w, a.page) /\ f[i + 1].pm = a.pm
      BY <2>2, <2>3, <2>4, <2>5 DEF RangeStep
    <2>7. 0 \in Threads
      BY CowAssumption DEF Threads
    <2>8. /\ Sound(b) /\ MemTyped(b) /\ w \in Seq(Nat) /\ Len(w) = i
          /\ \A j \in 1 .. i : Held(b, w[j]) > 0 /\ b.mem[w[j]] = Zeros
          /\ \A p \in Nat : Held(m, p) > 0 => Held(b, p) > 0 /\ b.mem[p] = m.mem[p]
      BY <2>1, <2>3, <2>5
    <2>9. /\ Sound(a.pm) /\ a.page \in Nat /\ Held(b, a.page) = 0 /\ Held(a.pm, a.page) = 1
          /\ \A p \in Nat : p # a.page => Held(a.pm, p) = Held(b, p)
      BY <2>4, <2>7, <2>8, AllocateKeeps
    <2>10. /\ MemTyped(a.pm) /\ a.pm.mem[a.page] = Zeros
           /\ \A p \in DOMAIN b.refs : p # a.page => a.pm.mem[p] = b.mem[p]
      BY <2>4, <2>7, <2>8, AllocateMem
    <2>11. ASSUME NEW p \in Nat, Held(b, p) > 0
           PROVE  Held(a.pm, p) > 0 /\ a.pm.mem[p] = b.mem[p]
      <3>1. p # a.page /\ p \in DOMAIN b.refs
        BY <2>9, <2>11 DEF Held
      <3> QED BY <3>1, <2>9, <2>10, <2>11
    <2>12. PICK s : s = Append(w, a.page)
      OBVIOUS
    <2>13. /\ s \in Seq(Nat) /\ Len(s) = i + 1 /\ s[i + 1] = a.page
           /\ \A j \in 1 .. i : s[j] = w[j]
      BY <2>8, <2>9, <2>12, AppendIs
    <2>14. ASSUME NEW j \in 1 .. i + 1
           PROVE  Held(a.pm, s[j]) > 0 /\ a.pm.mem[s[j]] = Zeros
      <3>1. CASE j = i + 1
        BY <3>1, <2>9, <2>10, <2>13
      <3>2. CASE j \in 1 .. i
        <4>1. s[j] = w[j] /\ w[j] \in Nat
          BY <3>2, <2>8, <2>13
        <4> QED BY <4>1, <3>2, <2>8, <2>11
      <3> QED BY <3>1, <3>2
    <2>15. \A p \in Nat : Held(m, p) > 0 => Held(a.pm, p) > 0 /\ a.pm.mem[p] = m.mem[p]
      BY <2>8, <2>11
    <2>16. f[i + 1].pages = s /\ f[i + 1].pm = a.pm
      BY <2>6, <2>12
    <2> QED BY <2>9, <2>10, <2>13, <2>14, <2>15, <2>16
  <1> HIDE DEF T
  <1>5. count \in T
    BY <1>3, <1>4, AllNumbers
  <1>6. Good(count)
    BY <1>5 DEF T
  <1> QED BY <1>1, <1>6

(* release_page() writes the link of the free list into a page that has no    *)
(* reference any more.                                                        *)
LEMMA ReleaseMem ==
    ASSUME NEW m, Typed(m), MemTyped(m), NEW t, NEW p \in DOMAIN m.refs,
           NEW b, b = Release(m, t, p)
    PROVE  /\ MemTyped(b)
           /\ \A q \in DOMAIN m.refs : q # p \/ m.refs[p] # 1 => b.mem[q] = m.mem[q]
  <1>1. m = [refs |-> m.refs, mem |-> m.mem, zero |-> m.zero, free |-> m.free]
    BY DEF Typed
  <1>2. PICK n \in Nat : m.refs \in [0 .. n - 1 -> Nat]
    BY DEF Typed
  <1>3. PICK r : r = [m.refs EXCEPT ![p] = m.refs[p] - 1]
    OBVIOUS
  <1>4. PICK c : c = [m EXCEPT !.refs = r]
    OBVIOUS
  <1>5. c = [m EXCEPT !.refs[p] = m.refs[p] - 1]
    BY <1>3, <1>4
  <1>6. /\ c.refs = r /\ c.mem = m.mem
        /\ c = [refs |-> r, mem |-> m.mem, zero |-> m.zero, free |-> m.free]
    BY <1>1, <1>4
  <1>7. DOMAIN r = DOMAIN m.refs
    BY <1>3
  <1>8. CASE m.refs[p] - 1 = 0 /\ m.refs[p] - 1 # m.zero
    <2>1. b = [c EXCEPT !.mem[p][0] = Link, !.free[t] = <<p>> \o @]
      BY <1>5, <1>8 DEF Release
    <2>2. PICK e : e = [m.mem EXCEPT ![p] = [m.mem[p] EXCEPT ![0] = Link]]
      OBVIOUS
    <2>3. PICK g : g = [m.free EXCEPT ![t] = <<p>> \o m.free[t]]
      OBVIOUS
    <2>4. b = [c EXCEPT !.mem = e, !.free = g]
      BY <2>1, <2>2, <2>3, <1>6
    <2>5. b.mem = e /\ b.refs = r
      BY <2>4, <1>6
    <2>6. DOMAIN e = DOMAIN m.mem /\ \A q \in DOMAIN m.mem : DOMAIN e[q] = DOMAIN m.mem[q]
      BY <2>2
    <2>7. \A q \in DOMAIN m.mem : q # p => e[q] = m.mem[q]
      BY <2>2
    <2>8. m.refs[p] = 1
      BY <1>2, <1>8
    <2> QED BY <2>5, <2>6, <2>7, <2>8, <1>7 DEF MemTyped
  <1>9. CASE ~ (m.refs[p] - 1 = 0 /\ m.refs[p] - 1 # m.zero)
    <2>1. b = c
      BY <1>5, <1>9 DEF Release
    <2> QED BY <2>1, <1>6, <1>7 DEF MemTyped
  <1> QED BY <1>8, <1>9

LEMMA ReleasePagesMem ==
    ASSUME NEW m, Sound(m), MemTyped(m), NEW s \in Seq(Nat),
           \A p \in Nat : Times(s, Len(s), p) <= Held(m, p), NEW b, b = ReleasePages(m, s)
    PROVE  /\ MemTyped(b)
           /\ \A p \in Nat : Held(b, p) > 0 => b.mem[p] = m.mem[p]
  <1>1. PICK f : /\ f[0] = m /\ f[Len(s)] = ReleasePages(m, s)
                 /\ \A i \in 0 .. Len(s) : i # 0 => f[i] = Release(f[i - 1], 0, s[i])
                 /\ \A i \in 0 .. Len(s) :
                       /\ Sound(f[i]) /\ f[i].zero = m.zero /\ DOMAIN f[i].refs = DOMAIN m.refs
                       /\ \A p \in Nat : Held(f[i], p) = Held(m, p) - Times(s, i, p)
    BY ReleaseLoopKeeps
  <1>2. Len(s) \in Nat /\ \A i \in 1 .. Len(s) : s[i] \in Nat
    OBVIOUS
  <1> DEFINE Good(i) == /\ MemTyped(f[i])
                        /\ \A p \in Nat : Held(f[i], p) > 0 => f[i].mem[p] = m.mem[p]
             T == {i \in Nat : i <= Len(s) => Good(i)}
  <1>3. 0 \in T
    BY <1>1
  <1>4. ASSUME NEW i \in Nat, i \in T PROVE i + 1 \in T
    <2> SUFFICES ASSUME i + 1 <= Len(s) PROVE Good(i + 1)
      OBVIOUS
    <2>1. Good(i)
      BY <1>2, <1>4
    <2>2. PICK c : c = f[i]
      OBVIOUS
    <2>3. PICK d : d = f[i + 1]
      OBVIOUS
    <2>4. PICK q : q = s[i + 1]
      OBVIOUS
    <2>5. i \in 0 .. Len(s) /\ i + 1 \in 0 .. Len(s) /\ i + 1 # 0 /\ (i + 1) - 1 = i /\ q \in Nat
      BY <1>2, <2>4
    <2>6. d = Release(c, 0, q)
      BY <1>1, <2>2, <2>3, <2>4, <2>5
    <2>7. Sound(c) /\ \A p \in Nat : Held(c, p) = Held(m, p) - Times(s, i, p)
      BY <1>1, <2>2, <2>5
    <2>8. Sound(d) /\ \A p \in Nat : Held(d, p) = Held(m, p) - Times(s, i + 1, p)
      BY <1>1, <2>3, <2>5
    <2>9. ASSUME NEW p \in Nat
          PROVE  /\ Held(c, p) \in Nat /\ Held(d, p) \in Nat
                 /\ Held(d, p) = Held(c, p) - IF q = p THEN 1 ELSE 0
      <3>1. Times(s, i + 1, p) = Times(s, i, p) + IF s[i + 1] = p THEN 1 ELSE 0
        BY TimesNext
      <3>2. Times(s, i, p) \in Nat /\ Held(m, p) \in Nat /\ Held(c, p) \in Nat /\ Held(d, p) \in Nat
        BY <2>7, <2>8, HeldType, TimesType
      <3>3. Held(c, p) = Held(m, p) - Times(s, i, p)
        BY <2>7
      <3>4. Held(d, p) = Held(m, p) - Times(s, i + 1, p)
        BY <2>8
      <3> QED BY <3>1, <3>2, <3>3, <3>4, <2>4
    <2>10. q \in DOMAIN c.refs
      <3>1. Held(c, q) \in Nat /\ Held(d, q) \in Nat /\ Held(d, q) = Held(c, q) - 1
        BY <2>5, <2>9
      <3>2. Held(c, q) # 0
        BY <3>1
      <3> QED BY <3>2 DEF Held
    <2>11. Typed(c) /\ MemTyped(c)
      BY <2>1, <2>2, <2>7 DEF Sound
    <2>12. MemTyped(d)
      BY <2>6, <2>10, <2>11, ReleaseMem
    <2>13. \A p \in DOMAIN c.refs : p # q \/ c.refs[q] # 1 => d.mem[p] = c.mem[p]
      BY <2>6, <2>10, <2>11, ReleaseMem
    <2>14. ASSUME NEW p \in Nat, Held(d, p) > 0 PROVE d.mem[p] = m.mem[p]
      <3>1. Held(c, p) > 0
        <4>1. /\ Held(c, p) \in Nat /\ Held(d, p) \in Nat
              /\ Held(d, p) = Held(c, p) - IF q = p THEN 1 ELSE 0
          BY <2>9
        <4> QED BY <4>1, <2>14
      <3>2. p \in DOMAIN c.refs /\ c.mem[p] = m.mem[p]
        BY <3>1, <2>1, <2>2 DEF Held
      <3>3. CASE p # q
        BY <3>2, <3>3, <2>13
      <3>4. CASE p = q
        <4>1. Held(c, q) # 1
          BY <3>4, <2>9, <2>14
        <4>2. c.refs[q] # 1
          BY <4>1, <2>10 DEF Held
        <4> QED BY <4>2, <3>2, <2>13
      <3> QED BY <3>3, <3>4
    <2> QED BY <2>3, <2>12, <2>14
  <1> HIDE DEF T
  <1>5. Len(s) \in T
    BY <1>2, <1>3, <1>4, AllNumbers
  <1>6. Good(Len(s))
    BY <1>2, <1>5 DEF T
  <1> QED BY <1>1, <1>6

----------------------------------------------------------------------------
(* The inductive invariant behind the refinement of VersionedArray, for       *)
(* callers whose threads write to pages of their own.                         *)
PagesApart ==
    \A t, u \in Threads : t # u => \A m \in Share[t], n \in Share[u] : Slot(m) # Slot(n)

(* The page a reader of a slot should see: while the page of the slot is      *)
(* copied, the one that it is copied from.                                    *)
View(l, i) == IF Copies /\ pc[lock] = "copy" /\ l = newest /\ i = CopySlot
              THEN page[lock] ELSE ptr[table[l]][i]
Content(l, i) == pm.mem[View(l, i)]

(* The page that a thread writes: no other slot of any level shows it once    *)
(* the thread has found a count of 1, or has a copy.                          *)
Own(t)   == ptr[Tab][Slot(node[t])]
Alone(t) == \A l \in live : \A i \in SlotsOf(l) :
                View(l, i) = Own(t) => l = newest /\ i = Slot(node[t])

(* What a thread has read is still so, and its value is one more than the     *)
(* value of its node, whoever else adds, unless it read that in a table that  *)
(* was being filled.                                                          *)
Local(t) ==
    /\ pc[t] # "idle" => node[t] \in Share[t] /\ node[t] < size[newest] * PageLength
    /\ pc[t] \in {"readId", "test", "allocate", "write"} => page[t] = Own(t)
    /\ pc[t] = "test" => pageId[t] = ids[Tab][Slot(node[t])]
    /\ pc[t] = "copy" => page[t] = pageId[t]
    /\ t \in torn => pc[t] \notin {"idle", "get"}
    /\ pc[t] \notin {"idle", "get"} /\ t \notin torn =>
          value[t] = Content(newest, Slot(node[t]))[node[t] % PageLength] + 1
    /\ pc[t] \in Copying \cup {"write"} => Alone(t)

ZeroClean == ~ closing /\ pm.zero # None => pm.mem[pm.zero] = Zeros

ValueInv == /\ MemTyped(pm) /\ ZeroClean
            /\ DOMAIN value = Threads /\ DOMAIN page = Threads /\ torn \subseteq Threads
            /\ \A t \in Threads : Local(t)

(* The places of a node, and back.                                            *)
Nodes(l) == 0 .. size[l] * PageLength - 1

LEMMA PlaceIn == ASSUME NEW n \in Nat PROVE n % PageLength \in Entry
  BY CowAssumption DEF Entry

LEMMA NodeSlot ==
    ASSUME NEW n \in Nat, NEW k \in Nat
    PROVE  Slot(n) \in Nat \ {0} /\ (Slot(n) <= k <=> n < k * PageLength)
  <1>1. PageLength \in Nat \ {0}
    BY CowAssumption
  <1>2. PICK q : q = n \div PageLength
    OBVIOUS
  <1>3. q \in Nat /\ q * PageLength <= n /\ n < q * PageLength + PageLength
    BY <1>1, <1>2
  <1>4. ASSUME q + 1 <= k PROVE n < k * PageLength
    <2>1. (q + 1) * PageLength <= k * PageLength
      BY <1>1, <1>3, <1>4
    <2>2. (q + 1) * PageLength = q * PageLength + PageLength
      BY <1>1, <1>3
    <2> QED BY <2>1, <2>2, <1>1, <1>3
  <1>5. ASSUME n < k * PageLength PROVE q + 1 <= k
    <2>1. Slot(n) \in 1 .. k
      BY <1>5, SlotIn
    <2> QED BY <2>1, <1>2 DEF Slot
  <1> QED BY <1>2, <1>3, <1>4, <1>5 DEF Slot

LEMMA SameNode ==
    ASSUME NEW m \in Nat, NEW n \in Nat, Slot(m) = Slot(n), m % PageLength = n % PageLength
    PROVE  m = n
  <1>1. PageLength \in Nat \ {0}
    BY CowAssumption
  <1>2. PICK q : q = m \div PageLength
    OBVIOUS
  <1>3. PICK p : p = n \div PageLength
    OBVIOUS
  <1>4. PICK r : r = m % PageLength
    OBVIOUS
  <1>5. q \in Int /\ m = (q * PageLength) + r
    BY <1>1, <1>2, <1>4
  <1>6. p \in Int /\ n = (p * PageLength) + r
    BY <1>1, <1>3, <1>4
  <1>7. q = p
    BY <1>2, <1>3, <1>5, <1>6 DEF Slot
  <1> QED BY <1>5, <1>6, <1>7

(* The versions of the levels are what the views show.                        *)
VersionsAreViews ==
    \A l : Version(l) = [n \in Nodes(l) |-> Content(l, Slot(n))[n % PageLength]]

LEMMA ViewsShown == LockHeld => VersionsAreViews
  <1> SUFFICES ASSUME LockHeld, NEW l, NEW n PROVE PageOf(l, n) = View(l, Slot(n))
    BY Zenon DEF VersionsAreViews, Version, Nodes, Content
  <1>1. PICK c : c = {t \in Threads : pc[t] = "copy" /\ Slot(node[t]) = Slot(n)}
    OBVIOUS
  <1>2. PageOf(l, n) = IF l = newest /\ c # {} THEN page[CHOOSE t \in c : TRUE]
                       ELSE ptr[table[l]][Slot(n)]
    BY <1>1 DEF PageOf
  <1>3. ASSUME NEW t \in c PROVE lock = t /\ Copies /\ pc[lock] = "copy" /\ Slot(n) = CopySlot
    <2>1. t \in Threads /\ pc[t] = "copy" /\ Slot(node[t]) = Slot(n)
      BY <1>1
    <2>2. lock = t
      BY <2>1 DEF LockHeld, Holding
    <2>3. lock # None
      BY <2>1, <2>2, CowAssumption DEF Threads, None
    <2> QED BY <2>1, <2>2, <2>3 DEF Copies, Copying, CopySlot
  <1>4. CASE c = {}
    <2>1. ~ (Copies /\ pc[lock] = "copy" /\ Slot(n) = CopySlot)
      <3> SUFFICES ASSUME Copies, pc[lock] = "copy", Slot(n) = CopySlot PROVE FALSE
        OBVIOUS
      <3>1. lock \in Threads
        BY DEF Copies, LockHeld
      <3>2. lock \in c
        BY <3>1, <1>1 DEF CopySlot
      <3> QED BY <3>2, <1>4
    <2> QED BY <2>1, <1>2, <1>4 DEF View
  <1>5. CASE c # {}
    <2>1. PICK u \in c : u = CHOOSE t \in c : TRUE
      BY <1>5
    <2>2. lock = u /\ Copies /\ pc[lock] = "copy" /\ Slot(n) = CopySlot
      BY <2>1, <1>3
    <2> QED BY <2>1, <2>2, <1>2, <1>5 DEF View
  <1> QED BY <1>4, <1>5

LEMMA ViewsShownNext == CountInv' => VersionsAreViews'
  <1>1. CountInv => VersionsAreViews
    BY ViewsShown DEF CountInv
  <1> QED BY <1>1, PTL

(* The pages that a level shows are in use.                                   *)
AllUsed ==
    \A l \in live : \A i \in SlotsOf(l) :
        ptr[table[l]][i] \in DOMAIN pm.refs /\ Held(pm, ptr[table[l]][i]) > 0

LEMMA ShownInUse == RowInv /\ CountInv => AllUsed
  BY ShownRefs DEF AllUsed, Held

LEMMA ShownInUseNext == RowInv' /\ CountInv' => AllUsed'
  <1>1. RowInv /\ CountInv => AllUsed
    BY ShownInUse
  <1> QED BY <1>1, PTL

(* The levels and their values are as they were.                              *)
VersionsKept == [l \in live' |-> Version(l)'] = [l \in live |-> Version(l)] /\ newest' = newest

LEMMA TornStays ==
    ASSUME VersionsKept, torn' = torn, \A t \in torn : node'[t] = node[t]
    PROVE  UNCHANGED VA!vars
  <1>1. {node'[t] : t \in torn'} = {node[t] : t \in torn}
    OBVIOUS
  <1> QED BY <1>1 DEF VersionsKept, VA!vars

(* A step that changes no page in view shows the versions as they were.       *)
LEMMA StillMaps ==
    ASSUME CountInv, CountInv', newest' = newest, live' = live, size' = size,
           \A l \in live : \A i \in 1 .. size[l] : Content(l, i)' = Content(l, i)
    PROVE  VersionsKept
  <1>1. VersionsAreViews /\ VersionsAreViews'
    BY ViewsShown, ViewsShownNext DEF CountInv
  <1>2. ASSUME NEW l \in live PROVE Version(l)' = Version(l)
    <2>1. Version(l) = [n \in Nodes(l) |-> Content(l, Slot(n))[n % PageLength]]
      BY <1>1 DEF VersionsAreViews
    <2>2. Version(l)' = [n \in Nodes(l)' |-> Content(l, Slot(n))'[n % PageLength]]
      BY <1>1 DEF VersionsAreViews, Slot
    <2>3. Nodes(l)' = Nodes(l)
      BY DEF Nodes
    <2>4. ASSUME NEW n \in Nodes(l) PROVE Content(l, Slot(n))' = Content(l, Slot(n))
      <3>1. size[l] \in Nat
        BY DEF CountInv, TablesTyped
      <3>2. n \in Nat /\ n < size[l] * PageLength
        BY <3>1, CowAssumption DEF Nodes
      <3>3. Slot(n) \in 1 .. size[l]
        BY <3>1, <3>2, SlotIn
      <3> QED BY <3>3
    <2> QED BY <2>1, <2>2, <2>3, <2>4
  <1>3. [l \in live' |-> Version(l)'] = [l \in live |-> Version(l)]
    BY <1>2
  <1> QED BY <1>3 DEF VersionsKept

----------------------------------------------------------------------------
(* Levels come and go: no thread adds, so that the views are the tables.      *)
LEMMA QuietViews ==
    ASSUME LockHeld, Quiet PROVE \A l, i : View(l, i) = ptr[table[l]][i]
  BY QuietIs DEF View

LEMMA QuietViewsNext ==
    ASSUME LockHeld, Quiet, UNCHANGED <<lock, pc>>
    PROVE  \A l, i : View(l, i)' = ptr'[table'[l]][i]
  BY QuietIs DEF View, Copies

(* Nothing is to be kept for a thread that does not add.                      *)
LEMMA QuietLocals ==
    ASSUME \A t \in Threads : pc'[t] = "idle", torn' = {}
    PROVE  \A t \in Threads : Local(t)'
  BY DEF Local, Copying

LEMMA QuietWhole == ASSUME ValueInv, Quiet PROVE torn = {}
  BY DEF ValueInv, Local, Quiet

(* A new level that shows the values of the one before, and zeros behind.     *)
LEMMA LevelAdded ==
    ASSUME RowInv, CountInv, ValueInv, CountInv', Quiet, ~ closing,
           NEW k \in Nat \ {0}, NEW tbl, AddLevel(newest + 1, k, tbl),
           \A l \in live : ptr'[table[l]] = ptr[table[l]],
           UNCHANGED <<lock, threadVars, addVars>>, MemTyped(pm'),
           \A p \in Nat : Held(pm, p) > 0 => pm'.mem[p] = pm.mem[p],
           pm'.zero # None => pm'.mem[pm'.zero] = Zeros,
           \A n \in 0 .. k * PageLength - 1 : pm'.mem[ptr'[tbl][Slot(n)]][n % PageLength] =
              IF newest \in live /\ n \in Nodes(newest)
              THEN pm.mem[ptr[table[newest]][Slot(n)]][n % PageLength] ELSE 0
    PROVE  ValueInv' /\ VA!NewVersion
  <1>1. /\ newest \in Int /\ newest >= -1 /\ live \subseteq 0 .. newest
    BY DEF RowInv, LevelsInRow
  <1>2. DOMAIN table = 0 .. newest
    BY DEF RowInv, TablesInRow
  <1>3. Sound(pm) /\ LockHeld /\ TablesTyped
    BY DEF CountInv
  <1>4. PICK l : l = newest + 1
    OBVIOUS
  <1>5. /\ newest' = l /\ live' = live \cup {l} /\ size' = With(size, l, k)
        /\ table' = With(table, l, tbl)
    BY <1>4 DEF AddLevel
  <1>6. /\ lock' = lock /\ pc' = pc /\ value' = value /\ page' = page /\ closing' = closing
        /\ torn = {} /\ torn' = {}
    BY QuietWhole DEF threadVars, addVars
  <1>7. l \notin live /\ \A x \in live : x \in 0 .. newest /\ x # l
    BY <1>1, <1>4
  <1>8. DOMAIN size = 0 .. newest
    BY <1>3 DEF TablesTyped
  <1>9. /\ size'[l] = k /\ table'[l] = tbl
        /\ \A x \in live : size'[x] = size[x] /\ table'[x] = table[x]
    BY <1>2, <1>5, <1>7, <1>8 DEF With
  <1>10. VersionsAreViews /\ VersionsAreViews'
    BY <1>3, ViewsShown, ViewsShownNext
  <1>11. /\ \A x, i : View(x, i) = ptr[table[x]][i]
         /\ \A x, i : View(x, i)' = ptr'[table'[x]][i]
    BY <1>3, <1>6, QuietViews, QuietViewsNext
  <1>12. ASSUME NEW x \in live PROVE Version(x)' = Version(x)
    <2>1. Version(x) = [n \in Nodes(x) |-> Content(x, Slot(n))[n % PageLength]]
      BY <1>10 DEF VersionsAreViews
    <2>2. Version(x)' = [n \in Nodes(x)' |-> Content(x, Slot(n))'[n % PageLength]]
      BY <1>10 DEF VersionsAreViews, Slot
    <2>3. Nodes(x)' = Nodes(x)
      BY <1>9 DEF Nodes
    <2>4. ASSUME NEW n \in Nodes(x) PROVE Content(x, Slot(n))' = Content(x, Slot(n))
      <3>1. size[x] \in Nat
        BY <1>3 DEF TablesTyped
      <3>2. n \in Nat /\ n < size[x] * PageLength
        BY <3>1, CowAssumption DEF Nodes
      <3>3. Slot(n) \in 1 .. size[x]
        BY <3>1, <3>2, SlotIn
      <3>4. Slot(n) \in SlotsOf(x)
        BY <3>1, <3>3 DEF SlotsOf
      <3>5. PICK p : p = ptr[table[x]][Slot(n)]
        OBVIOUS
      <3>6. p \in DOMAIN pm.refs /\ Held(pm, p) > 0
        BY <3>4, <3>5, ShownInUse DEF AllUsed
      <3>7. p \in Nat
        BY <3>6, <1>3, PagesNumbers
      <3>8. pm'.mem[p] = pm.mem[p]
        BY <3>6, <3>7
      <3>9. ptr'[table'[x]][Slot(n)] = p
        BY <3>5, <1>9
      <3>10. View(x, Slot(n)) = p /\ View(x, Slot(n))' = p
        <4>1. View(x, Slot(n))' = ptr'[table'[x]][Slot(n)]
          BY <1>11 DEF Slot
        <4> QED BY <4>1, <3>5, <3>9, <1>11
      <3> QED BY <3>8, <3>10 DEF Content
    <2> QED BY <2>1, <2>2, <2>3, <2>4
  <1>13. PICK a : a = Version(l)'
    OBVIOUS
  <1>14. /\ DOMAIN a = 0 .. k * PageLength - 1
         /\ \A n \in DOMAIN a : a[n] = pm'.mem[ptr'[tbl][Slot(n)]][n % PageLength]
    <2>1. a = [n \in Nodes(l)' |-> Content(l, Slot(n))'[n % PageLength]]
      BY <1>10, <1>13 DEF VersionsAreViews, Slot
    <2>2. Nodes(l)' = 0 .. k * PageLength - 1
      BY <1>9 DEF Nodes
    <2>3. \A n : Content(l, Slot(n))' = pm'.mem[ptr'[tbl][Slot(n)]]
      BY <1>9, <1>11 DEF Content, Slot
    <2> QED BY <2>1, <2>2, <2>3
  <1>15. newest \in live => /\ DOMAIN Version(newest) = Nodes(newest)
                            /\ \A n \in Nodes(newest) : Version(newest)[n] =
                                  pm.mem[ptr[table[newest]][Slot(n)]][n % PageLength]
    BY <1>10, <1>11 DEF VersionsAreViews, Content
  <1>16. \A n \in DOMAIN a : a[n] = IF newest \in live /\ n \in DOMAIN Version(newest)
                                    THEN Version(newest)[n] ELSE 0
    BY <1>14, <1>15
  <1>17. PICK V : V = [x \in live |-> Version(x)]
    OBVIOUS
  <1>18. PICK W : W = [x \in live' |-> Version(x)']
    OBVIOUS
  <1>19. /\ DOMAIN V = live /\ W[newest'] = a
         /\ W = [x \in DOMAIN V \cup {newest'} |-> IF x = newest' THEN a ELSE V[x]]
         /\ \A n \in DOMAIN a : a[n] = IF newest \in DOMAIN V /\ n \in DOMAIN V[newest]
                                       THEN V[newest][n] ELSE 0
    BY <1>5, <1>7, <1>12, <1>13, <1>16, <1>17, <1>18
  <1>20. VA!NewVersion
    <2>1. {node'[t] : t \in torn'} = {node[t] : t \in torn}
      BY <1>6
    <2> QED BY <2>1, <1>4, <1>5, <1>17, <1>18, <1>19 DEF VA!NewVersion
  <1>21. ValueInv'
    <2>1. \A t \in Threads : Local(t)'
      BY <1>6, QuietLocals DEF Quiet
    <2>2. ZeroClean'
      BY DEF ZeroClean
    <2> QED BY <2>1, <2>2, <1>6 DEF ValueInv
  <1> QED BY <1>20, <1>21

LEMMA DenseMaps ==
    ASSUME RowInv, CountInv, ValueInv, CountInv', NEW k \in Sizes, DenseInit(k)
    PROVE  ValueInv' /\ VA!NewVersion
  <1>1. k \in Nat \ {0} /\ k + 1 \in Nat
    BY CowAssumption
  <1>2. PICK r : r = AllocateRange(pm, k + 1)
    OBVIOUS
  <1>3. /\ Quiet /\ ~ closing /\ live = {}
        /\ AddLevel(newest + 1, k, newest + 1) /\ OwnTable(newest + 1, r.pages)
        /\ pm' = r.pm /\ UNCHANGED <<lock, threadVars, addVars>>
    BY <1>2 DEF DenseInit
  <1>4. Sound(pm) /\ MemTyped(pm)
    BY DEF CountInv, ValueInv
  <1>5. MemTyped(r.pm) /\ \A j \in 1 .. k + 1 : r.pm.mem[r.pages[j]] = Zeros
    BY <1>1, <1>2, <1>4, AllocateRangeMem
  <1>6. \A p \in Nat : Held(pm, p) > 0 => r.pm.mem[p] = pm.mem[p]
    BY <1>1, <1>2, <1>4, AllocateRangeMem
  <1>7. r.pm.zero = None
    <2>1. pm.zero = None
      BY <1>3 DEF CountInv, TablesTyped
    <2>2. PICK c : c = k + 1
      OBVIOUS
    <2>3. c \in Nat /\ r = AllocateRange(pm, c)
      BY <2>2, <1>1, <1>2
    <2>4. r.pm.zero = pm.zero
      BY <2>3, <1>4, AllocateRangeKeeps
    <2> QED BY <2>1, <2>4
  <1>8. PICK tbl : tbl = newest + 1
    OBVIOUS
  <1>9. ptr'[tbl] = r.pages
    BY <1>3, <1>8 DEF OwnTable, With
  <1>10. ASSUME NEW n \in 0 .. k * PageLength - 1
         PROVE  pm'.mem[ptr'[tbl][Slot(n)]][n % PageLength] = 0
    <2>1. n \in Nat /\ n < k * PageLength
      BY <1>1, CowAssumption
    <2>2. Slot(n) \in 1 .. k
      BY <2>1, <1>1, SlotIn
    <2>3. Slot(n) \in 1 .. k + 1
      BY <2>2, <1>1
    <2>4. pm'.mem[ptr'[tbl][Slot(n)]] = Zeros
      BY <2>3, <1>3, <1>5, <1>9
    <2>5. n % PageLength \in Entry
      BY <2>1, PlaceIn
    <2> QED BY <2>4, <2>5 DEF Zeros
  <1>11. newest \notin live /\ \A l \in live : ptr'[table[l]] = ptr[table[l]]
    BY <1>3
  <1>12. AddLevel(newest + 1, k, tbl) /\ MemTyped(pm')
    BY <1>3, <1>5, <1>8
  <1>13. (\A p \in Nat : Held(pm, p) > 0 => pm'.mem[p] = pm.mem[p]) /\ pm'.zero = None
    BY <1>3, <1>6, <1>7
  <1>14. Quiet /\ ~ closing /\ UNCHANGED <<lock, threadVars, addVars>>
    BY <1>3
  <1> QED BY <1>1, <1>10, <1>11, <1>12, <1>13, <1>14, LevelAdded

LEMMA SharedMaps ==
    ASSUME RowInv, CountInv, ValueInv, CountInv', NEW k \in Sizes, CowInitShared(k)
    PROVE  ValueInv' /\ VA!NewVersion
  <1>1. k \in Nat \ {0} /\ k + 1 \in Nat
    BY CowAssumption
  <1>2. PICK tbl : tbl = table[newest]
    OBVIOUS
  <1>3. PICK s : s = SubSeq(ids[tbl], 1, k + 1)
    OBVIOUS
  <1>4. /\ Quiet /\ ~ closing /\ live # {} /\ k = size[newest]
        /\ AddLevel(newest + 1, k, tbl) /\ pm' = Acquire(pm, s) /\ UNCHANGED tableVars
        /\ UNCHANGED <<lock, threadVars, addVars>>
    BY <1>2, <1>3 DEF CowInitShared
  <1>5. Typed(pm) /\ MemTyped(pm)
    BY DEF CountInv, Sound, ValueInv
  <1>6. MemTyped(pm') /\ pm'.mem = pm.mem
    BY <1>4, <1>5, AcquireMem
  <1>7. pm'.zero = pm.zero
    <2>1. pm = [refs |-> pm.refs, mem |-> pm.mem, zero |-> pm.zero, free |-> pm.free]
      BY <1>5 DEF Typed
    <2>2. PICK r : r = [p \in DOMAIN pm.refs |->
                           pm.refs[p] + Cardinality({i \in DOMAIN s : s[i] = p})]
      OBVIOUS
    <2>3. pm' = [pm EXCEPT !.refs = r]
      BY <2>2, <1>4 DEF Acquire
    <2> QED BY <2>1, <2>3
  <1>8. newest \in live /\ ptr' = ptr
    BY <1>4, NewestIs DEF tableVars
  <1>9. \A n \in 0 .. k * PageLength - 1 : n \in Nodes(newest)
    BY <1>4 DEF Nodes
  <1>10. pm'.zero # None => pm'.mem[pm'.zero] = Zeros
    BY <1>4, <1>6, <1>7 DEF ValueInv, ZeroClean
  <1>11. \A n \in 0 .. k * PageLength - 1 : pm'.mem[ptr'[tbl][Slot(n)]][n % PageLength] =
              IF newest \in live /\ n \in Nodes(newest)
              THEN pm.mem[ptr[table[newest]][Slot(n)]][n % PageLength] ELSE 0
    BY <1>2, <1>6, <1>8, <1>9
  <1>12. /\ \A l \in live : ptr'[table[l]] = ptr[table[l]]
         /\ \A p \in Nat : Held(pm, p) > 0 => pm'.mem[p] = pm.mem[p]
    BY <1>6, <1>8
  <1>13. AddLevel(newest + 1, k, tbl) /\ MemTyped(pm')
    BY <1>4, <1>6
  <1>14. Quiet /\ ~ closing /\ UNCHANGED <<lock, threadVars, addVars>>
    BY <1>4
  <1> QED BY <1>1, <1>10, <1>11, <1>12, <1>13, <1>14, LevelAdded

LEMMA LargerMaps ==
    ASSUME RowInv, CountInv, ValueInv, CountInv', NEW k \in Sizes, CowInitLarger(k)
    PROVE  ValueInv' /\ VA!NewVersion
  <1>1. k \in Nat \ {0} /\ k + 1 \in Nat
    BY CowAssumption
  <1>2. PICK a, o, old, m, z, s : Larger(k, a, o, old, m, z, s)
    BY LargerTakes
  <1>3. /\ a = size[newest] /\ o = ids[table[newest]] /\ m = Acquire(pm, old)
        /\ z = ZeroPage(m, k + 1 - a)
        /\ s = [i \in 1 .. k + 1 |-> IF i <= a THEN old[i] ELSE z.page]
        /\ Quiet /\ ~ closing /\ live # {} /\ k > a
        /\ AddLevel(newest + 1, k, newest + 1) /\ OwnTable(newest + 1, s)
        /\ pm' = z.pm /\ UNCHANGED <<lock, threadVars, addVars>>
    BY <1>2 DEF Larger
  <1>4. /\ newest \in Nat /\ newest \in live /\ a \in Nat \ {0} /\ a + 1 \in Nat
        /\ SlotsOf(newest) = 1 .. a + 1
        /\ old \in [1 .. a -> DOMAIN pm.refs] /\ \A i \in 1 .. a : old[i] = o[i]
        /\ \A i \in 1 .. a + 1 : Held(pm, o[i]) > 0
        /\ pm.zero # None => o[a + 1] = pm.zero
        /\ k + 1 - a \in Nat \ {0}
    BY <1>2 DEF Larger
  <1>5. /\ Sound(m) /\ m.zero = pm.zero /\ DOMAIN m.refs = DOMAIN pm.refs
        /\ \A p \in Nat : Held(m, p) = Held(pm, p) + Times(old, a, p)
        /\ m.zero # None => Held(m, m.zero) > 0
    BY <1>2 DEF Larger
  <1>6. Sound(pm) /\ Typed(pm) /\ MemTyped(pm)
    BY DEF CountInv, Sound, ValueInv
  <1>7. MemTyped(m) /\ m.mem = pm.mem
    BY <1>3, <1>6, AcquireMem
  <1>8. m.zero # None => m.mem[m.zero] = Zeros
    BY <1>3, <1>5, <1>7 DEF ValueInv, ZeroClean
  <1>9. PICK c : c = k + 1 - a
    OBVIOUS
  <1>10. /\ MemTyped(z.pm) /\ z.pm.mem[z.page] = Zeros
         /\ \A p \in Nat : Held(m, p) > 0 => z.pm.mem[p] = m.mem[p]
    <2>1. c \in Nat \ {0} /\ z = ZeroPage(m, c)
      BY <1>3, <1>4, <1>9
    <2> QED BY <2>1, <1>5, <1>7, <1>8, ZeroPageMem
  <1>11. z.pm.zero = z.page
    <2>1. c \in Nat \ {0} /\ z = ZeroPage(m, c)
      BY <1>3, <1>4, <1>9
    <2> QED BY <2>1, <1>5, ZeroPageKeeps
  <1>12. ASSUME NEW p \in Nat, Held(pm, p) > 0 PROVE pm'.mem[p] = pm.mem[p]
    <2>1. Held(pm, p) \in Nat /\ Times(old, a, p) \in Nat
      BY <1>4, <1>6, HeldType, TimesType
    <2>2. Held(m, p) = Held(pm, p) + Times(old, a, p)
      BY <1>5
    <2>3. Held(m, p) > 0
      BY <2>1, <2>2, <1>12
    <2> QED BY <2>3, <1>3, <1>7, <1>10
  <1>13. PICK tbl : tbl = newest + 1
    OBVIOUS
  <1>14. ptr' = With(ptr, tbl, s) /\ ptr'[tbl] = s
    BY <1>3, <1>13 DEF OwnTable, With
  <1>15. ASSUME NEW l \in live PROVE ptr'[table[l]] = ptr[table[l]]
    <2>1. l \in 0 .. newest /\ table[l] \in 0 .. l
      BY DEF RowInv, LevelsInRow, TablesInRow
    <2>2. table[l] # tbl
      BY <2>1, <1>4, <1>13
    <2>3. table[l] \in DOMAIN ptr
      BY DEF CountInv, TablesTyped
    <2> QED BY <2>2, <2>3, <1>14 DEF With
  <1>16. ASSUME NEW n \in 0 .. k * PageLength - 1
         PROVE  pm'.mem[ptr'[tbl][Slot(n)]][n % PageLength] =
                   IF newest \in live /\ n \in Nodes(newest)
                   THEN pm.mem[ptr[table[newest]][Slot(n)]][n % PageLength] ELSE 0
    <2>1. n \in Nat /\ n < k * PageLength /\ a * PageLength \in Nat
      BY <1>1, <1>4, CowAssumption
    <2>2. Slot(n) \in 1 .. k /\ Slot(n) \in 1 .. k + 1
      <3>1. Slot(n) \in 1 .. k
        BY <2>1, <1>1, SlotIn
      <3> QED BY <3>1, <1>1
    <2>3. n \in Nodes(newest) <=> n < a * PageLength
      BY <2>1, <1>3 DEF Nodes
    <2>4. Slot(n) <= a <=> n < a * PageLength
      BY <2>1, <1>4, NodeSlot
    <2>5. ptr'[tbl][Slot(n)] = IF Slot(n) <= a THEN old[Slot(n)] ELSE z.page
      BY <2>2, <1>3, <1>14
    <2>6. CASE Slot(n) <= a
      <3>1. Slot(n) \in 1 .. a /\ Slot(n) \in SlotsOf(newest) /\ Slot(n) \in 1 .. a + 1
        BY <2>2, <2>6, <1>1, <1>4
      <3>2. ~ Copies
        BY <1>3, QuietIs DEF CountInv
      <3>3. ptr[table[newest]][Slot(n)] = ids[table[newest]][Slot(n)]
        BY <3>1, <3>2, <1>4 DEF CountInv, SlotsAgree
      <3>4. PICK p : p = ptr[table[newest]][Slot(n)]
        OBVIOUS
      <3>5. p \in DOMAIN pm.refs /\ Held(pm, p) > 0
        BY <3>1, <3>4, <1>4, ShownInUse DEF AllUsed
      <3>6. p \in Nat
        BY <3>5, <1>6, PagesNumbers
      <3>7. pm'.mem[p] = pm.mem[p]
        BY <3>5, <3>6, <1>12
      <3>8. ptr'[tbl][Slot(n)] = p
        BY <3>1, <3>3, <3>4, <2>5, <2>6, <1>3, <1>4
      <3> QED BY <3>4, <3>7, <3>8, <2>3, <2>4, <2>6, <1>4
    <2>7. CASE ~ (Slot(n) <= a)
      <3>1. pm'.mem[ptr'[tbl][Slot(n)]] = Zeros
        BY <2>5, <2>7, <1>3, <1>10
      <3>2. n % PageLength \in Entry
        BY <2>1, PlaceIn
      <3>3. n \notin Nodes(newest)
        BY <2>3, <2>4, <2>7
      <3> QED BY <3>1, <3>2, <3>3 DEF Zeros
    <2> QED BY <2>6, <2>7
  <1>17. AddLevel(newest + 1, k, tbl) /\ MemTyped(pm')
    BY <1>3, <1>10, <1>13
  <1>18. pm'.zero # None => pm'.mem[pm'.zero] = Zeros
    BY <1>3, <1>10, <1>11
  <1>19. Quiet /\ ~ closing /\ UNCHANGED <<lock, threadVars, addVars>>
    BY <1>3
  <1> QED BY <1>1, <1>12, <1>15, <1>16, <1>17, <1>18, <1>19, LevelAdded

(* A level that goes leaves the others as they were: release_page() writes    *)
(* into a page that nothing shows any more.                                   *)
LEMMA DeleteMaps ==
    ASSUME RowInv, CountInv, ValueInv, RowInv', CountInv', Quiet, NEW l \in live, Delete(l),
           ~ closing' => ~ closing, torn' = torn
    PROVE  ValueInv' /\ VA!Forget(l)
  <1>1. /\ newest' = newest /\ live' = live \ {l} /\ size' = size /\ table' = table
        /\ ptr' = ptr /\ ids' = ids /\ lock' = lock /\ pc' = pc /\ value' = value /\ page' = page
        /\ torn = {} /\ torn' = {}
    BY QuietWhole DEF Delete, threadVars
  <1>2. PICK s \in Seq(Nat) : /\ pm' = ReleasePages(pm, s)
                              /\ \A p \in Nat : Times(s, Len(s), p) <= Held(pm, p)
    BY DeleteTakes
  <1>3. Sound(pm) /\ Sound(pm') /\ LockHeld /\ TablesTyped /\ TablesTyped' /\ MemTyped(pm)
    BY DEF CountInv, ValueInv
  <1>4. MemTyped(pm') /\ \A p \in Nat : Held(pm', p) > 0 => pm'.mem[p] = pm.mem[p]
    BY <1>2, <1>3, ReleasePagesMem
  <1>5. pm'.zero = pm.zero
    BY <1>2, <1>3, ReleasePagesKeeps
  <1>6. /\ \A x, i : View(x, i) = ptr[table[x]][i]
        /\ \A x, i : View(x, i)' = ptr[table[x]][i]
    BY <1>1, <1>3, QuietViews, QuietViewsNext
  <1>7. ASSUME NEW x \in live', NEW i \in SlotsOf(x)
        PROVE  pm'.mem[ptr[table[x]][i]] = pm.mem[ptr[table[x]][i]]
    <2>1. i \in SlotsOf(x)'
      BY <1>1 DEF SlotsOf
    <2>2. PICK p : p = ptr'[table'[x]][i]
      OBVIOUS
    <2>3. p \in DOMAIN pm'.refs /\ Held(pm', p) > 0
      BY <2>1, <2>2, ShownInUseNext DEF AllUsed
    <2>4. p \in Nat
      BY <2>3, <1>3, PagesNumbers
    <2> QED BY <2>2, <2>3, <2>4, <1>1, <1>4
  <1>8. VersionsAreViews /\ VersionsAreViews'
    BY <1>3, ViewsShown, ViewsShownNext
  <1>9. ASSUME NEW x \in live' PROVE Version(x)' = Version(x)
    <2>1. Version(x) = [n \in Nodes(x) |-> Content(x, Slot(n))[n % PageLength]]
      BY <1>8 DEF VersionsAreViews
    <2>2. Version(x)' = [n \in Nodes(x)' |-> Content(x, Slot(n))'[n % PageLength]]
      BY <1>8 DEF VersionsAreViews, Slot
    <2>3. Nodes(x)' = Nodes(x)
      BY <1>1 DEF Nodes
    <2>4. ASSUME NEW n \in Nodes(x) PROVE Content(x, Slot(n))' = Content(x, Slot(n))
      <3>1. size[x] \in Nat
        BY <1>1, <1>3 DEF TablesTyped
      <3>2. n \in Nat /\ n < size[x] * PageLength
        BY <3>1, CowAssumption DEF Nodes
      <3>3. Slot(n) \in 1 .. size[x]
        BY <3>1, <3>2, SlotIn
      <3>4. Slot(n) \in SlotsOf(x)
        BY <3>1, <3>3 DEF SlotsOf
      <3>5. View(x, Slot(n))' = ptr[table[x]][Slot(n)]
        BY <1>6 DEF Slot
      <3> QED BY <3>4, <3>5, <1>6, <1>7 DEF Content
    <2> QED BY <2>1, <2>2, <2>3, <2>4
  <1>10. VA!Forget(l)
    <2>1. PICK V : V = [x \in live |-> Version(x)]
      OBVIOUS
    <2>2. PICK W : W = [x \in live' |-> Version(x)']
      OBVIOUS
    <2>3. W = [x \in DOMAIN V \ {l} |-> V[x]]
      BY <2>1, <2>2, <1>1, <1>9
    <2>4. {node'[t] : t \in torn'} = {node[t] : t \in torn}
      BY <1>1
    <2> QED BY <2>1, <2>2, <2>3, <2>4, <1>1 DEF VA!Forget
  <1>11. ZeroClean'
    <2> SUFFICES ASSUME ~ closing', pm'.zero # None PROVE pm'.mem[pm'.zero] = Zeros
      BY DEF ZeroClean
    <2>1. pm.mem[pm.zero] = Zeros
      BY <1>5 DEF ValueInv, ZeroClean
    <2>2. newest \in live' /\ ids[table[newest]][size[newest] + 1] = pm.zero
      BY <1>1, <1>3, <1>5 DEF TablesTyped
    <2>3. size[newest] + 1 \in SlotsOf(newest)
      BY <2>2, <1>1, <1>3 DEF TablesTyped, SlotsOf
    <2>4. ~ Copies
      BY <1>3, QuietIs
    <2>5. ptr[table[newest]][size[newest] + 1] = pm.zero
      BY <2>2, <2>3, <2>4, <1>1 DEF CountInv, SlotsAgree
    <2> QED BY <2>1, <2>2, <2>3, <2>5, <1>5, <1>7
  <1>12. ValueInv'
    <2>1. \A t \in Threads : Local(t)'
      BY <1>1, QuietLocals DEF Quiet
    <2>2. DOMAIN value' = Threads /\ DOMAIN page' = Threads
      BY <1>1 DEF ValueInv
    <2> QED BY <2>1, <2>2, <1>1, <1>4, <1>11 DEF ValueInv
  <1> QED BY <1>10, <1>12

----------------------------------------------------------------------------
(* The steps of an addition. Two threads that add have slots of their own.    *)
LEMMA BusyApart ==
    ASSUME PagesApart, ValueInv, NEW t \in Threads, NEW u \in Threads, t # u,
           pc[t] # "idle", pc[u] # "idle"
    PROVE  Slot(node[t]) # Slot(node[u])
  <1>1. node[t] \in Share[t] /\ node[u] \in Share[u]
    BY DEF ValueInv, Local
  <1> QED BY <1>1 DEF PagesApart

LEMMA CopierIs ==
    ASSUME CountInv, Copies
    PROVE  /\ lock \in Threads /\ pc[lock] \in Copying /\ pc[lock] \in Holding
           /\ pc[lock] # "idle" /\ pageId[lock] = ids[Tab][CopySlot]
           /\ Held(pm, pageId[lock]) >= IF pc[lock] = "setId" THEN 1 ELSE 2
  <1>1. lock \in Threads /\ pc[lock] \in Copying
    BY DEF Copies, CountInv, LockHeld
  <1>2. pc[lock] \in Holding
    BY <1>1 DEF Copying, Holding
  <1> QED BY <1>1, <1>2, HolderIs

(* The slot of a thread shows its page, but while it copies that page.        *)
LEMMA ViewOwn ==
    ASSUME PagesApart, CountInv, ValueInv, NEW t \in Threads, pc[t] \notin {"idle", "copy"}
    PROVE  View(newest, Slot(node[t])) = Own(t)
  <1>1. ASSUME Copies, pc[lock] = "copy", Slot(node[t]) = CopySlot PROVE FALSE
    <2>1. lock \in Threads /\ pc[lock] # "idle" /\ lock # t
      BY <1>1, CopierIs
    <2>2. Slot(node[t]) # Slot(node[lock])
      BY <2>1, BusyApart
    <2> QED BY <2>2, <1>1 DEF CopySlot
  <1> QED BY <1>1 DEF View, Own, Tab

(* The slot of another thread is not the one of a copy.                       *)
LEMMA SlotSettled ==
    ASSUME PagesApart, CountInv, ValueInv, NEW t \in Threads, pc[t] # "idle",
           pc[t] \notin Copying
    PROVE  ~ (Copies /\ Slot(node[t]) = CopySlot)
  <1> SUFFICES ASSUME Copies, Slot(node[t]) = CopySlot PROVE FALSE
    OBVIOUS
  <1>1. lock \in Threads /\ pc[lock] # "idle" /\ lock # t
    BY CopierIs
  <1>2. Slot(node[t]) # Slot(node[lock])
    BY <1>1, BusyApart
  <1> QED BY <1>2 DEF CopySlot

(* The zero page is shown behind the newest level.                            *)
LEMMA ZeroShown ==
    ASSUME RowInv, CountInv, ~ closing, pm.zero # None
    PROVE  /\ newest \in live /\ size[newest] \in Nat /\ size[newest] + 1 \in SlotsOf(newest)
           /\ View(newest, size[newest] + 1) = pm.zero
  <1>1. newest \in live /\ ids[table[newest]][size[newest] + 1] = pm.zero
    BY DEF CountInv, TablesTyped
  <1>2. size[newest] \in Nat /\ size[newest] + 1 \in SlotsOf(newest)
    BY <1>1 DEF CountInv, TablesTyped, SlotsOf
  <1>3. ~ (Copies /\ size[newest] + 1 = CopySlot)
    <2> SUFFICES ASSUME Copies PROVE CopySlot \in 1 .. size[newest]
      BY <1>2
    <2>1. lock \in Threads /\ pc[lock] # "idle"
      BY CopierIs
    <2> QED BY <2>1 DEF CountInv, LockHeld, CopySlot
  <1>4. ptr[table[newest]][size[newest] + 1] = ids[table[newest]][size[newest] + 1]
    BY <1>1, <1>2, <1>3 DEF CountInv, SlotsAgree
  <1> QED BY <1>1, <1>2, <1>3, <1>4 DEF View

(* As many elements as are named.                                             *)
LEMMA TwoIn ==
    ASSUME NEW S, IsFiniteSet(S), NEW x \in S, NEW y \in S, x # y
    PROVE  Cardinality(S) \in Nat /\ Cardinality(S) >= 2
  <1>1. IsFiniteSet({x, y}) /\ Cardinality({x, y}) = 2
    <2>1. IsFiniteSet({x}) /\ Cardinality({x}) = 1
      BY FS_Singleton
    <2>2. {x, y} = {x} \cup {y} /\ y \notin {x}
      OBVIOUS
    <2>3. IsFiniteSet({x} \cup {y}) /\ Cardinality({x} \cup {y}) = Cardinality({x}) + 1
      BY <2>1, <2>2, FS_AddElement
    <2> QED BY <2>1, <2>2, <2>3
  <1>2. {x, y} \subseteq S
    OBVIOUS
  <1>3. Cardinality({x, y}) <= Cardinality(S)
    BY <1>2, FS_Subset
  <1> QED BY <1>1, <1>3, FS_CardinalityType

LEMMA ThreeIn ==
    ASSUME NEW S, IsFiniteSet(S), NEW x \in S, NEW y \in S, NEW z \in S, x # y, x # z, y # z
    PROVE  Cardinality(S) >= 3
  <1>1. IsFiniteSet(S \ {z}) /\ x \in S \ {z} /\ y \in S \ {z}
    BY FS_RemoveElement
  <1>2. Cardinality(S \ {z}) \in Nat /\ Cardinality(S \ {z}) >= 2
    BY <1>1, TwoIn
  <1>3. Cardinality(S \ {z}) = Cardinality(S) - 1 /\ Cardinality(S) \in Nat
    BY FS_RemoveElement, FS_CardinalityType
  <1> QED BY <1>2, <1>3

(* A count of 1 says that no other slot shows the page of a thread, even      *)
(* while another thread copies that page for a slot of its own.               *)
LEMMA AloneIs ==
    ASSUME PagesApart, RowInv, CountInv, ValueInv, NEW t \in Threads,
           pc[t] \in {"test", "lock"}, NEW p, p = ids[Tab][Slot(node[t])], pm.refs[p] = 1
    PROVE  Alone(t) /\ Own(t) = p
  <1>1. pc[t] # "idle" /\ pc[t] \notin Copying
    BY DEF Copying
  <1>2. /\ newest \in live /\ Slot(node[t]) \in SlotsOf(newest)
        /\ ids[Tab] \in [SlotsOf(newest) -> DOMAIN pm.refs]
    BY <1>1, BusyIs
  <1>3. p \in DOMAIN pm.refs /\ Sound(pm)
    BY <1>2 DEF CountInv
  <1>4. p \in Nat /\ Held(pm, p) = 1
    BY <1>3, PagesNumbers DEF Held
  <1>5. Own(t) = p
    <2>1. ~ (Copies /\ Slot(node[t]) = CopySlot)
      BY <1>1, SlotSettled
    <2> QED BY <2>1, <1>2 DEF CountInv, SlotsAgree, Own, Tab
  <1>6. IsFiniteSet(Shows(p)) /\ 1 + Dropped(p) = Cardinality(Shows(p)) + Fresh(p)
    BY <1>4 DEF CountInv, Counted
  <1>7. <<newest, Slot(node[t])>> \in Shows(p)
    BY <1>2, ShowsIs DEF Tab
  <1>8. Dropped(p) \in {0, 1} /\ Fresh(p) \in {0, 1} /\ Cardinality(Shows(p)) \in Nat
    BY <1>6, FS_CardinalityType DEF Dropped, Fresh
  <1>9. ASSUME NEW l \in live, NEW i \in SlotsOf(l), View(l, i) = p,
               ~ (l = newest /\ i = Slot(node[t]))
        PROVE  FALSE
    <2>1. CASE Copies /\ l = newest /\ i = CopySlot
      <3>1. /\ lock \in Threads /\ pc[lock] \in Copying /\ pageId[lock] = ids[Tab][CopySlot]
            /\ Held(pm, pageId[lock]) >= IF pc[lock] = "setId" THEN 1 ELSE 2
        BY <2>1, CopierIs
      <3>2. CASE pc[lock] = "copy"
        <4>1. p = page[lock]
          BY <3>2, <2>1, <1>9 DEF View
        <4>2. page[lock] = pageId[lock]
          BY <3>1, <3>2 DEF ValueInv, Local
        <4> QED BY <4>1, <4>2, <3>1, <3>2, <1>4
      <3>3. CASE pc[lock] # "copy"
        <4>1. p = Own(lock)
          BY <3>3, <2>1, <1>9 DEF View, Own, CopySlot, Tab
        <4>2. Alone(lock)
          BY <3>1 DEF ValueInv, Local
        <4>3. View(newest, Slot(node[t])) = p
          BY <1>1, <1>5, ViewOwn DEF Copying
        <4>4. Slot(node[t]) = Slot(node[lock])
          BY <4>1, <4>2, <4>3, <1>2 DEF Alone
        <4> QED BY <4>4, <2>1, <1>9 DEF CopySlot
      <3> QED BY <3>2, <3>3
    <2>2. CASE ~ (Copies /\ l = newest /\ i = CopySlot)
      <3>1. p = ptr[table[l]][i]
        BY <2>2, <1>9 DEF View
      <3>2. p = ids[table[l]][i]
        BY <3>1, <2>2 DEF CountInv, SlotsAgree
      <3>3. <<l, i>> \in Shows(p)
        BY <3>2, ShowsIs
      <3>4. <<l, i>> # <<newest, Slot(node[t])>>
        BY <1>9
      <3>5. Cardinality(Shows(p)) >= 2
        BY <3>3, <3>4, <1>6, <1>7, TwoIn
      <3>6. Dropped(p) = 1 /\ Cardinality(Shows(p)) = 2
        BY <3>5, <1>6, <1>8
      <3>7. Copies /\ p = pageId[lock]
        BY <3>6 DEF Dropped
      <3>8. p = ids[table[newest]][CopySlot] /\ lock \in Threads /\ pc[lock] # "idle"
        BY <3>7, CopierIs DEF Tab
      <3>9. CopySlot \in SlotsOf(newest)
        BY <3>8, BusyIs DEF CopySlot
      <3>10. <<newest, CopySlot>> \in Shows(p)
        BY <3>8, <3>9, <1>2, ShowsIs
      <3>11. <<newest, CopySlot>> # <<l, i>>
        BY <3>7, <2>2
      <3>12. <<newest, CopySlot>> # <<newest, Slot(node[t])>>
        BY <3>7, <1>1, SlotSettled
      <3>13. Cardinality(Shows(p)) >= 3
        BY <3>3, <3>4, <3>10, <3>11, <3>12, <1>6, <1>7, ThreeIn
      <3> QED BY <3>6, <3>13
    <2> QED BY <2>1, <2>2
  <1>10. Alone(t)
    BY <1>5, <1>9 DEF Alone
  <1> QED BY <1>5, <1>10

(* A step of thread t to label b leaves the others' variables alone.          *)
StepOf(t, b) ==
    /\ pc' = [pc EXCEPT ![t] = b]
    /\ newest' = newest /\ live' = live /\ size' = size /\ closing' = closing
    /\ \A u \in Threads : u # t => /\ node'[u] = node[u] /\ value'[u] = value[u]
                                   /\ page'[u] = page[u] /\ pageId'[u] = pageId[u]
    /\ DOMAIN value' = Threads /\ DOMAIN page' = Threads
    /\ torn' \subseteq Threads
    /\ \A u \in Threads : u # t => (u \in torn' <=> u \in torn)

(* What the other threads have read stays so.                                 *)
LEMMA OthersStay ==
    ASSUME RowInv, CountInv, ValueInv, NEW t \in Threads, NEW b, StepOf(t, b),
           NEW u \in Threads, u # t,
           pc[u] # "idle" =>
              /\ ptr'[Tab'][Slot(node[u])] = ptr[Tab][Slot(node[u])]
              /\ ids'[Tab'][Slot(node[u])] = ids[Tab][Slot(node[u])]
              /\ \A i : i = Slot(node[u]) =>
                    Content(newest, i)'[node[u] % PageLength] = Content(newest, i)[node[u] % PageLength]
              /\ \A l \in live : \A i \in SlotsOf(l) : View(l, i)' = Own(u) => View(l, i) = Own(u)
    PROVE  Local(u)'
  <1>1. /\ pc'[u] = pc[u] /\ node'[u] = node[u] /\ value'[u] = value[u] /\ page'[u] = page[u]
        /\ pageId'[u] = pageId[u] /\ newest' = newest /\ live' = live /\ size' = size
        /\ (u \in torn' <=> u \in torn)
    BY DEF StepOf, CountInv, LockHeld
  <1>2. Slot(node[u])' = Slot(node[u])
    BY <1>1 DEF Slot
  <1>3. CASE pc[u] = "idle"
    <2>1. u \notin torn
      BY <1>3 DEF ValueInv, Local
    <2> QED BY <2>1, <1>1, <1>3 DEF Local, Copying
  <1>4. CASE pc[u] # "idle"
    <2>1. Local(u)
      BY DEF ValueInv
    <2>2. Own(u)' = Own(u)
      BY <1>1, <1>2, <1>4 DEF Own, Tab
    <2>3. Alone(u) => Alone(u)'
      <3>1. \A l : SlotsOf(l)' = SlotsOf(l)
        BY <1>1 DEF SlotsOf
      <3> QED BY <3>1, <2>2, <1>1, <1>2, <1>4 DEF Alone
    <2>4. Content(newest, Slot(node[u]))'[node'[u] % PageLength]
          = Content(newest, Slot(node[u]))[node[u] % PageLength]
      <3>1. PICK i : i = Slot(node[u])
        OBVIOUS
      <3>2. Content(newest, i)'[node[u] % PageLength] = Content(newest, i)[node[u] % PageLength]
        BY <3>1, <1>4
      <3>3. Content(newest, Slot(node[u]))' = Content(newest, i)'
        BY <3>1, <1>2 DEF Content, View
      <3> QED BY <3>1, <3>2, <3>3, <1>1
    <2>5. pc[u] # "idle" => node'[u] \in Share[u] /\ node'[u] < size'[newest'] * PageLength
      BY <2>1, <1>1 DEF Local
    <2>6. pc[u] \in {"readId", "test", "allocate", "write"} => page'[u] = Own(u)'
      BY <2>1, <2>2, <1>1 DEF Local
    <2>7. pc[u] = "test" => pageId'[u] = ids'[Tab'][Slot(node[u])']
      BY <2>1, <1>1, <1>2, <1>4 DEF Local
    <2>8. pc[u] = "copy" => page'[u] = pageId'[u]
      BY <2>1, <1>1 DEF Local
    <2>9. pc[u] \notin {"idle", "get"} /\ u \notin torn =>
             value'[u] = Content(newest, Slot(node[u]))'[node'[u] % PageLength] + 1
      BY <2>1, <2>4, <1>1 DEF Local
    <2>10. pc[u] \in Copying \cup {"write"} => Alone(u)'
      BY <2>1, <2>3 DEF Local
    <2>11. u \in torn => pc[u] \notin {"idle", "get"}
      BY <2>1 DEF Local
    <2> QED BY <2>5, <2>6, <2>7, <2>8, <2>9, <2>10, <2>11, <1>1 DEF Local
  <1> QED BY <1>3, <1>4

(* The views stay if the tables show the same pages and no copy of a page     *)
(* begins or ends.                                                            *)
LEMMA ViewsStay ==
    ASSUME CountInv, NEW t \in Threads, NEW b, StepOf(t, b), pc[t] # "copy", b # "copy",
           lock' = lock \/ (lock \in {None, t} /\ lock' \in {None, t}),
           \A l \in live : \A i \in SlotsOf(l) : ptr'[table'[l]][i] = ptr[table[l]][i]
    PROVE  \A l \in live : \A i \in SlotsOf(l) : View(l, i)' = View(l, i)
  <1>1. /\ pc'[t] = b /\ newest' = newest /\ None \notin Threads
        /\ \A u \in Threads : u # t => /\ pc'[u] = pc[u] /\ node'[u] = node[u]
                                       /\ page'[u] = page[u]
    BY CowAssumption DEF StepOf, CountInv, LockHeld, None, Threads
  <1>2. lock \in Threads \cup {None}
    BY DEF CountInv, LockHeld
  <1>3. CASE lock \in {None, t}
    <2>1. ~ (Copies /\ pc[lock] = "copy")
      BY <1>3 DEF Copies
    <2>2. lock' \in {None, t} /\ ~ (Copies' /\ pc'[lock'] = "copy")
      BY <1>1, <1>3 DEF Copies
    <2> QED BY <2>1, <2>2 DEF View
  <1>4. CASE lock \notin {None, t}
    <2>1. /\ lock' = lock /\ pc'[lock] = pc[lock] /\ node'[lock] = node[lock]
          /\ page'[lock] = page[lock]
      BY <1>1, <1>2, <1>4
    <2>2. (Copies' <=> Copies) /\ CopySlot' = CopySlot
      BY <2>1 DEF Copies, CopySlot, Slot
    <2> QED BY <2>1, <2>2, <1>1 DEF View
  <1> QED BY <1>3, <1>4

(* A step that changes no page in view, and only the own slot of its thread,  *)
(* keeps the invariant and shows the versions as they were.                   *)
LEMMA StepKeeps ==
    ASSUME PagesApart, RowInv, CountInv, ValueInv, CountInv',
           NEW t \in Threads, NEW b, StepOf(t, b), MemTyped(pm'), pm'.zero = pm.zero,
           \A l \in live : \A i \in SlotsOf(l) :
              View(l, i)' = View(l, i) /\ pm'.mem[View(l, i)] = pm.mem[View(l, i)],
           \A i \in SlotsOf(newest) : pc[t] = "idle" \/ i # Slot(node[t]) =>
              ptr'[Tab'][i] = ptr[Tab][i] /\ ids'[Tab'][i] = ids[Tab][i],
           Local(t)'
    PROVE  ValueInv' /\ VersionsKept
  <1>1. newest' = newest /\ live' = live /\ size' = size /\ closing' = closing
    BY DEF StepOf
  <1>2. ASSUME NEW l \in live, NEW i \in SlotsOf(l) PROVE Content(l, i)' = Content(l, i)
    BY <1>2 DEF Content
  <1>3. ASSUME NEW u \in Threads, u # t PROVE Local(u)'
    <2>1. ASSUME pc[u] # "idle"
          PROVE  /\ ptr'[Tab'][Slot(node[u])] = ptr[Tab][Slot(node[u])]
                 /\ ids'[Tab'][Slot(node[u])] = ids[Tab][Slot(node[u])]
                 /\ \A i : i = Slot(node[u]) => Content(newest, i)' = Content(newest, i)
      <3>1. Slot(node[u]) \in SlotsOf(newest) /\ newest \in live
        BY <2>1, BusyIs
      <3>2. pc[t] = "idle" \/ Slot(node[u]) # Slot(node[t])
        BY <1>3, <2>1, BusyApart
      <3>3. ASSUME NEW i, i = Slot(node[u]) PROVE Content(newest, i)' = Content(newest, i)
        <4>1. i \in SlotsOf(newest)
          BY <3>1, <3>3
        <4>2. \A l \in live : Content(l, i)' = pm'.mem[View(l, i)']
          BY DEF Content
        <4>3. PICK l \in live : l = newest
          BY <3>1
        <4>4. Content(l, i)' = Content(l, i)
          BY <4>1, <4>3, <1>2
        <4>5. Content(newest, i)' = Content(l, i)'
          BY <4>3, <1>1 DEF Content, View
        <4> QED BY <4>3, <4>4, <4>5
      <3> QED BY <3>1, <3>2, <3>3
    <2> QED BY <1>3, <2>1, OthersStay
  <1>4. ZeroClean'
    <2> SUFFICES ASSUME ~ closing', pm'.zero # None PROVE pm'.mem[pm'.zero] = Zeros
      BY DEF ZeroClean
    <2>1. ~ closing /\ pm.zero # None
      BY <1>1
    <2>2. /\ newest \in live /\ size[newest] + 1 \in SlotsOf(newest)
          /\ View(newest, size[newest] + 1) = pm.zero
      BY <2>1, ZeroShown
    <2>3. pm'.mem[pm.zero] = pm.mem[pm.zero]
      BY <2>2
    <2> QED BY <2>1, <2>3 DEF ValueInv, ZeroClean
  <1>5. ValueInv'
    <2>1. DOMAIN value' = Threads /\ DOMAIN page' = Threads /\ torn' \subseteq Threads
      BY DEF StepOf
    <2> QED BY <2>1, <1>3, <1>4 DEF ValueInv
  <1>6. VersionsKept
    <2>1. \A l \in live : \A i \in 1 .. size[l] : i \in SlotsOf(l)
      BY DEF CountInv, TablesTyped, SlotsOf
    <2> QED BY <2>1, <1>1, <1>2, StillMaps
  <1> QED BY <1>5, <1>6

(* A step that leaves pages, tables and counts alone.                         *)
LEMMA ReaderKeeps ==
    ASSUME PagesApart, RowInv, CountInv, ValueInv, CountInv',
           NEW t \in Threads, NEW b, StepOf(t, b), pc[t] # "copy", b # "copy",
           UNCHANGED <<table, ptr, ids, pm>>,
           lock' = lock \/ (lock \in {None, t} /\ lock' \in {None, t}),
           (\A l \in live : \A i \in SlotsOf(l) : View(l, i)' = View(l, i)) => Local(t)'
    PROVE  ValueInv' /\ VersionsKept
  <1>1. table' = table /\ ptr' = ptr /\ ids' = ids /\ pm' = pm /\ Tab' = Tab
    BY DEF StepOf, Tab
  <1>2. \A l \in live : \A i \in SlotsOf(l) : View(l, i)' = View(l, i)
    BY <1>1, ViewsStay
  <1>3. MemTyped(pm') /\ pm'.zero = pm.zero
    BY <1>1 DEF ValueInv
  <1>4. \A l \in live : \A i \in SlotsOf(l) :
           View(l, i)' = View(l, i) /\ pm'.mem[View(l, i)] = pm.mem[View(l, i)]
    BY <1>1, <1>2
  <1>5. \A i \in SlotsOf(newest) : pc[t] = "idle" \/ i # Slot(node[t]) =>
           ptr'[Tab'][i] = ptr[Tab][i] /\ ids'[Tab'][i] = ids[Tab][i]
    BY <1>1
  <1>6. Local(t)'
    BY <1>2
  <1> QED BY <1>3, <1>4, <1>5, <1>6, StepKeeps

LEMMA BeginMaps ==
    ASSUME PagesApart, RowInv, CountInv, ValueInv, CountInv', NEW t \in Threads, BeginAdd(t)
    PROVE  ValueInv' /\ UNCHANGED VA!vars
  <1>1. PICK b : b = "get"
    OBVIOUS
  <1>2. /\ pc[t] = "idle" /\ pc' = [pc EXCEPT ![t] = b] /\ lock' = lock /\ pc'[t] = b
        /\ UNCHANGED <<table, ptr, ids, pm>> /\ torn' = torn
    BY <1>1 DEF BeginAdd, Goto, levelVars, tableVars, CountInv, LockHeld
  <1>3. PICK n \in Share[t] : n < size[newest] * PageLength /\ node' = [node EXCEPT ![t] = n]
    BY DEF BeginAdd
  <1>4. StepOf(t, b)
    BY <1>1, <1>3 DEF BeginAdd, Goto, levelVars, StepOf, CountInv, LockHeld, ValueInv
  <1>5. node'[t] = n /\ size' = size /\ newest' = newest
    BY <1>3, <1>4 DEF StepOf, CountInv, LockHeld
  <1>6. t \notin torn
    BY <1>2 DEF ValueInv, Local
  <1>7. Local(t)'
    BY <1>1, <1>2, <1>3, <1>5, <1>6 DEF Local, Copying
  <1>8. pc[t] # "copy" /\ b # "copy"
    BY <1>1, <1>2
  <1>9. ValueInv' /\ VersionsKept
    BY <1>2, <1>4, <1>7, <1>8, ReaderKeeps
  <1>10. \A u \in torn : node'[u] = node[u]
    BY <1>4, <1>6 DEF StepOf, ValueInv
  <1> QED BY <1>2, <1>9, <1>10, TornStays

(* The parts of Local that a step of the thread itself can rely on.           *)
LEMMA OwnStays ==
    ASSUME RowInv, CountInv, ValueInv, NEW t \in Threads, NEW b, StepOf(t, b),
           pc[t] # "idle", b \notin {"idle", "get"}, pc[t] # "get",
           node' = node, value' = value, torn' = torn,
           Content(newest, Slot(node[t]))' = Content(newest, Slot(node[t])),
           b \in {"readId", "test", "allocate", "write"} => page'[t] = Own(t)',
           b = "test" => pageId'[t] = ids'[Tab'][Slot(node[t])],
           b = "copy" => page'[t] = pageId'[t],
           b \in Copying \cup {"write"} => Alone(t)'
    PROVE  Local(t)'
  <1>1. pc'[t] = b /\ newest' = newest /\ size' = size
    BY DEF StepOf, CountInv, LockHeld
  <1>2. Local(t)
    BY DEF ValueInv
  <1>3. pc'[t] # "idle" => node'[t] \in Share[t] /\ node'[t] < size'[newest'] * PageLength
    BY <1>1, <1>2 DEF Local
  <1>4. t \notin torn => value'[t] = Content(newest, Slot(node[t]))'[node'[t] % PageLength] + 1
    BY <1>2 DEF Local
  <1>5. Slot(node[t])' = Slot(node[t])
    BY DEF Slot
  <1>6. pc'[t] \in {"readId", "test", "allocate", "write"} => page'[t] = Own(t)'
    BY <1>1
  <1>7. pc'[t] = "test" => pageId'[t] = ids'[Tab'][Slot(node[t])']
    BY <1>1, <1>5
  <1>8. pc'[t] = "copy" => page'[t] = pageId'[t]
    BY <1>1
  <1>9. pc'[t] \in Copying \cup {"write"} => Alone(t)'
    BY <1>1
  <1>10. pc'[t] \notin {"idle", "get"}
    BY <1>1
  <1> QED BY <1>3, <1>4, <1>6, <1>7, <1>8, <1>9, <1>10 DEF Local

(* The views stay: so do the page and the solitude of a thread.               *)
LEMMA AloneStays ==
    ASSUME CountInv, NEW t \in Threads, newest' = newest, live' = live, size' = size,
           node' = node, ptr'[Tab'][Slot(node[t])] = ptr[Tab][Slot(node[t])],
           \A l \in live : \A i \in SlotsOf(l) : View(l, i)' = View(l, i)
    PROVE  Own(t)' = Own(t) /\ (Alone(t) => Alone(t)')
  <1>1. Slot(node[t])' = Slot(node[t]) /\ \A l : SlotsOf(l)' = SlotsOf(l)
    BY DEF Slot, SlotsOf
  <1>2. Own(t)' = Own(t)
    BY <1>1 DEF Own
  <1> QED BY <1>1, <1>2 DEF Alone

(* The content of the slot of a thread, if its page is not written.           *)
LEMMA ContentKept ==
    ASSUME RowInv, CountInv, NEW t \in Threads, pc[t] # "idle", newest' = newest, node' = node,
           \A l \in live : \A i \in SlotsOf(l) :
              View(l, i)' = View(l, i) /\ pm'.mem[View(l, i)] = pm.mem[View(l, i)]
    PROVE  Content(newest, Slot(node[t]))' = Content(newest, Slot(node[t]))
  <1>1. PICK i : i = Slot(node[t])
    OBVIOUS
  <1>2. newest \in live /\ i \in SlotsOf(newest)
    BY <1>1, BusyIs
  <1>3. Slot(node[t])' = i
    BY <1>1 DEF Slot
  <1>4. PICK l \in live : l = newest
    BY <1>2
  <1>5. View(l, i)' = View(l, i) /\ pm'.mem[View(l, i)] = pm.mem[View(l, i)]
    BY <1>2, <1>4
  <1>6. View(newest, Slot(node[t]))' = View(l, i)'
    BY <1>3, <1>4 DEF View
  <1> QED BY <1>1, <1>4, <1>5, <1>6 DEF Content

(* The content of the slot of a thread after a step that keeps the views.     *)
LEMMA ContentStays ==
    ASSUME RowInv, CountInv, NEW t \in Threads, pc[t] # "idle", newest' = newest, node' = node,
           pm'.mem = pm.mem,
           \A l \in live : \A i \in SlotsOf(l) : View(l, i)' = View(l, i)
    PROVE  Content(newest, Slot(node[t]))' = Content(newest, Slot(node[t]))
  BY ContentKept

(* While a table is filled, the newest level still is the one before.         *)
LEMMA FillingShows ==
    ASSUME RowInv, CountInv, ValueInv, Unfilled
    PROVE  newest - 1 \in live /\ newest \in live /\ Version(newest) = Version(newest - 1)
  <1>1. PICK u \in Threads : pc[u] = "fill"
    BY DEF Unfilled
  <1>2. lock = u /\ newest >= 1 /\ Tab = table[newest - 1]
    BY <1>1 DEF RowInv, FillInRow, Holders
  <1>3. ~ closing /\ newest \in Nat /\ newest \in live
    BY <1>1, BusyIs
  <1>4. newest - 1 \in live
    BY <1>2, <1>3 DEF RowInv, LevelsInRow
  <1>5. ~ Copies
    BY <1>1, <1>2 DEF Copies, Copying
  <1>6. PICK l \in live : l = newest - 1
    BY <1>4
  <1>7. PICK k \in live : k = newest
    BY <1>3
  <1>8. table[k] = table[l]
    BY <1>2, <1>6, <1>7 DEF Tab
  <1>9. size[k] = size[l]
    <2>1. size[k] \in Nat /\ size[l] \in Nat
      BY DEF CountInv, TablesTyped
    <2>2. DOMAIN ptr[table[k]] = SlotsOf(k) /\ DOMAIN ptr[table[l]] = SlotsOf(l)
      BY DEF CountInv, TablesTyped
    <2>3. 1 .. size[k] + 1 = 1 .. size[l] + 1
      BY <2>2, <1>8 DEF SlotsOf
    <2> QED BY <2>1, <2>3
  <1>10. VersionsAreViews
    BY ViewsShown DEF CountInv
  <1>11. \A i : Content(k, i) = Content(l, i)
    BY <1>5, <1>8 DEF Content, View
  <1>12. Version(k) = Version(l)
    <2>1. Version(k) = [n \in Nodes(k) |-> Content(k, Slot(n))[n % PageLength]]
      BY <1>10 DEF VersionsAreViews
    <2>2. Version(l) = [n \in Nodes(l) |-> Content(l, Slot(n))[n % PageLength]]
      BY <1>10 DEF VersionsAreViews
    <2>3. Nodes(k) = Nodes(l)
      BY <1>9 DEF Nodes
    <2> QED BY <2>1, <2>2, <2>3, <1>11
  <1> QED BY <1>3, <1>4, <1>6, <1>7, <1>12

(* The node of a thread is one of the newest version.                         *)
LEMMA NodeShown ==
    ASSUME RowInv, CountInv, ValueInv, NEW t \in Threads, pc[t] # "idle"
    PROVE  newest \in live /\ node[t] \in Nodes(newest) /\ DOMAIN Version(newest) = Nodes(newest)
  <1>1. newest \in live /\ size[newest] \in Nat \ {0} /\ node[t] \in Nat
    BY BusyIs
  <1>2. node[t] < size[newest] * PageLength
    BY DEF ValueInv, Local
  <1>3. size[newest] * PageLength \in Nat
    BY <1>1, CowAssumption
  <1> QED BY <1>1, <1>2, <1>3 DEF Nodes, Version

(* get(): the value is read from the page that the slot shows, unless the     *)
(* table is being filled: then the addition is torn.                          *)
LEMMA GetMaps ==
    ASSUME PagesApart, RowInv, CountInv, ValueInv, CountInv', NEW t \in Threads, Get(t)
    PROVE  ValueInv' /\ [VA!Next]_VA!vars
  <1>1. PICK b : b = IF modified THEN "readPage" ELSE "detach"
    OBVIOUS
  <1>2. PICK x : /\ x \in {pm.mem[ptr[Tab][Slot(node[t])]][Place(t)]}
                          \cup (IF Unfilled THEN Junk ELSE {})
                 /\ value' = [value EXCEPT ![t] = x + 1]
    BY DEF Get
  <1>3. /\ pc[t] = "get" /\ pc' = [pc EXCEPT ![t] = b] /\ lock' = lock /\ node' = node
        /\ UNCHANGED <<table, ptr, ids, pm>> /\ pc'[t] = b
        /\ torn' = IF Unfilled THEN torn \cup {t} ELSE torn
    BY <1>1 DEF Get, Goto, levelVars, tableVars, CountInv, LockHeld
  <1>4. StepOf(t, b)
    BY <1>2, <1>3 DEF Get, levelVars, StepOf, CountInv, LockHeld, ValueInv
  <1>5. newest' = newest /\ size' = size /\ value'[t] = x + 1
    BY <1>2, <1>3, <1>4 DEF StepOf, ValueInv
  <1>6. t \notin torn
    BY <1>3 DEF ValueInv, Local
  <1>7. ASSUME \A l \in live : \A i \in SlotsOf(l) : View(l, i)' = View(l, i)
        PROVE  Local(t)'
    <2>1. pc[t] \notin {"idle", "copy"}
      BY <1>3
    <2>2. View(newest, Slot(node[t])) = ptr[Tab][Slot(node[t])]
      BY <2>1, ViewOwn DEF Own
    <2>3. t \notin torn' => x = Content(newest, Slot(node[t]))[node[t] % PageLength]
      BY <2>2, <1>2, <1>3 DEF Content, Place
    <2>4. Content(newest, Slot(node[t]))' = Content(newest, Slot(node[t]))
      BY <2>1, <1>3, <1>5, <1>7, ContentStays
    <2>5. node[t] \in Share[t] /\ node[t] < size[newest] * PageLength
      BY <2>1 DEF ValueInv, Local
    <2>6. b \in {"readPage", "detach"}
      BY <1>1
    <2> QED BY <2>3, <2>4, <2>5, <2>6, <1>3, <1>5 DEF Local, Copying
  <1>8. pc[t] # "copy" /\ b # "copy" /\ pc[t] # "idle"
    BY <1>1, <1>3
  <1>9. ValueInv' /\ VersionsKept
    BY <1>3, <1>4, <1>7, <1>8, ReaderKeeps
  <1>10. CASE ~ Unfilled
    <2>1. torn' = torn
      BY <1>3, <1>10
    <2> QED BY <2>1, <1>3, <1>9, TornStays
  <1>11. CASE Unfilled
    <2>1. newest - 1 \in live /\ newest \in live /\ Version(newest) = Version(newest - 1)
      BY <1>11, FillingShows
    <2>2. node[t] \in Nodes(newest) /\ DOMAIN Version(newest) = Nodes(newest)
      BY <1>8, NodeShown
    <2>3. PICK n : n = node[t]
      OBVIOUS
    <2>4. {node'[u] : u \in torn'} = {node[u] : u \in torn} \cup {n}
      BY <2>3, <1>3, <1>11
    <2>5. PICK V : V = [l \in live |-> Version(l)]
      OBVIOUS
    <2>6. /\ newest - 1 \in DOMAIN V /\ newest \in DOMAIN V
          /\ V[newest] = V[newest - 1] /\ n \in DOMAIN V[newest]
      BY <2>1, <2>2, <2>3, <2>5
    <2>7. VA!Tear(n)
      BY <2>4, <2>5, <2>6, <1>9 DEF VersionsKept, VA!Tear
    <2> QED BY <2>5, <2>6, <2>7, <1>9 DEF VA!Next
  <1> QED BY <1>9, <1>10, <1>11

LEMMA ReadPageMaps ==
    ASSUME PagesApart, RowInv, CountInv, ValueInv, CountInv', NEW t \in Threads, ReadPage(t)
    PROVE  ValueInv' /\ VersionsKept
  <1>1. PICK b : b = "readId"
    OBVIOUS
  <1>2. /\ pc[t] = "readPage" /\ pc' = [pc EXCEPT ![t] = b] /\ lock' = lock /\ node' = node
        /\ UNCHANGED <<table, ptr, ids, pm>> /\ value' = value
        /\ page' = [page EXCEPT ![t] = Own(t)]
    BY <1>1 DEF ReadPage, Goto, levelVars, tableVars, Own
  <1>3. StepOf(t, b) /\ torn' = torn
    BY <1>2 DEF ReadPage, levelVars, addVars, StepOf, CountInv, LockHeld, ValueInv
  <1>4. /\ newest' = newest /\ live' = live /\ size' = size /\ page'[t] = Own(t)
        /\ ptr'[Tab'][Slot(node[t])] = ptr[Tab][Slot(node[t])]
    BY <1>2, <1>3 DEF StepOf, ValueInv, Tab
  <1>5. pc[t] # "copy" /\ b # "copy" /\ pc[t] # "idle" /\ pc[t] # "get"
    BY <1>1, <1>2
  <1>6. ASSUME \A l \in live : \A i \in SlotsOf(l) : View(l, i)' = View(l, i)
        PROVE  Local(t)'
    <2>1. Own(t)' = Own(t)
      BY <1>2, <1>4, <1>6, AloneStays
    <2>2. Content(newest, Slot(node[t]))' = Content(newest, Slot(node[t]))
      BY <1>2, <1>4, <1>5, <1>6, ContentStays
    <2>3. b \notin {"idle", "get", "test", "copy"} /\ b \notin Copying \cup {"write"}
      BY <1>1 DEF Copying
    <2> QED BY <2>1, <2>2, <2>3, <1>2, <1>3, <1>4, <1>5, OwnStays
  <1> QED BY <1>2, <1>3, <1>5, <1>6, ReaderKeeps

LEMMA ReadIdMaps ==
    ASSUME PagesApart, RowInv, CountInv, ValueInv, CountInv', NEW t \in Threads, ReadId(t)
    PROVE  ValueInv' /\ VersionsKept
  <1>1. PICK b : b = "test"
    OBVIOUS
  <1>2. /\ pc[t] = "readId" /\ pc' = [pc EXCEPT ![t] = b] /\ lock' = lock /\ node' = node
        /\ UNCHANGED <<table, ptr, ids, pm>> /\ value' = value /\ page' = page
        /\ pageId' = [pageId EXCEPT ![t] = ids[Tab][Slot(node[t])]]
    BY <1>1 DEF ReadId, Goto, levelVars, tableVars
  <1>3. StepOf(t, b) /\ torn' = torn
    BY <1>2 DEF ReadId, levelVars, addVars, StepOf, CountInv, LockHeld, ValueInv
  <1>4. /\ newest' = newest /\ live' = live /\ size' = size
        /\ ptr'[Tab'][Slot(node[t])] = ptr[Tab][Slot(node[t])]
        /\ pageId'[t] = ids'[Tab'][Slot(node[t])]
    BY <1>2, <1>3 DEF StepOf, CountInv, LockHeld, Tab
  <1>5. pc[t] # "copy" /\ b # "copy" /\ pc[t] # "idle" /\ pc[t] # "get"
    BY <1>1, <1>2
  <1>6. ASSUME \A l \in live : \A i \in SlotsOf(l) : View(l, i)' = View(l, i)
        PROVE  Local(t)'
    <2>1. Own(t)' = Own(t)
      BY <1>2, <1>4, <1>6, AloneStays
    <2>2. Content(newest, Slot(node[t]))' = Content(newest, Slot(node[t]))
      BY <1>2, <1>4, <1>5, <1>6, ContentStays
    <2>3. page'[t] = Own(t)'
      BY <2>1, <1>2 DEF ValueInv, Local
    <2>4. b \notin {"idle", "get", "copy"} /\ b \notin Copying \cup {"write"}
      BY <1>1 DEF Copying
    <2> QED BY <2>2, <2>3, <2>4, <1>2, <1>3, <1>4, <1>5, OwnStays
  <1> QED BY <1>2, <1>3, <1>5, <1>6, ReaderKeeps

(* A count of 1, without the lock: the page is the thread's own.              *)
LEMMA TestMaps ==
    ASSUME PagesApart, RowInv, CountInv, ValueInv, CountInv', NEW t \in Threads, TestCount(t)
    PROVE  ValueInv' /\ VersionsKept
  <1>1. PICK b : b = IF pm.refs[pageId[t]] = 1 THEN "write" ELSE "lock"
    OBVIOUS
  <1>2. /\ pc[t] = "test" /\ pc' = [pc EXCEPT ![t] = b] /\ lock' = lock /\ node' = node
        /\ UNCHANGED <<table, ptr, ids, pm>> /\ value' = value /\ page' = page
        /\ pageId' = pageId
    BY <1>1 DEF TestCount, Goto, levelVars, tableVars
  <1>3. StepOf(t, b) /\ torn' = torn
    BY <1>2 DEF TestCount, levelVars, addVars, StepOf, CountInv, LockHeld, ValueInv
  <1>4. /\ newest' = newest /\ live' = live /\ size' = size
        /\ ptr'[Tab'][Slot(node[t])] = ptr[Tab][Slot(node[t])]
    BY <1>2, <1>3 DEF StepOf, Tab
  <1>5. pc[t] # "copy" /\ b # "copy" /\ pc[t] # "idle" /\ pc[t] # "get"
    BY <1>1, <1>2
  <1>6. ASSUME \A l \in live : \A i \in SlotsOf(l) : View(l, i)' = View(l, i)
        PROVE  Local(t)'
    <2>1. Own(t)' = Own(t) /\ (Alone(t) => Alone(t)')
      BY <1>2, <1>4, <1>6, AloneStays
    <2>2. Content(newest, Slot(node[t]))' = Content(newest, Slot(node[t]))
      BY <1>2, <1>4, <1>5, <1>6, ContentStays
    <2>3. page'[t] = Own(t)' /\ pageId[t] = ids[Tab][Slot(node[t])]
      BY <2>1, <1>2 DEF ValueInv, Local
    <2>4. b = "write" => Alone(t)'
      <3> SUFFICES ASSUME b = "write" PROVE Alone(t)'
        OBVIOUS
      <3>1. pm.refs[pageId[t]] = 1
        BY <1>1
      <3>2. Alone(t)
        BY <3>1, <2>3, <1>2, AloneIs
      <3> QED BY <3>2, <2>1
    <2>5. b \notin {"idle", "get", "test", "copy"} /\ b \notin Copying
      BY <1>1 DEF Copying
    <2> QED BY <2>2, <2>3, <2>4, <2>5, <1>2, <1>3, <1>4, <1>5, OwnStays
  <1> QED BY <1>2, <1>3, <1>5, <1>6, ReaderKeeps

LEMMA LockMaps ==
    ASSUME PagesApart, RowInv, CountInv, ValueInv, CountInv', NEW t \in Threads, Lock(t)
    PROVE  ValueInv' /\ VersionsKept
  <1>1. PICK p : p = ids[Tab][Slot(node[t])]
    OBVIOUS
  <1>2. PICK b : b = IF pm.refs[p] = 1 THEN "write" ELSE "allocate"
    OBVIOUS
  <1>3. pageId' = [pageId EXCEPT ![t] = p] /\ pageId'[t] = p
    BY <1>1 DEF Lock, CountInv, LockHeld
  <1>4. /\ pc[t] = "lock" /\ pc' = [pc EXCEPT ![t] = b] /\ lock = None /\ lock' = t
        /\ node' = node /\ UNCHANGED <<table, ptr, ids, pm>> /\ value' = value
        /\ page' = [page EXCEPT ![t] = Own(t)]
    BY <1>2, <1>3 DEF Lock, Goto, levelVars, tableVars, Own
  <1>5. StepOf(t, b) /\ torn' = torn
    BY <1>3, <1>4 DEF Lock, levelVars, addVars, StepOf, CountInv, LockHeld, ValueInv
  <1>6. /\ newest' = newest /\ live' = live /\ size' = size /\ page'[t] = Own(t)
        /\ ptr'[Tab'][Slot(node[t])] = ptr[Tab][Slot(node[t])]
    BY <1>4, <1>5 DEF StepOf, ValueInv, Tab
  <1>7. pc[t] # "copy" /\ b # "copy" /\ pc[t] # "idle" /\ pc[t] # "get"
    BY <1>2, <1>4
  <1>8. ASSUME \A l \in live : \A i \in SlotsOf(l) : View(l, i)' = View(l, i)
        PROVE  Local(t)'
    <2>1. Own(t)' = Own(t) /\ (Alone(t) => Alone(t)')
      BY <1>4, <1>6, <1>8, AloneStays
    <2>2. Content(newest, Slot(node[t]))' = Content(newest, Slot(node[t]))
      BY <1>4, <1>6, <1>7, <1>8, ContentStays
    <2>3. b = "write" => Alone(t)'
      <3> SUFFICES ASSUME b = "write" PROVE Alone(t)'
        OBVIOUS
      <3>1. pm.refs[p] = 1
        BY <1>2
      <3>2. Alone(t)
        BY <3>1, <1>1, <1>4, AloneIs
      <3> QED BY <3>2, <2>1
    <2>4. b \notin {"idle", "get", "test", "copy"} /\ b \notin Copying
      BY <1>2 DEF Copying
    <2> QED BY <2>1, <2>2, <2>3, <2>4, <1>4, <1>5, <1>6, <1>7, OwnStays
  <1> QED BY <1>4, <1>5, <1>7, <1>8, ReaderKeeps

(* The first write of a level: its own table shows what the shared one does   *)
(* once it is filled, and until then only who reads a value sees it.          *)
LEMMA DetachMaps ==
    ASSUME PagesApart, RowInv, CountInv, ValueInv, CountInv', NEW t \in Threads, Detach(t)
    PROVE  ValueInv' /\ VersionsKept
  <1>1. PICK b : /\ b \in {"fill", "readPage"} /\ pc' = [pc EXCEPT ![t] = b]
                 /\ lock' \in {None, t}
    BY DEF Detach, Goto
  <1>2. /\ pc[t] = "detach" /\ lock = None /\ node' = node /\ value' = value /\ page' = page
        /\ UNCHANGED <<table, ptr, ids, pm>>
    BY DEF Detach, levelVars, tableVars
  <1>3. StepOf(t, b) /\ torn' = torn
    BY <1>1, <1>2 DEF Detach, levelVars, addVars, StepOf, CountInv, LockHeld, ValueInv
  <1>4. newest' = newest /\ live' = live /\ size' = size
    BY <1>3 DEF StepOf
  <1>5. pc[t] # "copy" /\ b # "copy" /\ pc[t] # "idle" /\ pc[t] # "get"
    BY <1>1, <1>2
  <1>6. ASSUME \A l \in live : \A i \in SlotsOf(l) : View(l, i)' = View(l, i)
        PROVE  Local(t)'
    <2>1. Content(newest, Slot(node[t]))' = Content(newest, Slot(node[t]))
      BY <1>2, <1>4, <1>5, <1>6, ContentStays
    <2>2. b \notin {"idle", "get", "test", "copy"} /\ b \notin Copying \cup {"write"}
          /\ b \notin {"readId", "test", "allocate", "write"}
      BY <1>1 DEF Copying
    <2> QED BY <2>1, <2>2, <1>2, <1>3, <1>5, OwnStays
  <1> QED BY <1>1, <1>2, <1>3, <1>5, <1>6, ReaderKeeps

LEMMA FillMaps ==
    ASSUME PagesApart, RowInv, CountInv, ValueInv, CountInv', NEW t \in Threads, FillTable(t)
    PROVE  ValueInv' /\ VersionsKept
  <1>1. PICK b : b = "readPage"
    OBVIOUS
  <1>2. /\ pc[t] = "fill" /\ pc' = [pc EXCEPT ![t] = b] /\ lock' = None /\ node' = node
        /\ pm' = pm /\ value' = value /\ lock = t
    BY <1>1 DEF FillTable, Goto, RowInv, FillInRow, Holders
  <1>3. StepOf(t, b) /\ torn' = torn
    BY <1>2 DEF FillTable, addVars, StepOf, CountInv, LockHeld, ValueInv
  <1>4. newest' = newest /\ live' = live /\ size' = size
    BY <1>3 DEF StepOf
  <1>5. pc[t] # "copy" /\ b # "copy" /\ pc[t] # "idle" /\ pc[t] # "get"
    BY <1>1, <1>2
  <1>6. \A l \in live : ids'[table'[l]] = ids[table[l]] /\ ptr'[table'[l]] = ptr[table[l]]
    BY FillShows
  <1>7. \A l \in live : \A i \in SlotsOf(l) : View(l, i)' = View(l, i)
    BY <1>2, <1>3, <1>5, <1>6, ViewsStay
  <1>8. newest \in live
    BY <1>5, BusyIs
  <1>9. ptr'[Tab'] = ptr[Tab] /\ ids'[Tab'] = ids[Tab]
    BY <1>4, <1>6, <1>8 DEF Tab
  <1>10. Content(newest, Slot(node[t]))' = Content(newest, Slot(node[t]))
    BY <1>2, <1>4, <1>5, <1>7, ContentStays
  <1>11. Local(t)'
    <2>1. b \notin {"idle", "get", "test", "copy"} /\ b \notin Copying \cup {"write"}
          /\ b \notin {"readId", "test", "allocate", "write"}
      BY <1>1 DEF Copying
    <2> QED BY <2>1, <1>2, <1>3, <1>5, <1>10, OwnStays
  <1>12. MemTyped(pm') /\ pm'.zero = pm.zero
    BY <1>2 DEF ValueInv
  <1>13. \A l \in live : \A i \in SlotsOf(l) :
            View(l, i)' = View(l, i) /\ pm'.mem[View(l, i)] = pm.mem[View(l, i)]
    BY <1>2, <1>7
  <1> QED BY <1>3, <1>9, <1>11, <1>12, <1>13, StepKeeps

(* cow(): nobody sees the new page, and the slot still shows the old one.     *)
LEMMA AllocateMaps ==
    ASSUME PagesApart, RowInv, CountInv, ValueInv, CountInv', NEW t \in Threads, AllocateCopy(t)
    PROVE  ValueInv' /\ VersionsKept
  <1>1. PICK b : b = "copy"
    OBVIOUS
  <1>2. PICK a : a = Allocate(pm, t)
    OBVIOUS
  <1>3. PICK k : k = Slot(node[t])
    OBVIOUS
  <1>4. /\ pc[t] = "allocate" /\ pc' = [pc EXCEPT ![t] = b] /\ lock' = lock /\ node' = node
        /\ table' = table /\ ids' = ids /\ value' = value /\ page' = page /\ pageId' = pageId
    BY <1>1 DEF AllocateCopy, Goto, levelVars
  <1>5. pm' = a.pm /\ ptr' = [ptr EXCEPT ![Tab][k] = a.page]
    BY <1>2, <1>3 DEF AllocateCopy
  <1>6. StepOf(t, b) /\ torn' = torn
    BY <1>4 DEF AllocateCopy, levelVars, addVars, StepOf, CountInv, LockHeld, ValueInv
  <1>7. newest' = newest /\ live' = live /\ size' = size
    BY <1>6 DEF StepOf
  <1>8. pc[t] \in Holding /\ pc[t] \notin Copying
    BY <1>4 DEF Holding, Copying
  <1>9. lock = t /\ lock # None /\ pc[t] # "idle" /\ pc[t] # "get" /\ pc[t] \in Detached
        /\ pageId[t] = ids[Tab][k] /\ CopySlot = k
    BY <1>3, <1>4, <1>8, HolderIs
  <1>10. /\ newest \in live /\ k \in SlotsOf(newest) /\ Tab \in DOMAIN ptr
         /\ ptr[Tab] \in [SlotsOf(newest) -> DOMAIN pm.refs]
    BY <1>3, <1>9, BusyIs
  <1>11. ~ Copies /\ Copies' /\ pc'[lock'] = "copy" /\ CopySlot' = k
    <2>1. ~ Copies
      BY <1>8, <1>9 DEF Copies
    <2>2. pc'[lock'] = "copy"
      BY <1>1, <1>4, <1>9 DEF CountInv, LockHeld
    <2>3. Copies'
      BY <2>2, <1>4, <1>9 DEF Copies, Copying
    <2>4. CopySlot' = k
      BY <1>3, <1>4, <1>9 DEF CopySlot, Slot
    <2> QED BY <2>1, <2>2, <2>3, <2>4
  <1>12. Sound(pm) /\ MemTyped(pm)
    BY DEF CountInv, ValueInv
  <1>13. a.pm.zero = pm.zero /\ a.page \in Nat /\ Held(pm, a.page) = 0
    BY <1>2, <1>12, AllocateKeeps
  <1>14. MemTyped(a.pm) /\ \A p \in DOMAIN pm.refs : p # a.page => a.pm.mem[p] = pm.mem[p]
    BY <1>2, <1>12, AllocateMem
  <1>15. page[t] = ptr[Tab][k] /\ page[t] = pageId[t]
    <2>1. page[t] = ptr[Tab][k]
      BY <1>3, <1>4 DEF ValueInv, Local, Own
    <2>2. ptr[Tab][k] = ids[Tab][k]
      BY <1>10, <1>11 DEF CountInv, SlotsAgree, Tab
    <2> QED BY <2>1, <2>2, <1>9
  <1>16. ptr' = [ptr EXCEPT ![Tab] = [ptr[Tab] EXCEPT ![k] = a.page]]
    BY <1>5
  <1>17. /\ Tab' = Tab /\ ptr'[Tab][k] = a.page
         /\ \A i \in SlotsOf(newest) : i # k => ptr'[Tab][i] = ptr[Tab][i]
    BY <1>4, <1>7, <1>10, <1>16 DEF Tab
  <1>18. ASSUME NEW l \in live, NEW i \in SlotsOf(l)
         PROVE  /\ View(l, i)' = View(l, i) /\ pm'.mem[View(l, i)] = pm.mem[View(l, i)]
                /\ View(l, i) # a.page
    <2>1. View(l, i) = ptr[table[l]][i]
      BY <1>11 DEF View
    <2>2. View(l, i)' = IF l = newest /\ i = k THEN page[t] ELSE ptr'[table[l]][i]
      BY <1>4, <1>7, <1>9, <1>11 DEF View
    <2>3. View(l, i)' = View(l, i)
      <3>1. CASE l = newest /\ i = k
        BY <3>1, <2>1, <2>2, <1>15 DEF Tab
      <3>2. CASE l = newest /\ i # k
        BY <3>2, <2>1, <2>2, <1>17 DEF Tab
      <3>3. CASE l # newest
        <4>1. table[l] # Tab
          BY <3>3, <1>9, TableAlone
        <4>2. table[l] \in DOMAIN ptr
          BY DEF CountInv, TablesTyped
        <4>3. ptr'[table[l]] = ptr[table[l]]
          BY <4>1, <4>2, <1>16
        <4> QED BY <4>3, <3>3, <2>1, <2>2
      <3> QED BY <3>1, <3>2, <3>3
    <2>4. View(l, i) \in DOMAIN pm.refs /\ Held(pm, View(l, i)) > 0
      BY <2>1, ShownInUse DEF AllUsed
    <2>5. View(l, i) # a.page
      BY <2>4, <1>13
    <2> QED BY <2>3, <2>4, <2>5, <1>5, <1>14
  <1>19. Content(newest, Slot(node[t]))' = Content(newest, Slot(node[t]))
    BY <1>4, <1>7, <1>9, <1>18, ContentKept
  <1>20. Alone(t)'
    <2>1. Own(t)' = a.page
      BY <1>3, <1>4, <1>17 DEF Own, Slot
    <2>2. \A l \in live : SlotsOf(l)' = SlotsOf(l)
      BY <1>7 DEF SlotsOf
    <2>3. \A l \in live' : \A i \in SlotsOf(l)' : View(l, i)' # Own(t)'
      BY <2>1, <2>2, <1>7, <1>18
    <2> QED BY <2>3 DEF Alone
  <1>21. Local(t)'
    <2>1. b \notin {"idle", "get", "test"} /\ b \notin {"readId", "test", "allocate", "write"}
      BY <1>1
    <2> QED BY <2>1, <1>4, <1>6, <1>9, <1>15, <1>19, <1>20, OwnStays
  <1>22. \A i \in SlotsOf(newest) : pc[t] = "idle" \/ i # Slot(node[t]) =>
            ptr'[Tab'][i] = ptr[Tab][i] /\ ids'[Tab'][i] = ids[Tab][i]
    BY <1>3, <1>4, <1>9, <1>17
  <1>23. MemTyped(pm') /\ pm'.zero = pm.zero
    BY <1>5, <1>13, <1>14
  <1> QED BY <1>6, <1>18, <1>21, <1>22, <1>23, StepKeeps

(* A thread writes into its own page, which no other slot shows: the others   *)
(* see what they saw.                                                         *)
LEMMA OwnPageWritten ==
    ASSUME PagesApart, RowInv, CountInv, ValueInv, NEW t \in Threads, NEW b, StepOf(t, b),
           pc[t] # "idle", Alone(t), UNCHANGED <<table, ptr, ids>>,
           NEW e, DOMAIN e = Entry, pm' = [pm EXCEPT !.mem[Own(t)] = e],
           \A l \in live : \A i \in SlotsOf(l) :
              ~ (l = newest /\ i = Slot(node[t])) => View(l, i)' = View(l, i),
           \A u \in Threads : u # t /\ pc[u] # "idle" =>
              \A l \in live : \A i \in SlotsOf(l) : View(l, i)' = Own(u) => View(l, i) = Own(u)
    PROVE  /\ MemTyped(pm') /\ ZeroClean' /\ pm'.mem[Own(t)] = e
           /\ \A p \in DOMAIN pm.mem : p # Own(t) => pm'.mem[p] = pm.mem[p]
           /\ \A l \in live : \A i \in SlotsOf(l) :
                 ~ (l = newest /\ i = Slot(node[t])) => Content(l, i)' = Content(l, i)
           /\ \A u \in Threads : u # t => Local(u)'
  <1>1. PICK q : q = Own(t)
    OBVIOUS
  <1>2. PICK k : k = Slot(node[t])
    OBVIOUS
  <1>3. /\ newest' = newest /\ live' = live /\ size' = size /\ closing' = closing
        /\ table' = table /\ ptr' = ptr /\ ids' = ids /\ Tab' = Tab
    BY DEF StepOf, Tab
  <1>4. /\ newest \in live /\ k \in SlotsOf(newest) /\ k \in 1 .. size[newest]
        /\ size[newest] \in Nat \ {0} /\ ptr[Tab] \in [SlotsOf(newest) -> DOMAIN pm.refs]
    BY <1>2, BusyIs
  <1>5. q \in DOMAIN pm.refs
    BY <1>1, <1>2, <1>4 DEF Own
  <1>6. pm = [refs |-> pm.refs, mem |-> pm.mem, zero |-> pm.zero, free |-> pm.free]
    BY DEF CountInv, Sound, Typed
  <1>7. PICK c : c = [pm.mem EXCEPT ![q] = e]
    OBVIOUS
  <1>8. pm' = [pm EXCEPT !.mem = c]
    BY <1>1, <1>7
  <1>9. pm'.mem = c /\ pm'.refs = pm.refs /\ pm'.zero = pm.zero
    BY <1>6, <1>8
  <1>10. MemTyped(pm)
    BY DEF ValueInv
  <1>11. /\ DOMAIN c = DOMAIN pm.mem /\ c[q] = e
         /\ \A p \in DOMAIN pm.mem : p # q => c[p] = pm.mem[p]
    BY <1>5, <1>7, <1>10 DEF MemTyped
  <1>12. MemTyped(pm')
    BY <1>9, <1>10, <1>11 DEF MemTyped
  <1>13. ASSUME NEW l \in live, NEW i \in SlotsOf(l), ~ (l = newest /\ i = k)
         PROVE  Content(l, i)' = Content(l, i) /\ View(l, i) # q
    <2>1. View(l, i)' = View(l, i)
      BY <1>2, <1>13
    <2>2. View(l, i) # q
      BY <1>1, <1>2, <1>13 DEF Alone
    <2>3. c[View(l, i)] = pm.mem[View(l, i)]
      BY <2>2, <1>7
    <2> QED BY <2>1, <2>2, <2>3, <1>9 DEF Content
  <1>14. ZeroClean'
    <2> SUFFICES ASSUME ~ closing', pm'.zero # None PROVE pm'.mem[pm'.zero] = Zeros
      BY DEF ZeroClean
    <2>1. ~ closing /\ pm.zero # None
      BY <1>3, <1>9
    <2>2. /\ size[newest] + 1 \in SlotsOf(newest) /\ View(newest, size[newest] + 1) = pm.zero
      BY <2>1, ZeroShown
    <2>3. size[newest] + 1 # k
      BY <1>4
    <2>4. pm.zero # q
      BY <2>2, <2>3, <1>4, <1>13
    <2>5. c[pm.zero] = pm.mem[pm.zero]
      BY <2>4, <1>7
    <2> QED BY <2>1, <2>5, <1>9 DEF ValueInv, ZeroClean
  <1>15. ASSUME NEW u \in Threads, u # t PROVE Local(u)'
    <2>1. ASSUME pc[u] # "idle"
          PROVE  /\ ptr'[Tab'][Slot(node[u])] = ptr[Tab][Slot(node[u])]
                 /\ ids'[Tab'][Slot(node[u])] = ids[Tab][Slot(node[u])]
                 /\ \A i : i = Slot(node[u]) =>
                       Content(newest, i)'[node[u] % PageLength]
                       = Content(newest, i)[node[u] % PageLength]
                 /\ \A l \in live : \A i \in SlotsOf(l) :
                       View(l, i)' = Own(u) => View(l, i) = Own(u)
      <3>1. Slot(node[u]) \in SlotsOf(newest)
        BY <2>1, BusyIs
      <3>2. Slot(node[u]) # k
        BY <2>1, <1>2, <1>15, BusyApart
      <3>3. ASSUME NEW i, i = Slot(node[u]) PROVE Content(newest, i)' = Content(newest, i)
        <4>1. i \in SlotsOf(newest) /\ i # k
          BY <3>1, <3>2, <3>3
        <4>2. PICK l \in live : l = newest
          BY <1>4
        <4>3. Content(l, i)' = Content(l, i)
          BY <4>1, <4>2, <1>13
        <4>4. Content(newest, i)' = Content(l, i)'
          BY <4>2, <1>3 DEF Content, View
        <4> QED BY <4>2, <4>3, <4>4
      <3>4. ptr'[Tab'] = ptr[Tab] /\ ids'[Tab'] = ids[Tab]
        BY <1>3
      <3>5. \A l \in live : \A i \in SlotsOf(l) : View(l, i)' = Own(u) => View(l, i) = Own(u)
        BY <2>1, <1>15
      <3> QED BY <3>3, <3>4, <3>5
    <2> QED BY <1>15, <2>1, OthersStay
  <1> QED BY <1>1, <1>2, <1>9, <1>11, <1>12, <1>13, <1>14, <1>15

(* cow(): the page is filled while the slot still shows the old one.          *)
LEMMA CopyMaps ==
    ASSUME PagesApart, RowInv, CountInv, ValueInv, CountInv', NEW t \in Threads, CopyPage(t)
    PROVE  ValueInv' /\ VersionsKept
  <1>1. PICK b : b = "drop"
    OBVIOUS
  <1>2. PICK k : k = Slot(node[t])
    OBVIOUS
  <1>3. PICK e : e = pm.mem[page[t]]
    OBVIOUS
  <1>4. /\ pc[t] = "copy" /\ pc' = [pc EXCEPT ![t] = b] /\ lock' = lock /\ node' = node
        /\ UNCHANGED <<table, ptr, ids>> /\ value' = value /\ page' = page /\ pageId' = pageId
    BY <1>1 DEF CopyPage, Goto, levelVars, tableVars
  <1>5. pm' = [pm EXCEPT !.mem[Own(t)] = e]
    BY <1>3 DEF CopyPage, Own
  <1>6. StepOf(t, b) /\ torn' = torn
    BY <1>4 DEF CopyPage, levelVars, addVars, StepOf, CountInv, LockHeld, ValueInv
  <1>7. newest' = newest /\ live' = live /\ size' = size
    BY <1>6 DEF StepOf
  <1>8. pc[t] \in Holding /\ pc[t] \in Copying
    BY <1>4 DEF Holding, Copying
  <1>9. /\ lock = t /\ lock # None /\ pc[t] # "idle" /\ pc[t] # "get" /\ CopySlot = k
        /\ pageId[t] = ids[Tab][k] /\ \A u \in Threads : pc[u] \in Holding => u = t
    <2>1. lock = t /\ CopySlot = k /\ lock # None /\ \A u \in Threads : pc[u] \in Holding => u = t
      BY <1>2, <1>8, HolderIs
    <2>2. pageId[t] = ids[Tab][k]
      BY <1>2, <1>8, HolderIs
    <2>3. pc[t] # "idle" /\ pc[t] # "get"
      BY <1>4
    <2> QED BY <2>1, <2>2, <2>3
  <1>10. /\ newest \in live /\ k \in SlotsOf(newest)
         /\ ids[Tab] \in [SlotsOf(newest) -> DOMAIN pm.refs]
    BY <1>2, <1>9, BusyIs
  <1>11. Local(t) /\ Alone(t) /\ page[t] = pageId[t]
    <2>1. Local(t)
      BY DEF ValueInv
    <2> QED BY <2>1, <1>4, <1>8 DEF Local
  <1>12. DOMAIN e = Entry
    <2>1. page[t] \in DOMAIN pm.refs
      BY <1>9, <1>10, <1>11
    <2> QED BY <2>1, <1>3 DEF ValueInv, MemTyped
  <1>13. Copies
    BY <1>8, <1>9 DEF Copies
  <1>14. pc'[lock'] # "copy"
    BY <1>1, <1>4, <1>9 DEF CountInv, LockHeld
  <1>15. \A l, i : /\ View(l, i)' = ptr[table[l]][i]
                   /\ View(l, i) = IF l = newest /\ i = k THEN page[t] ELSE ptr[table[l]][i]
    BY <1>4, <1>9, <1>13, <1>14 DEF View
  <1>16. \A l \in live : \A i \in SlotsOf(l) :
            ~ (l = newest /\ i = Slot(node[t])) => View(l, i)' = View(l, i)
    BY <1>2, <1>15
  <1>17. Own(t) = ptr[table[newest]][k]
    BY <1>2 DEF Own, Tab
  <1>18. ASSUME NEW u \in Threads, u # t, pc[u] # "idle",
                NEW l \in live, NEW i \in SlotsOf(l), View(l, i)' = Own(u)
         PROVE  View(l, i) = Own(u)
    <2> SUFFICES ASSUME l = newest, i = k PROVE FALSE
      BY <1>15, <1>18
    <2>1. Own(u) = Own(t)
      BY <1>15, <1>17, <1>18
    <2>2. pc[u] # "copy"
      BY <1>9, <1>18 DEF Holding
    <2>3. View(newest, Slot(node[u])) = Own(t)
      BY <2>1, <2>2, <1>18, ViewOwn
    <2>4. Slot(node[u]) \in SlotsOf(newest)
      BY <1>18, BusyIs
    <2>5. Slot(node[u]) = Slot(node[t])
      BY <2>3, <2>4, <1>10, <1>11 DEF Alone
    <2> QED BY <2>5, <1>9, <1>18, BusyApart
  <1>19. /\ MemTyped(pm') /\ ZeroClean' /\ pm'.mem[Own(t)] = e
         /\ \A l \in live : \A i \in SlotsOf(l) :
               ~ (l = newest /\ i = Slot(node[t])) => Content(l, i)' = Content(l, i)
         /\ \A u \in Threads : u # t => Local(u)'
    BY <1>4, <1>5, <1>6, <1>9, <1>11, <1>12, <1>16, <1>18, OwnPageWritten
  <1>20. ASSUME NEW l \in live, NEW i \in SlotsOf(l) PROVE Content(l, i)' = Content(l, i)
    <2>1. CASE l = newest /\ i = k
      <3>1. View(l, i)' = Own(t) /\ View(l, i) = page[t]
        BY <2>1, <1>15, <1>17
      <3> QED BY <3>1, <1>3, <1>19 DEF Content
    <2>2. CASE ~ (l = newest /\ i = k)
      BY <2>2, <1>2, <1>19
    <2> QED BY <2>1, <2>2
  <1>21. Content(newest, Slot(node[t]))' = Content(newest, Slot(node[t]))
    <2>1. PICK l \in live : l = newest
      BY <1>10
    <2>2. Content(l, k)' = Content(l, k)
      BY <2>1, <1>10, <1>20
    <2>3. Content(newest, Slot(node[t]))' = Content(l, k)'
      BY <2>1, <1>2, <1>4, <1>7 DEF Content, View, Slot
    <2> QED BY <2>1, <2>2, <2>3, <1>2
  <1>22. Alone(t)'
    <2>1. Own(t)' = Own(t) /\ Slot(node[t])' = k /\ \A l : SlotsOf(l)' = SlotsOf(l)
      BY <1>2, <1>4, <1>7 DEF Own, Tab, Slot, SlotsOf
    <2>2. ASSUME NEW l \in live, NEW i \in SlotsOf(l), View(l, i)' = Own(t)
          PROVE  l = newest /\ i = k
      <3> SUFFICES ASSUME ~ (l = newest /\ i = k) PROVE FALSE
        OBVIOUS
      <3>1. View(l, i) = Own(t)
        BY <2>2, <1>15
      <3> QED BY <3>1, <1>2, <1>11 DEF Alone
    <2> QED BY <2>1, <2>2, <1>7 DEF Alone
  <1>23. Local(t)'
    <2>1. b \notin {"idle", "get", "test", "copy"} /\ b \notin {"readId", "test", "allocate", "write"}
      BY <1>1
    <2> QED BY <2>1, <1>4, <1>6, <1>9, <1>21, <1>22, OwnStays
  <1>24. ValueInv'
    <2>1. DOMAIN value' = Threads /\ DOMAIN page' = Threads /\ torn' \subseteq Threads
      BY <1>6 DEF StepOf
    <2> QED BY <2>1, <1>19, <1>23 DEF ValueInv
  <1>25. VersionsKept
    <2>1. \A l \in live : \A i \in 1 .. size[l] : i \in SlotsOf(l)
      BY DEF CountInv, TablesTyped, SlotsOf
    <2> QED BY <2>1, <1>7, <1>20, StillMaps
  <1> QED BY <1>24, <1>25

(* cow() gives back the reference of the slot: the page has another one, so   *)
(* that nothing is written into it.                                           *)
LEMMA DropMaps ==
    ASSUME PagesApart, RowInv, CountInv, ValueInv, CountInv', NEW t \in Threads, DropOld(t)
    PROVE  ValueInv' /\ VersionsKept
  <1>1. PICK b : b = "setId"
    OBVIOUS
  <1>2. PICK p : p = pageId[t]
    OBVIOUS
  <1>3. PICK m : m = Release(pm, t, p)
    OBVIOUS
  <1>4. /\ pc[t] = "drop" /\ pc' = [pc EXCEPT ![t] = b] /\ lock' = lock /\ node' = node
        /\ UNCHANGED <<table, ptr, ids>> /\ value' = value /\ page' = page /\ pageId' = pageId
        /\ pm' = m
    BY <1>1, <1>2, <1>3 DEF DropOld, Goto, levelVars, tableVars
  <1>5. StepOf(t, b) /\ torn' = torn
    BY <1>4 DEF DropOld, levelVars, addVars, StepOf, CountInv, LockHeld, ValueInv
  <1>6. /\ newest' = newest /\ live' = live /\ size' = size /\ Tab' = Tab
        /\ table' = table /\ ptr' = ptr /\ ids' = ids
    BY <1>4, <1>5 DEF StepOf, Tab
  <1>7. pc[t] \in Holding /\ pc[t] \in Copying /\ pc[t] # "setId" /\ pc[t] # "copy" /\ b # "copy"
        /\ pc[t] # "idle" /\ pc[t] # "get"
    BY <1>1, <1>4 DEF Holding, Copying
  <1>8. Held(pm, p) >= 2 /\ lock = t
    BY <1>2, <1>7, HolderIs
  <1>9. p \in DOMAIN pm.refs /\ pm.refs[p] >= 2
    BY <1>8 DEF Held
  <1>10. Sound(pm) /\ Typed(pm) /\ MemTyped(pm)
    BY DEF CountInv, Sound, ValueInv
  <1>11. \A q \in DOMAIN pm.refs : m.mem[q] = pm.mem[q]
    BY <1>3, <1>9, <1>10, ReleaseMem
  <1>12. MemTyped(m)
    BY <1>3, <1>9, <1>10, ReleaseMem
  <1>13. m.zero = pm.zero
    <2>1. pm.refs[p] \in Nat
      BY <1>9, <1>10 DEF Typed
    <2>2. pm.refs[p] > 0
      BY <2>1, <1>9
    <2>3. Release(pm, t, p).zero = pm.zero
      BY <2>2, <1>9, <1>10, ReleaseKeeps
    <2> QED BY <2>3, <1>3
  <1>14. \A l \in live : \A i \in SlotsOf(l) : View(l, i)' = View(l, i)
    BY <1>4, <1>5, <1>6, <1>7, ViewsStay
  <1>15. \A l, i : View(l, i) = ptr[table[l]][i]
    BY <1>7, <1>8 DEF View
  <1>16. \A l \in live : \A i \in SlotsOf(l) :
            View(l, i)' = View(l, i) /\ pm'.mem[View(l, i)] = pm.mem[View(l, i)]
    BY <1>4, <1>11, <1>14, <1>15, ShownInUse DEF AllUsed
  <1>17. Content(newest, Slot(node[t]))' = Content(newest, Slot(node[t]))
    BY <1>4, <1>6, <1>7, <1>16, ContentKept
  <1>18. Alone(t)'
    <2>1. Alone(t)
      BY <1>7 DEF ValueInv, Local
    <2> QED BY <2>1, <1>4, <1>6, <1>14, AloneStays
  <1>19. Local(t)'
    <2>1. b \notin {"idle", "get", "test", "copy"} /\ b \notin {"readId", "test", "allocate", "write"}
      BY <1>1
    <2> QED BY <2>1, <1>4, <1>5, <1>7, <1>17, <1>18, OwnStays
  <1>20. \A i \in SlotsOf(newest) : pc[t] = "idle" \/ i # Slot(node[t]) =>
            ptr'[Tab'][i] = ptr[Tab][i] /\ ids'[Tab'][i] = ids[Tab][i]
    BY <1>6
  <1>21. MemTyped(pm') /\ pm'.zero = pm.zero
    BY <1>4, <1>12, <1>13
  <1> QED BY <1>5, <1>16, <1>19, <1>20, <1>21, StepKeeps

LEMMA SetIdMaps ==
    ASSUME PagesApart, RowInv, CountInv, ValueInv, CountInv', NEW t \in Threads, SetId(t)
    PROVE  ValueInv' /\ VersionsKept
  <1>1. PICK b : b = "write"
    OBVIOUS
  <1>2. PICK k : k = Slot(node[t])
    OBVIOUS
  <1>3. PICK q : q = ptr[Tab][k]
    OBVIOUS
  <1>4. /\ pc[t] = "setId" /\ pc' = [pc EXCEPT ![t] = b] /\ lock' = lock /\ node' = node
        /\ table' = table /\ ptr' = ptr /\ value' = value /\ pageId' = pageId /\ pm' = pm
        /\ page' = [page EXCEPT ![t] = q] /\ ids' = [ids EXCEPT ![Tab][k] = q]
    BY <1>1, <1>2, <1>3 DEF SetId, Goto, levelVars
  <1>5. StepOf(t, b) /\ torn' = torn
    BY <1>4 DEF SetId, levelVars, addVars, StepOf, CountInv, LockHeld, ValueInv
  <1>6. newest' = newest /\ live' = live /\ size' = size /\ Tab' = Tab
    BY <1>4, <1>5 DEF StepOf, Tab
  <1>7. pc[t] \in Copying /\ pc[t] # "copy" /\ b # "copy" /\ pc[t] # "idle" /\ pc[t] # "get"
    BY <1>1, <1>4 DEF Copying
  <1>8. \A l \in live : \A i \in SlotsOf(l) : View(l, i)' = View(l, i)
    BY <1>4, <1>5, <1>7, ViewsStay
  <1>9. \A l \in live : \A i \in SlotsOf(l) :
            View(l, i)' = View(l, i) /\ pm'.mem[View(l, i)] = pm.mem[View(l, i)]
    BY <1>4, <1>8
  <1>10. Content(newest, Slot(node[t]))' = Content(newest, Slot(node[t]))
    BY <1>4, <1>6, <1>7, <1>9, ContentKept
  <1>11. Own(t)' = Own(t) /\ Alone(t)'
    <2>1. Alone(t)
      BY <1>7 DEF ValueInv, Local
    <2>2. ptr'[Tab'][Slot(node[t])] = ptr[Tab][Slot(node[t])]
      BY <1>4, <1>6
    <2> QED BY <2>1, <2>2, <1>4, <1>6, <1>8, AloneStays
  <1>12. page'[t] = Own(t)'
    <2>1. page'[t] = q
      BY <1>4 DEF ValueInv
    <2> QED BY <2>1, <1>2, <1>3, <1>11 DEF Own
  <1>13. Local(t)'
    <2>1. b \notin {"idle", "get", "test", "copy"}
      BY <1>1
    <2> QED BY <2>1, <1>4, <1>5, <1>7, <1>10, <1>11, <1>12, OwnStays
  <1>14. \A i \in SlotsOf(newest) : pc[t] = "idle" \/ i # Slot(node[t]) =>
            ptr'[Tab'][i] = ptr[Tab][i] /\ ids'[Tab'][i] = ids[Tab][i]
    <2>1. Tab \in DOMAIN ids
      BY <1>7, BusyIs
    <2>2. ids' = [ids EXCEPT ![Tab] = [ids[Tab] EXCEPT ![k] = q]]
      BY <1>4
    <2>3. ids'[Tab] = [ids[Tab] EXCEPT ![k] = q]
      BY <2>1, <2>2
    <2>4. \A i \in SlotsOf(newest) : i # k => ids'[Tab][i] = ids[Tab][i]
      BY <2>3
    <2> QED BY <2>4, <1>2, <1>4, <1>6, <1>7
  <1>15. MemTyped(pm') /\ pm'.zero = pm.zero
    BY <1>4 DEF ValueInv
  <1> QED BY <1>5, <1>9, <1>13, <1>14, <1>15, StepKeeps

(* The addition: it changes the value of its node in the newest version, and  *)
(* no other value of any version; a torn one stores what it made of its junk. *)
LEMMA WriteMaps ==
    ASSUME PagesApart, RowInv, CountInv, ValueInv, CountInv', NEW t \in Threads, Write(t)
    PROVE  ValueInv' /\ VA!Next
  <1>1. PICK b : b = "idle"
    OBVIOUS
  <1>2. PICK k : k = Slot(node[t])
    OBVIOUS
  <1>3. PICK n : n = node[t]
    OBVIOUS
  <1>4. PICK e : e = [pm.mem[Own(t)] EXCEPT ![n % PageLength] = value[t]]
    OBVIOUS
  <1>5. /\ pc[t] = "write" /\ pc' = [pc EXCEPT ![t] = b]
        /\ lock' = IF lock = t THEN None ELSE lock
        /\ UNCHANGED <<table, ptr, ids>>
        /\ node' = [node EXCEPT ![t] = None] /\ value' = [value EXCEPT ![t] = 0]
        /\ page' = [page EXCEPT ![t] = None] /\ pageId' = [pageId EXCEPT ![t] = None]
        /\ torn' = torn \ {t}
    BY <1>1 DEF Write, Goto, levelVars, tableVars
  <1>6. StepOf(t, b)
    BY <1>5 DEF Write, levelVars, StepOf, CountInv, LockHeld, ValueInv
  <1>7. newest' = newest /\ live' = live /\ size' = size
    BY <1>6 DEF StepOf
  <1>8. pc[t] # "idle" /\ pc[t] # "copy" /\ b # "copy"
    BY <1>1, <1>5
  <1>9. /\ newest \in live /\ k \in SlotsOf(newest) /\ size[newest] \in Nat \ {0} /\ n \in Nat
        /\ ptr[Tab] \in [SlotsOf(newest) -> DOMAIN pm.refs]
    BY <1>2, <1>3, <1>8, BusyIs
  <1>10. /\ Alone(t) /\ page[t] = Own(t) /\ n < size[newest] * PageLength
         /\ t \notin torn => value[t] = Content(newest, k)[n % PageLength] + 1
    <2>1. Local(t)
      BY DEF ValueInv
    <2> QED BY <2>1, <1>2, <1>3, <1>5 DEF Local
  <1>11. View(newest, k) = Own(t)
    BY <1>2, <1>8, ViewOwn
  <1>12. pm' = [pm EXCEPT !.mem[Own(t)] = e]
    BY <1>3, <1>4, <1>10 DEF Write, Place
  <1>13. DOMAIN e = Entry
    <2>1. Own(t) \in DOMAIN pm.refs
      BY <1>2, <1>9 DEF Own
    <2> QED BY <2>1, <1>4 DEF ValueInv, MemTyped
  <1>14. \A l \in live : \A i \in SlotsOf(l) : View(l, i)' = View(l, i)
    <2>1. lock' = lock \/ (lock \in {None, t} /\ lock' \in {None, t})
      BY <1>5
    <2>2. \A l \in live : \A i \in SlotsOf(l) : ptr'[table'[l]][i] = ptr[table[l]][i]
      BY <1>5
    <2> QED BY <2>1, <2>2, <1>6, <1>8, ViewsStay
  <1>15. /\ MemTyped(pm') /\ ZeroClean' /\ pm'.mem[Own(t)] = e
         /\ \A l \in live : \A i \in SlotsOf(l) :
               ~ (l = newest /\ i = Slot(node[t])) => Content(l, i)' = Content(l, i)
         /\ \A u \in Threads : u # t => Local(u)'
    BY <1>5, <1>6, <1>8, <1>10, <1>12, <1>13, <1>14, OwnPageWritten
  <1>16. Local(t)'
    <2>1. pc'[t] = "idle" /\ t \notin torn'
      BY <1>1, <1>5 DEF CountInv, LockHeld
    <2> QED BY <2>1 DEF Local, Copying
  <1>17. ValueInv'
    <2>1. DOMAIN value' = Threads /\ DOMAIN page' = Threads /\ torn' \subseteq Threads
      BY <1>6 DEF StepOf
    <2> QED BY <2>1, <1>15, <1>16 DEF ValueInv
  <1>18. VersionsAreViews /\ VersionsAreViews'
    BY ViewsShown, ViewsShownNext DEF CountInv
  <1>19. \A l \in live : /\ DOMAIN Version(l) = Nodes(l) /\ DOMAIN Version(l)' = Nodes(l)
                         /\ \A m \in Nodes(l) :
                               /\ Version(l)[m] = Content(l, Slot(m))[m % PageLength]
                               /\ Version(l)'[m] = Content(l, Slot(m))'[m % PageLength]
                         /\ Version(l) = [m \in Nodes(l) |-> Version(l)[m]]
                         /\ Version(l)' = [m \in Nodes(l) |-> Version(l)'[m]]
    <2> SUFFICES ASSUME NEW l \in live
                 PROVE  /\ DOMAIN Version(l) = Nodes(l) /\ DOMAIN Version(l)' = Nodes(l)
                        /\ \A m \in Nodes(l) :
                              /\ Version(l)[m] = Content(l, Slot(m))[m % PageLength]
                              /\ Version(l)'[m] = Content(l, Slot(m))'[m % PageLength]
                        /\ Version(l) = [m \in Nodes(l) |-> Version(l)[m]]
                        /\ Version(l)' = [m \in Nodes(l) |-> Version(l)'[m]]
      OBVIOUS
    <2>1. Version(l) = [m \in Nodes(l) |-> Content(l, Slot(m))[m % PageLength]]
      BY <1>18 DEF VersionsAreViews
    <2>2. Version(l)' = [m \in Nodes(l)' |-> Content(l, Slot(m))'[m % PageLength]]
      BY <1>18 DEF VersionsAreViews, Slot
    <2>3. Nodes(l)' = Nodes(l)
      BY <1>7 DEF Nodes
    <2> QED BY <2>1, <2>2, <2>3
  <1>20. \A l \in live : \A m \in Nodes(l) : m \in Nat /\ Slot(m) \in SlotsOf(l)
    <2> SUFFICES ASSUME NEW l \in live, NEW m \in Nodes(l)
                 PROVE  m \in Nat /\ Slot(m) \in SlotsOf(l)
      OBVIOUS
    <2>1. size[l] \in Nat
      BY DEF CountInv, TablesTyped
    <2>2. m \in Nat /\ m < size[l] * PageLength
      BY <2>1, CowAssumption DEF Nodes
    <2>3. Slot(m) \in 1 .. size[l]
      BY <2>1, <2>2, SlotIn
    <2> QED BY <2>1, <2>2, <2>3 DEF SlotsOf
  <1>21. ASSUME NEW l \in live, NEW m \in Nodes(l), ~ (l = newest /\ m = n)
         PROVE  Version(l)'[m] = Version(l)[m]
    <2>1. m \in Nat /\ Slot(m) \in SlotsOf(l)
      BY <1>20
    <2>2. CASE ~ (l = newest /\ Slot(m) = k)
      <3>1. PICK i : i = Slot(m)
        OBVIOUS
      <3>2. Content(l, i)' = Content(l, i)
        BY <3>1, <2>1, <2>2, <1>2, <1>15
      <3>3. Content(l, Slot(m))' = Content(l, i)'
        BY <3>1 DEF Content, View, Slot
      <3> QED BY <3>1, <3>2, <3>3, <1>19
    <2>3. CASE l = newest /\ Slot(m) = k
      <3>1. m % PageLength # n % PageLength
        BY <2>1, <2>3, <1>2, <1>3, <1>9, <1>21, SameNode
      <3>2. View(l, Slot(m))' = Own(t)
        BY <2>1, <2>3, <1>11, <1>14 DEF Slot
      <3>3. Content(l, Slot(m))' = e
        BY <3>2, <1>15 DEF Content
      <3>4. Content(l, Slot(m)) = pm.mem[Own(t)]
        BY <2>3, <1>11 DEF Content
      <3>5. e[m % PageLength] = pm.mem[Own(t)][m % PageLength]
        BY <3>1, <1>4
      <3> QED BY <3>3, <3>4, <3>5, <1>19
    <2> QED BY <2>2, <2>3
  <1>22. n \in Nodes(newest)
    <2>1. size[newest] * PageLength \in Nat
      BY <1>9, CowAssumption
    <2> QED BY <2>1, <1>9, <1>10 DEF Nodes
  <1>23. /\ Version(newest)'[n] = value[t]
         /\ t \notin torn => value[t] = Version(newest)[n] + 1
    <2>1. PICK l \in live : l = newest
      BY <1>9
    <2>2. Slot(n) = k /\ n % PageLength \in Entry
      BY <1>2, <1>3, <1>9, PlaceIn
    <2>3. View(l, Slot(n))' = Own(t)
      BY <2>1, <2>2, <1>9, <1>11, <1>14 DEF Slot
    <2>4. Content(l, Slot(n))' = e
      BY <2>3, <1>15 DEF Content
    <2>5. Version(l)'[n] = e[n % PageLength]
      BY <2>1, <2>4, <1>19, <1>22
    <2>6. e[n % PageLength] = value[t]
      BY <2>2, <1>4, <1>13
    <2>7. Version(newest)[n] = Content(newest, k)[n % PageLength]
      BY <2>2, <1>9, <1>19, <1>22
    <2>8. Version(l)' = Version(newest)'
      BY <2>1, <1>7 DEF Version, PageOf
    <2> QED BY <2>5, <2>6, <2>7, <2>8, <1>10
  <1>24. PICK V : V = [l \in live |-> Version(l)]
    OBVIOUS
  <1>25. PICK W : W = [l \in live' |-> Version(l)']
    OBVIOUS
  <1>26. newest \in DOMAIN V /\ n \in DOMAIN V[newest]
    BY <1>9, <1>19, <1>22, <1>24
  <1>27. W = [V EXCEPT ![newest][n] = value[t]]
    <2>1. ASSUME NEW l \in live, l # newest PROVE Version(l)' = Version(l)
      BY <2>1, <1>19, <1>21
    <2>2. PICK a : a = Version(newest)'
      OBVIOUS
    <2>3. a = [V[newest] EXCEPT ![n] = value[t]]
      <3>1. /\ DOMAIN a = Nodes(newest) /\ a = [m \in Nodes(newest) |-> a[m]]
            /\ a[n] = value[t]
            /\ \A m \in Nodes(newest) : m # n => a[m] = V[newest][m]
        <4>1. V[newest] = Version(newest)
          BY <1>9, <1>24
        <4>2. PICK l \in live : l = newest
          BY <1>9
        <4>3. Version(l)' = a
          BY <2>2, <4>2, <1>7 DEF Version, PageOf
        <4>4. \A m \in Nodes(l) : m # n => Version(l)'[m] = Version(l)[m]
          BY <4>2, <1>21
        <4>5. DOMAIN a = Nodes(l) /\ a = [m \in Nodes(l) |-> a[m]]
          BY <4>3, <1>19
        <4>6. \A m \in Nodes(l) : m # n => a[m] = Version(l)[m]
          BY <4>3, <4>4
        <4> QED BY <4>1, <4>2, <4>5, <4>6, <2>2, <1>23
      <3>2. DOMAIN V[newest] = Nodes(newest)
        BY <1>9, <1>19, <1>24
      <3>3. PICK v : v = V[newest]
        OBVIOUS
      <3> QED BY <3>1, <3>2, <1>22
    <2>4. W[newest] = a
      <3>1. PICK l \in live : l = newest
        BY <1>9
      <3>2. Version(l)' = a
        BY <2>2, <3>1, <1>7 DEF Version, PageOf
      <3> QED BY <3>1, <3>2, <1>7, <1>25
    <2>5. \A l \in live : l # newest => W[l] = V[l]
      BY <2>1, <1>7, <1>24, <1>25
    <2>6. DOMAIN W = DOMAIN V /\ W = [l \in DOMAIN V |-> W[l]]
      BY <1>7, <1>24, <1>25
    <2> QED BY <2>3, <2>4, <2>5, <2>6, <1>24, <1>26
  <1>28. W = [l \in live' |-> Version(l)'] /\ V = [l \in live |-> Version(l)]
    BY <1>24, <1>25
  <1>29. ASSUME NEW u \in torn, u # t PROVE node[u] # n /\ node'[u] = node[u]
    <2>1. u \in Threads /\ pc[u] # "idle"
      BY DEF ValueInv, Local
    <2>2. Slot(node[t]) # Slot(node[u])
      BY <2>1, <1>8, <1>29, BusyApart
    <2> QED BY <2>1, <2>2, <1>3, <1>6, <1>29 DEF StepOf
  <1>30. CASE t \notin torn
    <2>1. torn' = torn /\ \A u \in torn : u # t
      BY <1>5, <1>30
    <2>2. {node'[u] : u \in torn'} = {node[u] : u \in torn} /\ n \notin {node[u] : u \in torn}
      BY <2>1, <1>29
    <2>3. value[t] = V[newest][n] + 1
      BY <1>9, <1>23, <1>24, <1>30
    <2>4. W = [V EXCEPT ![newest][n] = @ + 1]
      BY <2>3, <1>27
    <2>5. VA!Add(n)
      BY <2>2, <2>4, <1>7, <1>28 DEF VA!Add
    <2>6. VA!Next
      BY <2>5, <1>26, <1>28 DEF VA!Next
    <2> QED BY <2>6, <1>17
  <1>31. CASE t \in torn
    <2>1. {node'[u] : u \in torn'} = {node[u] : u \in torn} \ {n}
      <3>1. \A u \in torn' : u \in torn /\ u # t /\ node'[u] = node[u] /\ node[u] # n
        BY <1>5, <1>29
      <3>2. \A u \in torn : node[u] # n => u # t /\ u \in torn' /\ node'[u] = node[u]
        BY <1>3, <1>5, <1>29
      <3> QED BY <3>1, <3>2
    <2>2. n \in {node[u] : u \in torn}
      BY <1>3, <1>31
    <2>3. W[newest][n] = value[t]
      BY <1>26, <1>27
    <2>4. VA!Spoil(n)
      BY <2>1, <2>2, <2>3, <1>7, <1>27, <1>28 DEF VA!Spoil
    <2>5. VA!Next
      BY <2>4, <1>26, <1>28 DEF VA!Next
    <2> QED BY <2>5, <1>17
  <1> QED BY <1>30, <1>31

LEMMA AddMaps ==
    ASSUME PagesApart, RowInv, CountInv, ValueInv, CountInv', NEW t \in Threads, AddStep(t)
    PROVE  ValueInv' /\ [VA!Next]_VA!vars
  <1>1. CASE BeginAdd(t)
    BY <1>1, BeginMaps
  <1>2. CASE Get(t)
    BY <1>2, GetMaps
  <1>3. CASE Write(t)
    BY <1>3, WriteMaps
  <1>4. CASE ~ BeginAdd(t) /\ ~ Get(t) /\ ~ Write(t)
    <2>1. ValueInv' /\ VersionsKept
      BY <1>4, DetachMaps, FillMaps, ReadPageMaps, ReadIdMaps, TestMaps, LockMaps,
         AllocateMaps, CopyMaps, DropMaps, SetIdMaps DEF AddStep
    <2>2. torn' = torn /\ node' = node
      BY <1>4 DEF AddStep, Detach, FillTable, ReadPage, ReadId, TestCount, Lock, AllocateCopy,
         CopyPage, DropOld, SetId, addVars
    <2> QED BY <2>1, <2>2, TornStays
  <1> QED BY <1>1, <1>2, <1>3, <1>4

LEMMA ValueStart == Init => ValueInv /\ VA!Init
  <1> SUFFICES ASSUME Init PROVE ValueInv /\ VA!Init
    OBVIOUS
  <1>1. /\ newest = -1 /\ live = {} /\ pm.refs = <<>> /\ pm.mem = <<>> /\ pm.zero = None
        /\ value = [t \in Threads |-> 0] /\ page = [t \in Threads |-> None]
        /\ pc = [t \in Threads |-> "idle"] /\ torn = {}
    BY DEF Init
  <1>2. MemTyped(pm) /\ ZeroClean
    BY <1>1 DEF MemTyped, ZeroClean
  <1>3. \A t \in Threads : Local(t)
    BY <1>1 DEF Local, Copying
  <1>4. [l \in live |-> Version(l)] = <<>>
    BY <1>1
  <1> QED BY <1>1, <1>2, <1>3, <1>4 DEF ValueInv, VA!Init

LEMMA ValueRests ==
    ASSUME CountInv, ValueInv, CountInv', UNCHANGED vars PROVE ValueInv' /\ UNCHANGED VA!vars
  <1>1. /\ newest' = newest /\ live' = live /\ size' = size /\ table' = table
        /\ ptr' = ptr /\ ids' = ids /\ pm' = pm /\ lock' = lock /\ closing' = closing
        /\ pc' = pc /\ node' = node /\ value' = value /\ page' = page /\ pageId' = pageId
        /\ torn' = torn
    BY DEF vars, levelVars, tableVars, threadVars, addVars
  <1>2. \A l, i : View(l, i)' = View(l, i) /\ Content(l, i)' = Content(l, i)
    BY <1>1 DEF View, Content, Copies, CopySlot, Slot
  <1>3. \A t : Slot(node[t])' = Slot(node[t]) /\ Own(t)' = Own(t)
    BY <1>1 DEF Slot, Own, Tab
  <1>4. \A l : SlotsOf(l)' = SlotsOf(l)
    BY <1>1 DEF SlotsOf
  <1>5. \A t : Alone(t) => Alone(t)'
    BY <1>1, <1>2, <1>3, <1>4 DEF Alone
  <1>6. ASSUME NEW t \in Threads PROVE Local(t)'
    <2>1. Local(t)
      BY DEF ValueInv
    <2>2. Content(newest, Slot(node[t]))' = Content(newest, Slot(node[t]))
      BY <1>1 DEF Content, View, Copies, CopySlot, Slot
    <2>3. Tab' = Tab
      BY <1>1 DEF Tab
    <2> QED BY <2>1, <2>2, <2>3, <1>1, <1>3, <1>5 DEF Local
  <1>7. ValueInv'
    BY <1>1, <1>6 DEF ValueInv, ZeroClean, MemTyped
  <1>8. VersionsKept
    BY <1>1, <1>2, StillMaps
  <1>9. UNCHANGED VA!vars
    BY <1>1, <1>8, TornStays
  <1> QED BY <1>7, <1>9

(* Every step keeps the invariant, and is one of VersionedArray or unseen.    *)
LEMMA ValueStep ==
    ASSUME PagesApart, RowInv, CountInv, ValueInv, RowInv', CountInv', [Next]_vars
    PROVE  ValueInv' /\ [VA!Next]_VA!vars
  <1>1. CASE \E k \in Sizes : DenseInit(k) \/ CowInitShared(k) \/ CowInitLarger(k)
    <2>1. ValueInv' /\ VA!NewVersion
      BY <1>1, DenseMaps, SharedMaps, LargerMaps
    <2> QED BY <2>1 DEF VA!Next
  <1>2. ASSUME NEW l \in live, Quiet, Delete(l), ~ closing' => ~ closing, torn' = torn
        PROVE  ValueInv' /\ VA!Next
    <2>1. ValueInv' /\ VA!Forget(l)
      BY <1>2, DeleteMaps
    <2>2. l \in DOMAIN [x \in live |-> Version(x)]
      OBVIOUS
    <2> QED BY <2>1, <2>2 DEF VA!Next
  <1>3. CASE DeleteOldest
    <2>1. Quiet /\ ~ closing /\ closing' = closing /\ torn' = torn /\ \E l \in live : Delete(l)
      BY <1>3 DEF DeleteOldest, addVars
    <2> QED BY <2>1, <1>2
  <1>4. CASE Destroy
    <2>1. Quiet /\ closing' /\ torn' = torn /\ \E l \in live : Delete(l)
      BY <1>4 DEF Destroy
    <2> QED BY <2>1, <1>2
  <1>5. CASE \E t \in Threads : AddStep(t)
    BY <1>5, AddMaps
  <1>6. CASE UNCHANGED vars
    BY <1>6, ValueRests
  <1> QED BY <1>1, <1>3, <1>4, <1>5, <1>6 DEF Next

----------------------------------------------------------------------------
(* Theorem: for threads that write to pages of their own, any number of them, *)
(* of levels and of pages, the tables and pages of the levels implement       *)
(* VersionedArray: a level begins with the values of the one before, an       *)
(* addition through cow_write changes one value of the newest level and       *)
(* nothing else, and copying, sharing and releasing pages is not seen. Only   *)
(* an addition that read its value while the table of a level that nobody had *)
(* written to was being filled may store a wrong value, at its own node.      *)
THEOREM LevelsAreVersions ==
    ASSUME PagesApart PROVE Spec => ImplementsVersions
  <1>1. Init => VA!Init /\ ValueInv
    BY ValueStart
  <1>2. ASSUME RowInv, CountInv, ValueInv, RowInv', CountInv', [Next]_vars
        PROVE  ValueInv' /\ [VA!Next]_VA!vars
    BY <1>2, ValueStep
  <1>3. Spec => [](RowInv /\ CountInv)
    BY CountAlways
  <1> QED BY <1>1, <1>2, <1>3, PTL DEF Spec, ImplementsVersions, VA!Spec
=============================================================================
