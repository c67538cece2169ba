------------------------- MODULE SlidingWindowProofs -------------------------
(* Proofs about SlidingWindow for every data source, every window, pull size, *)
(* batch limit and number of batches.                                         *)
EXTENDS SlidingWindow, FiniteSetTheorems, TLAPS

----------------------------------------------------------------------------
(* The batch limit. While the loader is between its decision and its update   *)
(* of the counter, the counter can only have gone down.                       *)
BatchInv ==
    /\ batch \in Nat /\ inBatch \in Nat
    /\ inBatch + batch <= MaxBatch

(* Cardinality(left) of the source is only compared, so all the proof needs is *)
(* that a finite set has a natural number of elements.                        *)
LEMMA LeftIsFinite == ASSUME NEW S PROVE Cardinality(Edge \ S) \in Nat
  <1>1. IsFiniteSet(Edge \ S)
    BY DataAssumption, FS_Difference
  <1> QED
    BY <1>1, FS_CardinalityType

(* Theorem: the number of edges pulled in a batch never exceeds               *)
(* sc_max_edges_per_batch, whenever the driver resets the counter.            *)
THEOREM BatchBounded == Spec => []BatchBound
  <1>1. Init => BatchInv
    BY BatchAssumption DEF Init, BatchInv
  <1>2. BatchInv /\ [Next]_vars => BatchInv'
    <2> SUFFICES ASSUME BatchInv, [Next]_vars PROVE BatchInv'
      OBVIOUS
    <2> USE BatchAssumption DEF BatchInv
    <2>1. CASE LoaderDecides
      BY <2>1 DEF LoaderDecides
    <2>2. CASE LoaderPulls
      BY SMTT(30), <2>2, LeftIsFinite DEF LoaderPulls, Least
    <2>3. CASE LoaderCounts
      BY <2>3 DEF LoaderCounts
    <2>4. CASE \/ LoaderTestsFlag \/ TaskCreates \/ TaskFills \/ TaskSlides
               \/ TaskDeletes \/ TaskKeeps \/ TaskPublishes
      BY <2>4 DEF LoaderTestsFlag, TaskCreates, TaskFills, TaskSlides,
                  TaskDeletes, TaskKeeps, TaskPublishes
    <2>5. CASE \/ DriverSchedules \/ DriverWaits \/ DriverLoops \/ DriverComputes
               \/ DriverClonesVertices \/ DriverClonesMin \/ DriverClonesTables
      BY <2>5 DEF DriverSchedules, DriverWaits, DriverLoops, DriverClonesVertices,
                  DriverClonesMin, DriverClonesTables, DriverComputes, loader
    <2>6. CASE DriverResets
      BY <2>6 DEF DriverResets, loader
    <2>7. CASE Terminate
      BY <2>7 DEF Terminate, loader
    <2>8. CASE UNCHANGED vars
      BY <2>8 DEF vars, loader
    <2> QED
      BY <2>1, <2>2, <2>3, <2>4, <2>5, <2>6, <2>7, <2>8 DEF Next, Loader, Driver
  <1>3. BatchInv => BatchBound
    BY DEF BatchInv, BatchBound
  <1> QED
    BY <1>1, <1>2, <1>3, PTL DEF Spec

----------------------------------------------------------------------------
(* How far the loader may be ahead of the driver, and what it has deleted by  *)
(* then.                                                                      *)
Numbers ==
    /\ maxLevel \in Nat \cup {-1} /\ good \in Int /\ returned \in Int
    /\ minLevel \in Nat
    /\ clone.level \in Int /\ clone.min \in Nat
    /\ clone = [level |-> clone.level, min |-> clone.min, tables |-> clone.tables]

(* The last announced level is the latest one, or the one before the level    *)
(* under construction.                                                        *)
Announced ==
    /\ good = IF lpc \in {"fill", "slide", "delete", "keep", "publish"}
              THEN maxLevel - 1 ELSE maxLevel
    /\ returned <= good

(* One task at most is ahead when the driver is about to schedule another.    *)
Margin == Ahead <= IF dpc \in {"first", "second", "batch"} THEN 1 ELSE 2

Cloning == dpc = "clone" => returned >= 0

(* The levels the window was last moved for.                                  *)
Made == IF lpc \in {"fill", "slide"} THEN NumLevels - 1 ELSE NumLevels

Slid == minLevel >= Made - Window

EdgeTables == \A l \in 0 .. maxLevel : l >= maxLevel - Window => l \in adjLive

(* From the first step of its constructor on, from the second and from the    *)
(* last, a clone has a level, a minimum and the edge tables of its window.    *)
CloneBounds ==
    /\ dpc \in {"cloneMin", "cloneTables", "compute"} => clone.level = returned /\ clone.level >= 0
    /\ dpc \in {"cloneTables", "compute"} => clone.min >= clone.level + 2 - Window
    /\ dpc = "compute" =>
           \A l \in 0 .. clone.level : l >= clone.level + 2 - Window => l \in clone.tables

Inv == Numbers /\ Announced /\ Margin /\ Slid /\ EdgeTables /\ CloneBounds /\ Cloning

LEMMA InvInit == Init => Inv
  <1> SUFFICES ASSUME Init PROVE Inv
    OBVIOUS
  <1> USE WindowAssumption DEF Init
  <1>1. Numbers
    <2>1. maxLevel = -1 /\ good = -1 /\ returned = -2 /\ minLevel = 0
      OBVIOUS
    <2>2. /\ clone.level = -1 /\ clone.min = 0
          /\ clone = [level |-> clone.level, min |-> clone.min, tables |-> clone.tables]
      BY DEF NoClone
    <2> QED
      BY ONLY <2>1, <2>2 DEF Numbers
  <1>4. Announced
    BY DEF Announced
  <1>5. Slid
    BY DEF Slid, Made, NumLevels
  <1>2. Margin
    BY DEF Margin, Ahead, Scheduled
  <1>3. EdgeTables /\ CloneBounds /\ Cloning
    BY DEF EdgeTables, CloneBounds, Cloning
  <1> QED
    BY <1>1, <1>2, <1>3, <1>4, <1>5 DEF Inv

LEMMA LoaderKeepsInv == Inv /\ Loader => Inv'
  <1> SUFFICES ASSUME Inv, Loader PROVE Inv'
    OBVIOUS
  <1> USE WindowAssumption DEF Inv, Numbers, Announced, Margin, Ahead, Scheduled,
          Slid, Made, NumLevels, EdgeTables, CloneBounds, Cloning
  <1>1. CASE LoaderDecides \/ LoaderPulls \/ LoaderCounts
    <2>1. UNCHANGED <<good, runTask, graph, driver>>
      BY <1>1, Zenon DEF LoaderDecides, LoaderPulls, LoaderCounts
    <2>2. /\ lpc \in {"loop", "pull", "count"}
          /\ lpc' \in {"pull", "count", "flag", "ended"}
      BY <1>1 DEF LoaderDecides, LoaderPulls, LoaderCounts
    <2> QED
      BY <2>1, <2>2 DEF graph, driver
  <1>2. CASE LoaderTestsFlag
    BY <1>2 DEF LoaderTestsFlag, graph, driver
  <1>3. CASE TaskCreates
    <2>1. /\ maxLevel' = maxLevel + 1
          /\ adjLive' = adjLive \cup {maxLevel + 1}
          /\ lpc = "create" /\ lpc' = "fill"
          /\ UNCHANGED <<good, runTask, minLevel, driver>>
      BY <1>3 DEF TaskCreates
    <2>2. Numbers' /\ Announced' /\ Slid' /\ CloneBounds' /\ Cloning'
      BY <2>1 DEF driver
    <2>4. Margin'
      BY <2>1 DEF driver
    <2>3. EdgeTables'
      BY <2>1
    <2> QED
      BY <2>2, <2>3, <2>4
  <1>4. CASE TaskFills
    BY <1>4 DEF TaskFills, driver
  <1>5. CASE TaskSlides
    BY <1>5 DEF TaskSlides, driver
  <1>6. CASE TaskDeletes
    BY <1>6 DEF TaskDeletes, driver
  <1>7. CASE TaskKeeps
    BY <1>7 DEF TaskKeeps, driver
  <1>8. CASE TaskPublishes
    BY <1>8 DEF TaskPublishes, graph, driver
  <1> QED
    BY <1>1, <1>2, <1>3, <1>4, <1>5, <1>6, <1>7, <1>8 DEF Loader

LEMMA DriverKeepsInv == Inv /\ Driver => Inv'
  <1> SUFFICES ASSUME Inv, Driver PROVE Inv'
    OBVIOUS
  <1> USE WindowAssumption DEF Inv, Numbers, Announced, Margin, Ahead, Scheduled,
          Slid, Made, NumLevels, EdgeTables, CloneBounds, Cloning
  <1>1. CASE DriverSchedules
    BY <1>1 DEF DriverSchedules, graph, loader
  <1>2. CASE DriverWaits
    BY <1>2 DEF DriverWaits, graph, loader
  <1>3. CASE DriverLoops
    BY <1>3 DEF DriverLoops, graph, loader
  <1>4. CASE DriverClonesVertices
    BY <1>4 DEF DriverClonesVertices, graph, loader
  <1>5. CASE DriverClonesMin
    BY <1>5 DEF DriverClonesMin, graph, loader
  <1>6. CASE DriverClonesTables
    <2> DEFINE T == adjLive \cap (0 .. clone.level)
    <2>1. /\ dpc = "cloneTables" /\ dpc' = "compute"
          /\ UNCHANGED <<returned, runTask, lpc, good, maxLevel, minLevel, adjLive>>
      BY <1>6 DEF DriverClonesTables, graph, loader
    <2>2. clone' = [level |-> clone.level, min |-> clone.min, tables |-> T]
      BY <1>6 DEF DriverClonesTables
    <2>3. \A l \in 0 .. clone.level : l >= clone.level + 2 - Window => l \in T
      <3> SUFFICES ASSUME NEW l \in 0 .. clone.level, l >= clone.level + 2 - Window
                   PROVE  l \in adjLive
        OBVIOUS
      <3>1. clone.level = returned /\ maxLevel <= returned + 2 /\ returned <= maxLevel
        BY <2>1
      <3> QED
        BY <3>1
    <2> HIDE DEF T
    <2>4. clone'.level = clone.level /\ clone'.min = clone.min /\ clone'.tables = T
      BY ONLY <2>2
    <2> QED
      BY <2>1, <2>2, <2>3, <2>4
  <1>7. CASE DriverComputes
    BY <1>7 DEF DriverComputes, NoClone, graph, loader
  <1>8. CASE DriverResets
    BY <1>8 DEF DriverResets, graph, loader
  <1> QED
    BY <1>1, <1>2, <1>3, <1>4, <1>5, <1>6, <1>7, <1>8 DEF Driver

LEMMA InvStep == Inv /\ [Next]_vars => Inv'
  <1> SUFFICES ASSUME Inv, [Next]_vars PROVE Inv'
    OBVIOUS
  <1>1. CASE Loader
    BY <1>1, LoaderKeepsInv
  <1>2. CASE Driver
    BY <1>2, DriverKeepsInv
  <1>3. CASE Terminate \/ UNCHANGED vars
    BY <1>3 DEF Terminate, vars, loader, graph, driver, Inv, Numbers, Announced,
       Margin, Ahead, Scheduled, Slid, Made, NumLevels, EdgeTables, CloneBounds, Cloning
  <1> QED
    BY <1>1, <1>2, <1>3 DEF Next

(* Theorem: the loader is never more than two tasks ahead of the level the    *)
(* driver returned last, whatever the window.                                 *)
THEOREM LoaderTwoAhead == Spec => []TwoAhead
  <1>1. Inv => TwoAhead
    BY DEF Inv, Numbers, Margin, TwoAhead, Ahead, Scheduled
  <1> QED
    BY InvInit, InvStep, <1>1, PTL DEF Spec

(* Theorem: no task deletes an edge table in the window of a computation      *)
(* under way, whatever the window: the three levels task() leaves below the   *)
(* window are enough for the two tasks the loader can be ahead.               *)
EdgeTablesIntact ==
    dpc = "compute" => \A l \in clone.min .. clone.level : l \in clone.tables /\ l \in adjLive

THEOREM WindowEdgesKept == Spec => []EdgeTablesIntact
  <1>1. Inv => EdgeTablesIntact
    BY WindowAssumption DEF Inv, Numbers, Announced, Margin, Ahead, Scheduled,
       EdgeTables, CloneBounds, EdgeTablesIntact
  <1> QED
    BY InvInit, InvStep, <1>1, PTL DEF Spec

----------------------------------------------------------------------------
(* The vertex table a computation reads. Only a window of three keeps all the *)
(* versions that delete_level leaves; for any other window the tables older   *)
(* than two levels are dropped, and the loader may be that far ahead.         *)
VertexTables == \A l \in 0 .. maxLevel : l >= maxLevel - Window => l \in vtLive

LEMMA VertexTablesStep ==
  ASSUME Window = 3
  PROVE  Inv /\ VertexTables /\ [Next]_vars => VertexTables'
  <1> SUFFICES ASSUME Inv, VertexTables, [Next]_vars PROVE VertexTables'
    OBVIOUS
  <1> USE DEF VertexTables, Inv, Numbers
  <1>1. CASE TaskCreates
    BY <1>1 DEF TaskCreates
  <1>2. CASE TaskDeletes
    BY <1>2 DEF TaskDeletes, NumLevels
  <1>3. CASE TaskKeeps
    BY <1>3 DEF TaskKeeps, Keep
  <1>4. CASE TaskFills \/ TaskSlides
    BY <1>4 DEF TaskFills, TaskSlides
  <1>5. CASE \/ LoaderDecides \/ LoaderPulls \/ LoaderCounts \/ LoaderTestsFlag
             \/ TaskPublishes
    BY <1>5 DEF LoaderDecides, LoaderPulls, LoaderCounts, LoaderTestsFlag,
                TaskPublishes, graph
  <1>6. CASE Driver
    <2>1. UNCHANGED graph
      BY <1>6, Zenon DEF Driver, DriverSchedules, DriverWaits, DriverLoops,
                         DriverClonesVertices, DriverClonesMin, DriverClonesTables,
                         DriverComputes, DriverResets
    <2> QED
      BY <2>1 DEF graph
  <1>7. CASE Terminate \/ UNCHANGED vars
    BY <1>7 DEF Terminate, vars, graph
  <1> QED
    BY <1>1, <1>2, <1>3, <1>4, <1>5, <1>6, <1>7 DEF Next, Loader

(* Theorem: with a window of three snapshots everything a computation reads   *)
(* stays allocated until it returns.                                          *)
THEOREM WindowStaysIntact == ASSUME Window = 3 PROVE Spec => []WindowIntact
  <1>1. Init => VertexTables
    BY DEF Init, VertexTables
  <1>2. Inv /\ VertexTables => WindowIntact
    <2> SUFFICES ASSUME Inv, VertexTables, dpc = "compute" PROVE WindowIntact
      BY DEF WindowIntact
    <2>1. /\ clone.level <= maxLevel /\ maxLevel <= clone.level + 2
          /\ clone.min >= maxLevel - Window
          /\ maxLevel \in Int /\ clone.level \in Int /\ clone.min \in Nat
          /\ clone.level >= 0 /\ clone.min >= clone.level + 2 - Window
      BY WindowAssumption DEF Inv, Numbers, Announced, Margin, Ahead, Scheduled,
         CloneBounds
    <2>2. clone.level \in vtLive
      BY <2>1 DEF VertexTables
    <2>3. \A l \in clone.min .. clone.level : l \in clone.tables /\ l \in adjLive
      BY <2>1, WindowAssumption DEF Inv, EdgeTables, CloneBounds
    <2> QED
      BY <2>2, <2>3 DEF WindowIntact
  <1> QED
    BY InvInit, InvStep, VertexTablesStep, <1>1, <1>2, PTL DEF Spec

----------------------------------------------------------------------------
(* Where the edges are: between the data source, the buffer and the levels.   *)

Tables ==
    /\ maxLevel \in Nat \cup {-1}
    /\ pulled \subseteq Edge /\ buffer \subseteq Edge
    /\ edges \in [Levels -> SUBSET Edge]
    /\ degree \in [Levels -> [Node -> Int]]

(* The level under construction is empty up to the fill; the buffer keeps its *)
(* edges until the level is announced.                                        *)
Building ==
    /\ lpc \in {"fill", "slide", "delete", "keep", "publish"} => maxLevel >= 0
    /\ lpc = "fill" => edges[maxLevel] = {}
    /\ Filled => edges[maxLevel] = buffer

EdgesInv == Tables /\ Building /\ EdgesKeptOnce

(* The sets the degrees count are finite.                                     *)
LEMMA EdgesFinite ==
  ASSUME NEW S, S \subseteq Edge
  PROVE  IsFiniteSet(S) /\ Cardinality(S) \in Nat
  <1>1. IsFiniteSet(S)
    BY DataAssumption, FS_Subset
  <1> QED
    BY <1>1, FS_CardinalityType

LEMMA AgedOffEdges ==
  ASSUME Tables, NEW n \in Node, NEW first \in Nat, NEW last \in Int
  PROVE  UNION {AgedOff(n, l) : l \in first .. last} \subseteq Edge
  <1>1. ASSUME NEW l \in first .. last PROVE AgedOff(n, l) \subseteq Edge
    <2>1. CASE l > maxLevel
      BY <2>1 DEF AgedOff
    <2>2. CASE l <= maxLevel
      <3>1. l \in Levels
        BY <1>1, <2>2 DEF Levels, Tables
      <3>2. edges[l] \subseteq Edge
        BY <3>1 DEF Tables
      <3> QED
        BY <3>2 DEF AgedOff, EdgesOf
    <2> QED
      BY <1>1, <2>1, <2>2 DEF Tables
  <1> QED
    BY <1>1

(* The steps that leave the source, the buffer and the tables alone.          *)
LEMMA EdgesStay ==
  ASSUME EdgesInv, UNCHANGED <<pulled, buffer, maxLevel, edges, degree>>,
         lpc' = lpc \/ (lpc' \notin {"fill", "slide", "delete", "keep", "publish"}
                        /\ lpc \notin {"fill", "slide", "delete", "keep", "publish"})
  PROVE  EdgesInv'
  <1> USE DEF EdgesInv
  <1>1. Tables'
    BY DEF Tables, Levels
  <1>2. Building'
    BY DEF Building, Filled
  <1>3. Filled' <=> Filled
    BY DEF Filled
  <1>4. EdgesKeptOnce'
    BY <1>3 DEF EdgesKeptOnce, Levels
  <1> QED
    BY <1>1, <1>2, <1>4

LEMMA PullKeepsEdges ==
  ASSUME EdgesInv, LoaderPulls
  PROVE  EdgesInv'
  <1>1. PICK given \in SUBSET (Edge \ pulled) :
            pulled' = pulled \cup given /\ buffer' = buffer \cup given
    BY DEF LoaderPulls
  <1>2. UNCHANGED <<maxLevel, edges, degree>> /\ ~ Filled /\ ~ Filled'
        /\ lpc' \notin {"fill", "slide", "delete", "keep", "publish"}
    BY DEF LoaderPulls, Filled, graph
  <1>3. Tables' /\ Building'
    BY <1>1, <1>2 DEF EdgesInv, Tables, Building, Levels, Filled
  <1>4. \A l \in Levels : edges[l] \subseteq pulled
    BY DEF EdgesInv, EdgesKeptOnce
  <1>5. EdgesKeptOnce'
    <2> USE <1>1, <1>2 DEF EdgesInv, EdgesKeptOnce, Levels
    <2>1. pulled' = buffer' \cup UNION {edges'[l] : l \in Levels'}
      OBVIOUS
    <2>2. \A l, k \in Levels' : l # k => edges'[l] \cap edges'[k] = {}
      OBVIOUS
    <2>3. \A l \in Levels' : edges'[l] \cap buffer' = {}
      BY <1>4
    <2> QED
      BY <2>1, <2>2, <2>3
  <1> QED
    BY <1>3, <1>5 DEF EdgesInv

LEMMA CreateKeepsEdges ==
  ASSUME EdgesInv, TaskCreates
  PROVE  EdgesInv'
  <1> DEFINE m == maxLevel + 1
  <1>1. maxLevel \in Nat \cup {-1} /\ m \in Nat /\ maxLevel' = m
        /\ UNCHANGED <<pulled, buffer>> /\ lpc' = "fill" /\ ~ Filled /\ ~ Filled'
        /\ Levels = 0 .. m - 1 /\ Levels' = 0 .. m
    BY DEF TaskCreates, EdgesInv, Tables, Filled, Levels
  <1>2. edges' = [k \in 0 .. m |-> IF k = m THEN {} ELSE edges[k]]
    BY DEF TaskCreates
  <1>3. degree' = [k \in 0 .. m |-> IF k < m THEN degree[k]
                                    ELSE IF m = 0 THEN [n \in Node |-> 0] ELSE degree[m - 1]]
    BY DEF TaskCreates
  <1> HIDE DEF m
  <1>4. Levels' = Levels \cup {m} /\ m \notin Levels /\ edges'[m] = {}
        /\ \A l \in Levels : edges'[l] = edges[l]
    BY <1>1, <1>2
  <1>5. edges' \in [Levels' -> SUBSET Edge]
    BY <1>1, <1>2, <1>4 DEF EdgesInv, Tables
  <1>6. degree' \in [Levels' -> [Node -> Int]]
    BY <1>1, <1>3 DEF EdgesInv, Tables
  <1>7. Tables' /\ Building'
    BY <1>1, <1>4, <1>5, <1>6 DEF EdgesInv, Tables, Building
  <1>8. EdgesKeptOnce'
    <2>1. pulled' = buffer' \cup UNION {edges'[l] : l \in Levels'}
      BY <1>1, <1>4 DEF EdgesInv, EdgesKeptOnce
    <2>2. \A l, k \in Levels' : l # k => edges'[l] \cap edges'[k] = {}
      BY <1>4 DEF EdgesInv, EdgesKeptOnce
    <2>3. \A l \in Levels' : edges'[l] \cap buffer' = {}
      BY <1>1, <1>4 DEF EdgesInv, EdgesKeptOnce
    <2> QED
      BY <2>1, <2>2, <2>3 DEF EdgesKeptOnce
  <1> QED
    BY <1>7, <1>8 DEF EdgesInv

LEMMA FillKeepsEdges ==
  ASSUME EdgesInv, TaskFills
  PROVE  EdgesInv'
  <1> DEFINE m == maxLevel
  <1>1. m \in Nat /\ maxLevel' = m /\ UNCHANGED <<pulled, buffer>> /\ lpc' = "slide"
        /\ ~ Filled /\ Filled' /\ Levels' = Levels /\ m \in Levels
        /\ edges[m] = {} /\ Levels = 0 .. m
    BY DEF TaskFills, EdgesInv, Tables, Building, Filled, Levels
  <1>2. edges' = [edges EXCEPT ![m] = buffer]
    BY DEF TaskFills
  <1>3. degree' \in [Levels' -> [Node -> Int]]
    <2>1. degree' = [degree EXCEPT ![m] =
              [n \in Node |-> @[n] + Cardinality({e \in buffer : TailOf[e] = n})]]
      BY DEF TaskFills
    <2>2. \A n \in Node : Cardinality({e \in buffer : TailOf[e] = n}) \in Nat
      BY EdgesFinite DEF EdgesInv, Tables
    <2>3. [n \in Node |-> degree[m][n] + Cardinality({e \in buffer : TailOf[e] = n})]
             \in [Node -> Int]
      BY <1>1, <2>2 DEF EdgesInv, Tables
    <2> QED
      BY <1>1, <2>1, <2>3 DEF EdgesInv, Tables
  <1> HIDE DEF m
  <1>4. edges'[m] = buffer /\ \A l \in Levels : l # m => edges'[l] = edges[l]
    BY <1>1, <1>2 DEF EdgesInv, Tables
  <1>5. Tables' /\ Building'
    BY <1>1, <1>2, <1>3, <1>4 DEF EdgesInv, Tables, Building
  <1>6. EdgesKeptOnce'
    <2>1. pulled' = buffer' \cup UNION {edges'[l] : l \in Levels'}
      BY <1>1, <1>4 DEF EdgesInv, EdgesKeptOnce
    <2>2. \A l, k \in Levels' : l # k => edges'[l] \cap edges'[k] = {}
      BY <1>1, <1>4 DEF EdgesInv, EdgesKeptOnce
    <2>3. \A l \in Levels' : l < m => edges'[l] \cap buffer' = {}
      BY <1>1, <1>4 DEF EdgesInv, EdgesKeptOnce
    <2> QED
      BY <1>1, <2>1, <2>2, <2>3 DEF EdgesKeptOnce
  <1> QED
    BY <1>5, <1>6 DEF EdgesInv

LEMMA SlideKeepsEdges ==
  ASSUME EdgesInv, minLevel \in Nat, TaskSlides
  PROVE  EdgesInv'
  <1>1. UNCHANGED <<pulled, buffer, maxLevel, edges>> /\ lpc' = "delete"
        /\ Filled /\ Filled' /\ Levels' = Levels /\ maxLevel \in Nat
    BY DEF TaskSlides, Filled, Levels, EdgesInv, Building, Tables
  <1>2. degree' \in [Levels' -> [Node -> Int]]
    <2>1. CASE NumLevels >= Window
      <3> DEFINE off(n) == Cardinality(UNION {AgedOff(n, l) :
                               l \in minLevel .. (NumLevels - Window - 1)})
      <3>1. ASSUME NEW n \in Node PROVE off(n) \in Nat
        <4> DEFINE S == UNION {AgedOff(n, l) : l \in minLevel .. (NumLevels - Window - 1)}
        <4>1. NumLevels - Window - 1 \in Int
          BY <1>1, WindowAssumption DEF NumLevels
        <4>2. S \subseteq Edge
          BY <4>1, AgedOffEdges DEF EdgesInv
        <4> HIDE DEF S
        <4>3. Cardinality(S) \in Nat
          BY <4>2, EdgesFinite
        <4> QED
          BY <4>3 DEF S
      <3>2. degree' = [degree EXCEPT ![maxLevel] = [n \in Node |-> @[n] - off(n)]]
        BY <2>1 DEF TaskSlides
      <3> HIDE DEF off
      <3>3. [n \in Node |-> degree[maxLevel][n] - off(n)] \in [Node -> Int]
        BY <1>1, <3>1 DEF EdgesInv, Tables, Levels
      <3> QED
        BY <1>1, <3>2, <3>3 DEF EdgesInv, Tables
    <2>2. CASE ~ (NumLevels >= Window)
      BY <1>1, <2>2 DEF TaskSlides, EdgesInv, Tables
    <2> QED
      BY <2>1, <2>2
  <1>3. Tables' /\ Building' /\ EdgesKeptOnce'
    BY <1>1, <1>2 DEF EdgesInv, Tables, Building, EdgesKeptOnce
  <1> QED
    BY <1>3 DEF EdgesInv

LEMMA DeleteKeepsEdges ==
  ASSUME EdgesInv, TaskDeletes \/ TaskKeeps
  PROVE  EdgesInv'
  <1>1. UNCHANGED <<pulled, buffer, maxLevel, edges, degree>>
        /\ Filled /\ Filled' /\ Levels' = Levels /\ lpc' # "fill"
    BY DEF TaskDeletes, TaskKeeps, Filled, Levels
  <1> QED
    BY <1>1 DEF EdgesInv, Tables, Building, EdgesKeptOnce, Filled

LEMMA PublishKeepsEdges ==
  ASSUME EdgesInv, TaskPublishes
  PROVE  EdgesInv'
  <1>1. UNCHANGED <<pulled, maxLevel, edges, degree>> /\ buffer' = {} /\ lpc' = "loop"
        /\ Filled /\ ~ Filled' /\ Levels' = Levels /\ maxLevel \in Levels
        /\ edges[maxLevel] = buffer
    BY DEF TaskPublishes, Filled, Levels, graph, EdgesInv, Building, Tables
  <1>2. Tables' /\ Building'
    BY <1>1 DEF EdgesInv, Tables, Building
  <1>3. EdgesKeptOnce'
    BY <1>1 DEF EdgesInv, EdgesKeptOnce
  <1> QED
    BY <1>2, <1>3 DEF EdgesInv

LEMMA EdgesStep == EdgesInv /\ minLevel \in Nat /\ [Next]_vars => EdgesInv'
  <1> SUFFICES ASSUME EdgesInv, minLevel \in Nat, [Next]_vars PROVE EdgesInv'
    OBVIOUS
  <1>1. CASE LoaderDecides \/ LoaderCounts \/ LoaderTestsFlag
    <2>1. UNCHANGED <<pulled, buffer, maxLevel, edges, degree>>
          /\ lpc \in {"loop", "count", "flag"} /\ lpc' \in {"ended", "pull", "flag", "create", "loop"}
      BY <1>1 DEF LoaderDecides, LoaderCounts, LoaderTestsFlag, graph
    <2> QED
      BY <2>1, EdgesStay
  <1>2. CASE LoaderPulls \/ TaskCreates \/ TaskFills \/ TaskSlides \/ TaskDeletes
             \/ TaskKeeps \/ TaskPublishes
    BY <1>2, PullKeepsEdges, CreateKeepsEdges, FillKeepsEdges, SlideKeepsEdges,
       DeleteKeepsEdges, PublishKeepsEdges
  <1>3. CASE Driver
    <2>1. UNCHANGED <<loader, graph>>
      BY <1>3, Zenon DEF Driver, DriverSchedules, DriverWaits, DriverLoops,
                         DriverClonesVertices, DriverClonesMin, DriverClonesTables,
                         DriverComputes, DriverResets
    <2> QED
      BY <2>1, EdgesStay DEF loader, graph
  <1>4. CASE Terminate \/ UNCHANGED vars
    BY <1>4, EdgesStay DEF Terminate, vars, loader, graph
  <1> QED
    BY <1>1, <1>2, <1>3, <1>4 DEF Next, Loader

LEMMA EdgesInit == Init => EdgesInv
  <1> SUFFICES ASSUME Init PROVE EdgesInv
    OBVIOUS
  <1>1. maxLevel = -1 /\ pulled = {} /\ buffer = {} /\ lpc = "loop" /\ Levels = {}
    BY DEF Init, Levels
  <1>2. edges \in [Levels -> SUBSET Edge] /\ degree \in [Levels -> [Node -> Int]]
    BY <1>1 DEF Init
  <1> QED
    BY <1>1, <1>2 DEF EdgesInv, Tables, Building, EdgesKeptOnce, Filled

LEMMA EdgesAlways == Spec => []EdgesInv
  <1>1. Inv => minLevel \in Nat
    BY DEF Inv, Numbers
  <1> QED
    BY EdgesInit, EdgesStep, InvInit, InvStep, <1>1, PTL DEF Spec

(* Theorem: no edge the source gave is lost between the buffer and the levels *)
(* or put into two levels, whatever the window, the pulls and the batches.    *)
THEOREM EdgesOnce == Spec => []EdgesKeptOnce
  BY EdgesAlways, PTL DEF EdgesInv

----------------------------------------------------------------------------
(* The bounds of the window: minLevel is where it should be from the moment   *)
(* the loader has slid the window on.                                         *)

SlidExact == minLevel = Oldest(Made - 2)

CloneNear ==
    dpc \in {"cloneTables", "compute"} =>
        clone.min \in Oldest(clone.level) .. (Oldest(clone.level) + 2)

BoundsInv == SlidExact /\ CloneNear

LEMMA BoundsStep == Inv /\ BoundsInv /\ [Next]_vars => BoundsInv'
  <1> SUFFICES ASSUME Inv, BoundsInv, [Next]_vars PROVE BoundsInv'
    OBVIOUS
  <1> USE WindowAssumption DEF BoundsInv, SlidExact, CloneNear, Made, Oldest, NumLevels, Inv, Numbers
  <1>1. CASE LoaderDecides \/ LoaderPulls \/ LoaderCounts \/ LoaderTestsFlag
             \/ TaskFills \/ TaskDeletes \/ TaskKeeps \/ TaskPublishes
    <2>1. UNCHANGED <<maxLevel, minLevel, driver>>
          /\ (lpc' \in {"fill", "slide"} <=> lpc \in {"fill", "slide"})
      BY <1>1 DEF LoaderDecides, LoaderPulls, LoaderCounts, LoaderTestsFlag, TaskFills,
                  TaskDeletes, TaskKeeps, TaskPublishes, graph
    <2> QED
      BY <2>1 DEF driver
  <1>2. CASE TaskCreates
    BY <1>2 DEF TaskCreates, driver
  <1>3. CASE TaskSlides
    BY <1>3 DEF TaskSlides, driver
  <1>4. CASE DriverClonesMin
    BY <1>4 DEF DriverClonesMin, graph, loader, Announced, Margin, Ahead, Scheduled, CloneBounds
  <1>5. CASE DriverClonesTables
    BY <1>5 DEF DriverClonesTables, graph, loader
  <1>6. CASE \/ DriverSchedules \/ DriverWaits \/ DriverLoops \/ DriverClonesVertices
             \/ DriverComputes \/ DriverResets
    <2>1. UNCHANGED <<loader, graph>> /\ dpc' \notin {"cloneTables", "compute"}
      BY <1>6 DEF DriverSchedules, DriverWaits, DriverLoops, DriverClonesVertices,
                  DriverComputes, DriverResets
    <2> QED
      BY <2>1 DEF loader, graph
  <1>7. CASE Terminate \/ UNCHANGED vars
    BY <1>7 DEF Terminate, vars, loader, graph, driver
  <1> QED
    BY <1>1, <1>2, <1>3, <1>4, <1>5, <1>6, <1>7 DEF Next, Loader, Driver

LEMMA BoundsInit == Init => BoundsInv
  <1> SUFFICES ASSUME Init PROVE BoundsInv
    OBVIOUS
  <1>1. minLevel = 0 /\ maxLevel = -1 /\ lpc = "loop" /\ dpc = "first"
    BY DEF Init
  <1> QED
    BY <1>1, WindowAssumption DEF BoundsInv, SlidExact, CloneNear, Made, Oldest, NumLevels

LEMMA BoundsAlways == Spec => [](Inv /\ EdgesInv /\ BoundsInv)
  BY InvInit, InvStep, BoundsInit, BoundsStep, EdgesAlways, PTL DEF Spec

(* Theorem: a computation sees no level that is half filled or older than the *)
(* window of its level, and at most the two oldest levels of that window are  *)
(* missing, whatever the window: no more tasks come between the return of     *)
(* wait_for_advance and the clone's reading of _minLevel (ll_mlcsr_sp.h:287). *)
THEOREM WindowNearlyWhole == Spec => []AtMostTwoMissing
  <1>1. Inv /\ EdgesInv /\ BoundsInv => AtMostTwoMissing
    <2> SUFFICES ASSUME Inv, EdgesInv, BoundsInv, dpc = "compute" PROVE AtMostTwoMissing
      BY DEF AtMostTwoMissing
    <2>1. /\ clone.level <= good /\ clone.level \in Nat
          /\ maxLevel \in Nat \cup {-1} /\ good \in Int
          /\ good = IF lpc \in {"fill", "slide", "delete", "keep", "publish"}
                    THEN maxLevel - 1 ELSE maxLevel
      BY DEF Inv, Numbers, Announced, CloneBounds
    <2>2. clone.min \in Oldest(clone.level) .. (Oldest(clone.level) + 2)
      BY DEF BoundsInv, CloneNear
    <2>3. \A l \in 0 .. clone.level : l \in Levels /\ (l < maxLevel \/ ~ Filled)
      BY <2>1 DEF Levels, Filled
    <2>4. \A l \in 0 .. clone.level : edges[l] \cap buffer = {}
      BY <2>3 DEF EdgesInv, EdgesKeptOnce
    <2> QED
      BY <2>1, <2>2, <2>4 DEF AtMostTwoMissing
  <1> QED
    BY <1>1, BoundsAlways, PTL

----------------------------------------------------------------------------
(* The degrees a computation reads. set_min_level() does not age off the      *)
(* edges of the last page's nodes in a level with a sparse vertex table; in a *)
(* window of at most three no level to be aged off is sparse yet.             *)

DegreesAssumption == Window <= 3 \/ LastPage = {}

SparseOld ==
    \A l \in sparse :
        l <= maxLevel - (IF lpc \in {"fill", "slide", "delete", "keep"} THEN 3 ELSE 2)

(* The edges of node n in one level, and in a range of levels, of table f.    *)
TailEdges(f, n, l) == {e \in f[l] : TailOf[e] = n}
WindowEdges(f, n, first, last) == UNION {TailEdges(f, n, l) : l \in first .. last}

DegreesExact ==
    maxLevel >= 0 =>
        \A n \in Node : degree[maxLevel][n] = Cardinality(WindowEdges(edges, n, minLevel, maxLevel))

SparseInv == vtLive \subseteq Nat /\ sparse \subseteq Nat /\ SparseOld

LEMMA SparseStep == Inv /\ SparseInv /\ [Next]_vars => SparseInv'
  <1> SUFFICES ASSUME Inv, SparseInv, [Next]_vars PROVE SparseInv'
    OBVIOUS
  <1> USE DEF SparseInv, SparseOld, Inv, Numbers
  <1>1. CASE LoaderDecides \/ LoaderPulls \/ LoaderCounts \/ LoaderTestsFlag
             \/ TaskFills \/ TaskSlides \/ TaskPublishes
    <2>1. UNCHANGED <<maxLevel, vtLive, sparse>>
          /\ (lpc' \in {"fill", "slide", "delete", "keep"} <=>
                  lpc \in {"fill", "slide", "delete", "keep"})
      BY <1>1 DEF LoaderDecides, LoaderPulls, LoaderCounts, LoaderTestsFlag, TaskFills,
                  TaskSlides, TaskPublishes, graph
    <2> QED
      BY <2>1
  <1>2. CASE TaskCreates
    <2>1. maxLevel' = maxLevel + 1 /\ maxLevel + 1 \in Nat /\ sparse' = sparse
          /\ vtLive' = vtLive \cup {maxLevel + 1} /\ lpc = "create" /\ lpc' = "fill"
      BY <1>2 DEF TaskCreates
    <2> QED
      BY <2>1
  <1>3. CASE TaskDeletes
    BY <1>3 DEF TaskDeletes
  <1>4. CASE TaskKeeps
    BY <1>4 DEF TaskKeeps, Keep
  <1>5. CASE Driver
    <2>1. UNCHANGED <<loader, graph>>
      BY <1>5, Zenon DEF Driver, DriverSchedules, DriverWaits, DriverLoops,
                         DriverClonesVertices, DriverClonesMin, DriverClonesTables,
                         DriverComputes, DriverResets
    <2> QED
      BY <2>1 DEF loader, graph
  <1>6. CASE Terminate \/ UNCHANGED vars
    BY <1>6 DEF Terminate, vars, loader, graph
  <1> QED
    BY <1>1, <1>2, <1>3, <1>4, <1>5, <1>6 DEF Next, Loader

LEMMA SparseAlways == Spec => []SparseInv
  <1>1. Init => SparseInv
    BY DEF Init, SparseInv, SparseOld
  <1> QED
    BY <1>1, InvInit, InvStep, SparseStep, PTL DEF Spec

(* The edges of a window are edges.                                           *)
LEMMA WindowIsFinite ==
  ASSUME Tables, NEW n \in Node, NEW first \in Nat, NEW last \in Int, last <= maxLevel
  PROVE  /\ WindowEdges(edges, n, first, last) \subseteq Edge
         /\ IsFiniteSet(WindowEdges(edges, n, first, last))
  <1>1. \A l \in first .. last : edges[l] \subseteq Edge
    BY DEF Tables, Levels
  <1>2. WindowEdges(edges, n, first, last) \subseteq Edge
    BY <1>1 DEF WindowEdges, TailEdges
  <1> QED
    BY <1>2, EdgesFinite

(* Two disjoint sets of edges.                                                *)
LEMMA DisjointSum ==
  ASSUME NEW S, NEW T, S \subseteq Edge, T \subseteq Edge, S \cap T = {}
  PROVE  Cardinality(S \cup T) = Cardinality(S) + Cardinality(T)
  <1>1. IsFiniteSet(S) /\ IsFiniteSet(T) /\ Cardinality(S) \in Nat /\ Cardinality(T) \in Nat
    BY EdgesFinite
  <1>2. Cardinality(S \cup T) = Cardinality(S) + Cardinality(T) - Cardinality(S \cap T)
    BY <1>1, FS_Union
  <1> QED
    BY <1>1, <1>2, FS_EmptySet

(* The tables a new level brings keep the degrees exact.                      *)
LEMMA CreateDegrees ==
  ASSUME Inv, EdgesInv, BoundsInv, DegreesExact, TaskCreates
  PROVE  DegreesExact'
  <1> DEFINE m == maxLevel + 1
  <1>1. maxLevel \in Nat \cup {-1} /\ m \in Nat /\ maxLevel' = m /\ minLevel' = minLevel
        /\ minLevel \in Nat /\ lpc = "create" /\ minLevel <= m
    BY WindowAssumption
       DEF TaskCreates, EdgesInv, Tables, Inv, Numbers, BoundsInv, SlidExact, Made, Oldest, NumLevels
  <1>2. edges' = [k \in 0 .. m |-> IF k = m THEN {} ELSE edges[k]]
    BY DEF TaskCreates
  <1>3. degree' = [k \in 0 .. m |-> IF k < m THEN degree[k]
                                    ELSE IF m = 0 THEN [n \in Node |-> 0] ELSE degree[m - 1]]
    BY DEF TaskCreates
  <1> HIDE DEF m
  <1>4. ASSUME NEW n \in Node
        PROVE  degree'[m][n] = Cardinality(WindowEdges(edges', n, minLevel, m))
    <2>1. WindowEdges(edges', n, minLevel, m) = WindowEdges(edges, n, minLevel, m - 1)
      <3>1. \A l \in minLevel .. m - 1 : TailEdges(edges', n, l) = TailEdges(edges, n, l)
        BY <1>1, <1>2 DEF TailEdges
      <3>2. TailEdges(edges', n, m) = {}
        BY <1>1, <1>2 DEF TailEdges
      <3>3. minLevel .. m = (minLevel .. (m - 1)) \cup {m}
        BY <1>1
      <3> QED
        BY <1>1, <3>1, <3>2, <3>3 DEF WindowEdges
    <2>2. CASE m = 0
      <3>1. WindowEdges(edges, n, minLevel, m - 1) = {}
        BY <1>1, <2>2 DEF WindowEdges
      <3> QED
        BY <1>1, <1>3, <2>1, <2>2, <3>1, FS_EmptySet
    <2>3. CASE m # 0
      <3>1. m - 1 = maxLevel /\ maxLevel >= 0
        BY <1>1, <2>3 DEF m
      <3> QED
        BY <1>1, <1>3, <2>1, <2>3, <3>1 DEF DegreesExact
    <2> QED
      BY <2>2, <2>3
  <1> QED
    BY <1>1, <1>4 DEF DegreesExact

(* So does filling it.                                                        *)
LEMMA FillDegrees ==
  ASSUME Inv, EdgesInv, BoundsInv, DegreesExact, TaskFills
  PROVE  DegreesExact'
  <1> DEFINE m == maxLevel
  <1>1. m \in Nat /\ maxLevel' = m /\ minLevel' = minLevel /\ minLevel \in Nat
        /\ edges[m] = {} /\ minLevel <= m /\ ~ Filled /\ m \in Levels
    BY WindowAssumption
       DEF TaskFills, EdgesInv, Tables, Building, Filled, Inv, Numbers, BoundsInv, SlidExact, Made, Oldest,
           NumLevels, Levels
  <1>2. edges' = [edges EXCEPT ![m] = buffer]
    BY DEF TaskFills
  <1>3. degree' = [degree EXCEPT ![m] =
            [n \in Node |-> @[n] + Cardinality({e \in buffer : TailOf[e] = n})]]
    BY DEF TaskFills
  <1>4. \A l \in 0 .. m : edges'[l] = IF l = m THEN buffer ELSE edges[l]
    BY <1>1, <1>2 DEF EdgesInv, Tables, Levels
  <1>5. \A n \in Node : degree'[m][n] = degree[m][n] + Cardinality({e \in buffer : TailOf[e] = n})
    BY <1>1, <1>3 DEF EdgesInv, Tables
  <1> HIDE DEF m
  <1>6. ASSUME NEW n \in Node
        PROVE  degree'[m][n] = Cardinality(WindowEdges(edges', n, minLevel, m))
    <2> DEFINE S == WindowEdges(edges, n, minLevel, m)
               T == {e \in buffer : TailOf[e] = n}
    <2>1. degree[m][n] = Cardinality(S)
      BY <1>1 DEF DegreesExact, m
    <2>2. minLevel .. m = (minLevel .. (m - 1)) \cup {m}
      BY <1>1
    <2>3. \A l \in minLevel .. m - 1 : TailEdges(edges', n, l) = TailEdges(edges, n, l)
      BY <1>1, <1>4 DEF TailEdges
    <2>4. TailEdges(edges', n, m) = T /\ TailEdges(edges, n, m) = {}
      BY <1>1, <1>4 DEF TailEdges
    <2>5. WindowEdges(edges', n, minLevel, m) = S \cup T
      BY <1>1, <2>2, <2>3, <2>4 DEF WindowEdges
    <2>6. S \subseteq Edge
      BY <1>1, WindowIsFinite DEF EdgesInv, m
    <2>7. T \subseteq Edge
      BY DEF EdgesInv, Tables
    <2>8. S \cap T = {}
      <3>1. \A l \in minLevel .. m : edges[l] \cap buffer = {}
        BY <1>1 DEF EdgesInv, EdgesKeptOnce, Levels, m
      <3> QED
        BY <3>1 DEF WindowEdges, TailEdges
    <2> HIDE DEF S, T
    <2>9. Cardinality(S \cup T) = Cardinality(S) + Cardinality(T)
      BY <2>6, <2>7, <2>8, DisjointSum
    <2> QED
      BY <1>5, <2>1, <2>5, <2>9 DEF T
  <1> QED
    BY <1>1, <1>6 DEF DegreesExact

(* Sliding the window on takes off the edges of the levels that leave it.     *)
LEMMA SlideDegrees ==
  ASSUME DegreesAssumption, Inv, EdgesInv, BoundsInv, SparseInv, DegreesExact, TaskSlides
  PROVE  DegreesExact'
  <1> DEFINE m == maxLevel
             k == NumLevels - Window
  <1>1. m \in Nat /\ maxLevel' = m /\ edges' = edges /\ minLevel \in Nat /\ lpc = "slide"
        /\ m \in Levels
    BY DEF TaskSlides, EdgesInv, Tables, Building, Inv, Numbers, Levels
  <1>2. CASE NumLevels >= Window
    <2>1. k \in Nat /\ minLevel <= k /\ k <= m + 1 /\ minLevel' = k /\ minLevel >= k - 1
          /\ k = m + 2 - Window
      BY <1>1, <1>2, WindowAssumption DEF TaskSlides, BoundsInv, SlidExact, Made, Oldest, NumLevels
    <2>2. degree' = [degree EXCEPT ![m] = [n \in Node |->
              @[n] - Cardinality(UNION {AgedOff(n, l) : l \in minLevel .. (k - 1)})]]
      BY <1>2 DEF TaskSlides
    <2>3. \A n \in Node : degree'[m][n] =
              degree[m][n] - Cardinality(UNION {AgedOff(n, l) : l \in minLevel .. (k - 1)})
      BY <1>1, <2>2 DEF EdgesInv, Tables
    <2> HIDE DEF m, k
    <2>4. ASSUME NEW n \in Node, NEW l \in minLevel .. (k - 1)
          PROVE  AgedOff(n, l) = TailEdges(edges, n, l)
      <3>1. l <= maxLevel
        BY <1>1, <2>1 DEF m
      <3>2. ~ (l \in sparse /\ n \in LastPage)
        <4>1. CASE LastPage = {}
          BY <4>1
        <4>2. CASE Window <= 3
          <5>1. \A x \in sparse : x <= maxLevel - 3
            BY <1>1 DEF SparseInv, SparseOld
          <5>2. l > maxLevel - 3
            BY <1>1, <2>1, <4>2, WindowAssumption DEF m
          <5>3. l \in Int /\ maxLevel \in Int
            BY <1>1 DEF m
          <5> QED
            BY <5>1, <5>2, <5>3
        <4> QED
          BY <4>1, <4>2 DEF DegreesAssumption
      <3>3. ~ (l > maxLevel)
        BY <1>1, <3>1 DEF m
      <3> QED
        BY <3>2, <3>3 DEF AgedOff, EdgesOf, TailEdges
    <2>5. ASSUME NEW n \in Node
          PROVE  degree'[m][n] = Cardinality(WindowEdges(edges', n, k, m))
      <3> DEFINE S == WindowEdges(edges, n, k, m)
                 T == WindowEdges(edges, n, minLevel, k - 1)
      <3>1. UNION {AgedOff(n, l) : l \in minLevel .. (k - 1)} = T
        BY <2>4 DEF WindowEdges
      <3>2. WindowEdges(edges', n, k, m) = S
        BY <1>1, <2>1 DEF WindowEdges, TailEdges
      <3>3. minLevel .. m = (minLevel .. (k - 1)) \cup (k .. m)
        BY <1>1, <2>1
      <3>4. WindowEdges(edges, n, minLevel, m) = S \cup T
        BY <3>3 DEF WindowEdges
      <3>5. S \subseteq Edge /\ T \subseteq Edge
        BY <1>1, <2>1, WindowIsFinite DEF EdgesInv, m
      <3>6. S \cap T = {}
        <4>1. ASSUME NEW i \in k .. m, NEW j \in minLevel .. (k - 1)
              PROVE  edges[i] \cap edges[j] = {}
          <5>1. i \in Levels /\ j \in Levels /\ i # j
            BY <1>1, <2>1 DEF Levels, m
          <5> QED
            BY <5>1 DEF EdgesInv, EdgesKeptOnce
        <4> QED
          BY <4>1 DEF WindowEdges, TailEdges
      <3>7. degree[m][n] = Cardinality(WindowEdges(edges, n, minLevel, m))
        BY <1>1 DEF DegreesExact, m
      <3> HIDE DEF S, T
      <3>8. degree[m][n] = Cardinality(S \cup T)
        BY <3>4, <3>7
      <3>9. Cardinality(S \cup T) = Cardinality(S) + Cardinality(T)
            /\ Cardinality(S) \in Nat /\ Cardinality(T) \in Nat
        BY <3>5, <3>6, DisjointSum, EdgesFinite
      <3>10. degree'[m][n] = Cardinality(S)
        BY <2>3, <3>1, <3>8, <3>9
      <3> QED
        BY <3>2, <3>10
    <2> QED
      BY <1>1, <2>1, <2>5 DEF DegreesExact, m
  <1>3. CASE ~ (NumLevels >= Window)
    BY <1>1, <1>3 DEF TaskSlides, DegreesExact, WindowEdges, TailEdges
  <1> QED
    BY <1>2, <1>3

(* The steps that leave the latest level and the bounds alone.                *)
LEMMA DegreesStay ==
  ASSUME DegreesExact, UNCHANGED <<maxLevel, minLevel, edges, degree>>
  PROVE  DegreesExact'
  BY DEF DegreesExact

LEMMA DegreesStep ==
    DegreesAssumption /\ Inv /\ EdgesInv /\ BoundsInv /\ SparseInv /\ DegreesExact /\ [Next]_vars
        => DegreesExact'
  <1> SUFFICES ASSUME DegreesAssumption, Inv, EdgesInv, BoundsInv, SparseInv, DegreesExact,
                      [Next]_vars
               PROVE  DegreesExact'
    OBVIOUS
  <1>1. CASE TaskCreates \/ TaskFills \/ TaskSlides
    BY <1>1, CreateDegrees, FillDegrees, SlideDegrees
  <1>2. CASE LoaderDecides \/ LoaderPulls \/ LoaderCounts \/ LoaderTestsFlag
             \/ TaskDeletes \/ TaskKeeps \/ TaskPublishes
    BY <1>2, DegreesStay DEF LoaderDecides, LoaderPulls, LoaderCounts, LoaderTestsFlag,
       TaskDeletes, TaskKeeps, TaskPublishes, graph
  <1>3. CASE Driver
    <2>1. UNCHANGED graph
      BY <1>3, Zenon DEF Driver, DriverSchedules, DriverWaits, DriverLoops,
                         DriverClonesVertices, DriverClonesMin, DriverClonesTables,
                         DriverComputes, DriverResets
    <2> QED
      BY <2>1, DegreesStay DEF graph
  <1>4. CASE Terminate \/ UNCHANGED vars
    BY <1>4, DegreesStay DEF Terminate, vars, graph
  <1> QED
    BY <1>1, <1>2, <1>3, <1>4 DEF Next, Loader

(* A clone has its level from the first step of its constructor on.           *)
Cloned == dpc \in {"cloneMin", "cloneTables", "compute"}

(* What a task writes is above the levels a clone has.                        *)
LEMMA CloneUntouched ==
  ASSUME Inv, EdgesInv, [Next]_vars, Cloned
  PROVE  /\ \A l \in 0 .. clone.level : edges'[l] = edges[l]
         /\ degree'[clone.level] = degree[clone.level]
  <1>1. /\ clone.level \in Nat /\ clone.level <= maxLevel /\ maxLevel \in Int
        /\ lpc \in {"fill", "slide"} => clone.level < maxLevel
    BY DEF Inv, Numbers, Announced, CloneBounds, Cloned
  <1>2. CASE TaskCreates
    <2> DEFINE m == maxLevel + 1
    <2>1. edges' = [k \in 0 .. m |-> IF k = m THEN {} ELSE edges[k]]
      BY <1>2 DEF TaskCreates
    <2>2. degree' = [k \in 0 .. m |-> IF k < m THEN degree[k]
                                      ELSE IF m = 0 THEN [n \in Node |-> 0] ELSE degree[m - 1]]
      BY <1>2 DEF TaskCreates
    <2>3. m \in Int /\ clone.level < m
      BY <1>1
    <2> HIDE DEF m
    <2> QED
      BY <1>1, <2>1, <2>2, <2>3
  <1>3. CASE TaskFills
    <2>1. lpc = "fill" /\ edges' = [edges EXCEPT ![maxLevel] = buffer]
          /\ clone.level < maxLevel /\ clone.level \in Levels
          /\ edges \in [Levels -> SUBSET Edge] /\ degree \in [Levels -> [Node -> Int]]
      BY <1>1, <1>3 DEF TaskFills, EdgesInv, Tables, Levels
    <2>2. degree' = [degree EXCEPT ![maxLevel] =
              [n \in Node |-> @[n] + Cardinality({e \in buffer : TailOf[e] = n})]]
      BY <1>3 DEF TaskFills
    <2>3. \A l \in 0 .. clone.level : l \in Levels /\ l # maxLevel
      BY <1>1, <2>1 DEF Levels
    <2> QED
      BY <1>1, <2>1, <2>2, <2>3
  <1>4. CASE TaskSlides
    <2>1. edges' = edges /\ clone.level # maxLevel
      BY <1>1, <1>4 DEF TaskSlides
    <2>2. clone.level \in Levels /\ degree \in [Levels -> [Node -> Int]]
      BY <1>1 DEF EdgesInv, Tables, Levels
    <2>3. CASE NumLevels >= Window
      <3>1. degree' = [degree EXCEPT ![maxLevel] = [n \in Node |->
                 @[n] - Cardinality(UNION {AgedOff(n, l) :
                            l \in minLevel .. (NumLevels - Window - 1)})]]
        BY <1>4, <2>3 DEF TaskSlides
      <3> QED
        BY <2>1, <2>2, <3>1
    <2>4. CASE ~ (NumLevels >= Window)
      BY <1>4, <2>4, <2>1 DEF TaskSlides
    <2> QED
      BY <2>3, <2>4
  <1>5. CASE LoaderDecides \/ LoaderPulls \/ LoaderCounts \/ LoaderTestsFlag
             \/ TaskDeletes \/ TaskKeeps \/ TaskPublishes
    BY <1>5 DEF LoaderDecides, LoaderPulls, LoaderCounts, LoaderTestsFlag,
       TaskDeletes, TaskKeeps, TaskPublishes, graph
  <1>6. CASE Driver
    <2>1. UNCHANGED graph
      BY <1>6, Zenon DEF Driver, DriverSchedules, DriverWaits, DriverLoops,
                         DriverClonesVertices, DriverClonesMin, DriverClonesTables,
                         DriverComputes, DriverResets
    <2> QED
      BY <2>1 DEF graph
  <1>7. CASE Terminate \/ UNCHANGED vars
    BY <1>7 DEF Terminate, vars, graph
  <1> QED
    BY <1>2, <1>3, <1>4, <1>5, <1>6, <1>7 DEF Next, Loader

(* A clone gets its level, or keeps it.                                       *)
LEMMA CloneBegins ==
  ASSUME Inv, [Next]_vars, Cloned'
  PROVE  \/ Cloned /\ clone'.level = clone.level
         \/ /\ clone'.level = maxLevel /\ maxLevel = good /\ maxLevel \in Nat
            /\ UNCHANGED <<edges, degree>>
  <1>1. CASE Loader
    <2>1. UNCHANGED driver
      BY <1>1, Zenon DEF Loader, LoaderDecides, LoaderPulls, LoaderCounts, LoaderTestsFlag,
         TaskCreates, TaskFills, TaskSlides, TaskDeletes, TaskKeeps, TaskPublishes
    <2> QED
      BY <2>1 DEF driver, Cloned
  <1>2. CASE DriverClonesVertices
    BY <1>2 DEF DriverClonesVertices, graph, Inv, Numbers, Announced, Cloning, Cloned
  <1>3. CASE DriverClonesMin \/ DriverClonesTables
    BY <1>3 DEF DriverClonesMin, DriverClonesTables, Inv, Numbers, Cloned
  <1>4. CASE DriverSchedules \/ DriverWaits \/ DriverLoops \/ DriverComputes \/ DriverResets
    BY <1>4 DEF DriverSchedules, DriverWaits, DriverLoops, DriverComputes, DriverResets, Cloned
  <1>5. CASE Terminate \/ UNCHANGED vars
    BY <1>5 DEF Terminate, vars, driver, Cloned
  <1> QED
    BY <1>1, <1>2, <1>3, <1>4, <1>5 DEF Next, Driver

CloneDegrees ==
    Cloned =>
        \A n \in Node : degree[clone.level][n] =
                            Cardinality(WindowEdges(edges, n, Oldest(clone.level), clone.level))

LEMMA CloneDegreesStep ==
    Inv /\ EdgesInv /\ BoundsInv /\ DegreesExact /\ CloneDegrees /\ [Next]_vars => CloneDegrees'
  <1> SUFFICES ASSUME Inv, EdgesInv, BoundsInv, DegreesExact, CloneDegrees, [Next]_vars, Cloned',
                      NEW n \in Node
               PROVE  degree'[clone'.level][n] =
                          Cardinality(WindowEdges(edges', n, Oldest(clone'.level), clone'.level))
    BY DEF CloneDegrees, Oldest
  <1>1. CASE Cloned /\ clone'.level = clone.level
    <2> DEFINE k == clone.level
               o == Oldest(k)
    <2>1. /\ \A l \in 0 .. k : edges'[l] = edges[l]
          /\ degree'[k] = degree[k]
      BY <1>1, CloneUntouched
    <2>2. o .. k \subseteq 0 .. k
      BY WindowAssumption DEF Inv, Numbers, Oldest
    <2>3. degree[k][n] = Cardinality(WindowEdges(edges, n, o, k)) /\ clone'.level = k
      BY <1>1 DEF CloneDegrees
    <2> HIDE DEF k, o
    <2>4. WindowEdges(edges', n, o, k) = WindowEdges(edges, n, o, k)
      BY <2>1, <2>2 DEF WindowEdges, TailEdges
    <2> QED
      BY <2>1, <2>3, <2>4 DEF o
  <1>2. CASE /\ clone'.level = maxLevel /\ maxLevel = good /\ maxLevel \in Nat
             /\ UNCHANGED <<edges, degree>>
    <2>1. lpc \notin {"fill", "slide"}
      BY <1>2 DEF Inv, Announced
    <2>2. minLevel = Oldest(maxLevel)
      BY <1>2, <2>1, WindowAssumption DEF BoundsInv, SlidExact, Made, NumLevels, Oldest
    <2>3. degree[maxLevel][n] = Cardinality(WindowEdges(edges, n, minLevel, maxLevel))
      BY <1>2 DEF DegreesExact
    <2> QED
      BY <1>2, <2>2, <2>3
  <1> QED
    BY <1>1, <1>2, CloneBegins

(* Theorem: on every node, the degree a computation reads is the number of    *)
(* the edges in the window of its level, which later tasks do not touch, in a *)
(* window of at most three snapshots or without nodes on the last page, which *)
(* a sparse vertex table does not list.                                       *)
THEOREM DegreesWindow == ASSUME DegreesAssumption PROVE Spec => []DegreesOfWindow
  <1>1. Init => DegreesExact /\ CloneDegrees
    BY DEF Init, DegreesExact, CloneDegrees, Cloned
  <1>2. CloneDegrees => DegreesOfWindow
    BY DEF CloneDegrees, Cloned, DegreesOfWindow, WindowEdges, TailEdges, EdgesOf
  <1>3. Inv /\ EdgesInv /\ BoundsInv /\ SparseInv /\ DegreesExact /\ CloneDegrees /\ [Next]_vars
            => DegreesExact' /\ CloneDegrees'
    BY DegreesStep, CloneDegreesStep
  <1> QED
    BY <1>1, <1>2, <1>3, BoundsAlways, SparseAlways, PTL DEF Spec
=============================================================================
