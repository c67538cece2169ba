---------------------------- MODULE SlidingWindow ----------------------------
(* The streaming driver (SLOTH) of ll_streaming.h in its default build, where *)
(* the loader thread creates read-only levels directly                        *)
(* (ll_stream_ro_level_loader) and the task thread computes on clones of the  *)
(* graph: the two sections of ll_sliding_window_driver::run.                  *)
(*                                                                            *)
(* An edge is a number, the position at which the data source gives it, and   *)
(* TailOf is its tail node. A level is the set of the edges loaded by one     *)
(* task, with the precomputed degrees of its vertex table. Level numbers      *)
(* start at 0.                                                                *)
EXTENDS Integers, FiniteSets

CONSTANTS
    Edge,         \* the edges the data source gives, 1 .. n
    Node,         \* the nodes
    TailOf,       \* the tail of each edge
    LastPage,     \* the nodes on the last page of the vertex tables
    Window,       \* swc_window_snapshots
    PullSize,     \* next_batch_size()
    MaxBatch,     \* sc_max_edges_per_batch
    MaxAdvances   \* swc_max_advances, and the bound on the number of batches

ASSUME WindowAssumption == Window \in Nat \ {0}
ASSUME BatchAssumption  == PullSize \in Nat \ {0} /\ MaxBatch \in Nat \ {0}
ASSUME DataAssumption   == /\ Edge \subseteq Nat
                           /\ IsFiniteSet(Edge)
                           /\ TailOf \in [Edge -> Node]
                           /\ LastPage \subseteq Node
                           /\ MaxAdvances \in Nat \ {0}

VARIABLES
    lpc,       \* where the loader thread is
    batch,     \* the size of the pull it decided on, then the number of edges it got
    pulled,    \* the edges the data source has given
    buffer,    \* _buffer
    inBatch,   \* _requests_in_current_batch
    runTask,   \* _run_task
    stop,      \* _terminate of the loader
    good,      \* _last_good_level
    maxLevel,  \* the latest level of the graph
    minLevel,  \* _minLevel
    edges,     \* level -> the edges of its edge table
    degree,    \* level -> node -> the degree in its vertex table
    adjLive,   \* the levels whose edge table is allocated
    vtLive,    \* the levels whose vertex table is allocated
    sparse,    \* the levels with a sparse vertex table
    dpc,       \* where the driver (task thread) is
    returned,  \* _last_returned_level
    clone,     \* the clone the computation reads: its level, its _minLevel and
               \* the levels whose edge tables it was given
    advances,  \* _batch
    quit       \* how far a call of the driver's terminate() is

graph  == <<maxLevel, minLevel, edges, degree, adjLive, vtLive, sparse>>
loader == <<lpc, batch, pulled, buffer, good>>
driver == <<dpc, returned, clone, advances>>
vars   == <<loader, inBatch, runTask, stop, graph, driver, quit>>

Least(a, b) == IF a <= b THEN a ELSE b

(* num_levels() of the writable graph counts the level being written.         *)
NumLevels == maxLevel + 2

NoClone == [level |-> -1, min |-> 0, tables |-> {}]

(* The driver's constructor: all versions are kept for a window of 3 only.    *)
Keep == IF Window = 3 THEN -1 ELSE 2

EdgesOf(n, l) == {e \in edges[l] : TailOf[e] = n}

Init ==
    /\ lpc = "loop" /\ batch = 0 /\ pulled = {} /\ buffer = {}
    /\ inBatch = 0 /\ runTask = FALSE /\ stop = FALSE /\ quit = "no"
    /\ good = -1 /\ maxLevel = -1 /\ minLevel = 0
    /\ edges = [l \in {} |-> {}] /\ degree = [l \in {} |-> [n \in Node |-> 0]]
    /\ adjLive = {} /\ vtLive = {} /\ sparse = {}
    /\ dpc = "first" /\ returned = -2 /\ advances = 0
    /\ clone = NoClone

(* The process is gone once a clone of a missing level was attempted.         *)
Running == dpc # "aborted"

----------------------------------------------------------------------------
(* The loader thread: ll_stream_buffer_loader::run and task().                *)

\* Mutants: a pull is not cut to what is left of the batch; the flag is looked
\* at only while the batch is not full.
LoaderDecidesUncut ==
    /\ Running /\ lpc = "loop"
    /\ IF stop
       THEN lpc' = "ended" /\ batch' = 0
       ELSE /\ batch' = IF inBatch >= MaxBatch THEN 0 ELSE PullSize
            /\ lpc' = "pull"
    /\ UNCHANGED <<pulled, buffer, good, inBatch, runTask, stop, graph, driver, quit>>
LoaderDecidesFull ==
    /\ Running /\ lpc = "loop"
    /\ IF stop /\ inBatch < MaxBatch
       THEN lpc' = "ended" /\ batch' = 0
       ELSE /\ batch' = IF inBatch + PullSize > MaxBatch
                        THEN IF inBatch >= MaxBatch THEN 0 ELSE MaxBatch - inBatch
                        ELSE PullSize
            /\ lpc' = "pull"
    /\ UNCHANGED <<pulled, buffer, good, inBatch, runTask, stop, graph, driver, quit>>

(* The loop condition and the size of the next pull.                          *)
LoaderDecides ==
    /\ Running /\ lpc = "loop"
    /\ IF stop
       THEN lpc' = "ended" /\ batch' = 0
       ELSE /\ batch' = IF inBatch + PullSize > MaxBatch
                        THEN IF inBatch >= MaxBatch THEN 0 ELSE MaxBatch - inBatch
                        ELSE PullSize
            /\ lpc' = "pull"
    /\ UNCHANGED <<pulled, buffer, good, inBatch, runTask, stop, graph, driver, quit>>

(* next_edge until the batch is full or the source ends; nothing at all ends  *)
(* the thread, whatever is scheduled.                                         *)
LoaderPulls ==
    /\ Running /\ lpc = "pull"
    /\ LET left  == Edge \ pulled
           n     == Least(batch, Cardinality(left))
           given == {e \in left : Cardinality({f \in left : f < e}) < n}
       IN  /\ lpc' = IF batch > 0 /\ n = 0 THEN "ended" ELSE "count"
           /\ batch' = n
           /\ pulled' = pulled \cup given
           /\ buffer' = buffer \cup given
    /\ UNCHANGED <<good, inBatch, runTask, stop, graph, driver, quit>>

LoaderCounts ==
    /\ Running /\ lpc = "count"
    /\ inBatch' = inBatch + batch
    /\ batch' = 0
    /\ lpc' = "flag"
    /\ UNCHANGED <<pulled, buffer, good, runTask, stop, graph, driver, quit>>

\* Mutants: the flag stays set; it is cleared before it is tested.
LoaderTestsFlagKeeps ==
    /\ Running /\ lpc = "flag"
    /\ lpc' = IF runTask THEN "create" ELSE "loop"
    /\ UNCHANGED <<batch, pulled, buffer, good, inBatch, runTask, stop, graph, driver, quit>>
LoaderTestsFlagCleared ==
    /\ Running /\ lpc = "flag"
    /\ lpc' = "loop"
    /\ runTask' = FALSE
    /\ UNCHANGED <<batch, pulled, buffer, good, inBatch, stop, graph, driver, quit>>

(* if (_run_task) { _run_task = false; task(...) }                            *)
LoaderTestsFlag ==
    /\ Running /\ lpc = "flag"
    /\ lpc' = IF runTask THEN "create" ELSE "loop"
    /\ runTask' = FALSE
    /\ UNCHANGED <<batch, pulled, buffer, good, inBatch, stop, graph, driver, quit>>

(* load_direct, first half: the tables of the new level are allocated, copied *)
(* from the previous vertex table, and _max_level already names it.           *)
TaskCreates ==
    LET l == maxLevel + 1 IN
    /\ Running /\ lpc = "create"
    /\ maxLevel' = l
    /\ edges' = [k \in 0 .. l |-> IF k = l THEN {} ELSE edges[k]]
    /\ degree' = [k \in 0 .. l |->
           IF k < l THEN degree[k]
           ELSE IF l = 0 THEN [n \in Node |-> 0] ELSE degree[l - 1]]
    /\ adjLive' = adjLive \cup {l}
    /\ vtLive' = vtLive \cup {l}
    /\ lpc' = "fill"
    /\ UNCHANGED <<batch, pulled, buffer, good, inBatch, runTask, stop, minLevel,
                   sparse, driver, quit>>

(* load_direct, second half: init_node and the edges of each node.            *)
TaskFills ==
    /\ Running /\ lpc = "fill"
    /\ edges' = [edges EXCEPT ![maxLevel] = buffer]
    /\ degree' = [degree EXCEPT ![maxLevel] =
           [n \in Node |-> @[n] + Cardinality({e \in buffer : TailOf[e] = n})]]
    /\ lpc' = "slide"
    /\ UNCHANGED <<batch, pulled, buffer, good, inBatch, runTask, stop, maxLevel,
                   minLevel, adjLive, vtLive, sparse, driver, quit>>

(* The edges set_min_level() takes off the latest degree of n for level l. A  *)
(* sparse vertex table never lists the nodes of the last page.                *)
AgedOff(n, l) ==
    IF l > maxLevel \/ (l \in sparse /\ n \in LastPage) THEN {} ELSE EdgesOf(n, l)

\* Mutants: one level too many is aged off; the window is one level too large.
TaskSlidesTooFar ==
    /\ Running /\ lpc = "slide"
    /\ IF NumLevels >= Window
       THEN /\ minLevel' = NumLevels - Window
            /\ degree' = [degree EXCEPT ![maxLevel] = [n \in Node |->
                   @[n] - Cardinality(UNION {AgedOff(n, l) :
                              l \in minLevel .. (NumLevels - Window)})]]
       ELSE UNCHANGED <<minLevel, degree>>
    /\ lpc' = "delete"
    /\ UNCHANGED <<batch, pulled, buffer, good, inBatch, runTask, stop, maxLevel,
                   edges, adjLive, vtLive, sparse, driver, quit>>
TaskSlidesLate ==
    /\ Running /\ lpc = "slide"
    /\ IF NumLevels > Window + 1
       THEN /\ minLevel' = NumLevels - Window - 1
            /\ degree' = [degree EXCEPT ![maxLevel] = [n \in Node |->
                   @[n] - Cardinality(UNION {AgedOff(n, l) :
                              l \in minLevel .. (NumLevels - Window - 2)})]]
       ELSE UNCHANGED <<minLevel, degree>>
    /\ lpc' = "delete"
    /\ UNCHANGED <<batch, pulled, buffer, good, inBatch, runTask, stop, maxLevel,
                   edges, adjLive, vtLive, sparse, driver, quit>>

(* set_min_level() when the window is full.                                   *)
TaskSlides ==
    /\ Running /\ lpc = "slide"
    /\ IF NumLevels >= Window
       THEN /\ minLevel' = NumLevels - Window
            /\ degree' = [degree EXCEPT ![maxLevel] = [n \in Node |->
                   @[n] - Cardinality(UNION {AgedOff(n, l) :
                              l \in minLevel .. (NumLevels - Window - 1)})]]
       ELSE UNCHANGED <<minLevel, degree>>
    /\ lpc' = "delete"
    /\ UNCHANGED <<batch, pulled, buffer, good, inBatch, runTask, stop, maxLevel,
                   edges, adjLive, vtLive, sparse, driver, quit>>

\* Mutant: the level right below the window is deleted.
TaskDeletesEarly ==
    LET gone == {l \in {NumLevels - Window - 1} : l >= 0} IN
    /\ Running /\ lpc = "delete"
    /\ adjLive' = adjLive \ gone
    /\ vtLive' = vtLive \ gone
    /\ sparse' = sparse \ gone
    /\ lpc' = "keep"
    /\ UNCHANGED <<batch, pulled, buffer, good, inBatch, runTask, stop, maxLevel,
                   minLevel, edges, degree, driver, quit>>

(* delete_level() of the level three below the window.                        *)
TaskDeletes ==
    LET gone == {l \in {NumLevels - Window - 3} : l >= 0} IN
    /\ Running /\ lpc = "delete"
    /\ adjLive' = adjLive \ gone
    /\ vtLive' = vtLive \ gone
    /\ sparse' = sparse \ gone
    /\ lpc' = "keep"
    /\ UNCHANGED <<batch, pulled, buffer, good, inBatch, runTask, stop, maxLevel,
                   minLevel, edges, degree, driver, quit>>

(* keep_only_recent_versions(): older vertex tables become sparse ones.       *)
TaskKeeps ==
    LET old == IF Keep > 0 THEN 0 .. (maxLevel - Keep) ELSE {} IN
    /\ Running /\ lpc = "keep"
    /\ sparse' = sparse \cup (old \cap vtLive)
    /\ vtLive' = vtLive \ old
    /\ lpc' = "publish"
    /\ UNCHANGED <<batch, pulled, buffer, good, inBatch, runTask, stop, maxLevel,
                   minLevel, edges, degree, adjLive, driver, quit>>

\* Mutant: the buffer is not emptied.
TaskPublishesFull ==
    /\ Running /\ lpc = "publish"
    /\ good' = maxLevel
    /\ lpc' = "loop"
    /\ UNCHANGED <<batch, pulled, buffer, inBatch, runTask, stop, graph, driver, quit>>

(* The end of task() and of its block in run(): the level is announced and    *)
(* the buffer is emptied.                                                     *)
TaskPublishes ==
    /\ Running /\ lpc = "publish"
    /\ good' = maxLevel
    /\ buffer' = {}
    /\ lpc' = "loop"
    /\ UNCHANGED <<batch, pulled, inBatch, runTask, stop, graph, driver, quit>>

Loader == \/ LoaderDecides \/ LoaderPulls \/ LoaderCounts \/ LoaderTestsFlag
          \/ TaskCreates \/ TaskFills \/ TaskSlides \/ TaskDeletes \/ TaskKeeps
          \/ TaskPublishes

----------------------------------------------------------------------------
(* The task thread: the second section of ll_sliding_window_driver::run.      *)

(* advance_in_background(), before the first wait, after it, and in a batch.  *)
DriverSchedules ==
    /\ dpc \in {"first", "second", "batch"}
    /\ runTask' = TRUE
    /\ dpc' = CASE dpc = "first"  -> "wait0"
                [] dpc = "second" -> "loop"
                [] dpc = "batch"  -> IF returned < 0 THEN "reset" ELSE "clone"
    /\ UNCHANGED <<returned, clone, advances, loader, inBatch, stop, graph, quit>>

(* wait_for_advance(): it polls until a level it has not returned is good.    *)
DriverWaits ==
    /\ dpc \in {"wait0", "wait"}
    /\ returned # good
    /\ returned' = good
    /\ dpc' = IF dpc = "wait0" THEN "second" ELSE "batch"
    /\ UNCHANGED <<clone, advances, loader, inBatch, runTask, stop, graph, quit>>

(* The head of the batch loop: done, the last advance, or terminate().        *)
DriverLoops ==
    /\ dpc = "loop"
    /\ IF lpc = "ended"
       THEN dpc' = "ended" /\ UNCHANGED <<stop, advances>>
       ELSE IF advances >= MaxAdvances \/ quit = "driver"
            THEN dpc' = "ended" /\ stop' = TRUE /\ UNCHANGED advances
            ELSE dpc' = "wait" /\ advances' = advances + 1 /\ UNCHANGED stop
    /\ UNCHANGED <<returned, clone, loader, inBatch, runTask, graph, quit>>

(* The read-only clone of the returned level is made without a lock, while    *)
(* the loader creates, slides and deletes levels. It takes the vertex tables  *)
(* of the master up to its latest level, which is beyond the clone's own      *)
(* levels once another one has been created: an assertion of                  *)
(* ll_mem_array_collection::operator[] fails.                                 *)
DriverClonesVertices ==
    /\ dpc = "clone"
    /\ IF maxLevel = returned
       THEN dpc' = "cloneMin" /\ clone' = [clone EXCEPT !.level = returned]
       ELSE dpc' = "aborted" /\ UNCHANGED clone
    /\ UNCHANGED <<returned, advances, loader, inBatch, runTask, stop, graph, quit>>

(* Then _minLevel, which may be that of a later window by now.                *)
DriverClonesMin ==
    /\ dpc = "cloneMin"
    /\ clone' = [clone EXCEPT !.min = minLevel]
    /\ dpc' = "cloneTables"
    /\ UNCHANGED <<returned, advances, loader, inBatch, runTask, stop, graph, quit>>

(* Then the pointers to the edge tables.                                      *)
DriverClonesTables ==
    /\ dpc = "cloneTables"
    /\ clone' = [clone EXCEPT !.tables = adjLive \cap (0 .. clone.level)]
    /\ dpc' = "compute"
    /\ UNCHANGED <<returned, advances, loader, inBatch, runTask, stop, graph, quit>>

(* compute() returns, and the clone is destroyed.                             *)
DriverComputes ==
    /\ dpc = "compute"
    /\ dpc' = "reset"
    /\ clone' = NoClone
    /\ UNCHANGED <<returned, advances, loader, inBatch, runTask, stop, graph, quit>>

(* reset_batch_counters() and the pause up to the next batch.                 *)
DriverResets ==
    /\ dpc = "reset"
    /\ inBatch' = 0
    /\ dpc' = "loop"
    /\ UNCHANGED <<returned, clone, advances, loader, runTask, stop, graph, quit>>

Driver == \/ DriverSchedules \/ DriverWaits \/ DriverLoops
          \/ DriverClonesVertices \/ DriverClonesMin \/ DriverClonesTables
          \/ DriverComputes \/ DriverResets

(* terminate() of the driver, called from outside: the loader's flag first.   *)
Terminate ==
    /\ Running /\ quit # "driver"
    /\ quit' = IF quit = "no" THEN "loader" ELSE "driver"
    /\ stop' = (stop \/ quit = "no")
    /\ UNCHANGED <<loader, inBatch, runTask, graph, driver>>

Next == Loader \/ Driver \/ Terminate
Spec == Init /\ [][Next]_vars

(* Both threads keep running: omp sections on two threads, and polling waits. *)
FairSpec == Spec /\ WF_vars(Loader) /\ WF_vars(Driver)

----------------------------------------------------------------------------
(* Properties.                                                                *)

TypeOK ==
    /\ lpc \in {"loop", "pull", "count", "flag", "create", "fill", "slide",
                "delete", "keep", "publish", "ended"}
    /\ dpc \in {"first", "wait0", "second", "loop", "wait", "batch", "clone",
                "cloneMin", "cloneTables", "compute", "reset", "ended", "aborted"}
    /\ pulled \subseteq Edge /\ buffer \subseteq Edge
    /\ batch \in Nat /\ inBatch \in Nat /\ advances \in Nat
    /\ runTask \in BOOLEAN /\ stop \in BOOLEAN /\ quit \in {"no", "loader", "driver"}
    /\ maxLevel \in Nat \cup {-1} /\ good \in Nat \cup {-1}
    /\ returned \in Nat \cup {-1, -2} /\ minLevel \in Nat
    /\ edges \in [0 .. maxLevel -> SUBSET Edge]
    /\ degree \in [0 .. maxLevel -> [Node -> Int]]
    /\ adjLive \subseteq 0 .. maxLevel /\ vtLive \subseteq 0 .. maxLevel
    /\ sparse \subseteq 0 .. maxLevel
    /\ clone \in [level : Nat \cup {-1}, min : Nat, tables : SUBSET Nat]

(* The batch limit holds although the driver resets the counter between the   *)
(* loader's reading it and its adding to it.                                  *)
BatchBound == inBatch + batch <= MaxBatch

Filled == lpc \in {"slide", "delete", "keep", "publish"}
Levels == 0 .. maxLevel

(* No edge is lost or loaded twice between the data source, the buffer and    *)
(* the levels, wherever the two threads are.                                  *)
EdgesKeptOnce ==
    /\ pulled = buffer \cup UNION {edges[l] : l \in Levels}
    /\ \A l, k \in Levels : l # k => edges[l] \cap edges[k] = {}
    /\ \A l \in Levels : (l < maxLevel \/ ~Filled) => edges[l] \cap buffer = {}

(* The first level of the window that ends with level l.                      *)
Oldest(l) == IF l + 2 >= Window THEN l + 2 - Window ELSE 0

(* What a computation reads stays allocated until it returns, while tasks it  *)
(* did not wait for create, slide and delete levels: the vertex table of its  *)
(* level, and the edge tables of its window, also those its clone took last.  *)
WindowIntact ==
    dpc = "compute" =>
        /\ clone.level \in vtLive
        /\ \A l \in clone.min .. clone.level : l \in clone.tables /\ l \in adjLive

(* The degrees a computation reads count, on every node, the edges of the     *)
(* window that ends with its level: nothing that later tasks age off reaches  *)
(* its vertex table, not even when its _minLevel is of a later window.        *)
DegreesOfWindow ==
    dpc = "compute" =>
        \A n \in Node : degree[clone.level][n] =
            Cardinality(UNION {EdgesOf(n, l) : l \in Oldest(clone.level) .. clone.level})

(* A computation sees no level that is half filled, none that is older than   *)
(* the window of its level, and at most the two oldest levels of the window   *)
(* are missing: so far the loader can get between the return of               *)
(* wait_for_advance and the clone's reading of _minLevel.                     *)
AtMostTwoMissing ==
    dpc = "compute" =>
        /\ clone.level <= good
        /\ clone.min \in Oldest(clone.level) .. (Oldest(clone.level) + 2)
        /\ \A l \in 0 .. clone.level : edges[l] \cap buffer = {}

(* At most two tasks are ahead of the level the driver returned last, counting *)
(* the scheduled one and the one taken: the margin of three levels in task()   *)
(* relies on it.                                                               *)
Scheduled == (IF runTask THEN 1 ELSE 0) + (IF lpc = "create" THEN 1 ELSE 0)
Ahead     == (maxLevel - returned) + Scheduled
TwoAhead  == Ahead <= 2

(* A waiting driver is answered as long as the loader runs.                   *)
Answered == (dpc = "wait") ~> (dpc # "wait" \/ lpc = "ended")

(* terminate() and the last advance stop the loader thread, also while the    *)
(* batch is full, a task is scheduled or under way.                           *)
StopObeyed == stop ~> (lpc = "ended" \/ dpc = "aborted")
=============================================================================
