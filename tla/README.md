# dllama in TLA+

dllama is a distributed version of LLAMA, a graph store whose data are a
writable graph in memory and a stack of read-only snapshots ("levels") in
files.  Several processes ("ranks") hold the same loaded graph.  They agree by
MPI messages before they add nodes, each adds edges on its own, checkpoints
turn the writable graph of a rank into a snapshot that is sent to all others,
and a merge replaces level 0 and all snapshots, at every rank, by one new
level 0.  This directory holds TLA+ models of that system, TLC configurations
that check them on small instances, and proofs that TLAPS checks.

Paths below are relative to the repository; `dllama/` stands for `src/dllama/`
and `ll_*.h` for `src/llama/include/llama/ll_*.h`.

## 1. Inventory

### 1.1 Components

| Component | State | Operations | Hard behaviour | Correct when |
|---|---|---|---|---|
| Node agreement (`dllama.cpp:98-163`, `snapshot_merger.cpp:158-208`) | `self_adding_node`, `num_new_node_requests` and its lock, `new_node_ack_stack`, `num_acks`, `_next_new_node_id` | `add_node(s)`, `force_add_nodes`, handlers of request, ack, command | two threads per rank, a lock taken in one message and released in another, ties, overlapping requests | every call is carried out once at every rank, one at a time, and returns |
| Checkpoint and merge protocol (`dllama.cpp:172-241`, `snapshot_merger.cpp:43-156`) | `merge_lock`, `merge_starting(_lock)`, `listener_lock`, received and expected levels, `current_snapshot_level`, files | `request_checkpoint`, `auto_checkpoint`, `start_merge`, handlers of snapshot and merge request | blocking sends under locks, merges started by several ranks, snapshots that overtake merges | no update is lost, all ranks make the same level 0, a merge ends |
| Snapshot merge (`snapshot_manager.cpp`, `snapshot_merger.cpp:372-509`) | the mapped files of all ranks | `get_neighbours_of_vertex`, `merge_snapshots`, `write_merged_snapshot` | pages of older levels, continuations, vertex counts of others that are old | the new level 0 has exactly the edges of all snapshots |
| Multi-level CSR (`ll_mlcsr_sp.h`, `ll_mlcsr_helpers.h`) | vertex and edge tables per level | `init_level*`, `init_node`, `write_values`, iterators, `degree`, `node_exists` | each level is read through what earlier ones wrote; table sizes fixed in advance | iterator and degree agree with the edges added |
| Writable graph (`ll_writable_graph.h`) | `_vertices`, counters, the read-only graph | `add_node`, `add_edge`, deletes, iterators, `checkpoint`, `refresh_ro_graph` | node locks of two nodes, checkpoint under use, readers during a refresh | writable and read-only parts together are the graph |
| Writable arrays and elements (`ll_writable_array.h`, `ll_writable_elements.h`) | pages of cells, free lists | `get_or_allocate`, `blocking_get`, page and edge allocation | sentinels claimed by compare-and-swap, lock-free lists | a cell is allocated once and nobody sees a half-made one |
| Read-only graph levels (`ll_mlcsr_graph.h`) | out, in, properties, level numbers | creation, `checkpoint`, `delete_level` | sizes of successive levels | a level never has fewer nodes than the one below |
| Properties (`ll_mlcsr_properties.h`) | dense, sparse and writable values | get, set, checkpoint | copy on write across levels | the last value set is read |
| Page manager, growable array (`ll_page_manager.h`, `ll_growable_array.h`) | page table, reference counts, free list, zero page | `allocate`, `acquire_page`, `release_page`, `append` | free list by compare-and-swap, table extended under use | a page has one owner, and is free only without references |
| Copy-on-write arrays (`ll_mem_array.h`) | pages shared by levels | `cow_write`, `cow_finish` | a page with one reference is written without a lock | older levels never change |
| Persistent storage (`ll_persistent_storage.h`) | contexts, files, level metadata, chunks | open, allocate, map, read and write headers | crash between two file operations, space allocated by several threads | a level that was finished can be read again |
| Streaming (`ll_streaming.h`) | loader thread, buffer and batch counter, window of levels, driver thread | the loader's `run` and `task`, the driver's `run`, `wait_for_advance`, `terminate` | both threads set the same counter and flag without a lock; levels are deleted under a computation | each edge goes to one batch, a computation reads levels that stay, and degrees that count its window |
| Asynchronous loader, data sources (`ll_data_source.h`, `loaders/ll_load_async_writable.h`, `loaders/ll_load_utils.h`) | queues of requests, workers | `load_incremental`, enqueue, `run`, `worker`, `shutdown_when_empty` | workers leave while requests are added; requests lock two nodes | each edge read is added once, a call returns when all are |
| External sort (`ll_external_sort.h`) | runs in files | add, sort, merge | passes of limited size | the output is the sorted input |
| simple_dllama (`simple_dllama.cpp`) | as dllama with `checkpoint_lock`, edges at every rank | `add_edge` with NEW_EDGE, `add_node(s)`, checkpoint | edges and nodes of others during a checkpoint, edges before their nodes | all ranks have all edges and number nodes alike |
| Process start and shutdown, drivers, loaders of file formats, benchmarks, applications | | | | not part of the store's logic |

`PROJECT.json` lists all of them with their status; the list of hazards there
names for each the line where it bites and the property that would catch it.
Most of the files in the repository are vendored (googletest, the graph
algorithm benchmarks and LLAMA's examples) and no part of the store.

### 1.2 How they interact

* A rank has a **main thread**, which runs the program that uses the library,
  and a **listener thread** (`start_snapshot_listener`) that probes for one MPI
  message at a time and runs its handler.  They share `shared_thread_state`.
* **Messages** between two ranks come in the order sent.  One-integer messages
  are buffered by MPI; a snapshot may be, or may wait for its receiver.
* `start_merge` runs the handler of a merge request in the main thread, under
  `listener_lock`, so that the listener and it never handle messages at once.
* A **checkpoint** reads the writable graph and adds a level to the read-only
  graph and a file to the database; a **merge** reads the files of all ranks,
  writes `new_level0.dat` and calls `refresh_ro_graph`, which destroys and
  rebuilds the read-only graph under `ro_graph_lock`.
* In `simple_dllama` the listener writes to the graph too (NEW_EDGE and the
  commands); `checkpoint_lock` keeps it out of a checkpoint.
* **Readers** see the writable graph first and continue in the read-only one.
* Inside a process, **loading** runs an OpenMP region in which one thread fills
  request queues and all threads empty them into the writable graph; **streaming**
  runs a loader thread that makes levels and a driver thread that computes on
  them, which share a counter, two flags and a level number; levels of a
  **property** share pages through the page manager.

## 2. Plan

In the order of importance for the program:

| | Modules | About | State |
|---|---|---|---|
| 1 | `NodeAgreement`, abstract `NodeReservation`, `NodeRefinement` | add_nodes | done |
| 2 | `MergeProtocol` | checkpoints, snapshots and merges as a protocol | done |
| 3 | `MultiLevelCsr`, `GraphSnapshots`, abstract `SharedGraph`, `SharedGraphRefinement` | levels, their files and their merge as data | done |
| 4 | `SimpleDllama` over `NodeRefinement` | replicated edges, node agreement and checkpoints together | done |
| 5 | `IncrementalLoad`, abstract `WorkList` | request queues, vertex slots, node locks, both adjacency lists | done |
| 6 | `SlidingWindow` | streaming: loader thread, batches, levels, window | done |
| 7 | `CowPages`, abstract `VersionedArray` | page manager, copy on write, levels of a property | done |
| 8 | a storage module | chunk allocation and headers of persistent storage, refresh against readers | left |
| 9 | a composition of `NodeAgreement` and `MergeProtocol` | a merge that brings the vertices of a command not yet carried out (`ll_mlcsr_graph.h:1542`); it has to be abstracted before TLC can run it | left |
| 10 | free lists of pages and edges in the writable graph; the writable and the single-snapshot stream loaders | | left |

What stays without a proof, and why, is at the end of section 6.

## 3. The modules

### 3.1 NodeAgreement

A call of `add_nodes` takes `num_new_node_requests_lock`, sets
`self_adding_node`, asks all ranks, waits for an ack of each, commands all,
adds its own nodes and sends the acks it put off.  One action is one stretch of
code between two points where another thread can come between: taking or
releasing a lock, one `MPI_Send` of a loop, one iteration of an adding loop.

| Variable | Code | | Variable | Code |
|---|---|---|---|---|
| `pc`, `want`, `unsent`, `left`, `lastId` | the main thread in `add_nodes` | | `reqLock` | owner of `num_new_node_requests_lock` |
| `lpc`, `from`, `lleft` | the listener in a handler | | `ackStack` | `new_node_ack_stack` |
| `selfAdding` | `self_adding_node` | | `numAcks` | `num_acks` |
| `numRequests` | `num_new_node_requests` | | `maxNodes` | `_next_new_node_id` |
| `net[p][q]` | the channel from p to q | | `calls`, `claimed` | bound, history |

`NodeReservation` says what this is for: a rank is *granted* a reservation over
all others, gives it up rank by rank by telling each the nodes to add, and is
granted nothing while another holds a reservation over it or while it has nodes
to add for another.  `NodeRefinement` maps the protocol to it.

`NodeHandshake` defines, of two ranks, where the call of one stands at the
other (`ReqSent`, `Counts`, `Replies`, `Stacked`, `AckSent`, `CmdSent`,
`Forces`), and from that the inductive invariant of the protocol
(`HandshakeInv`, section 6).

### 3.2 MergeProtocol

A graph is a set of updates: `delta` (writable graph), `files` (snapshots of
the rank), `base` (level 0), `receipts` (snapshot files of others).  The main
thread asks for a checkpoint in one of the two ways, writes it and sends it rank
by rank; `stage` is the place in `handle_merge_request`, in whichever thread
runs it.  What callers do is a parameter:

* `Fresh`: a merge is started only when each rank has checkpointed since its
  last merge (the tests and the drivers do).
* `Barrier`: checkpoints and merges are kept apart by barriers (`main.cpp` and
  the merge tests have `MPI_Barrier` between them).
* `Rendezvous`: the send of a snapshot waits for the receiver, which MPI does
  for large messages.

### 3.3 MultiLevelCsr and GraphSnapshots

`MultiLevelCsr` has no variables.  It defines what is in a level and how one is
built (`NewLevel` of `InitNode` for each node) and read: by the iterator in
memory (`RoNeighbours`, `RoDegree`, `NodeExists`), from the files
(`SnapshotNeighbours`, `FileNeighbours`, `Level0Neighbours`), and what a merge
writes (`MergedLevel`).  A page of a vertex table carries the level it was last
written at (`pc_level` of its chunk); an edge table is a sequence of cells, of
which a continuation takes two (`sizeof(ll_mlcsr_core__begin_t)` is 16).  A cell
that was never written holds -1, which is no node, so that a read of one shows.

`GraphSnapshots` gives each rank a stack of levels and a writable graph and has
four actions: `AddNode`, `AddEdge`, `Checkpoint`, `Merge`.  It looks at data, not
at interleavings: nodes are added at all ranks at once (what `NodeAgreement`
establishes for quiet ranks), a merge reads every snapshot there is (what
`MergesAgree` and `MergeSeesAll` of `MergeProtocol` establish), and edges are
added between nodes that exist.  `announced` is what other ranks know of a
rank's last vertex (`received_num_vertices`): 0 at first, and 0 again after each
merge, which forgets what was received (`snapshot_merger.cpp:136-140`), while a
rank keeps its own last vertex (`vertices`).  `current` (`current_snapshot_level`)
is kept by a merge too, so that the next one ends only when each rank announces
the snapshot the others have of it (`MergeCompletes`, `snapshot_merger.cpp:111-125`);
ranks whose loaded graph is their only level still meet that condition.  `Fresh`
is what callers do, as in 3.2: between two merges, all ranks that use
checkpoints make one (`saved`).

`SharedGraph` is the promise to the user: for each rank a bag of targets per
node.  Adding an edge adds to the bag of the rank; saving changes nothing that
is seen; a merge makes every rank see, once each, all edges that some rank had
saved, and besides its own unsaved ones.  `SharedGraphRefinement` maps the
levels to it through the iterators.

### 3.4 SimpleDllama

`SimpleDllama` extends `NodeRefinement`, and so the actions of `NodeAgreement`
are its own: the code of the two classes for nodes is the same.  It adds what
shares the threads, the channels and the node counter with them:

* `add_edge` in the main thread sends NEW_EDGE rank by rank and then adds the
  edge to its own graph; the listener adds the edges of others.  An edge is
  abstracted to the greater of its two nodes, because that is what can raise the
  node counter (`lock_node`).
* A checkpoint goes through `saving` = `lock`, `write`, `clear`, `count`: it
  takes `checkpoint_lock`, makes a level of the writable graph, clears it, counts
  the vertices and gives the lock back.  The listener takes the same lock for an
  edge and for all the nodes of a command.
* `Careful` is what callers do: an edge is added only to a node that each other
  rank has, or has been commanded to add in a message before the edge.
  `main.cpp:193-203` adds nodes and then edges to them.  The run `early_edge` is
  without.

`made` counts the calls; `fresh`, `saved` and the edges in channels have to add
up to them (`EdgesAccounted`).

### 3.5 IncrementalLoad

One call of `load_incremental` is a parallel region: thread 0 runs
`load_to_request_queues` (`LoadEdge`, `LoadEnds`), tells the queues to shut down
and then works through all queues in order; the other threads work from their
own queue on (`worker`).  A request finds or makes the slot of each node
(`find`, `allocate`: a slot is `nil`, `block` while one thread makes the node,
or `node`), locks its two nodes in the order of their ids, raises the id
counter, links the edge into the out-list of one and the in-list of the other
and unlocks.  `Return` is the barrier at the end of the region, `CallAgain` the
next call when the source has more (`ChunkSize`).

`WorkList` is the promise: edges are taken, each is applied once in any order,
and a call returns only when all that were taken are applied.

### 3.6 SlidingWindow

Two threads and a call of `terminate()` from outside.  `lpc` is the place of
the loader in its loop (`loop` decides the size of a pull, `pull`, `count`,
`flag` tests for a scheduled task) and in `task()` (`create` a level, `fill` it
with the buffer, `slide` the window, `delete` edge tables below it, `keep` only
recent vertex tables, `publish` the level number and clear the buffer).  `dpc` is
the place of the driver.  Each shared field (`inBatch`, `runTask`, `stop`,
`good`) is read and written in the steps in which the code does, since no lock
protects them.

A level is a set of edges and the degrees of its vertex table; `adjLive` and
`vtLive` are the tables that are allocated.  `clone` is what a computation
reads.  A read-only clone is made in three steps, with the loader's between
them, since it reads the newest vertex table, then `_minLevel`, then the edge
tables, none under a lock (`ll_mlcsr_sp.h:275-331`).  When the newest vertex table
is of another level than asked for, the code's assertion fails: state `aborted`.
A level created after it is not seen, but `_minLevel` may be that of a window to
which the loader has slid since (`AtMostTwoMissing`).  The
default window is 3, for which `keep_only_recent_versions` is told to keep all
vertex tables; `TaskKeeps` models other windows too.

### 3.7 CowPages

The page manager is a record `pm` (reference counts, contents, the zero page,
one free list per thread) and operators `Allocate`, `Acquire`, `Release` from
one of its states to the next.  A level has a table, or shares that of the level
before; a table shows pages.  Levels are made of equal or larger size (filled up
with the zero page), deleted and at last destroyed by one thread while no
addition is under way; `cow_write` of several threads goes step by step: read
the value, take the table off the level before if this is the first write,
read the page and its id, read the reference count, and write in place or take
the lock and copy.

The first write of a level is two steps.  `Detach` stores the arrays of the new
table in the level, and keeps the lock; `FillTable` copies the old table into them
(`ll_mem_array.h:1129-1132`).  In between the table is `Unfilled`, and a thread
that reads its value without the lock (`Get`, `ll_mlcsr_properties.h:498`) may find
anything: the value that is there, or one of `Junk`.  `torn` has the threads that
did so, until they have written.  `cow_write` itself does not get that far, as it
waits for the lock.

`VersionedArray` is the promise: a new level begins as a copy, only the newest
changes, and an older one stays as it was; an addition adds 1.  What a torn
addition may do is stated there too: it begins only while the newest version is
still that of the level before (`Tear`), and sets the value of its own node, and
of no other, to anything (`Spoil`).

### 3.8 Instances

`MCNodeAgreement`, `MCSimpleDllama`, `MCMergeProtocol`, `MCGraphSnapshots`,
`MCSlidingWindow`, `MCIncrementalLoad` and `MCCowPages` define the function
valued constants (calls per rank, loaded graphs, data sources, shares of
threads).  Operators marked "Mutant" in the modules are wrong versions of the
operator that follows; nothing uses them.  They are there to replace it, to see
that the property notices (`mutants` in `PROJECT.json`).

## 4. The runs

`load`, `pages` and `pages_shared` are checked for deadlock.  The other runs are
not, because the system may stop: callers stop calling, and the bounds stop
them.  `NobodyStuck` says what a deadlock check would: as long as a call, a
handler or a message is under way, some thread can take a step.

| Run | Instance | States | Shows |
|---|---|---|---|
| `node_three` | 3 ranks, 1 call each | 803,000 | `PeersLocked`, `NobodyStuck` through chains of put-off acks; refinement of NodeReservation, and so that of two ranks that ask at once only one is let through |
| `replicas` | 2 ranks: rank 0 one call and one edge, rank 1 two calls and a checkpoint, 1 or 2 nodes per call | 286,000 | `AcksAccounted`, `RequestsAccounted`, `EdgesAccounted`, `VerticesOfSnapshots`, `ReplicasSame` and, with fairness, `EveryCallReturns` |
| `merge_two` | 2 ranks, 2 updates and 2 checkpoints each, both start a merge, buffered sends | 1,647,000 | `NoUpdateLost`, `MergeReadsFiles`, `NoCheckpointInMerge`, `MergeSeesAll`, `MergesAgree`, `NobodyStuck` |
| `merge_three` | 3 ranks, 2 of them write, barriers, rendezvous | 196,000 | `MergesAgree` and, with fairness, `MergeEnds`, `CheckpointEnds`: the locks leave nobody waiting |
| `snapshots` | 2 ranks, 3 or 4 nodes, pages of 2, 3 edges, 5 levels, 2 `Fresh` merges | 147,000 | `DegreesCount`, `TablesFit`, `BasesAgree`, refinement of SharedGraph |
| `load` | 3 threads, 2 queues, 5 edges of 3 new nodes, calls of 4 edges | 49,000 | `NoneLost`, `Mirrored`, `FreshIds`, refinement of WorkList and, with fairness, `LoadingEnds` |
| `stream` | 7 edges of 2 nodes, window 3, pulls of 2, batches of 3, 5 advances, `terminate()` at any time | 135,000 | `BatchBound`, `EdgesKeptOnce`, `WindowIntact`, `DegreesOfWindow`, `AtMostTwoMissing`, `TwoAhead` and, with fairness, `Answered`, `StopObeyed` |
| `pages` | 2 threads on pages of their own, pages of 2 values, levels of 1 to 3 pages, 4 levels, 3 additions, one value of junk | 486,000 | `CountsExact`, `FreeApart`, `TablesKept`, refinement of VersionedArray |
| `node_ids`, `early_edge`, `merge_epoch`, `pages_shared` | | | the findings of section 5 |

Each module has a type invariant, which says what its variables hold.  It is
proved for `NodeAgreement`, `SimpleDllama`, `MergeProtocol` and `GraphSnapshots`, and `snapshots`
checks the last, which bounds the sizes of levels.  The other runs do not list
theirs; it holds in their instances, and adding it to a cfg checks it.

**Why the bounds are enough.** Two calls of a rank are the least in which an ack,
a request or a lock can be left over from one to the next; three ranks the least
in which an ack waits for a rank that itself waits, or in which a rank has
requests of two others; two nodes per call the least in which a command can be
cut in two by a checkpoint or by another command.  A merge of two ranks has all
races between its two threads and locks; two merges show what one leaves behind;
a third rank gives messages that arrive from different senders in an order of
their own.  A node added at a rank fills a page of two or opens another, so that
levels inherit, copy and append pages; five levels have continuations to a level
directly below, to an older one, to level 0, to an empty entry and to nothing.
Five edges with two in opposite directions, a cycle and a loop between nodes
nobody has made yet have threads meet at slots and locks; a second call begins
with what the first left in the queues.  The code has as many queues as
`omp_get_max_threads`; two queues for three threads have two threads share one
from the start, which with three they do only after their own is empty.  Pulls of
two do not divide batches of three, so that a pull is cut; with five advances the
window has slid over levels whose tables are then deleted.  Four levels of pages
have a table shared by two, one replaced, and one deleted on either side of it;
page counts that grow use the zero page, and a level that is destroyed puts pages
on the free lists that the next additions take.  The value of junk is one that no
node reaches by additions, so that a read of it shows, and additions do read it
in `pages`.

**Fairness.**  `replicas` assumes weak fairness of the main thread and of the
listener of each rank, `merge_three` of the checkpoint, the handler and the
listener, `stream` of the loader thread and of the driver thread, `load` of each
thread of the region (`Step(t)`), of its end and of the next call.  The
operating system runs all of them, and each retries a lock, a probe or a flag
until it succeeds; the step that takes a lock is enabled, in all these
instances, until it is taken, or is enabled for ever from some point on, because
the calls are bounded.  No more is assumed: not that callers of the library
call, nor that `MPI_ANY_SOURCE` serves senders fairly, nor that `terminate()` is
ever called.

## 5. Findings

Four runs state what a comment or a test of the repository says and find it
violated by the code.  Each is a matter of the order of steps.

* `node_ids`: `add_nodes` sends its command before it adds its own nodes.  A
  rank of higher number that is commanded may ask, be acknowledged, and command
  in turn before the first has added: both calls return the same id
  (`dllama.cpp:128-136`).
* `early_edge`: in `simple_dllama` an edge to a node a replica does not have
  makes the node, and the command that follows makes another: the replicas
  number their nodes differently from then on (`simple_dllama.cpp:86`,
  `ll_writable_graph.h:2158-2166`).  `replicas` holds for careful callers.
* `merge_epoch`: a snapshot has no number of the merge it precedes.  One from
  after a merge takes the place of one from before at a rank that has still to
  merge (`snapshot_merger.cpp:68`).  The passing runs therefore have two ranks,
  or barriers.
* `pages_shared`: `cow_write` reads the page and its reference count without the
  lock under which another thread replaces the page.  An addition to a page the
  level has just left is lost (`ll_mem_array.h:1141-1169`).  `pages` holds for
  threads that write to pages of their own.

Two requirements on callers that the code does not enforce, and that the
parameters of `MergeProtocol` and `GraphSnapshots` make explicit:

* `Fresh`: a merge is started only when each rank has checkpointed since its
  last one.  A merge does not reset `current_snapshot_level`
  (`snapshot_merger.cpp:106`), so that without a checkpoint it announces a
  snapshot nobody has, and the others wait for it for ever.  If no announcement is
  that old (each rank's last checkpoint had nothing to save after a merge), the
  merge does end, but a rank then takes 0 for the last vertex of the others, which
  the merge before has reset, and its own for itself: level 0 has different sizes
  at the ranks.  With `Fresh = FALSE` and `MaxMerges = 3`, `BasesAgree` fails so.
* Buffered sends, or `Barrier`: snapshots are sent by blocking sends under the
  locks that the listeners of the receivers wait for (`dllama.cpp:228`).

Two things that readers of the code may not expect.  No run states a contrary
promise, since the repository makes none in words:

* A computation of the streaming driver may read up to two levels fewer than its
  degrees count, because the clone's `_minLevel` may be that of a later window
  (`ll_mlcsr_sp.h:287`).  With a window of 3, of which the level under construction
  takes one, that may be above its own level: it then reads no edge at all.
  `AtMostTwoMissing` is what remains of a whole window; `WindowIntact` and
  `DegreesOfWindow` hold as they are.
* A thread with pages of its own that reads its value during the first write of a
  level reads through a table that is not filled (`ll_mem_array.h:1129-1132`): its
  own addition may be wrong, or the program ends.  The additions of others are
  not touched (`ImplementsVersions`).

## 6. Proofs

The proofs hold for every value of the constants allowed by the assumptions of
each module (`ConstantsAssumption`, `PageSizeAssumption`, `SimpleAssumption`,
`CountAssumption`, `GraphAssumption`, `WindowAssumption`, `BatchAssumption`,
`DataAssumption`, `CowAssumption`), which say no more than that counts are numbers, ranks are
`0 .. N-1` with N at least 1, a loaded graph has a node at least and edges
between its own nodes, and a data source is finite.  The bounds are constants
too: a theorem holds for all of them.

Ten theorems assume more, and say so:

* `FilesRead` and `MergesSee` assume `Fresh`, `LevelsAgree` assumes `Fresh` and
  `Barrier`: what callers do, in the sense of 3.2; section 5 says what happens
  to callers who do not.  `merge_three` has both, `merge_two` has `Fresh`.
* `BasesEqual` and `ImplementsGraph` assume `Fresh`, as does `snapshots` (3.3).
* `SimpleReservation` and `ReplicasEqual` assume `Careful`, as does `replicas`
  (3.4); `early_edge` shows that the second needs it.
* `WindowStaysIntact` is for `Window = 3`, the default.
* `DegreesWindow` assumes `DegreesAssumption`: the window is at most 3, or no node
  is in the last page of a vertex table.  `set_min_level` ages a level off the
  degrees page by page, and skips the last page of a table that
  `keep_only_recent_versions` has made sparse.
* `LevelsAreVersions` assumes `PagesApart`: no two threads add to nodes of the
  same page, as `pages` does.  Section 5 says what is lost when they do.

| Theorem | Says |
|---|---|
| `NodeAgreementProofs!TypeCorrect` | `TypeOK` |
| `NodeAgreementProofs!HandshakeKept` | `HandshakeInv` |
| `NodeAgreementProofs!AcksBalance` | `AcksAccounted` |
| `NodeAgreementProofs!RequestsBalance` | `RequestsAccounted` |
| `NodeAgreementProofs!PeersStayLocked` | `PeersLocked` |
| `NodeRefinementProofs!RefinesReservation` | the refinement of `NodeReservation` |
| `SimpleDllamaProofs!SimpleTypeCorrect` | `SimpleTypeOK`, from `TypeStep` of NodeAgreementProofs |
| `SimpleDllamaProofs!VerticesCounted` | `VerticesOfSnapshots`, careful callers or not |
| `SimpleDllamaProofs!SimpleAcksBalance`, `SimpleRequestsBalance`, `SimplePeersStayLocked` | the same three of `simple_dllama`, where edges and checkpoints use the same threads and channels |
| `SimpleDllamaProofs!EdgesBalance` | `EdgesAccounted`, careful callers or not |
| `SimpleDllamaProofs!SimpleReservation` | the refinement of `NodeReservation`, for careful callers |
| `SimpleDllamaProofs!ReplicasEqual` | `ReplicasSame`, for careful callers |
| `MergeProtocolProofs!LocksHold` | who holds `merge_lock` and `merge_starting_lock` at each step |
| `MergeProtocolProofs!CheckpointsExcluded` | `NoCheckpointInMerge` |
| `MergeProtocolProofs!UpdatesKept` | `NoUpdateLost`, whatever callers do (`Fresh` and `Barrier` are not used) |
| `MergeProtocolProofs!TypeCorrect` | `TypeOK` |
| `MergeProtocolProofs!FilesRead` | `MergeReadsFiles`, for `Fresh` merges |
| `MergeProtocolProofs!MergesSee` | `MergeSeesAll`, for `Fresh` merges |
| `MergeProtocolProofs!LevelsAgree` | `MergesAgree`, for `Fresh` merges and a `Barrier`, any number of ranks |
| `GraphSnapshotsProofs!TypeCorrect` | `TypeOK` |
| `GraphSnapshotsProofs!BasesEqual` | `BasesAgree`, for `Fresh` merges |
| `GraphSnapshotsProofs!CheckpointsFit` | `TablesFit` for the levels that checkpoints make |
| `GraphSnapshotsProofs!AllTablesFit` | `TablesFit` |
| `GraphSnapshotsProofs!DegreesExact` | `DegreesCount` |
| `GraphSnapshotsProofs!ImplementsGraph` | the refinement of `SharedGraph`, for `Fresh` merges |
| `IncrementalLoadProofs!RequestsCovered` | an edge that was read is in a queue, in a thread's hand or in the graph |
| `IncrementalLoadProofs!ImplementsWL` | the refinement of `WorkList` |
| `IncrementalLoadProofs!RequestsOnce` | `NoneLost` |
| `IncrementalLoadProofs!IdsFresh` | `FreshIds` |
| `IncrementalLoadProofs!ListsMirrored` | `Mirrored` |
| `SlidingWindowProofs!BatchBounded` | `BatchBound` |
| `SlidingWindowProofs!LoaderTwoAhead` | `TwoAhead` |
| `SlidingWindowProofs!WindowEdgesKept` | the edge tables of the window of a running computation are allocated, for every window |
| `SlidingWindowProofs!WindowStaysIntact` | `WindowIntact`, for a window of 3 |
| `SlidingWindowProofs!EdgesOnce` | `EdgesKeptOnce` |
| `SlidingWindowProofs!WindowNearlyWhole` | `AtMostTwoMissing`, for every window |
| `SlidingWindowProofs!DegreesWindow` | `DegreesOfWindow` |
| `CowPagesProofs!TablesAreKept` | `TablesKept` |
| `CowPagesProofs!CountsAreExact` | `CountsExact`, whether threads share pages or not |
| `CowPagesProofs!FreePagesApart` | `FreeApart`, whether threads share pages or not |
| `CowPagesProofs!LevelsAreVersions` | the refinement of `VersionedArray`, torn additions included, for threads with pages of their own |

**HandshakeInv.**  None of the three properties of NodeAgreement is inductive:
each counts ranks that are in some place of a call, and nothing says that a
call is in one place only.  `PairInv(p, q)` does (`Alone`), for every pair of
ranks; `Orderly` says that a channel has at most one request, one ack and one
command, and the command first, since a rank asks again only after its last
call.  What makes it inductive is the fourth conjunct, that p has q's ack only
after it has carried out q's command (q sent the command before the ack, in
the same channel), and the fifth, that q lets a lower rank pass only while it
is not adding nodes itself.  `CountInv` then counts: a step moves one rank into
or out of the set that a counter counts.

**The refinement of NodeReservation.**  A call is granted when the last ack is
counted.  By `CountInv` the number of acks is the number of ranks that have
answered, so that the rank then has the answers of *all* others, and by `PairInv`
none of these holds a reservation over it or has nodes to be added by it.  There
is one lemma for each kind of step: a grant, a command sent, a node added, or
nothing that the reservations see.

**Sums.**  `EdgesAccounted` and `ReplicasSame` are about sums over ranks and over
the messages of a channel.  What a sum is after one summand has changed is
proved from its recursive definition without an induction principle: the set
of subsets for which it fails, were it not empty, would have a smallest member,
and that one has not (`Account`, `AddsSmall`).

**EdgesInv of SimpleDllama.**  An edge that was made is, for each replica, in the
caller's hands, in the channel, in the writable graph or in a level, and a
checkpoint that has written its level but not cleared the graph holds it twice
(`Held` counts it once).

**ReplicasSame.**  Two invariants.  `NodesInv`: what a rank has, adds for itself
and owes to others (`Owes`: for a command in its channel, one under way, and each
reservation over it) is the same number at all ranks; a grant adds the same to
each.  It is kept if no edge makes a node: `KnownInv` says that wherever an
edge is on its way, its node is there already or a command ahead of it in the
same channel brings it (`Meets`).  With nothing under way, nothing is owed, and
the numbers of nodes are equal; the edges are by `EdgesInv`.

**LockInv.**  `NoCheckpointInMerge` is not inductive: nothing in it says that a
rank that is about to merge has the locks.  `LockInv` says it for each step: the
handler has `merge_lock` from `LockMerge` to `UnlockMerge`, *also while it is
between two requests*, and not in the two stages in which `merge_starting` is set
without it; an `auto_checkpoint` under way excludes `merge_starting`; the main
thread waits for a merge exactly when the handler runs for its own call.

**KeepInv.**  `NoUpdateLost` needs what a merge is about to write: between
`MergeSnapshots` and `Refresh` the new level 0 (`newBase`) has all that the files
have, and the files do not change, because of LockInv.  That a merge reads every
file of its own needs `currentLevel` not to be below the number of levels while
no checkpoint is under way, since the code reads the files up to that level.

**BasesAgree.**  It is inductive but for one fact: a rank counts vertices, and
decides whose snapshots to read for a vertex, by its own last vertex and the
announced ones of others.  `Announced` says that the two are equal for a rank that
has made a checkpoint since its last merge, and that any other has 0 announced
and level 0 only.  With `Fresh`, a merge finds besides only ranks that never made
a checkpoint (`AllSaved`), and these count no more vertices than the loaded graph.
The maximum is then the same at every rank (`SizesAgree`, by the
existence of a maximum, `MaxExists`, which rests on the well-foundedness of `<`)
and so is what is gathered (`ListsAgree`).  The argument never looks into a
level, so that it does not depend on what the recursive definitions of
`MultiLevelCsr` compute.

**Edge tables have room.**  `CheckpointsFit` is about the recursive functions of
`NewLevel`.  That they exist, and that the cells of the first v nodes never exceed
what their edges and lists are counted for (`Fitting`), is proved by the least v
for which it would fail: there is no need for an induction principle.  A level 0
made by a merge is given exactly the cells it has (`AllTablesFit`); that this is a
number at all needs every list read from a snapshot to be finite, which is part
of what follows.

**DataInv of GraphSnapshots.**  `WellFormed` says what the levels of a rank are, so
that every list can be read: a cell of a level continues an entry of levels
below, whose degree is its own length and that of what it continues (`Good`,
`CellsGood`, `EntriesGood`); the entry of a node in a level is that of the level
below or is continued by it (`History`); a page is still in the level it was last
written at (`Homes`); a page of level 0 has the entries of level 0 (`Bases`); levels
do not shrink (`Grow`).  The functions that read a list (`RoNeighbours`,
`FileNeighbours`) are recursive over all entries, and for such a definition to mean
anything a function must exist that satisfies it: it does in such a stack, where a
chain of continuations has at most one entry per level (`Depth`,
`ReadingExists`).

`Content` is what is read of a node in memory.  It has as many edges as the degree
says (`ReadLength`), and what is read of it in the files and in level 0 is the same
set (`ReadTwice`, `SnapshotRead`), though the files are read from a page that may
be several levels old.  A checkpoint keeps `WellFormed` and puts the list of each
node before its `Content` (`Filled` follows `init_node` node by node,
`NewLevelGood`); a merge makes a stack of one level with the edges it gathered
(`MergedLevelGood`, `GatheredIs`).  What else is needed are the flags: `Marked` says
that a rank which is not `changed` has no new edges and a level for each node
there is, and that no level has more nodes than some rank counts, so that a
merge makes room for all of them.  `IInv` of `BasesAgree` is a part of `DataInv`.

**The refinement of SharedGraph.**  What a rank sees of a node is the new edges
followed by the `Content`; `Count` is how often a target is in such a list, and is
added when lists are appended (`CountConcat`) and kept when one is reversed.  With
that each action is mapped by counting: an edge adds one to one bag; a checkpoint
moves edges from the first part of the list to the second, which no bag shows;
after a merge the second part has each target that any rank had saved, once.

**SaveInv.**  `VerticesOfSnapshots` speaks of a rank without a checkpoint under
way, while the counter and the level are read in different steps of one.
`SaveInv` says that the main thread has `checkpoint_lock` from `write` to `count`
and does nothing else during a checkpoint, and that an *unmarked* graph (neither `_newNodes` nor `_newEdges`)
has the node counter of its last level: every handler that raises the counter
marks the graph, so that only the next checkpoint can make the two differ from
what was told.

**EpochInv, SeesInv.**  Merges are numbered in the proof: `Done(r)` merges of r are
finished, `Begun(r)` begun.  No two ranks are more than one merge apart
(`Epochs`), because each waits for a request of every other, and a channel has the
requests of one merge only.  Each request carries the level of its sender's last
snapshot, and while the sender has not merged, its files do not change, since
its `merge_starting` is set (`Told`); so a rank that has received as many snapshots
as were announced has all of them (`SeesInv`, `Carries`).

**SyncInv, AgreeInv.**  With barriers, a rank that is a merge behind another has
the same files as when the other merged, and what it has received and will
still receive of each other rank is what that one had then.  `Follows(p, r)`
says that what r is going to merge is what p has merged; it is stated with a
witness for the files of all ranks, since those of ranks that have merged are
gone.

**Inv of IncrementalLoad.**  A thread has a request exactly in the stages that
run one (`Hands`); an edge that was read is queued, in a hand or linked
(`Covered`); the queues thread 0 has passed since it set the flags are empty
(`Drained`); a slot is set only by the thread that claimed it, so that nobody
who makes a node can wipe lists that were linked to (`Slots`); threads leave the
region together (`Together`).  At the barrier all hands and all queues are
empty, so all edges are linked: what `WorkList` asks of `Return`.

`NoneLost` says besides that an edge is in *one* place; it needs that no queue
holds an edge twice and no two hold the same.  `FreshIds` needs that ids are
given out under a lock or by one atomic addition, below a counter that only
grows, and that only one thread is between making a node and counting it.
`Mirrored` needs that a thread at the second half of an edge has linked the first
and holds the locks of both nodes, in either order and for a loop too.

**SlidingWindow.** `BatchBound` is kept because the counter can only go down
between the loader's decision and its addition (`BatchInv`).  `TwoAhead` needs
that a driver about to schedule has at most one task ahead of it (`Margin`) and
that the announced level is the newest one or the one below that under
construction (`Announced`).  From it follows what a computation may rely on: the
loader deletes three levels below the window it slides to, and two tasks cannot
reach into the one in use.  `EdgesKeptOnce` follows from where the loader keeps
edges in each step of a task (`EdgesInv`): the buffer is cleared only after the
level is announced, and until then its edges are those of the level under
construction.  For `DegreesOfWindow` the degree of a node in the latest table is
the number of its edges in the levels of the window (`DegreesExact`), a sum over
levels from which sliding takes one level off at a time; `BoundsInv` says where
`_minLevel` is at each step of a task (`SlidExact`) and that a clone's is at most
two above the oldest level of its own window (`CloneNear`, from `TwoAhead`), and
`SparseInv` which tables are sparse: none that is still to be aged off, for a
window of at most 3.

**RowInv of CowPages.**  A level is deleted by looking at its two neighbours
only.  That is right because levels that share a table are in a row, and the
levels that exist are in a row too: another level with the table would have to
be a neighbour.  Who fills a table has found the newest level with the table of
the level before, under the lock it still has (`FillInRow`), so that a level whose
table is not filled changes nothing of this.

**CountInv of CowPages.**  The number of references of a page is the number of
slots that show it in the tables of existing levels, but for the two pages of a
copy under way: the new page has its reference before its id is in the table, the
old one loses its own before its id leaves the table.  `CountInv` says so for each
step of `cow_write`, and that the two pages differ.  A copy never frees the old
page: it is made only if the count, read under the lock, is above 1, and nobody
else changes a count without that lock.  It rests on `TableOwned`: who writes to
the newest table has it alone, which needs that tables are shared in rows
(`RowInv`).  The zero page is shown by the last slot of the newest level, so that
it is on no list though nothing in `Release` excludes it.  A range of pages is
released by a loop; what the loop does to counts and lists is shown by the least
step at which it would do anything else.  Nothing is assumed about which thread
writes to which page.

**ValueInv of CowPages.** The refinement of `VersionedArray` is about the values
that a reader of a level finds.  `View` is the page that a slot shows: while a
page is copied, the one it is copied from, since the new one is in the table
before it is filled.  `ValueInv` says for each thread that what it has read
without the lock (the page, its id, the value of its node) is still so, and that
from the moment it has found a count of 1 or has a copy no other slot of any
level shows its page (`Alone`).  A count of 1 says that by `CountInv`, except
while another thread copies the page of that very slot, which `PagesApart`
excludes: this is where threads that share a page lose an addition.  With it, the
only step that writes into a page in view is `Write`, into a page that one slot
of the newest level shows.  `CopyPage` fills a page that nobody sees yet, and the
page manager writes into none that is seen: `Allocate` clears a page that had no
reference, `Release` puts its link into one that has none any more.  The zero
page stays zero because the last slot of the newest level shows it (`ZeroShown`),
so that no thread has it alone.  What a torn thread has read is not known, and
`ValueInv` says nothing of it; while a table is filled, the newest level still
shows what the level before does (`FillingShows`), which is what `Tear` asks.

**Only model-checked.**

* Liveness (`EveryCallReturns`, `MergeEnds`, `CheckpointEnds`, `Answered`,
  `StopObeyed`, `LoadingEnds`) and `NobodyStuck`: fairness and `ENABLED` are out of
  the prover's reach.
* `AddsKept`, which `pages_shared` refutes for threads that share a page: it sums
  the values of a level with a fold, and what a fold computes takes induction over
  data.  For threads with pages of their own `LevelsAreVersions` says what it is
  about: each addition adds 1 to one value of the newest level, and nothing else
  changes it, but for the values torn additions write.
* `MergesAgree` for two ranks without barriers, which `merge_two` checks;
  `LevelsAgree` is for any number of ranks with barriers.

## 7. Abstractions

* The encoding of a snapshot, of file headers and of block offsets is left out;
  the offset of the edge table is taken to be the same in every file of a rank,
  as `snapshot_manager.cpp:163` says it is.
* A graph is loaded before the first step of the protocols, and the same at
  every rank; `IncrementalLoad` models the loading itself.
* Shutdown and `delete_db` come after the last step.
* Node identifiers have no width; levels neither (`LL_BITS_LEVEL` gives 2^26).
* Memory is sequentially consistent: a step reads and writes shared fields as
  they are.
* A level keeps the table of the level before until the new one is filled, though
  its arrays are in place earlier: only `get` reads them then, and gets junk.  That
  the junk is a pointer to nowhere, and the program ends, is left out.
* `Allocate`, `Acquire` and `Release` of pages are one step each.  For one array
  they are, under its `_cow_spinlock`.  The edge properties of a graph share a page
  manager (`ll_mlcsr_properties.h:1092-1094`), whose free lists are changed by
  compare-and-swap; copies made in two arrays at once are not modelled.

### Not modelled

* *Files and crashes.*  Persistent storage is modelled as the data it holds.
  Nothing in the code recovers from a crash: dllama deletes its database
  directory when it starts, so there is no recovery to specify.  Allocation of
  chunks by several threads is left (row 8 of the plan).
* *Deletions, transactions, in-edges of levels.*  dllama is built without
  `LL_DELETIONS` and loads no in-edges; `delete_edge` does nothing in that build.
* *Readers during a merge.*  Iterators read the read-only graph without
  `ro_graph_lock` (`dllama.cpp:243`); readers are not modelled, and a merge while
  an iterator is in use is left to callers to avoid.
* *Streaming in its other builds.*  Only the default build (`LL_S_DIRECT`) is
  modelled: the loaders of the other two are not compiled with it.  Weights and
  the pacing of the loader do not change what is loaded.
* *Page allocation in the writable graph.*  A slot is modelled, not the page it
  is in; lists are sets of edges, not pages of cells.
* *Properties.*  `cow_write_add` and the levels of a property are modelled; their
  writable part and `finish_level` are not.
* *External sort, file formats and generators.*  Sequential code that reads and
  writes files; its errors are within reach of tests.
* *Drivers, benchmarks, graph algorithms, traversal templates, tools, vendored
  libraries.*  Programs and libraries around the store; what drivers do between
  calls is the use that the runs assume.
* `PROJECT.json` gives the status of every component.
