--------------------------- MODULE IncrementalLoad ---------------------------
(* Loading a graph into the writable representation with all OpenMP threads:  *)
(* load_incremental() of ll_load_utils.h, the request queues of               *)
(* ll_load_async_writable.h, and what an add-edge request does to the         *)
(* writable graph: the vertex slots of ll_writable_array.h, the node locks    *)
(* and the adjacency lists of ll_writable_graph.h.                            *)
(*                                                                            *)
(* Edges are numbered in the order of the data source, nodes by their id.     *)
(* Thread 0 loads and then works; the other threads are workers.              *)
EXTENDS Integers, Sequences, FiniteSets

CONSTANTS
    ThreadCount,   \* the threads of the parallel region
    Stripes,       \* the request queues
    EdgeCount,     \* the edges of the data source
    Source,        \* edge -> node
    Target,        \* edge -> node
    Nodes,         \* the node ids
    StripeOf,      \* node -> queue: (tail >> bits) % num_stripes
    ChunkSize      \* lc_max_edges of one call, 0 for no limit

Threads == 0 .. ThreadCount - 1
Queues  == 0 .. Stripes - 1
Edge    == 1 .. EdgeCount
None    == -1

ASSUME CountAssumption == /\ ThreadCount \in Nat \ {0} /\ Stripes \in Nat \ {0}
                          /\ EdgeCount \in Nat /\ ChunkSize \in Nat
ASSUME GraphAssumption == /\ Nodes \subseteq Nat
                          /\ Source \in [Edge -> Nodes] /\ Target \in [Edge -> Nodes]
                          /\ StripeOf \in [Nodes -> Queues]

VARIABLES
    next,       \* the next edge of the data source
    inCall,     \* max_edges: the edges read in this call
    hasMore,    \* has_more
    queue,      \* request queue -> the edges to add
    shutdown,   \* _shutdown_when_empty
    pc,         \* where each thread is
    turn,       \* i: how many queues the thread has left behind
    hand,       \* the edge whose request the thread runs
    nth,        \* 1 or 2: the node of it the thread is locking
    slot,       \* the vertex slot of each node: nil, block or the node
    holder,     \* who has wn_lock of the node
    nextId,     \* _next_new_node_id
    out,        \* wn_out_edges
    in          \* wn_in_edges

loadVars  == <<next, inCall, hasMore>>
queueVars == <<queue, shutdown>>
nodeVars  == <<slot, holder, nextId>>
listVars  == <<out, in>>
vars == <<loadVars, queueVars, pc, turn, hand, nth, nodeVars, listVars>>

Idle == [t \in Threads |-> IF t = 0 THEN "load" ELSE "dequeue"]

Init ==
    /\ next = 1 /\ inCall = 0 /\ hasMore = TRUE
    /\ queue = [q \in Queues |-> <<>>] /\ shutdown = [q \in Queues |-> FALSE]
    /\ pc = Idle
    /\ turn = [t \in Threads |-> 0]
    /\ hand = [t \in Threads |-> None] /\ nth = [t \in Threads |-> 1]
    /\ slot = [n \in Nodes |-> "nil"] /\ holder = [n \in Nodes |-> None]
    /\ nextId = 0
    /\ out = [n \in Nodes |-> {}] /\ in = [n \in Nodes |-> {}]

(* The queue thread t looks at: thread 0 in order, a worker from its own on.  *)
QueueOf(t) == (t + turn[t]) % Stripes

Goto(t, label) == pc' = [pc EXCEPT ![t] = label]

----------------------------------------------------------------------------
(* Thread 0: load_to_request_queues() and the shutdown flags.                 *)

LoadEdge ==
    /\ pc[0] = "load" /\ next <= EdgeCount
    /\ LET q == StripeOf[Source[next]]
       IN  queue' = [queue EXCEPT ![q] = Append(@, next)]
    /\ next' = next + 1
    /\ inCall' = inCall + 1
    /\ IF ChunkSize > 0 /\ (inCall + 1) % ChunkSize = 0
       THEN Goto(0, "shutdown")
       ELSE UNCHANGED pc
    /\ UNCHANGED <<hasMore, shutdown, turn, hand, nth, nodeVars, listVars>>

LoadEnds ==
    /\ pc[0] = "load" /\ next > EdgeCount
    /\ hasMore' = FALSE
    /\ Goto(0, "shutdown")
    /\ UNCHANGED <<next, inCall, queueVars, turn, hand, nth, nodeVars, listVars>>

\* Mutant: the flag of the last queue is not set.
ShutdownShort ==
    /\ pc[0] = "shutdown"
    /\ IF turn[0] + 1 < Stripes
       THEN /\ shutdown' = [shutdown EXCEPT ![turn[0]] = TRUE]
            /\ turn' = [turn EXCEPT ![0] = @ + 1] /\ UNCHANGED pc
       ELSE /\ turn' = [turn EXCEPT ![0] = 0] /\ Goto(0, "dequeue")
            /\ UNCHANGED shutdown
    /\ UNCHANGED <<loadVars, queue, hand, nth, nodeVars, listVars>>

(* shutdown_when_empty() queue by queue; then run() on each queue.            *)
Shutdown ==
    /\ pc[0] = "shutdown"
    /\ shutdown' = [shutdown EXCEPT ![turn[0]] = TRUE]
    /\ IF turn[0] + 1 < Stripes
       THEN turn' = [turn EXCEPT ![0] = @ + 1] /\ UNCHANGED pc
       ELSE turn' = [turn EXCEPT ![0] = 0] /\ Goto(0, "dequeue")
    /\ UNCHANGED <<loadVars, queue, hand, nth, nodeVars, listVars>>

----------------------------------------------------------------------------
(* Taking requests: dequeue(), run() and worker() of ll_la_request_queue.     *)

Dequeue(t) ==
    LET q == QueueOf(t) IN
    /\ pc[t] = "dequeue" /\ queue[q] # <<>>
    /\ queue' = [queue EXCEPT ![q] = Tail(@)]
    /\ hand' = [hand EXCEPT ![t] = Head(queue[q])]
    /\ nth' = [nth EXCEPT ![t] = 1]
    /\ Goto(t, "find")
    /\ UNCHANGED <<loadVars, shutdown, turn, nodeVars, listVars>>

\* Mutant: the thread only works on its first queue.
NextQueueOwn(t) ==
    /\ turn' = [turn EXCEPT ![t] = @ + 1]
    /\ Goto(t, "barrier")

(* The thread goes to its next queue, or to the barrier after the last one.   *)
NextQueue(t) ==
    /\ turn' = [turn EXCEPT ![t] = @ + 1]
    /\ Goto(t, IF turn[t] + 1 < Stripes THEN "dequeue" ELSE "barrier")

(* An empty queue: run() of thread 0 leaves it, a worker looks at the flag.   *)
FindsEmpty(t) ==
    /\ pc[t] = "dequeue" /\ queue[QueueOf(t)] = <<>>
    /\ IF t = 0 THEN NextQueue(t) ELSE Goto(t, "flag") /\ UNCHANGED turn
    /\ UNCHANGED <<loadVars, queueVars, hand, nth, nodeVars, listVars>>

TestsFlag(t) ==
    /\ pc[t] = "flag"
    /\ IF shutdown[QueueOf(t)] THEN NextQueue(t)
                               ELSE Goto(t, "dequeue") /\ UNCHANGED turn
    /\ UNCHANGED <<loadVars, queueVars, hand, nth, nodeVars, listVars>>

----------------------------------------------------------------------------
(* Running a request: add_edge() with lock_nodes() and release_nodes().       *)

(* The nodes of an edge in the order of their ids.                            *)
First(e)  == IF Source[e] <= Target[e] THEN Source[e] ELSE Target[e]
Second(e) == IF Source[e] <= Target[e] THEN Target[e] ELSE Source[e]
Locking(t) == IF nth[t] = 1 THEN First(hand[t]) ELSE Second(hand[t])

\* Mutant: a slot that is being allocated is taken for an empty one.
ClaimSlotTwice(t) ==
    /\ pc[t] = "find" /\ slot[Locking(t)] # "node"
    /\ slot' = [slot EXCEPT ![Locking(t)] = "block"]
    /\ Goto(t, "allocate")
    /\ UNCHANGED <<loadVars, queueVars, turn, hand, nth, holder, nextId, listVars>>

(* get_or_allocate(): the slot is claimed by a compare-and-swap to block; who *)
(* finds a claimed slot waits until the node is set.                          *)
ClaimSlot(t) ==
    /\ pc[t] = "find" /\ slot[Locking(t)] = "nil"
    /\ slot' = [slot EXCEPT ![Locking(t)] = "block"]
    /\ Goto(t, "allocate")
    /\ UNCHANGED <<loadVars, queueVars, turn, hand, nth, holder, nextId, listVars>>

(* The allocated node is empty: were the slot set twice, the first node and   *)
(* what is in its lists would be lost, and its lock with it.                  *)
SetSlot(t) ==
    /\ pc[t] = "allocate"
    /\ slot' = [slot EXCEPT ![Locking(t)] = "node"]
    /\ out' = [out EXCEPT ![Locking(t)] = {}]
    /\ in' = [in EXCEPT ![Locking(t)] = {}]
    /\ holder' = [holder EXCEPT ![Locking(t)] = None]
    /\ Goto(t, "lock")
    /\ UNCHANGED <<loadVars, queueVars, turn, hand, nth, nextId>>

FindsNode(t) ==
    /\ pc[t] = "find" /\ slot[Locking(t)] = "node"
    /\ Goto(t, "lock")
    /\ UNCHANGED <<loadVars, queueVars, turn, hand, nth, nodeVars, listVars>>

LockNode(t) ==
    /\ pc[t] = "lock" /\ holder[Locking(t)] = None
    /\ holder' = [holder EXCEPT ![Locking(t)] = t]
    /\ Goto(t, "register")
    /\ UNCHANGED <<loadVars, queueVars, turn, hand, nth, slot, nextId, listVars>>

\* Mutant: the id itself stays free.
RegisterNodeLow(t) ==
    /\ pc[t] = "register"
    /\ nextId' = IF Locking(t) > nextId THEN Locking(t) ELSE nextId
    /\ IF nth[t] = 1 /\ Source[hand[t]] # Target[hand[t]]
       THEN nth' = [nth EXCEPT ![t] = 2] /\ Goto(t, "find")
       ELSE Goto(t, "append") /\ UNCHANGED nth
    /\ UNCHANGED <<loadVars, queueVars, turn, hand, slot, holder, listVars>>

(* lock_node() raises _next_new_node_id under _new_node_lock.                 *)
RegisterNode(t) ==
    /\ pc[t] = "register"
    /\ nextId' = IF Locking(t) >= nextId THEN Locking(t) + 1 ELSE nextId
    /\ IF nth[t] = 1 /\ Source[hand[t]] # Target[hand[t]]
       THEN nth' = [nth EXCEPT ![t] = 2] /\ Goto(t, "find")
       ELSE Goto(t, "append") /\ UNCHANGED nth
    /\ UNCHANGED <<loadVars, queueVars, turn, hand, slot, holder, listVars>>

\* Mutant: the source is released before the edge is in the target's list.
AppendOutReleases(t) ==
    /\ pc[t] = "append"
    /\ out' = [out EXCEPT ![Source[hand[t]]] = @ \cup {hand[t]}]
    /\ holder' = [holder EXCEPT ![Source[hand[t]]] = None]
    /\ Goto(t, "appendIn")
    /\ UNCHANGED <<loadVars, queueVars, turn, hand, nth, slot, nextId, in>>

AppendOut(t) ==
    /\ pc[t] = "append"
    /\ out' = [out EXCEPT ![Source[hand[t]]] = @ \cup {hand[t]}]
    /\ Goto(t, "appendIn")
    /\ UNCHANGED <<loadVars, queueVars, turn, hand, nth, nodeVars, in>>

AppendIn(t) ==
    /\ pc[t] = "appendIn"
    /\ in' = [in EXCEPT ![Target[hand[t]]] = @ \cup {hand[t]}]
    /\ Goto(t, "release")
    /\ UNCHANGED <<loadVars, queueVars, turn, hand, nth, nodeVars, out>>

(* release_nodes(): the source, then the target if it is another node.        *)
ReleaseSource(t) ==
    /\ pc[t] = "release"
    /\ holder' = [holder EXCEPT ![Source[hand[t]]] = None]
    /\ Goto(t, "releaseTarget")
    /\ UNCHANGED <<loadVars, queueVars, turn, hand, nth, slot, nextId, listVars>>

ReleaseTarget(t) ==
    /\ pc[t] = "releaseTarget"
    /\ holder' = IF Source[hand[t]] = Target[hand[t]] THEN holder
                 ELSE [holder EXCEPT ![Target[hand[t]]] = None]
    /\ hand' = [hand EXCEPT ![t] = None]
    /\ Goto(t, "dequeue")
    /\ UNCHANGED <<loadVars, queueVars, turn, nth, slot, nextId, listVars>>

AddEdge(t) == \/ ClaimSlot(t) \/ SetSlot(t) \/ FindsNode(t) \/ LockNode(t)
              \/ RegisterNode(t) \/ AppendOut(t) \/ AppendIn(t)
              \/ ReleaseSource(t) \/ ReleaseTarget(t)

----------------------------------------------------------------------------
(* The end of the parallel region: the queues are destroyed, with any request *)
(* still in them; the caller calls again while there is more.                 *)
AtBarrier == \A t \in Threads : pc[t] = "barrier"

Return ==
    /\ AtBarrier
    /\ queue' = [q \in Queues |-> <<>>]
    /\ pc' = [t \in Threads |-> IF hasMore THEN "out" ELSE "over"]
    /\ UNCHANGED <<loadVars, shutdown, turn, hand, nth, nodeVars, listVars>>

CallAgain ==
    /\ \A t \in Threads : pc[t] = "out"
    /\ inCall' = 0
    /\ shutdown' = [q \in Queues |-> FALSE]
    /\ pc' = Idle
    /\ turn' = [t \in Threads |-> 0]
    /\ UNCHANGED <<next, hasMore, queue, hand, nth, nodeVars, listVars>>

Over == \A t \in Threads : pc[t] = "over"

Step(t) == \/ Dequeue(t) \/ FindsEmpty(t) \/ TestsFlag(t) \/ AddEdge(t)
           \/ t = 0 /\ (LoadEdge \/ LoadEnds \/ Shutdown)

Next == \/ Return \/ CallAgain \/ \E t \in Threads : Step(t)
        \/ Over /\ UNCHANGED vars
Spec == Init /\ [][Next]_vars

(* Every thread of the region runs, and the region ends at its barrier.       *)
FairSpec == /\ Spec /\ WF_vars(Return) /\ WF_vars(CallAgain)
            /\ \A t \in Threads : WF_vars(Step(t))

----------------------------------------------------------------------------
(* Properties.                                                                *)

Labels == {"load", "shutdown", "dequeue", "flag", "find", "allocate", "lock",
           "register", "append", "appendIn", "release", "releaseTarget",
           "barrier", "out", "over"}

TypeOK ==
    /\ next \in Nat \ {0} /\ inCall \in Nat /\ hasMore \in BOOLEAN
    /\ queue \in [Queues -> Seq(Edge)] /\ shutdown \in [Queues -> BOOLEAN]
    /\ pc \in [Threads -> Labels] /\ turn \in [Threads -> 0 .. Stripes]
    /\ hand \in [Threads -> Edge \cup {None}] /\ nth \in [Threads -> {1, 2}]
    /\ slot \in [Nodes -> {"nil", "block", "node"}]
    /\ holder \in [Nodes -> Threads \cup {None}] /\ nextId \in Nat
    /\ out \in [Nodes -> SUBSET Edge] /\ in \in [Nodes -> SUBSET Edge]

Taken   == 1 .. (next - 1)
Linked  == UNION {in[n] : n \in Nodes}
InHand(e) == \E t \in Threads : hand[t] = e
Queued(e) == \E q \in Queues : \E i \in 1 .. Len(queue[q]) : queue[q][i] = e

(* An edge the loader has read waits in its queue, is in the hands of one     *)
(* thread, or is in the lists of both its nodes, whoever took it: no request  *)
(* is dropped by a worker that leaves or run by two threads.                  *)
NoneLost ==
    /\ \A e \in Taken : Queued(e) \/ InHand(e) \/ e \in Linked
    /\ \A e \in Edge : Queued(e) => ~ InHand(e) /\ e \notin Linked
    /\ \A t, u \in Threads : t # u /\ hand[t] # None => hand[t] # hand[u]

(* A node nobody holds has the same edges in its lists as the nodes at their  *)
(* other ends, whatever the others are doing.                                 *)
Mirrored ==
    \A n \in Nodes : holder[n] = None =>
        /\ \A e \in out[n] : e \in in[Target[e]]
        /\ \A e \in in[n]  : e \in out[Source[e]]

(* add_node() gives out the ids from _next_new_node_id on: none of them may   *)
(* have edges already.                                                        *)
FreshIds == \A n \in Nodes : out[n] \cup in[n] # {} => n < nextId

(* The call returns only when every edge it read is in the graph.             *)
WL == INSTANCE WorkList WITH
          taken   <- Taken,
          applied <- Linked,
          loading <- ~ (\A t \in Threads : pc[t] \in {"out", "over"})
ImplementsWorkList == WL!Spec

(* Loading ends: the node locks are taken in the order of the ids, and the    *)
(* workers see the shutdown flags.                                            *)
LoadingEnds == <>Over
=============================================================================
