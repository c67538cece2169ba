---------------------------- MODULE SimpleDllama ----------------------------
(***************************************************************************)
(* simple_dllama: every rank has the whole graph.  Nodes are added by the  *)
(* protocol of NodeAgreement; an edge is sent to all other ranks, whose    *)
(* listeners add it to their own replica; each rank writes its snapshots   *)
(* on its own, and while it does its listener may change nothing.          *)
(*                                                                         *)
(* Nodes and edges share the channels, the two threads of a rank and its   *)
(* node counter: an edge to a node the replica does not have makes the     *)
(* node.  An edge is abstracted to the greater of its two nodes.           *)
(***************************************************************************)
EXTENDS NodeRefinement, Functions

CONSTANTS
    EdgeNodes,   \* bound: the nodes edges lead to
    MaxEdges,    \* bound: MaxEdges[r] calls of add_edge at rank r
    MaxSaves,    \* bound: MaxSaves[r] checkpoints at rank r
    Careful      \* callers add edges to nodes that each rank has when the edge comes

ASSUME SimpleAssumption ==
    /\ EdgeNodes \subseteq Nat
    /\ MaxEdges \in [Ranks -> Nat]
    /\ MaxSaves \in [Ranks -> Nat]
    /\ Careful \in BOOLEAN

NoEdge == -1

VARIABLES
    edge,       \* the edge the main thread is adding, or NoEdge
    made,       \* made[r][v]: history, calls of add_edge of rank r
    fresh,      \* fresh[r][v]: edges in the writable graph
    changed,    \* one of _newNodes, _newEdges is not 0
    saved,      \* saved[r][v]: edges in the levels
    levelNodes, \* max_nodes() of the last level
    vertices,   \* dllama_number_of_vertices
    saving,     \* where the main thread is in checkpoint
    saves,      \* checkpoints so far
    ckptLock    \* owner of checkpoint_lock

edgeVars == <<edge, made, fresh, saved>>
ckptVars == <<levelNodes, vertices, saving, saves, ckptLock>>
simpleVars == <<vars, edgeVars, ckptVars, changed>>

SavingStages == {"no", "lock", "write", "clear", "count"}
None == [v \in EdgeNodes |-> 0]

SimpleTypeOK ==
    /\ TypeOK
    /\ edge \in [Ranks -> EdgeNodes \cup {NoEdge}]
    /\ made \in [Ranks -> [EdgeNodes -> Nat]]
    /\ fresh \in [Ranks -> [EdgeNodes -> Nat]]
    /\ changed \in [Ranks -> BOOLEAN]
    /\ saved \in [Ranks -> [EdgeNodes -> Nat]]
    /\ levelNodes \in [Ranks -> Nat]
    /\ vertices \in [Ranks -> Int]
    /\ saving \in [Ranks -> SavingStages]
    /\ saves \in [Ranks -> Nat]
    /\ ckptLock \in [Ranks -> Owners]

SimpleInit ==
    /\ Init
    /\ edge = [r \in Ranks |-> NoEdge]
    /\ made = [r \in Ranks |-> None]
    /\ fresh = [r \in Ranks |-> None]
    /\ changed = [r \in Ranks |-> FALSE]
    /\ saved = [r \in Ranks |-> None]
    /\ levelNodes = maxNodes
    /\ vertices = [r \in Ranks |-> maxNodes[r] - 1]
    /\ saving = [r \in Ranks |-> "no"]
    /\ saves = [r \in Ranks |-> 0]
    /\ ckptLock = [r \in Ranks |-> "none"]

\* The main thread of r runs no call.
Free(r) == pc[r] = "idle" /\ edge[r] = NoEdge /\ saving[r] = "no"

\* graph->add_edge: lock_node makes a node the replica does not have.
GraphAddEdge(r, v) ==
    /\ fresh' = [fresh EXCEPT ![r][v] = @ + 1]
    /\ maxNodes' = [maxNodes EXCEPT ![r] = IF v >= @ THEN v + 1 ELSE @]
    /\ changed' = [changed EXCEPT ![r] = TRUE]

-----------------------------------------------------------------------------
(* add_edge: the sends, then the rank's own graph.                         *)

NewEdge(v) == [tag |-> "NEW_EDGE", n |-> v]

\* A caller that adds nodes and then edges to them, as main.cpp:193-203 does,
\* is careful: the command comes before the edge.  One that has seen a node of
\* another rank in its own replica is not.
Carefully(r, v) == \A q \in Others(r) : v < maxNodes[q] + DueAt(r, q)

BeginEdge(r, v) ==
    /\ Free(r)
    /\ v < maxNodes[r]
    /\ Careful => Carefully(r, v)
    /\ SumFunction(made[r]) < MaxEdges[r]
    /\ made' = [made EXCEPT ![r][v] = @ + 1]
    /\ edge' = [edge EXCEPT ![r] = v]
    /\ unsent' = [unsent EXCEPT ![r] = Others(r)]
    /\ UNCHANGED <<pc, want, left, lastId, calls, claimed, listenerVars, sharedVars,
                   maxNodes, net, fresh, saved, ckptVars, changed>>

SendEdge(r) ==
    /\ edge[r] # NoEdge
    /\ \E q \in unsent[r] :
        /\ \A u \in unsent[r] : q <= u
        /\ net' = [net EXCEPT ![r][q] = Append(@, NewEdge(edge[r]))]
        /\ unsent' = [unsent EXCEPT ![r] = @ \ {q}]
    /\ UNCHANGED <<pc, want, left, lastId, calls, claimed, listenerVars, sharedVars,
                   maxNodes, edgeVars, ckptVars, changed>>

AddOwnEdge(r) ==
    /\ edge[r] # NoEdge
    /\ unsent[r] = {}
    /\ GraphAddEdge(r, edge[r])
    /\ edge' = [edge EXCEPT ![r] = NoEdge]
    /\ UNCHANGED <<mainVars, listenerVars, sharedVars, net, made, saved, ckptVars>>

\* Mutant: force_add_edge does not wait for checkpoint_lock.
HandleNewEdgeUnlocked(r, q) ==
    /\ Receive(r, q, "NEW_EDGE")
    /\ GraphAddEdge(r, Head(net[q][r]).n)
    /\ UNCHANGED <<mainVars, lpc, lleft, sharedVars, edge, made, saved, ckptVars>>

\* handle_new_edge and force_add_edge.  That the message is received before
\* the lock is taken does not show: the listener does nothing in between.
HandleNewEdge(r, q) ==
    /\ ckptLock[r] = "none"
    /\ Receive(r, q, "NEW_EDGE")
    /\ GraphAddEdge(r, Head(net[q][r]).n)
    /\ UNCHANGED <<mainVars, lpc, lleft, sharedVars, edge, made, saved, ckptVars>>

-----------------------------------------------------------------------------
(* The steps of NodeAgreement that meet edges and checkpoints.             *)

BeginNodes(r, n) ==
    /\ Free(r)
    /\ BeginAdd(r, n)
    /\ UNCHANGED <<edgeVars, ckptVars, changed>>

OwnNode(r) ==
    /\ AddOwnNode(r)
    /\ changed' = [changed EXCEPT ![r] = TRUE]
    /\ UNCHANGED <<edgeVars, ckptVars>>

\* Mutant: force_add_nodes does not wait for checkpoint_lock.
ForcedNodeUnlocked(r) ==
    /\ ForceAddNode(r)
    /\ changed' = [changed EXCEPT ![r] = TRUE]
    /\ UNCHANGED <<edgeVars, ckptVars>>

\* force_add_nodes keeps checkpoint_lock for its whole loop.
ForcedNode(r) ==
    /\ ckptLock[r] # "main"
    /\ ForceAddNode(r)
    /\ changed' = [changed EXCEPT ![r] = TRUE]
    /\ ckptLock' = [ckptLock EXCEPT ![r] = IF lleft[r] > 1 THEN "listener" ELSE "none"]
    /\ UNCHANGED <<edgeVars, levelNodes, vertices, saving, saves>>

AgreementStep(r) ==
    /\ \/ LockRequests(r) \/ MarkAdding(r) \/ SendRequests(r) \/ TakeAcks(r)
       \/ SendCommands(r) \/ ReleaseAdding(r) \/ SendDeferredAck(r) \/ ReturnIds(r)
    /\ UNCHANGED <<edgeVars, ckptVars, changed>>

AgreementMessage(r) ==
    /\ \/ \E q \in Others(r) :
            ReceiveRequest(r, q) \/ HandleAck(r, q) \/ ReceiveCommand(r, q)
       \/ CountRequest(r) \/ ReplyToRequest(r) \/ FinishCommand(r)
    /\ UNCHANGED <<edgeVars, ckptVars, changed>>

-----------------------------------------------------------------------------
(* checkpoint, called by request_checkpoint and by auto_checkpoint.  The   *)
(* flag the latter looks at is set by the main thread itself.              *)

BeginSave(r) ==
    /\ Free(r)
    /\ saves[r] < MaxSaves[r]
    /\ saves' = [saves EXCEPT ![r] = @ + 1]
    /\ saving' = [saving EXCEPT ![r] = "lock"]
    /\ UNCHANGED <<vars, edgeVars, changed, levelNodes, vertices, ckptLock>>

\* A graph without changes gets no new level.
LockCheckpoint(r) ==
    /\ saving[r] = "lock"
    /\ ckptLock[r] = "none"
    /\ ckptLock' = [ckptLock EXCEPT ![r] = "main"]
    /\ saving' = [saving EXCEPT ![r] = IF changed[r] THEN "write" ELSE "count"]
    /\ UNCHANGED <<vars, edgeVars, changed, levelNodes, vertices, saves>>

\* The new level has the edges and nodes of the writable graph ...
WriteLevel(r) ==
    /\ saving[r] = "write"
    /\ saved' = [saved EXCEPT ![r] = [v \in EdgeNodes |-> @[v] + fresh[r][v]]]
    /\ levelNodes' = [levelNodes EXCEPT ![r] = maxNodes[r]]
    /\ saving' = [saving EXCEPT ![r] = "clear"]
    /\ UNCHANGED <<vars, edge, made, fresh, changed, vertices, saves, ckptLock>>

\* ... which is emptied, and continues with the nodes of the level.
ClearWritable(r) ==
    /\ saving[r] = "clear"
    /\ fresh' = [fresh EXCEPT ![r] = None]
    /\ changed' = [changed EXCEPT ![r] = FALSE]
    /\ maxNodes' = [maxNodes EXCEPT ![r] = levelNodes[r]]
    /\ saving' = [saving EXCEPT ![r] = "count"]
    /\ UNCHANGED <<mainVars, listenerVars, sharedVars, net, edge, made, saved,
                   levelNodes, vertices, saves, ckptLock>>

CountVertices(r) ==
    /\ saving[r] = "count"
    /\ vertices' = [vertices EXCEPT ![r] = maxNodes[r] - 1]
    /\ saving' = [saving EXCEPT ![r] = "no"]
    /\ ckptLock' = [ckptLock EXCEPT ![r] = "none"]
    /\ UNCHANGED <<vars, edgeVars, changed, levelNodes, saves>>

-----------------------------------------------------------------------------
SimpleMain(r) ==
    \/ AgreementStep(r) \/ OwnNode(r) \/ SendEdge(r) \/ AddOwnEdge(r)
    \/ LockCheckpoint(r) \/ WriteLevel(r) \/ ClearWritable(r) \/ CountVertices(r)

SimpleListener(r) ==
    \/ AgreementMessage(r) \/ ForcedNode(r)
    \/ \E q \in Others(r) : HandleNewEdge(r, q)

SimpleNext ==
    \E r \in Ranks :
        \/ \E n \in 1 .. MaxNew : BeginNodes(r, n)
        \/ \E v \in EdgeNodes : BeginEdge(r, v)
        \/ BeginSave(r)
        \/ SimpleMain(r) \/ SimpleListener(r)

SimpleSpec == SimpleInit /\ [][SimpleNext]_simpleVars

\* The operating system schedules both threads.  Nothing is assumed of the
\* order in which MPI_ANY_SOURCE picks senders, nor that callers call.
SimpleFairSpec ==
    SimpleSpec /\ \A r \in Ranks :
        WF_simpleVars(SimpleMain(r)) /\ WF_simpleVars(SimpleListener(r))

-----------------------------------------------------------------------------
(* What simple_dllama must guarantee.                                      *)

Has(r, v) == fresh[r][v] + saved[r][v]

InChannel(p, q, v) == Cardinality({i \in DOMAIN net[p][q] : net[p][q][i] = NewEdge(v)})

\* The edges of p that q still has to add: on their way, or not sent yet.
Coming(p, q, v) ==
    IF p = q THEN One(edge[p] = v)
    ELSE InChannel(p, q, v) + One(edge[p] = v /\ q \in unsent[p])

\* No edge is lost or added twice at any rank, whatever checkpoints it makes
\* while edges arrive (checkpoint_lock: simple_dllama.cpp:93-98 and 197-206).
EdgesAccounted ==
    \A q \in Ranks, v \in EdgeNodes : saving[q] # "clear" =>
        Has(q, v) + SumFunction([p \in Ranks |-> Coming(p, q, v)])
            = SumFunction([p \in Ranks |-> made[p][v]])

\* The number of vertices told to a merge is that of the snapshots, not of
\* the writable graph (simple_dllama.cpp:199), though the listener adds
\* nodes at any time.
VerticesOfSnapshots ==
    \A r \in Ranks : ckptLock[r] # "main" => vertices[r] = levelNodes[r] - 1

\* No call, message or checkpoint is under way.
SimpleQuiet == Quiet /\ \A r \in Ranks : Free(r)

\* When nothing is under way all ranks have the same nodes and edges
\* (simple_dllama.cpp:80-91 and 127-138).
SameGraph(p, q) == maxNodes[p] = maxNodes[q] /\ \A v \in EdgeNodes : Has(p, v) = Has(q, v)
ReplicasSame == SimpleQuiet => \A p, q \in Ranks : SameGraph(p, q)

\* Every call returns: no wait for a lock, an ack, a command or a checkpoint
\* is for ever.
EveryCallReturns == \A r \in Ranks : []<> Free(r)
=============================================================================
