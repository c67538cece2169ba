------------------------- MODULE SimpleDllamaProofs -------------------------
(***************************************************************************)
(* Proofs about SimpleDllama for any number of ranks, calls, nodes, edges  *)
(* and checkpoints; callers are careful only where a theorem assumes it.   *)
(***************************************************************************)
EXTENDS SimpleDllama, NodeRefinementProofs, WellFoundedInduction

(***************************************************************************)
(* Type correctness.  A step of NodeAgreement keeps the types of its       *)
(* variables by TypeStep; what is left are the edges and the checkpoints.  *)
(***************************************************************************)
LEMMA SimpleTypeInit == SimpleInit => SimpleTypeOK
  <1> SUFFICES ASSUME SimpleInit PROVE SimpleTypeOK
    OBVIOUS
  <1>1. TypeOK
    BY TypeInit DEF SimpleInit
  <1>2. None \in [EdgeNodes -> Nat]
    BY DEF None
  <1>3. vertices \in [Ranks -> Int] /\ levelNodes \in [Ranks -> Nat]
    BY <1>1 DEF SimpleInit, TypeOK
  <1> QED
    BY <1>1, <1>2, <1>3 DEF SimpleInit, SimpleTypeOK, SavingStages, Owners

\* The message of an edge is a message.
LEMMA EdgeMessage ==
  ASSUME NEW v \in EdgeNodes
  PROVE  NewEdge(v) \in Messages /\ v \in Nat
  BY SimpleAssumption DEF NewEdge, Messages, Tags

\* One more edge in a count of edges.
LEMMA OneMore ==
  ASSUME NEW f \in [Ranks -> [EdgeNodes -> Nat]], NEW r \in Ranks, NEW v
  PROVE  [f EXCEPT ![r][v] = @ + 1] \in [Ranks -> [EdgeNodes -> Nat]]
  <1>1. f[r] \in [EdgeNodes -> Nat]
    OBVIOUS
  <1>2. [f[r] EXCEPT ![v] = f[r][v] + 1] \in [EdgeNodes -> Nat]
    <2>1. CASE v \in EdgeNodes
      BY <1>1, <2>1
    <2>2. CASE v \notin EdgeNodes
      BY <1>1, <2>2
    <2> QED
      BY <2>1, <2>2
  <1> QED
    BY <1>2

\* Adding an edge to a graph keeps the types of the graph.
LEMMA GraphAddEdgeType ==
  ASSUME SimpleTypeOK, NEW r \in Ranks, NEW v \in Nat, GraphAddEdge(r, v)
  PROVE  /\ fresh' \in [Ranks -> [EdgeNodes -> Nat]]
         /\ maxNodes' \in [Ranks -> Nat]
         /\ changed' \in [Ranks -> BOOLEAN]
  <1>1. [fresh EXCEPT ![r][v] = @ + 1] \in [Ranks -> [EdgeNodes -> Nat]]
    BY OneMore DEF SimpleTypeOK
  <1>2. maxNodes' \in [Ranks -> Nat]
    BY DEF SimpleTypeOK, TypeOK, GraphAddEdge
  <1>3. changed' \in [Ranks -> BOOLEAN]
    BY Zenon DEF SimpleTypeOK, GraphAddEdge
  <1> QED
    BY <1>1, <1>2, <1>3 DEF GraphAddEdge

\* Every step of the node agreement is a step of NodeAgreement.
LEMMA AgreementIsNext ==
  ASSUME NEW r \in Ranks,
         AgreementStep(r) \/ OwnNode(r) \/ AgreementMessage(r) \/ ForcedNode(r)
           \/ (\E n \in 1 .. MaxNew : BeginNodes(r, n))
  PROVE  Next
  BY DEF Next, MainStep, ListenerStep, AgreementStep, OwnNode, AgreementMessage,
         ForcedNode, BeginNodes

LEMMA SimpleTypeStep == SimpleTypeOK /\ [SimpleNext]_simpleVars => SimpleTypeOK'
  <1> SUFFICES ASSUME SimpleTypeOK, [SimpleNext]_simpleVars PROVE SimpleTypeOK'
    OBVIOUS
  <1> USE DEF SavingStages, Owners
  <1>1. CASE UNCHANGED simpleVars
    <2>1. TypeOK'
      BY <1>1, TypeStep DEF SimpleTypeOK, simpleVars
    <2> QED
      BY <1>1, <2>1 DEF SimpleTypeOK, simpleVars, edgeVars, ckptVars
  <1>2. ASSUME NEW r \in Ranks, NEW n \in 1 .. MaxNew, BeginNodes(r, n) PROVE SimpleTypeOK'
    <2>1. TypeOK'
      BY <1>2, AgreementIsNext, TypeStep DEF SimpleTypeOK
    <2> QED
      BY <1>2, <2>1 DEF SimpleTypeOK, BeginNodes, edgeVars, ckptVars
  <1>3. ASSUME NEW r \in Ranks, NEW v \in EdgeNodes, BeginEdge(r, v) PROVE SimpleTypeOK'
    <2>1. made' \in [Ranks -> [EdgeNodes -> Nat]]
      BY <1>3, OneMore DEF SimpleTypeOK, BeginEdge
    <2>2. TypeOK'
      BY <1>3 DEF SimpleTypeOK, TypeOK, BeginEdge, Others, listenerVars, sharedVars
    <2> QED
      BY <1>3, <2>1, <2>2 DEF SimpleTypeOK, BeginEdge, ckptVars
  <1>4. ASSUME NEW r \in Ranks, BeginSave(r) PROVE SimpleTypeOK'
    <2>1. TypeOK'
      BY <1>4, TypeStep DEF SimpleTypeOK, BeginSave
    <2> QED
      BY <1>4, <2>1 DEF SimpleTypeOK, BeginSave, edgeVars
  <1>5. ASSUME NEW r \in Ranks, AgreementStep(r) PROVE SimpleTypeOK'
    <2>1. TypeOK'
      BY <1>5, AgreementIsNext, TypeStep DEF SimpleTypeOK
    <2> QED
      BY <1>5, <2>1 DEF SimpleTypeOK, AgreementStep, edgeVars, ckptVars
  <1>6. ASSUME NEW r \in Ranks, OwnNode(r) PROVE SimpleTypeOK'
    <2>1. TypeOK'
      BY <1>6, AgreementIsNext, TypeStep DEF SimpleTypeOK
    <2> QED
      BY <1>6, <2>1 DEF SimpleTypeOK, OwnNode, edgeVars, ckptVars
  <1>7. ASSUME NEW r \in Ranks, SendEdge(r) PROVE SimpleTypeOK'
    <2>1. NewEdge(edge[r]) \in Messages
      BY <1>7, EdgeMessage DEF SimpleTypeOK, SendEdge
    <2>2. /\ net' \in [Ranks -> [Ranks -> Seq(Messages)]]
          /\ unsent' \in [Ranks -> SUBSET Ranks]
      <3>1. PICK q \in unsent[r] :
                /\ net' = [net EXCEPT ![r][q] = Append(@, NewEdge(edge[r]))]
                /\ unsent' = [unsent EXCEPT ![r] = @ \ {q}]
        BY <1>7 DEF SendEdge
      <3>2. q \in Ranks
        BY <3>1 DEF SimpleTypeOK, TypeOK
      <3> QED
        BY <2>1, <3>1, <3>2, SendType DEF SimpleTypeOK, TypeOK
    <2>3. TypeOK'
      BY <1>7, <2>2 DEF SimpleTypeOK, TypeOK, SendEdge, listenerVars, sharedVars
    <2> QED
      BY <1>7, <2>3 DEF SimpleTypeOK, SendEdge, edgeVars, ckptVars
  <1>8. ASSUME NEW r \in Ranks, AddOwnEdge(r) PROVE SimpleTypeOK'
    <2>1. edge[r] \in Nat /\ GraphAddEdge(r, edge[r])
      BY <1>8, EdgeMessage DEF SimpleTypeOK, AddOwnEdge
    <2>2. TypeOK'
      BY <1>8, <2>1, GraphAddEdgeType
         DEF SimpleTypeOK, TypeOK, AddOwnEdge, mainVars, listenerVars, sharedVars
    <2> QED
      BY <1>8, <2>1, <2>2, GraphAddEdgeType DEF SimpleTypeOK, AddOwnEdge, ckptVars
  <1>9. ASSUME NEW r \in Ranks, NEW q \in Others(r), HandleNewEdge(r, q) PROVE SimpleTypeOK'
    <2>1. /\ net' \in [Ranks -> [Ranks -> Seq(Messages)]]
          /\ from' \in [Ranks -> Ranks]
          /\ Head(net[q][r]) \in Messages
      BY <1>9, ReceiveType DEF SimpleTypeOK, HandleNewEdge, Others
    <2>2. Head(net[q][r]).n \in Nat /\ GraphAddEdge(r, Head(net[q][r]).n)
      BY <1>9, <2>1 DEF Messages, HandleNewEdge
    <2>3. TypeOK'
      BY <1>9, <2>1, <2>2, GraphAddEdgeType
         DEF SimpleTypeOK, TypeOK, HandleNewEdge, mainVars, sharedVars
    <2> QED
      BY <1>9, <2>2, <2>3, GraphAddEdgeType DEF SimpleTypeOK, HandleNewEdge, ckptVars
  <1>10. ASSUME NEW r \in Ranks, AgreementMessage(r) PROVE SimpleTypeOK'
    <2>1. TypeOK'
      BY <1>10, AgreementIsNext, TypeStep DEF SimpleTypeOK
    <2> QED
      BY <1>10, <2>1 DEF SimpleTypeOK, AgreementMessage, edgeVars, ckptVars
  <1>11. ASSUME NEW r \in Ranks, ForcedNode(r) PROVE SimpleTypeOK'
    <2>1. TypeOK'
      BY <1>11, AgreementIsNext, TypeStep DEF SimpleTypeOK
    <2> QED
      BY <1>11, <2>1 DEF SimpleTypeOK, ForcedNode, edgeVars
  <1>12. ASSUME NEW r \in Ranks, LockCheckpoint(r) PROVE SimpleTypeOK'
    <2>1. TypeOK'
      BY <1>12, TypeStep DEF SimpleTypeOK, LockCheckpoint
    <2> QED
      BY <1>12, <2>1 DEF SimpleTypeOK, LockCheckpoint, edgeVars
  <1>13. ASSUME NEW r \in Ranks, WriteLevel(r) PROVE SimpleTypeOK'
    <2>1. TypeOK'
      BY <1>13, TypeStep DEF SimpleTypeOK, WriteLevel
    <2>2. saved' \in [Ranks -> [EdgeNodes -> Nat]] /\ levelNodes' \in [Ranks -> Nat]
      BY SMTT(30), <1>13 DEF SimpleTypeOK, TypeOK, WriteLevel
    <2> QED
      BY <1>13, <2>1, <2>2 DEF SimpleTypeOK, WriteLevel
  <1>14. ASSUME NEW r \in Ranks, ClearWritable(r) PROVE SimpleTypeOK'
    <2>1. None \in [EdgeNodes -> Nat]
      BY DEF None
    <2>2. TypeOK'
      BY <1>14 DEF SimpleTypeOK, TypeOK, ClearWritable, mainVars, listenerVars, sharedVars
    <2> QED
      BY <1>14, <2>1, <2>2 DEF SimpleTypeOK, ClearWritable
  <1>15. ASSUME NEW r \in Ranks, CountVertices(r) PROVE SimpleTypeOK'
    <2>1. TypeOK'
      BY <1>15, TypeStep DEF SimpleTypeOK, CountVertices
    <2>2. vertices' \in [Ranks -> Int]
      BY <1>15 DEF SimpleTypeOK, TypeOK, CountVertices
    <2> QED
      BY <1>15, <2>1, <2>2 DEF SimpleTypeOK, CountVertices, edgeVars
  <1> QED
    BY <1>1, <1>2, <1>3, <1>4, <1>5, <1>6, <1>7, <1>8, <1>9, <1>10, <1>11, <1>12,
       <1>13, <1>14, <1>15 DEF SimpleNext, SimpleMain, SimpleListener

\* The variables of simple_dllama keep their types.
THEOREM SimpleTypeCorrect == SimpleSpec => []SimpleTypeOK
  BY SimpleTypeInit, SimpleTypeStep, PTL DEF SimpleSpec

(***************************************************************************)
(* The number of vertices.  VerticesOfSnapshots is not inductive: between  *)
(* the writing of a level and the counting the two numbers differ, and it  *)
(* is checkpoint_lock that keeps the node counter from moving meanwhile.   *)
(* SaveInv says who holds the lock, that the main thread does nothing else *)
(* while it checkpoints, and that the counter differs from that of the     *)
(* last level only in a graph that is marked as changed.                   *)
(***************************************************************************)
Locked(r) == ckptLock[r] = "main"
Unchanged(r) == ~changed[r]

SaveInv ==
    /\ SimpleTypeOK
    /\ \A r \in Ranks :
        /\ Locked(r) <=> saving[r] \in {"write", "clear", "count"}
        /\ saving[r] # "no" => pc[r] = "idle" /\ edge[r] = NoEdge
        /\ Unchanged(r) => maxNodes[r] = levelNodes[r]
        /\ saving[r] \in {"clear", "count"} => maxNodes[r] = levelNodes[r]
    /\ VerticesOfSnapshots

\* What a rank's mark says after it is set, and when no mark is set.
LEMMA Marked ==
  ASSUME SimpleTypeOK, NEW r \in Ranks, changed' = [changed EXCEPT ![r] = TRUE]
  PROVE  ~ Unchanged(r)' /\ \A s \in Ranks \ {r} : Unchanged(s)' <=> Unchanged(s)
  BY Zenon DEF SimpleTypeOK, Unchanged

LEMMA Unmarked ==
  ASSUME SimpleTypeOK, UNCHANGED changed
  PROVE  \A s \in Ranks : Unchanged(s)' <=> Unchanged(s)
  BY DEF SimpleTypeOK, Unchanged

\* A graph that a rank's listener or main thread changes outside of a
\* checkpoint: the mark is set, and the level and the count stay.
LEMMA MarkedStep ==
  ASSUME SaveInv, NEW r \in Ranks, ~ Locked(r), ~ Locked(r)',
         changed' = [changed EXCEPT ![r] = TRUE],
         \A s \in Ranks \ {r} : /\ maxNodes'[s] = maxNodes[s]
                               /\ ckptLock'[s] = ckptLock[s]
                               /\ pc'[s] = pc[s]
                               /\ edge'[s] = edge[s],
         saving[r] # "no" => pc'[r] = "idle" /\ edge'[r] = NoEdge,
         UNCHANGED <<levelNodes, vertices, saving>>, SimpleTypeOK'
  PROVE  SaveInv'
  <1>1. ~ Unchanged(r)' /\ \A s \in Ranks \ {r} : Unchanged(s)' <=> Unchanged(s)
    BY Marked DEF SaveInv
  <1> QED
    BY <1>1 DEF SaveInv, Locked, VerticesOfSnapshots

LEMMA SaveInit == SimpleInit => SaveInv
  <1> SUFFICES ASSUME SimpleInit PROVE SaveInv
    OBVIOUS
  <1>1. SimpleTypeOK
    BY SimpleTypeInit
  <1> QED
    BY <1>1 DEF SimpleInit, Init, SaveInv, Locked, Unchanged, VerticesOfSnapshots

\* A step of the protocol of add_nodes is of a main thread that is in
\* add_nodes, and but for AddOwnNode it leaves the node counter alone.
LEMMA AgreementFrame ==
  ASSUME SimpleTypeOK, NEW r \in Ranks, AgreementStep(r)
  PROVE  /\ pc[r] # "idle"
         /\ \A s \in Ranks \ {r} : pc'[s] = pc[s]
         /\ UNCHANGED <<maxNodes, edgeVars, ckptVars, changed>>
  <1>1. CASE LockRequests(r) \/ MarkAdding(r) \/ TakeAcks(r) \/ ReleaseAdding(r) \/ ReturnIds(r)
    BY <1>1 DEF SimpleTypeOK, TypeOK, AgreementStep, LockRequests, MarkAdding, TakeAcks,
                ReleaseAdding, ReturnIds
  <1>2. CASE SendRequests(r) \/ SendCommands(r)
    BY <1>2 DEF SimpleTypeOK, TypeOK, AgreementStep, SendRequests, SendCommands, SendLoop
  <1>3. CASE SendDeferredAck(r)
    BY <1>3 DEF AgreementStep, SendDeferredAck, mainVars
  <1> QED
    BY <1>1, <1>2, <1>3 DEF AgreementStep

\* A message of that protocol changes neither the main thread nor the
\* counter, but for the nodes that are added under checkpoint_lock.
LEMMA MessageFrame ==
  ASSUME NEW r \in Ranks, AgreementMessage(r)
  PROVE  UNCHANGED <<pc, maxNodes, edgeVars, ckptVars, changed>>
  <1>1. CASE \E q \in Others(r) : ReceiveRequest(r, q) \/ HandleAck(r, q) \/ ReceiveCommand(r, q)
    BY <1>1 DEF AgreementMessage, ReceiveRequest, HandleAck, ReceiveCommand, mainVars
  <1>2. CASE CountRequest(r) \/ ReplyToRequest(r) \/ FinishCommand(r)
    BY <1>2 DEF AgreementMessage, CountRequest, ReplyToRequest, FinishCommand, mainVars
  <1> QED
    BY <1>1, <1>2 DEF AgreementMessage

LEMMA SaveStep == SaveInv /\ [SimpleNext]_simpleVars => SaveInv'
  <1> SUFFICES ASSUME SaveInv, [SimpleNext]_simpleVars PROVE SaveInv'
    OBVIOUS
  <1>0. SimpleTypeOK /\ SimpleTypeOK'
    BY SimpleTypeStep DEF SaveInv
  <1> USE <1>0
  <1>1. CASE UNCHANGED simpleVars
    <2>1. \A s \in Ranks : Unchanged(s)' <=> Unchanged(s)
      BY <1>1, Unmarked DEF simpleVars
    <2> QED
      BY <1>1, <2>1 DEF SaveInv, Locked, VerticesOfSnapshots, simpleVars, vars, mainVars,
                        edgeVars, ckptVars
  <1>2. ASSUME NEW r \in Ranks, NEW n \in 1 .. MaxNew, BeginNodes(r, n) PROVE SaveInv'
    <2>1. \A s \in Ranks : Unchanged(s)' <=> Unchanged(s)
      BY <1>2, Unmarked DEF BeginNodes
    <2> QED
      BY <1>2, <2>1 DEF SaveInv, Locked, VerticesOfSnapshots, SimpleTypeOK, TypeOK, BeginNodes,
                        BeginAdd, Free, edgeVars, ckptVars
  <1>3. ASSUME NEW r \in Ranks, NEW v \in EdgeNodes, BeginEdge(r, v) PROVE SaveInv'
    <2>1. \A s \in Ranks : Unchanged(s)' <=> Unchanged(s)
      BY <1>3, Unmarked DEF BeginEdge
    <2> QED
      BY <1>3, <2>1 DEF SaveInv, Locked, VerticesOfSnapshots, SimpleTypeOK, BeginEdge, Free,
                        ckptVars
  <1>4. ASSUME NEW r \in Ranks, BeginSave(r) PROVE SaveInv'
    <2>1. \A s \in Ranks : Unchanged(s)' <=> Unchanged(s)
      BY <1>4, Unmarked DEF BeginSave
    <2> QED
      BY <1>4, <2>1 DEF SaveInv, Locked, VerticesOfSnapshots, SimpleTypeOK, SavingStages,
                        BeginSave, Free, vars, mainVars, edgeVars
  <1>5. ASSUME NEW r \in Ranks, AgreementStep(r) PROVE SaveInv'
    <2>1. \A s \in Ranks : Unchanged(s)' <=> Unchanged(s)
      BY <1>5, AgreementFrame, Unmarked
    <2> QED
      BY <1>5, <2>1, AgreementFrame DEF SaveInv, Locked, VerticesOfSnapshots, SimpleTypeOK,
                                        edgeVars, ckptVars
  <1>6. ASSUME NEW r \in Ranks, OwnNode(r) PROVE SaveInv'
    <2>1. saving[r] = "no" /\ ~ Locked(r)
      BY <1>6 DEF SaveInv, Locked, OwnNode, AddOwnNode
    <2> QED
      BY <1>6, <2>1, MarkedStep DEF SimpleTypeOK, TypeOK, OwnNode, AddOwnNode, Locked,
                                    edgeVars, ckptVars
  <1>7. ASSUME NEW r \in Ranks, SendEdge(r) PROVE SaveInv'
    <2>1. \A s \in Ranks : Unchanged(s)' <=> Unchanged(s)
      BY <1>7, Unmarked DEF SendEdge
    <2> QED
      BY <1>7, <2>1 DEF SaveInv, Locked, VerticesOfSnapshots, SendEdge, edgeVars, ckptVars
  <1>8. ASSUME NEW r \in Ranks, AddOwnEdge(r) PROVE SaveInv'
    <2>1. saving[r] = "no" /\ ~ Locked(r)
      BY <1>8 DEF SaveInv, Locked, AddOwnEdge
    <2> QED
      BY <1>8, <2>1, MarkedStep DEF SimpleTypeOK, TypeOK, AddOwnEdge, GraphAddEdge, Locked,
                                    mainVars, ckptVars
  <1>9. ASSUME NEW r \in Ranks, NEW q \in Others(r), HandleNewEdge(r, q) PROVE SaveInv'
    <2>1. ~ Locked(r) /\ ~ Locked(r)'
      BY <1>9 DEF Locked, HandleNewEdge, ckptVars
    <2>2. saving[r] # "no" => pc'[r] = "idle" /\ edge'[r] = NoEdge
      BY <1>9 DEF SaveInv, HandleNewEdge, mainVars
    <2> QED
      BY <1>9, <2>1, <2>2, MarkedStep DEF SimpleTypeOK, TypeOK, HandleNewEdge, GraphAddEdge,
                                          mainVars, ckptVars
  <1>10. ASSUME NEW r \in Ranks, AgreementMessage(r) PROVE SaveInv'
    <2>1. \A s \in Ranks : Unchanged(s)' <=> Unchanged(s)
      BY <1>10, MessageFrame, Unmarked
    <2> QED
      BY <1>10, <2>1, MessageFrame DEF SaveInv, Locked, VerticesOfSnapshots, edgeVars, ckptVars
  <1>11. ASSUME NEW r \in Ranks, ForcedNode(r) PROVE SaveInv'
    <2>1. ~ Locked(r) /\ ~ Locked(r)'
      BY <1>11 DEF Locked, ForcedNode, SimpleTypeOK
    <2>2. saving[r] # "no" => pc'[r] = "idle" /\ edge'[r] = NoEdge
      BY <1>11 DEF SaveInv, ForcedNode, ForceAddNode, mainVars, edgeVars
    <2> QED
      BY <1>11, <2>1, <2>2, MarkedStep DEF SimpleTypeOK, TypeOK, ForcedNode, ForceAddNode,
                                           mainVars, edgeVars
  <1>12. ASSUME NEW r \in Ranks, LockCheckpoint(r) PROVE SaveInv'
    <2>1. \A s \in Ranks : Unchanged(s)' <=> Unchanged(s)
      BY <1>12, Unmarked DEF LockCheckpoint
    <2>2. saving'[r] = "write" \/ (saving'[r] = "count" /\ Unchanged(r))
      BY <1>12 DEF LockCheckpoint, SimpleTypeOK, Unchanged
    <2> QED
      BY <1>12, <2>1, <2>2 DEF SaveInv, Locked, VerticesOfSnapshots, SimpleTypeOK, SavingStages,
                               LockCheckpoint, vars, mainVars, edgeVars
  <1>13. ASSUME NEW r \in Ranks, WriteLevel(r) PROVE SaveInv'
    <2>1. \A s \in Ranks : Unchanged(s)' <=> Unchanged(s)
      BY <1>13, Unmarked DEF WriteLevel
    <2>2. /\ levelNodes'[r] = maxNodes[r] /\ saving'[r] = "clear"
          /\ \A s \in Ranks \ {r} : levelNodes'[s] = levelNodes[s] /\ saving'[s] = saving[s]
      BY <1>13 DEF WriteLevel, SimpleTypeOK
    <2>3. Locked(r)
      BY <1>13 DEF WriteLevel, SaveInv
    <2> QED
      BY <1>13, <2>1, <2>2, <2>3 DEF SaveInv, Locked, VerticesOfSnapshots, WriteLevel, vars, mainVars
  <1>14. ASSUME NEW r \in Ranks, ClearWritable(r) PROVE SaveInv'
    <2>1. \A s \in Ranks \ {r} : Unchanged(s)' <=> Unchanged(s)
      BY <1>14, Zenon DEF ClearWritable, SimpleTypeOK, Unchanged
    <2>2. /\ maxNodes'[r] = levelNodes[r] /\ saving'[r] = "count"
          /\ \A s \in Ranks \ {r} : maxNodes'[s] = maxNodes[s] /\ saving'[s] = saving[s]
      BY <1>14 DEF ClearWritable, SimpleTypeOK, TypeOK
    <2>3. Locked(r)
      BY <1>14 DEF ClearWritable, SaveInv
    <2> QED
      BY <1>14, <2>1, <2>2, <2>3 DEF SaveInv, Locked, VerticesOfSnapshots, ClearWritable, mainVars
  <1>15. ASSUME NEW r \in Ranks, CountVertices(r) PROVE SaveInv'
    <2>1. \A s \in Ranks : Unchanged(s)' <=> Unchanged(s)
      BY <1>15, Unmarked DEF CountVertices
    <2>2. /\ vertices'[r] = levelNodes[r] - 1 /\ saving'[r] = "no" /\ ckptLock'[r] = "none"
          /\ \A s \in Ranks \ {r} : /\ vertices'[s] = vertices[s] /\ saving'[s] = saving[s]
                                   /\ ckptLock'[s] = ckptLock[s]
      BY <1>15 DEF CountVertices, SimpleTypeOK, SaveInv
    <2> QED
      BY <1>15, <2>1, <2>2 DEF SaveInv, Locked, VerticesOfSnapshots, CountVertices, vars,
                               mainVars, edgeVars
  <1> QED
    BY <1>1, <1>2, <1>3, <1>4, <1>5, <1>6, <1>7, <1>8, <1>9, <1>10, <1>11, <1>12,
       <1>13, <1>14, <1>15 DEF SimpleNext, SimpleMain, SimpleListener

\* The number of vertices a merge is told is that of the snapshots, for any
\* number of ranks, whatever arrives during a checkpoint and whoever adds
\* edges to nodes that are not there.
THEOREM VerticesCounted == SimpleSpec => []VerticesOfSnapshots
  <1>1. SaveInv => VerticesOfSnapshots
    BY DEF SaveInv
  <1> QED
    BY <1>1, SaveInit, SaveStep, PTL DEF SimpleSpec

-----------------------------------------------------------------------------
(* The handshake among edges: an edge is sent only while the rank adds no  *)
(* nodes, and a NEW_EDGE message is none of the handshake's.               *)

EdgesIdle == \A r \in Ranks : edge[r] # NoEdge => pc[r] = "idle"

\* One edge sent.
LEMMA EdgeSent ==
  ASSUME TypeOK, HandshakeInv, NEW r \in Ranks, NEW d \in Others(r), NEW m \in Messages,
         m.tag = "NEW_EDGE", pc[r] = "idle",
         net' = [net EXCEPT ![r][d] = Append(@, m)],
         unsent' = [unsent EXCEPT ![r] = @ \ {d}],
         UNCHANGED <<pc, left, lpc, from, ackStack, selfAdding, reqLock,
                     numRequests, numAcks>>
  PROVE  HandshakeInv'
  <1>1. d \in Ranks /\ d # r
    BY DEF Others
  <1>2. \A x \in Ranks : unsent'[x] = IF x = r THEN unsent[r] \ {d} ELSE unsent[x]
    BY DEF TypeOK
  <1>4. \A p \in Ranks : \A q \in Others(p) : Orderly(net'[p][q])
    BY <1>1, SendOrderly DEF HandshakeInv
  <1>5. \A p, q \in Ranks : \A tag : Carries(net'[p][q], tag) <=>
            Carries(net[p][q], tag) \/ (p = r /\ q = d /\ m.tag = tag)
    BY <1>1, SendCarries
  <1>6. ASSUME NEW p \in Ranks, NEW q \in Others(p)
        PROVE  /\ PairInv(p, q)' /\ Orderly(net'[p][q])
               /\ Counted(p, q)' <=> Counted(p, q)
               /\ Answered(p, q)' <=> Answered(p, q)
    <2>1. q \in Ranks /\ p # q
      BY DEF Others
    <2>2. PairInv(p, q) /\ PairInv(q, p) /\ Orderly(net'[p][q])
      BY <1>4, PairFacts
    <2>3. \A tag : tag # "NEW_EDGE" =>
                      /\ Carries(net'[p][q], tag) <=> Carries(net[p][q], tag)
                      /\ Carries(net'[q][p], tag) <=> Carries(net[q][p], tag)
      BY <1>5, <2>1
    <2> QED
      BY <1>2, <2>1, <2>2, <2>3
       DEF PairInv, Alone, UnderWay, Answered, Commanded, Promised, Counted, Granted,
           Asks, HoldsOver, ReqSent, AckSent, CmdSent, Counts, Replies, Forces, Stacked
  <1>7. ASSUME NEW x \in Ranks PROVE RankInv(x)'
    <2>1. RankInv(x)
      BY DEF HandshakeInv
    <2> QED
      BY <1>2, <2>1 DEF RankInv
  <1> QED
    BY <1>6, <1>7, AllKept

\* The call of add_edge begins: its sends are those of no other loop.
LEMMA EdgeBegun ==
  ASSUME TypeOK, HandshakeInv, NEW r \in Ranks, pc[r] = "idle",
         unsent' = [unsent EXCEPT ![r] = Others(r)],
         UNCHANGED <<net, pc, left, lpc, from, ackStack, selfAdding, reqLock,
                     numRequests, numAcks>>
  PROVE  HandshakeInv'
  <1>1. \A x \in Ranks : unsent'[x] = IF x = r THEN Others(r) ELSE unsent[x]
    BY DEF TypeOK
  <1>2. ASSUME NEW p \in Ranks, NEW q \in Others(p)
        PROVE  /\ PairInv(p, q)' /\ Orderly(net'[p][q])
               /\ Counted(p, q)' <=> Counted(p, q)
               /\ Answered(p, q)' <=> Answered(p, q)
    <2>1. q \in Ranks /\ p # q
      BY DEF Others
    <2>2. PairInv(p, q) /\ PairInv(q, p) /\ Orderly(net[p][q])
      BY PairFacts
    <2> QED
      BY <1>1, <2>1, <2>2
       DEF PairInv, Alone, UnderWay, Answered, Commanded, Promised, Counted, Granted,
           Asks, HoldsOver, ReqSent, AckSent, CmdSent, Counts, Replies, Forces, Stacked
  <1>3. ASSUME NEW x \in Ranks PROVE RankInv(x)'
    <2>1. RankInv(x)
      BY DEF HandshakeInv
    <2> QED
      BY <1>1, <2>1 DEF RankInv
  <1> QED
    BY <1>2, <1>3, AllKept

\* One edge received.
LEMMA EdgeReceived ==
  ASSUME TypeOK, HandshakeInv, NEW r \in Ranks, NEW d \in Others(r),
         Receive(r, d, "NEW_EDGE"),
         UNCHANGED <<pc, unsent, left, lpc, ackStack, selfAdding, reqLock,
                     numRequests, numAcks>>
  PROVE  HandshakeInv'
  <1>1. /\ \A p \in Ranks : \A q \in Others(p) : Orderly(net'[p][q])
        /\ \A p, q \in Ranks :
              \A t \in {"NEW_NODE_REQUEST", "NEW_NODE_ACK", "NEW_NODE_COMMAND"} :
                Carries(net'[p][q], t) <=> Carries(net[p][q], t)
    BY ReceiveEffect DEF HandshakeInv
  <1>2. /\ \A x \in Ranks : from'[x] = IF x = r THEN d ELSE from[x]
        /\ lpc[r] = "probe"
    BY DEF Receive, TypeOK
  <1>3. ASSUME NEW p \in Ranks, NEW q \in Others(p)
        PROVE  /\ PairInv(p, q)' /\ Orderly(net'[p][q])
               /\ Counted(p, q)' <=> Counted(p, q)
               /\ Answered(p, q)' <=> Answered(p, q)
    <2>1. q \in Ranks /\ p # q
      BY DEF Others
    <2>2. PairInv(p, q) /\ PairInv(q, p) /\ Orderly(net'[p][q])
      BY <1>1, PairFacts
    <2>3. \A t \in {"NEW_NODE_REQUEST", "NEW_NODE_ACK", "NEW_NODE_COMMAND"} :
                /\ Carries(net'[p][q], t) <=> Carries(net[p][q], t)
                /\ Carries(net'[q][p], t) <=> Carries(net[q][p], t)
      BY <1>1, <2>1
    <2> QED
      BY <1>2, <2>1, <2>2, <2>3
       DEF PairInv, Alone, UnderWay, Answered, Commanded, Promised, Counted, Granted,
           Asks, HoldsOver, ReqSent, AckSent, CmdSent, Counts, Replies, Forces, Stacked
  <1>4. ASSUME NEW x \in Ranks PROVE RankInv(x)'
    <2>1. RankInv(x)
      BY DEF HandshakeInv
    <2> QED
      BY <1>2, <2>1 DEF RankInv
  <1> QED
    BY <1>3, <1>4, AllKept

LEMMA SimpleHandshakeInit == SimpleInit => HandshakeInv /\ EdgesIdle
  <1> SUFFICES ASSUME SimpleInit PROVE HandshakeInv /\ EdgesIdle
    OBVIOUS
  <1>1. HandshakeInv
    BY HandshakeInit DEF SimpleInit
  <1>2. EdgesIdle
    BY DEF SimpleInit, EdgesIdle
  <1> QED
    BY <1>1, <1>2

LEMMA SimpleHandshakeStep ==
  SimpleTypeOK /\ HandshakeInv /\ EdgesIdle /\ [SimpleNext]_simpleVars
    => HandshakeInv' /\ EdgesIdle'
  <1> SUFFICES ASSUME SimpleTypeOK, HandshakeInv, EdgesIdle, [SimpleNext]_simpleVars
               PROVE  HandshakeInv' /\ EdgesIdle'
    OBVIOUS
  <1>0. TypeOK
    BY DEF SimpleTypeOK
  <1>1. ASSUME Next, edge' = edge, \A r \in Ranks : edge[r] # NoEdge => pc'[r] = pc[r]
        PROVE  HandshakeInv' /\ EdgesIdle'
    BY <1>0, <1>1, HandshakeStep DEF EdgesIdle
  <1>2. ASSUME UNCHANGED <<net, mainVars, listenerVars, sharedVars>>,
               \A r \in Ranks : edge'[r] = edge[r] \/ edge'[r] = NoEdge
        PROVE  HandshakeInv' /\ EdgesIdle'
    BY <1>2, ViewKeeps DEF mainVars, listenerVars, sharedVars, EdgesIdle
  <1>3. CASE UNCHANGED simpleVars
    BY <1>2, <1>3 DEF simpleVars, vars, edgeVars
  <1>4. ASSUME NEW r \in Ranks, NEW n \in 1 .. MaxNew, BeginNodes(r, n)
        PROVE  HandshakeInv' /\ EdgesIdle'
    <2>1. \A x \in Ranks : edge[x] # NoEdge => pc'[x] = pc[x]
      BY <1>0, <1>4 DEF BeginNodes, Free, BeginAdd, TypeOK
    <2>2. Next
      BY <1>4, AgreementIsNext
    <2> QED
      BY <1>1, <1>4, <2>1, <2>2 DEF BeginNodes, edgeVars
  <1>5. ASSUME NEW r \in Ranks, NEW v \in EdgeNodes, BeginEdge(r, v)
        PROVE  HandshakeInv' /\ EdgesIdle'
    <2>1. pc[r] = "idle" /\ UNCHANGED <<net, pc, left, listenerVars, sharedVars>>
      BY <1>5 DEF BeginEdge, Free
    <2>2. HandshakeInv'
      BY <1>0, <1>5, <2>1, EdgeBegun DEF BeginEdge, listenerVars, sharedVars
    <2>3. EdgesIdle'
      BY <1>5, <2>1 DEF BeginEdge, EdgesIdle, SimpleTypeOK
    <2> QED
      BY <2>2, <2>3
  <1>6. ASSUME NEW r \in Ranks, BeginSave(r) PROVE HandshakeInv' /\ EdgesIdle'
    BY <1>2, <1>6 DEF BeginSave, vars, edgeVars
  <1>7. ASSUME NEW r \in Ranks, AgreementStep(r) PROVE HandshakeInv' /\ EdgesIdle'
    <2>1. pc[r] # "idle" /\ \A x \in Ranks \ {r} : pc'[x] = pc[x]
      BY <1>7, AgreementFrame
    <2>3. \A x \in Ranks : edge[x] # NoEdge => pc'[x] = pc[x]
      BY <2>1 DEF EdgesIdle
    <2>4. Next
      BY <1>7, AgreementIsNext
    <2> QED
      BY <1>1, <1>7, <2>3, <2>4 DEF AgreementStep, edgeVars
  <1>8. ASSUME NEW r \in Ranks, OwnNode(r) PROVE HandshakeInv' /\ EdgesIdle'
    <2>1. Next
      BY <1>8, AgreementIsNext
    <2> QED
      BY <1>1, <1>8, <2>1 DEF OwnNode, AddOwnNode, edgeVars
  <1>9. ASSUME NEW r \in Ranks, SendEdge(r) PROVE HandshakeInv' /\ EdgesIdle'
    <2> DEFINE m == NewEdge(edge[r])
    <2>1. PICK d \in unsent[r] : /\ net' = [net EXCEPT ![r][d] = Append(@, m)]
                                 /\ unsent' = [unsent EXCEPT ![r] = @ \ {d}]
      BY <1>9 DEF SendEdge
    <2>2. m \in Messages
      BY <1>9, EdgeMessage DEF SimpleTypeOK, SendEdge
    <2>3. m.tag = "NEW_EDGE"
      BY DEF NewEdge
    <2> HIDE DEF m
    <2>4. d \in Others(r)
      BY <2>1 DEF HandshakeInv, RankInv
    <2>5. pc[r] = "idle" /\ UNCHANGED <<pc, left, lpc, from, ackStack, selfAdding, reqLock,
                                        numRequests, numAcks, edge>>
      BY <1>9 DEF SendEdge, EdgesIdle, listenerVars, sharedVars, edgeVars
    <2>6. HandshakeInv'
      BY <1>0, <2>1, <2>2, <2>3, <2>4, <2>5, EdgeSent
    <2> QED
      BY <2>5, <2>6 DEF EdgesIdle
  <1>10. ASSUME NEW r \in Ranks, AddOwnEdge(r) PROVE HandshakeInv' /\ EdgesIdle'
    <2>1. \A x \in Ranks : edge'[x] = edge[x] \/ edge'[x] = NoEdge
      BY <1>10 DEF AddOwnEdge, SimpleTypeOK
    <2> QED
      BY <1>2, <1>10, <2>1 DEF AddOwnEdge
  <1>11. ASSUME NEW r \in Ranks,
                LockCheckpoint(r) \/ WriteLevel(r) \/ ClearWritable(r) \/ CountVertices(r)
         PROVE  HandshakeInv' /\ EdgesIdle'
    <2>1. UNCHANGED <<net, mainVars, listenerVars, sharedVars, edge>>
      BY <1>11 DEF LockCheckpoint, WriteLevel, ClearWritable, CountVertices, vars, edgeVars
    <2> QED
      BY <1>2, <2>1
  <1>12. ASSUME NEW r \in Ranks, AgreementMessage(r) PROVE HandshakeInv' /\ EdgesIdle'
    <2>1. pc' = pc
      BY <1>12 DEF AgreementMessage, ReceiveRequest, HandleAck, ReceiveCommand,
                   CountRequest, ReplyToRequest, FinishCommand, mainVars
    <2>2. Next
      BY <1>12, AgreementIsNext
    <2> QED
      BY <1>1, <1>12, <2>1, <2>2 DEF AgreementMessage, edgeVars
  <1>13. ASSUME NEW r \in Ranks, ForcedNode(r) PROVE HandshakeInv' /\ EdgesIdle'
    <2>1. pc' = pc
      BY <1>13 DEF ForcedNode, ForceAddNode, mainVars
    <2>2. Next
      BY <1>13, AgreementIsNext
    <2> QED
      BY <1>1, <1>13, <2>1, <2>2 DEF ForcedNode, edgeVars
  <1>14. ASSUME NEW r \in Ranks, NEW q \in Others(r), HandleNewEdge(r, q)
         PROVE  HandshakeInv' /\ EdgesIdle'
    <2>1. UNCHANGED <<pc, unsent, left, lpc, ackStack, selfAdding, reqLock,
                      numRequests, numAcks, edge>>
      BY <1>14 DEF HandleNewEdge, mainVars, sharedVars
    <2>2. HandshakeInv'
      BY <1>0, <1>14, <2>1, EdgeReceived DEF HandleNewEdge
    <2> QED
      BY <2>1, <2>2 DEF EdgesIdle
  <1> QED
    BY <1>3, <1>4, <1>5, <1>6, <1>7, <1>8, <1>9, <1>10, <1>11, <1>12, <1>13, <1>14
       DEF SimpleNext, SimpleMain, SimpleListener

\* The handshake of NodeAgreement goes on as it does without edges.
THEOREM SimpleHandshake == SimpleSpec => [](HandshakeInv /\ EdgesIdle)
  BY SimpleTypeCorrect, SimpleHandshakeInit, SimpleHandshakeStep, PTL DEF SimpleSpec

\* No edge and no checkpoint makes an ack get lost or come too late.
THEOREM SimpleAcksBalance == SimpleSpec => []AcksAccounted
  BY SimpleHandshake, AcksFollow, PTL

\* Nor does one make the listener count a request twice or not at all.
THEOREM SimpleRequestsBalance == SimpleSpec => []RequestsAccounted
  BY SimpleHandshake, RequestsFollow, PTL

\* A rank that may go ahead finds the others locked out, also between edges.
THEOREM SimplePeersStayLocked == SimpleSpec => []PeersLocked
  BY SimpleHandshake, LocksFollow, PTL

-----------------------------------------------------------------------------
(***************************************************************************)
(* Sums.  SumFunction is a recursive function over the subsets of the      *)
(* domain.  That one exists, and what it computes, is shown by induction   *)
(* on the size of a subset; induction itself is NatLess's well-foundedness *)
(* applied to the numbers that are not in a set.                           *)
(***************************************************************************)
Less == {p \in Nat \X Nat : p[1] < p[2]}

\* A set of numbers with 0, and with n + 1 when it has n, has all.
LEMMA SetInduction ==
  ASSUME NEW T, 0 \in T, \A n \in Nat : n \in T => n + 1 \in T
  PROVE  \A n \in Nat : n \in T
  <1> DEFINE U == {n \in Nat : n \notin T}
  <1> SUFFICES ASSUME U # {} PROVE FALSE
    OBVIOUS
  <1>1. IsWellFoundedOn(Less, Nat)
    BY NatLessThanWellFounded, Zenon DEF OpToRel, Less
  <1>2. PICK m \in U : \A n \in U : <<n, m>> \notin Less
    <2>1. U \subseteq Nat
      OBVIOUS
    <2> HIDE DEF U
    <2> QED
      BY <1>1, <2>1, WFMin, Zenon
  <1>3. m # 0 /\ m \in Nat
    OBVIOUS
  <1>4. m - 1 \in Nat /\ m = (m - 1) + 1 /\ <<m - 1, m>> \in Less
    BY <1>3 DEF Less
  <1>5. m - 1 \in T
    BY <1>2, <1>4
  <1> QED
    BY <1>4, <1>5

First(s) == CHOOSE x \in s : TRUE
Adds(total, f, S) ==
    total = [s \in SUBSET S |-> IF s = {} THEN 0 ELSE f[First(s)] + total[s \ {First(s)}]]
\* The same for the subsets of at most n elements.
Small(S, n) == {s \in SUBSET S : Cardinality(s) <= n}
AddsSmall(total, f, S, n) ==
    total = [s \in Small(S, n) |-> IF s = {} THEN 0 ELSE f[First(s)] + total[s \ {First(s)}]]

LEMMA SumIs ==
  ASSUME NEW f
  PROVE  SumFunction(f) = (CHOOSE total : Adds(total, f, DOMAIN f))[DOMAIN f]
  BY DEF SumFunction, SumFunctionOnSet, FoldFunctionOnSet, MapThenFoldSet, Adds, First

\* Taking the first element of a set makes it smaller.
LEMMA Taken ==
  ASSUME NEW S, IsFiniteSet(S), NEW s \in SUBSET S, s # {}
  PROVE  /\ First(s) \in s /\ s \ {First(s)} \in SUBSET S
         /\ Cardinality(s) \in Nat \ {0}
         /\ Cardinality(s \ {First(s)}) = Cardinality(s) - 1
  <1>1. First(s) \in s
    BY DEF First
  <1>2. IsFiniteSet(s)
    BY FS_Subset
  <1>3. Cardinality(s) \in Nat /\ Cardinality(s) # 0
    BY <1>2, FS_CardinalityType, FS_EmptySet
  <1>4. Cardinality(s \ {First(s)}) = Cardinality(s) - 1
    BY <1>1, <1>2, FS_RemoveElement
  <1> QED
    BY <1>1, <1>3, <1>4

LEMMA SumExists ==
  ASSUME NEW f, NEW S, IsFiniteSet(S)
  PROVE  \E total : Adds(total, f, S)
  <1> DEFINE T == {n \in Nat : \E total : AddsSmall(total, f, S, n)}
  <1>1. \A s \in SUBSET S : Cardinality(s) \in Nat /\ (Cardinality(s) = 0 <=> s = {})
    BY FS_Subset, FS_CardinalityType, FS_EmptySet
  <1>2. 0 \in T
    <2> DEFINE t == [s \in Small(S, 0) |-> 0]
    <2>1. \A s \in Small(S, 0) : s = {}
      BY <1>1 DEF Small
    <2>2. AddsSmall(t, f, S, 0)
      BY <2>1 DEF AddsSmall
    <2> QED
      BY <2>2
  <1>3. ASSUME NEW n \in Nat, n \in T PROVE n + 1 \in T
    <2>1. PICK g : AddsSmall(g, f, S, n)
      BY <1>3
    <2> DEFINE t == [s \in Small(S, n + 1) |->
                       IF s \in Small(S, n) THEN g[s] ELSE f[First(s)] + g[s \ {First(s)}]]
    <2>2. {} \in Small(S, n)
      BY <1>1 DEF Small
    <2>3. ASSUME NEW s \in Small(S, n + 1), s # {} PROVE s \ {First(s)} \in Small(S, n)
      BY <2>3, Taken DEF Small
    <2>4. Small(S, n) \subseteq Small(S, n + 1)
      BY <1>1 DEF Small
    <2>5. \A s \in Small(S, n) : t[s] = g[s]
      BY <2>4
    <2>6. \A s \in Small(S, n) :
             g[s] = IF s = {} THEN 0 ELSE f[First(s)] + g[s \ {First(s)}]
      BY <2>1 DEF AddsSmall
    <2>7. ASSUME NEW s \in Small(S, n + 1)
          PROVE  t[s] = IF s = {} THEN 0 ELSE f[First(s)] + t[s \ {First(s)}]
      <3>1. CASE s = {}
        BY <3>1, <2>2, <2>5, <2>6
      <3>2. CASE s # {} /\ s \in Small(S, n)
        <4>1. t[s] = f[First(s)] + g[s \ {First(s)}]
          BY <3>2, <2>5, <2>6
        <4>2. t[s \ {First(s)}] = g[s \ {First(s)}]
          BY <3>2, <2>3, <2>5
        <4> QED
          BY <3>2, <4>1, <4>2
      <3>3. CASE s # {} /\ s \notin Small(S, n)
        <4>1. t[s] = f[First(s)] + g[s \ {First(s)}]
          BY <3>3
        <4>2. t[s \ {First(s)}] = g[s \ {First(s)}]
          BY <3>3, <2>3, <2>5
        <4> QED
          BY <3>3, <4>1, <4>2
      <3> QED
        BY <3>1, <3>2, <3>3
    <2>8. AddsSmall(t, f, S, n + 1)
      <3>1. t = [s \in Small(S, n + 1) |-> t[s]]
        OBVIOUS
      <3> HIDE DEF t
      <3>2. [s \in Small(S, n + 1) |-> t[s]] = [s \in Small(S, n + 1) |->
               IF s = {} THEN 0 ELSE f[First(s)] + t[s \ {First(s)}]]
        BY <2>7
      <3> QED
        BY <3>1, <3>2, Zenon DEF AddsSmall
    <2> HIDE DEF t
    <2> QED
      BY <2>8
  <1>4. Cardinality(S) \in T
    <2> HIDE DEF T
    <2> QED
      BY <1>2, <1>3, SetInduction, FS_CardinalityType
  <1>5. PICK g : AddsSmall(g, f, S, Cardinality(S))
    BY <1>4
  <1>6. Small(S, Cardinality(S)) = SUBSET S
    BY FS_Subset DEF Small
  <1>7. Adds(g, f, S)
    BY <1>5, <1>6 DEF AddsSmall, Adds
  <1> QED
    BY <1>7

\* What the function that adds has for the parts of S.
LEMMA SumParts ==
  ASSUME NEW S, IsFiniteSet(S), NEW f, NEW t, Adds(t, f, S)
  PROVE  /\ t[{}] = 0
         /\ \A s \in SUBSET S : s # {} => t[s] = f[First(s)] + t[s \ {First(s)}]
  BY DEF Adds

\* A sum of integers is one; one more in an addend is one more in the sum.
LEMMA SumMoves ==
  ASSUME NEW S, IsFiniteSet(S), NEW f \in [S -> Int], NEW g \in [S -> Int],
         NEW x \in S, \A y \in S : y # x => g[y] = f[y]
  PROVE  /\ SumFunction(f) \in Int
         /\ SumFunction(g) = SumFunction(f) + (g[x] - f[x])
  <1> DEFINE t == CHOOSE total : Adds(total, f, S)
             u == CHOOSE total : Adds(total, g, S)
             T == {n \in Nat : \A s \in SUBSET S : Cardinality(s) = n =>
                      /\ t[s] \in Int
                      /\ u[s] = t[s] + (IF x \in s THEN g[x] - f[x] ELSE 0)}
  <1>1. Adds(t, f, S) /\ Adds(u, g, S)
    BY SumExists
  <1>2. SumFunction(f) = t[S] /\ SumFunction(g) = u[S]
    BY SumIs
  <1> HIDE DEF t, u
  <1>6. t[{}] = 0 /\ \A s \in SUBSET S : s # {} => t[s] = f[First(s)] + t[s \ {First(s)}]
    BY <1>1 DEF Adds
  <1>7. u[{}] = 0 /\ \A s \in SUBSET S : s # {} => u[s] = g[First(s)] + u[s \ {First(s)}]
    BY <1>1 DEF Adds
  <1>3. 0 \in T
    <2>1. \A s \in SUBSET S : Cardinality(s) = 0 => s = {}
      BY FS_Subset, FS_EmptySet
    <2>2. t[{}] \in Int /\ u[{}] = t[{}] + (IF x \in {} THEN g[x] - f[x] ELSE 0)
      BY <1>6, <1>7
    <2> HIDE DEF t, u
    <2>3. ASSUME NEW s \in SUBSET S, Cardinality(s) = 0
          PROVE  t[s] \in Int /\ u[s] = t[s] + (IF x \in s THEN g[x] - f[x] ELSE 0)
      <3>1. s = {}
        BY <2>1, <2>3
      <3> QED
        BY <3>1, <2>2
    <2> QED
      BY <2>3
  <1>4. ASSUME NEW n \in Nat, n \in T PROVE n + 1 \in T
    <2> SUFFICES ASSUME NEW s \in SUBSET S, Cardinality(s) = n + 1
                 PROVE  /\ t[s] \in Int
                        /\ u[s] = t[s] + (IF x \in s THEN g[x] - f[x] ELSE 0)
      OBVIOUS
    <2> DEFINE y == First(s)
               r == s \ {y}
    <2>1. s # {}
      BY FS_EmptySet
    <2>2. y \in s /\ r \in SUBSET S /\ Cardinality(r) = n
      BY <2>1, Taken
    <2>3. t[s] = f[y] + t[r] /\ u[s] = g[y] + u[r]
      BY <1>6, <1>7, <2>1
    <2>4. t[r] \in Int /\ u[r] = t[r] + (IF x \in r THEN g[x] - f[x] ELSE 0)
      BY <1>4, <2>2
    <2>5. y \in S /\ f[y] \in Int /\ g[y] \in Int /\ f[x] \in Int /\ g[x] \in Int
      BY <2>2
    <2>6. x \in r <=> x \in s /\ x # y
      OBVIOUS
    <2> HIDE DEF y, r, T
    <2> QED
      BY <2>2, <2>3, <2>4, <2>5, <2>6
  <1>5. Cardinality(S) \in T
    <2> HIDE DEF T
    <2> QED
      BY <1>3, <1>4, SetInduction, FS_CardinalityType
  <1> QED
    BY <1>2, <1>5

\* Nothing adds up to nothing.
LEMMA SumNothing ==
  ASSUME NEW S, IsFiniteSet(S), NEW f, f = [x \in S |-> 0]
  PROVE  SumFunction(f) = 0
  <1> DEFINE t == CHOOSE total : Adds(total, f, S)
             T == {n \in Nat : \A s \in SUBSET S : Cardinality(s) = n => t[s] = 0}
  <1>1. Adds(t, f, S)
    BY SumExists
  <1>2. SumFunction(f) = t[S]
    BY SumIs
  <1> HIDE DEF t
  <1>3. 0 \in T
    <2>1. \A s \in SUBSET S : Cardinality(s) = 0 => s = {}
      BY FS_Subset, FS_EmptySet
    <2> QED
      BY <1>1, <2>1, SumParts
  <1>4. ASSUME NEW n \in Nat, n \in T PROVE n + 1 \in T
    <2> SUFFICES ASSUME NEW s \in SUBSET S, Cardinality(s) = n + 1 PROVE t[s] = 0
      OBVIOUS
    <2>1. s # {}
      BY FS_EmptySet
    <2>2. First(s) \in S /\ s \ {First(s)} \in SUBSET S /\ Cardinality(s \ {First(s)}) = n
      BY <2>1, Taken
    <2>3. t[s] = f[First(s)] + t[s \ {First(s)}]
      BY <1>1, <2>1, SumParts
    <2>4. t[s \ {First(s)}] = 0 /\ f[First(s)] = 0
      BY <1>4, <2>2
    <2> HIDE DEF T
    <2> QED
      BY <2>3, <2>4
  <1>5. Cardinality(S) \in T
    <2> HIDE DEF T
    <2> QED
      BY <1>3, <1>4, SetInduction, FS_CardinalityType
  <1> QED
    BY <1>2, <1>5
-----------------------------------------------------------------------------
(* Edges in a channel.                                                     *)

EdgesIn(s, v) == Cardinality({i \in DOMAIN s : s[i] = NewEdge(v)})

LEMMA EdgesInType ==
  ASSUME NEW s \in Seq(Messages), NEW v
  PROVE  EdgesIn(s, v) \in Nat
  <1>1. IsFiniteSet({i \in DOMAIN s : s[i] = NewEdge(v)})
    <2>1. IsFiniteSet(1 .. Len(s)) /\ DOMAIN s = 1 .. Len(s)
      BY FS_Interval
    <2> QED
      BY <2>1, FS_Subset
  <1> QED
    BY <1>1, FS_CardinalityType DEF EdgesIn

\* One message more.
LEMMA EdgesInAppend ==
  ASSUME NEW s \in Seq(Messages), NEW m \in Messages, NEW v
  PROVE  EdgesIn(Append(s, m), v) = EdgesIn(s, v) + One(m = NewEdge(v))
  <1> DEFINE A == {i \in DOMAIN s : s[i] = NewEdge(v)}
             B == {i \in DOMAIN Append(s, m) : Append(s, m)[i] = NewEdge(v)}
  <1>1. /\ Len(s) \in Nat /\ DOMAIN s = 1 .. Len(s)
        /\ DOMAIN Append(s, m) = 1 .. Len(s) + 1
        /\ Append(s, m)[Len(s) + 1] = m
        /\ \A i \in 1 .. Len(s) : Append(s, m)[i] = s[i]
    OBVIOUS
  <1>2. B = IF m = NewEdge(v) THEN A \cup {Len(s) + 1} ELSE A
    BY <1>1
  <1>3. IsFiniteSet(A) /\ Len(s) + 1 \notin A
    <2>1. IsFiniteSet(1 .. Len(s))
      BY <1>1, FS_Interval
    <2>2. A \subseteq 1 .. Len(s) /\ Len(s) + 1 \notin A
      BY <1>1
    <2> HIDE DEF A
    <2> QED
      BY <2>1, <2>2, FS_Subset
  <1>4. Cardinality(A) \in Nat /\ Cardinality(A \cup {Len(s) + 1}) = Cardinality(A) + 1
    <2> HIDE DEF A
    <2> QED
      BY <1>3, FS_CardinalityType, FS_AddElement
  <1>5. EdgesIn(s, v) = Cardinality(A) /\ EdgesIn(Append(s, m), v) = Cardinality(B)
    BY DEF EdgesIn
  <1> HIDE DEF A, B
  <1> QED
    BY <1>2, <1>4, <1>5 DEF One

\* The first message and the others.
LEMMA EdgesInTail ==
  ASSUME NEW s \in Seq(Messages), s # <<>>, NEW v
  PROVE  EdgesIn(Tail(s), v) + One(Head(s) = NewEdge(v)) = EdgesIn(s, v)
  <1> DEFINE A == {i \in DOMAIN Tail(s) : Tail(s)[i] = NewEdge(v)}
             B == {i \in DOMAIN s : s[i] = NewEdge(v)}
             C == B \ {1}
             f == [i \in A |-> i + 1]
  <1>1. /\ Len(s) \in Nat \ {0} /\ DOMAIN s = 1 .. Len(s)
        /\ DOMAIN Tail(s) = 1 .. Len(s) - 1 /\ Head(s) = s[1]
        /\ \A i \in 1 .. Len(s) - 1 : Tail(s)[i] = s[i + 1]
    OBVIOUS
  <1>2. f \in Bijection(A, C)
    <2>1. f \in [A -> C]
      BY <1>1
    <2>2. \A x, y \in A : f[x] = f[y] => x = y
      BY <1>1
    <2>3. \A z \in C : \E x \in A : f[x] = z
      <3> SUFFICES ASSUME NEW z \in C PROVE z - 1 \in A /\ f[z - 1] = z
        OBVIOUS
      <3>1. z \in 1 .. Len(s) /\ z # 1 /\ s[z] = NewEdge(v)
        BY <1>1
      <3>2. z - 1 \in 1 .. Len(s) - 1 /\ (z - 1) + 1 = z
        BY <1>1, <3>1
      <3>3. Tail(s)[z - 1] = NewEdge(v)
        BY <1>1, <3>1, <3>2
      <3> QED
        BY <1>1, <3>2, <3>3
    <2> HIDE DEF f, A, C
    <2> QED
      BY <2>1, <2>2, <2>3 DEF Bijection, Injection, Surjection, IsInjective
  <1>3. IsFiniteSet(A) /\ IsFiniteSet(B)
    <2>1. IsFiniteSet(1 .. Len(s)) /\ IsFiniteSet(1 .. Len(s) - 1)
      BY <1>1, FS_Interval
    <2>2. A \subseteq 1 .. Len(s) - 1 /\ B \subseteq 1 .. Len(s)
      BY <1>1
    <2> HIDE DEF A, B
    <2> QED
      BY <2>1, <2>2, FS_Subset
  <1>4. Cardinality(C) = Cardinality(A) /\ IsFiniteSet(C)
    <2> HIDE DEF f, A, C
    <2> QED
      BY <1>2, <1>3, FS_Bijection DEF ExistsBijection
  <1>5. 1 \in B <=> Head(s) = NewEdge(v)
    BY <1>1
  <1>6. Cardinality(B) \in Nat /\ Cardinality(C) = IF 1 \in B THEN Cardinality(B) - 1 ELSE Cardinality(B)
    <2> HIDE DEF B
    <2>1. Cardinality(B) \in Nat
      BY <1>3, FS_CardinalityType
    <2>2. CASE 1 \in B
      BY <1>3, <2>1, <2>2, FS_RemoveElement
    <2>3. CASE 1 \notin B
      <3>1. C = B
        BY <2>3
      <3> QED
        BY <2>1, <2>3, <3>1
    <2> QED
      BY <2>1, <2>2, <2>3
  <1>7. EdgesIn(s, v) = Cardinality(B) /\ EdgesIn(Tail(s), v) = Cardinality(A)
    BY DEF EdgesIn
  <1> HIDE DEF A, B, C
  <1> QED
    BY <1>4, <1>5, <1>6, <1>7 DEF One

-----------------------------------------------------------------------------
(* Edges accounted. *)
Held(q, v) == saved[q][v] + (IF saving[q] = "clear" THEN 0 ELSE fresh[q][v])
Account(q, v) ==
    Held(q, v) + SumFunction([p \in Ranks |-> Coming(p, q, v)])
        = SumFunction([p \in Ranks |-> made[p][v]])

LEMMA AccountMoves ==
  ASSUME NEW q \in Ranks, NEW v \in EdgeNodes, NEW r \in Ranks, Account(q, v),
         Held(q, v) \in Int, Held(q, v)' \in Int,
         \A p \in Ranks : /\ Coming(p, q, v) \in Int /\ Coming(p, q, v)' \in Int
                          /\ made[p][v] \in Int /\ made'[p][v] \in Int,
         \A p \in Ranks : p # r => Coming(p, q, v)' = Coming(p, q, v) /\ made'[p][v] = made[p][v],
         Held(q, v)' + Coming(r, q, v)' + made[r][v] = Held(q, v) + Coming(r, q, v) + made'[r][v]
  PROVE  Account(q, v)'
  <1>1. IsFiniteSet(Ranks)
    BY ConstantsAssumption, FS_Interval DEF Ranks
  <1>2. \E f \in [Ranks -> Int] : f = [p \in Ranks |-> Coming(p, q, v)]
    OBVIOUS
  <1>3. \E f \in [Ranks -> Int] : f = [p \in Ranks |-> Coming(p, q, v)']
    OBVIOUS
  <1>4. PICK f \in [Ranks -> Int] : f = [p \in Ranks |-> Coming(p, q, v)]
    BY <1>2
  <1>5. PICK g \in [Ranks -> Int] : g = [p \in Ranks |-> Coming(p, q, v)']
    BY <1>3
  <1>6. PICK a \in [Ranks -> Int] : a = [p \in Ranks |-> made[p][v]]
    OBVIOUS
  <1>7. PICK b \in [Ranks -> Int] : b = [p \in Ranks |-> made'[p][v]]
    OBVIOUS
  <1>8. SumFunction(f) \in Int /\ SumFunction(g) = SumFunction(f) + (g[r] - f[r])
    BY <1>1, <1>4, <1>5, SumMoves
  <1>9. SumFunction(a) \in Int /\ SumFunction(b) = SumFunction(a) + (b[r] - a[r])
    <2>1. \A p \in Ranks : p # r => b[p] = a[p]
      BY <1>6, <1>7
    <2> QED
      BY <1>1, <2>1, SumMoves
  <1>10. Held(q, v) + SumFunction(f) = SumFunction(a)
    BY <1>4, <1>6 DEF Account
  <1>11. Held(q, v)' + SumFunction(g) = SumFunction(b)
    <2>1. f[r] = Coming(r, q, v) /\ g[r] = Coming(r, q, v)' /\ a[r] = made[r][v] /\ b[r] = made'[r][v]
      BY <1>4, <1>5, <1>6, <1>7
    <2>2. Held(q, v)' + g[r] + a[r] = Held(q, v) + f[r] + b[r]
      BY <2>1
    <2>3. f[r] \in Int /\ g[r] \in Int /\ a[r] \in Int /\ b[r] \in Int
      OBVIOUS
    <2>4. Held(q, v) \in Int /\ Held(q, v)' \in Int
      OBVIOUS
    <2>5. PICK h \in Int, k \in Int, F \in Int, A \in Int :
             h = Held(q, v) /\ k = Held(q, v)' /\ F = SumFunction(f) /\ A = SumFunction(a)
      BY <1>8, <1>9, <2>4
    <2>6. h + F = A /\ k + g[r] + a[r] = h + f[r] + b[r]
      BY <1>10, <2>2, <2>5
    <2>7. k + (F + (g[r] - f[r])) = A + (b[r] - a[r])
      <3>1. PICK w \in Int, x \in Int, y \in Int, z \in Int :
               w = f[r] /\ x = g[r] /\ y = a[r] /\ z = b[r]
        BY <2>3
      <3>2. h + F = A /\ k + x + y = h + w + z
        BY <2>6, <3>1
      <3>3. k + (F + (x - w)) = A + (z - y)
        BY <3>2
      <3> QED
        BY <3>1, <3>3
    <2> QED
      BY <1>8, <1>9, <2>5, <2>7
  <1> QED
    BY <1>11, <1>5, <1>7 DEF Account
EdgesInv == \A q \in Ranks, v \in EdgeNodes : Account(q, v)

LEMMA HeldType ==
  ASSUME SimpleTypeOK, NEW q \in Ranks, NEW v \in EdgeNodes PROVE Held(q, v) \in Int
  <1>1. saved[q][v] \in Nat /\ fresh[q][v] \in Nat
    BY DEF SimpleTypeOK
  <1> QED
    BY <1>1 DEF Held

LEMMA ChannelType ==
  ASSUME TypeOK
  PROVE  \A p, q \in Ranks : \A v : InChannel(p, q, v) \in Nat
  <1> SUFFICES ASSUME NEW p \in Ranks, NEW q \in Ranks, NEW v PROVE InChannel(p, q, v) \in Nat
    OBVIOUS
  <1>1. net[p][q] \in Seq(Messages)
    BY DEF TypeOK
  <1> QED
    BY <1>1, EdgesInType DEF InChannel, EdgesIn

LEMMA ComingType ==
  ASSUME TypeOK
  PROVE  \A p, q \in Ranks : \A v : Coming(p, q, v) \in Int
  BY ChannelType DEF Coming, One

\* A step of rank r, or a receipt from it.
LEMMA StepAccounts ==
  ASSUME SimpleTypeOK, SimpleTypeOK', EdgesInv, NEW r \in Ranks,
         \A p, q \in Ranks, v \in EdgeNodes :
            p # r => Coming(p, q, v)' = Coming(p, q, v) /\ made'[p][v] = made[p][v],
         \A q \in Ranks, v \in EdgeNodes :
            Held(q, v)' + Coming(r, q, v)' + made[r][v] = Held(q, v) + Coming(r, q, v) + made'[r][v]
  PROVE  EdgesInv'
  <1> SUFFICES ASSUME NEW q \in Ranks, NEW v \in EdgeNodes PROVE Account(q, v)'
    BY DEF EdgesInv
  <1>1. Held(q, v) \in Int
    BY HeldType
  <1>2. Held(q, v)' \in Int
    <2>1. saved'[q][v] \in Nat /\ fresh'[q][v] \in Nat
      BY DEF SimpleTypeOK
    <2> QED
      BY <2>1 DEF Held
  <1>3. \A p \in Ranks : Coming(p, q, v) \in Int /\ made[p][v] \in Int
    BY ComingType DEF SimpleTypeOK
  <1>4. \A p \in Ranks : Coming(p, q, v)' \in Int
    <2> TAKE p \in Ranks
    <2>1. net'[p][q] \in Seq(Messages)
      BY DEF SimpleTypeOK, TypeOK
    <2>2. InChannel(p, q, v)' \in Nat
      BY <2>1, EdgesInType DEF InChannel, EdgesIn
    <2> QED
      BY <2>2 DEF Coming, One
  <1>5. \A p \in Ranks : made'[p][v] \in Int
    BY DEF SimpleTypeOK
  <1>6. Account(q, v)
    BY DEF EdgesInv
  <1> QED
    BY <1>1, <1>2, <1>3, <1>4, <1>5, <1>6, AccountMoves

\* The channels after a send and after a receipt.
Sends(r, d, m) == net' = [net EXCEPT ![r][d] = Append(@, m)]

LEMMA SentChannel ==
  ASSUME TypeOK, NEW r \in Ranks, NEW d \in Ranks, NEW m, Sends(r, d, m)
  PROVE  \A p, q \in Ranks :
            net'[p][q] = IF p = r /\ q = d THEN Append(net[p][q], m) ELSE net[p][q]
  <1>1. net \in [Ranks -> [Ranks -> Seq(Messages)]]
    BY DEF TypeOK
  <1>2. net' = [net EXCEPT ![r][d] = Append(@, m)]
    BY DEF Sends
  <1> SUFFICES ASSUME NEW p \in Ranks, NEW q \in Ranks
               PROVE  net'[p][q] = IF p = r /\ q = d THEN Append(net[p][q], m) ELSE net[p][q]
    OBVIOUS
  <1> QED
    BY <1>1, <1>2

LEMMA SendMoves ==
  ASSUME TypeOK, NEW r \in Ranks, NEW d \in Ranks, NEW m \in Messages, Sends(r, d, m)
  PROVE  \A p, q \in Ranks : \A v :
            InChannel(p, q, v)' = IF p = r /\ q = d /\ m = NewEdge(v)
                                  THEN InChannel(p, q, v) + 1 ELSE InChannel(p, q, v)
  <1> SUFFICES ASSUME NEW p \in Ranks, NEW q \in Ranks, NEW v
               PROVE  InChannel(p, q, v)' = IF p = r /\ q = d /\ m = NewEdge(v)
                                  THEN InChannel(p, q, v) + 1 ELSE InChannel(p, q, v)
    OBVIOUS
  <1>1. /\ net[p][q] \in Seq(Messages)
        /\ (p = r /\ q = d) => net'[p][q] = Append(net[p][q], m)
        /\ ~ (p = r /\ q = d) => net'[p][q] = net[p][q]
    BY ZenonT(30) DEF TypeOK, Sends
  <1>2. EdgesIn(net[p][q], v) \in Nat
    BY <1>1, EdgesInType
  <1>3. EdgesIn(Append(net[p][q], m), v) = EdgesIn(net[p][q], v) + One(m = NewEdge(v))
    BY <1>1, EdgesInAppend
  <1>4. InChannel(p, q, v) = EdgesIn(net[p][q], v) /\ InChannel(p, q, v)' = EdgesIn(net'[p][q], v)
    BY DEF InChannel, EdgesIn
  <1>5. CASE p = r /\ q = d
    <2>1. EdgesIn(net'[p][q], v) = EdgesIn(net[p][q], v) + One(m = NewEdge(v))
      BY <1>1, <1>3, <1>5
    <2>2. CASE m = NewEdge(v)
      BY <1>4, <1>5, <2>1, <2>2 DEF One
    <2>3. CASE m # NewEdge(v)
      BY <1>2, <1>4, <1>5, <2>1, <2>3 DEF One
    <2> QED
      BY <2>2, <2>3
  <1>6. CASE ~ (p = r /\ q = d)
    <2>1. EdgesIn(net'[p][q], v) = EdgesIn(net[p][q], v)
      BY <1>1, <1>6
    <2> QED
      BY <1>4, <1>6, <2>1
  <1> QED
    BY <1>5, <1>6

\* A message that is no edge.
LEMMA SendsOther ==
  ASSUME TypeOK, NEW r \in Ranks, NEW d \in Ranks, NEW m \in Messages,
         \A v : m # NewEdge(v), Sends(r, d, m)
  PROVE  \A p, q \in Ranks : \A v : InChannel(p, q, v)' = InChannel(p, q, v)
  <1>1. \A p, q \in Ranks : \A v :
           InChannel(p, q, v)' = IF p = r /\ q = d /\ m = NewEdge(v)
                                  THEN InChannel(p, q, v) + 1 ELSE InChannel(p, q, v)
    BY SendMoves
  <1> QED
    BY <1>1

LEMMA ReceiveMoves ==
  ASSUME TypeOK, NEW r \in Ranks, NEW d \in Ranks, NEW tag, Receive(r, d, tag)
  PROVE  \A p, q \in Ranks : \A v :
            InChannel(p, q, v)' + One(p = d /\ q = r /\ Head(net[d][r]) = NewEdge(v))
                = InChannel(p, q, v)
  <1> SUFFICES ASSUME NEW p \in Ranks, NEW q \in Ranks, NEW v
               PROVE  InChannel(p, q, v)' + One(p = d /\ q = r /\ Head(net[d][r]) = NewEdge(v))
                          = InChannel(p, q, v)
    OBVIOUS
  <1>1. /\ net[p][q] \in Seq(Messages)
        /\ (p = d /\ q = r) => net'[p][q] = Tail(net[p][q]) /\ net[p][q] # <<>>
        /\ ~ (p = d /\ q = r) => net'[p][q] = net[p][q]
    <2>1. net' = [net EXCEPT ![d][r] = Tail(@)] /\ net[d][r] # <<>>
      BY DEF Receive
    <2> QED
      BY ZenonT(30), <2>1 DEF TypeOK
  <1>2. EdgesIn(net[p][q], v) \in Nat
    BY <1>1, EdgesInType
  <1>3. net[p][q] # <<>> =>
           EdgesIn(Tail(net[p][q]), v) + One(Head(net[p][q]) = NewEdge(v)) = EdgesIn(net[p][q], v)
    BY <1>1, EdgesInTail
  <1>4. InChannel(p, q, v) = EdgesIn(net[p][q], v) /\ InChannel(p, q, v)' = EdgesIn(net'[p][q], v)
    BY DEF InChannel, EdgesIn
  <1> QED
    BY <1>1, <1>2, <1>3, <1>4 DEF One

\* The messages of the node agreement are no edges.
LEMMA OtherMessages ==
  ASSUME NEW v
  PROVE  /\ Ack # NewEdge(v) /\ \A n : Request(n) # NewEdge(v) /\ Command(n) # NewEdge(v)
         /\ \A m : m.tag # "NEW_EDGE" => m # NewEdge(v)
  <1>1. NewEdge(v).tag = "NEW_EDGE" /\ Ack.tag # "NEW_EDGE"
    BY DEF NewEdge, Ack
  <1>2. \A n : Request(n).tag # "NEW_EDGE" /\ Command(n).tag # "NEW_EDGE"
    BY DEF Request, Command
  <1> QED
    BY <1>1, <1>2


\* What a step of the agreement does to the channels: it sends or takes
\* messages of its own.
NodeMessage(m) == m \in Messages /\ m.tag # "NEW_EDGE"
SendsNode(r) == \E d \in Ranks, m \in Messages : NodeMessage(m) /\ Sends(r, d, m)

LEMMA NodeMessages ==
  /\ NodeMessage(Ack)
  /\ \A n \in Nat : NodeMessage(Request(n)) /\ NodeMessage(Command(n))
  BY MessagesType DEF NodeMessage, Ack, Request, Command

LEMMA LoopSends ==
  ASSUME TypeOK, NEW r \in Ranks, NEW m, NodeMessage(m), NEW next, SendLoop(r, m, next)
  PROVE  /\ net' = net \/ SendsNode(r)
         /\ \A p \in Ranks : p # r => unsent'[p] = unsent[p]
  <1>1. CASE UNCHANGED <<net, unsent>>
    BY <1>1
  <1>2. CASE \E d \in unsent[r] : /\ net' = [net EXCEPT ![r][d] = Append(@, m)]
                                  /\ unsent' = [unsent EXCEPT ![r] = @ \ {d}]
    <2>1. PICK d \in unsent[r] : /\ net' = [net EXCEPT ![r][d] = Append(@, m)]
                                 /\ unsent' = [unsent EXCEPT ![r] = @ \ {d}]
      BY <1>2
    <2>2. d \in Ranks /\ m \in Messages
      BY DEF TypeOK, NodeMessage
    <2>3. Sends(r, d, m)
      BY <2>1 DEF Sends
    <2>4. SendsNode(r)
      BY <2>2, <2>3 DEF SendsNode
    <2>5. \A p \in Ranks : p # r => unsent'[p] = unsent[p]
      BY <2>1 DEF TypeOK
    <2> QED
      BY <2>4, <2>5
  <1> QED
    BY <1>1, <1>2 DEF SendLoop

LEMMA AgreementSends ==
  ASSUME TypeOK, NEW r \in Ranks, AgreementStep(r)
  PROVE  /\ net' = net \/ SendsNode(r)
         /\ \A p \in Ranks : p # r => unsent'[p] = unsent[p]
         /\ UNCHANGED listenerVars
  <1>1. CASE LockRequests(r) \/ MarkAdding(r) \/ TakeAcks(r) \/ ReleaseAdding(r) \/ ReturnIds(r)
    <2>1. net' = net /\ UNCHANGED listenerVars
      BY <1>1 DEF LockRequests, MarkAdding, TakeAcks, ReleaseAdding, ReturnIds
    <2>2. \A p \in Ranks : p # r => unsent'[p] = unsent[p]
      BY <1>1 DEF LockRequests, MarkAdding, TakeAcks, ReleaseAdding, ReturnIds, TypeOK
    <2> QED
      BY <2>1, <2>2
  <1>2. CASE SendRequests(r)
    <2>1. NodeMessage(Request(want[r]))
      BY NodeMessages DEF TypeOK
    <2>2. SendLoop(r, Request(want[r]), "await") /\ UNCHANGED listenerVars
      BY <1>2 DEF SendRequests
    <2> QED
      BY <2>1, <2>2, LoopSends
  <1>3. CASE SendCommands(r)
    <2>1. NodeMessage(Command(want[r]))
      BY NodeMessages DEF TypeOK
    <2>2. SendLoop(r, Command(want[r]), "add") /\ UNCHANGED listenerVars
      BY <1>3 DEF SendCommands
    <2> QED
      BY <2>1, <2>2, LoopSends
  <1>4. CASE SendDeferredAck(r)
    <2> DEFINE top == ackStack[r][Len(ackStack[r])]
    <2>1. net' = [net EXCEPT ![r][top] = Append(@, Ack)] /\ unsent' = unsent
          /\ UNCHANGED listenerVars
      BY <1>4 DEF SendDeferredAck, mainVars
    <2>2. top \in Ranks
      <3>1. ackStack[r] \in Seq(Ranks) /\ ackStack[r] # <<>>
        BY <1>4 DEF SendDeferredAck, TypeOK
      <3> QED
        BY <3>1
    <2>3. NodeMessage(Ack) /\ Ack \in Messages
      BY NodeMessages DEF NodeMessage
    <2>4. Sends(r, top, Ack)
      BY <2>1 DEF Sends
    <2> HIDE DEF top
    <2>5. SendsNode(r)
      BY <2>2, <2>3, <2>4 DEF SendsNode
    <2> QED
      BY <2>1, <2>5
  <1> QED
    BY <1>1, <1>2, <1>3, <1>4 DEF AgreementStep

LEMMA MessageSends ==
  ASSUME TypeOK, NEW r \in Ranks, AgreementMessage(r)
  PROVE  /\ \/ net' = net \/ SendsNode(r)
            \/ \E d \in Others(r), tag \in Tags : tag # "NEW_EDGE" /\ Receive(r, d, tag)
         /\ unsent' = unsent
  <1>1. unsent' = unsent
    BY DEF AgreementMessage, ReceiveRequest, HandleAck, ReceiveCommand,
           CountRequest, ReplyToRequest, FinishCommand, mainVars
  <1>2. CASE \E d \in Others(r) : ReceiveRequest(r, d) \/ HandleAck(r, d) \/ ReceiveCommand(r, d)
    BY <1>1, <1>2 DEF ReceiveRequest, HandleAck, ReceiveCommand, Tags
  <1>3. CASE CountRequest(r) \/ FinishCommand(r)
    BY <1>1, <1>3 DEF CountRequest, FinishCommand
  <1>4. CASE ReplyToRequest(r)
    <2>1. CASE net' = net
      BY <1>1, <2>1
    <2>2. CASE net' = [net EXCEPT ![r][from[r]] = Append(@, Ack)]
      <3>1. NodeMessage(Ack) /\ Ack \in Messages
        BY NodeMessages DEF NodeMessage
      <3>2. from[r] \in Ranks
        BY DEF TypeOK
      <3>3. Sends(r, from[r], Ack)
        BY <2>2 DEF Sends
      <3> QED
        BY <1>1, <3>1, <3>2, <3>3 DEF SendsNode
    <2> QED
      BY <1>4, <2>1, <2>2 DEF ReplyToRequest
  <1> QED
    BY <1>2, <1>3, <1>4 DEF AgreementMessage

\* Such a step moves no edge, and it starts a send loop only where no edge is
\* being sent.
LEMMA NodeSendsNoEdge ==
  ASSUME TypeOK, NEW r \in Ranks, net' = net \/ SendsNode(r)
  PROVE  \A p, q \in Ranks : \A v : InChannel(p, q, v)' = InChannel(p, q, v)
  <1>1. CASE net' = net
    BY <1>1 DEF InChannel
  <1>2. CASE SendsNode(r)
    <2>1. PICK d \in Ranks, m \in Messages : NodeMessage(m) /\ Sends(r, d, m)
      BY <1>2 DEF SendsNode
    <2>2. \A v : m # NewEdge(v)
      BY <2>1, OtherMessages DEF NodeMessage
    <2> QED
      BY <2>1, <2>2, SendsOther
  <1> QED
    BY <1>1, <1>2

LEMMA AgreementEdges ==
  ASSUME SimpleTypeOK, HandshakeInv, EdgesIdle, NEW r \in Ranks, AgreementStep(r)
  PROVE  /\ \A p, q \in Ranks : \A v : InChannel(p, q, v)' = InChannel(p, q, v)
         /\ \A p \in Ranks : edge[p] # NoEdge => unsent'[p] = unsent[p]
  <1>0. TypeOK
    BY DEF SimpleTypeOK
  <1>1. edge[r] = NoEdge
    BY AgreementFrame DEF EdgesIdle
  <1>2. /\ net' = net \/ SendsNode(r)
        /\ \A p \in Ranks : p # r => unsent'[p] = unsent[p]
    BY <1>0, AgreementSends
  <1> QED
    BY <1>0, <1>1, <1>2, NodeSendsNoEdge

LEMMA MessageEdges ==
  ASSUME SimpleTypeOK, SimpleTypeOK', NEW r \in Ranks, AgreementMessage(r)
  PROVE  /\ \A p, q \in Ranks : \A v : InChannel(p, q, v)' = InChannel(p, q, v)
         /\ unsent' = unsent
  <1>0. TypeOK /\ TypeOK'
    BY DEF SimpleTypeOK
  <1>1. /\ \/ net' = net \/ SendsNode(r)
           \/ \E d \in Others(r), tag \in Tags : tag # "NEW_EDGE" /\ Receive(r, d, tag)
        /\ unsent' = unsent
    BY <1>0, MessageSends
  <1>2. ASSUME NEW d \in Others(r), NEW tag \in Tags, tag # "NEW_EDGE", Receive(r, d, tag)
        PROVE  \A p, q \in Ranks : \A v : InChannel(p, q, v)' = InChannel(p, q, v)
    <2> SUFFICES ASSUME NEW p \in Ranks, NEW q \in Ranks, NEW v
                 PROVE  InChannel(p, q, v)' = InChannel(p, q, v)
      OBVIOUS
    <2>1. d \in Ranks /\ Head(net[d][r]).tag # "NEW_EDGE"
      BY <1>2 DEF Others, Receive
    <2>2. InChannel(p, q, v)' + One(p = d /\ q = r /\ Head(net[d][r]) = NewEdge(v))
             = InChannel(p, q, v)
      BY <1>0, <1>2, <2>1, ReceiveMoves
    <2>3. Head(net[d][r]) # NewEdge(v)
      BY <2>1, OtherMessages
    <2>4. InChannel(p, q, v)' = EdgesIn(net'[p][q], v)
      BY DEF InChannel, EdgesIn
    <2>5. EdgesIn(net'[p][q], v) \in Nat
      <3>1. net'[p][q] \in Seq(Messages)
        BY <1>0 DEF TypeOK
      <3> QED
        BY <3>1, EdgesInType
    <2> QED
      BY <2>2, <2>3, <2>4, <2>5 DEF One
  <1> QED
    BY <1>0, <1>1, <1>2, NodeSendsNoEdge

\* Steps that move no edge.
LEMMA SameEdges ==
  ASSUME SimpleTypeOK, SimpleTypeOK', EdgesInv, edge' = edge, made' = made,
         \A p, q \in Ranks : \A v : InChannel(p, q, v)' = InChannel(p, q, v),
         \A p \in Ranks : edge[p] # NoEdge => unsent'[p] = unsent[p],
         \A q \in Ranks, v \in EdgeNodes : Held(q, v)' = Held(q, v)
  PROVE  EdgesInv'
  <1>1. \A p, q \in Ranks, v \in EdgeNodes : Coming(p, q, v)' = Coming(p, q, v)
    <2> SUFFICES ASSUME NEW p \in Ranks, NEW q \in Ranks, NEW v \in EdgeNodes
                 PROVE  Coming(p, q, v)' = Coming(p, q, v)
      OBVIOUS
    <2>1. edge[p] = v => edge[p] # NoEdge
      BY SimpleAssumption DEF NoEdge
    <2>2. edge'[p] = v /\ q \in unsent'[p] <=> edge[p] = v /\ q \in unsent[p]
      BY <2>1
    <2> QED
      BY <2>2 DEF Coming, One
  <1>2. 0 \in Ranks
    BY ConstantsAssumption DEF Ranks
  <1>3. \A q \in Ranks, v \in EdgeNodes :
           /\ Held(q, v) \in Int /\ Coming(0, q, v) \in Int /\ made[0][v] \in Int
    BY <1>2, HeldType, ComingType DEF SimpleTypeOK
  <1>4. \A q \in Ranks, v \in EdgeNodes :
           Held(q, v)' + Coming(0, q, v)' + made[0][v] = Held(q, v) + Coming(0, q, v) + made'[0][v]
    BY <1>1, <1>2, <1>3
  <1>5. \A p, q \in Ranks, v \in EdgeNodes :
           p # 0 => Coming(p, q, v)' = Coming(p, q, v) /\ made'[p][v] = made[p][v]
    BY <1>1
  <1> QED
    BY <1>2, <1>4, <1>5, StepAccounts

LEMMA EdgesInit == SimpleInit => EdgesInv
  <1> SUFFICES ASSUME SimpleInit, NEW q \in Ranks, NEW v \in EdgeNodes PROVE Account(q, v)
    BY DEF EdgesInv
  <1>1. IsFiniteSet(Ranks)
    BY ConstantsAssumption, FS_Interval DEF Ranks
  <1>2. \A p \in Ranks : made[p][v] = 0 /\ edge[p] # v
    BY SimpleAssumption DEF SimpleInit, None, NoEdge
  <1>3. \A p \in Ranks : InChannel(p, q, v) = 0
    <2> TAKE p \in Ranks
    <2>1. net[p][q] = <<>>
      BY DEF SimpleInit, Init
    <2>2. {i \in DOMAIN net[p][q] : net[p][q][i] = NewEdge(v)} = {}
      BY <2>1
    <2> QED
      BY <2>2, FS_EmptySet DEF InChannel
  <1>4. \A p \in Ranks : Coming(p, q, v) = 0
    BY <1>2, <1>3 DEF Coming, One
  <1>5. Held(q, v) = 0
    BY DEF SimpleInit, None, Held
  <1>6. [p \in Ranks |-> Coming(p, q, v)] = [p \in Ranks |-> 0]
    BY <1>4
  <1>7. [p \in Ranks |-> made[p][v]] = [p \in Ranks |-> 0]
    BY <1>2
  <1>8. SumFunction([p \in Ranks |-> 0]) = 0
    BY <1>1, SumNothing
  <1>9. SumFunction([p \in Ranks |-> Coming(p, q, v)]) = 0
    BY <1>6, <1>8
  <1>10. SumFunction([p \in Ranks |-> made[p][v]]) = 0
    BY <1>7, <1>8
  <1> QED
    BY <1>5, <1>9, <1>10 DEF Account

\* One edge of a rank begins: it is to come at all ranks.
LEMMA BegunAccounts ==
  ASSUME SimpleTypeOK, SimpleTypeOK', EdgesInv, NEW r \in Ranks, NEW v \in EdgeNodes,
         BeginEdge(r, v)
  PROVE  EdgesInv'
  <1>1. /\ edge[r] = NoEdge
        /\ \A p \in Ranks : edge'[p] = IF p = r THEN v ELSE edge[p]
        /\ \A p \in Ranks : unsent'[p] = IF p = r THEN Others(r) ELSE unsent[p]
        /\ net' = net /\ fresh' = fresh /\ saved' = saved /\ saving' = saving
    BY DEF BeginEdge, Free, SimpleTypeOK, TypeOK, ckptVars
  <1>2. \A p \in Ranks, w \in EdgeNodes :
           made'[p][w] = IF p = r /\ w = v THEN made[p][w] + 1 ELSE made[p][w]
    BY DEF BeginEdge, SimpleTypeOK
  <1>3. \A p, q \in Ranks : \A w : InChannel(p, q, w)' = InChannel(p, q, w)
    BY <1>1 DEF InChannel
  <1>4. \A p, q \in Ranks, w \in EdgeNodes :
           p # r => Coming(p, q, w)' = Coming(p, q, w) /\ made'[p][w] = made[p][w]
    BY <1>1, <1>2, <1>3 DEF Coming, One
  <1>5. ASSUME NEW q \in Ranks, NEW w \in EdgeNodes
        PROVE  Held(q, w)' + Coming(r, q, w)' + made[r][w] = Held(q, w) + Coming(r, q, w) + made'[r][w]
    <2>1. Held(q, w)' = Held(q, w)
      BY <1>1 DEF Held
    <2>2. Held(q, w) \in Int /\ InChannel(r, q, w) \in Int /\ made[r][w] \in Int
      BY HeldType, ChannelType DEF SimpleTypeOK
    <2>3. edge[r] # w
      BY <1>1, SimpleAssumption DEF NoEdge
    <2>4. Coming(r, q, w) = IF q = r THEN 0 ELSE InChannel(r, q, w)
      BY <2>2, <2>3 DEF Coming, One
    <2>5. Coming(r, q, w)' = (IF q = r THEN 0 ELSE InChannel(r, q, w)) + IF w = v THEN 1 ELSE 0
      <3>1. q = r \/ q \in Others(r)
        BY DEF Others
      <3> QED
        BY <1>1, <1>3, <2>2, <3>1 DEF Coming, One
    <2>6. made'[r][w] = IF w = v THEN made[r][w] + 1 ELSE made[r][w]
      BY <1>2
    <2> QED
      BY <2>1, <2>2, <2>4, <2>5, <2>6
  <1> QED
    BY <1>4, <1>5, StepAccounts

\* An edge that is sent to a rank is still to come there.
LEMMA SentAccounts ==
  ASSUME SimpleTypeOK, SimpleTypeOK', HandshakeInv, EdgesInv, NEW r \in Ranks, SendEdge(r)
  PROVE  EdgesInv'
  <1>0. TypeOK
    BY DEF SimpleTypeOK
  <1>1. PICK d \in unsent[r] : /\ net' = [net EXCEPT ![r][d] = Append(@, NewEdge(edge[r]))]
                               /\ unsent' = [unsent EXCEPT ![r] = @ \ {d}]
    BY DEF SendEdge
  <1>2. d \in Ranks /\ d # r
    BY DEF HandshakeInv, RankInv, Others
  <1>3. edge[r] \in EdgeNodes /\ NewEdge(edge[r]) \in Messages
    BY EdgeMessage DEF SendEdge, SimpleTypeOK
  <1>4. edge' = edge /\ made' = made /\ fresh' = fresh /\ saved' = saved /\ saving' = saving
    BY DEF SendEdge, edgeVars, ckptVars
  <1>5. Sends(r, d, NewEdge(edge[r]))
    BY <1>1 DEF Sends
  <1>6. \A p, q \in Ranks : \A v :
           InChannel(p, q, v)' = IF p = r /\ q = d /\ NewEdge(edge[r]) = NewEdge(v)
                                 THEN InChannel(p, q, v) + 1 ELSE InChannel(p, q, v)
    BY <1>0, <1>2, <1>3, <1>5, SendMoves
  <1>7. \A v : NewEdge(edge[r]) = NewEdge(v) <=> edge[r] = v
    <2>1. \A v, w : NewEdge(v) = NewEdge(w) => v = w
      <3>1. \A v : NewEdge(v).n = v
        BY DEF NewEdge
      <3> QED
        BY <3>1
    <2> QED
      BY <2>1
  <1>8. \A p \in Ranks : unsent'[p] = IF p = r THEN unsent[r] \ {d} ELSE unsent[p]
    BY <1>0, <1>1 DEF TypeOK
  <1>9. \A p, q \in Ranks, v \in EdgeNodes : Coming(p, q, v)' = Coming(p, q, v)
    <2> SUFFICES ASSUME NEW p \in Ranks, NEW q \in Ranks, NEW v \in EdgeNodes
                 PROVE  Coming(p, q, v)' = Coming(p, q, v)
      OBVIOUS
    <2>1. InChannel(p, q, v) \in Nat
      BY <1>0, ChannelType
    <2>2. CASE p = r /\ q = d /\ edge[r] = v
      <3>1. InChannel(p, q, v)' = InChannel(p, q, v) + 1
        BY <1>6, <1>7, <2>2
      <3>2. q \in unsent[p] /\ q \notin unsent'[p] /\ p # q
        BY <1>2, <1>8, <2>2
      <3> QED
        BY <1>4, <2>1, <2>2, <3>1, <3>2 DEF Coming, One
    <2>3. CASE ~ (p = r /\ q = d /\ edge[r] = v)
      <3>1. InChannel(p, q, v)' = InChannel(p, q, v)
        BY <1>6, <1>7, <2>3
      <3>2. edge[p] = v /\ q \in unsent'[p] <=> edge[p] = v /\ q \in unsent[p]
        BY <1>8, <2>3
      <3> QED
        BY <1>4, <3>1, <3>2 DEF Coming, One
    <2> QED
      BY <2>2, <2>3
  <1>10. \A q \in Ranks, v \in EdgeNodes : Held(q, v)' = Held(q, v)
    BY <1>4 DEF Held
  <1>11. \A q \in Ranks, v \in EdgeNodes :
           /\ Held(q, v) \in Int /\ Coming(r, q, v) \in Int /\ made[r][v] \in Int
    BY <1>0, HeldType, ComingType DEF SimpleTypeOK
  <1>12. \A q \in Ranks, v \in EdgeNodes :
           Held(q, v)' + Coming(r, q, v)' + made[r][v] = Held(q, v) + Coming(r, q, v) + made'[r][v]
    BY <1>4, <1>9, <1>10, <1>11
  <1>13. \A p, q \in Ranks, v \in EdgeNodes :
           p # r => Coming(p, q, v)' = Coming(p, q, v) /\ made'[p][v] = made[p][v]
    BY <1>4, <1>9
  <1> QED
    BY <1>12, <1>13, StepAccounts

\* One more edge in the writable graph, outside of a checkpoint.
LEMMA HeldMore ==
  ASSUME SimpleTypeOK, NEW r \in Ranks, NEW x, GraphAddEdge(r, x), saving[r] # "clear",
         saving' = saving, saved' = saved
  PROVE  \A q \in Ranks, v \in EdgeNodes :
            Held(q, v)' = IF q = r /\ v = x THEN Held(q, v) + 1 ELSE Held(q, v)
  <1> SUFFICES ASSUME NEW q \in Ranks, NEW v \in EdgeNodes
               PROVE  Held(q, v)' = IF q = r /\ v = x THEN Held(q, v) + 1 ELSE Held(q, v)
    OBVIOUS
  <1>1. fresh[q][v] \in Nat /\ saved[q][v] \in Nat
    BY DEF SimpleTypeOK
  <1>2. fresh'[q][v] = IF q = r /\ v = x THEN fresh[q][v] + 1 ELSE fresh[q][v]
    <2>1. fresh \in [Ranks -> [EdgeNodes -> Nat]] /\ fresh' = [fresh EXCEPT ![r][x] = @ + 1]
      BY DEF SimpleTypeOK, GraphAddEdge
    <2>2. fresh'[q] = IF q = r THEN [fresh[r] EXCEPT ![x] = fresh[r][x] + 1] ELSE fresh[q]
      BY <2>1
    <2>3. fresh[q] \in [EdgeNodes -> Nat]
      BY <2>1
    <2> QED
      BY <2>2, <2>3
  <1> QED
    BY <1>1, <1>2 DEF Held

\* The edge that the rank's own graph gets.
LEMMA OwnAccounts ==
  ASSUME SimpleTypeOK, SimpleTypeOK', SaveInv, EdgesInv, NEW r \in Ranks, AddOwnEdge(r)
  PROVE  EdgesInv'
  <1>1. saving[r] # "clear" /\ unsent[r] = {} /\ edge[r] \in EdgeNodes
    BY DEF AddOwnEdge, SaveInv, SimpleTypeOK
  <1>2. /\ made' = made /\ unsent' = unsent /\ net' = net /\ saved' = saved /\ saving' = saving
        /\ GraphAddEdge(r, edge[r])
    BY DEF AddOwnEdge, mainVars, ckptVars
  <1>3. \A q \in Ranks, v \in EdgeNodes :
           Held(q, v)' = IF q = r /\ v = edge[r] THEN Held(q, v) + 1 ELSE Held(q, v)
    BY <1>1, <1>2, HeldMore
  <1>4. \A p \in Ranks : edge'[p] = IF p = r THEN NoEdge ELSE edge[p]
    BY DEF AddOwnEdge, SimpleTypeOK
  <1>5. \A p, q \in Ranks : \A v : InChannel(p, q, v)' = InChannel(p, q, v)
    BY <1>2 DEF InChannel
  <1>6. \A p, q \in Ranks, v \in EdgeNodes :
           p # r => Coming(p, q, v)' = Coming(p, q, v) /\ made'[p][v] = made[p][v]
    BY <1>2, <1>4, <1>5 DEF Coming, One
  <1>7. ASSUME NEW q \in Ranks, NEW v \in EdgeNodes
        PROVE  Held(q, v)' + Coming(r, q, v)' + made[r][v] = Held(q, v) + Coming(r, q, v) + made'[r][v]
    <2>1. Held(q, v) \in Int /\ InChannel(r, q, v) \in Int /\ made[r][v] \in Int
      BY HeldType, ChannelType DEF SimpleTypeOK
    <2>2. edge'[r] # v
      BY <1>4, SimpleAssumption DEF NoEdge
    <2>3. CASE q = r
      <3>1. Coming(r, q, v)' = 0 /\ Coming(r, q, v) = IF v = edge[r] THEN 1 ELSE 0
        BY <2>2, <2>3 DEF Coming, One
      <3>2. Held(q, v)' = IF v = edge[r] THEN Held(q, v) + 1 ELSE Held(q, v)
        BY <1>3, <2>3
      <3> QED
        BY <1>2, <2>1, <3>1, <3>2
    <2>4. CASE q # r
      <3>1. Coming(r, q, v)' = InChannel(r, q, v)
        BY <1>5, <2>1, <2>2, <2>4 DEF Coming, One
      <3>2. Coming(r, q, v) = InChannel(r, q, v)
        BY <1>1, <2>1, <2>4 DEF Coming, One
      <3>3. Held(q, v)' = Held(q, v)
        BY <1>3, <2>4
      <3> QED
        BY <1>2, <2>1, <3>1, <3>2, <3>3
    <2> QED
      BY <2>3, <2>4
  <1> QED
    BY <1>6, <1>7, StepAccounts

\* The edge that comes from another rank.
LEMMA CameAccounts ==
  ASSUME SimpleTypeOK, SimpleTypeOK', SaveInv, EdgesInv, NEW r \in Ranks, NEW d \in Others(r),
         HandleNewEdge(r, d)
  PROVE  EdgesInv'
  <1> DEFINE m == Head(net[d][r])
  <1>0. TypeOK /\ d \in Ranks /\ d # r
    BY DEF SimpleTypeOK, Others
  <1>1. /\ Receive(r, d, "NEW_EDGE") /\ GraphAddEdge(r, m.n)
        /\ ckptLock[r] = "none"
        /\ edge' = edge /\ made' = made /\ unsent' = unsent /\ saved' = saved /\ saving' = saving
    BY DEF HandleNewEdge, mainVars, ckptVars
  <1>2. saving[r] # "clear"
    BY <1>1 DEF SaveInv, Locked
  <1>3. m \in Messages /\ m.tag = "NEW_EDGE"
    BY <1>0, <1>1, ReceiveType DEF Receive
  <1>4. \A p, q \in Ranks : \A v :
           InChannel(p, q, v)' + One(p = d /\ q = r /\ m = NewEdge(v)) = InChannel(p, q, v)
    BY <1>0, <1>1, ReceiveMoves
  <1>5. \A q \in Ranks, v \in EdgeNodes :
           Held(q, v)' = IF q = r /\ v = m.n THEN Held(q, v) + 1 ELSE Held(q, v)
    <2> HIDE DEF m
    <2> QED
      BY <1>1, <1>2, HeldMore
  <1>6. \A v : m = NewEdge(v) <=> v = m.n
    <2>1. m = [tag |-> m.tag, n |-> m.n]
      <3> HIDE DEF m
      <3> QED
        BY <1>3 DEF Messages
    <2>2. m = NewEdge(m.n)
      BY <1>3, <2>1 DEF NewEdge
    <2>3. \A v : NewEdge(v).n = v
      BY DEF NewEdge
    <2> HIDE DEF m
    <2> QED
      BY <2>2, <2>3
  <1> HIDE DEF m
  <1>7. \A p, q \in Ranks : \A v : InChannel(p, q, v) \in Nat
    BY <1>0, ChannelType
  <1>8. \A p, q \in Ranks : \A v : InChannel(p, q, v)' \in Nat
    <2> SUFFICES ASSUME NEW p \in Ranks, NEW q \in Ranks, NEW v
                 PROVE  InChannel(p, q, v)' \in Nat
      OBVIOUS
    <2>1. net'[p][q] \in Seq(Messages)
      BY DEF SimpleTypeOK, TypeOK
    <2>2. InChannel(p, q, v)' = EdgesIn(net'[p][q], v)
      BY DEF InChannel, EdgesIn
    <2>3. EdgesIn(net'[p][q], v) \in Nat
      BY <2>1, EdgesInType
    <2> QED
      BY <2>2, <2>3
  <1>9. ASSUME NEW p \in Ranks, NEW q \in Ranks, NEW v, ~ (p = d /\ q = r)
        PROVE  InChannel(p, q, v)' = InChannel(p, q, v)
    <2>1. InChannel(p, q, v)' + One(p = d /\ q = r /\ m = NewEdge(v)) = InChannel(p, q, v)
      BY <1>4
    <2>2. One(p = d /\ q = r /\ m = NewEdge(v)) = 0
      BY <1>9 DEF One
    <2> QED
      BY <1>8, <2>1, <2>2
  <1>10. ASSUME NEW v
         PROVE  InChannel(d, r, v) = InChannel(d, r, v)' + IF v = m.n THEN 1 ELSE 0
    <2>1. InChannel(d, r, v)' + One(d = d /\ r = r /\ m = NewEdge(v)) = InChannel(d, r, v)
      BY <1>0, <1>4
    <2>2. One(d = d /\ r = r /\ m = NewEdge(v)) = IF v = m.n THEN 1 ELSE 0
      BY <1>6 DEF One
    <2> QED
      BY <2>1, <2>2
  <1>11. \A p, q \in Ranks, v \in EdgeNodes :
           p # d => Coming(p, q, v)' = Coming(p, q, v) /\ made'[p][v] = made[p][v]
    BY <1>1, <1>9 DEF Coming, One
  <1>12. ASSUME NEW q \in Ranks, NEW v \in EdgeNodes
         PROVE  Held(q, v)' + Coming(d, q, v)' + made[d][v] = Held(q, v) + Coming(d, q, v) + made'[d][v]
    <2>1. Held(q, v) \in Int /\ InChannel(d, q, v)' \in Int /\ made[d][v] \in Int
      BY <1>0, <1>8, HeldType DEF SimpleTypeOK
    <2>2. Coming(d, q, v) \in Int
      BY <1>0, ComingType
    <2>3. CASE q = r
      <3>1. Coming(d, r, v) = Coming(d, r, v)' + IF v = m.n THEN 1 ELSE 0
        BY <1>0, <1>1, <1>8, <1>10 DEF Coming, One
      <3>2. Held(q, v)' = IF v = m.n THEN Held(q, v) + 1 ELSE Held(q, v)
        BY <1>5, <2>3
      <3>3. Coming(d, q, v)' \in Int
        BY <1>0, <1>8, <2>1 DEF Coming, One
      <3> QED
        BY <1>1, <2>1, <2>2, <2>3, <3>1, <3>2, <3>3
    <2>4. CASE q # r
      <3>1. Coming(d, q, v)' = Coming(d, q, v)
        BY <1>0, <1>1, <1>9, <2>4 DEF Coming, One
      <3>2. Held(q, v)' = Held(q, v)
        BY <1>5, <2>4
      <3> QED
        BY <1>1, <2>1, <2>2, <3>1, <3>2
    <2> QED
      BY <2>3, <2>4
  <1> QED
    BY <1>0, <1>11, <1>12, StepAccounts

LEMMA EdgesStep ==
  SimpleTypeOK /\ SimpleTypeOK' /\ SaveInv /\ HandshakeInv /\ EdgesIdle /\ EdgesInv
    /\ [SimpleNext]_simpleVars => EdgesInv'
  <1> SUFFICES ASSUME SimpleTypeOK, SimpleTypeOK', SaveInv, HandshakeInv, EdgesIdle, EdgesInv,
                      [SimpleNext]_simpleVars
               PROVE  EdgesInv'
    OBVIOUS
  <1>0. TypeOK
    BY DEF SimpleTypeOK
  <1>1. ASSUME UNCHANGED <<net, edge, made>>,
               \A p \in Ranks : edge[p] # NoEdge => unsent'[p] = unsent[p],
               \A q \in Ranks, v \in EdgeNodes : Held(q, v)' = Held(q, v)
        PROVE  EdgesInv'
    <2>1. \A p, q \in Ranks : \A v : InChannel(p, q, v)' = InChannel(p, q, v)
      BY <1>1 DEF InChannel
    <2> QED
      BY <1>1, <2>1, SameEdges
  <1>2. ASSUME UNCHANGED <<fresh, saved, saving>>
        PROVE  \A q \in Ranks, v \in EdgeNodes : Held(q, v)' = Held(q, v)
    BY <1>2 DEF Held
  <1>3. CASE UNCHANGED simpleVars
    BY <1>1, <1>2, <1>3 DEF simpleVars, vars, mainVars, edgeVars, ckptVars
  <1>4. ASSUME NEW r \in Ranks, NEW n \in 1 .. MaxNew, BeginNodes(r, n) PROVE EdgesInv'
    BY <1>1, <1>2, <1>4 DEF BeginNodes, BeginAdd, edgeVars, ckptVars
  <1>5. ASSUME NEW r \in Ranks, NEW v \in EdgeNodes, BeginEdge(r, v) PROVE EdgesInv'
    BY <1>5, BegunAccounts
  <1>6. ASSUME NEW r \in Ranks, BeginSave(r) PROVE EdgesInv'
    <2>1. \A q \in Ranks, v \in EdgeNodes : Held(q, v)' = Held(q, v)
      BY <1>6 DEF BeginSave, Free, SimpleTypeOK, edgeVars, Held
    <2> QED
      BY <1>1, <1>6, <2>1 DEF BeginSave, vars, mainVars, edgeVars
  <1>7. ASSUME NEW r \in Ranks, AgreementStep(r) PROVE EdgesInv'
    <2>1. /\ \A p, q \in Ranks : \A v : InChannel(p, q, v)' = InChannel(p, q, v)
          /\ \A p \in Ranks : edge[p] # NoEdge => unsent'[p] = unsent[p]
      BY <1>7, AgreementEdges
    <2>2. UNCHANGED <<edge, made, fresh, saved, saving>>
      BY <1>7 DEF AgreementStep, edgeVars, ckptVars
    <2> QED
      BY <1>2, <2>1, <2>2, SameEdges
  <1>8. ASSUME NEW r \in Ranks, OwnNode(r) PROVE EdgesInv'
    BY <1>1, <1>2, <1>8 DEF OwnNode, AddOwnNode, edgeVars, ckptVars
  <1>9. ASSUME NEW r \in Ranks, SendEdge(r) PROVE EdgesInv'
    BY <1>9, SentAccounts
  <1>10. ASSUME NEW r \in Ranks, AddOwnEdge(r) PROVE EdgesInv'
    BY <1>10, OwnAccounts
  <1>11. ASSUME NEW r \in Ranks, LockCheckpoint(r) PROVE EdgesInv'
    <2>1. \A q \in Ranks, v \in EdgeNodes : Held(q, v)' = Held(q, v)
      BY <1>11 DEF LockCheckpoint, SimpleTypeOK, edgeVars, Held
    <2> QED
      BY <1>1, <1>11, <2>1 DEF LockCheckpoint, vars, mainVars, edgeVars
  <1>12. ASSUME NEW r \in Ranks, WriteLevel(r) PROVE EdgesInv'
    <2>1. \A q \in Ranks, v \in EdgeNodes : Held(q, v)' = Held(q, v)
      <3> TAKE q \in Ranks, v \in EdgeNodes
      <3>1. /\ saved'[q][v] = IF q = r THEN saved[q][v] + fresh[q][v] ELSE saved[q][v]
            /\ saving'[q] = IF q = r THEN "clear" ELSE saving[q]
            /\ fresh' = fresh /\ saving[r] = "write"
        BY <1>12 DEF WriteLevel, SimpleTypeOK
      <3>2. saved[q][v] \in Nat /\ fresh[q][v] \in Nat
        BY DEF SimpleTypeOK
      <3> QED
        BY <3>1, <3>2 DEF Held
    <2> QED
      BY <1>1, <1>12, <2>1 DEF WriteLevel, vars, mainVars
  <1>13. ASSUME NEW r \in Ranks, ClearWritable(r) PROVE EdgesInv'
    <2>1. \A q \in Ranks, v \in EdgeNodes : Held(q, v)' = Held(q, v)
      <3> TAKE q \in Ranks, v \in EdgeNodes
      <3>1. /\ fresh'[q][v] = IF q = r THEN 0 ELSE fresh[q][v]
            /\ saving'[q] = IF q = r THEN "count" ELSE saving[q]
            /\ saved' = saved /\ saving[r] = "clear"
        BY <1>13 DEF ClearWritable, SimpleTypeOK, None
      <3> QED
        BY <3>1 DEF Held
    <2> QED
      BY <1>1, <1>13, <2>1 DEF ClearWritable, mainVars
  <1>14. ASSUME NEW r \in Ranks, CountVertices(r) PROVE EdgesInv'
    <2>1. \A q \in Ranks, v \in EdgeNodes : Held(q, v)' = Held(q, v)
      BY <1>14 DEF CountVertices, SimpleTypeOK, edgeVars, Held
    <2> QED
      BY <1>1, <1>14, <2>1 DEF CountVertices, vars, mainVars, edgeVars
  <1>15. ASSUME NEW r \in Ranks, AgreementMessage(r) PROVE EdgesInv'
    <2>1. /\ \A p, q \in Ranks : \A v : InChannel(p, q, v)' = InChannel(p, q, v)
          /\ unsent' = unsent
      BY <1>15, MessageEdges
    <2>2. UNCHANGED <<edge, made, fresh, saved, saving>>
      BY <1>15 DEF AgreementMessage, edgeVars, ckptVars
    <2> QED
      BY <1>2, <2>1, <2>2, SameEdges
  <1>16. ASSUME NEW r \in Ranks, ForcedNode(r) PROVE EdgesInv'
    BY <1>1, <1>2, <1>16 DEF ForcedNode, ForceAddNode, mainVars, edgeVars
  <1>17. ASSUME NEW r \in Ranks, NEW q \in Others(r), HandleNewEdge(r, q) PROVE EdgesInv'
    BY <1>17, CameAccounts
  <1> QED
    BY <1>3, <1>4, <1>5, <1>6, <1>7, <1>8, <1>9, <1>10, <1>11, <1>12, <1>13, <1>14, <1>15,
       <1>16, <1>17 DEF SimpleNext, SimpleMain, SimpleListener

LEMMA EdgesFollow == SimpleTypeOK /\ EdgesInv => EdgesAccounted
  <1> SUFFICES ASSUME SimpleTypeOK, EdgesInv, NEW q \in Ranks, NEW v \in EdgeNodes,
                      saving[q] # "clear"
               PROVE  Has(q, v) + SumFunction([p \in Ranks |-> Coming(p, q, v)])
                          = SumFunction([p \in Ranks |-> made[p][v]])
    BY DEF EdgesAccounted
  <1>1. Has(q, v) = Held(q, v)
    BY DEF Has, Held, SimpleTypeOK
  <1>2. Account(q, v)
    BY DEF EdgesInv
  <1> QED
    BY <1>1, <1>2 DEF Account

\* No edge is lost or added twice at any rank, for any number of ranks, calls
\* and checkpoints.
THEOREM EdgesBalance == SimpleSpec => []EdgesAccounted
  <1>1. SimpleSpec => []SaveInv
    BY SaveInit, SaveStep, PTL DEF SimpleSpec
  <1>2. SimpleSpec => []EdgesInv
    BY <1>1, SimpleTypeCorrect, SimpleHandshake, EdgesInit, EdgesStep, PTL DEF SimpleSpec
  <1> QED
    BY <1>2, SimpleTypeCorrect, EdgesFollow, PTL

-----------------------------------------------------------------------------
(***************************************************************************)
(* Careful callers.  When the listener meets an edge, its replica has the  *)
(* node: every node that the caller counted on is there, or comes with a   *)
(* command of the same caller that the listener meets first.               *)
(***************************************************************************)

\* q has node v when it has carried out the commands of p up to message k.
Meets(p, q, v, k) ==
    \/ v < maxNodes[q]
    \/ Forces(q, p) /\ v < maxNodes[q] + lleft[q]
    \/ \E j \in 1 .. k : /\ net[p][q][j].tag = "NEW_NODE_COMMAND"
                         /\ v < maxNodes[q] + net[p][q][j].n

KnownAt(p, q) ==
    /\ \A i \in 1 .. Len(net[p][q]) :
          net[p][q][i].tag = "NEW_EDGE" => Meets(p, q, net[p][q][i].n, i - 1)
    /\ edge[p] # NoEdge /\ q \in unsent[p] => Meets(p, q, edge[p], Len(net[p][q]))

KnownInv ==
    /\ \A p \in Ranks : \A q \in Others(p) : KnownAt(p, q)
    /\ \A p \in Ranks : edge[p] # NoEdge => edge[p] < maxNodes[p]

\* What a step may do: it takes no node away, and the nodes it stops owing
\* are there.
NodesStay(p, q) ==
    /\ maxNodes[q] <= maxNodes'[q]
    /\ Forces(q, p) => \/ Forces(q, p)' /\ maxNodes[q] + lleft[q] <= maxNodes'[q] + lleft'[q]
                       \/ maxNodes[q] + lleft[q] <= maxNodes'[q]

\* It has no new edge, nor an edge back to send.
EdgeStays(p, q) ==
    edge'[p] # NoEdge /\ q \in unsent'[p] => edge'[p] = edge[p] /\ q \in unsent[p]

\* It adds a message at the end at most ...
Extends(p, q) ==
    /\ Len(net[p][q]) <= Len(net'[p][q])
    /\ \A j \in 1 .. Len(net[p][q]) : net'[p][q][j] = net[p][q][j]

\* ... that is no edge.
NoNewEdge(p, q) ==
    \A j \in Len(net[p][q]) + 1 .. Len(net'[p][q]) : net'[p][q][j].tag # "NEW_EDGE"

LEMMA LengthType ==
  ASSUME TypeOK
  PROVE  \A p, q \in Ranks : Len(net[p][q]) \in Nat
  BY DEF TypeOK

LEMMA MeetsKept ==
  ASSUME TypeOK, TypeOK', NEW p \in Ranks, NEW q \in Ranks, NEW v \in Int,
         NodesStay(p, q), Extends(p, q), NEW k \in Int, NEW l \in Int,
         k <= Len(net[p][q]), k <= l, Meets(p, q, v, k)
  PROVE  Meets(p, q, v, l)'
  <1>1. /\ maxNodes[q] \in Nat /\ maxNodes'[q] \in Nat /\ lleft[q] \in Nat /\ lleft'[q] \in Nat
        /\ Len(net[p][q]) \in Nat
    BY LengthType DEF TypeOK
  <1>2. CASE v < maxNodes[q]
    <2>1. v < maxNodes'[q]
      BY <1>1, <1>2 DEF NodesStay
    <2> QED
      BY <2>1 DEF Meets
  <1>3. CASE Forces(q, p) /\ v < maxNodes[q] + lleft[q]
    <2>1. v < maxNodes'[q] \/ (Forces(q, p)' /\ v < maxNodes'[q] + lleft'[q])
      BY <1>1, <1>3 DEF NodesStay
    <2> QED
      BY <2>1 DEF Meets
  <1>4. CASE \E j \in 1 .. k : /\ net[p][q][j].tag = "NEW_NODE_COMMAND"
                               /\ v < maxNodes[q] + net[p][q][j].n
    <2>1. PICK j \in 1 .. k : /\ net[p][q][j].tag = "NEW_NODE_COMMAND"
                              /\ v < maxNodes[q] + net[p][q][j].n
      BY <1>4
    <2>2. j \in 1 .. Len(net[p][q]) /\ j \in 1 .. l
      BY <1>1, <2>1
    <2>3. net'[p][q][j] = net[p][q][j]
      BY <2>2 DEF Extends
    <2>4. net[p][q][j].n \in Nat
      <3>1. net[p][q] \in Seq(Messages)
        BY DEF TypeOK
      <3>2. net[p][q][j] \in Messages
        BY <2>2, <3>1
      <3> QED
        BY <3>2 DEF Messages
    <2>5. v < maxNodes'[q] + net'[p][q][j].n
      BY <1>1, <2>1, <2>3, <2>4 DEF NodesStay
    <2>6. net'[p][q][j].tag = "NEW_NODE_COMMAND"
      BY <2>1, <2>3
    <2> QED
      BY <2>2, <2>5, <2>6 DEF Meets
  <1> QED
    BY <1>2, <1>3, <1>4 DEF Meets

\* A message on its way, or an edge, is of a number.
LEMMA NumberType ==
  ASSUME SimpleTypeOK
  PROVE  /\ \A p, q \in Ranks : \A i \in 1 .. Len(net[p][q]) :
               net[p][q][i].n \in Int /\ net[p][q][i] \in Messages
         /\ \A p \in Ranks : edge[p] \in Int
  <1>1. \A p, q \in Ranks : \A i \in 1 .. Len(net[p][q]) :
               net[p][q][i].n \in Int /\ net[p][q][i] \in Messages
    <2> SUFFICES ASSUME NEW p \in Ranks, NEW q \in Ranks, NEW i \in 1 .. Len(net[p][q])
                 PROVE  net[p][q][i].n \in Int /\ net[p][q][i] \in Messages
      OBVIOUS
    <2>1. net[p][q] \in Seq(Messages)
      BY DEF SimpleTypeOK, TypeOK
    <2>2. net[p][q][i] \in Messages
      BY <2>1
    <2> QED
      BY <2>2 DEF Messages
  <1>2. \A p \in Ranks : edge[p] \in Int
    <2>1. NoEdge \in Int /\ \A v \in EdgeNodes : v \in Int
      BY SimpleAssumption DEF NoEdge
    <2>2. \A p \in Ranks : edge[p] \in EdgeNodes \/ edge[p] = NoEdge
      BY DEF SimpleTypeOK
    <2> QED
      BY <2>1, <2>2
  <1> QED
    BY <1>1, <1>2

LEMMA KnownKept ==
  ASSUME SimpleTypeOK, SimpleTypeOK', NEW p \in Ranks, NEW q \in Ranks, KnownAt(p, q),
         NodesStay(p, q), EdgeStays(p, q), Extends(p, q), NoNewEdge(p, q)
  PROVE  KnownAt(p, q)'
  <1>0. TypeOK /\ TypeOK'
    BY DEF SimpleTypeOK
  <1>1. Len(net[p][q]) \in Nat /\ Len(net'[p][q]) \in Nat
    <2>1. net[p][q] \in Seq(Messages) /\ net'[p][q] \in Seq(Messages)
      BY <1>0 DEF TypeOK
    <2> QED
      BY <2>1
  <1>2. ASSUME NEW i \in 1 .. Len(net'[p][q]), net'[p][q][i].tag = "NEW_EDGE"
        PROVE  Meets(p, q, net[p][q][i].n, i - 1)'
    <2>1. i \in 1 .. Len(net[p][q])
      <3>1. i \notin Len(net[p][q]) + 1 .. Len(net'[p][q])
        BY <1>2 DEF NoNewEdge
      <3> QED
        BY <1>1, <3>1
    <2>2. net'[p][q][i] = net[p][q][i]
      BY <2>1 DEF Extends
    <2>3. net[p][q][i].n \in Int /\ net[p][q][i] \in Messages
      BY <2>1, NumberType
    <2>4. PICK v \in Int : v = net[p][q][i].n
      BY <2>3
    <2>5. Meets(p, q, v, i - 1)
      BY <1>2, <2>1, <2>2, <2>4 DEF KnownAt
    <2>6. i - 1 \in Int /\ i - 1 <= Len(net[p][q]) /\ i - 1 <= i - 1
      BY <1>1, <2>1
    <2>7. Meets(p, q, v, i - 1)'
      BY <1>0, <2>5, <2>6, MeetsKept
    <2>8. net'[p][q][i].n = v
      BY <2>2, <2>4
    <2> QED
      BY <2>7, <2>8 DEF Meets
  <1>3. ASSUME edge'[p] # NoEdge, q \in unsent'[p]
        PROVE  Meets(p, q, edge[p], Len(net[p][q]))'
    <2>1. edge'[p] = edge[p] /\ q \in unsent[p]
      BY <1>3 DEF EdgeStays
    <2>2. PICK v \in Int : v = edge[p]
      BY NumberType
    <2>3. Meets(p, q, v, Len(net[p][q]))
      BY <1>3, <2>1, <2>2 DEF KnownAt
    <2>4. Len(net[p][q]) <= Len(net[p][q]) /\ Len(net[p][q]) <= Len(net'[p][q])
      BY <1>1 DEF Extends
    <2>5. PICK k \in Int : k = Len(net[p][q])
      BY <1>1
    <2>6. PICK l \in Int : l = Len(net'[p][q])
      BY <1>1
    <2>7. Meets(p, q, v, l)'
      BY <1>0, <2>3, <2>4, <2>5, <2>6, MeetsKept
    <2>8. v = edge'[p]
      BY <2>1, <2>2
    <2> QED
      BY <2>6, <2>7, <2>8 DEF Meets
  <1> QED
    BY <1>2, <1>3 DEF KnownAt

\* The listener of q takes the first message of p.
Takes(p, q) ==
    /\ lpc[q] = "probe"
    /\ net[p][q] # <<>> /\ net'[p][q] = Tail(net[p][q])
    /\ maxNodes[q] <= maxNodes'[q]
    /\ Head(net[p][q]).tag = "NEW_NODE_COMMAND" =>
          Forces(q, p)' /\ lleft'[q] = Head(net[p][q]).n

LEMMA MeetsTaken ==
  ASSUME TypeOK, TypeOK', NEW p \in Ranks, NEW q \in Ranks, NEW v \in Int, Takes(p, q),
         NEW k \in Int, k <= Len(net[p][q]), Meets(p, q, v, k)
  PROVE  Meets(p, q, v, k - 1)'
  <1>1. maxNodes[q] \in Nat /\ maxNodes'[q] \in Nat
    BY DEF TypeOK
  <1>2. /\ net[p][q] \in Seq(Messages) /\ net[p][q] # <<>>
        /\ Len(net[p][q]) \in Nat /\ Head(net[p][q]) = net[p][q][1]
        /\ net'[p][q] = Tail(net[p][q])
        /\ \A i \in 2 .. Len(net[p][q]) : net'[p][q][i - 1] = net[p][q][i]
    <2>1. net[p][q] \in Seq(Messages) /\ net[p][q] # <<>> /\ net'[p][q] = Tail(net[p][q])
      BY DEF TypeOK, Takes
    <2> QED
      BY <2>1
  <1>3. CASE v < maxNodes[q]
    <2>1. v < maxNodes'[q]
      BY <1>1, <1>3 DEF Takes
    <2> QED
      BY <2>1 DEF Meets
  <1>4. CASE Forces(q, p) /\ v < maxNodes[q] + lleft[q]
    BY <1>4 DEF Forces, Takes
  <1>5. CASE \E j \in 1 .. k : /\ net[p][q][j].tag = "NEW_NODE_COMMAND"
                               /\ v < maxNodes[q] + net[p][q][j].n
    <2>1. PICK j \in 1 .. k : /\ net[p][q][j].tag = "NEW_NODE_COMMAND"
                              /\ v < maxNodes[q] + net[p][q][j].n
      BY <1>5
    <2>2. j \in 1 .. Len(net[p][q])
      BY <1>2, <2>1
    <2>3. net[p][q][j].n \in Nat
      <3>1. net[p][q][j] \in Messages
        BY <1>2, <2>2
      <3> QED
        BY <3>1 DEF Messages
    <2>4. CASE j = 1
      <3>1. Forces(q, p)' /\ lleft'[q] = net[p][q][j].n
        BY <1>2, <2>1, <2>4 DEF Takes
      <3>2. v < maxNodes'[q] + lleft'[q]
        BY <1>1, <2>1, <2>3, <3>1 DEF Takes
      <3> QED
        BY <3>1, <3>2 DEF Meets
    <2>5. CASE j # 1
      <3>1. j - 1 \in 1 .. k - 1 /\ j \in 2 .. Len(net[p][q])
        BY <2>1, <2>2, <2>5
      <3>2. net'[p][q][j - 1] = net[p][q][j]
        BY <1>2, <3>1
      <3>3. v < maxNodes'[q] + net'[p][q][j - 1].n
        <4>1. PICK n \in Nat : n = net[p][q][j].n
          BY <2>3
        <4>2. v < maxNodes[q] + n /\ maxNodes[q] <= maxNodes'[q] /\ n = net'[p][q][j - 1].n
          BY <2>1, <3>2, <4>1 DEF Takes
        <4>3. v < maxNodes'[q] + n
          BY <1>1, <4>2
        <4> QED
          BY <4>2, <4>3
      <3>4. net'[p][q][j - 1].tag = "NEW_NODE_COMMAND"
        BY <2>1, <3>2
      <3> QED
        BY <3>1, <3>3, <3>4 DEF Meets
    <2> QED
      BY <2>4, <2>5
  <1> QED
    BY <1>3, <1>4, <1>5 DEF Meets

LEMMA KnownTaken ==
  ASSUME SimpleTypeOK, SimpleTypeOK', NEW p \in Ranks, NEW q \in Ranks, KnownAt(p, q),
         Takes(p, q), EdgeStays(p, q)
  PROVE  KnownAt(p, q)'
  <1>0. TypeOK /\ TypeOK'
    BY DEF SimpleTypeOK
  <1>1. /\ Len(net[p][q]) \in Nat /\ Len(net'[p][q]) = Len(net[p][q]) - 1
        /\ \A i \in 1 .. Len(net'[p][q]) :
              i + 1 \in 1 .. Len(net[p][q]) /\ net'[p][q][i] = net[p][q][i + 1]
    <2>1. net[p][q] \in Seq(Messages) /\ net[p][q] # <<>> /\ net'[p][q] = Tail(net[p][q])
      BY <1>0 DEF TypeOK, Takes
    <2> QED
      BY <2>1
  <1>2. ASSUME NEW i \in 1 .. Len(net'[p][q]), net'[p][q][i].tag = "NEW_EDGE"
        PROVE  Meets(p, q, net[p][q][i].n, i - 1)'
    <2>1. i + 1 \in 1 .. Len(net[p][q]) /\ net'[p][q][i] = net[p][q][i + 1]
      BY <1>1
    <2>2. net[p][q][i + 1].n \in Int
      BY <2>1, NumberType
    <2>3. PICK v \in Int : v = net[p][q][i + 1].n
      BY <2>2
    <2>4. (i + 1) - 1 = i /\ i \in Int /\ i <= Len(net[p][q])
      BY <1>1, <2>1
    <2>5. Meets(p, q, net[p][q][i + 1].n, (i + 1) - 1)
      BY <1>2, <2>1 DEF KnownAt
    <2>6. Meets(p, q, v, i)
      BY <2>3, <2>4, <2>5
    <2>7. Meets(p, q, v, i - 1)'
      BY <1>0, <2>4, <2>6, MeetsTaken
    <2>8. net'[p][q][i].n = v
      BY <2>1, <2>3
    <2> QED
      BY <2>7, <2>8 DEF Meets
  <1>3. ASSUME edge'[p] # NoEdge, q \in unsent'[p]
        PROVE  Meets(p, q, edge[p], Len(net[p][q]))'
    <2>1. edge'[p] = edge[p] /\ q \in unsent[p]
      BY <1>3 DEF EdgeStays
    <2>2. PICK v \in Int : v = edge[p]
      BY NumberType
    <2>3. PICK k \in Int : k = Len(net[p][q])
      BY <1>1
    <2>4. Meets(p, q, v, k) /\ k <= Len(net[p][q])
      BY <1>1, <1>3, <2>1, <2>2, <2>3 DEF KnownAt
    <2>5. Meets(p, q, v, k - 1)'
      BY <1>0, <2>4, MeetsTaken
    <2>6. v = edge'[p] /\ k - 1 = Len(net'[p][q])
      BY <1>1, <2>1, <2>2, <2>3
    <2> QED
      BY <2>5, <2>6 DEF Meets
  <1> QED
    BY <1>2, <1>3 DEF KnownAt

\* An edge that is sent now.
LEMMA KnownSent ==
  ASSUME SimpleTypeOK, SimpleTypeOK', NEW p \in Ranks, NEW q \in Ranks, KnownAt(p, q),
         edge[p] # NoEdge, q \in unsent[p], q \notin unsent'[p],
         net'[p][q] = Append(net[p][q], NewEdge(edge[p])),
         UNCHANGED <<maxNodes, lpc, from, lleft>>
  PROVE  KnownAt(p, q)'
  <1>0. TypeOK /\ TypeOK'
    BY DEF SimpleTypeOK
  <1>1. /\ Len(net[p][q]) \in Nat /\ Len(net'[p][q]) = Len(net[p][q]) + 1
        /\ net'[p][q][Len(net[p][q]) + 1] = NewEdge(edge[p])
        /\ \A i \in 1 .. Len(net[p][q]) : net'[p][q][i] = net[p][q][i]
    <2>1. net[p][q] \in Seq(Messages)
      BY <1>0 DEF TypeOK
    <2> QED
      BY <2>1
  <1>2. NodesStay(p, q) /\ Extends(p, q)
    <2>1. maxNodes[q] \in Nat /\ lleft[q] \in Nat
      BY <1>0 DEF TypeOK
    <2>2. Forces(q, p)' <=> Forces(q, p)
      BY DEF Forces
    <2> QED
      BY <1>1, <2>1, <2>2 DEF NodesStay, Extends
  <1>3. ASSUME NEW i \in 1 .. Len(net'[p][q]), net'[p][q][i].tag = "NEW_EDGE"
        PROVE  Meets(p, q, net[p][q][i].n, i - 1)'
    <2>1. PICK v \in Int : v = net'[p][q][i].n /\ Meets(p, q, v, i - 1)
      <3>1. CASE i \in 1 .. Len(net[p][q])
        <4>1. net'[p][q][i] = net[p][q][i]
          BY <1>1, <3>1
        <4>2. net[p][q][i].n \in Int
          BY <3>1, NumberType
        <4>3. Meets(p, q, net[p][q][i].n, i - 1)
          BY <1>3, <3>1, <4>1 DEF KnownAt
        <4> QED
          BY <4>1, <4>2, <4>3
      <3>2. CASE i = Len(net[p][q]) + 1
        <4>1. net'[p][q][i].n = edge[p] /\ edge[p] \in Int
          BY <1>1, <3>2, NumberType DEF NewEdge
        <4>2. Meets(p, q, edge[p], Len(net[p][q]))
          BY DEF KnownAt
        <4>3. i - 1 = Len(net[p][q])
          BY <1>1, <3>2
        <4> QED
          BY <4>1, <4>2, <4>3
      <3> QED
        BY <1>1, <3>1, <3>2
    <2>2. i - 1 \in Int /\ i - 1 <= Len(net[p][q]) /\ i - 1 <= i - 1
      BY <1>1
    <2>3. Meets(p, q, v, i - 1)'
      BY <1>0, <1>2, <2>1, <2>2, MeetsKept
    <2> QED
      BY <2>1, <2>3 DEF Meets
  <1> QED
    BY <1>3 DEF KnownAt

\* An edge whose caller looked at the replicas of the others.
LEMMA KnownBegun ==
  ASSUME SimpleTypeOK, NEW p \in Ranks, NEW q \in Ranks, NEW v \in EdgeNodes,
         v < maxNodes[q] + DueAt(p, q)
  PROVE  Meets(p, q, v, Len(net[p][q]))
  <1> DEFINE coming == {i \in 1 .. Len(net[p][q]) : net[p][q][i].tag = "NEW_NODE_COMMAND"}
  <1>1. DueAt(p, q) = IF Forces(q, p) THEN lleft[q]
                      ELSE IF coming # {} THEN net[p][q][CHOOSE i \in coming : TRUE].n ELSE 0
    BY DEF DueAt, Forces
  <1>2. v \in Int /\ maxNodes[q] \in Nat
    BY SimpleAssumption DEF SimpleTypeOK, TypeOK
  <1>3. CASE Forces(q, p)
    BY <1>1, <1>3 DEF Meets
  <1>4. CASE ~ Forces(q, p) /\ coming # {}
    <2>1. PICK i \in coming : i = CHOOSE j \in coming : TRUE
      BY <1>4
    <2>2. v < maxNodes[q] + net[p][q][i].n
      BY <1>1, <1>4, <2>1
    <2> QED
      BY <2>1, <2>2 DEF Meets
  <1>5. CASE ~ Forces(q, p) /\ coming = {}
    <2>1. v < maxNodes[q]
      BY SMTT(30), <1>1, <1>2, <1>5
    <2> QED
      BY <2>1 DEF Meets
  <1> QED
    BY <1>3, <1>4, <1>5

\* Steps that leave the listeners and the channels alone, or send a message
\* of the node agreement.
LEMMA KnownFrame ==
  ASSUME SimpleTypeOK, SimpleTypeOK', KnownInv, NEW r \in Ranks, net' = net \/ SendsNode(r),
         UNCHANGED <<lpc, from, lleft>>,
         \A p \in Ranks : maxNodes[p] <= maxNodes'[p],
         \A p \in Ranks : edge'[p] # NoEdge => edge'[p] = edge[p] /\ unsent'[p] = unsent[p]
  PROVE  KnownInv'
  <1>0. TypeOK /\ TypeOK'
    BY DEF SimpleTypeOK
  <1>1. \A p, q \in Ranks : NodesStay(p, q)
    <2> SUFFICES ASSUME NEW p \in Ranks, NEW q \in Ranks PROVE NodesStay(p, q)
      OBVIOUS
    <2>1. maxNodes[q] \in Nat /\ maxNodes'[q] \in Nat /\ lleft[q] \in Nat
      BY <1>0 DEF TypeOK
    <2>2. Forces(q, p)' <=> Forces(q, p)
      BY DEF Forces
    <2> QED
      BY <2>1, <2>2 DEF NodesStay
  <1>2. \A p, q \in Ranks : EdgeStays(p, q)
    BY DEF EdgeStays
  <1>3. \A p, q \in Ranks : Extends(p, q) /\ NoNewEdge(p, q)
    <2>1. CASE net' = net
      BY <1>0, <2>1, LengthType DEF Extends, NoNewEdge
    <2>2. CASE SendsNode(r)
      <3>1. PICK d \in Ranks, m \in Messages : NodeMessage(m) /\ Sends(r, d, m)
        BY <2>2 DEF SendsNode
      <3> SUFFICES ASSUME NEW p \in Ranks, NEW q \in Ranks PROVE Extends(p, q) /\ NoNewEdge(p, q)
        OBVIOUS
      <3>2. net[p][q] \in Seq(Messages)
        BY <1>0 DEF TypeOK
      <3>3. /\ (p = r /\ q = d) => net'[p][q] = Append(net[p][q], m)
            /\ ~ (p = r /\ q = d) => net'[p][q] = net[p][q]
        <4>1. net'[p][q] = IF p = r /\ q = d THEN Append(net[p][q], m) ELSE net[p][q]
          BY <1>0, <3>1, SentChannel
        <4> QED
          BY <4>1
      <3> QED
        BY <3>1, <3>2, <3>3 DEF Extends, NoNewEdge, NodeMessage
    <2> QED
      BY <2>1, <2>2
  <1>4. \A p \in Ranks : \A q \in Others(p) : KnownAt(p, q)'
    <2> SUFFICES ASSUME NEW p \in Ranks, NEW q \in Others(p) PROVE KnownAt(p, q)'
      OBVIOUS
    <2>1. q \in Ranks /\ KnownAt(p, q)
      BY DEF KnownInv, Others
    <2> QED
      BY <1>1, <1>2, <1>3, <2>1, KnownKept
  <1>5. ASSUME NEW p \in Ranks, edge'[p] # NoEdge PROVE edge'[p] < maxNodes'[p]
    <2>1. edge'[p] = edge[p] /\ edge[p] < maxNodes[p] /\ maxNodes[p] <= maxNodes'[p]
      BY <1>5 DEF KnownInv
    <2>2. edge[p] \in Int /\ maxNodes[p] \in Nat /\ maxNodes'[p] \in Nat
      BY <1>0, NumberType DEF TypeOK
    <2> QED
      BY <2>1, <2>2
  <1> QED
    BY <1>4, <1>5 DEF KnownInv

\* Steps of a rank's listener that take a message.
LEMMA KnownReceived ==
  ASSUME SimpleTypeOK, SimpleTypeOK', KnownInv, NEW r \in Ranks, NEW d \in Others(r), NEW tag,
         Receive(r, d, tag), UNCHANGED <<edge, unsent>>,
         \A q \in Ranks : q # r => lpc'[q] = lpc[q] /\ lleft'[q] = lleft[q],
         tag = "NEW_NODE_COMMAND" => lpc'[r] = "force" /\ lleft'[r] = Head(net[d][r]).n,
         \A p \in Ranks : maxNodes[p] <= maxNodes'[p]
  PROVE  KnownInv'
  <1>0. TypeOK /\ TypeOK' /\ d \in Ranks /\ d # r
    BY DEF SimpleTypeOK, Others
  <1>1. /\ lpc[r] = "probe" /\ net[d][r] # <<>> /\ Head(net[d][r]).tag = tag
        /\ net' = [net EXCEPT ![d][r] = Tail(@)] /\ from' = [from EXCEPT ![r] = d]
    BY DEF Receive
  <1>2. /\ net'[d][r] = Tail(net[d][r])
        /\ \A p, q \in Ranks : ~ (p = d /\ q = r) => net'[p][q] = net[p][q]
    BY <1>0, <1>1 DEF TypeOK
  <1>3. from'[r] = d /\ \A q \in Ranks : q # r => from'[q] = from[q]
    BY <1>0, <1>1 DEF TypeOK
  <1>4. KnownAt(d, r)'
    <2>1. Takes(d, r)
      BY <1>0, <1>1, <1>2, <1>3 DEF Takes, Forces
    <2>2. EdgeStays(d, r)
      BY DEF EdgeStays
    <2>3. KnownAt(d, r)
      BY <1>0 DEF KnownInv, Others
    <2> QED
      BY <1>0, <2>1, <2>2, <2>3, KnownTaken
  <1>5. ASSUME NEW p \in Ranks, NEW q \in Others(p), ~ (p = d /\ q = r)
        PROVE  KnownAt(p, q)'
    <2>1. q \in Ranks /\ KnownAt(p, q)
      BY DEF KnownInv, Others
    <2>2. net'[p][q] = net[p][q]
      BY <1>2, <1>5, <2>1
    <2>3. Extends(p, q) /\ NoNewEdge(p, q)
      BY <1>0, <2>1, <2>2, LengthType DEF Extends, NoNewEdge
    <2>4. EdgeStays(p, q)
      BY DEF EdgeStays
    <2>5. maxNodes[q] \in Nat /\ maxNodes'[q] \in Nat /\ lleft[q] \in Nat
      BY <1>0, <2>1 DEF TypeOK
    <2>6. Forces(q, p) => Forces(q, p)' /\ lleft'[q] = lleft[q]
      BY <1>1, <1>3, <2>1 DEF Forces
    <2>7. NodesStay(p, q)
      BY <2>1, <2>5, <2>6 DEF NodesStay
    <2> QED
      BY <2>1, <2>3, <2>4, <2>7, KnownKept
  <1>6. ASSUME NEW p \in Ranks, edge'[p] # NoEdge PROVE edge'[p] < maxNodes'[p]
    <2>1. edge'[p] = edge[p] /\ edge[p] < maxNodes[p] /\ maxNodes[p] <= maxNodes'[p]
      BY <1>6 DEF KnownInv
    <2>2. edge[p] \in Int /\ maxNodes[p] \in Nat /\ maxNodes'[p] \in Nat
      BY <1>0, NumberType DEF TypeOK
    <2> QED
      BY <2>1, <2>2
  <1> QED
    BY <1>4, <1>5, <1>6 DEF KnownInv

\* Steps of a rank's listener that take none.
LEMMA KnownHandled ==
  ASSUME SimpleTypeOK, SimpleTypeOK', KnownInv, NEW r \in Ranks,
         UNCHANGED <<edge, unsent, net, from>>,
         \A q \in Ranks : q # r => lpc'[q] = lpc[q] /\ lleft'[q] = lleft[q],
         lpc[r] = "force" =>
            \/ lpc'[r] = "force" /\ maxNodes[r] + lleft[r] <= maxNodes'[r] + lleft'[r]
            \/ lleft[r] = 0,
         \A p \in Ranks : maxNodes[p] <= maxNodes'[p]
  PROVE  KnownInv'
  <1>0. TypeOK /\ TypeOK'
    BY DEF SimpleTypeOK
  <1>1. ASSUME NEW p \in Ranks, NEW q \in Others(p) PROVE KnownAt(p, q)'
    <2>1. q \in Ranks /\ KnownAt(p, q)
      BY DEF KnownInv, Others
    <2>2. Extends(p, q) /\ NoNewEdge(p, q)
      BY <1>0, <2>1, LengthType DEF Extends, NoNewEdge
    <2>3. EdgeStays(p, q)
      BY DEF EdgeStays
    <2>4. maxNodes[q] \in Nat /\ maxNodes'[q] \in Nat /\ lleft[q] \in Nat
      BY <1>0, <2>1 DEF TypeOK
    <2>5. NodesStay(p, q)
      <3>1. CASE q = r
        BY <2>1, <2>4, <3>1 DEF NodesStay, Forces
      <3>2. CASE q # r
        BY <2>1, <2>4, <3>2 DEF NodesStay, Forces
      <3> QED
        BY <3>1, <3>2
    <2> QED
      BY <2>1, <2>2, <2>3, <2>5, KnownKept
  <1>2. ASSUME NEW p \in Ranks, edge'[p] # NoEdge PROVE edge'[p] < maxNodes'[p]
    <2>1. edge'[p] = edge[p] /\ edge[p] < maxNodes[p] /\ maxNodes[p] <= maxNodes'[p]
      BY <1>2 DEF KnownInv
    <2>2. edge[p] \in Int /\ maxNodes[p] \in Nat /\ maxNodes'[p] \in Nat
      BY <1>0, NumberType DEF TypeOK
    <2> QED
      BY <2>1, <2>2
  <1> QED
    BY <1>1, <1>2 DEF KnownInv

\* The reply.
LEMMA KnownReply ==
  ASSUME SimpleTypeOK, SimpleTypeOK', KnownInv, NEW r \in Ranks, ReplyToRequest(r),
         UNCHANGED <<edge, unsent>>, \A p \in Ranks : maxNodes[p] <= maxNodes'[p]
  PROVE  KnownInv'
  <1>0. TypeOK /\ TypeOK'
    BY DEF SimpleTypeOK
  <1>1. /\ UNCHANGED <<from, lleft>> /\ lpc[r] # "force"
        /\ \A q \in Ranks : q # r => lpc'[q] = lpc[q]
    BY <1>0 DEF ReplyToRequest, TypeOK
  <1>2. CASE net' = net
    BY <1>1, <1>2, KnownHandled
  <1>3. CASE net' = [net EXCEPT ![r][from[r]] = Append(@, Ack)]
    <2>1. ASSUME NEW p \in Ranks, NEW q \in Others(p) PROVE KnownAt(p, q)'
      <3>1. q \in Ranks /\ KnownAt(p, q) /\ net[p][q] \in Seq(Messages)
        BY <1>0 DEF KnownInv, Others, TypeOK
      <3>2. /\ (p = r /\ q = from[r]) => net'[p][q] = Append(net[p][q], Ack)
            /\ ~ (p = r /\ q = from[r]) => net'[p][q] = net[p][q]
        <4>1. Sends(r, from[r], Ack)
          BY <1>3 DEF Sends
        <4>2. from[r] \in Ranks
          BY <1>0 DEF TypeOK
        <4>3. PICK d \in Ranks : d = from[r]
          BY <4>2
        <4>4. Sends(r, d, Ack)
          BY <4>1, <4>3
        <4>5. net'[p][q] = IF p = r /\ q = d THEN Append(net[p][q], Ack) ELSE net[p][q]
          BY <1>0, <3>1, <4>4, SentChannel
        <4> QED
          BY <4>3, <4>5
      <3>3. Ack.tag # "NEW_EDGE"
        BY DEF Ack
      <3>4. Extends(p, q) /\ NoNewEdge(p, q)
        BY <3>1, <3>2, <3>3 DEF Extends, NoNewEdge
      <3>5. EdgeStays(p, q)
        BY DEF EdgeStays
      <3>6. maxNodes[q] \in Nat /\ maxNodes'[q] \in Nat /\ lleft[q] \in Nat
        BY <1>0, <3>1 DEF TypeOK
      <3>7. Forces(q, p) => Forces(q, p)'
        BY <1>1, <3>1 DEF Forces
      <3>8. NodesStay(p, q)
        BY <1>1, <3>1, <3>6, <3>7 DEF NodesStay
      <3> QED
        BY <3>1, <3>4, <3>5, <3>8, KnownKept
    <2>2. ASSUME NEW p \in Ranks, edge'[p] # NoEdge PROVE edge'[p] < maxNodes'[p]
      <3>1. edge'[p] = edge[p] /\ edge[p] < maxNodes[p] /\ maxNodes[p] <= maxNodes'[p]
        BY <2>2 DEF KnownInv
      <3>2. edge[p] \in Int /\ maxNodes[p] \in Nat /\ maxNodes'[p] \in Nat
        BY <1>0, NumberType DEF TypeOK
      <3> QED
        BY <3>1, <3>2
    <2> QED
      BY <2>1, <2>2 DEF KnownInv
  <1> QED
    BY <1>2, <1>3 DEF ReplyToRequest

\* An edge comes to a node that is there, and so does a rank's own.
LEMMA EdgeFits ==
  ASSUME SimpleTypeOK, NEW r \in Ranks, NEW v \in Int, v < maxNodes[r], GraphAddEdge(r, v)
  PROVE  maxNodes' = maxNodes
  <1>1. maxNodes \in [Ranks -> Nat]
    BY DEF SimpleTypeOK, TypeOK
  <1>2. maxNodes' = [maxNodes EXCEPT ![r] = IF v >= @ THEN v + 1 ELSE @]
    BY DEF GraphAddEdge
  <1> QED
    BY <1>1, <1>2

LEMMA ComingFits ==
  ASSUME SimpleTypeOK, KnownInv, NEW r \in Ranks, NEW d \in Others(r), HandleNewEdge(r, d)
  PROVE  maxNodes' = maxNodes
  <1>1. /\ d \in Ranks /\ r \in Others(d) /\ Receive(r, d, "NEW_EDGE")
        /\ GraphAddEdge(r, Head(net[d][r]).n)
    BY DEF HandleNewEdge, Others
  <1>2. /\ lpc[r] = "probe" /\ Head(net[d][r]).tag = "NEW_EDGE"
        /\ Head(net[d][r]) = net[d][r][1] /\ 1 \in 1 .. Len(net[d][r])
    <2>1. net[d][r] \in Seq(Messages) /\ net[d][r] # <<>>
      BY <1>1 DEF Receive, SimpleTypeOK, TypeOK
    <2> QED
      BY <1>1, <2>1 DEF Receive
  <1>3. PICK v \in Int : v = net[d][r][1].n
    BY <1>1, <1>2, NumberType
  <1>4. Meets(d, r, net[d][r][1].n, 1 - 1)
    BY <1>1, <1>2 DEF KnownInv, KnownAt
  <1>5. v < maxNodes[r]
    BY <1>2, <1>3, <1>4 DEF Meets, Forces
  <1> QED
    BY <1>1, <1>2, <1>3, <1>5, EdgeFits

LEMMA KnownInit == SimpleInit => KnownInv
  <1> SUFFICES ASSUME SimpleInit PROVE KnownInv
    OBVIOUS
  <1>1. \A p, q \in Ranks : net[p][q] = <<>> /\ edge[p] = NoEdge
    BY DEF SimpleInit, Init
  <1> QED
    BY <1>1 DEF KnownInv, KnownAt, Others

\* One edge begun, one sent.
LEMMA KnownBeginEdge ==
  ASSUME Careful, SimpleTypeOK, SimpleTypeOK', KnownInv, NEW r \in Ranks, NEW v \in EdgeNodes,
         BeginEdge(r, v)
  PROVE  KnownInv'
  <1>0. TypeOK /\ TypeOK'
    BY DEF SimpleTypeOK
  <1>1. /\ \A p \in Ranks : edge'[p] = IF p = r THEN v ELSE edge[p]
        /\ \A p \in Ranks : unsent'[p] = IF p = r THEN Others(r) ELSE unsent[p]
        /\ UNCHANGED <<net, lpc, from, lleft, maxNodes>>
        /\ v < maxNodes[r] /\ Carefully(r, v)
    BY <1>0 DEF BeginEdge, Free, SimpleTypeOK, TypeOK, listenerVars
  <1>2. \A p, q \in Ranks : \A w, k : Meets(p, q, w, k)' <=> Meets(p, q, w, k)
    BY <1>1 DEF Meets, Forces
  <1>3. ASSUME NEW p \in Ranks, NEW q \in Others(p) PROVE KnownAt(p, q)'
    <2>1. q \in Ranks /\ KnownAt(p, q)
      BY DEF KnownInv, Others
    <2>2. \A i \in 1 .. Len(net'[p][q]) :
             net'[p][q][i].tag = "NEW_EDGE" => Meets(p, q, net[p][q][i].n, i - 1)'
      BY <1>1, <2>1 DEF KnownAt, Meets, Forces
    <2>3. ASSUME edge'[p] # NoEdge, q \in unsent'[p]
          PROVE  Meets(p, q, edge[p], Len(net[p][q]))'
      <3>1. CASE p = r
        <4>1. v < maxNodes[q] + DueAt(r, q)
          BY <1>1, <3>1 DEF Carefully
        <4>2. Meets(r, q, v, Len(net[r][q]))
          BY <2>1, <4>1, KnownBegun
        <4>3. edge'[p] = v
          BY <1>1, <3>1
        <4> QED
          BY <1>1, <3>1, <4>2, <4>3 DEF Meets, Forces
      <3>2. CASE p # r
        <4>1. edge'[p] = edge[p] /\ unsent'[p] = unsent[p]
          BY <1>1, <3>2
        <4>2. Meets(p, q, edge[p], Len(net[p][q]))
          BY <2>1, <2>3, <4>1 DEF KnownAt
        <4> QED
          BY <1>1, <4>1, <4>2 DEF Meets, Forces
      <3> QED
        BY <3>1, <3>2
    <2> QED
      BY <2>2, <2>3 DEF KnownAt
  <1>4. \A p \in Ranks : edge'[p] # NoEdge => edge'[p] < maxNodes'[p]
    BY <1>1 DEF KnownInv
  <1> QED
    BY <1>3, <1>4 DEF KnownInv

LEMMA KnownSendEdge ==
  ASSUME SimpleTypeOK, SimpleTypeOK', HandshakeInv, KnownInv, NEW r \in Ranks, SendEdge(r)
  PROVE  KnownInv'
  <1>0. TypeOK /\ TypeOK'
    BY DEF SimpleTypeOK
  <1>1. PICK d \in unsent[r] : /\ net' = [net EXCEPT ![r][d] = Append(@, NewEdge(edge[r]))]
                               /\ unsent' = [unsent EXCEPT ![r] = @ \ {d}]
    BY DEF SendEdge
  <1>2. d \in Ranks /\ d # r
    BY DEF HandshakeInv, RankInv, Others
  <1>3. /\ edge[r] # NoEdge /\ edge' = edge /\ UNCHANGED <<maxNodes, lpc, from, lleft>>
    BY DEF SendEdge, edgeVars, listenerVars
  <1>4. Sends(r, d, NewEdge(edge[r]))
    BY <1>1 DEF Sends
  <1>5. /\ net'[r][d] = Append(net[r][d], NewEdge(edge[r]))
        /\ \A p, q \in Ranks : ~ (p = r /\ q = d) => net'[p][q] = net[p][q]
    <2>1. \A p, q \in Ranks : net'[p][q] = IF p = r /\ q = d
                                THEN Append(net[p][q], NewEdge(edge[r])) ELSE net[p][q]
      BY <1>0, <1>2, <1>4, SentChannel
    <2> QED
      BY <1>2, <2>1
  <1>6. \A p \in Ranks : unsent'[p] = IF p = r THEN unsent[r] \ {d} ELSE unsent[p]
    BY <1>0, <1>1 DEF TypeOK
  <1>7. KnownAt(r, d)'
    <2>1. KnownAt(r, d)
      BY <1>2 DEF KnownInv, Others
    <2>2. d \in unsent[r] /\ d \notin unsent'[r]
      BY <1>6
    <2> QED
      BY <1>2, <1>3, <1>5, <2>1, <2>2, KnownSent
  <1>8. ASSUME NEW p \in Ranks, NEW q \in Others(p), ~ (p = r /\ q = d)
        PROVE  KnownAt(p, q)'
    <2>1. q \in Ranks /\ KnownAt(p, q)
      BY DEF KnownInv, Others
    <2>2. net'[p][q] = net[p][q]
      BY <1>5, <1>8, <2>1
    <2>3. Extends(p, q) /\ NoNewEdge(p, q)
      BY <1>0, <2>1, <2>2, LengthType DEF Extends, NoNewEdge
    <2>4. EdgeStays(p, q)
      BY <1>3, <1>6 DEF EdgeStays
    <2>5. maxNodes[q] \in Nat /\ lleft[q] \in Nat
      BY <1>0, <2>1 DEF TypeOK
    <2>6. NodesStay(p, q)
      BY <1>3, <2>5 DEF NodesStay, Forces
    <2> QED
      BY <2>1, <2>3, <2>4, <2>6, KnownKept
  <1>9. \A p \in Ranks : edge'[p] # NoEdge => edge'[p] < maxNodes'[p]
    BY <1>3 DEF KnownInv
  <1> QED
    BY <1>7, <1>8, <1>9 DEF KnownInv

LEMMA KnownStep ==
  ASSUME Careful
  PROVE  SimpleTypeOK /\ SimpleTypeOK' /\ SaveInv /\ HandshakeInv /\ EdgesIdle /\ KnownInv
           /\ [SimpleNext]_simpleVars => KnownInv'
  <1> SUFFICES ASSUME SimpleTypeOK, SimpleTypeOK', SaveInv, HandshakeInv, EdgesIdle, KnownInv,
                      [SimpleNext]_simpleVars
               PROVE  KnownInv'
    OBVIOUS
  <1>0. TypeOK /\ TypeOK' /\ \A p \in Ranks : maxNodes[p] \in Nat
    BY DEF SimpleTypeOK, TypeOK
  <1>1. ASSUME NEW r \in Ranks, UNCHANGED <<net, lpc, from, lleft, unsent>>,
               \A p \in Ranks : maxNodes[p] <= maxNodes'[p],
               \A p \in Ranks : edge'[p] # NoEdge => edge'[p] = edge[p]
        PROVE  KnownInv'
    BY <1>1, KnownFrame
  <1>2. \A p \in Ranks : maxNodes[p] <= maxNodes[p]
    BY <1>0
  <1>3. CASE UNCHANGED simpleVars
    <2>1. 0 \in Ranks
      BY ConstantsAssumption DEF Ranks
    <2>2. UNCHANGED <<net, lpc, from, lleft, unsent, maxNodes, edge>>
      BY <1>3 DEF simpleVars, vars, mainVars, listenerVars, edgeVars
    <2> QED
      BY <1>1, <1>2, <2>1, <2>2
  <1>4. ASSUME NEW r \in Ranks, NEW n \in 1 .. MaxNew, BeginNodes(r, n) PROVE KnownInv'
    <2>1. UNCHANGED <<net, lpc, from, lleft, unsent, maxNodes, edge>>
      BY <1>4 DEF BeginNodes, BeginAdd, listenerVars, edgeVars
    <2> QED
      BY <1>1, <1>2, <2>1
  <1>5. ASSUME NEW r \in Ranks, NEW v \in EdgeNodes, BeginEdge(r, v) PROVE KnownInv'
    BY <1>5, KnownBeginEdge
  <1>6. ASSUME NEW r \in Ranks,
               BeginSave(r) \/ LockCheckpoint(r) \/ WriteLevel(r) \/ CountVertices(r)
        PROVE  KnownInv'
    <2>1. UNCHANGED <<net, lpc, from, lleft, unsent, maxNodes, edge>>
      BY <1>6 DEF BeginSave, LockCheckpoint, WriteLevel, CountVertices, vars, mainVars,
                  listenerVars, edgeVars
    <2> QED
      BY <1>1, <1>2, <2>1
  <1>7. ASSUME NEW r \in Ranks, ClearWritable(r) PROVE KnownInv'
    <2>1. UNCHANGED <<net, lpc, from, lleft, unsent, edge>>
      BY <1>7 DEF ClearWritable, mainVars, listenerVars
    <2>2. maxNodes' = maxNodes
      <3>1. levelNodes[r] = maxNodes[r]
        BY <1>7 DEF ClearWritable, SaveInv
      <3> QED
        BY <1>0, <1>7, <3>1 DEF ClearWritable, TypeOK
    <2> QED
      BY <1>1, <1>2, <2>1, <2>2
  <1>8. ASSUME NEW r \in Ranks, AgreementStep(r) PROVE KnownInv'
    <2>1. /\ net' = net \/ SendsNode(r)
          /\ UNCHANGED listenerVars
      BY <1>0, <1>8, AgreementSends
    <2>2. \A p \in Ranks : edge[p] # NoEdge => unsent'[p] = unsent[p]
      BY <1>8, AgreementEdges
    <2>3. UNCHANGED <<maxNodes, edge>>
      BY <1>8, AgreementFrame DEF edgeVars
    <2>4. UNCHANGED <<lpc, from, lleft>>
      BY <2>1 DEF listenerVars
    <2>5. \A p \in Ranks : maxNodes[p] <= maxNodes'[p]
      BY <1>2, <2>3
    <2>6. \A p \in Ranks : edge'[p] # NoEdge => edge'[p] = edge[p] /\ unsent'[p] = unsent[p]
      BY <2>2, <2>3
    <2> QED
      BY <2>1, <2>4, <2>5, <2>6, KnownFrame
  <1>9. ASSUME NEW r \in Ranks, OwnNode(r) PROVE KnownInv'
    <2>1. UNCHANGED <<net, lpc, from, lleft, unsent, edge>>
      BY <1>9 DEF OwnNode, AddOwnNode, listenerVars, edgeVars
    <2>2. \A p \in Ranks : maxNodes[p] <= maxNodes'[p]
      <3>1. \A p \in Ranks : maxNodes'[p] = IF p = r THEN maxNodes[p] + 1 ELSE maxNodes[p]
        BY <1>0, <1>9 DEF OwnNode, AddOwnNode, TypeOK
      <3>2. \A p \in Ranks : maxNodes[p] \in Nat
        BY <1>0 DEF TypeOK
      <3> QED
        BY <3>1, <3>2
    <2> QED
      BY <1>1, <2>1, <2>2
  <1>10. ASSUME NEW r \in Ranks, SendEdge(r) PROVE KnownInv'
    BY <1>10, KnownSendEdge
  <1>11. ASSUME NEW r \in Ranks, AddOwnEdge(r) PROVE KnownInv'
    <2>1. UNCHANGED <<net, lpc, from, lleft, unsent>>
      BY <1>11 DEF AddOwnEdge, mainVars, listenerVars
    <2>2. maxNodes' = maxNodes
      <3>1. PICK v \in Int : v = edge[r]
        BY NumberType
      <3>2. v < maxNodes[r] /\ GraphAddEdge(r, v)
        BY <1>11, <3>1 DEF AddOwnEdge, KnownInv
      <3> QED
        BY <3>2, EdgeFits
    <2>3. \A p \in Ranks : edge'[p] # NoEdge => edge'[p] = edge[p]
      BY <1>11 DEF AddOwnEdge, SimpleTypeOK
    <2> QED
      BY <1>1, <1>2, <2>1, <2>2, <2>3
  <1>12. ASSUME NEW r \in Ranks, AgreementMessage(r) PROVE KnownInv'
    <2>1. UNCHANGED <<unsent, maxNodes, edge>>
      <3>1. unsent' = unsent
        BY <1>0, <1>12, MessageSends
      <3> QED
        BY <1>12, <3>1, MessageFrame DEF edgeVars
    <2>2. \A p \in Ranks : maxNodes[p] <= maxNodes'[p]
      BY <1>2, <2>1
    <2>3. ASSUME NEW d \in Others(r), ReceiveRequest(r, d) PROVE KnownInv'
      <3>1. /\ Receive(r, d, "NEW_NODE_REQUEST")
            /\ \A q \in Ranks : q # r => lpc'[q] = lpc[q] /\ lleft'[q] = lleft[q]
        BY <1>0, <2>3 DEF ReceiveRequest, TypeOK
      <3> QED
        BY <2>1, <2>2, <3>1, KnownReceived
    <2>4. ASSUME NEW d \in Others(r), HandleAck(r, d) PROVE KnownInv'
      <3>1. /\ Receive(r, d, "NEW_NODE_ACK")
            /\ \A q \in Ranks : q # r => lpc'[q] = lpc[q] /\ lleft'[q] = lleft[q]
        BY <2>4 DEF HandleAck
      <3> QED
        BY <2>1, <2>2, <3>1, KnownReceived
    <2>5. ASSUME NEW d \in Others(r), ReceiveCommand(r, d) PROVE KnownInv'
      <3>1. /\ Receive(r, d, "NEW_NODE_COMMAND")
            /\ \A q \in Ranks : q # r => lpc'[q] = lpc[q] /\ lleft'[q] = lleft[q]
            /\ lpc'[r] = "force" /\ lleft'[r] = Head(net[d][r]).n
        BY <1>0, <2>5 DEF ReceiveCommand, TypeOK
      <3> QED
        BY <2>1, <2>2, <3>1, KnownReceived
    <2>6. CASE CountRequest(r)
      <3>1. /\ UNCHANGED <<net, from>> /\ lpc[r] # "force"
            /\ \A q \in Ranks : q # r => lpc'[q] = lpc[q] /\ lleft'[q] = lleft[q]
        BY <1>0, <2>6 DEF CountRequest, TypeOK
      <3> QED
        BY <2>1, <2>2, <3>1, KnownHandled
    <2>7. CASE FinishCommand(r)
      <3>1. /\ UNCHANGED <<net, from>> /\ lleft[r] = 0
            /\ \A q \in Ranks : q # r => lpc'[q] = lpc[q] /\ lleft'[q] = lleft[q]
        BY <1>0, <2>7 DEF FinishCommand, TypeOK
      <3> QED
        BY <2>1, <2>2, <3>1, KnownHandled
    <2>8. CASE ReplyToRequest(r)
      BY <2>1, <2>2, <2>8, KnownReply
    <2> QED
      BY <1>12, <2>3, <2>4, <2>5, <2>6, <2>7, <2>8 DEF AgreementMessage
  <1>13. ASSUME NEW r \in Ranks, ForcedNode(r) PROVE KnownInv'
    <2>1. UNCHANGED <<net, lpc, from, unsent, edge>>
      BY <1>13 DEF ForcedNode, ForceAddNode, mainVars, edgeVars
    <2>2. /\ \A q \in Ranks : q # r => lleft'[q] = lleft[q] /\ maxNodes'[q] = maxNodes[q]
          /\ maxNodes'[r] = maxNodes[r] + 1 /\ lleft'[r] = lleft[r] - 1
          /\ lleft[r] \in Nat
      BY <1>0, <1>13 DEF ForcedNode, ForceAddNode, TypeOK
    <2>3. \A p \in Ranks : maxNodes[p] <= maxNodes'[p]
      BY <1>0, <2>2
    <2>4. maxNodes[r] + lleft[r] <= maxNodes'[r] + lleft'[r]
      BY <1>0, <2>2
    <2> QED
      BY <2>1, <2>2, <2>3, <2>4, KnownHandled
  <1>14. ASSUME NEW r \in Ranks, NEW d \in Others(r), HandleNewEdge(r, d) PROVE KnownInv'
    <2>1. /\ Receive(r, d, "NEW_EDGE") /\ UNCHANGED <<edge, unsent, lpc, lleft>>
      BY <1>14 DEF HandleNewEdge, mainVars
    <2>2. maxNodes' = maxNodes
      BY <1>14, ComingFits
    <2>3. \A p \in Ranks : maxNodes[p] <= maxNodes'[p]
      BY <1>2, <2>2
    <2> QED
      BY <2>1, <2>3, KnownReceived
  <1> QED
    BY <1>3, <1>4, <1>5, <1>6, <1>7, <1>8, <1>9, <1>10, <1>11, <1>12, <1>13, <1>14
       DEF SimpleNext, SimpleMain, SimpleListener

-----------------------------------------------------------------------------
(***************************************************************************)
(* With careful callers the nodes of all ranks are added by the            *)
(* reservations of NodeReservation and in no other way: no edge makes one. *)
(***************************************************************************)
LEMMA SimpleNoSelfStep ==
  SimpleTypeOK /\ HandshakeInv /\ NoSelf /\ [SimpleNext]_simpleVars => NoSelf'
  <1> SUFFICES ASSUME SimpleTypeOK, HandshakeInv, NoSelf, [SimpleNext]_simpleVars
               PROVE  NoSelf'
    OBVIOUS
  <1>0. TypeOK
    BY DEF SimpleTypeOK
  <1>1. CASE net' = net
    BY <1>1 DEF NoSelf
  <1>2. CASE Next
    BY <1>0, <1>2, NoSelfStep
  <1>3. ASSUME NEW r \in Ranks, SendEdge(r) PROVE NoSelf'
    <2>1. PICK d \in unsent[r] : net' = [net EXCEPT ![r][d] = Append(@, NewEdge(edge[r]))]
      BY <1>3 DEF SendEdge
    <2>2. d \in Others(r)
      BY DEF HandshakeInv, RankInv
    <2> QED
      BY <1>0, <2>1, <2>2, NoSelfSend
  <1>4. ASSUME NEW r \in Ranks, NEW d \in Others(r), HandleNewEdge(r, d) PROVE NoSelf'
    BY <1>0, <1>4, NoSelfReceive DEF HandleNewEdge
  <1>5. ASSUME NEW r \in Ranks,
               AgreementStep(r) \/ OwnNode(r) \/ AgreementMessage(r) \/ ForcedNode(r)
                 \/ (\E n \in 1 .. MaxNew : BeginNodes(r, n))
        PROVE  NoSelf'
    BY <1>2, <1>5, AgreementIsNext
  <1>6. ASSUME NEW r \in Ranks,
               \/ \E v \in EdgeNodes : BeginEdge(r, v)
               \/ BeginSave(r) \/ AddOwnEdge(r)
               \/ LockCheckpoint(r) \/ WriteLevel(r) \/ ClearWritable(r) \/ CountVertices(r)
        PROVE  NoSelf'
    BY <1>1, <1>6 DEF BeginEdge, BeginSave, AddOwnEdge, LockCheckpoint, WriteLevel,
                      ClearWritable, CountVertices, vars
  <1>7. CASE UNCHANGED simpleVars
    BY <1>1, <1>7 DEF simpleVars, vars
  <1> QED
    BY <1>3, <1>4, <1>5, <1>6, <1>7 DEF SimpleNext, SimpleMain, SimpleListener

\* A step of the main thread outside of add_nodes, or of a listener.
LEMMA IdleUnseen ==
  ASSUME NEW r \in Ranks, pc[r] = "idle", UNCHANGED <<pc, want, left, maxNodes>>,
         \A p \in Ranks : p # r => unsent'[p] = unsent[p],
         \A p, q \in Ranks : DueAt(p, q)' = DueAt(p, q)
  PROVE  UNCHANGED Reservation!vars
  <1>1. \A p \in Ranks : StageOf(p)' = StageOf(p)
    BY DEF StageOf
  <1>2. \A p, q \in Ranks : HoldsOver(p, q)' <=> HoldsOver(p, q)
    BY DEF HoldsOver
  <1> QED
    BY <1>1, <1>2, Unseen

LEMMA EdgeUnseen ==
  ASSUME SimpleTypeOK, HandshakeInv, HandshakeInv', EdgesIdle, NEW r \in Ranks, SendEdge(r)
  PROVE  UNCHANGED Reservation!vars
  <1> DEFINE m == NewEdge(edge[r])
  <1>0. TypeOK
    BY DEF SimpleTypeOK
  <1>1. PICK d \in unsent[r] : /\ net' = [net EXCEPT ![r][d] = Append(@, m)]
                               /\ unsent' = [unsent EXCEPT ![r] = @ \ {d}]
    BY DEF SendEdge
  <1>2. d \in Others(r)
    BY DEF HandshakeInv, RankInv
  <1>3. m \in Messages
    BY EdgeMessage DEF SimpleTypeOK, SendEdge
  <1>4. ~ IsCommand(m)
    BY DEF NewEdge, IsCommand
  <1> HIDE DEF m
  <1>5. \A p, q \in Ranks : DueIn(net'[p][q]) = DueIn(net[p][q])
    BY <1>0, <1>1, <1>2, <1>3, <1>4, OtherSent
  <1>6. UNCHANGED <<pc, want, left, maxNodes, lpc, from, lleft>> /\ pc[r] = "idle"
    BY DEF SendEdge, EdgesIdle, listenerVars
  <1>7. \A p, q \in Ranks : DueAt(p, q)' = DueAt(p, q)
    BY <1>5, <1>6, DueFollows
  <1>8. \A p \in Ranks : p # r => unsent'[p] = unsent[p]
    BY <1>0, <1>1 DEF TypeOK
  <1> QED
    BY <1>6, <1>7, <1>8, IdleUnseen

LEMMA ArrivalUnseen ==
  ASSUME SimpleTypeOK, HandshakeInv, KnownInv, NEW r \in Ranks, NEW d \in Others(r),
         HandleNewEdge(r, d)
  PROVE  UNCHANGED Reservation!vars
  <1>0. TypeOK
    BY DEF SimpleTypeOK
  <1>1. UNCHANGED <<pc, want, unsent, left, lpc, lleft, maxNodes>>
    <2>1. maxNodes' = maxNodes
      BY ComingFits
    <2> QED
      BY <2>1 DEF HandleNewEdge, mainVars
  <1>2. Receive(r, d, "NEW_EDGE") /\ d \in Ranks
    BY DEF HandleNewEdge, Others
  <1>3. /\ lpc[r] = "probe" /\ \A q \in Ranks : q # r => from'[q] = from[q]
        /\ DueIn(net'[d][r]) = DueIn(net[d][r])
        /\ \A p, q \in Ranks : ~ (p = d /\ q = r) => DueIn(net'[p][q]) = DueIn(net[p][q])
    BY <1>0, <1>2, ReceivedFrom
  <1>4. \A p, q \in Ranks : DueAt(p, q)' = DueAt(p, q)
    <2> SUFFICES ASSUME NEW p \in Ranks, NEW q \in Ranks PROVE DueAt(p, q)' = DueAt(p, q)
      OBVIOUS
    <2>1. DueIn(net'[p][q]) = DueIn(net[p][q])
      BY <1>3
    <2>2. /\ DueAt(p, q) = IF lpc[q] = "force" /\ from[q] = p THEN lleft[q] ELSE DueIn(net[p][q])
          /\ DueAt(p, q)' = IF lpc'[q] = "force" /\ from'[q] = p THEN lleft'[q] ELSE DueIn(net'[p][q])
      BY DueCases
    <2>3. CASE q = r
      BY <1>1, <1>3, <2>1, <2>2, <2>3
    <2>4. CASE q # r
      BY <1>1, <1>3, <2>1, <2>2, <2>4
    <2> QED
      BY <2>3, <2>4
  <1> QED
    BY <1>1, <1>4, MainUnseen

\* Everything the steps below need to know.
SimpleInv == SimpleTypeOK /\ SaveInv /\ HandshakeInv /\ EdgesIdle /\ NoSelf /\ KnownInv

LEMMA SimpleRefinementStep ==
  SimpleInv /\ SimpleInv' /\ [SimpleNext]_simpleVars
    => [Reservation!Next]_(Reservation!vars)
  <1> SUFFICES ASSUME SimpleInv, SimpleInv', [SimpleNext]_simpleVars
               PROVE  Reservation!Next \/ UNCHANGED Reservation!vars
    OBVIOUS
  <1> USE DEF SimpleInv
  <1>0. TypeOK /\ TypeOK'
    BY DEF SimpleTypeOK
  <1>1. ASSUME UNCHANGED <<pc, want, unsent, left, maxNodes, net, lpc, from, lleft>>
        PROVE  UNCHANGED Reservation!vars
    BY <1>1, DueStays, MainUnseen
  <1>2. CASE Next
    BY <1>0, <1>2, RefinementStep
  <1>3. CASE UNCHANGED simpleVars
    BY <1>1, <1>3 DEF simpleVars, vars, mainVars, listenerVars
  <1>4. ASSUME NEW r \in Ranks,
               AgreementStep(r) \/ OwnNode(r) \/ AgreementMessage(r) \/ ForcedNode(r)
                 \/ (\E n \in 1 .. MaxNew : BeginNodes(r, n))
        PROVE  Reservation!Next \/ UNCHANGED Reservation!vars
    BY <1>2, <1>4, AgreementIsNext
  <1>5. ASSUME NEW r \in Ranks, NEW v \in EdgeNodes, BeginEdge(r, v)
        PROVE  UNCHANGED Reservation!vars
    <2>1. UNCHANGED <<pc, want, left, maxNodes, net, lpc, from, lleft>> /\ pc[r] = "idle"
      BY <1>5 DEF BeginEdge, Free, listenerVars
    <2>2. \A p \in Ranks : p # r => unsent'[p] = unsent[p]
      BY <1>0, <1>5 DEF BeginEdge, TypeOK
    <2>3. \A p, q \in Ranks : DueAt(p, q)' = DueAt(p, q)
      BY <2>1, DueStays
    <2> QED
      BY <2>1, <2>2, <2>3, IdleUnseen
  <1>6. ASSUME NEW r \in Ranks,
               BeginSave(r) \/ LockCheckpoint(r) \/ WriteLevel(r) \/ CountVertices(r)
        PROVE  UNCHANGED Reservation!vars
    <2>1. UNCHANGED vars
      BY <1>6 DEF BeginSave, LockCheckpoint, WriteLevel, CountVertices
    <2> QED
      BY <1>1, <2>1 DEF vars, mainVars, listenerVars
  <1>7. ASSUME NEW r \in Ranks, SendEdge(r) PROVE UNCHANGED Reservation!vars
    BY <1>7, EdgeUnseen
  <1>8. ASSUME NEW r \in Ranks, AddOwnEdge(r) PROVE UNCHANGED Reservation!vars
    <2>1. PICK v \in Int : v = edge[r]
      BY NumberType
    <2>2. v < maxNodes[r] /\ GraphAddEdge(r, v)
      BY <1>8, <2>1 DEF AddOwnEdge, KnownInv
    <2>3. maxNodes' = maxNodes
      BY <2>2, EdgeFits
    <2> QED
      BY <1>1, <1>8, <2>3 DEF AddOwnEdge, mainVars, listenerVars
  <1>9. ASSUME NEW r \in Ranks, ClearWritable(r) PROVE UNCHANGED Reservation!vars
    <2>1. maxNodes' = maxNodes
      BY SMTT(30), <1>0, <1>9 DEF ClearWritable, SaveInv, TypeOK
    <2> QED
      BY <1>1, <1>9, <2>1 DEF ClearWritable, mainVars, listenerVars
  <1>10. ASSUME NEW r \in Ranks, NEW d \in Others(r), HandleNewEdge(r, d)
         PROVE  UNCHANGED Reservation!vars
    BY <1>10, ArrivalUnseen
  <1> QED
    BY <1>3, <1>4, <1>5, <1>6, <1>7, <1>8, <1>9, <1>10
       DEF SimpleNext, SimpleMain, SimpleListener

-----------------------------------------------------------------------------
(***************************************************************************)
(* The nodes a rank has, and those it still has to add: for its own call,  *)
(* for a command it has, and for each rank that holds a reservation over   *)
(* it.  A grant promises the same nodes to all ranks; every other step     *)
(* turns one of these into another.                                        *)
(***************************************************************************)
Owes(p, q) == (IF HoldsOver(p, q) THEN want[p] ELSE 0) + DueAt(p, q)
Total(q) == maxNodes[q] + left[q] + SumFunction([p \in Ranks |-> Owes(p, q)])
NodesInv == \A p, q \in Ranks : Total(p) = Total(q)

OwesAreNumbers == \A p, q \in Ranks : DueAt(p, q) \in Int /\ Owes(p, q) \in Int

LEMMA ElementOf ==
  ASSUME NEW T, NEW s \in Seq(T), NEW i \in 1 .. Len(s) PROVE s[i] \in T
  OBVIOUS

LEMMA OwesType == TypeOK => OwesAreNumbers
  <1> SUFFICES ASSUME TypeOK, NEW p \in Ranks, NEW q \in Ranks
               PROVE  DueAt(p, q) \in Int /\ Owes(p, q) \in Int
    BY DEF OwesAreNumbers
  <1> DEFINE s == net[p][q]
             coming == {i \in 1 .. Len(s) : s[i].tag = "NEW_NODE_COMMAND"}
  <1>1. s \in Seq(Messages)
    BY DEF TypeOK
  <1>2. DueIn(s) \in Int
    <2>1. CASE coming = {}
      BY <2>1 DEF DueIn
    <2>2. CASE coming # {}
      <3>1. PICK i \in coming : i = CHOOSE j \in coming : TRUE
        BY <2>2
      <3>2. i \in 1 .. Len(s)
        BY <3>1
      <3>3. s[i] \in Messages
        BY <1>1, <3>2, ElementOf
      <3>4. s[i].n \in Int
        BY <3>3 DEF Messages
      <3>5. DueIn(s) = s[i].n
        BY <2>2, <3>1 DEF DueIn
      <3> QED
        BY <3>4, <3>5
    <2> QED
      BY <2>1, <2>2
  <1>3. lleft[q] \in Nat /\ want[p] \in Nat
    BY DEF TypeOK
  <1>4. DueAt(p, q) \in Int
    BY <1>2, <1>3, DueSplit
  <1> QED
    BY <1>3, <1>4 DEF Owes

\* A step that changes what one rank's call asks of each rank, by as much as
\* it changes the rank, but for the same number k at all ranks.
LEMMA NodesMove ==
  ASSUME TypeOK, TypeOK', NodesInv, NEW r \in Ranks, NEW k \in Int,
         \A p, q \in Ranks : p # r => Owes(p, q)' = Owes(p, q),
         \A q \in Ranks : maxNodes'[q] + left'[q] + Owes(r, q)'
                             = maxNodes[q] + left[q] + Owes(r, q) + k
  PROVE  NodesInv'
  <1>1. IsFiniteSet(Ranks)
    BY ConstantsAssumption, FS_Interval DEF Ranks
  <1>2. \A p, q \in Ranks : Owes(p, q) \in Int
    BY OwesType DEF OwesAreNumbers
  <1>3. \A p, q \in Ranks : Owes(p, q)' \in Int
    <2>1. OwesAreNumbers'
      BY OwesType, PTL
    <2> QED
      BY <2>1 DEF OwesAreNumbers
  <1>4. ASSUME NEW q \in Ranks PROVE Total(q) \in Int /\ Total(q)' = Total(q) + k
    <2>1. \E f \in [Ranks -> Int] : f = [p \in Ranks |-> Owes(p, q)]
      BY <1>2
    <2>2. PICK f \in [Ranks -> Int] : f = [p \in Ranks |-> Owes(p, q)]
      BY <2>1
    <2>3. \E g \in [Ranks -> Int] : g = [p \in Ranks |-> Owes(p, q)']
      BY <1>3
    <2>4. PICK g \in [Ranks -> Int] : g = [p \in Ranks |-> Owes(p, q)']
      BY <2>3
    <2>5. /\ \A p \in Ranks : p # r => g[p] = f[p]
          /\ f[r] = Owes(r, q) /\ g[r] = Owes(r, q)'
      BY <2>2, <2>4
    <2>6. SumFunction(f) \in Int /\ SumFunction(g) = SumFunction(f) + (g[r] - f[r])
      BY <1>1, <2>5, SumMoves
    <2>7. Total(q) = maxNodes[q] + left[q] + SumFunction(f)
      BY <2>2 DEF Total
    <2>8. Total(q)' = maxNodes'[q] + left'[q] + SumFunction(g)
      BY <2>4 DEF Total
    <2>9. PICK a \in Int, b \in Int, c \in Int, d \in Int, F \in Int, x \in Int, y \in Int :
             /\ a = maxNodes[q] /\ b = left[q] /\ c = maxNodes'[q] /\ d = left'[q]
             /\ F = SumFunction(f) /\ x = f[r] /\ y = g[r]
      <3>1. maxNodes[q] \in Int /\ left[q] \in Int /\ maxNodes'[q] \in Int /\ left'[q] \in Int
        BY DEF TypeOK
      <3> QED
        BY <2>6, <3>1
    <2>10. c + d + y = a + b + x + k
      BY <2>5, <2>9
    <2>11. c + d + (F + (y - x)) = a + b + F + k
      BY <2>10
    <2>12. Total(q) = a + b + F /\ Total(q)' = c + d + (F + (y - x))
      BY <2>6, <2>7, <2>8, <2>9
    <2> QED
      BY <2>11, <2>12
  <1> QED
    BY <1>4 DEF NodesInv

\* The variables of NodeReservation, rank by rank.
Holdings == {h \in Ranks \X Ranks : HoldsOver(h[1], h[2])}
Dues == [p \in Ranks |-> [q \in Ranks |-> DueAt(p, q)]]
Stages == [r \in Ranks |-> StageOf(r)]

LEMMA ViewOf ==
  ASSUME NEW p \in Ranks, NEW q \in Ranks
  PROVE  /\ <<p, q>> \in Holdings <=> HoldsOver(p, q)
         /\ <<p, q>> \in Holdings' <=> HoldsOver(p, q)'
         /\ Dues[p][q] = DueAt(p, q) /\ Dues'[p][q] = DueAt(p, q)'
         /\ Stages[p] = StageOf(p)
  BY DEF Holdings, Dues, Stages

LEMMA NumbersOf ==
  ASSUME TypeOK
  PROVE  /\ \A q \in Ranks : maxNodes[q] \in Int /\ left[q] \in Int /\ want[q] \in Int
         /\ \A p, q \in Ranks : DueAt(p, q) \in Int /\ Owes(p, q) \in Int
  <1>1. \A q \in Ranks : maxNodes[q] \in Int /\ left[q] \in Int /\ want[q] \in Int
    BY DEF TypeOK
  <1>2. \A p, q \in Ranks : DueAt(p, q) \in Int /\ Owes(p, q) \in Int
    BY OwesType DEF OwesAreNumbers
  <1> QED
    BY <1>1, <1>2

\* A table with one field changed.
LEMMA OneChanged ==
  ASSUME NEW f, f = [p \in Ranks |-> [q \in Ranks |-> f[p][q]]],
         NEW r \in Ranks, NEW d \in Ranks, NEW k, NEW g, g = [f EXCEPT ![r][d] = k]
  PROVE  \A p, q \in Ranks : g[p][q] = IF p = r /\ q = d THEN k ELSE f[p][q]
  <1>1. g = [p \in Ranks |-> IF p = r THEN [f[p] EXCEPT ![d] = k] ELSE f[p]]
    OBVIOUS
  <1>2. f[r] = [q \in Ranks |-> f[r][q]]
    OBVIOUS
  <1> QED
    BY <1>1, <1>2

DuesSet(r, d, k) == Dues' = [Dues EXCEPT ![r][d] = k]

LEMMA DuesChange ==
  ASSUME NEW r \in Ranks, NEW d \in Ranks, NEW k, DuesSet(r, d, k)
  PROVE  \A p, q \in Ranks : DueAt(p, q)' = IF p = r /\ q = d THEN k ELSE DueAt(p, q)
  <1>1. Dues = [p \in Ranks |-> [q \in Ranks |-> Dues[p][q]]]
    BY DEF Dues
  <1>2. \A p, q \in Ranks : Dues'[p][q] = IF p = r /\ q = d THEN k ELSE Dues[p][q]
    BY <1>1, OneChanged DEF DuesSet
  <1> SUFFICES ASSUME NEW p \in Ranks, NEW q \in Ranks
               PROVE  DueAt(p, q)' = IF p = r /\ q = d THEN k ELSE DueAt(p, q)
    OBVIOUS
  <1>3. Dues[p][q] = DueAt(p, q) /\ Dues'[p][q] = DueAt(p, q)'
    BY ViewOf
  <1> QED
    BY <1>2, <1>3

\* With the same nodes and dues, and reservations of the same size.
LEMMA SameNodes ==
  ASSUME TypeOK, TypeOK', NodesInv, UNCHANGED <<left, maxNodes, Holdings, Dues>>,
         \A p, q \in Ranks : HoldsOver(p, q) => want'[p] = want[p]
  PROVE  NodesInv'
  <1>1. \A p, q \in Ranks : Owes(p, q)' = Owes(p, q)
    BY ViewOf DEF Owes
  <1>2. \A q \in Ranks : maxNodes'[q] + left'[q] + Owes(0, q)'
                            = maxNodes[q] + left[q] + Owes(0, q) + 0
    <2> SUFFICES ASSUME NEW q \in Ranks
                 PROVE  maxNodes'[q] + left'[q] + Owes(0, q)'
                            = maxNodes[q] + left[q] + Owes(0, q) + 0
      OBVIOUS
    <2>1. 0 \in Ranks
      BY ConstantsAssumption DEF Ranks
    <2>2. maxNodes[q] \in Int /\ left[q] \in Int /\ Owes(0, q) \in Int
      BY <2>1, NumbersOf
    <2> QED
      BY <1>1, <2>1, <2>2
  <1>3. 0 \in Ranks /\ 0 \in Int
    BY ConstantsAssumption DEF Ranks
  <1> QED
    BY <1>1, <1>2, <1>3, NodesMove

LEMMA GrantNodes ==
  ASSUME TypeOK, TypeOK', HandshakeInv, NodesInv, NEW r \in Ranks, Reservation!Grant(r)
  PROVE  NodesInv'
  <1>1. /\ StageOf(r) = "asking"
        /\ Holdings' = Holdings \cup ({r} \X (Ranks \ {r}))
        /\ left' = [left EXCEPT ![r] = want[r]]
        /\ UNCHANGED <<want, Dues, maxNodes>>
    BY ViewOf DEF Reservation!Grant, Holdings, Dues, Stages
  <1>2. pc[r] \in {"lock", "mark", "request", "await"}
    BY <1>1 DEF StageOf, TypeOK, MainStages
  <1>3. left[r] = 0 /\ \A q \in Ranks : ~ HoldsOver(r, q)
    BY <1>2 DEF HandshakeInv, RankInv, HoldsOver
  <1>4. \A p, q \in Ranks : HoldsOver(p, q)' <=> HoldsOver(p, q) \/ (p = r /\ q # r)
    <2> SUFFICES ASSUME NEW p \in Ranks, NEW q \in Ranks
                 PROVE  HoldsOver(p, q)' <=> HoldsOver(p, q) \/ (p = r /\ q # r)
      OBVIOUS
    <2>1. <<p, q>> \in Holdings' <=> <<p, q>> \in Holdings \/ (p = r /\ q # r)
      BY <1>1
    <2> QED
      BY <2>1, ViewOf
  <1>5. \A p, q \in Ranks : DueAt(p, q)' = DueAt(p, q)
    BY <1>1, ViewOf
  <1>6. \A p, q \in Ranks : p # r => Owes(p, q)' = Owes(p, q)
    BY <1>1, <1>4, <1>5 DEF Owes
  <1>7. ASSUME NEW q \in Ranks
        PROVE  maxNodes'[q] + left'[q] + Owes(r, q)'
                  = maxNodes[q] + left[q] + Owes(r, q) + want[r]
    <2>1. /\ maxNodes[q] \in Int /\ left[q] \in Int /\ want[r] \in Int /\ DueAt(r, q) \in Int
          /\ maxNodes'[q] = maxNodes[q]
      BY <1>1, NumbersOf
    <2>2. left'[q] = IF q = r THEN want[r] ELSE left[q]
      BY <1>1 DEF TypeOK
    <2>3. Owes(r, q) = 0 + DueAt(r, q)
      BY <1>3 DEF Owes
    <2>4. Owes(r, q)' = (IF q # r THEN want[r] ELSE 0) + DueAt(r, q)
      BY <1>1, <1>3, <1>4, <1>5 DEF Owes
    <2>5. CASE q = r
      BY <1>3, <2>1, <2>2, <2>3, <2>4, <2>5
    <2>6. CASE q # r
      BY <2>1, <2>2, <2>3, <2>4, <2>6
    <2> QED
      BY <2>5, <2>6
  <1>8. want[r] \in Int
    BY DEF TypeOK
  <1> QED
    BY <1>6, <1>7, <1>8, NodesMove

LEMMA TellNodes ==
  ASSUME TypeOK, TypeOK', NodesInv, NEW r \in Ranks, NEW d \in Ranks, Reservation!Tell(r, d)
  PROVE  NodesInv'
  <1>1. /\ <<r, d>> \in Holdings /\ Dues[r][d] = 0
        /\ Holdings' = Holdings \ {<<r, d>>}
        /\ Dues' = [Dues EXCEPT ![r][d] = want[r]]
        /\ UNCHANGED <<want, left, maxNodes>>
    BY DEF Reservation!Tell, Holdings, Dues
  <1>2. \A p, q \in Ranks : HoldsOver(p, q)' <=> HoldsOver(p, q) /\ ~ (p = r /\ q = d)
    <2> SUFFICES ASSUME NEW p \in Ranks, NEW q \in Ranks
                 PROVE  HoldsOver(p, q)' <=> HoldsOver(p, q) /\ ~ (p = r /\ q = d)
      OBVIOUS
    <2>1. <<p, q>> \in Holdings' <=> <<p, q>> \in Holdings /\ ~ (p = r /\ q = d)
      BY <1>1
    <2> QED
      BY <2>1, ViewOf
  <1>3. \A p, q \in Ranks : DueAt(p, q)' = IF p = r /\ q = d THEN want[r] ELSE DueAt(p, q)
    <2>1. DuesSet(r, d, want[r])
      BY <1>1 DEF DuesSet
    <2> QED
      BY <2>1, DuesChange
  <1>4. HoldsOver(r, d) /\ DueAt(r, d) = 0
    BY <1>1, ViewOf
  <1>5. \A p, q \in Ranks : Owes(p, q)' = Owes(p, q)
    <2> SUFFICES ASSUME NEW p \in Ranks, NEW q \in Ranks PROVE Owes(p, q)' = Owes(p, q)
      OBVIOUS
    <2>1. want[r] \in Int
      BY DEF TypeOK
    <2>2. CASE p = r /\ q = d
      BY <1>1, <1>2, <1>3, <1>4, <2>1, <2>2 DEF Owes
    <2>3. CASE ~ (p = r /\ q = d)
      BY <1>1, <1>2, <1>3, <2>3 DEF Owes
    <2> QED
      BY <2>2, <2>3
  <1>6. \A q \in Ranks : maxNodes'[q] + left'[q] + Owes(r, q)'
                            = maxNodes[q] + left[q] + Owes(r, q) + 0
    <2> SUFFICES ASSUME NEW q \in Ranks
                 PROVE  maxNodes'[q] + left'[q] + Owes(r, q)'
                            = maxNodes[q] + left[q] + Owes(r, q) + 0
      OBVIOUS
    <2>1. maxNodes[q] \in Int /\ left[q] \in Int /\ Owes(r, q) \in Int
      BY NumbersOf
    <2> QED
      BY <1>1, <1>5, <2>1
  <1>7. 0 \in Int
    OBVIOUS
  <1> QED
    BY <1>5, <1>6, <1>7, NodesMove

LEMMA OwnNodes ==
  ASSUME TypeOK, TypeOK', NodesInv, NEW r \in Ranks, Reservation!AddOwn(r)
  PROVE  NodesInv'
  <1>1. /\ left' = [left EXCEPT ![r] = @ - 1] /\ maxNodes' = [maxNodes EXCEPT ![r] = @ + 1]
        /\ UNCHANGED <<want, Holdings, Dues>>
    BY DEF Reservation!AddOwn, Holdings, Dues
  <1>2. \A p, q \in Ranks : Owes(p, q)' = Owes(p, q)
    BY <1>1, ViewOf DEF Owes
  <1>3. \A q \in Ranks : maxNodes'[q] + left'[q] + Owes(r, q)'
                            = maxNodes[q] + left[q] + Owes(r, q) + 0
    <2> SUFFICES ASSUME NEW q \in Ranks
                 PROVE  maxNodes'[q] + left'[q] + Owes(r, q)'
                            = maxNodes[q] + left[q] + Owes(r, q) + 0
      OBVIOUS
    <2>1. maxNodes[q] \in Int /\ left[q] \in Int /\ Owes(r, q) \in Int
      BY NumbersOf
    <2>2. /\ maxNodes'[q] = IF q = r THEN maxNodes[q] + 1 ELSE maxNodes[q]
          /\ left'[q] = IF q = r THEN left[q] - 1 ELSE left[q]
      BY <1>1 DEF TypeOK
    <2> QED
      BY <1>2, <2>1, <2>2
  <1>4. 0 \in Int
    OBVIOUS
  <1> QED
    BY <1>2, <1>3, <1>4, NodesMove

LEMMA DueNodes ==
  ASSUME TypeOK, TypeOK', NodesInv, NEW r \in Ranks, NEW d \in Ranks, Reservation!AddDue(r, d)
  PROVE  NodesInv'
  <1>1. /\ Dues' = [Dues EXCEPT ![r][d] = @ - 1]
        /\ maxNodes' = [maxNodes EXCEPT ![d] = @ + 1]
        /\ UNCHANGED <<want, Holdings, left>>
    BY DEF Reservation!AddDue, Holdings, Dues
  <1>2. \A p, q \in Ranks : HoldsOver(p, q)' <=> HoldsOver(p, q)
    BY <1>1, ViewOf
  <1>3. \A p, q \in Ranks : DueAt(p, q)' = IF p = r /\ q = d THEN DueAt(p, q) - 1 ELSE DueAt(p, q)
    <2>1. DuesSet(r, d, DueAt(r, d) - 1)
      BY <1>1, ViewOf DEF DuesSet
    <2>2. \A p, q \in Ranks :
              DueAt(p, q)' = IF p = r /\ q = d THEN DueAt(r, d) - 1 ELSE DueAt(p, q)
      BY <2>1, DuesChange
    <2> QED
      BY <2>2
  <1>4. \A p, q \in Ranks : p # r => Owes(p, q)' = Owes(p, q)
    BY <1>1, <1>2, <1>3 DEF Owes
  <1>5. \A q \in Ranks : maxNodes'[q] + left'[q] + Owes(r, q)'
                            = maxNodes[q] + left[q] + Owes(r, q) + 0
    <2> SUFFICES ASSUME NEW q \in Ranks
                 PROVE  maxNodes'[q] + left'[q] + Owes(r, q)'
                            = maxNodes[q] + left[q] + Owes(r, q) + 0
      OBVIOUS
    <2>1. /\ maxNodes[q] \in Int /\ left[q] \in Int /\ want[r] \in Int /\ DueAt(r, q) \in Int
          /\ left'[q] = left[q]
      BY <1>1, NumbersOf
    <2>2. maxNodes'[q] = IF q = d THEN maxNodes[q] + 1 ELSE maxNodes[q]
      BY <1>1 DEF TypeOK
    <2>3. Owes(r, q) = (IF HoldsOver(r, q) THEN want[r] ELSE 0) + DueAt(r, q)
      BY DEF Owes
    <2>4. Owes(r, q)' = (IF HoldsOver(r, q) THEN want[r] ELSE 0)
                           + (IF q = d THEN DueAt(r, q) - 1 ELSE DueAt(r, q))
      BY <1>1, <1>2, <1>3 DEF Owes
    <2>5. CASE q = d
      BY <2>1, <2>2, <2>3, <2>4, <2>5
    <2>6. CASE q # d
      BY <2>1, <2>2, <2>3, <2>4, <2>6
    <2> QED
      BY <2>5, <2>6
  <1>6. 0 \in Int
    OBVIOUS
  <1> QED
    BY <1>4, <1>5, <1>6, NodesMove

LEMMA AskNodes ==
  ASSUME TypeOK, TypeOK', NodesInv, NEW r \in Ranks, NEW n, Reservation!Ask(r, n)
  PROVE  NodesInv'
  <1>1. /\ StageOf(r) = "out" /\ want' = [want EXCEPT ![r] = n]
        /\ UNCHANGED <<left, maxNodes, Holdings, Dues>>
    BY ViewOf DEF Reservation!Ask, Holdings, Dues, Stages
  <1>2. pc[r] = "idle"
    BY <1>1 DEF StageOf, TypeOK, MainStages
  <1>3. \A p \in Ranks : p # r => want'[p] = want[p]
    BY <1>1 DEF TypeOK
  <1>4. \A p, q \in Ranks : HoldsOver(p, q) => want'[p] = want[p]
    BY <1>2, <1>3 DEF HoldsOver
  <1> QED
    BY <1>1, <1>4, SameNodes

LEMMA NodesStep ==
  TypeOK /\ TypeOK' /\ HandshakeInv /\ NodesInv /\ [Reservation!Next]_(Reservation!vars)
    => NodesInv'
  <1> SUFFICES ASSUME TypeOK, TypeOK', HandshakeInv, NodesInv,
                      [Reservation!Next]_(Reservation!vars)
               PROVE  NodesInv'
    OBVIOUS
  <1>1. ASSUME UNCHANGED <<want, left, maxNodes, Holdings, Dues>> PROVE NodesInv'
    BY <1>1, SameNodes
  <1>2. CASE UNCHANGED Reservation!vars
    BY <1>1, <1>2 DEF Reservation!vars, Holdings, Dues
  <1>3. ASSUME NEW r \in Ranks, Reservation!Return(r) PROVE NodesInv'
    BY <1>1, <1>3 DEF Reservation!Return, Holdings, Dues
  <1> QED
    BY <1>2, <1>3, AskNodes, GrantNodes, TellNodes, OwnNodes, DueNodes DEF Reservation!Next

-----------------------------------------------------------------------------
(* With careful callers all ranks end up with the same graph.              *)

LEMMA NodesInit == Init => NodesInv
  <1> SUFFICES ASSUME Init PROVE NodesInv
    OBVIOUS
  <1>1. \A p, q \in Ranks : net[p][q] = <<>> /\ lpc[q] = "probe" /\ pc[p] = "idle"
    BY DEF Init
  <1>2. \A p, q \in Ranks : ~ Carries(net[p][q], "NEW_NODE_COMMAND")
    BY <1>1 DEF Carries
  <1>3. \A p, q \in Ranks : Owes(p, q) = 0
    BY <1>1, <1>2, DueNone, DueSplit DEF Owes, HoldsOver, Forces
  <1>4. \A q \in Ranks : maxNodes[q] = InitNodes /\ left[q] = 0
    BY DEF Init
  <1>5. \A q \in Ranks : [p \in Ranks |-> Owes(p, q)] = [p \in Ranks |-> 0]
    BY <1>3
  <1> QED
    BY <1>4, <1>5 DEF NodesInv, Total

\* When nothing is under way a rank owes no node ...
LEMMA QuietNodes ==
  ASSUME TypeOK, HandshakeInv, NodesInv, Quiet
  PROVE  \A p, q \in Ranks : maxNodes[p] = maxNodes[q]
  <1>1. \A p, q \in Ranks : net[p][q] = <<>> /\ lpc[q] = "probe" /\ pc[p] = "idle"
    BY DEF Quiet
  <1>2. \A p, q \in Ranks : ~ Carries(net[p][q], "NEW_NODE_COMMAND")
    BY <1>1 DEF Carries
  <1>3. \A p, q \in Ranks : Owes(p, q) = 0
    BY <1>1, <1>2, DueNone, DueSplit DEF Owes, HoldsOver, Forces
  <1>4. \A q \in Ranks : left[q] = 0 /\ maxNodes[q] \in Int
    BY <1>1, NumbersOf DEF HandshakeInv, RankInv
  <1>5. IsFiniteSet(Ranks)
    BY ConstantsAssumption, FS_Interval DEF Ranks
  <1>6. \A q \in Ranks : SumFunction([p \in Ranks |-> Owes(p, q)]) = 0
    <2> SUFFICES ASSUME NEW q \in Ranks PROVE SumFunction([p \in Ranks |-> Owes(p, q)]) = 0
      OBVIOUS
    <2>1. [p \in Ranks |-> Owes(p, q)] = [p \in Ranks |-> 0]
      BY <1>3
    <2> QED
      BY <1>5, <2>1, SumNothing
  <1>7. \A q \in Ranks : Total(q) = maxNodes[q]
    BY <1>4, <1>6 DEF Total
  <1> QED
    BY <1>7 DEF NodesInv

\* ... and no edge is coming.
LEMMA QuietEdges ==
  ASSUME SimpleTypeOK, EdgesInv, SimpleQuiet, NEW q \in Ranks, NEW v \in EdgeNodes
  PROVE  Has(q, v) = SumFunction([p \in Ranks |-> made[p][v]])
  <1>1. \A p \in Ranks : net[p][q] = <<>> /\ edge[p] = NoEdge /\ saving[p] # "clear"
    BY DEF SimpleQuiet, Quiet, Free
  <1>2. v # NoEdge
    BY SimpleAssumption DEF NoEdge
  <1>3. \A p \in Ranks : InChannel(p, q, v) = 0
    <2> SUFFICES ASSUME NEW p \in Ranks PROVE InChannel(p, q, v) = 0
      OBVIOUS
    <2>1. {i \in DOMAIN net[p][q] : net[p][q][i] = NewEdge(v)} = {}
      BY <1>1
    <2> QED
      BY <2>1, FS_EmptySet DEF InChannel
  <1>4. \A p \in Ranks : Coming(p, q, v) = 0
    BY <1>1, <1>2, <1>3 DEF Coming, One
  <1>5. [p \in Ranks |-> Coming(p, q, v)] = [p \in Ranks |-> 0]
    BY <1>4
  <1>6. IsFiniteSet(Ranks)
    BY ConstantsAssumption, FS_Interval DEF Ranks
  <1>7. SumFunction([p \in Ranks |-> Coming(p, q, v)]) = 0
    BY <1>5, <1>6, SumNothing
  <1>8. Has(q, v) + SumFunction([p \in Ranks |-> Coming(p, q, v)])
           = SumFunction([p \in Ranks |-> made[p][v]])
    BY <1>1, EdgesFollow DEF EdgesAccounted
  <1>9. Has(q, v) \in Int
    <2>1. fresh[q][v] \in Nat /\ saved[q][v] \in Nat
      BY DEF SimpleTypeOK
    <2> QED
      BY <2>1 DEF Has
  <1> QED
    BY <1>7, <1>8, <1>9

LEMMA SameFollows ==
  SimpleInv /\ EdgesInv /\ NodesInv => ReplicasSame
  <1> SUFFICES ASSUME SimpleInv, EdgesInv, NodesInv, SimpleQuiet, NEW p \in Ranks, NEW q \in Ranks
               PROVE  SameGraph(p, q)
    BY DEF ReplicasSame
  <1>1. SimpleTypeOK /\ TypeOK /\ HandshakeInv /\ Quiet
    BY DEF SimpleInv, SimpleTypeOK, SimpleQuiet
  <1>2. maxNodes[p] = maxNodes[q]
    BY <1>1, QuietNodes
  <1>3. \A v \in EdgeNodes : Has(p, v) = Has(q, v)
    BY <1>1, QuietEdges
  <1> QED
    BY <1>2, <1>3 DEF SameGraph

LEMMA SimpleInvHolds ==
  ASSUME Careful
  PROVE  SimpleSpec => []SimpleInv
  <1>1. SimpleSpec => []SaveInv
    BY SaveInit, SaveStep, PTL DEF SimpleSpec
  <1>2. SimpleInit => NoSelf
    BY DEF SimpleInit, Init, NoSelf
  <1>3. SimpleSpec => []NoSelf
    BY <1>2, SimpleNoSelfStep, SimpleTypeCorrect, SimpleHandshake, PTL DEF SimpleSpec
  <1>4. SimpleTypeOK /\ SimpleTypeOK' /\ SaveInv /\ HandshakeInv /\ EdgesIdle /\ KnownInv
           /\ [SimpleNext]_simpleVars => KnownInv'
    BY KnownStep
  <1>5. SimpleSpec => []KnownInv
    BY <1>1, <1>4, KnownInit, SimpleTypeCorrect, SimpleHandshake, PTL DEF SimpleSpec
  <1> QED
    BY <1>1, <1>3, <1>5, SimpleTypeCorrect, SimpleHandshake, PTL DEF SimpleInv

\* With careful callers no edge and no checkpoint makes a node or takes one
\* away: the replicas of simple_dllama get their nodes by the reservations of
\* add_nodes, as those of NodeAgreement do, and in no other way.
THEOREM SimpleReservation ==
  ASSUME Careful
  PROVE  SimpleSpec => ImplementsReservation
  <1>1. SimpleInit => Reservation!Init
    BY RefinementInit DEF SimpleInit
  <1>2. SimpleSpec => []SimpleInv
    BY SimpleInvHolds
  <1> QED
    BY <1>1, <1>2, SimpleRefinementStep, PTL
       DEF SimpleSpec, ImplementsReservation, Reservation!Spec

\* When no call, message or checkpoint is under way, all ranks have the same
\* nodes and edges, for any number of ranks, calls and checkpoints, if edges
\* lead to nodes that the other ranks have when they meet the edge.
THEOREM ReplicasEqual ==
  ASSUME Careful
  PROVE  SimpleSpec => []ReplicasSame
  <1>1. SimpleSpec => []SimpleInv
    BY SimpleInvHolds
  <1>2. SimpleSpec => []EdgesInv
    <2>1. SimpleSpec => []SaveInv
      BY SaveInit, SaveStep, PTL DEF SimpleSpec
    <2> QED
      BY <2>1, SimpleTypeCorrect, SimpleHandshake, EdgesInit, EdgesStep, PTL DEF SimpleSpec
  <1>3. SimpleInit => NodesInv
    BY NodesInit DEF SimpleInit
  <1>4. SimpleInv /\ SimpleInv' /\ NodesInv /\ [SimpleNext]_simpleVars => NodesInv'
    <2> SUFFICES ASSUME SimpleInv, SimpleInv', NodesInv, [SimpleNext]_simpleVars
                 PROVE  NodesInv'
      OBVIOUS
    <2>1. [Reservation!Next]_(Reservation!vars)
      BY SimpleRefinementStep
    <2>2. TypeOK /\ TypeOK' /\ HandshakeInv
      BY DEF SimpleInv, SimpleTypeOK
    <2> QED
      BY <2>1, <2>2, NodesStep
  <1>5. SimpleSpec => []NodesInv
    BY <1>1, <1>3, <1>4, PTL DEF SimpleSpec
  <1> QED
    BY <1>1, <1>2, <1>5, SameFollows, PTL
=============================================================================
