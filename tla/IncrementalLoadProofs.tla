------------------------ MODULE IncrementalLoadProofs ------------------------
(* Proofs about IncrementalLoad for every number of threads, queues and       *)
(* edges, every graph and every chunk size.                                   *)
EXTENDS IncrementalLoad, TLAPS

Working == {"find", "allocate", "lock", "register", "append", "appendIn",
            "release", "releaseTarget"}

Types ==
    /\ next \in Nat \ {0} /\ next <= EdgeCount + 1
    /\ queue \in [Queues -> Seq(Edge)]
    /\ pc \in [Threads -> Labels] /\ turn \in [Threads -> Nat]
    /\ hand \in [Threads -> Edge \cup {None}] /\ nth \in [Threads -> {1, 2}]
    /\ slot \in [Nodes -> {"nil", "block", "node"}]
    /\ in \in [Nodes -> SUBSET Edge]

(* A thread has a request exactly while it runs one, of an edge that was read. *)
Hands(t) ==
    /\ pc[t] \in Working <=> hand[t] # None
    /\ hand[t] # None => hand[t] \in Taken
    /\ pc[t] \in {"release", "releaseTarget"} => hand[t] \in Linked

(* Only the thread that claimed a slot sets it, once, and the lists of a node *)
(* are empty until then.                                                      *)
Slots ==
    /\ \A t \in Threads : pc[t] = "allocate" => slot[Locking(t)] = "block"
    /\ \A t, u \in Threads :
          pc[t] = "allocate" /\ pc[u] = "allocate" /\ Locking(t) = Locking(u) => t = u
    /\ \A t \in Threads : pc[t] \in {"lock", "register"} => slot[Locking(t)] = "node"
    /\ \A t \in Threads : pc[t] \in Working /\ nth[t] = 2 => slot[First(hand[t])] = "node"
    /\ \A t \in Threads : pc[t] \in {"append", "appendIn"} =>
          slot[Source[hand[t]]] = "node" /\ slot[Target[hand[t]]] = "node"
    /\ \A n \in Nodes : slot[n] # "node" => in[n] = {}

(* No edge is lost: queued, in a hand or linked.                              *)
Covered ==
    /\ \A e \in Taken : Queued(e) \/ InHand(e) \/ e \in Linked
    /\ \A q \in Queues : \A i \in 1 .. Len(queue[q]) : queue[q][i] \in Taken
    /\ Linked \subseteq Taken

(* Thread 0 leaves no request behind, whatever the workers have left.         *)
Drained ==
    /\ pc[0] \notin {"load", "shutdown", "out", "over"} =>
          \A q \in Queues : q < turn[0] => queue[q] = <<>>
    /\ pc[0] \in Working \cup {"dequeue", "shutdown"} => turn[0] < Stripes
    /\ pc[0] = "barrier" => turn[0] = Stripes
    /\ pc[0] = "load" => turn[0] = 0
    /\ pc[0] # "flag"

(* The threads are outside of the parallel region together.                   *)
Outside == {"out", "over"}
Together == \A t, u \in Threads : pc[t] \in Outside => pc[u] \in Outside

Inv == /\ Types /\ Slots /\ Covered /\ Drained /\ Together
       /\ \A t \in Threads : Hands(t)

LEMMA Constants ==
    /\ 0 \in Threads
    /\ \A e \in Edge : First(e) \in Nodes /\ Second(e) \in Nodes
    /\ \A e \in Edge : {Source[e], Target[e]} = {First(e), Second(e)}
    /\ \A e \in Edge : e # None
  BY CountAssumption, GraphAssumption DEF Threads, First, Second, Edge, None

LEMMA InitInv == Init => Inv
  BY CountAssumption, Constants DEF Init, Inv, Types, Slots, Covered, Drained,
     Together, Outside, Hands, Idle, Labels, Working, Taken, Linked, Threads, None

(* What most steps leave alone, and the queue a thread looks at.              *)
LEMMA CoveredFrame ==
  ASSUME Covered, UNCHANGED <<next, queue, in, hand>>
  PROVE  Covered'
  BY DEF Covered, Taken, Linked, Queued, InHand

LEMMA HandFrame ==
  ASSUME Types, NEW u \in Threads, Hands(u),
         UNCHANGED <<next, hand, in>>, pc'[u] = pc[u]
  PROVE  Hands(u)'
  BY DEF Hands, Taken, Linked

LEMMA QueueIndex ==
  ASSUME Types, NEW t \in Threads
  PROVE  /\ QueueOf(t) \in Queues
         /\ t = 0 /\ turn[0] < Stripes => QueueOf(t) = turn[0]
  <1>1. turn[t] \in Nat /\ t \in Nat /\ Stripes \in Nat \ {0}
    BY CountAssumption DEF Types, Threads
  <1>2. t + turn[t] \in Nat
    BY <1>1
  <1>3. (t + turn[t]) % Stripes \in 0 .. Stripes - 1
    BY <1>1, <1>2
  <1>4. ASSUME t = 0, turn[0] < Stripes PROVE (t + turn[t]) % Stripes = turn[0]
    BY <1>1, <1>4
  <1> QED
    BY <1>3, <1>4 DEF QueueOf, Queues

LEMMA SlotsFrame ==
  ASSUME Types, Slots, NEW t \in Threads, UNCHANGED <<slot, in, hand, nth>>,
         \A u \in Threads \ {t} : pc'[u] = pc[u], pc'[t] \notin Working
  PROVE  Slots'
  BY DEF Slots, Types, Working, Locking, First, Second

\* A thread that begins with a request has not touched a slot yet.
LEMMA SlotsOf ==
  ASSUME Slots, NEW t \in Threads, pc'[t] = "find", nth'[t] = 1, UNCHANGED <<slot, in>>,
         \A u \in Threads \ {t} : /\ pc'[u] = pc[u] /\ nth'[u] = nth[u]
                                  /\ hand'[u] = hand[u] /\ Locking(u)' = Locking(u)
  PROVE  Slots'
  <1> USE DEF Slots
  <1>1. \A u \in Threads : u = t \/ u \in Threads \ {t}
    OBVIOUS
  <1>2. pc'[t] \notin {"allocate", "lock", "register", "append", "appendIn"} /\ nth'[t] # 2
    OBVIOUS
  <1>3. \A u \in Threads : pc'[u] = "allocate" => slot'[Locking(u)'] = "block"
    BY <1>1, <1>2
  <1>4. \A u, w \in Threads :
          pc'[u] = "allocate" /\ pc'[w] = "allocate" /\ Locking(u)' = Locking(w)' => u = w
    BY <1>1, <1>2
  <1>5. \A u \in Threads : pc'[u] \in {"lock", "register"} => slot'[Locking(u)'] = "node"
    BY <1>1, <1>2
  <1>6. \A u \in Threads : pc'[u] \in Working /\ nth'[u] = 2 => slot'[First(hand'[u])] = "node"
    BY <1>1, <1>2
  <1>7. \A u \in Threads : pc'[u] \in {"append", "appendIn"} =>
          slot'[Source[hand'[u]]] = "node" /\ slot'[Target[hand'[u]]] = "node"
    BY <1>1, <1>2
  <1> QED
    BY <1>3, <1>4, <1>5, <1>6, <1>7

\* A thread between two requests goes on to another label or queue.
LEMMA TurnTypes ==
  ASSUME Types, NEW t \in Threads, NEW label \in Labels,
         UNCHANGED <<next, queue, hand, nth, slot, in>>,
         pc' = [pc EXCEPT ![t] = label],
         turn' = turn \/ turn' = [turn EXCEPT ![t] = turn[t] + 1]
  PROVE  Types'
  <1>1. pc' \in [Threads -> Labels]
    BY DEF Types
  <1>2. turn[t] + 1 \in Nat
    BY DEF Types
  <1>3. turn' \in [Threads -> Nat]
    BY <1>2 DEF Types
  <1> QED
    BY <1>1, <1>3 DEF Types

LEMMA Appended ==
  ASSUME NEW s \in Seq(Edge), NEW e \in Edge
  PROVE  /\ Append(s, e) \in Seq(Edge) /\ Len(Append(s, e)) = Len(s) + 1
         /\ Len(s) \in Nat
         /\ \A i \in 1 .. Len(s) : Append(s, e)[i] = s[i]
         /\ Append(s, e)[Len(s) + 1] = e
  OBVIOUS

LEMMA Taking ==
  ASSUME NEW s \in Seq(Edge), s # <<>>
  PROVE  /\ Tail(s) \in Seq(Edge) /\ Len(Tail(s)) = Len(s) - 1
         /\ Len(s) \in Nat \ {0} /\ Head(s) = s[1] /\ Head(s) \in Edge
         /\ \A i \in 1 .. Len(s) - 1 : Tail(s)[i] = s[i + 1]
  OBVIOUS

LEMMA HandNodes ==
  ASSUME Types, NEW t \in Threads, Hands(t), pc[t] \in Working
  PROVE  /\ hand[t] \in Edge /\ hand[t] \in Taken
         /\ Source[hand[t]] \in Nodes /\ Target[hand[t]] \in Nodes
         /\ Locking(t) \in {Source[hand[t]], Target[hand[t]]}
  BY Constants, GraphAssumption DEF Types, Hands, Locking, None

\* A thread makes the node of the slot that it alone has claimed.
LEMMA SlotSet ==
  ASSUME Types, Slots, \A u \in Threads : Hands(u), NEW t \in Threads, pc[t] = "allocate", pc'[t] = "lock",
         Locking(t) \in Nodes, in[Locking(t)] = {}, UNCHANGED <<in, hand, nth>>,
         slot'[Locking(t)] = "node",
         \A n \in Nodes : n = Locking(t) \/ slot'[n] = slot[n],
         \A u \in Threads \ {t} : pc'[u] = pc[u]
  PROVE  Slots'
  <1>1. \A u \in Threads : Locking(u)' = Locking(u)
    BY DEF Locking, First, Second
  <1>2. \A n \in Nodes : slot[n] = "node" => slot'[n] = "node"
    OBVIOUS
  <1>3. \A u \in Threads : pc[u] \in Working =>
           /\ Locking(u) \in Nodes /\ First(hand[u]) \in Nodes
           /\ Source[hand[u]] \in Nodes /\ Target[hand[u]] \in Nodes
    BY HandNodes DEF First
  <1>4. \A u \in Threads : pc'[u] = "allocate" => u # t /\ pc[u] = "allocate" /\ Locking(u) # Locking(t)
    BY DEF Slots
  <1>5. \A u \in Threads : pc'[u] = "allocate" => slot'[Locking(u)'] = "block"
    <2> TAKE u \in Threads
    <2> HAVE pc'[u] = "allocate"
    <2>1. slot[Locking(u)] = "block" /\ Locking(u) \in Nodes /\ Locking(u) # Locking(t)
      BY <1>3, <1>4 DEF Slots, Working
    <2> QED
      BY <1>1, <2>1
  <1>6. \A u, w \in Threads :
          pc'[u] = "allocate" /\ pc'[w] = "allocate" /\ Locking(u)' = Locking(w)' => u = w
    BY <1>1, <1>4 DEF Slots
  <1>7. \A u \in Threads : pc'[u] \in {"lock", "register"} => slot'[Locking(u)'] = "node"
    <2> TAKE u \in Threads
    <2> HAVE pc'[u] \in {"lock", "register"}
    <2>1. CASE u = t
      BY <1>1, <2>1
    <2>2. CASE u # t
      <3>1. pc[u] \in {"lock", "register"}
        BY <2>2
      <3>2. slot[Locking(u)] = "node" /\ Locking(u) \in Nodes
        BY <3>1, <1>3 DEF Slots, Working
      <3> QED
        BY <3>2, <1>1, <1>2
    <2> QED
      BY <2>1, <2>2
  <1>8. \A u \in Threads : pc'[u] \in Working => pc[u] \in Working
    BY DEF Working
  <1>9. \A u \in Threads : pc'[u] \in Working /\ nth'[u] = 2 => slot'[First(hand'[u])] = "node"
    BY <1>2, <1>3, <1>8 DEF Slots
  <1>10. \A u \in Threads : pc'[u] \in {"append", "appendIn"} =>
            slot'[Source[hand'[u]]] = "node" /\ slot'[Target[hand'[u]]] = "node"
    <2> TAKE u \in Threads
    <2> HAVE pc'[u] \in {"append", "appendIn"}
    <2>1. pc[u] \in {"append", "appendIn"}
      OBVIOUS
    <2>2. /\ slot[Source[hand[u]]] = "node" /\ slot[Target[hand[u]]] = "node"
          /\ Source[hand[u]] \in Nodes /\ Target[hand[u]] \in Nodes
      BY <2>1, <1>3 DEF Slots, Working
    <2> QED
      BY <2>2, <1>2
  <1>11. \A n \in Nodes : slot'[n] # "node" => in'[n] = {}
    BY DEF Slots
  <1>12. \A u \in Threads : First(hand[u])' = First(hand[u])
    BY DEF First
  <1> QED
    BY <1>5, <1>6, <1>7, <1>9, <1>10, <1>11, <1>12 DEF Slots

LEMMA LoadEdgeInv ==
  ASSUME Inv, LoadEdge
  PROVE  Inv'
  <1> USE CountAssumption, Constants DEF Inv, LoadEdge, Goto, NextQueue, loadVars,
          queueVars, nodeVars, listVars, None
  <1> DEFINE q == StripeOf[Source[next]]
  <1>0. /\ next \in Edge /\ q \in Queues
        /\ queue' = [queue EXCEPT ![q] = Append(@, next)]
        /\ next' = next + 1
    <2>1. next \in Edge
      BY DEF Types, Edge
    <2>2. q \in Queues
      BY <2>1, GraphAssumption
    <2> QED
      BY <2>1, <2>2, Zenon
  <1>00. Taken' = Taken \cup {next} /\ Taken \cup {next} \subseteq Edge
    BY <1>0 DEF Types, Taken, Edge
  <1>1. Types'
    <2>1. queue' \in [Queues -> Seq(Edge)]
      BY <1>0, Appended DEF Types
    <2>2. next' \in Nat \ {0} /\ next' <= EdgeCount + 1
      BY <1>0 DEF Types, Edge
    <2>3. pc' \in [Threads -> Labels]
      BY ZenonT(30) DEF Types, Labels
    <2> QED
      BY <2>1, <2>2, <2>3 DEF Types
  <1>2. \A u \in Threads : Hands(u)'
    BY SMTT(30) DEF Types, Hands, Working, Taken, Linked
  <1>3. Slots'
    <2>1. /\ pc'[0] \notin Working /\ UNCHANGED <<slot, in, hand, nth>>
          /\ \A u \in Threads \ {0} : pc'[u] = pc[u]
      BY DEF Types, Working
    <2> QED
      BY <2>1, SlotsFrame
  <1>4. Covered'
    <2> HIDE DEF q
    <2> DEFINE s == queue[q]
    <2>1. /\ s \in Seq(Edge) /\ queue'[q] = Append(s, next)
          /\ \A p \in Queues \ {q} : queue'[p] = queue[p]
          /\ UNCHANGED <<hand, in>>
      BY <1>0 DEF Types
    <2>2. /\ Len(queue'[q]) = Len(s) + 1 /\ Len(s) \in Nat
          /\ \A i \in 1 .. Len(s) : queue'[q][i] = s[i]
          /\ queue'[q][Len(s) + 1] = next
      BY <2>1, <1>0, Appended
    <2>3. \A e \in Edge : Queued(e) => Queued(e)'
      BY <2>1, <2>2 DEF Queued
    <2>4. Len(s) + 1 \in 1 .. Len(queue'[q]) /\ queue'[q][Len(s) + 1] = next
      BY <2>2
    <2>5. \A e \in Taken' : Queued(e)' \/ InHand(e)' \/ e \in Linked'
      <3> SUFFICES ASSUME NEW e \in Taken'
                   PROVE  Queued(e)' \/ InHand(e)' \/ e \in Linked'
        OBVIOUS
      <3>1. CASE e = next
        BY <3>1, <2>4, <1>0 DEF Queued
      <3>2. CASE e # next
        BY <3>2, <2>1, <2>3, <1>00 DEF Covered, InHand, Linked
      <3> QED
        BY <3>1, <3>2
    <2>6. \A p \in Queues : \A i \in 1 .. Len(queue'[p]) : queue'[p][i] \in Taken'
      BY <2>1, <2>2, <1>0, <1>00 DEF Covered
    <2> QED
      BY <2>1, <2>5, <2>6, <1>00 DEF Covered, Linked
  <1>5. Drained'
    BY DEF Types, Drained, Hands, Working
  <1>6. Together'
    BY DEF Types, Together, Outside
  <1> QED
    BY <1>1, <1>2, <1>3, <1>4, <1>5, <1>6

LEMMA LoadEndsInv ==
  ASSUME Inv, LoadEnds
  PROVE  Inv'
  <1> USE CountAssumption, Constants DEF Inv, LoadEnds, Goto, NextQueue, loadVars,
          queueVars, nodeVars, listVars, None
  <1>1. Types'
    BY DEF Types, Labels
  <1>2. \A u \in Threads : Hands(u)'
    BY SMTT(30) DEF Types, Hands, Working, Taken, Linked
  <1>3. Slots'
    BY SMTT(30) DEF Types, Slots, Hands, Working, Locking, First, Second
  <1>4. Covered'
    BY CoveredFrame
  <1>5. Drained'
    BY DEF Types, Drained, Hands, Working
  <1>6. Together'
    BY DEF Types, Together, Outside
  <1> QED
    BY <1>1, <1>2, <1>3, <1>4, <1>5, <1>6

LEMMA ShutdownInv ==
  ASSUME Inv, Shutdown
  PROVE  Inv'
  <1> USE CountAssumption, Constants DEF Inv, Shutdown, Goto, NextQueue, loadVars,
          queueVars, nodeVars, listVars, None
  <1>1. Types'
    <2>1. turn' \in [Threads -> Nat] /\ pc' \in [Threads -> Labels]
      <3>1. CASE turn[0] + 1 < Stripes
        BY <3>1 DEF Types, Labels
      <3>2. CASE ~ (turn[0] + 1 < Stripes)
        <4>1. /\ turn' = [turn EXCEPT ![0] = 0]
              /\ pc' = [pc EXCEPT ![0] = "dequeue"]
          BY <3>2
        <4> QED
          BY <4>1 DEF Types, Labels
      <3> QED
        BY <3>1, <3>2
    <2> QED
      BY <2>1 DEF Types
  <1>2. \A u \in Threads : Hands(u)'
    BY SMTT(30) DEF Types, Hands, Working, Taken, Linked
  <1>3. Slots'
    BY SMTT(30) DEF Types, Slots, Hands, Working, Locking, First, Second
  <1>4. Covered'
    BY CoveredFrame
  <1>5. Drained'
    <2>1. CASE turn[0] + 1 < Stripes
      BY <2>1 DEF Types, Drained, Working
    <2>2. CASE ~ (turn[0] + 1 < Stripes)
      <3>1. pc'[0] = "dequeue" /\ turn'[0] = 0 /\ UNCHANGED queue
        BY <2>2 DEF Types
      <3> QED
        BY <3>1 DEF Drained, Working, Queues
    <2> QED
      BY <2>1, <2>2
  <1>6. Together'
    BY DEF Types, Together, Outside
  <1> QED
    BY <1>1, <1>2, <1>3, <1>4, <1>5, <1>6

LEMMA DequeueInv ==
  ASSUME Inv, NEW t \in Threads, Dequeue(t)
  PROVE  Inv'
  <1> USE CountAssumption, Constants DEF Inv, Dequeue, Goto, NextQueue, loadVars,
          queueVars, nodeVars, listVars, None
  <1> DEFINE q == QueueOf(t)
             s == queue[q]
  <1>0. /\ q \in Queues /\ s \in Seq(Edge) /\ s # <<>>
        /\ queue' = [queue EXCEPT ![q] = Tail(s)]
        /\ hand' = [hand EXCEPT ![t] = Head(s)]
    BY QueueIndex DEF Types
  <1>00. /\ Tail(s) \in Seq(Edge) /\ Len(Tail(s)) = Len(s) - 1
         /\ Len(s) \in Nat \ {0} /\ Head(s) = s[1] /\ Head(s) \in Edge
         /\ \A i \in 1 .. Len(s) - 1 : Tail(s)[i] = s[i + 1]
    BY <1>0, Taking
  <1>000. Head(s) \in Taken /\ hand[t] = None
    BY <1>0, <1>00 DEF Covered, Hands, Working
  <1> HIDE DEF q
  <1>1. Types'
    BY <1>0, <1>00 DEF Types, Labels
  <1>2. \A u \in Threads : Hands(u)'
    <2>1. Hands(t)'
      BY <1>0, <1>00, <1>000, Constants DEF Types, Hands, Working, Taken
    <2>2. \A u \in Threads \ {t} : Hands(u)'
      BY <1>0 DEF Types, Hands, Working, Taken, Linked
    <2> QED
      BY <2>1, <2>2
  <1>3. Slots'
    <2>1. /\ pc'[t] = "find" /\ nth'[t] = 1 /\ UNCHANGED <<slot, in>>
          /\ \A u \in Threads \ {t} : /\ pc'[u] = pc[u] /\ nth'[u] = nth[u]
                                      /\ hand'[u] = hand[u] /\ Locking(u)' = Locking(u)
      BY <1>0 DEF Types, Locking, First, Second
    <2> QED
      BY <2>1, SlotsOf
  <1>4. Covered'
    <2>1. \A p \in Queues \ {q} : queue'[p] = queue[p]
      BY <1>0 DEF Types
    <2>2. queue'[q] = Tail(s)
      BY <1>0 DEF Types
    <2>3. \A e \in Edge : Queued(e) => Queued(e)' \/ e = Head(s)
      <3> SUFFICES ASSUME NEW e \in Edge, NEW p \in Queues,
                          NEW i \in 1 .. Len(queue[p]), queue[p][i] = e, e # Head(s)
                   PROVE  Queued(e)'
        BY SMTT(30) DEF Queued
      <3>1. CASE p # q
        BY <3>1, <2>1 DEF Queued
      <3>2. CASE p = q
        <4>1. i # 1 /\ i - 1 \in 1 .. Len(s) - 1
          BY <3>2, <1>00
        <4>2. Tail(s)[i - 1] = e
          BY <4>1, <3>2, <1>00
        <4>3. i - 1 \in 1 .. Len(queue'[q]) /\ queue'[q][i - 1] = e /\ q \in Queues
          BY <4>1, <4>2, <2>2, <1>0, <1>00
        <4> QED
          BY <4>3 DEF Queued
      <3> QED
        BY <3>1, <3>2
    <2>4. hand'[t] = Head(s) /\ \A u \in Threads \ {t} : hand'[u] = hand[u]
      BY <1>0 DEF Types
    <2>5. \A e \in Taken' : Queued(e)' \/ InHand(e)' \/ e \in Linked'
      <3> SUFFICES ASSUME NEW e \in Taken'
                   PROVE  Queued(e)' \/ InHand(e)' \/ e \in Linked'
        OBVIOUS
      <3>1. e \in Edge /\ e \in Taken /\ Linked' = Linked
        BY DEF Types, Taken, Edge, Linked
      <3>2. InHand(e) => InHand(e)'
        BY <2>4, <1>000, <3>1, Constants DEF InHand
      <3>3. e = Head(s) => InHand(e)'
        BY <2>4 DEF InHand
      <3> QED
        BY <3>1, <3>2, <3>3, <2>3 DEF Covered
    <2>6. \A p \in Queues : \A i \in 1 .. Len(queue'[p]) : queue'[p][i] \in Taken'
      BY <2>1, <2>2, <1>0, <1>00 DEF Covered, Taken
    <2> QED
      BY <2>5, <2>6 DEF Covered, Linked, Taken
  <1>5. Drained'
    BY DEF Types, Drained, Hands, Working
  <1>6. Together'
    BY DEF Types, Together, Outside
  <1> QED
    BY <1>1, <1>2, <1>3, <1>4, <1>5, <1>6

LEMMA FindsEmptyInv ==
  ASSUME Inv, NEW t \in Threads, FindsEmpty(t)
  PROVE  Inv'
  <1> USE CountAssumption, Constants DEF Inv, FindsEmpty, Goto, NextQueue, loadVars,
          queueVars, nodeVars, listVars, None
  <1>1. Types'
    <2>1. CASE t = 0
      <3>1. /\ turn' = [turn EXCEPT ![t] = turn[t] + 1]
            /\ \E l \in {"dequeue", "barrier"} : pc' = [pc EXCEPT ![t] = l]
        BY <2>1
      <3> QED
        BY <3>1, TurnTypes DEF Labels
    <2>2. CASE t # 0
      <3>1. pc' = [pc EXCEPT ![t] = "flag"] /\ turn' = turn
        BY <2>2
      <3> QED
        BY <3>1, TurnTypes DEF Labels
    <2> QED
      BY <2>1, <2>2
  <1>2. \A u \in Threads : Hands(u)'
    BY SMTT(30) DEF Types, Hands, Working, Taken, Linked
  <1>3. Slots'
    <2>1. /\ pc'[t] \notin Working /\ UNCHANGED <<slot, in, hand, nth>>
          /\ \A u \in Threads \ {t} : pc'[u] = pc[u]
      BY DEF Types, Working
    <2> QED
      BY <2>1, SlotsFrame
  <1>4. Covered'
    BY CoveredFrame
  <1>5. Drained'
    <2>1. CASE t = 0
      <3>1. QueueOf(0) = turn[0] /\ queue[turn[0]] = <<>> /\ turn[0] < Stripes
        BY <2>1, QueueIndex DEF Drained
      <3>2. turn'[0] = turn[0] + 1 /\ turn[0] \in Nat /\ UNCHANGED queue
        BY <2>1 DEF Types
      <3>3. pc'[0] = IF turn[0] + 1 < Stripes THEN "dequeue" ELSE "barrier"
        BY <2>1 DEF Types
      <3>4. \A p \in Queues : p < turn[0] + 1 => queue[p] = <<>>
        BY <2>1, <3>1, <3>2 DEF Drained, Queues
      <3> QED
        BY <3>1, <3>2, <3>3, <3>4 DEF Drained, Working
    <2>2. CASE t # 0
      BY <2>2 DEF Types, Drained, Working
    <2> QED
      BY <2>1, <2>2
  <1>6. Together'
    BY DEF Types, Together, Outside
  <1> QED
    BY <1>1, <1>2, <1>3, <1>4, <1>5, <1>6

LEMMA TestsFlagInv ==
  ASSUME Inv, NEW t \in Threads, TestsFlag(t)
  PROVE  Inv'
  <1> USE CountAssumption, Constants DEF Inv, TestsFlag, Goto, NextQueue, loadVars,
          queueVars, nodeVars, listVars, None
  <1>1. Types'
    <2>1. turn' \in [Threads -> Nat] /\ pc' \in [Threads -> Labels]
      <3>1. CASE shutdown[QueueOf(t)]
        <4>1. /\ turn' = [turn EXCEPT ![t] = @ + 1]
              /\ pc' = [pc EXCEPT ![t] = IF turn[t] + 1 < Stripes
                                         THEN "dequeue" ELSE "barrier"]
          BY <3>1
        <4> QED
          BY <4>1 DEF Types, Labels
      <3>2. CASE ~ shutdown[QueueOf(t)]
        BY <3>2 DEF Types, Labels
      <3> QED
        BY <3>1, <3>2
    <2> QED
      BY <2>1 DEF Types
  <1>2. \A u \in Threads : Hands(u)'
    BY SMTT(30) DEF Types, Hands, Working, Taken, Linked
  <1>3. Slots'
    <2>1. /\ pc'[t] \notin Working /\ UNCHANGED <<slot, in, hand, nth>>
          /\ \A u \in Threads \ {t} : pc'[u] = pc[u]
      BY DEF Types, Working
    <2> QED
      BY <2>1, SlotsFrame
  <1>4. Covered'
    BY CoveredFrame
  <1>5. Drained'
    BY DEF Types, Drained, Hands, Working
  <1>6. Together'
    BY DEF Types, Together, Outside
  <1> QED
    BY <1>1, <1>2, <1>3, <1>4, <1>5, <1>6

LEMMA ClaimSlotInv ==
  ASSUME Inv, NEW t \in Threads, ClaimSlot(t)
  PROVE  Inv'
  <1> USE CountAssumption, Constants DEF Inv, ClaimSlot, Goto, NextQueue, loadVars,
          queueVars, nodeVars, listVars, None
  <1>1. Types'
    BY DEF Types, Labels
  <1>2. \A u \in Threads : Hands(u)'
    BY SMTT(30) DEF Types, Hands, Working, Taken, Linked
  <1>3. Slots'
    BY SMTT(30) DEF Types, Slots, Hands, Working, Locking, First, Second
  <1>4. Covered'
    BY CoveredFrame
  <1>5. Drained'
    BY DEF Types, Drained, Hands, Working
  <1>6. Together'
    BY DEF Types, Together, Outside
  <1> QED
    BY <1>1, <1>2, <1>3, <1>4, <1>5, <1>6

LEMMA SetSlotInv ==
  ASSUME Inv, NEW t \in Threads, SetSlot(t)
  PROVE  Inv'
  <1> USE CountAssumption, Constants DEF Inv, SetSlot, Goto, NextQueue, loadVars,
          queueVars, nodeVars, listVars, None
  <1>00. /\ Locking(t) \in Nodes /\ slot[Locking(t)] = "block"
         /\ in[Locking(t)] = {}
    <2>1. Locking(t) \in Nodes
      BY HandNodes DEF Working
    <2> QED
      BY <2>1 DEF Slots
  <1>0. Locking(t) \in Nodes /\ slot[Locking(t)] = "block" /\ in' = in
    BY <1>00 DEF Types
  <1>1. Types'
    BY DEF Types, Labels
  <1>2. \A u \in Threads : Hands(u)'
    BY <1>0 DEF Types, Hands, Working, Taken, Linked
  <1>3. Slots'
    <2>1. pc[t] = "allocate" /\ in' = in /\ in[Locking(t)] = {} /\ UNCHANGED <<hand, nth>>
      BY <1>00, <1>0
    <2>2. pc'[t] = "lock" /\ \A u \in Threads \ {t} : pc'[u] = pc[u]
      BY DEF Types
    <2>0. Types /\ Slots /\ \A u \in Threads : Hands(u)
      OBVIOUS
    <2> DEFINE m == Locking(t)
    <2>3. m \in Nodes /\ slot' = [slot EXCEPT ![m] = "node"] /\ DOMAIN slot = Nodes
      BY <1>0 DEF Types
    <2> HIDE DEF m, Inv, SetSlot
    <2>4. slot'[m] = "node" /\ \A n \in Nodes : n = m \/ slot'[n] = slot[n]
      BY <2>3
    <2> QED
      BY <1>0, <2>0, <2>1, <2>2, <2>4, SlotSet DEF m
  <1>4. Covered'
    BY <1>0, CoveredFrame
  <1>5. Drained'
    BY DEF Types, Drained, Hands, Working
  <1>6. Together'
    BY DEF Types, Together, Outside
  <1> QED
    BY <1>1, <1>2, <1>3, <1>4, <1>5, <1>6

LEMMA FindsNodeInv ==
  ASSUME Inv, NEW t \in Threads, FindsNode(t)
  PROVE  Inv'
  <1> USE CountAssumption, Constants DEF Inv, FindsNode, Goto, NextQueue, loadVars,
          queueVars, nodeVars, listVars, None
  <1>1. Types'
    BY DEF Types, Labels
  <1>2. \A u \in Threads : Hands(u)'
    BY SMTT(30) DEF Types, Hands, Working, Taken, Linked
  <1>3. Slots'
    BY SMTT(30) DEF Types, Slots, Hands, Working, Locking, First, Second
  <1>4. Covered'
    BY CoveredFrame
  <1>5. Drained'
    BY DEF Types, Drained, Hands, Working
  <1>6. Together'
    BY DEF Types, Together, Outside
  <1> QED
    BY <1>1, <1>2, <1>3, <1>4, <1>5, <1>6

LEMMA LockNodeInv ==
  ASSUME Inv, NEW t \in Threads, LockNode(t)
  PROVE  Inv'
  <1> USE CountAssumption, Constants DEF Inv, LockNode, Goto, NextQueue, loadVars,
          queueVars, nodeVars, listVars, None
  <1>1. Types'
    BY DEF Types, Labels
  <1>2. \A u \in Threads : Hands(u)'
    BY SMTT(30) DEF Types, Hands, Working, Taken, Linked
  <1>3. Slots'
    BY SMTT(30) DEF Types, Slots, Hands, Working, Locking, First, Second
  <1>4. Covered'
    BY CoveredFrame
  <1>5. Drained'
    BY DEF Types, Drained, Hands, Working
  <1>6. Together'
    BY DEF Types, Together, Outside
  <1> QED
    BY <1>1, <1>2, <1>3, <1>4, <1>5, <1>6

LEMMA RegisterNodeInv ==
  ASSUME Inv, NEW t \in Threads, RegisterNode(t)
  PROVE  Inv'
  <1> USE CountAssumption, Constants DEF Inv, RegisterNode, Goto, NextQueue, loadVars,
          queueVars, nodeVars, listVars, None
  <1>1. Types'
    BY DEF Types, Labels
  <1>2. \A u \in Threads : Hands(u)'
    BY SMTT(30) DEF Types, Hands, Working, Taken, Linked
  <1>3. Slots'
    <2>0. /\ UNCHANGED <<slot, in, hand>> /\ slot[Locking(t)] = "node"
          /\ \A u \in Threads \ {t} : pc'[u] = pc[u] /\ nth'[u] = nth[u]
      BY DEF Types, Slots
    <2>1. CASE nth[t] = 1 /\ Source[hand[t]] # Target[hand[t]]
      <3>1. pc'[t] = "find" /\ slot[First(hand[t])] = "node"
        BY <2>0, <2>1 DEF Types, Locking
      <3>2. /\ \A u \in Threads : First(hand[u])' = First(hand[u])
            /\ \A u \in Threads \ {t} : Locking(u)' = Locking(u)
        BY <2>0 DEF First, Second, Locking
      <3>3. \A u \in Threads : pc'[u] = "allocate" =>
               u # t /\ pc[u] = "allocate" /\ Locking(u)' = Locking(u)
        BY <2>0, <3>1, <3>2
      <3>4. \A u \in Threads : pc'[u] \in {"lock", "register", "append", "appendIn"} =>
               u # t /\ pc[u] = pc'[u] /\ Locking(u)' = Locking(u)
        BY <2>0, <3>1, <3>2
      <3>5. \A u \in Threads : pc'[u] \in Working /\ nth'[u] = 2 =>
               slot'[First(hand'[u])] = "node"
        BY <2>0, <3>1 DEF Slots
      <3> QED
        BY <2>0, <3>3, <3>4, <3>5 DEF Slots
    <2>2. CASE ~ (nth[t] = 1 /\ Source[hand[t]] # Target[hand[t]])
      <3>1. pc'[t] = "append" /\ nth' = nth
        BY <2>2 DEF Types
      <3>2. slot[First(hand[t])] = "node" /\ slot[Second(hand[t])] = "node"
        BY <2>0, <2>2 DEF Slots, Types, Working, Locking, First, Second
      <3>3. slot[Source[hand[t]]] = "node" /\ slot[Target[hand[t]]] = "node"
        BY <3>2 DEF First, Second
      <3> QED
        BY <2>0, <3>1, <3>3 DEF Slots, Working, Locking, First, Second
    <2> QED
      BY <2>1, <2>2
  <1>4. Covered'
    BY CoveredFrame
  <1>5. Drained'
    BY DEF Types, Drained, Hands, Working
  <1>6. Together'
    <2>1. /\ pc[t] \notin Outside /\ pc'[t] \notin Outside
          /\ \A u \in Threads \ {t} : pc'[u] = pc[u]
      BY DEF Types, Outside
    <2>2. \A u \in Threads : pc[u] \notin Outside
      BY <2>1 DEF Together
    <2>3. \A u \in Threads : pc'[u] \notin Outside
      BY <2>1, <2>2
    <2> QED
      BY <2>3 DEF Together
  <1> QED
    BY <1>1, <1>2, <1>3, <1>4, <1>5, <1>6

LEMMA AppendOutInv ==
  ASSUME Inv, NEW t \in Threads, AppendOut(t)
  PROVE  Inv'
  <1> USE CountAssumption, Constants DEF Inv, AppendOut, Goto, NextQueue, loadVars,
          queueVars, nodeVars, listVars, None
  <1>1. Types'
    BY DEF Types, Labels
  <1>2. \A u \in Threads : Hands(u)'
    BY SMTT(30) DEF Types, Hands, Working, Taken, Linked
  <1>3. Slots'
    BY SMTT(30) DEF Types, Slots, Hands, Working, Locking, First, Second
  <1>4. Covered'
    BY CoveredFrame
  <1>5. Drained'
    BY DEF Types, Drained, Hands, Working
  <1>6. Together'
    BY DEF Types, Together, Outside
  <1> QED
    BY <1>1, <1>2, <1>3, <1>4, <1>5, <1>6

LEMMA AppendInInv ==
  ASSUME Inv, NEW t \in Threads, AppendIn(t)
  PROVE  Inv'
  <1> USE CountAssumption, Constants DEF Inv, AppendIn, Goto, NextQueue, loadVars,
          queueVars, nodeVars, listVars, None
  <1> DEFINE e == hand[t]
             n == Target[e]
  <1>0. e \in Edge /\ e \in Taken /\ n \in Nodes
    BY HandNodes DEF Working
  <1>00. in' = [in EXCEPT ![n] = @ \cup {e}] /\ Linked' = Linked \cup {e}
    BY <1>0 DEF Types, Linked
  <1>1. Types'
    BY <1>0, <1>00 DEF Types, Labels
  <1>2. \A u \in Threads : Hands(u)'
    BY <1>0, <1>00 DEF Types, Hands, Working, Taken
  <1>3. Slots'
    BY SMTT(30) DEF Types, Slots, Hands, Working, Locking, First, Second
  <1>4. Covered'
    BY <1>0, <1>00 DEF Types, Covered, Taken, Queued, InHand
  <1>5. Drained'
    BY DEF Types, Drained, Hands, Working
  <1>6. Together'
    BY DEF Types, Together, Outside
  <1> QED
    BY <1>1, <1>2, <1>3, <1>4, <1>5, <1>6

LEMMA ReleaseSourceInv ==
  ASSUME Inv, NEW t \in Threads, ReleaseSource(t)
  PROVE  Inv'
  <1> USE CountAssumption, Constants DEF Inv, ReleaseSource, Goto, NextQueue, loadVars,
          queueVars, nodeVars, listVars, None
  <1>1. Types'
    BY DEF Types, Labels
  <1>2. \A u \in Threads : Hands(u)'
    BY SMTT(30) DEF Types, Hands, Working, Taken, Linked
  <1>3. Slots'
    BY SMTT(30) DEF Types, Slots, Hands, Working, Locking, First, Second
  <1>4. Covered'
    BY CoveredFrame
  <1>5. Drained'
    BY DEF Types, Drained, Hands, Working
  <1>6. Together'
    BY DEF Types, Together, Outside
  <1> QED
    BY <1>1, <1>2, <1>3, <1>4, <1>5, <1>6

LEMMA ReleaseTargetInv ==
  ASSUME Inv, NEW t \in Threads, ReleaseTarget(t)
  PROVE  Inv'
  <1> USE CountAssumption, Constants DEF Inv, ReleaseTarget, Goto, NextQueue, loadVars,
          queueVars, nodeVars, listVars, None
  <1>1. Types'
    BY DEF Types, Labels
  <1>2. \A u \in Threads : Hands(u)'
    BY SMTT(30) DEF Types, Hands, Working, Taken, Linked
  <1>3. Slots'
    BY SMTT(30) DEF Types, Slots, Hands, Working, Locking, First, Second
  <1>4. Covered'
    <2>1. hand[t] \in Linked /\ UNCHANGED <<next, queue, in>>
      BY Constants, HandNodes DEF Hands, Working
    <2>2. \A e \in Edge : InHand(e) => InHand(e)' \/ e \in Linked
      BY <2>1 DEF Types, InHand
    <2>3. Taken' = Taken /\ Linked' = Linked /\ Taken \subseteq Edge
      BY <2>1 DEF Types, Taken, Linked, Edge
    <2>4. \A e \in Edge : Queued(e)' <=> Queued(e)
      BY <2>1 DEF Queued
    <2> QED
      BY <2>1, <2>2, <2>3, <2>4 DEF Covered
  <1>5. Drained'
    BY DEF Types, Drained, Hands, Working
  <1>6. Together'
    BY DEF Types, Together, Outside
  <1> QED
    BY <1>1, <1>2, <1>3, <1>4, <1>5, <1>6

LEMMA ReturnInv ==
  ASSUME Inv, Return
  PROVE  Inv'
  <1> USE CountAssumption, Constants DEF Inv, Return, Goto, NextQueue, loadVars,
          queueVars, nodeVars, listVars, None
  <1>0. \A q \in Queues : queue[q] = <<>>
    BY DEF AtBarrier, Drained, Queues, Working
  <1>00. \A u \in Threads : hand[u] = None /\ pc[u] = "barrier"
                          /\ pc'[u] \in {"out", "over"}
    BY DEF AtBarrier, Hands, Working
  <1>000. UNCHANGED <<next, queue, in, hand, nth, slot>>
    BY <1>0 DEF Types
  <1>1. Types'
    BY DEF Types, Labels
  <1>2. \A u \in Threads : Hands(u)'
    BY <1>00, <1>000 DEF Hands, Working
  <1>3. Slots'
    BY <1>00, <1>000 DEF Slots, Working, Locking, First, Second
  <1>4. Covered'
    BY <1>000, CoveredFrame
  <1>5. Drained'
    BY <1>00, <1>000 DEF Drained, Working
  <1>6. Together'
    BY DEF Types, Together, Outside
  <1> QED
    BY <1>1, <1>2, <1>3, <1>4, <1>5, <1>6

LEMMA CallAgainInv ==
  ASSUME Inv, CallAgain
  PROVE  Inv'
  <1> USE CountAssumption, Constants DEF Inv, CallAgain, Goto, NextQueue, loadVars,
          queueVars, nodeVars, listVars, None
  <1>0. \A u \in Threads : /\ pc[u] = "out" /\ hand[u] = None
                          /\ pc'[u] \in {"load", "dequeue"}
                          /\ turn'[u] = 0
    BY DEF Hands, Working, Idle
  <1>1. Types'
    BY DEF Types, Labels, Idle
  <1>2. \A u \in Threads : Hands(u)'
    BY <1>0 DEF Hands, Working, Taken, Linked
  <1>3. Slots'
    BY <1>0 DEF Slots, Working, Locking, First, Second
  <1>4. Covered'
    BY CoveredFrame
  <1>5. Drained'
    BY <1>0 DEF Drained, Working, Queues
  <1>6. Together'
    BY <1>0 DEF Together, Outside
  <1> QED
    BY <1>1, <1>2, <1>3, <1>4, <1>5, <1>6

----------------------------------------------------------------------------
LEMMA StutterInv ==
  ASSUME Inv, UNCHANGED vars
  PROVE  Inv'
  <1> USE DEF vars, loadVars, queueVars, nodeVars, listVars, Inv
  <1>1. Types' /\ Together' /\ \A t \in Threads : Hands(t)'
    BY DEF Types, Together, Hands, Taken, Linked
  <1>2. Slots'
    BY DEF Slots, Locking, First, Second
  <1>3. Covered'
    BY CoveredFrame
  <1>4. Drained'
    BY DEF Drained
  <1> QED
    BY <1>1, <1>2, <1>3, <1>4

LEMMA InvStep == Inv /\ [Next]_vars => Inv'
  <1> SUFFICES ASSUME Inv, [Next]_vars PROVE Inv'
    OBVIOUS
  <1>1. CASE Return
    BY <1>1, ReturnInv
  <1>2. CASE CallAgain
    BY <1>2, CallAgainInv
  <1>3. ASSUME NEW t \in Threads, Step(t) PROVE Inv'
    <2>1. CASE Dequeue(t) \/ FindsEmpty(t) \/ TestsFlag(t)
      BY <2>1, DequeueInv, FindsEmptyInv, TestsFlagInv
    <2>2. CASE LoadEdge \/ LoadEnds \/ Shutdown
      BY <2>2, LoadEdgeInv, LoadEndsInv, ShutdownInv
    <2>3. CASE ClaimSlot(t) \/ SetSlot(t) \/ FindsNode(t)
      BY <2>3, ClaimSlotInv, SetSlotInv, FindsNodeInv
    <2>4. CASE LockNode(t) \/ RegisterNode(t)
      BY <2>4, LockNodeInv, RegisterNodeInv
    <2>5. CASE AppendOut(t) \/ AppendIn(t)
      BY <2>5, AppendOutInv, AppendInInv
    <2>6. CASE ReleaseSource(t) \/ ReleaseTarget(t)
      BY <2>6, ReleaseSourceInv, ReleaseTargetInv
    <2> QED
      BY <1>3, <2>1, <2>2, <2>3, <2>4, <2>5, <2>6 DEF Step, AddEdge
  <1>4. CASE UNCHANGED vars
    BY <1>4, StutterInv
  <1> QED
    BY <1>1, <1>2, <1>3, <1>4 DEF Next

LEMMA InvAlways == Spec => []Inv
  BY InitInv, InvStep, PTL DEF Spec

(* Every edge that was read waits in its queue, is in a hand or is in the     *)
(* graph: no request is lost, with any number of threads and queues.          *)
THEOREM RequestsCovered == Spec => [](\A e \in Taken : Queued(e) \/ InHand(e) \/ e \in Linked)
  <1>1. Inv => \A e \in Taken : Queued(e) \/ InHand(e) \/ e \in Linked
    BY DEF Inv, Covered
  <1> QED
    BY <1>1, InvAlways, PTL

(* A step of a thread of the region does not change whether a call is under   *)
(* way.                                                                       *)
LEMMA StepInside ==
  ASSUME Inv, NEW t \in Threads, Step(t)
  PROVE  pc[t] \notin Outside /\ pc'[t] \notin Outside
  <1> USE DEF Inv, Types, Outside, Goto, NextQueue
  <1>1. CASE Dequeue(t) \/ FindsEmpty(t) \/ TestsFlag(t)
    BY <1>1 DEF Dequeue, FindsEmpty, TestsFlag
  <1>2. CASE t = 0 /\ (LoadEdge \/ LoadEnds \/ Shutdown)
    BY <1>2 DEF LoadEdge, LoadEnds, Shutdown
  <1>3. CASE AddEdge(t)
    BY <1>3 DEF AddEdge, ClaimSlot, SetSlot, FindsNode, LockNode, RegisterNode,
       AppendOut, AppendIn, ReleaseSource, ReleaseTarget
  <1> QED
    BY <1>1, <1>2, <1>3 DEF Step

LEMMA StepRefines == Inv /\ [Next]_vars => [WL!Next]_(WL!vars)
  <1> SUFFICES ASSUME Inv, [Next]_vars PROVE [WL!Next]_(WL!vars)
    OBVIOUS
  <1> DEFINE Loading == ~ (\A t \in Threads : pc[t] \in {"out", "over"})
  <1>1. CASE Return
    <2>1. Linked = Taken
      <3>1. \A q \in Queues : queue[q] = <<>>
        BY <1>1, CountAssumption, Constants
           DEF Return, AtBarrier, Inv, Drained, Queues, Working
      <3>2. \A u \in Threads : hand[u] = None
        BY <1>1 DEF Return, AtBarrier, Inv, Hands, Working
      <3>3. \A e \in Taken : ~ Queued(e) /\ ~ InHand(e)
        <4>1. Taken \subseteq Edge
          BY CountAssumption DEF Inv, Types, Taken, Edge
        <4>2. \A e \in Taken : ~ InHand(e)
          BY <4>1, <3>2, Constants DEF InHand
        <4>3. \A e : ~ Queued(e)
          BY <3>1 DEF Queued
        <4> QED
          BY <4>2, <4>3
      <3> QED
        BY <3>3 DEF Inv, Covered
    <2>2. Loading /\ ~ Loading'
      BY <1>1, Constants DEF Return, AtBarrier
    <2>3. Linked' = Linked /\ Taken' = Taken
      BY <1>1 DEF Return, loadVars, listVars, Linked, Taken
    <2> QED
      BY <2>1, <2>2, <2>3 DEF WL!Next, WL!Return
  <1>2. CASE CallAgain
    <2>1. ~ Loading /\ Loading'
      BY <1>2, Constants DEF CallAgain, Idle
    <2>2. Linked' = Linked /\ Taken' = Taken
      BY <1>2 DEF CallAgain, listVars, Linked, Taken
    <2> QED
      BY <2>1, <2>2 DEF WL!Next, WL!Call
  <1>3. ASSUME NEW t \in Threads, Step(t) PROVE [WL!Next]_(WL!vars)
    <2>1. Loading /\ Loading'
      BY <1>3, StepInside DEF Outside
    <2>2. CASE LoadEdge
      <3>1. next \in Edge /\ next \notin Taken /\ Taken' = Taken \cup {next}
        BY <2>2 DEF LoadEdge, Inv, Types, Taken, Edge
      <3>2. Linked' = Linked
        BY <2>2 DEF LoadEdge, listVars, Linked
      <3>3. WL!Take(next)
        BY <3>1, <3>2, <2>1 DEF WL!Take
      <3> QED
        BY <3>1, <3>3 DEF WL!Next
    <2>3. CASE AppendIn(t)
      <3>1. hand[t] \in Edge /\ hand[t] \in Taken /\ Target[hand[t]] \in Nodes
        BY <2>3, HandNodes DEF Inv, AppendIn, Working
      <3>2. Linked' = Linked \cup {hand[t]} /\ Taken' = Taken
        BY <2>3, <3>1 DEF AppendIn, Inv, Types, Linked, loadVars, Taken
      <3>3. CASE hand[t] \in Linked
        BY <3>3, <3>2, <2>1 DEF WL!vars
      <3>4. CASE hand[t] \notin Linked
        <4>1. WL!Apply(hand[t])
          BY <3>4, <3>1, <3>2, <2>1 DEF WL!Apply
        <4> QED
          BY <3>1, <4>1 DEF WL!Next
      <3> QED
        BY <3>3, <3>4
    <2>4. CASE UNCHANGED <<next, in>>
      <3>1. Linked' = Linked /\ Taken' = Taken
        BY <2>4 DEF Linked, Taken
      <3> QED
        BY <3>1, <2>1 DEF WL!vars
    <2>5. CASE SetSlot(t)
      <3>1. Locking(t) \in Nodes /\ slot[Locking(t)] = "block"
        BY <2>5, HandNodes DEF SetSlot, Inv, Working, Slots
      <3>2. in' = in /\ next' = next
        BY <2>5, <3>1 DEF SetSlot, loadVars, Inv, Types, Slots
      <3> QED
        BY <3>2, <2>4
    <2> QED
      BY <1>3, <2>2, <2>3, <2>4, <2>5 DEF Step, AddEdge, Dequeue, FindsEmpty,
         TestsFlag, LoadEnds, Shutdown, ClaimSlot, FindsNode, LockNode,
         RegisterNode, AppendOut, ReleaseSource, ReleaseTarget, loadVars, listVars
  <1>4. CASE UNCHANGED vars
    BY <1>4 DEF vars, loadVars, listVars, WL!vars, Taken, Linked
  <1> QED
    BY <1>1, <1>2, <1>3, <1>4 DEF Next

(* Loading with any number of threads and request queues implements the work  *)
(* list: load_incremental() returns only when each edge it read is in the     *)
(* graph.                                                                     *)
THEOREM ImplementsWL == Spec => ImplementsWorkList
  <1>1. Init => WL!Init
    BY Constants DEF Init, Idle, WL!Init, Taken, Linked
  <1> QED
    BY <1>1, InvAlways, StepRefines, PTL DEF Spec, ImplementsWorkList, WL!Spec

----------------------------------------------------------------------------
(* A request is in one place: one queue entry, or one hand.                   *)
OnceInv ==
    /\ \A q, p \in Queues : \A i \in 1 .. Len(queue[q]) : \A j \in 1 .. Len(queue[p]) :
          queue[q][i] = queue[p][j] => q = p /\ i = j
    /\ \A q \in Queues : \A i \in 1 .. Len(queue[q]) :
          queue[q][i] \notin Linked /\ \A t \in Threads : hand[t] # queue[q][i]
    /\ \A t, u \in Threads : t # u /\ hand[t] # None => hand[t] # hand[u]


(* The steps that move no request.                                            *)
LEMMA OnceFrame ==
  ASSUME OnceInv, UNCHANGED <<queue, hand, in>>
  PROVE  OnceInv'
  BY DEF OnceInv, Linked

(* A thread that does not append leaves what is linked alone: the lists       *)
(* SetSlot empties are empty.                                                 *)
LEMMA SetSlotLists ==
  ASSUME Inv, NEW t \in Threads, SetSlot(t)
  PROVE  Locking(t) \in Nodes /\ slot[Locking(t)] = "block" /\ in' = in
  <1>1. Locking(t) \in Nodes /\ slot[Locking(t)] = "block"
    BY HandNodes DEF SetSlot, Inv, Working, Slots
  <1> QED
    BY <1>1 DEF SetSlot, Inv, Types, Slots

LEMMA LoadEdgeOnce ==
  ASSUME Inv, OnceInv, LoadEdge
  PROVE  OnceInv'
  <1> DEFINE q == StripeOf[Source[next]]
             s == queue[q]
  <1>1. next \in Edge /\ q \in Queues /\ next \notin Taken
    <2>1. next \in Nat /\ next # 0 /\ next <= EdgeCount /\ EdgeCount \in Nat
      BY CountAssumption DEF LoadEdge, Inv, Types
    <2>2. next \in Edge /\ next \notin Taken
      BY <2>1 DEF Edge, Taken
    <2> QED
      BY <2>2, GraphAssumption
  <1>2. queue' = [queue EXCEPT ![q] = Append(@, next)] /\ UNCHANGED <<hand, in>>
    BY DEF LoadEdge, listVars
  <1> HIDE DEF q
  <1>3. s \in Seq(Edge) /\ queue'[q] = Append(s, next)
        /\ \A p \in Queues : p # q => queue'[p] = queue[p]
    BY <1>1, <1>2 DEF Inv, Types
  <1>4. /\ Len(queue'[q]) = Len(s) + 1 /\ Len(s) \in Nat
        /\ \A i \in 1 .. Len(s) : queue'[q][i] = s[i]
        /\ queue'[q][Len(s) + 1] = next
    BY <1>1, <1>3, Appended
  <1>5. /\ \A p \in Queues : \A i \in 1 .. Len(queue[p]) : queue[p][i] # next
        /\ next \notin Linked /\ \A t \in Threads : hand[t] # next
    BY <1>1, Constants DEF Inv, Covered, Hands
  <1>6. \A p \in Queues : \A i \in 1 .. Len(queue'[p]) :
            \/ i \in 1 .. Len(queue[p]) /\ queue'[p][i] = queue[p][i]
            \/ p = q /\ i = Len(s) + 1 /\ queue'[p][i] = next
    BY <1>3, <1>4
  <1> HIDE DEF s
  <1>7. \A p, r \in Queues : \A i \in 1 .. Len(queue'[p]) : \A j \in 1 .. Len(queue'[r]) :
            queue'[p][i] = queue'[r][j] => p = r /\ i = j
    <2> SUFFICES ASSUME NEW p \in Queues, NEW r \in Queues, NEW i \in 1 .. Len(queue'[p]),
                        NEW j \in 1 .. Len(queue'[r]), queue'[p][i] = queue'[r][j]
                 PROVE  p = r /\ i = j
      OBVIOUS
    <2> DEFINE Old(x, k) == k \in 1 .. Len(queue[x]) /\ queue'[x][k] = queue[x][k]
               New(x, k) == x = q /\ k = Len(s) + 1 /\ queue'[x][k] = next
    <2>1. (Old(p, i) \/ New(p, i)) /\ (Old(r, j) \/ New(r, j))
      BY <1>6
    <2>2. CASE Old(p, i) /\ Old(r, j)
      <3>1. queue[p][i] = queue[r][j] /\ i \in 1 .. Len(queue[p]) /\ j \in 1 .. Len(queue[r])
        BY <2>2
      <3>2. \A x, y \in Queues : \A k \in 1 .. Len(queue[x]) : \A l \in 1 .. Len(queue[y]) :
               queue[x][k] = queue[y][l] => x = y /\ k = l
        BY DEF OnceInv
      <3> QED
        BY <3>1, <3>2
    <2>3. CASE New(p, i) /\ New(r, j)
      BY <2>3
    <2>4. CASE Old(p, i) /\ New(r, j)
      BY <2>4, <1>5
    <2>5. CASE New(p, i) /\ Old(r, j)
      BY <2>5, <1>5
    <2> HIDE DEF Old, New
    <2> QED
      BY <2>1, <2>2, <2>3, <2>4, <2>5
  <1>8. \A p \in Queues : \A i \in 1 .. Len(queue'[p]) :
            queue'[p][i] \notin Linked /\ \A t \in Threads : hand[t] # queue'[p][i]
    BY <1>5, <1>6 DEF OnceInv
  <1> QED
    BY <1>2, <1>7, <1>8 DEF OnceInv, Linked

LEMMA DequeueOnce ==
  ASSUME Inv, OnceInv, NEW t \in Threads, Dequeue(t)
  PROVE  OnceInv'
  <1> DEFINE q == QueueOf(t)
             s == queue[q]
             e == Head(s)
  <1>1. q \in Queues /\ s \in Seq(Edge) /\ s # <<>>
    BY QueueIndex DEF Inv, Types, Dequeue
  <1>2. queue' = [queue EXCEPT ![q] = Tail(@)] /\ hand' = [hand EXCEPT ![t] = e]
        /\ UNCHANGED in
    BY DEF Dequeue, listVars
  <1> HIDE DEF q
  <1>3. queue'[q] = Tail(s) /\ \A p \in Queues : p # q => queue'[p] = queue[p]
    BY <1>1, <1>2 DEF Inv, Types
  <1>4. /\ Len(Tail(s)) = Len(s) - 1 /\ Len(s) \in Nat \ {0} /\ e = s[1] /\ e \in Edge
        /\ \A i \in 1 .. Len(s) - 1 : Tail(s)[i] = s[i + 1]
    BY <1>1, Taking
  <1>5. 1 \in 1 .. Len(queue[q]) /\ queue[q][1] = e /\ e # None
        /\ (\A u \in Threads : hand[u] # e) /\ e \notin Linked
    BY <1>1, <1>4, Constants DEF OnceInv
  <1>6. \A p \in Queues : \A i \in 1 .. Len(queue'[p]) :
            \/ p # q /\ i \in 1 .. Len(queue[p]) /\ queue'[p][i] = queue[p][i]
            \/ p = q /\ i \in Nat /\ i + 1 \in 1 .. Len(queue[p]) /\ i + 1 # 1
                 /\ queue'[p][i] = queue[p][i + 1]
    <2> TAKE p \in Queues
    <2> TAKE i \in 1 .. Len(queue'[p])
    <2>1. CASE p # q
      BY <1>3, <2>1
    <2>2. CASE p = q
      <3>1. i \in 1 .. Len(s) - 1
        BY <1>3, <1>4, <2>2
      <3>2. queue'[p] = Tail(s) /\ Tail(s)[i] = s[i + 1]
        BY <1>3, <1>4, <2>2, <3>1
      <3>3. Len(s) \in Nat
        BY <1>4
      <3> HIDE DEF s
      <3>4. i \in Nat /\ i + 1 \in 1 .. Len(s) /\ i + 1 # 1
        BY <3>1, <3>3
      <3> QED
        BY <2>2, <3>2, <3>4 DEF s
    <2> QED
      BY <2>1, <2>2
  <1>7. hand'[t] = e /\ \A u \in Threads : u # t => hand'[u] = hand[u]
    BY <1>2 DEF Inv, Types
  <1> HIDE DEF s, e
  <1>8. ASSUME NEW p \in Queues, NEW i \in 1 .. Len(queue'[p])
        PROVE  queue'[p][i] \notin Linked /\ \A u \in Threads : hand'[u] # queue'[p][i]
    <2>1. CASE p # q
      <3>1. i \in 1 .. Len(queue[p]) /\ queue'[p][i] = queue[p][i]
        BY <1>3, <2>1
      <3>2. queue[p][i] # e
        BY <1>1, <1>5, <2>1, <3>1 DEF OnceInv
      <3> QED
        BY <1>7, <3>1, <3>2 DEF OnceInv
    <2>2. CASE p = q
      <3>1. i + 1 \in 1 .. Len(queue[p]) /\ i + 1 # 1 /\ queue'[p][i] = queue[p][i + 1]
        BY <1>6, <2>2
      <3>2. queue[p][i + 1] # e
        BY <1>1, <1>5, <2>2, <3>1 DEF OnceInv
      <3> QED
        BY <1>7, <3>1, <3>2 DEF OnceInv
    <2> QED
      BY <2>1, <2>2
  <1>9. ASSUME NEW p \in Queues, NEW r \in Queues, NEW i \in 1 .. Len(queue'[p]),
               NEW j \in 1 .. Len(queue'[r]), queue'[p][i] = queue'[r][j]
        PROVE  p = r /\ i = j
    <2> DEFINE a == IF p = q THEN i + 1 ELSE i
               b == IF r = q THEN j + 1 ELSE j
    <2>1. a \in 1 .. Len(queue[p]) /\ queue'[p][i] = queue[p][a]
          /\ b \in 1 .. Len(queue[r]) /\ queue'[r][j] = queue[r][b]
      BY <1>6
    <2> HIDE DEF a, b
    <2>2. queue[p][a] = queue[r][b]
      BY <1>9, <2>1
    <2>3. p = r /\ a = b
      BY <2>1, <2>2 DEF OnceInv
    <2>4. i \in Int /\ j \in Int
      OBVIOUS
    <2> QED
      BY <2>3, <2>4 DEF a, b
  <1>10. \A u, v \in Threads : u # v /\ hand'[u] # None => hand'[u] # hand'[v]
    BY <1>5, <1>7 DEF OnceInv
  <1>11. \A p, r \in Queues : \A i \in 1 .. Len(queue'[p]) : \A j \in 1 .. Len(queue'[r]) :
            queue'[p][i] = queue'[r][j] => p = r /\ i = j
    BY <1>9
  <1>12. \A p \in Queues : \A i \in 1 .. Len(queue'[p]) :
            queue'[p][i] \notin Linked' /\ \A u \in Threads : hand'[u] # queue'[p][i]
    BY <1>2, <1>8 DEF Linked
  <1> QED
    BY <1>10, <1>11, <1>12 DEF OnceInv

LEMMA AppendInOnce ==
  ASSUME Inv, OnceInv, NEW t \in Threads, AppendIn(t)
  PROVE  OnceInv'
  <1>1. hand[t] \in Edge /\ Target[hand[t]] \in Nodes
    BY HandNodes DEF Inv, AppendIn, Working
  <1>2. Linked' = Linked \cup {hand[t]} /\ UNCHANGED <<queue, hand>>
    BY <1>1 DEF AppendIn, Inv, Types, Linked, queueVars
  <1> QED
    BY <1>2 DEF OnceInv

LEMMA ReleaseOnce ==
  ASSUME Inv, OnceInv, NEW t \in Threads, ReleaseTarget(t)
  PROVE  OnceInv'
  <1>1. hand'[t] = None /\ (\A u \in Threads : u # t => hand'[u] = hand[u])
        /\ UNCHANGED <<queue, in>>
    BY DEF ReleaseTarget, Inv, Types, queueVars, listVars
  <1>2. \A q \in Queues : \A i \in 1 .. Len(queue[q]) : queue[q][i] # None
    <2> TAKE q \in Queues
    <2>1. queue[q] \in Seq(Edge)
      BY DEF Inv, Types
    <2> QED
      BY <2>1, Constants
  <1> QED
    BY <1>1, <1>2 DEF OnceInv, Linked

LEMMA OnceStep == Inv /\ OnceInv /\ [Next]_vars => OnceInv'
  <1> SUFFICES ASSUME Inv, OnceInv, [Next]_vars PROVE OnceInv'
    OBVIOUS
  <1>1. CASE Return
    <2>1. \A q \in Queues : queue'[q] = <<>>
      BY <1>1 DEF Return
    <2>2. UNCHANGED <<hand, in>>
      BY <1>1 DEF Return, listVars
    <2> QED
      BY <2>1, <2>2 DEF OnceInv
  <1>2. CASE CallAgain
    BY <1>2, OnceFrame DEF CallAgain, listVars
  <1>3. ASSUME NEW t \in Threads, Step(t) PROVE OnceInv'
    <2>1. CASE LoadEdge \/ Dequeue(t) \/ AppendIn(t) \/ ReleaseTarget(t)
      BY <2>1, LoadEdgeOnce, DequeueOnce, AppendInOnce, ReleaseOnce
    <2>2. CASE SetSlot(t)
      BY <2>2, SetSlotLists, OnceFrame DEF SetSlot, queueVars
    <2>3. CASE LoadEnds \/ Shutdown \/ FindsEmpty(t) \/ TestsFlag(t) \/ ClaimSlot(t)
               \/ FindsNode(t) \/ LockNode(t) \/ RegisterNode(t) \/ AppendOut(t)
               \/ ReleaseSource(t)
      <3>1. UNCHANGED <<queue, hand, in>>
        BY <2>3 DEF LoadEnds, Shutdown, FindsEmpty, TestsFlag, ClaimSlot, FindsNode,
           LockNode, RegisterNode, AppendOut, ReleaseSource, queueVars, listVars
      <3> QED
        BY <3>1, OnceFrame
    <2> QED
      BY <1>3, <2>1, <2>2, <2>3 DEF Step, AddEdge
  <1>4. CASE UNCHANGED vars
    BY <1>4, OnceFrame DEF vars, queueVars, listVars
  <1> QED
    BY <1>1, <1>2, <1>3, <1>4 DEF Next

(* Every edge that was read is in its queue, in one hand or in the graph, and *)
(* nowhere twice: no worker drops a request and no two threads run the same.  *)
THEOREM RequestsOnce == Spec => []NoneLost
  <1>1. Init => OnceInv
    BY DEF Init, OnceInv
  <1>2. Inv /\ OnceInv => NoneLost
    <2> SUFFICES ASSUME Inv, OnceInv PROVE NoneLost
      OBVIOUS
    <2>1. \A e \in Taken : Queued(e) \/ InHand(e) \/ e \in Linked
      BY DEF Inv, Covered
    <2>2. \A e \in Edge : Queued(e) => ~ InHand(e) /\ e \notin Linked
      BY DEF OnceInv, Queued, InHand
    <2> QED
      BY <2>1, <2>2 DEF NoneLost, OnceInv
  <1> QED
    BY <1>1, <1>2, InvAlways, OnceStep, PTL DEF Spec

----------------------------------------------------------------------------
(* A node is registered before an edge is put in its lists.                   *)
IdsInv ==
    /\ nextId \in Nat /\ out \in [Nodes -> SUBSET Edge]
    /\ FreshIds
    /\ \A t \in Threads : pc[t] \in Working /\ nth[t] = 2 => First(hand[t]) < nextId
    /\ \A t \in Threads : pc[t] \in {"append", "appendIn"} =>
          Source[hand[t]] < nextId /\ Target[hand[t]] < nextId


(* The steps of the threads outside of add_edge().                            *)
LEMMA OutsideFrame ==
  ASSUME Inv, Return \/ CallAgain \/ LoadEdge \/ LoadEnds \/ Shutdown \/ UNCHANGED vars
              \/ \E t \in Threads : FindsEmpty(t) \/ TestsFlag(t)
  PROVE  /\ UNCHANGED <<hand, nth, slot, holder, nextId, out, in>>
         /\ \A t \in Threads : pc'[t] \in Working \/ pc[t] \in Working => pc[t] = pc'[t]
  <1> USE DEF nodeVars, listVars, Goto, NextQueue
  <1>1. CASE Return \/ CallAgain
    BY <1>1 DEF Return, AtBarrier, CallAgain, Idle, Working
  <1>2. CASE LoadEdge \/ LoadEnds \/ Shutdown
    BY <1>2, Constants DEF LoadEdge, LoadEnds, Shutdown, Inv, Types, Working
  <1>3. CASE UNCHANGED vars
    BY <1>3 DEF vars
  <1>4. CASE \E t \in Threads : FindsEmpty(t) \/ TestsFlag(t)
    BY <1>4 DEF FindsEmpty, TestsFlag, Inv, Types, Working
  <1> QED
    BY <1>1, <1>2, <1>3, <1>4

(* The number of the nodes a running thread has an edge of.                   *)
LEMMA HandNumbers ==
  ASSUME Inv, NEW t \in Threads, pc[t] \in Working
  PROVE  /\ Source[hand[t]] \in Nat /\ Target[hand[t]] \in Nat
         /\ First(hand[t]) \in Nat /\ Second(hand[t]) \in Nat /\ Locking(t) \in Nat
         /\ {Source[hand[t]], Target[hand[t]]} = {First(hand[t]), Second(hand[t])}
  <1>1. /\ hand[t] \in Edge /\ Source[hand[t]] \in Nat /\ Target[hand[t]] \in Nat
    BY HandNodes, GraphAssumption DEF Inv
  <1> QED
    BY <1>1 DEF First, Second, Locking

LEMMA RegisterIds ==
  ASSUME Inv, IdsInv, NEW t \in Threads, RegisterNode(t)
  PROVE  IdsInv'
  <1> DEFINE e == hand[t]
  <1>1. /\ nextId' = IF Locking(t) >= nextId THEN Locking(t) + 1 ELSE nextId
        /\ pc[t] = "register" /\ UNCHANGED <<hand, out, in>>
        /\ \A u \in Threads : u # t => pc'[u] = pc[u] /\ nth'[u] = nth[u]
        /\ \/ nth[t] = 1 /\ Source[e] # Target[e] /\ pc'[t] = "find" /\ nth'[t] = 2
           \/ ~ (nth[t] = 1 /\ Source[e] # Target[e]) /\ pc'[t] = "append" /\ nth'[t] = nth[t]
    BY DEF RegisterNode, Goto, listVars, Inv, Types
  <1>2. /\ Source[e] \in Nat /\ Target[e] \in Nat
        /\ First(e) \in Nat /\ Second(e) \in Nat /\ Locking(t) \in Nat
        /\ {Source[e], Target[e]} = {First(e), Second(e)}
    BY <1>1, HandNumbers DEF Working
  <1>3. nextId' \in Nat /\ nextId' >= nextId /\ Locking(t) < nextId' /\ nextId \in Nat
    BY <1>1, <1>2 DEF IdsInv
  <1>4. Locking(t) = IF nth[t] = 1 THEN First(e) ELSE Second(e)
    BY DEF Locking
  <1> HIDE DEF e
  <1>5. FreshIds'
    BY <1>1, <1>3, GraphAssumption DEF IdsInv, FreshIds
  <1>6. nth[t] = 2 => First(e) < nextId
    BY <1>1 DEF IdsInv, Working, e
  <1>7. ASSUME NEW u \in Threads, pc'[u] \in Working, nth'[u] = 2
        PROVE  First(hand'[u]) < nextId'
    <2>1. CASE u = t
      <3>1. First(e) < nextId'
        BY <1>1, <1>2, <1>3, <1>4, <1>6, <1>7, <2>1 DEF Inv, Types
      <3> QED
        BY <1>1, <2>1, <3>1 DEF e
    <2>2. CASE u # t
      <3>1. pc[u] \in Working /\ First(hand[u]) < nextId /\ hand'[u] = hand[u]
        BY <1>1, <1>7, <2>2 DEF IdsInv
      <3>2. First(hand[u]) \in Nat
        BY <3>1, HandNumbers
      <3> QED
        BY <1>3, <3>1, <3>2
    <2> QED
      BY <2>1, <2>2
  <1>8. ASSUME NEW u \in Threads, pc'[u] \in {"append", "appendIn"}
        PROVE  Source[hand'[u]] < nextId' /\ Target[hand'[u]] < nextId'
    <2>1. CASE u = t
      <3>1. First(e) < nextId' /\ Second(e) < nextId'
        <4>1. CASE nth[t] = 1
          <5>1. Source[e] = Target[e]
            BY <1>1, <1>8, <2>1, <4>1
          <5> QED
            BY <1>2, <1>3, <1>4, <4>1, <5>1
        <4>2. CASE nth[t] = 2
          BY <1>2, <1>3, <1>4, <1>6, <4>2
        <4> QED
          BY <4>1, <4>2 DEF Inv, Types
      <3>2. Source[e] < nextId' /\ Target[e] < nextId'
        BY <1>2, <3>1
      <3> QED
        BY <1>1, <2>1, <3>2 DEF e
    <2>2. CASE u # t
      <3>1. pc[u] \in {"append", "appendIn"} /\ hand'[u] = hand[u]
        BY <1>1, <1>8, <2>2
      <3>2. Source[hand[u]] < nextId /\ Target[hand[u]] < nextId
        BY <3>1 DEF IdsInv
      <3>3. Source[hand[u]] \in Nat /\ Target[hand[u]] \in Nat
        BY <3>1, HandNumbers DEF Working
      <3> QED
        BY <1>3, <3>1, <3>2, <3>3
    <2> QED
      BY <2>1, <2>2
  <1> QED
    BY <1>1, <1>3, <1>5, <1>7, <1>8 DEF IdsInv

LEMMA AppendIds ==
  ASSUME Inv, IdsInv, NEW t \in Threads, AppendOut(t) \/ AppendIn(t)
  PROVE  IdsInv'
  <1> DEFINE e == hand[t]
             n == IF pc[t] = "append" THEN Source[e] ELSE Target[e]
  <1>1. /\ pc[t] \in {"append", "appendIn"} /\ UNCHANGED <<hand, nth, nextId>>
        /\ \A u \in Threads : u # t => pc'[u] = pc[u]
        /\ pc'[t] \in {"appendIn", "release"}
    BY DEF AppendOut, AppendIn, Goto, nodeVars, Inv, Types
  <1>2. e \in Edge /\ n \in Nodes /\ Source[e] \in Nodes /\ Target[e] \in Nodes
    BY <1>1, HandNodes DEF Inv, Working
  <1>3. n < nextId
    BY <1>1 DEF IdsInv
  <1>4. out' \in [Nodes -> SUBSET Edge] /\ \A x \in Nodes : x # n =>
            out'[x] = out[x] /\ in'[x] = in[x]
    BY <1>1, <1>2 DEF AppendOut, AppendIn, IdsInv, Inv, Types
  <1> HIDE DEF e, n
  <1>5. FreshIds'
    BY <1>1, <1>3, <1>4 DEF IdsInv, FreshIds
  <1>6. \A u \in Threads : pc'[u] \in Working => pc[u] \in Working
    BY <1>1 DEF Working
  <1>7. \A u \in Threads : pc'[u] \in {"append", "appendIn"} => pc[u] \in {"append", "appendIn"}
    BY <1>1
  <1> QED
    BY <1>1, <1>4, <1>5, <1>6, <1>7 DEF IdsInv

LEMMA IdsStep == Inv /\ IdsInv /\ [Next]_vars => IdsInv'
  <1> SUFFICES ASSUME Inv, IdsInv, [Next]_vars PROVE IdsInv'
    OBVIOUS
  <1>1. ASSUME UNCHANGED <<hand, nth, nextId, out, in>>,
               \A t \in Threads : pc'[t] \in Working => pc[t] \in Working,
               \A t \in Threads : pc'[t] \in {"append", "appendIn"} => pc[t] = pc'[t]
        PROVE  IdsInv'
    BY <1>1 DEF IdsInv, FreshIds
  <1>2. CASE Return \/ CallAgain \/ LoadEdge \/ LoadEnds \/ Shutdown \/ UNCHANGED vars
              \/ \E t \in Threads : FindsEmpty(t) \/ TestsFlag(t)
    BY <1>1, <1>2, OutsideFrame DEF Working
  <1>3. ASSUME NEW t \in Threads,
               ClaimSlot(t) \/ FindsNode(t) \/ LockNode(t) \/ ReleaseSource(t)
        PROVE  IdsInv'
    BY <1>1, <1>3 DEF ClaimSlot, FindsNode, LockNode, ReleaseSource, Goto, nodeVars, listVars,
       Inv, Types, Working
  <1>4. ASSUME NEW t \in Threads, Dequeue(t) PROVE IdsInv'
    <2>1. /\ UNCHANGED <<nextId, out, in>> /\ nth'[t] = 1 /\ pc'[t] = "find"
          /\ \A u \in Threads : u # t => pc'[u] = pc[u] /\ nth'[u] = nth[u] /\ hand'[u] = hand[u]
      BY <1>4 DEF Dequeue, Goto, nodeVars, listVars, Inv, Types
    <2> QED
      BY <2>1 DEF IdsInv, FreshIds
  <1>5. ASSUME NEW t \in Threads, SetSlot(t) PROVE IdsInv'
    <2>1. /\ UNCHANGED <<hand, nth, nextId>> /\ pc[t] = "allocate" /\ pc'[t] = "lock"
          /\ \A u \in Threads : u # t => pc'[u] = pc[u]
          /\ out' = [out EXCEPT ![Locking(t)] = {}]
      BY <1>5 DEF SetSlot, Goto, Inv, Types
    <2>2. in' = in /\ Locking(t) \in Nodes
      BY <1>5, SetSlotLists
    <2>3. FreshIds' /\ out' \in [Nodes -> SUBSET Edge]
      BY <2>1, <2>2 DEF IdsInv, FreshIds
    <2> QED
      BY <2>1, <2>3 DEF IdsInv, Working
  <1>6. ASSUME NEW t \in Threads, ReleaseTarget(t) PROVE IdsInv'
    <2>1. /\ UNCHANGED <<nth, nextId, out, in>> /\ pc'[t] = "dequeue"
          /\ \A u \in Threads : u # t => pc'[u] = pc[u] /\ hand'[u] = hand[u]
      BY <1>6 DEF ReleaseTarget, Goto, listVars, Inv, Types
    <2> QED
      BY <2>1 DEF IdsInv, FreshIds, Working
  <1> QED
    BY <1>2, <1>3, <1>4, <1>5, <1>6, RegisterIds, AppendIds DEF Next, Step, AddEdge

(* add_node() never gives out the id of a node that has edges already.        *)
THEOREM IdsFresh == Spec => []FreshIds
  <1>1. Init => IdsInv
    BY DEF Init, IdsInv, FreshIds, Idle, Working
  <1>2. IdsInv => FreshIds
    BY DEF IdsInv
  <1> QED
    BY <1>1, <1>2, InvAlways, IdsStep, PTL DEF Spec

----------------------------------------------------------------------------
(* The nodes a thread holds while it runs a request.                          *)
Holds(t) ==
    /\ pc[t] \in {"find", "allocate", "lock", "register"} /\ nth[t] = 2 =>
          holder[First(hand[t])] = t /\ Source[hand[t]] # Target[hand[t]]
    /\ pc[t] = "register" => holder[Locking(t)] = t
    /\ pc[t] \in {"append", "appendIn", "release"} =>
          holder[Source[hand[t]]] = t /\ holder[Target[hand[t]]] = t
    /\ pc[t] = "releaseTarget" /\ Source[hand[t]] # Target[hand[t]] =>
          holder[Target[hand[t]]] = t
    /\ pc[t] = "appendIn" => hand[t] \in out[Source[hand[t]]]

(* An edge is in one of its two lists only while a thread that holds both its *)
(* nodes is about to put it into the other.                                   *)
Pending ==
    \A e \in Edge : \/ e \in out[Source[e]] <=> e \in in[Target[e]]
                    \/ \E t \in Threads : pc[t] = "appendIn" /\ hand[t] = e

Ends == \A n \in Nodes : /\ \A e \in out[n] : Source[e] = n
                         /\ \A e \in in[n] : Target[e] = n
Unset == \A n \in Nodes : slot[n] # "node" => holder[n] = None /\ out[n] = {}

MirrorInv ==
    /\ out \in [Nodes -> SUBSET Edge] /\ holder \in [Nodes -> Threads \cup {None}]
    /\ Ends /\ Unset /\ Pending
    /\ \A t \in Threads : Holds(t)

(* What a step leaves a thread that does not take it.                         *)
LEMMA HoldsFrame ==
  ASSUME Inv, MirrorInv, NEW u \in Threads,
         pc'[u] = pc[u], hand'[u] = hand[u], nth'[u] = nth[u],
         \A n \in Nodes : holder[n] = u => holder'[n] = u,
         \A n \in Nodes : out[n] \subseteq out'[n]
  PROVE  Holds(u)'
  <1>1. CASE pc[u] \in Working
    <2>1. /\ hand[u] \in Edge /\ Source[hand[u]] \in Nodes /\ Target[hand[u]] \in Nodes
          /\ First(hand[u]) \in Nodes /\ Locking(u) \in Nodes
      BY <1>1, HandNodes, Constants DEF Inv
    <2>2. Holds(u)
      BY DEF MirrorInv
    <2>3. Locking(u)' = Locking(u) /\ First(hand[u])' = First(hand[u])
      BY DEF Locking, First, Second
    <2> QED
      BY <2>1, <2>2, <2>3 DEF Holds
  <1>2. CASE pc[u] \notin Working
    BY <1>2 DEF Holds, Working
  <1> QED
    BY <1>1, <1>2

(* The steps that touch neither the lists nor the locks.                      *)
LEMMA ListsFrame ==
  ASSUME MirrorInv, UNCHANGED <<holder, out, in>>,
         \A n \in Nodes : slot'[n] # "node" => slot[n] # "node",
         \A t \in Threads : Holds(t)',
         \A t \in Threads : pc[t] = "appendIn" => pc'[t] = "appendIn" /\ hand'[t] = hand[t]
  PROVE  MirrorInv'
  <1>1. Ends' /\ Unset'
    BY DEF MirrorInv, Ends, Unset
  <1>2. Pending'
    BY DEF MirrorInv, Pending
  <1> QED
    BY <1>1, <1>2 DEF MirrorInv

LEMMA OutsideMirror ==
  ASSUME Inv, MirrorInv,
         Return \/ CallAgain \/ LoadEdge \/ LoadEnds \/ Shutdown \/ UNCHANGED vars
              \/ \E t \in Threads : FindsEmpty(t) \/ TestsFlag(t)
  PROVE  MirrorInv'
  <1>1. /\ UNCHANGED <<hand, nth, slot, holder, nextId, out, in>>
        /\ \A t \in Threads : pc'[t] \in Working \/ pc[t] \in Working => pc[t] = pc'[t]
    BY OutsideFrame
  <1>2. ASSUME NEW u \in Threads PROVE Holds(u)'
    <2>1. CASE pc[u] \in Working
      BY <1>1, <2>1, HoldsFrame
    <2>2. CASE pc[u] \notin Working
      <3>1. pc'[u] \notin Working
        BY <1>1, <2>2
      <3> QED
        BY <3>1 DEF Holds, Working
    <2> QED
      BY <2>1, <2>2
  <1>3. \A t \in Threads : pc[t] = "appendIn" => pc'[t] = "appendIn" /\ hand'[t] = hand[t]
    BY <1>1 DEF Working
  <1> QED
    BY <1>1, <1>2, <1>3, ListsFrame

LEMMA DequeueMirror ==
  ASSUME Inv, MirrorInv, NEW t \in Threads, Dequeue(t)
  PROVE  MirrorInv'
  <1>1. /\ UNCHANGED <<slot, holder, out, in>>
        /\ pc[t] = "dequeue" /\ pc'[t] = "find" /\ nth'[t] = 1
        /\ \A u \in Threads : u # t => pc'[u] = pc[u] /\ nth'[u] = nth[u] /\ hand'[u] = hand[u]
    BY DEF Dequeue, Goto, nodeVars, listVars, Inv, Types
  <1>2. Holds(t)'
    BY <1>1 DEF Holds
  <1>3. \A u \in Threads : u # t => Holds(u)'
    BY <1>1, HoldsFrame
  <1> QED
    BY <1>1, <1>2, <1>3, ListsFrame

LEMMA ClaimMirror ==
  ASSUME Inv, MirrorInv, NEW t \in Threads, ClaimSlot(t) \/ FindsNode(t)
  PROVE  MirrorInv'
  <1>1. /\ UNCHANGED <<hand, nth, holder, out, in>>
        /\ pc[t] = "find" /\ pc'[t] \in {"allocate", "lock"}
        /\ \A u \in Threads : u # t => pc'[u] = pc[u]
    BY DEF ClaimSlot, FindsNode, Goto, nodeVars, listVars, Inv, Types
  <1>2. \A n \in Nodes : slot'[n] # "node" => slot[n] # "node"
    BY DEF ClaimSlot, FindsNode, nodeVars, Inv, Types
  <1>3. First(hand[t])' = First(hand[t])
    BY <1>1 DEF First
  <1>4. Holds(t)'
    BY <1>1, <1>3 DEF Holds, MirrorInv
  <1>5. \A u \in Threads : u # t => Holds(u)'
    BY <1>1, HoldsFrame
  <1> QED
    BY <1>1, <1>2, <1>4, <1>5, ListsFrame

(* The new node was not linked and its lock was free.                         *)
LEMMA SetSlotMirror ==
  ASSUME Inv, MirrorInv, NEW t \in Threads, SetSlot(t)
  PROVE  MirrorInv'
  <1>1. Locking(t) \in Nodes /\ slot[Locking(t)] = "block" /\ in' = in
    BY SetSlotLists
  <1>2. out[Locking(t)] = {} /\ holder[Locking(t)] = None
    BY <1>1 DEF MirrorInv, Unset
  <1>3. /\ UNCHANGED <<hand, nth>> /\ pc[t] = "allocate" /\ pc'[t] = "lock"
        /\ \A u \in Threads : u # t => pc'[u] = pc[u]
        /\ \A n \in Nodes : slot'[n] # "node" => slot[n] # "node"
    BY DEF SetSlot, Goto, Inv, Types
  <1>4. out' = out /\ holder' = holder
    BY <1>2 DEF SetSlot, MirrorInv
  <1>5. First(hand[t])' = First(hand[t])
    BY <1>3 DEF First
  <1>6. Holds(t)'
    BY <1>3, <1>4, <1>5 DEF Holds, MirrorInv
  <1>7. \A u \in Threads : u # t => Holds(u)'
    BY <1>3, <1>4, HoldsFrame
  <1> QED
    BY <1>1, <1>3, <1>4, <1>6, <1>7, ListsFrame

LEMMA LockMirror ==
  ASSUME Inv, MirrorInv, NEW t \in Threads, LockNode(t)
  PROVE  MirrorInv'
  <1> DEFINE n == Locking(t)
  <1>1. /\ pc[t] = "lock" /\ pc'[t] = "register" /\ holder[n] = None
        /\ holder' = [holder EXCEPT ![n] = t]
        /\ UNCHANGED <<hand, nth, slot, out, in>>
        /\ \A u \in Threads : u # t => pc'[u] = pc[u]
    BY DEF LockNode, Goto, listVars, Inv, Types
  <1>2. n \in Nodes /\ slot[n] = "node" /\ First(hand[t]) \in Nodes
    BY <1>1, HandNodes, Constants DEF Inv, Working, Slots
  <1>3. Locking(t)' = n /\ First(hand[t])' = First(hand[t])
    BY <1>1 DEF Locking, First, Second
  <1> HIDE DEF n
  <1>4. holder'[n] = t /\ (\A m \in Nodes : m # n => holder'[m] = holder[m])
        /\ holder' \in [Nodes -> Threads \cup {None}]
    BY <1>1, <1>2 DEF MirrorInv
  <1>5. t # None /\ \A u \in Threads : u # None
    BY DEF Threads, None
  <1>6. Holds(t)'
    <2>1. nth[t] = 2 => holder[First(hand[t])] = t /\ Source[hand[t]] # Target[hand[t]]
      BY <1>1 DEF MirrorInv, Holds
    <2>2. nth[t] = 2 => holder'[First(hand[t])] = t
      BY <1>2, <1>4, <2>1
    <2> QED
      BY <1>1, <1>3, <1>4, <2>1, <2>2 DEF Holds
  <1>7. \A u \in Threads : \A m \in Nodes : holder[m] = u => holder'[m] = u
    BY <1>1, <1>4, <1>5
  <1>8. \A u \in Threads : u # t => Holds(u)'
    BY <1>1, <1>7, HoldsFrame
  <1>9. Ends' /\ Unset'
    BY <1>1, <1>2, <1>4 DEF MirrorInv, Ends, Unset
  <1>10. Pending'
    <2>1. \A u \in Threads : pc[u] = "appendIn" => pc'[u] = "appendIn" /\ hand'[u] = hand[u]
      BY <1>1
    <2> QED
      BY <1>1, <2>1 DEF MirrorInv, Pending
  <1> QED
    BY <1>1, <1>4, <1>6, <1>8, <1>9, <1>10 DEF MirrorInv

(* After its second node, or the only one, the thread holds both.             *)
LEMMA RegisterMirror ==
  ASSUME Inv, MirrorInv, NEW t \in Threads, RegisterNode(t)
  PROVE  MirrorInv'
  <1> DEFINE e == hand[t]
  <1>1. /\ pc[t] = "register" /\ UNCHANGED <<hand, slot, holder, out, in>>
        /\ \A u \in Threads : u # t => pc'[u] = pc[u] /\ nth'[u] = nth[u]
        /\ \/ nth[t] = 1 /\ Source[e] # Target[e] /\ pc'[t] = "find" /\ nth'[t] = 2
           \/ ~ (nth[t] = 1 /\ Source[e] # Target[e]) /\ pc'[t] = "append" /\ nth'[t] = nth[t]
    BY DEF RegisterNode, Goto, listVars, Inv, Types
  <1>2. holder[Locking(t)] = t
        /\ (nth[t] = 2 => holder[First(e)] = t /\ Source[e] # Target[e])
    BY <1>1 DEF MirrorInv, Holds
  <1>3. {Source[e], Target[e]} = {First(e), Second(e)} /\ nth[t] \in {1, 2}
    BY <1>1, HandNodes, Constants DEF Inv, Types, Working
  <1>4. Locking(t) = IF nth[t] = 1 THEN First(e) ELSE Second(e)
    BY DEF Locking
  <1>5. First(hand[t])' = First(e) /\ hand'[t] = e
    BY <1>1 DEF First
  <1> HIDE DEF e
  <1>6. Holds(t)'
    <2>1. CASE nth[t] = 1 /\ Source[e] # Target[e]
      BY <1>1, <1>2, <1>4, <1>5, <2>1 DEF Holds
    <2>2. CASE ~ (nth[t] = 1 /\ Source[e] # Target[e])
      <3>1. holder[Source[e]] = t /\ holder[Target[e]] = t
        BY <1>2, <1>3, <1>4, <2>2
      <3> QED
        BY <1>1, <1>5, <2>2, <3>1 DEF Holds
    <2> QED
      BY <2>1, <2>2
  <1>7. \A u \in Threads : u # t => Holds(u)'
    BY <1>1, HoldsFrame
  <1> QED
    BY <1>1, <1>6, <1>7, ListsFrame

LEMMA AppendOutMirror ==
  ASSUME Inv, MirrorInv, NEW t \in Threads, AppendOut(t)
  PROVE  MirrorInv'
  <1> DEFINE e == hand[t]
             n == Source[e]
  <1>1. /\ pc[t] = "append" /\ pc'[t] = "appendIn"
        /\ out' = [out EXCEPT ![n] = @ \cup {e}]
        /\ UNCHANGED <<hand, nth, slot, holder, in>>
        /\ \A u \in Threads : u # t => pc'[u] = pc[u]
    BY DEF AppendOut, Goto, nodeVars, Inv, Types
  <1>2. e \in Edge /\ n \in Nodes /\ slot[n] = "node" /\ Source[e] = n
    BY <1>1, HandNodes DEF Inv, Working, Slots
  <1>3. holder[Source[e]] = t /\ holder[Target[e]] = t
    BY <1>1 DEF MirrorInv, Holds
  <1>4. hand'[t] = e
    BY <1>1
  <1>5. \A d \in Edge : Source[d] \in Nodes
    BY GraphAssumption
  <1> HIDE DEF e, n
  <1>6. /\ out'[n] = out[n] \cup {e} /\ (\A m \in Nodes : m # n => out'[m] = out[m])
        /\ out' \in [Nodes -> SUBSET Edge]
    BY <1>1, <1>2 DEF MirrorInv
  <1>7. Holds(t)'
    BY <1>1, <1>2, <1>3, <1>4, <1>6 DEF Holds
  <1>8. \A u \in Threads : u # t => Holds(u)'
    BY <1>1, <1>6, HoldsFrame
  <1>9. Ends' /\ Unset'
    BY <1>1, <1>2, <1>6 DEF MirrorInv, Ends, Unset
  <1>10. Pending'
    <2> SUFFICES ASSUME NEW d \in Edge,
                        ~ \E u \in Threads : pc'[u] = "appendIn" /\ hand'[u] = d
                 PROVE  d \in out'[Source[d]] <=> d \in in'[Target[d]]
      BY DEF Pending
    <2>1. d # e
      BY <1>1, <1>4
    <2>2. ~ \E u \in Threads : pc[u] = "appendIn" /\ hand[u] = d
      BY <1>1
    <2>3. d \in out[Source[d]] <=> d \in in[Target[d]]
      BY <2>2 DEF MirrorInv, Pending
    <2>4. d \in out'[Source[d]] <=> d \in out[Source[d]]
      BY <1>5, <1>6, <2>1
    <2> QED
      BY <1>1, <2>3, <2>4
  <1> QED
    BY <1>1, <1>6, <1>7, <1>8, <1>9, <1>10 DEF MirrorInv

LEMMA AppendInMirror ==
  ASSUME Inv, MirrorInv, NEW t \in Threads, AppendIn(t)
  PROVE  MirrorInv'
  <1> DEFINE e == hand[t]
             n == Target[e]
  <1>1. /\ pc[t] = "appendIn" /\ pc'[t] = "release"
        /\ in' = [in EXCEPT ![n] = @ \cup {e}]
        /\ UNCHANGED <<hand, nth, slot, holder, out>>
        /\ \A u \in Threads : u # t => pc'[u] = pc[u]
    BY DEF AppendIn, Goto, nodeVars, Inv, Types
  <1>2. e \in Edge /\ n \in Nodes /\ Target[e] = n
    BY <1>1, HandNodes DEF Inv, Working, Slots
  <1>3. holder[Source[e]] = t /\ holder[Target[e]] = t /\ e \in out[Source[e]]
    BY <1>1 DEF MirrorInv, Holds
  <1>4. hand'[t] = e
    BY <1>1
  <1>5. \A d \in Edge : Target[d] \in Nodes
    BY GraphAssumption
  <1> HIDE DEF e, n
  <1>6. in'[n] = in[n] \cup {e} /\ \A m \in Nodes : m # n => in'[m] = in[m]
    BY <1>1, <1>2 DEF Inv, Types
  <1>7. Holds(t)'
    BY <1>1, <1>3, <1>4 DEF Holds
  <1>8. \A u \in Threads : u # t => Holds(u)'
    BY <1>1, HoldsFrame
  <1>9. Ends' /\ Unset'
    BY <1>1, <1>2, <1>6 DEF MirrorInv, Ends, Unset
  <1>10. Pending'
    <2> SUFFICES ASSUME NEW d \in Edge,
                        ~ \E u \in Threads : pc'[u] = "appendIn" /\ hand'[u] = d
                 PROVE  d \in out'[Source[d]] <=> d \in in'[Target[d]]
      BY DEF Pending
    <2>1. CASE d = e
      BY <1>1, <1>2, <1>3, <1>6, <2>1
    <2>2. CASE d # e
      <3>1. ~ \E u \in Threads : pc[u] = "appendIn" /\ hand[u] = d
        BY <1>1, <1>4, <2>2
      <3>2. d \in out[Source[d]] <=> d \in in[Target[d]]
        BY <3>1 DEF MirrorInv, Pending
      <3>3. d \in in'[Target[d]] <=> d \in in[Target[d]]
        BY <1>5, <1>6, <2>2
      <3> QED
        BY <1>1, <3>2, <3>3
    <2> QED
      BY <2>1, <2>2
  <1> QED
    BY <1>1, <1>7, <1>8, <1>9, <1>10 DEF MirrorInv

(* release_nodes() only gives back what the thread holds.                     *)
LEMMA ReleaseMirror ==
  ASSUME Inv, MirrorInv, NEW t \in Threads, ReleaseSource(t) \/ ReleaseTarget(t)
  PROVE  MirrorInv'
  <1> DEFINE e == hand[t]
  <1>1. /\ pc[t] \in {"release", "releaseTarget"} /\ UNCHANGED <<nth, slot, out, in>>
        /\ \A u \in Threads : u # t => pc'[u] = pc[u] /\ hand'[u] = hand[u]
    BY DEF ReleaseSource, ReleaseTarget, Goto, listVars, Inv, Types
  <1>2. e \in Edge /\ Source[e] \in Nodes /\ Target[e] \in Nodes
    BY <1>1, HandNodes DEF Inv, Working
  <1>3. Holds(t) /\ t # None /\ \A u \in Threads : u # None
    BY DEF MirrorInv, Threads, None
  <1>4. /\ holder' \in [Nodes -> Threads \cup {None}]
        /\ \A m \in Nodes : \/ holder'[m] = holder[m]
                            \/ holder[m] = t /\ holder'[m] = None
    <2>1. CASE ReleaseSource(t)
      BY <1>2, <1>3, <2>1 DEF ReleaseSource, Holds, MirrorInv
    <2>2. CASE ReleaseTarget(t)
      BY <1>2, <1>3, <2>2 DEF ReleaseTarget, Holds, MirrorInv
    <2> QED
      BY <2>1, <2>2
  <1>5. Holds(t)'
    <2>1. CASE ReleaseSource(t)
      <3>1. /\ pc[t] = "release" /\ pc'[t] = "releaseTarget" /\ hand'[t] = e
            /\ holder' = [holder EXCEPT ![Source[e]] = None]
        BY <2>1 DEF ReleaseSource, Goto, Inv, Types
      <3>2. holder[Target[e]] = t
        BY <1>3, <3>1 DEF Holds
      <3>3. Source[e] # Target[e] => holder'[Target[e]] = t
        BY <1>2, <3>1, <3>2 DEF MirrorInv
      <3> HIDE DEF e
      <3> QED
        BY <3>1, <3>3 DEF Holds
    <2>2. CASE ReleaseTarget(t)
      <3>1. pc'[t] = "dequeue"
        BY <2>2 DEF ReleaseTarget, Goto, Inv, Types
      <3> QED
        BY <3>1 DEF Holds
    <2> QED
      BY <2>1, <2>2
  <1> HIDE DEF e
  <1>6. \A u \in Threads : u # t => \A m \in Nodes : holder[m] = u => holder'[m] = u
    BY <1>4
  <1>7. \A u \in Threads : u # t => Holds(u)'
    BY <1>1, <1>6, HoldsFrame
  <1>8. Ends' /\ Unset'
    BY <1>1, <1>4 DEF MirrorInv, Ends, Unset
  <1>9. Pending'
    <2>1. \A u \in Threads : pc[u] = "appendIn" => pc'[u] = "appendIn" /\ hand'[u] = hand[u]
      BY <1>1
    <2> QED
      BY <1>1, <2>1 DEF MirrorInv, Pending
  <1> QED
    BY <1>1, <1>4, <1>5, <1>7, <1>8, <1>9 DEF MirrorInv

LEMMA MirrorStep == Inv /\ MirrorInv /\ [Next]_vars => MirrorInv'
  BY OutsideMirror, DequeueMirror, ClaimMirror, SetSlotMirror, LockMirror, RegisterMirror,
     AppendOutMirror, AppendInMirror, ReleaseMirror DEF Next, Step, AddEdge

(* Whenever the lock of a node is free, its two lists agree with the lists of *)
(* the nodes at the other ends: an edge is half linked only while the thread  *)
(* that links it holds both of its nodes.                                     *)
THEOREM ListsMirrored == Spec => []Mirrored
  <1>1. Init => MirrorInv
    <2> SUFFICES ASSUME Init PROVE MirrorInv
      OBVIOUS
    <2>1. /\ \A n \in Nodes : out[n] = {} /\ in[n] = {} /\ holder[n] = None
          /\ \A t \in Threads : pc[t] \in {"load", "dequeue"}
      BY DEF Init, Idle
    <2>2. out \in [Nodes -> SUBSET Edge] /\ holder \in [Nodes -> Threads \cup {None}]
      BY DEF Init
    <2>3. Ends /\ Unset
      BY <2>1 DEF Ends, Unset
    <2>4. Pending
      BY <2>1, GraphAssumption DEF Pending
    <2>5. \A t \in Threads : Holds(t)
      BY <2>1 DEF Holds
    <2> QED
      BY <2>2, <2>3, <2>4, <2>5 DEF MirrorInv
  <1>2. Inv /\ MirrorInv => Mirrored
    <2> SUFFICES ASSUME Inv, MirrorInv, NEW n \in Nodes, holder[n] = None
                 PROVE  /\ \A e \in out[n] : e \in in[Target[e]]
                        /\ \A e \in in[n]  : e \in out[Source[e]]
      BY DEF Mirrored
    <2>1. ASSUME NEW t \in Threads, pc[t] = "appendIn"
          PROVE  Source[hand[t]] # n /\ Target[hand[t]] # n
      BY <2>1 DEF MirrorInv, Holds, Threads, None
    <2>2. ASSUME NEW e \in Edge, Source[e] = n \/ Target[e] = n
          PROVE  e \in out[Source[e]] <=> e \in in[Target[e]]
      BY <2>1, <2>2 DEF MirrorInv, Pending
    <2> QED
      BY <2>2 DEF MirrorInv, Ends, Inv, Types
  <1> QED
    BY <1>1, <1>2, InvAlways, MirrorStep, PTL DEF Spec
=============================================================================
