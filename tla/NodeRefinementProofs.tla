------------------------ MODULE NodeRefinementProofs ------------------------
(***************************************************************************)
(* The protocol of NodeAgreement implements NodeReservation, for any       *)
(* number of ranks, calls and nodes.                                       *)
(***************************************************************************)
EXTENDS NodeRefinement, NodeAgreementProofs

(* The nodes a command on its way asks for.                                *)

DueIn(s) ==
    LET coming == {i \in 1 .. Len(s) : s[i].tag = "NEW_NODE_COMMAND"}
    IN  IF coming # {} THEN s[CHOOSE i \in coming : TRUE].n ELSE 0

LEMMA DueSplit ==
  ASSUME NEW p, NEW q
  PROVE  DueAt(p, q) = IF Forces(q, p) THEN lleft[q] ELSE DueIn(net[p][q])
  BY DEF DueAt, DueIn, Forces

LEMMA DueOfPosition ==
  ASSUME NEW s, AtMostOne(s, "NEW_NODE_COMMAND"),
         NEW i \in 1 .. Len(s), s[i].tag = "NEW_NODE_COMMAND"
  PROVE  DueIn(s) = s[i].n
  <1> DEFINE coming == {j \in 1 .. Len(s) : s[j].tag = "NEW_NODE_COMMAND"}
  <1>1. coming = {i}
    BY DEF AtMostOne
  <1>2. (CHOOSE j \in coming : TRUE) = i
    BY <1>1
  <1> QED
    BY <1>1, <1>2 DEF DueIn

LEMMA DueNone ==
  ASSUME NEW s, ~ Carries(s, "NEW_NODE_COMMAND")
  PROVE  DueIn(s) = 0
  BY DEF DueIn, Carries

LEMMA DueAppend ==
  ASSUME NEW s \in Seq(Messages), NEW m \in Messages, Orderly(s), Orderly(Append(s, m))
  PROVE  DueIn(Append(s, m)) = IF m.tag = "NEW_NODE_COMMAND" THEN m.n ELSE DueIn(s)
  <1> DEFINE t == Append(s, m)
  <1>1. Len(t) = Len(s) + 1 /\ t[Len(s) + 1] = m /\ Len(s) \in Nat
    OBVIOUS
  <1>2. \A i \in 1 .. Len(s) : t[i] = s[i] /\ i \in 1 .. Len(t)
    OBVIOUS
  <1>3. AtMostOne(t, "NEW_NODE_COMMAND") /\ AtMostOne(s, "NEW_NODE_COMMAND")
    BY DEF Orderly
  <1>4. Carries(t, "NEW_NODE_COMMAND") <=> Carries(s, "NEW_NODE_COMMAND") \/ m.tag = "NEW_NODE_COMMAND"
    BY CarriesAppend
  <1> HIDE DEF t
  <1>5. CASE m.tag = "NEW_NODE_COMMAND"
    <2>1. Len(s) + 1 \in 1 .. Len(t) /\ t[Len(s) + 1].tag = "NEW_NODE_COMMAND"
      BY <1>1, <1>5
    <2>2. DueIn(t) = t[Len(s) + 1].n
      BY <1>3, <2>1, DueOfPosition
    <2> QED
      BY <1>1, <1>5, <2>2 DEF t
  <1>6. CASE m.tag # "NEW_NODE_COMMAND" /\ Carries(s, "NEW_NODE_COMMAND")
    <2>1. PICK i \in 1 .. Len(s) : s[i].tag = "NEW_NODE_COMMAND"
      BY <1>6 DEF Carries
    <2>2. DueIn(s) = s[i].n
      BY <1>3, <2>1, DueOfPosition
    <2>3. i \in 1 .. Len(t) /\ t[i].tag = "NEW_NODE_COMMAND" /\ t[i] = s[i]
      BY <1>2, <2>1
    <2>4. DueIn(t) = t[i].n
      BY <1>3, <2>3, DueOfPosition
    <2> QED
      BY <1>6, <2>2, <2>3, <2>4 DEF t
  <1>7. CASE m.tag # "NEW_NODE_COMMAND" /\ ~ Carries(s, "NEW_NODE_COMMAND")
    <2>1. DueIn(s) = 0 /\ DueIn(t) = 0
      BY <1>4, <1>7, DueNone
    <2> QED
      BY <1>7, <2>1 DEF t
  <1> QED
    BY <1>5, <1>6, <1>7

LEMMA DueTail ==
  ASSUME NEW s \in Seq(Messages), s # <<>>, Orderly(s)
  PROVE  /\ Head(s).tag = "NEW_NODE_COMMAND" => DueIn(s) = Head(s).n /\ DueIn(Tail(s)) = 0
         /\ Head(s).tag # "NEW_NODE_COMMAND" => DueIn(Tail(s)) = DueIn(s)
  <1> DEFINE t == Tail(s)
  <1>1. Len(s) \in Nat \ {0} /\ Len(t) = Len(s) - 1 /\ Head(s) = s[1]
    OBVIOUS
  <1>2. \A i \in 1 .. Len(s) - 1 : t[i] = s[i + 1]
    OBVIOUS
  <1>3. AtMostOne(s, "NEW_NODE_COMMAND") /\ AtMostOne(t, "NEW_NODE_COMMAND")
        /\ (Head(s).tag = "NEW_NODE_COMMAND" => ~ Carries(t, "NEW_NODE_COMMAND"))
    BY OrderlyTail DEF Orderly
  <1>4. Carries(s, "NEW_NODE_COMMAND") <=> Head(s).tag = "NEW_NODE_COMMAND" \/ Carries(t, "NEW_NODE_COMMAND")
    BY CarriesTail
  <1> HIDE DEF t
  <1>5. CASE Head(s).tag = "NEW_NODE_COMMAND"
    <2>1. 1 \in 1 .. Len(s) /\ s[1].tag = "NEW_NODE_COMMAND"
      BY <1>1, <1>5
    <2>2. DueIn(s) = s[1].n
      BY <1>3, <2>1, DueOfPosition
    <2>3. DueIn(t) = 0
      BY <1>3, <1>5, DueNone
    <2> QED
      BY <1>1, <1>5, <2>2, <2>3 DEF t
  <1>6. CASE Head(s).tag # "NEW_NODE_COMMAND" /\ Carries(t, "NEW_NODE_COMMAND")
    <2>1. PICK i \in 1 .. Len(t) : t[i].tag = "NEW_NODE_COMMAND"
      BY <1>6 DEF Carries
    <2>2. i + 1 \in 1 .. Len(s) /\ s[i + 1] = t[i] /\ s[i + 1].tag = "NEW_NODE_COMMAND"
      BY <1>1, <1>2, <2>1
    <2>3. DueIn(t) = t[i].n
      BY <1>3, <2>1, DueOfPosition
    <2>4. DueIn(s) = s[i + 1].n
      BY <1>3, <2>2, DueOfPosition
    <2> QED
      BY <1>6, <2>2, <2>3, <2>4 DEF t
  <1>7. CASE Head(s).tag # "NEW_NODE_COMMAND" /\ ~ Carries(t, "NEW_NODE_COMMAND")
    <2>1. DueIn(s) = 0 /\ DueIn(t) = 0
      BY <1>4, <1>7, DueNone
    <2> QED
      BY <1>7, <2>1 DEF t
  <1> QED
    BY <1>5, <1>6, <1>7

-----------------------------------------------------------------------------
(* No rank sends messages to itself.                                       *)

NoSelf == \A r \in Ranks : net[r][r] = <<>>

\* A send to another rank.
LEMMA NoSelfSend ==
  ASSUME TypeOK, NoSelf, NEW r \in Ranks, NEW d \in Others(r), NEW m,
         net' = [net EXCEPT ![r][d] = Append(@, m)]
  PROVE  NoSelf'
  BY DEF TypeOK, NoSelf, Others

LEMMA NoSelfReceive ==
  ASSUME TypeOK, NoSelf, NEW r \in Ranks, NEW d \in Others(r), NEW tag, Receive(r, d, tag)
  PROVE  NoSelf'
  BY DEF TypeOK, NoSelf, Others, Receive

LEMMA NoSelfStep == TypeOK /\ HandshakeInv /\ NoSelf /\ [Next]_vars => NoSelf'
  <1> SUFFICES ASSUME TypeOK, HandshakeInv, NoSelf, [Next]_vars PROVE NoSelf'
    OBVIOUS
  <1>1. CASE net' = net
    BY <1>1 DEF NoSelf
  <1>2. ASSUME NEW r \in Ranks, NEW m, NEW next, SendLoop(r, m, next) PROVE NoSelf'
    <2>1. CASE unsent[r] = {}
      BY <1>1, <1>2, <2>1 DEF SendLoop
    <2>2. CASE unsent[r] # {}
      <3>1. PICK d \in unsent[r] : net' = [net EXCEPT ![r][d] = Append(@, m)]
        BY <1>2, <2>2 DEF SendLoop
      <3>2. d \in Others(r)
        BY <3>1 DEF HandshakeInv, RankInv
      <3> QED
        BY <3>1, <3>2, NoSelfSend
    <2> QED
      BY <2>1, <2>2
  <1>3. ASSUME NEW r \in Ranks, MainStep(r) PROVE NoSelf'
    <2>1. CASE SendRequests(r) \/ SendCommands(r)
      BY <1>2, <2>1 DEF SendRequests, SendCommands
    <2>2. CASE SendDeferredAck(r)
      <3> DEFINE d == ackStack[r][Len(ackStack[r])]
      <3>1. ackStack[r] \in Seq(Ranks) /\ ackStack[r] # <<>> /\ NoRepeat(ackStack[r])
            /\ ~ Member(ackStack[r], r)
        BY <2>2 DEF TypeOK, SendDeferredAck, HandshakeInv, RankInv
      <3>2. d \in Others(r)
        BY <3>1, PopStack DEF Others
      <3>3. net' = [net EXCEPT ![r][d] = Append(@, Ack)]
        BY <2>2 DEF SendDeferredAck
      <3> HIDE DEF d
      <3> QED
        BY <3>2, <3>3, NoSelfSend
    <2>3. CASE LockRequests(r) \/ MarkAdding(r) \/ TakeAcks(r) \/ AddOwnNode(r)
                 \/ ReleaseAdding(r) \/ ReturnIds(r)
      BY <1>1, <2>3 DEF LockRequests, MarkAdding, TakeAcks, AddOwnNode, ReleaseAdding, ReturnIds
    <2> QED
      BY <1>3, <2>1, <2>2, <2>3 DEF MainStep
  <1>4. ASSUME NEW r \in Ranks, ListenerStep(r) PROVE NoSelf'
    <2>1. CASE \E q \in Others(r) :
                 ReceiveRequest(r, q) \/ HandleAck(r, q) \/ ReceiveCommand(r, q)
      BY <2>1, NoSelfReceive DEF ReceiveRequest, HandleAck, ReceiveCommand
    <2>2. CASE ReplyToRequest(r)
      <3>1. CASE Defers(r, from[r])
        BY <1>1, <2>2, <3>1 DEF ReplyToRequest
      <3>2. CASE ~ Defers(r, from[r])
        <4> DEFINE d == from[r]
        <4>1. d \in Others(r) /\ net' = [net EXCEPT ![r][d] = Append(@, Ack)]
          BY <2>2, <3>2 DEF ReplyToRequest, HandshakeInv, RankInv
        <4> HIDE DEF d
        <4> QED
          BY <4>1, NoSelfSend
      <3> QED
        BY <3>1, <3>2
    <2>3. CASE CountRequest(r) \/ ForceAddNode(r) \/ FinishCommand(r)
      BY <1>1, <2>3 DEF CountRequest, ForceAddNode, FinishCommand
    <2> QED
      BY <1>4, <2>1, <2>2, <2>3 DEF ListenerStep
  <1> QED
    BY <1>1, <1>3, <1>4 DEF Next, BeginAdd, vars

LEMMA NoSelfHolds == Spec => []NoSelf
  <1>1. Init => NoSelf
    BY DEF Init, NoSelf
  <1> QED
    BY <1>1, NoSelfStep, TypeCorrect, HandshakeKept, PTL DEF Spec

-----------------------------------------------------------------------------
(* How the mapped variables change.                                        *)

\* A rank's stage, before and after a step.
LEMMA StageCases ==
  ASSUME NEW r \in Ranks, pc[r] \in MainStages, pc'[r] \in MainStages
  PROVE  /\ StageOf(r) = IF pc[r] = "idle" THEN "out"
                         ELSE IF pc[r] \in {"command", "add", "ack"} THEN "granted" ELSE "asking"
         /\ StageOf(r)' = IF pc'[r] = "idle" THEN "out"
                          ELSE IF pc'[r] \in {"command", "add", "ack"} THEN "granted" ELSE "asking"
  BY DEF StageOf, MainStages

\* A step the specification above does not see.
LEMMA Unseen ==
  ASSUME \A r \in Ranks : StageOf(r)' = StageOf(r),
         \A p, q \in Ranks : HoldsOver(p, q)' <=> HoldsOver(p, q),
         \A p, q \in Ranks : DueAt(p, q)' = DueAt(p, q),
         UNCHANGED <<want, left, maxNodes>>
  PROVE  UNCHANGED Reservation!vars
  <1>1. [r \in Ranks |-> StageOf(r)]' = [r \in Ranks |-> StageOf(r)]
    OBVIOUS
  <1>2. {h \in Ranks \X Ranks : HoldsOver(h[1], h[2])}'
            = {h \in Ranks \X Ranks : HoldsOver(h[1], h[2])}
    OBVIOUS
  <1>3. [p \in Ranks |-> [q \in Ranks |-> DueAt(p, q)]]'
            = [p \in Ranks |-> [q \in Ranks |-> DueAt(p, q)]]
    OBVIOUS
  <1> QED
    BY <1>1, <1>2, <1>3 DEF Reservation!vars

\* What is due stays when the channels and the handlers stay.
LEMMA DueStays ==
  ASSUME UNCHANGED <<net, lpc, from, lleft>>
  PROVE  \A p, q \in Ranks : DueAt(p, q)' = DueAt(p, q)
  BY DEF DueAt

\* A message sent to another rank.
IsCommand(m) == m.tag = "NEW_NODE_COMMAND"

LEMMA DueInSent ==
  ASSUME TypeOK, HandshakeInv, HandshakeInv', NEW r \in Ranks, NEW d \in Others(r),
         NEW m \in Messages, net' = [net EXCEPT ![r][d] = Append(@, m)]
  PROVE  \A p, q \in Ranks :
            DueIn(net'[p][q]) = IF p = r /\ q = d /\ IsCommand(m) THEN m.n ELSE DueIn(net[p][q])
  <1> TAKE p \in Ranks
  <1> TAKE q \in Ranks
  <1>1. d \in Ranks /\ Orderly(net[r][d]) /\ Orderly(net'[r][d])
    BY DEF HandshakeInv, Pairs, Others
  <1>2. /\ net[r][d] \in Seq(Messages)
        /\ net'[r][d] = Append(net[r][d], m)
        /\ ~ (p = r /\ q = d) => net'[p][q] = net[p][q]
    <2>1. net \in [Ranks -> [Ranks -> Seq(Messages)]]
      BY DEF TypeOK
    <2>2. net[r] \in [Ranks -> Seq(Messages)] /\ net[p] \in [Ranks -> Seq(Messages)]
          /\ net[r][d] \in Seq(Messages)
      BY <1>1, <2>1
    <2>3. net'[r] = [net[r] EXCEPT ![d] = Append(@, m)] /\ (p # r => net'[p] = net[p])
      BY <2>1
    <2> QED
      BY <1>1, <2>2, <2>3
  <1>3. DueIn(net'[r][d]) = IF IsCommand(m) THEN m.n ELSE DueIn(net[r][d])
    BY <1>1, <1>2, DueAppend DEF IsCommand
  <1> QED
    BY <1>2, <1>3

\* Any message but a command.
LEMMA OtherSent ==
  ASSUME TypeOK, HandshakeInv, HandshakeInv', NEW r \in Ranks, NEW d \in Others(r),
         NEW m \in Messages, ~ IsCommand(m), net' = [net EXCEPT ![r][d] = Append(@, m)]
  PROVE  \A p, q \in Ranks : DueIn(net'[p][q]) = DueIn(net[p][q])
  <1>1. \A p, q \in Ranks :
            DueIn(net'[p][q]) = IF p = r /\ q = d /\ IsCommand(m) THEN m.n ELSE DueIn(net[p][q])
    BY DueInSent
  <1> QED
    BY <1>1

\* The channels' part of what is due.
LEMMA DueFollows ==
  ASSUME \A p, q \in Ranks : DueIn(net'[p][q]) = DueIn(net[p][q]),
         UNCHANGED <<lpc, from, lleft>>
  PROVE  \A p, q \in Ranks : DueAt(p, q)' = DueAt(p, q)
  <1>1. \A p, q \in Ranks : DueAt(p, q) = IF Forces(q, p) THEN lleft[q] ELSE DueIn(net[p][q])
    BY DueSplit
  <1>2. \A p, q \in Ranks : DueAt(p, q)' = IF Forces(q, p) THEN lleft[q] ELSE DueIn(net'[p][q])
    BY DEF DueAt, DueIn, Forces
  <1> QED
    BY <1>1, <1>2

\* A message received.
LEMMA ReceivedFrom ==
  ASSUME TypeOK, HandshakeInv, NEW r \in Ranks, NEW d \in Others(r), NEW tag,
         Receive(r, d, tag)
  PROVE  /\ lpc[r] = "probe" /\ from'[r] = d
         /\ \A q \in Ranks : q # r => from'[q] = from[q]
         /\ tag = "NEW_NODE_COMMAND" =>
                DueIn(net[d][r]) = Head(net[d][r]).n /\ DueIn(net'[d][r]) = 0
         /\ tag # "NEW_NODE_COMMAND" => DueIn(net'[d][r]) = DueIn(net[d][r])
         /\ \A p, q \in Ranks : ~ (p = d /\ q = r) => DueIn(net'[p][q]) = DueIn(net[p][q])
  <1> DEFINE s == net[d][r]
  <1>1. d \in Ranks /\ d # r /\ Orderly(s)
    BY DEF HandshakeInv, Pairs, Others
  <1>2. s \in Seq(Messages) /\ s # <<>> /\ Head(s).tag = tag /\ lpc[r] = "probe"
    BY <1>1 DEF TypeOK, Receive
  <1>3. from'[r] = d /\ \A q \in Ranks : q # r => from'[q] = from[q]
    BY DEF TypeOK, Receive
  <1>4. /\ net'[d][r] = Tail(s)
        /\ \A p, q \in Ranks : ~ (p = d /\ q = r) => net'[p][q] = net[p][q]
    <2>1. net \in [Ranks -> [Ranks -> Seq(Messages)]]
          /\ net' = [net EXCEPT ![d][r] = Tail(@)]
      BY DEF TypeOK, Receive
    <2>2. \A p \in Ranks : net[p] \in [Ranks -> Seq(Messages)]
      BY <2>1
    <2>3. net'[d] = [net[d] EXCEPT ![r] = Tail(@)] /\ \A p \in Ranks : p # d => net'[p] = net[p]
      BY <1>1, <2>1
    <2> QED
      BY <1>1, <2>2, <2>3
  <1> HIDE DEF s
  <1>5. /\ Head(s).tag = "NEW_NODE_COMMAND" => DueIn(s) = Head(s).n /\ DueIn(Tail(s)) = 0
        /\ Head(s).tag # "NEW_NODE_COMMAND" => DueIn(Tail(s)) = DueIn(s)
    BY <1>1, <1>2, DueTail
  <1> QED
    BY <1>2, <1>3, <1>4, <1>5 DEF s

\* What is due before and after a step.
LEMMA DueCases ==
  \A p, q \in Ranks :
      /\ DueAt(p, q) = IF lpc[q] = "force" /\ from[q] = p THEN lleft[q] ELSE DueIn(net[p][q])
      /\ DueAt(p, q)' = IF lpc'[q] = "force" /\ from'[q] = p THEN lleft'[q] ELSE DueIn(net'[p][q])
  BY DEF DueAt, DueIn

-----------------------------------------------------------------------------
(* One lemma per kind of step.                                             *)

\* Asking for nodes.
LEMMA AskRefined ==
  ASSUME TypeOK, NEW r \in Ranks, NEW n \in 1 .. MaxNew, BeginAdd(r, n)
  PROVE  Reservation!Ask(r, n)
  <1>1. \A p, q \in Ranks : DueAt(p, q)' = DueAt(p, q)
    BY DueStays DEF BeginAdd, listenerVars
  <1>2. \A x \in Ranks : pc'[x] = IF x = r THEN "lock" ELSE pc[x]
    BY DEF TypeOK, BeginAdd
  <1>3. \A p, q \in Ranks : HoldsOver(p, q)' <=> HoldsOver(p, q)
    BY <1>2 DEF HoldsOver, BeginAdd
  <1>4. \A x \in Ranks : StageOf(x)' = IF x = r THEN "asking" ELSE StageOf(x)
    <2> TAKE x \in Ranks
    <2>1. CASE x = r
      BY <1>2, <2>1 DEF StageOf
    <2>2. CASE x # r
      BY <1>2, <2>2, StageCases DEF TypeOK, MainStages
    <2> QED
      BY <2>1, <2>2
  <1>5. StageOf(r) = "out"
    BY DEF StageOf, BeginAdd
  <1>6. [x \in Ranks |-> StageOf(x)]' = [[x \in Ranks |-> StageOf(x)] EXCEPT ![r] = "asking"]
    BY <1>4
  <1>7. UNCHANGED {h \in Ranks \X Ranks : HoldsOver(h[1], h[2])}
    BY <1>3
  <1>8. UNCHANGED [p \in Ranks |-> [q \in Ranks |-> DueAt(p, q)]]
    BY <1>1
  <1> QED
    BY <1>5, <1>6, <1>7, <1>8 DEF Reservation!Ask, BeginAdd

\* The main thread moves on within the same stage of the specification.
LEMMA StageStays ==
  ASSUME TypeOK, TypeOK', NEW r \in Ranks, NEW next,
         pc' = [pc EXCEPT ![r] = next],
         \/ pc[r] \in {"lock", "mark", "request", "await"}
                /\ next \in {"lock", "mark", "request", "await"}
         \/ pc[r] \in {"command", "add", "ack"} /\ next \in {"command", "add", "ack"}
  PROVE  \A x \in Ranks : StageOf(x)' = StageOf(x)
  <1> TAKE x \in Ranks
  <1>1. pc'[x] = IF x = r THEN next ELSE pc[x]
    BY DEF TypeOK
  <1>2. pc[x] \in MainStages /\ pc'[x] \in MainStages
    BY DEF TypeOK
  <1>3. /\ StageOf(x) = IF pc[x] = "idle" THEN "out"
                        ELSE IF pc[x] \in {"command", "add", "ack"} THEN "granted" ELSE "asking"
        /\ StageOf(x)' = IF pc'[x] = "idle" THEN "out"
                         ELSE IF pc'[x] \in {"command", "add", "ack"} THEN "granted" ELSE "asking"
    BY <1>2, StageCases
  <1>4. CASE x = r
    BY <1>1, <1>3, <1>4
  <1>5. CASE x # r
    BY <1>1, <1>3, <1>5
  <1> QED
    BY <1>4, <1>5

\* A step that leaves the main threads' stages and their loops alone.
LEMMA MainUnseen ==
  ASSUME UNCHANGED <<pc, want, unsent, left, maxNodes>>,
         \A p, q \in Ranks : DueAt(p, q)' = DueAt(p, q)
  PROVE  UNCHANGED Reservation!vars
  <1>1. \A r \in Ranks : StageOf(r)' = StageOf(r)
    BY DEF StageOf
  <1>2. \A p, q \in Ranks : HoldsOver(p, q)' <=> HoldsOver(p, q)
    BY DEF HoldsOver
  <1> QED
    BY <1>1, <1>2, Unseen

LEMMA WaitingUnseen ==
  ASSUME TypeOK, TypeOK', NEW r \in Ranks, LockRequests(r) \/ MarkAdding(r)
  PROVE  UNCHANGED Reservation!vars
  <1> DEFINE next == IF pc[r] = "lock" THEN "mark" ELSE "request"
  <1>1. pc[r] \in {"lock", "mark"} /\ pc' = [pc EXCEPT ![r] = next]
        /\ UNCHANGED <<want, left, maxNodes, net, lpc, from, lleft>>
        /\ \A x \in Ranks : x # r => unsent'[x] = unsent[x]
    BY DEF LockRequests, MarkAdding, listenerVars, TypeOK
  <1>2. \A x \in Ranks : StageOf(x)' = StageOf(x)
    BY <1>1, StageStays
  <1>3. \A x \in Ranks : pc'[x] = IF x = r THEN next ELSE pc[x]
    BY <1>1 DEF TypeOK
  <1>4. \A p, q \in Ranks : HoldsOver(p, q)' <=> HoldsOver(p, q)
    BY <1>1, <1>3 DEF HoldsOver
  <1>5. \A p, q \in Ranks : DueAt(p, q)' = DueAt(p, q)
    BY <1>1, DueStays
  <1> QED
    BY <1>1, <1>2, <1>4, <1>5, Unseen

LEMMA SendRequestsUnseen ==
  ASSUME TypeOK, TypeOK', HandshakeInv, HandshakeInv', NEW r \in Ranks, SendRequests(r)
  PROVE  UNCHANGED Reservation!vars
  <1> DEFINE m == Request(want[r])
  <1>1. pc[r] = "request" /\ SendLoop(r, m, "await")
        /\ UNCHANGED <<want, left, maxNodes, lpc, from, lleft>>
    BY DEF SendRequests, listenerVars
  <1>2. m \in Messages /\ ~ IsCommand(m)
    <2>1. m \in Messages
      BY MessagesType DEF TypeOK
    <2> QED
      BY <2>1 DEF Request, IsCommand
  <1> HIDE DEF m
  <1>3. CASE unsent[r] = {}
    <2>1. pc' = [pc EXCEPT ![r] = "await"] /\ UNCHANGED <<net, unsent>>
      BY <1>1, <1>3 DEF SendLoop
    <2>2. \A x \in Ranks : StageOf(x)' = StageOf(x)
      BY <1>1, <2>1, StageStays
    <2>3. \A x \in Ranks : pc'[x] = IF x = r THEN "await" ELSE pc[x]
      BY <2>1 DEF TypeOK
    <2>4. \A p, q \in Ranks : HoldsOver(p, q)' <=> HoldsOver(p, q)
      BY <1>1, <2>1, <2>3 DEF HoldsOver
    <2>5. \A p, q \in Ranks : DueAt(p, q)' = DueAt(p, q)
      BY <1>1, <2>1, DueStays
    <2> QED
      BY <1>1, <2>2, <2>4, <2>5, Unseen
  <1>4. CASE unsent[r] # {}
    <2>1. PICK d \in unsent[r] : /\ net' = [net EXCEPT ![r][d] = Append(@, m)]
                                 /\ unsent' = [unsent EXCEPT ![r] = @ \ {d}]
                                 /\ UNCHANGED pc
      BY <1>1, <1>4 DEF SendLoop
    <2>2. d \in Others(r)
      BY <2>1 DEF HandshakeInv, RankInv
    <2>3. \A p, q \in Ranks : DueIn(net'[p][q]) = DueIn(net[p][q])
      BY <1>2, <2>1, <2>2, OtherSent
    <2>4. \A p, q \in Ranks : DueAt(p, q)' = DueAt(p, q)
      BY <1>1, <2>3, DueFollows
    <2>5. \A x \in Ranks : x # r => unsent'[x] = unsent[x]
      BY <2>1 DEF TypeOK
    <2>6. \A x \in Ranks : StageOf(x)' = StageOf(x)
      BY <2>1 DEF StageOf
    <2>7. \A p, q \in Ranks : HoldsOver(p, q)' <=> HoldsOver(p, q)
      BY <1>1, <2>1, <2>5 DEF HoldsOver
    <2> QED
      BY <1>1, <2>4, <2>6, <2>7, Unseen
  <1> QED
    BY <1>3, <1>4

LEMMA DeferredAckUnseen ==
  ASSUME TypeOK, HandshakeInv, HandshakeInv', NEW r \in Ranks, SendDeferredAck(r)
  PROVE  UNCHANGED Reservation!vars
  <1> DEFINE d == ackStack[r][Len(ackStack[r])]
  <1>1. ackStack[r] \in Seq(Ranks) /\ ackStack[r] # <<>> /\ NoRepeat(ackStack[r])
        /\ ~ Member(ackStack[r], r)
    BY DEF TypeOK, SendDeferredAck, HandshakeInv, RankInv
  <1>2. d \in Others(r)
    BY <1>1, PopStack DEF Others
  <1>3. net' = [net EXCEPT ![r][d] = Append(@, Ack)]
        /\ UNCHANGED <<pc, want, unsent, left, maxNodes, lpc, from, lleft>>
    BY DEF SendDeferredAck, mainVars, listenerVars
  <1> HIDE DEF d
  <1>4. Ack \in Messages /\ ~ IsCommand(Ack)
    BY MessagesType DEF Ack, IsCommand
  <1>5. \A p, q \in Ranks : DueIn(net'[p][q]) = DueIn(net[p][q])
    BY <1>2, <1>3, <1>4, OtherSent
  <1>6. \A p, q \in Ranks : DueAt(p, q)' = DueAt(p, q)
    BY <1>3, <1>5, DueFollows
  <1> QED
    BY <1>3, <1>6, MainUnseen

LEMMA ReplyUnseen ==
  ASSUME TypeOK, HandshakeInv, HandshakeInv', NEW r \in Ranks, ReplyToRequest(r)
  PROVE  UNCHANGED Reservation!vars
  <1>1. UNCHANGED <<pc, want, unsent, left, maxNodes, from, lleft>> /\ lpc[r] = "reply"
        /\ lpc' = [lpc EXCEPT ![r] = "probe"]
    BY DEF ReplyToRequest, mainVars
  <1>2. \A q \in Ranks : lpc'[q] = IF q = r THEN "probe" ELSE lpc[q]
    BY <1>1 DEF TypeOK
  <1>3. \A q \in Ranks : (lpc'[q] = "force") <=> (lpc[q] = "force")
    BY <1>1, <1>2
  <1>6. \A p, q \in Ranks : DueIn(net'[p][q]) = DueIn(net[p][q])
    <2>1. CASE Defers(r, from[r])
      BY <2>1 DEF ReplyToRequest
    <2>2. CASE ~ Defers(r, from[r])
      <3> DEFINE d == from[r]
      <3>1. d \in Others(r) /\ net' = [net EXCEPT ![r][d] = Append(@, Ack)]
        BY <2>2 DEF ReplyToRequest, HandshakeInv, RankInv
      <3> HIDE DEF d
      <3>2. Ack \in Messages /\ ~ IsCommand(Ack)
        BY MessagesType DEF Ack, IsCommand
      <3> QED
        BY <3>1, <3>2, OtherSent
    <2> QED
      BY <2>1, <2>2
  <1>7. \A p, q \in Ranks : DueAt(p, q)' = DueAt(p, q)
    BY <1>1, <1>3, <1>6, DueCases
  <1> QED
    BY <1>1, <1>7, MainUnseen

LEMMA ReceiptUnseen ==
  ASSUME TypeOK, HandshakeInv, NEW r \in Ranks, NEW d \in Others(r),
         ReceiveRequest(r, d) \/ HandleAck(r, d) \/ ReceiveCommand(r, d)
  PROVE  UNCHANGED Reservation!vars
  <1>1. UNCHANGED <<pc, want, unsent, left, maxNodes>>
    BY DEF ReceiveRequest, HandleAck, ReceiveCommand, mainVars
  <1>2. ASSUME NEW tag, tag \in {"NEW_NODE_REQUEST", "NEW_NODE_ACK"}, Receive(r, d, tag),
               lpc'[r] # "force", \A q \in Ranks : q # r => lpc'[q] = lpc[q],
               lleft' = lleft
        PROVE  \A p, q \in Ranks : DueAt(p, q)' = DueAt(p, q)
    <2>1. /\ lpc[r] = "probe" /\ \A q \in Ranks : q # r => from'[q] = from[q]
          /\ tag # "NEW_NODE_COMMAND" => DueIn(net'[d][r]) = DueIn(net[d][r])
          /\ \A p, q \in Ranks : ~ (p = d /\ q = r) => DueIn(net'[p][q]) = DueIn(net[p][q])
      BY <1>2, ReceivedFrom
    <2>2. \A p, q \in Ranks : DueIn(net'[p][q]) = DueIn(net[p][q])
      BY <1>2, <2>1
    <2> QED
      BY <1>2, <2>1, <2>2, DueCases
  <1>3. CASE ReceiveRequest(r, d)
    <2>1. Receive(r, d, "NEW_NODE_REQUEST") /\ lleft' = lleft
          /\ lpc'[r] # "force" /\ \A q \in Ranks : q # r => lpc'[q] = lpc[q]
      BY <1>3 DEF ReceiveRequest, TypeOK
    <2> QED
      BY <1>1, <1>2, <2>1, MainUnseen
  <1>4. CASE HandleAck(r, d)
    <2>1. Receive(r, d, "NEW_NODE_ACK") /\ lleft' = lleft
          /\ lpc'[r] # "force" /\ \A q \in Ranks : q # r => lpc'[q] = lpc[q]
      BY <1>4 DEF HandleAck, Receive
    <2> QED
      BY <1>1, <1>2, <2>1, MainUnseen
  <1>5. CASE ReceiveCommand(r, d)
    <2>1. Receive(r, d, "NEW_NODE_COMMAND")
      BY <1>5 DEF ReceiveCommand
    <2>2. lpc'[r] = "force" /\ lleft'[r] = Head(net[d][r]).n
          /\ \A q \in Ranks : q # r => lpc'[q] = lpc[q] /\ lleft'[q] = lleft[q]
      BY <1>5 DEF ReceiveCommand, TypeOK
    <2>3. /\ lpc[r] = "probe" /\ from'[r] = d
          /\ \A q \in Ranks : q # r => from'[q] = from[q]
          /\ DueIn(net[d][r]) = Head(net[d][r]).n
          /\ \A p, q \in Ranks : ~ (p = d /\ q = r) => DueIn(net'[p][q]) = DueIn(net[p][q])
      BY <2>1, ReceivedFrom
    <2>4. \A p, q \in Ranks : DueAt(p, q)' = DueAt(p, q)
      BY <2>2, <2>3, DueCases
    <2> QED
      BY <1>1, <2>4, MainUnseen
  <1> QED
    BY <1>3, <1>4, <1>5

LEMMA CountUnseen ==
  ASSUME TypeOK, NEW r \in Ranks, CountRequest(r)
  PROVE  UNCHANGED Reservation!vars
  <1>1. UNCHANGED <<pc, want, unsent, left, maxNodes, from, lleft, net>> /\ lpc[r] = "count"
        /\ lpc' = [lpc EXCEPT ![r] = "reply"]
    BY DEF CountRequest, mainVars
  <1>2. \A q \in Ranks : (lpc'[q] = "force") <=> (lpc[q] = "force")
    BY <1>1 DEF TypeOK
  <1>3. \A p, q \in Ranks : DueAt(p, q)' = DueAt(p, q)
    BY <1>1, <1>2 DEF DueAt
  <1> QED
    BY <1>1, <1>3, MainUnseen

LEMMA FinishUnseen ==
  ASSUME TypeOK, HandshakeInv, NEW r \in Ranks, FinishCommand(r)
  PROVE  UNCHANGED Reservation!vars
  <1>1. UNCHANGED <<pc, want, unsent, left, maxNodes, from, lleft, net>> /\ lpc[r] = "force"
        /\ lleft[r] = 0 /\ lpc' = [lpc EXCEPT ![r] = "probe"]
    BY DEF FinishCommand, mainVars
  <1>2. \A q \in Ranks : lpc'[q] = IF q = r THEN "probe" ELSE lpc[q]
    BY <1>1 DEF TypeOK
  <1>3. from[r] \in Ranks /\ DueIn(net[from[r]][r]) = 0
    <2>1. from[r] \in Others(r) /\ Forces(r, from[r])
      BY <1>1 DEF HandshakeInv, RankInv, Forces
    <2>2. from[r] \in Ranks /\ ~ CmdSent(from[r], r)
      BY <2>1, PairFacts DEF PairInv, Alone
    <2> QED
      BY <2>2, DueNone DEF CmdSent
  <1>4. \A p, q \in Ranks :
            /\ DueAt(p, q) = IF lpc[q] = "force" /\ from[q] = p THEN lleft[q] ELSE DueIn(net[p][q])
            /\ DueAt(p, q)' = IF lpc'[q] = "force" /\ from[q] = p THEN lleft[q] ELSE DueIn(net[p][q])
    BY <1>1 DEF DueAt, DueIn
  <1>5. \A p, q \in Ranks : DueAt(p, q)' = DueAt(p, q)
    BY <1>1, <1>2, <1>3, <1>4
  <1> QED
    BY <1>1, <1>5, MainUnseen

\* A step of the listener that adds a node for another rank's call.
LEMMA ForceRefined ==
  ASSUME TypeOK, HandshakeInv, NEW r \in Ranks, ForceAddNode(r)
  PROVE  \E p \in Ranks : Reservation!AddDue(p, r)
  <1> DEFINE d == from[r]
  <1>1. UNCHANGED <<pc, want, unsent, left, lpc, from, net>> /\ lpc[r] = "force"
        /\ lleft[r] > 0
    BY DEF ForceAddNode, mainVars
  <1>2. d \in Ranks
    BY DEF TypeOK
  <1>3. lleft'[r] = lleft[r] - 1 /\ \A q \in Ranks : q # r => lleft'[q] = lleft[q]
    BY DEF ForceAddNode, TypeOK
  <1>4. DueAt(d, r) = lleft[r]
    BY <1>1, <1>2, DueCases
  <1>5. \A p, q \in Ranks :
            DueAt(p, q)' = IF p = d /\ q = r THEN DueAt(d, r) - 1 ELSE DueAt(p, q)
    <2> TAKE p \in Ranks
    <2> TAKE q \in Ranks
    <2>1. CASE q = r
      BY <1>1, <1>3, <1>4, <2>1, DueCases
    <2>2. CASE q # r
      BY <1>1, <1>3, <2>2, DueCases
    <2> QED
      BY <2>1, <2>2
  <1> HIDE DEF d
  <1>6. [p \in Ranks |-> [q \in Ranks |-> DueAt(p, q)]]'
            = [[p \in Ranks |-> [q \in Ranks |-> DueAt(p, q)]] EXCEPT ![d][r] = @ - 1]
    BY <1>2, <1>5
  <1>7. UNCHANGED [x \in Ranks |-> StageOf(x)]
    BY <1>1 DEF StageOf
  <1>8. UNCHANGED {h \in Ranks \X Ranks : HoldsOver(h[1], h[2])}
    BY <1>1 DEF HoldsOver
  <1>9. [p \in Ranks |-> [q \in Ranks |-> DueAt(p, q)]][d][r] > 0
    BY <1>1, <1>2, <1>4
  <1> QED
    BY <1>1, <1>2, <1>6, <1>7, <1>8, <1>9 DEF Reservation!AddDue, ForceAddNode

\* The stages after the main thread's step to another stage.
LEMMA StageMoves ==
  ASSUME TypeOK, TypeOK', NEW r \in Ranks, NEW next, NEW above,
         pc' = [pc EXCEPT ![r] = next],
         above = IF next = "idle" THEN "out"
                 ELSE IF next \in {"command", "add", "ack"} THEN "granted" ELSE "asking"
  PROVE  [x \in Ranks |-> StageOf(x)]' = [[x \in Ranks |-> StageOf(x)] EXCEPT ![r] = above]
  <1>1. ASSUME NEW x \in Ranks PROVE StageOf(x)' = IF x = r THEN above ELSE StageOf(x)
    <2>1. pc'[x] = IF x = r THEN next ELSE pc[x]
      BY DEF TypeOK
    <2>2. pc[x] \in MainStages /\ pc'[x] \in MainStages
      BY DEF TypeOK
    <2>3. /\ StageOf(x) = IF pc[x] = "idle" THEN "out"
                          ELSE IF pc[x] \in {"command", "add", "ack"} THEN "granted" ELSE "asking"
          /\ StageOf(x)' = IF pc'[x] = "idle" THEN "out"
                           ELSE IF pc'[x] \in {"command", "add", "ack"} THEN "granted" ELSE "asking"
      BY <2>2, StageCases
    <2>4. CASE x = r
      BY <2>1, <2>3, <2>4
    <2>5. CASE x # r
      BY <2>1, <2>3, <2>5
    <2> QED
      BY <2>4, <2>5
  <1> QED
    BY <1>1

\* With every ack in, no rank holds over r, and r owes nobody nodes.
LEMMA NothingOwed ==
  ASSUME TypeOK, HandshakeInv, NoSelf, NEW r \in Ranks, numAcks[r] = N - 1
  PROVE  \A q \in Ranks : ~ HoldsOver(q, r) /\ DueAt(q, r) = 0
  <1> TAKE q \in Ranks
  <1>1. CASE q = r
    <2>1. RankInv(r) /\ net[r][r] = <<>>
      BY DEF HandshakeInv, NoSelf
    <2>2. ~ Carries(net[r][r], "NEW_NODE_COMMAND")
      BY <2>1 DEF Carries
    <2>3. r \notin unsent[r] /\ ~ Forces(r, r)
      BY <2>1 DEF RankInv, Forces, Others
    <2> QED
      BY <1>1, <2>2, <2>3, DueNone, DueSplit DEF HoldsOver
  <1>2. CASE q # r
    <2>1. q \in Others(r) /\ r \in Others(q)
      BY <1>2 DEF Others
    <2>2. Answered(r, q) /\ PairInv(r, q)
      BY <2>1, AllAnswered, PairFacts
    <2>3. ~ HoldsOver(q, r)
      BY <2>1, <2>2, HolderAlone
    <2>4. ~ CmdSent(q, r) /\ ~ Forces(r, q)
      BY <2>2 DEF PairInv, Commanded
    <2> QED
      BY <2>3, <2>4, DueNone, DueSplit DEF CmdSent
  <1> QED
    BY <1>1, <1>2

LEMMA GrantRefined ==
  ASSUME TypeOK, TypeOK', HandshakeInv, NoSelf, NEW r \in Ranks, TakeAcks(r)
  PROVE  Reservation!Grant(r)
  <1>1. /\ pc[r] = "await" /\ numAcks[r] = N - 1
        /\ pc' = [pc EXCEPT ![r] = "command"] /\ left' = [left EXCEPT ![r] = want[r]]
        /\ UNCHANGED <<want, maxNodes, net, lpc, from, lleft>>
        /\ \A x \in Ranks : unsent'[x] = IF x = r THEN Others(r) ELSE unsent[x]
    BY DEF TakeAcks, TypeOK, listenerVars
  <1>2. \A q \in Ranks : ~ HoldsOver(q, r) /\ DueAt(q, r) = 0
    BY <1>1, NothingOwed
  <1>3. StageOf(r) = "asking"
    BY <1>1 DEF StageOf
  <1>4. [x \in Ranks |-> StageOf(x)]' = [[x \in Ranks |-> StageOf(x)] EXCEPT ![r] = "granted"]
    BY <1>1, StageMoves
  <1>5. UNCHANGED [p \in Ranks |-> [q \in Ranks |-> DueAt(p, q)]]
    BY <1>1, DueStays
  <1>6. \A x \in Ranks : pc'[x] = IF x = r THEN "command" ELSE pc[x]
    BY <1>1 DEF TypeOK
  <1>7. \A p, q \in Ranks : HoldsOver(p, q)' <=> HoldsOver(p, q) \/ (p = r /\ q \in Ranks \ {r})
    BY <1>1, <1>6 DEF HoldsOver, Others
  <1>8. {h \in Ranks \X Ranks : HoldsOver(h[1], h[2])}'
            = {h \in Ranks \X Ranks : HoldsOver(h[1], h[2])} \cup ({r} \X (Ranks \ {r}))
    BY <1>7
  <1>9. \A q \in Ranks : /\ <<q, r>> \notin {h \in Ranks \X Ranks : HoldsOver(h[1], h[2])}
                         /\ [p \in Ranks |-> [x \in Ranks |-> DueAt(p, x)]][q][r] = 0
    BY <1>2
  <1> QED
    BY <1>1, <1>3, <1>4, <1>5, <1>8, <1>9 DEF Reservation!Grant

LEMMA TellRefined ==
  ASSUME TypeOK, HandshakeInv, HandshakeInv', NEW r \in Ranks, NEW d \in Others(r),
         HoldsOver(r, d), net' = [net EXCEPT ![r][d] = Append(@, Command(want[r]))],
         unsent' = [unsent EXCEPT ![r] = @ \ {d}],
         UNCHANGED <<pc, want, left, maxNodes, lpc, from, lleft>>
  PROVE  Reservation!Tell(r, d)
  <1> DEFINE m == Command(want[r])
  <1>1. m \in Messages
    BY MessagesType DEF TypeOK
  <1>2. IsCommand(m) /\ m.n = want[r]
    BY DEF IsCommand, Command
  <1> HIDE DEF m
  <1>3. \A p, q \in Ranks :
            DueIn(net'[p][q]) = IF p = r /\ q = d /\ IsCommand(m) THEN m.n ELSE DueIn(net[p][q])
    BY ZenonT(30), <1>1, DueInSent DEF m
  <1>4. d \in Ranks /\ d # r /\ ~ CmdSent(r, d) /\ ~ Forces(d, r)
    BY HolderAlone DEF Commanded, Others
  <1>5. DueAt(r, d) = 0
    BY <1>4, DueSplit, DueNone DEF CmdSent
  <1>6. \A p, q \in Ranks : DueAt(p, q)' = IF p = r /\ q = d THEN want[r] ELSE DueAt(p, q)
    BY <1>2, <1>3, <1>4, DueCases DEF Forces
  <1>7. \A p \in Ranks : unsent'[p] = IF p = r THEN unsent[r] \ {d} ELSE unsent[p]
    BY DEF TypeOK
  <1>8. \A p, q \in Ranks : HoldsOver(p, q)' <=> HoldsOver(p, q) /\ ~ (p = r /\ q = d)
    BY <1>7 DEF HoldsOver
  <1>9. {h \in Ranks \X Ranks : HoldsOver(h[1], h[2])}'
            = {h \in Ranks \X Ranks : HoldsOver(h[1], h[2])} \ {<<r, d>>}
    BY <1>8
  <1>10. [p \in Ranks |-> [q \in Ranks |-> DueAt(p, q)]]'
            = [[p \in Ranks |-> [q \in Ranks |-> DueAt(p, q)]] EXCEPT ![r][d] = want[r]]
    BY ZenonT(30), <1>4, <1>6
  <1>11. UNCHANGED [x \in Ranks |-> StageOf(x)]
    BY DEF StageOf
  <1>12. /\ <<r, d>> \in {h \in Ranks \X Ranks : HoldsOver(h[1], h[2])}
         /\ [p \in Ranks |-> [x \in Ranks |-> DueAt(p, x)]][r][d] = 0
    BY <1>4, <1>5
  <1> QED
    BY <1>9, <1>10, <1>11, <1>12 DEF Reservation!Tell

LEMMA SendCommandsRefined ==
  ASSUME TypeOK, TypeOK', HandshakeInv, HandshakeInv', NEW r \in Ranks, SendCommands(r)
  PROVE  (\E q \in Ranks : Reservation!Tell(r, q)) \/ UNCHANGED Reservation!vars
  <1>1. pc[r] = "command" /\ SendLoop(r, Command(want[r]), "add")
        /\ UNCHANGED <<want, left, maxNodes, lpc, from, lleft>>
    BY DEF SendCommands, listenerVars
  <1>2. CASE unsent[r] = {}
    <2>1. pc' = [pc EXCEPT ![r] = "add"] /\ UNCHANGED <<net, unsent>>
      BY <1>1, <1>2 DEF SendLoop
    <2>2. \A x \in Ranks : StageOf(x)' = StageOf(x)
      BY <1>1, <2>1, StageStays
    <2>3. \A x \in Ranks : pc'[x] = IF x = r THEN "add" ELSE pc[x]
      BY <2>1 DEF TypeOK
    <2>4. \A p, q \in Ranks : HoldsOver(p, q)' <=> HoldsOver(p, q)
      BY <1>1, <1>2, <2>1, <2>3 DEF HoldsOver
    <2>5. \A p, q \in Ranks : DueAt(p, q)' = DueAt(p, q)
      BY <1>1, <2>1, DueStays
    <2> QED
      BY <1>1, <2>2, <2>4, <2>5, Unseen
  <1>3. CASE unsent[r] # {}
    <2>1. PICK d \in unsent[r] : /\ net' = [net EXCEPT ![r][d] = Append(@, Command(want[r]))]
                                 /\ unsent' = [unsent EXCEPT ![r] = @ \ {d}]
                                 /\ UNCHANGED pc
      BY <1>1, <1>3 DEF SendLoop
    <2>2. d \in Others(r)
      BY <2>1 DEF HandshakeInv, RankInv
    <2>3. HoldsOver(r, d)
      BY <1>1, <2>1 DEF HoldsOver
    <2>4. Reservation!Tell(r, d)
      BY <1>1, <2>1, <2>2, <2>3, TellRefined
    <2> QED
      BY <2>2, <2>4 DEF Others
  <1> QED
    BY <1>2, <1>3

LEMMA OwnRefined ==
  ASSUME TypeOK, NEW r \in Ranks, AddOwnNode(r)
  PROVE  Reservation!AddOwn(r)
  <1>1. pc[r] = "add" /\ UNCHANGED <<pc, want, unsent, lpc, from, lleft, net>>
    BY DEF AddOwnNode, listenerVars
  <1>2. UNCHANGED [x \in Ranks |-> StageOf(x)]
    BY <1>1 DEF StageOf
  <1>3. UNCHANGED {h \in Ranks \X Ranks : HoldsOver(h[1], h[2])}
    BY <1>1 DEF HoldsOver
  <1>4. UNCHANGED [p \in Ranks |-> [q \in Ranks |-> DueAt(p, q)]]
    BY <1>1, DueStays
  <1>5. \A q \in Ranks : <<r, q>> \notin {h \in Ranks \X Ranks : HoldsOver(h[1], h[2])}
    BY <1>1 DEF HoldsOver
  <1> QED
    BY <1>1, <1>2, <1>3, <1>4, <1>5 DEF Reservation!AddOwn, AddOwnNode

LEMMA ReleaseUnseen ==
  ASSUME TypeOK, TypeOK', NEW r \in Ranks, ReleaseAdding(r)
  PROVE  UNCHANGED Reservation!vars
  <1>1. pc[r] = "add" /\ pc' = [pc EXCEPT ![r] = "ack"]
        /\ UNCHANGED <<want, unsent, left, maxNodes, net, lpc, from, lleft>>
    BY DEF ReleaseAdding, listenerVars
  <1>2. \A x \in Ranks : StageOf(x)' = StageOf(x)
    BY <1>1, StageStays
  <1>3. \A x \in Ranks : pc'[x] = IF x = r THEN "ack" ELSE pc[x]
    BY <1>1 DEF TypeOK
  <1>4. \A p, q \in Ranks : HoldsOver(p, q)' <=> HoldsOver(p, q)
    BY <1>1, <1>3 DEF HoldsOver
  <1>5. \A p, q \in Ranks : DueAt(p, q)' = DueAt(p, q)
    BY <1>1, DueStays
  <1> QED
    BY <1>1, <1>2, <1>4, <1>5, Unseen

LEMMA ReturnRefined ==
  ASSUME TypeOK, TypeOK', HandshakeInv, NEW r \in Ranks, ReturnIds(r)
  PROVE  Reservation!Return(r)
  <1>1. pc[r] = "ack" /\ pc' = [pc EXCEPT ![r] = "idle"]
        /\ UNCHANGED <<want, unsent, left, maxNodes, net, lpc, from, lleft>>
    BY DEF ReturnIds, listenerVars
  <1>2. StageOf(r) = "granted"
    BY <1>1 DEF StageOf
  <1>3. [x \in Ranks |-> StageOf(x)]' = [[x \in Ranks |-> StageOf(x)] EXCEPT ![r] = "out"]
    BY <1>1, StageMoves
  <1>4. left[r] = 0
    BY <1>1 DEF HandshakeInv, RankInv
  <1>5. \A x \in Ranks : pc'[x] = IF x = r THEN "idle" ELSE pc[x]
    BY <1>1 DEF TypeOK
  <1>6. UNCHANGED {h \in Ranks \X Ranks : HoldsOver(h[1], h[2])}
    BY <1>1, <1>5 DEF HoldsOver
  <1>7. UNCHANGED [p \in Ranks |-> [q \in Ranks |-> DueAt(p, q)]]
    BY <1>1, DueStays
  <1> QED
    BY <1>1, <1>2, <1>3, <1>4, <1>6, <1>7 DEF Reservation!Return

-----------------------------------------------------------------------------
LEMMA RefinementInit == Init => Reservation!Init
  <1> SUFFICES ASSUME Init PROVE Reservation!Init
    OBVIOUS
  <1>1. \A p, q \in Ranks : net[p][q] = <<>> /\ lpc[q] = "probe" /\ pc[p] = "idle"
    BY DEF Init
  <1>2. \A p, q \in Ranks : ~ Carries(net[p][q], "NEW_NODE_COMMAND")
    BY <1>1 DEF Carries
  <1>3. \A p, q \in Ranks : DueAt(p, q) = 0
    BY <1>1, <1>2, DueNone, DueSplit DEF Forces
  <1>4. \A r \in Ranks : StageOf(r) = "out"
    BY <1>1 DEF StageOf
  <1>5. {h \in Ranks \X Ranks : HoldsOver(h[1], h[2])} = {}
    BY <1>1 DEF HoldsOver
  <1> QED
    BY <1>3, <1>4, <1>5 DEF Init, Reservation!Init

LEMMA RefinementStep ==
    TypeOK /\ TypeOK' /\ HandshakeInv /\ HandshakeInv' /\ NoSelf /\ [Next]_vars
        => [Reservation!Next]_(Reservation!vars)
  <1> SUFFICES ASSUME TypeOK, TypeOK', HandshakeInv, HandshakeInv', NoSelf, [Next]_vars
               PROVE  Reservation!Next \/ UNCHANGED Reservation!vars
    OBVIOUS
  <1>1. CASE UNCHANGED vars
    <2>1. UNCHANGED <<pc, want, unsent, left, maxNodes, net, lpc, from, lleft>>
      BY <1>1 DEF vars, mainVars, listenerVars
    <2> QED
      BY <2>1, DueStays, MainUnseen
  <1>2. ASSUME NEW r \in Ranks, NEW n \in 1 .. MaxNew, BeginAdd(r, n)
        PROVE  Reservation!Next
    BY <1>2, AskRefined DEF Reservation!Next
  <1>3. ASSUME NEW r \in Ranks, MainStep(r)
        PROVE  Reservation!Next \/ UNCHANGED Reservation!vars
    <2>1. CASE LockRequests(r) \/ MarkAdding(r)
      BY <2>1, WaitingUnseen
    <2>2. CASE SendRequests(r)
      BY <2>2, SendRequestsUnseen
    <2>3. CASE TakeAcks(r)
      BY <2>3, GrantRefined DEF Reservation!Next
    <2>4. CASE SendCommands(r)
      BY <2>4, SendCommandsRefined DEF Reservation!Next
    <2>5. CASE AddOwnNode(r)
      BY <2>5, OwnRefined DEF Reservation!Next
    <2>6. CASE ReleaseAdding(r)
      BY <2>6, ReleaseUnseen
    <2>7. CASE SendDeferredAck(r)
      BY <2>7, DeferredAckUnseen
    <2>8. CASE ReturnIds(r)
      BY <2>8, ReturnRefined DEF Reservation!Next
    <2> QED
      BY <1>3, <2>1, <2>2, <2>3, <2>4, <2>5, <2>6, <2>7, <2>8 DEF MainStep
  <1>4. ASSUME NEW r \in Ranks, ListenerStep(r)
        PROVE  Reservation!Next \/ UNCHANGED Reservation!vars
    <2>1. CASE \E q \in Others(r) :
                 ReceiveRequest(r, q) \/ HandleAck(r, q) \/ ReceiveCommand(r, q)
      BY <2>1, ReceiptUnseen
    <2>2. CASE CountRequest(r)
      BY <2>2, CountUnseen
    <2>3. CASE ReplyToRequest(r)
      BY <2>3, ReplyUnseen
    <2>4. CASE ForceAddNode(r)
      BY <2>4, ForceRefined DEF Reservation!Next
    <2>5. CASE FinishCommand(r)
      BY <2>5, FinishUnseen
    <2> QED
      BY <1>4, <2>1, <2>2, <2>3, <2>4, <2>5 DEF ListenerStep
  <1> QED
    BY <1>1, <1>2, <1>3, <1>4 DEF Next

\* The protocol of add_nodes and of the NEW_NODE_* handlers carries out the
\* reservations of NodeReservation: every step grants, hands on or ends a
\* reservation, adds a node it allows, or is not seen there at all.
THEOREM RefinesReservation == Spec => ImplementsReservation
  BY TypeCorrect, HandshakeKept, NoSelfHolds, RefinementInit, RefinementStep, PTL
     DEF Spec, ImplementsReservation, Reservation!Spec
=============================================================================
