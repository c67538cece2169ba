------------------------ MODULE NodeAgreementProofs ------------------------
(***************************************************************************)
(* Proofs about NodeAgreement for any number of ranks, calls and nodes.    *)
(***************************************************************************)
EXTENDS NodeHandshake, SequenceTheorems, FiniteSetTheorems, TLAPS

(***************************************************************************)
(* The three messages are messages, and a send or a receive leaves the     *)
(* channels well typed.                                                    *)
(***************************************************************************)
LEMMA MessagesType ==
    /\ Ack \in Messages
    /\ \A n \in Nat : Request(n) \in Messages /\ Command(n) \in Messages
  BY DEF Ack, Request, Command, Messages, Tags

\* Appending to one channel keeps the channels well typed.
LEMMA SendType ==
  ASSUME TypeOK, NEW p \in Ranks, NEW q \in Ranks, NEW m \in Messages
  PROVE  [net EXCEPT ![p][q] = Append(@, m)] \in [Ranks -> [Ranks -> Seq(Messages)]]
  <1>1. net[p] \in [Ranks -> Seq(Messages)] /\ net[p][q] \in Seq(Messages)
    BY DEF TypeOK
  <1>2. Append(net[p][q], m) \in Seq(Messages)
    BY <1>1, AppendProperties
  <1>3. [net[p] EXCEPT ![q] = Append(net[p][q], m)] \in [Ranks -> Seq(Messages)]
    BY <1>1, <1>2
  <1> QED
    BY <1>3 DEF TypeOK

\* Taking the first message of a channel: it is a message, and the channels
\* stay well typed.
LEMMA ReceiveType ==
  ASSUME TypeOK, NEW r \in Ranks, NEW q \in Ranks, NEW tag, Receive(r, q, tag)
  PROVE  /\ net' \in [Ranks -> [Ranks -> Seq(Messages)]]
         /\ from' \in [Ranks -> Ranks]
         /\ Head(net[q][r]) \in Messages
  <1>1. net[q][r] \in Seq(Messages) /\ net[q][r] # <<>>
    BY DEF TypeOK, Receive
  <1>2. Tail(net[q][r]) \in Seq(Messages) /\ Head(net[q][r]) \in Messages
    BY <1>1, HeadTailProperties
  <1> QED
    BY <1>2 DEF TypeOK, Receive

\* One pass of a send loop, whatever valid message it sends.
LEMMA SendLoopType ==
  ASSUME TypeOK, NEW r \in Ranks, NEW m \in Messages, NEW next \in MainStages,
         SendLoop(r, m, next)
  PROVE  /\ net' \in [Ranks -> [Ranks -> Seq(Messages)]]
         /\ unsent' \in [Ranks -> SUBSET Ranks]
         /\ pc' \in [Ranks -> MainStages]
  <1>1. CASE unsent[r] = {} /\ UNCHANGED <<net, unsent>> /\ pc' = [pc EXCEPT ![r] = next]
    BY <1>1 DEF TypeOK
  <1>2. CASE \E q \in unsent[r] : /\ net' = [net EXCEPT ![r][q] = Append(@, m)]
                                  /\ unsent' = [unsent EXCEPT ![r] = @ \ {q}]
                                  /\ UNCHANGED pc
    <2>1. PICK q \in unsent[r] : /\ net' = [net EXCEPT ![r][q] = Append(@, m)]
                                 /\ unsent' = [unsent EXCEPT ![r] = @ \ {q}]
                                 /\ UNCHANGED pc
      BY <1>2
    <2>2. q \in Ranks
      BY <2>1 DEF TypeOK
    <2>3. net' \in [Ranks -> [Ranks -> Seq(Messages)]]
      BY <2>1, <2>2, SendType
    <2> QED
      BY <2>1, <2>3 DEF TypeOK
  <1> QED
    BY <1>1, <1>2 DEF SendLoop

(***************************************************************************)
(* Type correctness.                                                       *)
(***************************************************************************)
LEMMA TypeInit == Init => TypeOK
  BY ConstantsAssumption, EmptySeq
     DEF Init, TypeOK, Ranks, MainStages, ListenerStages, Owners

LEMMA TypeStep == TypeOK /\ [Next]_vars => TypeOK'
  <1> SUFFICES ASSUME TypeOK, [Next]_vars PROVE TypeOK'
    OBVIOUS
  <1> USE DEF MainStages, ListenerStages, Owners
  <1>1. CASE UNCHANGED vars
    BY <1>1 DEF TypeOK, vars, mainVars, listenerVars, sharedVars
  <1>2. ASSUME NEW r \in Ranks, NEW n \in 1 .. MaxNew, BeginAdd(r, n) PROVE TypeOK'
    <2>1. n \in Nat
      BY ConstantsAssumption
    <2>2. calls' \in [Ranks -> Nat]
      BY <1>2 DEF TypeOK, BeginAdd
    <2> QED
      BY <1>2, <2>1, <2>2 DEF TypeOK, BeginAdd, listenerVars, sharedVars
  <1>3. ASSUME NEW r \in Ranks, LockRequests(r) PROVE TypeOK'
    BY <1>3 DEF TypeOK, LockRequests, listenerVars
  <1>4. ASSUME NEW r \in Ranks, MarkAdding(r) PROVE TypeOK'
    BY <1>4 DEF TypeOK, MarkAdding, Others, listenerVars
  <1>5. ASSUME NEW r \in Ranks, SendRequests(r) PROVE TypeOK'
    <2>1. Request(want[r]) \in Messages
      BY MessagesType DEF TypeOK
    <2>2. /\ net' \in [Ranks -> [Ranks -> Seq(Messages)]]
          /\ unsent' \in [Ranks -> SUBSET Ranks]
          /\ pc' \in [Ranks -> MainStages]
      BY <1>5, <2>1, SendLoopType DEF SendRequests
    <2> QED
      BY <1>5, <2>2 DEF TypeOK, SendRequests, listenerVars, sharedVars
  <1>6. ASSUME NEW r \in Ranks, TakeAcks(r) PROVE TypeOK'
    BY <1>6 DEF TypeOK, TakeAcks, Others, listenerVars
  <1>7. ASSUME NEW r \in Ranks, SendCommands(r) PROVE TypeOK'
    <2>1. Command(want[r]) \in Messages
      BY MessagesType DEF TypeOK
    <2>2. /\ net' \in [Ranks -> [Ranks -> Seq(Messages)]]
          /\ unsent' \in [Ranks -> SUBSET Ranks]
          /\ pc' \in [Ranks -> MainStages]
      BY <1>7, <2>1, SendLoopType DEF SendCommands
    <2> QED
      BY <1>7, <2>2 DEF TypeOK, SendCommands, listenerVars, sharedVars
  <1>8. ASSUME NEW r \in Ranks, AddOwnNode(r) PROVE TypeOK'
    <2>1. left[r] - 1 \in Nat /\ maxNodes[r] + 1 \in Nat
      BY <1>8 DEF TypeOK, AddOwnNode
    <2>2. left' \in [Ranks -> Nat] /\ maxNodes' \in [Ranks -> Nat] /\ lastId' \in [Ranks -> Nat]
      BY <1>8, <2>1 DEF TypeOK, AddOwnNode
    <2> QED
      BY <1>8, <2>2 DEF TypeOK, AddOwnNode, listenerVars, sharedVars
  <1>9. ASSUME NEW r \in Ranks, ReleaseAdding(r) PROVE TypeOK'
    BY <1>9 DEF TypeOK, ReleaseAdding, listenerVars
  <1>10. ASSUME NEW r \in Ranks, SendDeferredAck(r) PROVE TypeOK'
    <2> DEFINE s == ackStack[r]
               top == s[Len(s)]
    <2>1. s \in Seq(Ranks) /\ s # <<>> /\ Len(s) \in 1 .. Len(s)
      BY <1>10 DEF TypeOK, SendDeferredAck
    <2>2. top \in Ranks
      BY <2>1
    <2>3. SubSeq(s, 1, Len(s) - 1) \in Seq(Ranks)
      BY <2>1
    <2>4. net' \in [Ranks -> [Ranks -> Seq(Messages)]]
      BY <1>10, <2>2, MessagesType, SendType DEF SendDeferredAck
    <2> QED
      BY <1>10, <2>3, <2>4 DEF TypeOK, SendDeferredAck, mainVars, listenerVars
  <1>11. ASSUME NEW r \in Ranks, ReturnIds(r) PROVE TypeOK'
    BY SMTT(30), <1>11 DEF TypeOK, ReturnIds, listenerVars, sharedVars
  <1>12. ASSUME NEW r \in Ranks, NEW q \in Others(r), ReceiveRequest(r, q) PROVE TypeOK'
    BY <1>12, ReceiveType DEF TypeOK, ReceiveRequest, Others, mainVars, sharedVars
  <1>13. ASSUME NEW r \in Ranks, CountRequest(r) PROVE TypeOK'
    <2>1. numRequests' \in [Ranks -> Int]
      BY <1>13 DEF TypeOK, CountRequest
    <2>2. reqLock' \in [Ranks -> Owners] /\ lpc' \in [Ranks -> ListenerStages]
      BY <1>13 DEF TypeOK, CountRequest
    <2> QED
      BY <1>13, <2>1, <2>2 DEF TypeOK, CountRequest, mainVars
  <1>14. ASSUME NEW r \in Ranks, ReplyToRequest(r) PROVE TypeOK'
    <2>1. from[r] \in Ranks
      BY DEF TypeOK
    <2>2. net' \in [Ranks -> [Ranks -> Seq(Messages)]]
      <3>1. [net EXCEPT ![r][from[r]] = Append(@, Ack)] \in [Ranks -> [Ranks -> Seq(Messages)]]
        BY <2>1, MessagesType, SendType
      <3> QED
        BY <1>14, <3>1 DEF TypeOK, ReplyToRequest
    <2>3. ackStack' \in [Ranks -> Seq(Ranks)]
      <3>1. Append(ackStack[r], from[r]) \in Seq(Ranks)
        BY <2>1, AppendProperties DEF TypeOK
      <3> QED
        BY <1>14, <3>1 DEF TypeOK, ReplyToRequest
    <2> QED
      BY <1>14, <2>2, <2>3 DEF TypeOK, ReplyToRequest, mainVars
  <1>15. ASSUME NEW r \in Ranks, NEW q \in Others(r), HandleAck(r, q) PROVE TypeOK'
    <2>1. /\ net' \in [Ranks -> [Ranks -> Seq(Messages)]]
          /\ from' \in [Ranks -> Ranks]
      BY <1>15, ReceiveType DEF HandleAck, Others
    <2>2. numAcks' \in [Ranks -> Nat]
      BY <1>15 DEF TypeOK, HandleAck
    <2> QED
      BY <1>15, <2>1, <2>2 DEF TypeOK, HandleAck, mainVars
  <1>16. ASSUME NEW r \in Ranks, NEW q \in Others(r), ReceiveCommand(r, q) PROVE TypeOK'
    BY <1>16, ReceiveType DEF TypeOK, ReceiveCommand, Messages, Others, mainVars, sharedVars
  <1>17. ASSUME NEW r \in Ranks, ForceAddNode(r) PROVE TypeOK'
    <2>1. lleft[r] - 1 \in Nat /\ maxNodes[r] + 1 \in Nat
      BY <1>17 DEF TypeOK, ForceAddNode
    <2>2. lleft' \in [Ranks -> Nat] /\ maxNodes' \in [Ranks -> Nat]
      BY <1>17, <2>1 DEF TypeOK, ForceAddNode
    <2> QED
      BY <1>17, <2>2 DEF TypeOK, ForceAddNode, mainVars, sharedVars
  <1>18. ASSUME NEW r \in Ranks, FinishCommand(r) PROVE TypeOK'
    <2>1. numRequests' \in [Ranks -> Int]
      BY <1>18 DEF TypeOK, FinishCommand
    <2>2. reqLock' \in [Ranks -> Owners] /\ lpc' \in [Ranks -> ListenerStages]
      BY <1>18 DEF TypeOK, FinishCommand
    <2> QED
      BY <1>18, <2>1, <2>2 DEF TypeOK, FinishCommand, mainVars
  <1> QED
    BY <1>1, <1>2, <1>3, <1>4, <1>5, <1>6, <1>7, <1>8, <1>9, <1>10, <1>11, <1>12,
       <1>13, <1>14, <1>15, <1>16, <1>17, <1>18 DEF Next, MainStep, ListenerStep

\* The variables of the protocol keep their types.
THEOREM TypeCorrect == Spec => []TypeOK
  BY TypeInit, TypeStep, PTL DEF Spec

-----------------------------------------------------------------------------
(* Channels: what they carry, and that they stay orderly.                  *)

\* One more message.
LEMMA CarriesAppend ==
  ASSUME NEW s \in Seq(Messages), NEW m \in Messages, NEW tag
  PROVE  Carries(Append(s, m), tag) <=> Carries(s, tag) \/ m.tag = tag
  <1>1. Len(Append(s, m)) = Len(s) + 1 /\ Append(s, m)[Len(s) + 1] = m
    OBVIOUS
  <1>2. \A i \in 1 .. Len(s) : Append(s, m)[i] = s[i]
    OBVIOUS
  <1>3. Len(s) \in Nat
    OBVIOUS
  <1> QED
    BY <1>1, <1>2, <1>3 DEF Carries

\* The first message and the others.
LEMMA CarriesTail ==
  ASSUME NEW s \in Seq(Messages), s # <<>>, NEW tag
  PROVE  Carries(s, tag) <=> Head(s).tag = tag \/ Carries(Tail(s), tag)
  <1>1. Len(s) \in Nat \ {0} /\ Len(Tail(s)) = Len(s) - 1 /\ Head(s) = s[1]
    OBVIOUS
  <1>2. \A i \in 1 .. Len(s) - 1 : Tail(s)[i] = s[i + 1]
    OBVIOUS
  <1>3. ASSUME Carries(s, tag), Head(s).tag # tag PROVE Carries(Tail(s), tag)
    <2>1. PICK i \in 1 .. Len(s) : s[i].tag = tag
      BY <1>3 DEF Carries
    <2>2. i - 1 \in 1 .. Len(s) - 1
      BY <2>1, <1>1, <1>3
    <2>3. Tail(s)[i - 1] = s[i]
      BY <2>2, <1>2, <1>1
    <2> QED
      BY <2>1, <2>2, <2>3, <1>1 DEF Carries
  <1>4. ASSUME Carries(Tail(s), tag) PROVE Carries(s, tag)
    <2>1. PICK i \in 1 .. Len(s) - 1 : Tail(s)[i].tag = tag
      BY <1>4, <1>1 DEF Carries
    <2>2. i + 1 \in 1 .. Len(s) /\ s[i + 1].tag = tag
      BY <2>1, <1>1, <1>2
    <2> QED
      BY <2>2 DEF Carries
  <1>5. ASSUME Head(s).tag = tag PROVE Carries(s, tag)
    BY <1>5, <1>1 DEF Carries
  <1> QED
    BY <1>3, <1>4, <1>5

\* A message may be added to an orderly channel when the channel carries none
\* of its kind, and, if it is a command, no request and no ack.
LEMMA OrderlyAppend ==
  ASSUME NEW s \in Seq(Messages), NEW m \in Messages, Orderly(s),
         m.tag = "NEW_EDGE" \/ ~ Carries(s, m.tag),
         m.tag = "NEW_NODE_COMMAND" =>
             ~ Carries(s, "NEW_NODE_REQUEST") /\ ~ Carries(s, "NEW_NODE_ACK")
  PROVE  Orderly(Append(s, m))
  <1> DEFINE t == Append(s, m)
  <1>1. Len(t) = Len(s) + 1 /\ t[Len(s) + 1] = m /\ Len(s) \in Nat
    OBVIOUS
  <1>2. \A i \in 1 .. Len(s) : t[i] = s[i]
    OBVIOUS
  <1>3. \A i \in 1 .. Len(t) : i \in 1 .. Len(s) \/ i = Len(s) + 1
    BY <1>1
  <1> HIDE DEF t
  <1>4. ASSUME NEW tag, AtMostOne(s, tag), m.tag = tag => ~ Carries(s, tag)
        PROVE  AtMostOne(t, tag)
    BY <1>1, <1>2, <1>3, <1>4 DEF AtMostOne, Carries
  <1>5. ASSUME NEW tag, Before(s, "NEW_NODE_COMMAND", tag), tag # "NEW_NODE_COMMAND",
               m.tag = "NEW_NODE_COMMAND" => ~ Carries(s, tag)
        PROVE  Before(t, "NEW_NODE_COMMAND", tag)
    BY <1>1, <1>2, <1>3, <1>5 DEF Before, Carries
  <1> QED
    BY <1>4, <1>5 DEF Orderly, t

\* The first message of an orderly channel is the only one of its kind, and
\* has no command behind it if it is a request or an ack.
LEMMA OrderlyTail ==
  ASSUME NEW s \in Seq(Messages), s # <<>>, Orderly(s)
  PROVE  /\ Orderly(Tail(s))
         /\ \A tag \in {"NEW_NODE_REQUEST", "NEW_NODE_ACK", "NEW_NODE_COMMAND"} :
                Head(s).tag = tag => ~ Carries(Tail(s), tag)
         /\ Head(s).tag \in {"NEW_NODE_REQUEST", "NEW_NODE_ACK"} =>
                ~ Carries(s, "NEW_NODE_COMMAND")
  <1> DEFINE t == Tail(s)
  <1>1. Len(s) \in Nat \ {0} /\ Len(t) = Len(s) - 1 /\ Head(s) = s[1]
    OBVIOUS
  <1>2. \A i \in 1 .. Len(s) - 1 : t[i] = s[i + 1]
    OBVIOUS
  <1>3. \A i \in 1 .. Len(t) : i \in Int /\ i + 1 \in 1 .. Len(s) /\ t[i] = s[i + 1] /\ i + 1 # 1
    BY <1>1, <1>2
  <1> HIDE DEF t
  <1>4. ASSUME NEW tag, AtMostOne(s, tag)
        PROVE  AtMostOne(t, tag) /\ (Head(s).tag = tag => ~ Carries(t, tag))
    <2>1. AtMostOne(t, tag)
      BY <1>3, <1>4 DEF AtMostOne
    <2>2. ASSUME Head(s).tag = tag, NEW i \in 1 .. Len(t), t[i].tag = tag PROVE FALSE
      BY <2>2, <1>1, <1>3, <1>4 DEF AtMostOne
    <2> QED
      BY <2>1, <2>2 DEF Carries
  <1>5. ASSUME NEW first, NEW tag, Before(s, first, tag)
        PROVE  Before(t, first, tag) /\ (Head(s).tag = tag => ~ Carries(s, first))
    <2>1. Before(t, first, tag)
      BY <1>3, <1>5 DEF Before
    <2>2. ASSUME Head(s).tag = tag, NEW i \in 1 .. Len(s), s[i].tag = first PROVE FALSE
      BY <2>2, <1>1, <1>5 DEF Before
    <2> QED
      BY <2>1, <2>2 DEF Carries
  <1> QED
    BY <1>4, <1>5 DEF Orderly, t

\* What the channels carry after a send.
LEMMA SendCarries ==
  ASSUME TypeOK, NEW r \in Ranks, NEW d \in Ranks, NEW m \in Messages,
         net' = [net EXCEPT ![r][d] = Append(@, m)]
  PROVE  \A p, q \in Ranks : \A tag :
            Carries(net'[p][q], tag) <=>
                Carries(net[p][q], tag) \/ (p = r /\ q = d /\ m.tag = tag)
  <1> SUFFICES ASSUME NEW p \in Ranks, NEW q \in Ranks, NEW tag
               PROVE  Carries(net'[p][q], tag) <=>
                          Carries(net[p][q], tag) \/ (p = r /\ q = d /\ m.tag = tag)
    OBVIOUS
  <1>1. /\ net[p][q] \in Seq(Messages)
        /\ (p = r /\ q = d) => net'[p][q] = Append(net[p][q], m)
        /\ ~ (p = r /\ q = d) => net'[p][q] = net[p][q]
    <2>1. net \in [Ranks -> [Ranks -> Seq(Messages)]]
      BY DEF TypeOK
    <2>2. net' = [net EXCEPT ![r] = [net[r] EXCEPT ![d] = Append(net[r][d], m)]]
      OBVIOUS
    <2>3. net'[r] = [net[r] EXCEPT ![d] = Append(net[r][d], m)]
      BY <2>1, <2>2
    <2>4. p # r => net'[p] = net[p]
      BY <2>1, <2>2
    <2>5. net'[r][d] = Append(net[r][d], m) /\ (q # d => net'[r][q] = net[r][q])
      BY <2>1, <2>3
    <2> QED
      BY <2>1, <2>4, <2>5
  <1> QED
    BY <1>1, CarriesAppend

\* A send that keeps the channels orderly.
LEMMA SendOrderly ==
  ASSUME TypeOK, Pairs, NEW r \in Ranks, NEW d \in Ranks, NEW m \in Messages,
         net' = [net EXCEPT ![r][d] = Append(@, m)],
         m.tag = "NEW_EDGE" \/ ~ Carries(net[r][d], m.tag),
         m.tag = "NEW_NODE_COMMAND" =>
             ~ Carries(net[r][d], "NEW_NODE_REQUEST") /\ ~ Carries(net[r][d], "NEW_NODE_ACK")
  PROVE  \A p \in Ranks : \A q \in Others(p) : Orderly(net'[p][q])
  <1> TAKE p \in Ranks
  <1> TAKE q \in Others(p)
  <1>1. q \in Ranks /\ net[p][q] \in Seq(Messages) /\ Orderly(net[p][q])
    BY DEF TypeOK, Pairs, Others
  <1>2. CASE p = r /\ q = d
    <2>1. net'[p][q] = Append(net[p][q], m)
      BY <1>1, <1>2 DEF TypeOK
    <2> QED
      BY <1>1, <1>2, <2>1, OrderlyAppend
  <1>3. CASE ~ (p = r /\ q = d)
    <2>1. net'[p][q] = net[p][q]
      BY <1>1, <1>3 DEF TypeOK
    <2> QED
      BY <1>1, <2>1
  <1> QED
    BY <1>2, <1>3

\* What the channels carry after a receipt.
LEMMA ReceiveEffect ==
  ASSUME TypeOK, Pairs, NEW r \in Ranks, NEW d \in Others(r), NEW tag, Receive(r, d, tag)
  PROVE  /\ \A p \in Ranks : \A q \in Others(p) : Orderly(net'[p][q])
         /\ \A p, q \in Ranks :
                \A t \in {"NEW_NODE_REQUEST", "NEW_NODE_ACK", "NEW_NODE_COMMAND"} :
                    Carries(net'[p][q], t) <=>
                    Carries(net[p][q], t) /\ ~ (p = d /\ q = r /\ t = tag)
         /\ Carries(net[d][r], tag)
         /\ tag \in {"NEW_NODE_REQUEST", "NEW_NODE_ACK"} => ~ Carries(net[d][r], "NEW_NODE_COMMAND")
  <1> DEFINE s == net[d][r]
  <1>1. d \in Ranks /\ r \in Others(d)
    BY DEF Others
  <1>2. s \in Seq(Messages) /\ s # <<>> /\ Head(s).tag = tag /\ Orderly(s)
    BY <1>1 DEF TypeOK, Pairs, Receive
  <1>3. net' = [net EXCEPT ![d][r] = Tail(@)]
    BY DEF Receive
  <1>4. net'[d][r] = Tail(s)
    BY <1>1, <1>3 DEF TypeOK
  <1>5. ASSUME NEW p \in Ranks, NEW q \in Ranks, ~ (p = d /\ q = r) PROVE net'[p][q] = net[p][q]
    BY <1>3, <1>5 DEF TypeOK
  <1> HIDE DEF s
  <1>6. ASSUME NEW p \in Ranks, NEW q \in Others(p) PROVE Orderly(net'[p][q])
    <2>1. q \in Ranks /\ Orderly(net[p][q])
      BY <1>6 DEF Pairs, Others
    <2> QED
      BY <2>1, <1>2, <1>4, <1>5, OrderlyTail
  <1>7. ASSUME NEW p \in Ranks, NEW q \in Ranks,
               NEW t \in {"NEW_NODE_REQUEST", "NEW_NODE_ACK", "NEW_NODE_COMMAND"}
        PROVE  Carries(net'[p][q], t) <=>
                    Carries(net[p][q], t) /\ ~ (p = d /\ q = r /\ t = tag)
    <2>1. CASE p = d /\ q = r
      <3>1. Carries(s, t) <=> Head(s).tag = t \/ Carries(Tail(s), t)
        BY <1>2, CarriesTail
      <3>2. Head(s).tag = t => ~ Carries(Tail(s), t)
        BY <1>2, OrderlyTail
      <3> QED
        BY <2>1, <3>1, <3>2, <1>2, <1>4 DEF s
    <2>2. CASE ~ (p = d /\ q = r)
      BY <1>5, <2>2
    <2> QED
      BY <2>1, <2>2
  <1>8. Carries(s, tag)
    BY <1>2, CarriesTail
  <1>9. tag \in {"NEW_NODE_REQUEST", "NEW_NODE_ACK"} => ~ Carries(s, "NEW_NODE_COMMAND")
    BY <1>2, OrderlyTail
  <1> QED
    BY <1>6, <1>7, <1>8, <1>9 DEF s

-----------------------------------------------------------------------------
(* Using the invariant.                                                    *)

\* What the invariant says of two ranks.
LEMMA PairFacts ==
  ASSUME HandshakeInv, NEW p \in Ranks, NEW q \in Others(p)
  PROVE  /\ q \in Ranks /\ p # q /\ p \in Others(q)
         /\ Orderly(net[p][q]) /\ Orderly(net[q][p])
         /\ PairInv(p, q) /\ PairInv(q, p) /\ RankInv(p) /\ RankInv(q)
  BY DEF HandshakeInv, Pairs, Others

\* There are N - 1 other ranks.
LEMMA OthersFinite ==
  ASSUME NEW r \in Ranks
  PROVE  IsFiniteSet(Others(r)) /\ Cardinality(Others(r)) = N - 1
  <1>1. IsFiniteSet(Ranks) /\ Cardinality(Ranks) = N
    BY ConstantsAssumption, FS_Interval DEF Ranks
  <1> QED
    BY <1>1, FS_RemoveElement DEF Others

\* The lock is held for every request counted.
LEMMA CountedLocks ==
  ASSUME HandshakeInv, NEW p \in Ranks, NEW q \in Others(p), Counted(p, q)
  PROVE  numRequests[q] > 0 /\ reqLock[q] = "listener"
  <1> DEFINE S == {x \in Others(q) : Counted(x, q)}
  <1>1. q \in Ranks /\ p \in S /\ RankInv(q) /\ CountInv(q)
    BY PairFacts DEF HandshakeInv, Others
  <1>2. IsFiniteSet(S)
    BY <1>1, OthersFinite, FS_Subset
  <1>3. Cardinality(S) \in Nat /\ Cardinality(S) # 0
    BY <1>1, <1>2, FS_CardinalityType, FS_EmptySet
  <1> QED
    BY <1>1, <1>3 DEF RankInv, CountInv

\* Counts stay when the sets they count stay.
LEMMA KeepCounts ==
  ASSUME NEW x \in Ranks, CountInv(x),
         \A q \in Others(x) : (Counted(q, x)' <=> Counted(q, x))
                              /\ (Answered(x, q)' <=> Answered(x, q)),
         numRequests'[x] = numRequests[x], numAcks'[x] = numAcks[x]
  PROVE  CountInv(x)'
  <1>1. {q \in Others(x) : Counted(q, x)'} = {q \in Others(x) : Counted(q, x)}
    OBVIOUS
  <1>2. {q \in Others(x) : Answered(x, q)'} = {q \in Others(x) : Answered(x, q)}
    OBVIOUS
  <1> QED
    BY <1>1, <1>2 DEF CountInv

\* The counters count something.
LEMMA CountsType ==
  ASSUME HandshakeInv, NEW r \in Ranks
  PROVE  numRequests[r] \in Nat /\ numAcks[r] \in Nat
  <1>1. \A S \in SUBSET Others(r) : Cardinality(S) \in Nat
    BY OthersFinite, FS_Subset, FS_CardinalityType
  <1> QED
    BY <1>1 DEF HandshakeInv, CountInv

\* So it is held for every rank that was given the right to go ahead.
LEMMA GrantedLocks ==
  ASSUME HandshakeInv, NEW p \in Ranks, NEW q \in Others(p), Granted(p, q)
  PROVE  reqLock[q] = "listener"
  BY CountedLocks DEF Granted, Counted

\* The invariant after a step that moves no counter.
LEMMA AllKept ==
  ASSUME HandshakeInv, UNCHANGED <<numRequests, numAcks>>,
         \A p \in Ranks : \A q \in Others(p) :
            /\ PairInv(p, q)' /\ Orderly(net'[p][q])
            /\ Counted(p, q)' <=> Counted(p, q)
            /\ Answered(p, q)' <=> Answered(p, q),
         \A x \in Ranks : RankInv(x)'
  PROVE  HandshakeInv'
  <1>1. ASSUME NEW x \in Ranks PROVE CountInv(x)'
    <2>1. \A q \in Others(x) : q \in Ranks /\ x \in Others(q)
      BY DEF Others
    <2> QED
      BY <2>1, KeepCounts DEF HandshakeInv
  <1> QED
    BY <1>1 DEF HandshakeInv, Pairs, Others

-----------------------------------------------------------------------------
(* Each step of the main thread keeps the invariant.                       *)

\* A rank that takes the lock has counted nobody: it has granted nobody.
LEMMA LockRequestsKeeps ==
  ASSUME TypeOK, HandshakeInv, NEW r \in Ranks, LockRequests(r)
  PROVE  HandshakeInv'
  <1>1. /\ \A x \in Ranks : /\ pc'[x] = IF x = r THEN "mark" ELSE pc[x]
                            /\ reqLock'[x] = IF x = r THEN "main" ELSE reqLock[x]
        /\ pc[r] = "lock" /\ reqLock[r] = "none"
        /\ UNCHANGED <<net, lpc, from, ackStack, unsent, selfAdding, numRequests, numAcks, left>>
    BY DEF LockRequests, listenerVars, TypeOK
  <1>2. ASSUME NEW p \in Ranks, NEW q \in Others(p)
        PROVE  /\ PairInv(p, q)' /\ Orderly(net'[p][q])
               /\ Counted(p, q)' <=> Counted(p, q)
               /\ Answered(p, q)' <=> Answered(p, q)
    <2>1. q \in Ranks /\ p # q
      BY DEF Others
    <2>2. Granted(p, q) => q # r
      BY <1>1, GrantedLocks
    <2>9. PairInv(p, q) /\ PairInv(q, p) /\ Orderly(net[p][q])
      BY PairFacts
    <2> QED
      BY <1>1, <2>1, <2>2, <2>9
         DEF PairInv, Alone, UnderWay, Answered, Commanded, Promised, Counted, Granted,
             Asks, HoldsOver, ReqSent, AckSent, CmdSent, Counts, Replies, Forces, Stacked
  <1>3. ASSUME NEW x \in Ranks PROVE RankInv(x)'
    <2>1. RankInv(x)
      BY DEF HandshakeInv
    <2> QED
      BY <1>1, <2>1 DEF RankInv
  <1> QED
    BY <1>1, <1>2, <1>3, AllKept

LEMMA BeginAddKeeps ==
  ASSUME TypeOK, HandshakeInv, NEW r \in Ranks, NEW n, BeginAdd(r, n)
  PROVE  HandshakeInv'
  <1>1. /\ \A x \in Ranks : pc'[x] = IF x = r THEN "lock" ELSE pc[x]
        /\ pc[r] = "idle"
        /\ UNCHANGED <<net, lpc, from, ackStack, unsent, reqLock, selfAdding,
                       numRequests, numAcks, left>>
    BY DEF BeginAdd, listenerVars, sharedVars, TypeOK
  <1>2. ASSUME NEW p \in Ranks, NEW q \in Others(p)
        PROVE  /\ PairInv(p, q)' /\ Orderly(net'[p][q])
               /\ Counted(p, q)' <=> Counted(p, q)
               /\ Answered(p, q)' <=> Answered(p, q)
    <2>1. q \in Ranks /\ p # q
      BY DEF Others
    <2>9. PairInv(p, q) /\ PairInv(q, p) /\ Orderly(net[p][q])
      BY PairFacts
    <2> QED
      BY <1>1, <2>1, <2>9
       DEF PairInv, Alone, UnderWay, Answered, Commanded, Promised, Counted, Granted,
           Asks, HoldsOver, ReqSent, AckSent, CmdSent, Counts, Replies, Forces, Stacked
  <1>3. ASSUME NEW x \in Ranks PROVE RankInv(x)'
    BY <1>1, <1>3 DEF HandshakeInv, RankInv
  <1> QED
    BY <1>1, <1>2, <1>3, AllKept

LEMMA MarkAddingKeeps ==
  ASSUME TypeOK, HandshakeInv, NEW r \in Ranks, MarkAdding(r)
  PROVE  HandshakeInv'
  <1>1. /\ \A x \in Ranks : /\ pc'[x] = IF x = r THEN "request" ELSE pc[x]
                            /\ unsent'[x] = IF x = r THEN Others(r) ELSE unsent[x]
                            /\ x # r => selfAdding'[x] = selfAdding[x]
                            /\ reqLock'[x] = IF x = r THEN "none" ELSE reqLock[x]
        /\ selfAdding'[r] /\ pc[r] = "mark"
        /\ UNCHANGED <<net, lpc, from, ackStack, numRequests, numAcks, left>>
    BY DEF MarkAdding, listenerVars, TypeOK
  <1>2. ASSUME NEW p \in Ranks, NEW q \in Others(p)
        PROVE  /\ PairInv(p, q)' /\ Orderly(net'[p][q])
               /\ Counted(p, q)' <=> Counted(p, q)
               /\ Answered(p, q)' <=> Answered(p, q)
    <2>1. q \in Ranks /\ p # q
      BY DEF Others
    <2>2. Granted(p, q) => q # r
      BY <1>1, GrantedLocks, PairFacts DEF RankInv
    <2>9. PairInv(p, q) /\ PairInv(q, p) /\ Orderly(net[p][q])
      BY PairFacts
    <2> QED
      BY <1>1, <2>1, <2>2, <2>9
       DEF PairInv, Alone, UnderWay, Answered, Commanded, Promised, Counted, Granted,
           Asks, HoldsOver, ReqSent, AckSent, CmdSent, Counts, Replies, Forces, Stacked
  <1>3. ASSUME NEW x \in Ranks PROVE RankInv(x)'
    <2>1. RankInv(x)
      BY DEF HandshakeInv
    <2> QED
      BY <1>1, <2>1 DEF RankInv
  <1> QED
    BY <1>1, <1>2, <1>3, AllKept

LEMMA ReleaseAddingKeeps ==
  ASSUME TypeOK, HandshakeInv, NEW r \in Ranks, ReleaseAdding(r)
  PROVE  HandshakeInv'
  <1>1. /\ \A x \in Ranks : /\ pc'[x] = IF x = r THEN "ack" ELSE pc[x]
                            /\ x # r => selfAdding'[x] = selfAdding[x]
        /\ ~ selfAdding'[r]
        /\ pc[r] = "add" /\ left[r] = 0
        /\ UNCHANGED <<net, lpc, from, ackStack, unsent, reqLock, numRequests, numAcks, left>>
    BY DEF ReleaseAdding, listenerVars, TypeOK
  <1>2. ASSUME NEW p \in Ranks, NEW q \in Others(p)
        PROVE  /\ PairInv(p, q)' /\ Orderly(net'[p][q])
               /\ Counted(p, q)' <=> Counted(p, q)
               /\ Answered(p, q)' <=> Answered(p, q)
    <2>1. q \in Ranks /\ p # q
      BY DEF Others
    <2>9. PairInv(p, q) /\ PairInv(q, p) /\ Orderly(net[p][q])
      BY PairFacts
    <2> QED
      BY <1>1, <2>1, <2>9
       DEF PairInv, Alone, UnderWay, Answered, Commanded, Promised, Counted, Granted,
           Asks, HoldsOver, ReqSent, AckSent, CmdSent, Counts, Replies, Forces, Stacked
  <1>3. ASSUME NEW x \in Ranks PROVE RankInv(x)'
    <2>1. RankInv(x)
      BY DEF HandshakeInv
    <2> QED
      BY <1>1, <2>1 DEF RankInv
  <1> QED
    BY <1>1, <1>2, <1>3, AllKept

LEMMA ReturnIdsKeeps ==
  ASSUME TypeOK, HandshakeInv, NEW r \in Ranks, ReturnIds(r)
  PROVE  HandshakeInv'
  <1>1. /\ \A x \in Ranks : pc'[x] = IF x = r THEN "idle" ELSE pc[x]
        /\ pc[r] = "ack"
        /\ UNCHANGED <<net, lpc, from, ackStack, unsent, reqLock, selfAdding,
                       numRequests, numAcks, left>>
    BY DEF ReturnIds, listenerVars, sharedVars, TypeOK
  <1>2. ASSUME NEW p \in Ranks, NEW q \in Others(p)
        PROVE  /\ PairInv(p, q)' /\ Orderly(net'[p][q])
               /\ Counted(p, q)' <=> Counted(p, q)
               /\ Answered(p, q)' <=> Answered(p, q)
    <2>1. q \in Ranks /\ p # q
      BY DEF Others
    <2>9. PairInv(p, q) /\ PairInv(q, p) /\ Orderly(net[p][q])
      BY PairFacts
    <2> QED
      BY <1>1, <2>1, <2>9
       DEF PairInv, Alone, UnderWay, Answered, Commanded, Promised, Counted, Granted,
           Asks, HoldsOver, ReqSent, AckSent, CmdSent, Counts, Replies, Forces, Stacked
  <1>3. ASSUME NEW x \in Ranks PROVE RankInv(x)'
    BY <1>1, <1>3 DEF HandshakeInv, RankInv
  <1> QED
    BY <1>1, <1>2, <1>3, AllKept

\* Steps that leave the handshake alone.
LEMMA ViewKeeps ==
  ASSUME HandshakeInv,
         UNCHANGED <<net, pc, unsent, lpc, from, ackStack, selfAdding, reqLock,
                     numRequests, numAcks>>,
         \A x \in Ranks : pc[x] \notin {"command", "add"} => left'[x] = left[x]
  PROVE  HandshakeInv'
  <1>1. ASSUME NEW p \in Ranks, NEW q \in Others(p)
        PROVE  /\ PairInv(p, q)' /\ Orderly(net'[p][q])
               /\ Counted(p, q)' <=> Counted(p, q)
               /\ Answered(p, q)' <=> Answered(p, q)
    BY <1>1, PairFacts
       DEF PairInv, Alone, UnderWay, Answered, Commanded, Promised, Counted, Granted,
           Asks, HoldsOver, ReqSent, AckSent, CmdSent, Counts, Replies, Forces, Stacked
  <1>2. ASSUME NEW x \in Ranks PROVE RankInv(x)'
    <2>1. RankInv(x)
      BY DEF HandshakeInv
    <2> QED
      BY <2>1 DEF RankInv
  <1> QED
    BY <1>1, <1>2, AllKept

LEMMA AddOwnNodeKeeps ==
  ASSUME TypeOK, HandshakeInv, NEW r \in Ranks, AddOwnNode(r)
  PROVE  HandshakeInv'
  <1>1. \A x \in Ranks : pc[x] \notin {"command", "add"} => left'[x] = left[x]
    BY DEF AddOwnNode, TypeOK
  <1> QED
    BY <1>1, ViewKeeps DEF AddOwnNode, listenerVars, sharedVars

LEMMA ForceAddNodeKeeps ==
  ASSUME TypeOK, HandshakeInv, NEW r \in Ranks, ForceAddNode(r)
  PROVE  HandshakeInv'
  BY ViewKeeps DEF ForceAddNode, mainVars, sharedVars

\* The end of the loop that sends the requests.
LEMMA RequestStage ==
  ASSUME TypeOK, HandshakeInv, NEW r \in Ranks,
         pc[r] = "request", unsent[r] = {}, pc' = [pc EXCEPT ![r] = "await"],
         UNCHANGED <<net, unsent, left, lpc, from, ackStack, selfAdding, reqLock,
                     numRequests, numAcks>>
  PROVE  HandshakeInv'
  <1>1. \A x \in Ranks : pc'[x] = IF x = r THEN "await" ELSE pc[x]
    BY DEF TypeOK
  <1>2. ASSUME NEW p \in Ranks, NEW q \in Others(p)
        PROVE  /\ PairInv(p, q)' /\ Orderly(net'[p][q])
               /\ Counted(p, q)' <=> Counted(p, q)
               /\ Answered(p, q)' <=> Answered(p, q)
    <2>1. q \in Ranks /\ p # q
      BY DEF Others
    <2>2. PairInv(p, q) /\ PairInv(q, p) /\ Orderly(net[p][q])
      BY PairFacts
    <2> QED
      BY <1>1, <2>1, <2>2
       DEF PairInv, Alone, UnderWay, Answered, Commanded, Promised, Counted, Granted,
           Asks, HoldsOver, ReqSent, AckSent, CmdSent, Counts, Replies, Forces, Stacked
  <1>3. ASSUME NEW x \in Ranks PROVE RankInv(x)'
    <2>1. RankInv(x)
      BY DEF HandshakeInv
    <2> QED
      BY <1>1, <2>1 DEF RankInv
  <1> QED
    BY <1>2, <1>3, AllKept

\* One request sent.
LEMMA RequestSent ==
  ASSUME TypeOK, HandshakeInv, NEW r \in Ranks, NEW d \in Others(r), NEW m \in Messages,
         m.tag = "NEW_NODE_REQUEST", pc[r] = "request", d \in unsent[r],
         net' = [net EXCEPT ![r][d] = Append(@, m)],
         unsent' = [unsent EXCEPT ![r] = @ \ {d}],
         UNCHANGED <<pc, left, lpc, from, ackStack, selfAdding, reqLock,
                     numRequests, numAcks>>
  PROVE  HandshakeInv'
  <1>1. d \in Ranks /\ d # r
    BY DEF Others
  <1>2. \A x \in Ranks : unsent'[x] = IF x = r THEN unsent[r] \ {d} ELSE unsent[x]
    BY DEF TypeOK
  <1>3. ~ Asks(r, d) /\ ~ Carries(net[r][d], m.tag)
    <2>1. PairInv(r, d) /\ ~ Asks(r, d)
      BY PairFacts DEF Asks
    <2> QED
      BY <2>1 DEF PairInv, UnderWay, ReqSent
  <1>4. \A p \in Ranks : \A q \in Others(p) : Orderly(net'[p][q])
    BY <1>1, <1>3, SendOrderly DEF HandshakeInv
  <1>5. \A p, q \in Ranks : \A tag : Carries(net'[p][q], tag) <=>
            Carries(net[p][q], tag) \/ (p = r /\ q = d /\ m.tag = tag)
    BY <1>1, SendCarries
  <1>6. ASSUME NEW p \in Ranks, NEW q \in Others(p)
        PROVE  /\ PairInv(p, q)' /\ Orderly(net'[p][q])
               /\ Counted(p, q)' <=> Counted(p, q)
               /\ Answered(p, q)' <=> Answered(p, q)
    <2>1. q \in Ranks /\ p # q
      BY DEF Others
    <2>2. PairInv(p, q) /\ PairInv(q, p) /\ Orderly(net'[p][q])
      BY <1>4, PairFacts
    <2>3. \A tag : /\ Carries(net'[p][q], tag) <=>
                         Carries(net[p][q], tag) \/ (p = r /\ q = d /\ m.tag = tag)
                   /\ Carries(net'[q][p], tag) <=>
                         Carries(net[q][p], tag) \/ (q = r /\ p = d /\ m.tag = tag)
      BY <1>5, <2>1
    <2> QED
      BY <1>2, <1>3, <2>1, <2>2, <2>3
       DEF PairInv, Alone, UnderWay, Answered, Commanded, Promised, Counted, Granted,
           Asks, HoldsOver, ReqSent, AckSent, CmdSent, Counts, Replies, Forces, Stacked
  <1>7. ASSUME NEW x \in Ranks PROVE RankInv(x)'
    <2>1. RankInv(x)
      BY DEF HandshakeInv
    <2> QED
      BY <1>2, <2>1 DEF RankInv
  <1> QED
    BY <1>6, <1>7, AllKept

LEMMA SendRequestsKeeps ==
  ASSUME TypeOK, HandshakeInv, NEW r \in Ranks, SendRequests(r)
  PROVE  HandshakeInv'
  <1>1. CASE unsent[r] = {}
    <2>1. pc' = [pc EXCEPT ![r] = "await"] /\ UNCHANGED <<net, unsent>>
      BY <1>1 DEF SendRequests, SendLoop
    <2> QED
      BY <1>1, <2>1, RequestStage DEF SendRequests, listenerVars, sharedVars
  <1>2. CASE unsent[r] # {}
    <2> DEFINE m == Request(want[r])
    <2>1. PICK d \in unsent[r] : /\ net' = [net EXCEPT ![r][d] = Append(@, m)]
                                 /\ unsent' = [unsent EXCEPT ![r] = @ \ {d}]
                                 /\ UNCHANGED pc
      BY <1>2 DEF SendRequests, SendLoop
    <2>2. m \in Messages /\ m.tag = "NEW_NODE_REQUEST"
      <3>1. m \in Messages
        BY MessagesType DEF TypeOK
      <3> QED
        BY <3>1 DEF Request
    <2> HIDE DEF m
    <2>3. d \in Others(r)
      BY <2>1 DEF HandshakeInv, RankInv
    <2>4. pc[r] = "request" /\ UNCHANGED <<left, lpc, from, ackStack, selfAdding, reqLock,
                                           numRequests, numAcks>>
      BY DEF SendRequests, listenerVars, sharedVars
    <2> QED
      BY <2>1, <2>2, <2>3, <2>4, RequestSent
  <1> QED
    BY <1>1, <1>2

\* The end of the loop that sends the commands.
LEMMA CommandStage ==
  ASSUME TypeOK, HandshakeInv, NEW r \in Ranks,
         pc[r] = "command", unsent[r] = {}, pc' = [pc EXCEPT ![r] = "add"],
         UNCHANGED <<net, unsent, left, lpc, from, ackStack, selfAdding, reqLock,
                     numRequests, numAcks>>
  PROVE  HandshakeInv'
  <1>1. \A x \in Ranks : pc'[x] = IF x = r THEN "add" ELSE pc[x]
    BY DEF TypeOK
  <1>2. ASSUME NEW p \in Ranks, NEW q \in Others(p)
        PROVE  /\ PairInv(p, q)' /\ Orderly(net'[p][q])
               /\ Counted(p, q)' <=> Counted(p, q)
               /\ Answered(p, q)' <=> Answered(p, q)
    <2>1. q \in Ranks /\ p # q
      BY DEF Others
    <2>2. PairInv(p, q) /\ PairInv(q, p) /\ Orderly(net[p][q])
      BY PairFacts
    <2> QED
      BY <1>1, <2>1, <2>2
       DEF PairInv, Alone, UnderWay, Answered, Commanded, Promised, Counted, Granted,
           Asks, HoldsOver, ReqSent, AckSent, CmdSent, Counts, Replies, Forces, Stacked
  <1>3. ASSUME NEW x \in Ranks PROVE RankInv(x)'
    <2>1. RankInv(x)
      BY DEF HandshakeInv
    <2> QED
      BY <1>1, <2>1 DEF RankInv
  <1> QED
    BY <1>2, <1>3, AllKept

\* A rank that holds over another has nothing else under way with it, in
\* either direction: of two ranks the higher one goes first.
LEMMA HolderAlone ==
  ASSUME HandshakeInv, NEW r \in Ranks, NEW d \in Others(r), HoldsOver(r, d)
  PROVE  /\ ~ ReqSent(r, d) /\ ~ Commanded(r, d)
         /\ ~ Granted(d, r) \/ ~ (d < r)
         /\ ~ AckSent(r, d) /\ ~ Answered(d, r)
  <1>1. d \in Ranks /\ d # r /\ d \in Int /\ r \in Int /\ PairInv(r, d) /\ PairInv(d, r)
    BY PairFacts DEF Ranks
  <1> QED
    BY <1>1 DEF PairInv, Alone, UnderWay, Answered, Commanded, Promised, Counted, Granted,
           Asks, HoldsOver, ReqSent, AckSent, CmdSent, Counts, Replies, Forces, Stacked

\* One command sent.
LEMMA CommandSent ==
  ASSUME TypeOK, HandshakeInv, NEW r \in Ranks, NEW d \in Others(r), NEW m \in Messages,
         m.tag = "NEW_NODE_COMMAND", pc[r] = "command", d \in unsent[r],
         net' = [net EXCEPT ![r][d] = Append(@, m)],
         unsent' = [unsent EXCEPT ![r] = @ \ {d}],
         UNCHANGED <<pc, left, lpc, from, ackStack, selfAdding, reqLock,
                     numRequests, numAcks>>
  PROVE  HandshakeInv'
  <1>1. d \in Ranks /\ d # r
    BY DEF Others
  <1>2. \A x \in Ranks : unsent'[x] = IF x = r THEN unsent[r] \ {d} ELSE unsent[x]
    BY DEF TypeOK
  <1>3. ~ Carries(net[r][d], m.tag) /\ ~ Carries(net[r][d], "NEW_NODE_REQUEST")
            /\ ~ Carries(net[r][d], "NEW_NODE_ACK") /\ ~ Answered(d, r)
    BY HolderAlone DEF HoldsOver, Commanded, CmdSent, ReqSent, AckSent
  <1>4. \A p \in Ranks : \A q \in Others(p) : Orderly(net'[p][q])
    BY <1>1, <1>3, SendOrderly DEF HandshakeInv
  <1>5. \A p, q \in Ranks : \A tag : Carries(net'[p][q], tag) <=>
            Carries(net[p][q], tag) \/ (p = r /\ q = d /\ m.tag = tag)
    BY <1>1, SendCarries
  <1>6. ASSUME NEW p \in Ranks, NEW q \in Others(p)
        PROVE  /\ PairInv(p, q)' /\ Orderly(net'[p][q])
               /\ Counted(p, q)' <=> Counted(p, q)
               /\ Answered(p, q)' <=> Answered(p, q)
    <2>1. q \in Ranks /\ p # q
      BY DEF Others
    <2>2. PairInv(p, q) /\ PairInv(q, p) /\ Orderly(net'[p][q])
      BY <1>4, PairFacts
    <2>3. \A tag : /\ Carries(net'[p][q], tag) <=>
                         Carries(net[p][q], tag) \/ (p = r /\ q = d /\ m.tag = tag)
                   /\ Carries(net'[q][p], tag) <=>
                         Carries(net[q][p], tag) \/ (q = r /\ p = d /\ m.tag = tag)
      BY <1>5, <2>1
    <2> QED
      BY <1>2, <1>3, <2>1, <2>2, <2>3
       DEF PairInv, Alone, UnderWay, Answered, Commanded, Promised, Counted, Granted,
           Asks, HoldsOver, ReqSent, AckSent, CmdSent, Counts, Replies, Forces, Stacked
  <1>7. ASSUME NEW x \in Ranks PROVE RankInv(x)'
    <2>1. RankInv(x)
      BY DEF HandshakeInv
    <2> QED
      BY <1>2, <2>1 DEF RankInv
  <1> QED
    BY <1>6, <1>7, AllKept

LEMMA SendCommandsKeeps ==
  ASSUME TypeOK, HandshakeInv, NEW r \in Ranks, SendCommands(r)
  PROVE  HandshakeInv'
  <1>1. CASE unsent[r] = {}
    <2>1. pc' = [pc EXCEPT ![r] = "add"] /\ UNCHANGED <<net, unsent>>
      BY <1>1 DEF SendCommands, SendLoop
    <2> QED
      BY <1>1, <2>1, CommandStage DEF SendCommands, listenerVars, sharedVars
  <1>2. CASE unsent[r] # {}
    <2> DEFINE m == Command(want[r])
    <2>1. PICK d \in unsent[r] : /\ net' = [net EXCEPT ![r][d] = Append(@, m)]
                                 /\ unsent' = [unsent EXCEPT ![r] = @ \ {d}]
                                 /\ UNCHANGED pc
      BY <1>2 DEF SendCommands, SendLoop
    <2>2. m \in Messages /\ m.tag = "NEW_NODE_COMMAND"
      <3>1. m \in Messages
        BY MessagesType DEF TypeOK
      <3> QED
        BY <3>1 DEF Command
    <2> HIDE DEF m
    <2>3. d \in Others(r)
      BY <2>1 DEF HandshakeInv, RankInv
    <2>4. pc[r] = "command" /\ UNCHANGED <<left, lpc, from, ackStack, selfAdding, reqLock,
                                           numRequests, numAcks>>
      BY DEF SendCommands, listenerVars, sharedVars
    <2> QED
      BY <2>1, <2>2, <2>3, <2>4, CommandSent
  <1> QED
    BY <1>1, <1>2

\* All acks counted means that every other rank has answered.
LEMMA AllAnswered ==
  ASSUME HandshakeInv, NEW r \in Ranks, numAcks[r] = N - 1
  PROVE  \A q \in Others(r) : Answered(r, q)
  <1> DEFINE S == {q \in Others(r) : Answered(r, q)}
  <1>1. Cardinality(S) = Cardinality(Others(r)) /\ IsFiniteSet(Others(r))
    BY OthersFinite DEF HandshakeInv, CountInv
  <1>2. S \in SUBSET Others(r)
    OBVIOUS
  <1> HIDE DEF S
  <1>3. S = Others(r)
    BY <1>1, <1>2, FS_Subset
  <1> QED
    BY <1>3 DEF S

LEMMA TakeAcksKeeps ==
  ASSUME TypeOK, HandshakeInv, NEW r \in Ranks, TakeAcks(r)
  PROVE  HandshakeInv'
  <1>1. /\ \A x \in Ranks : /\ pc'[x] = IF x = r THEN "command" ELSE pc[x]
                            /\ unsent'[x] = IF x = r THEN Others(r) ELSE unsent[x]
                            /\ numAcks'[x] = IF x = r THEN 0 ELSE numAcks[x]
                            /\ left'[x] = IF x = r THEN want[r] ELSE left[x]
        /\ pc[r] = "await"
        /\ UNCHANGED <<net, lpc, from, ackStack, selfAdding, reqLock, numRequests>>
    BY DEF TakeAcks, listenerVars, TypeOK
  <1>2. \A q \in Others(r) : Answered(r, q)
    BY AllAnswered DEF TakeAcks
  <1>3. ASSUME NEW p \in Ranks, NEW q \in Others(p)
        PROVE  /\ PairInv(p, q)' /\ Orderly(net'[p][q])
               /\ Counted(p, q)' <=> Counted(p, q)
               /\ Answered(p, q)' <=> p # r /\ Answered(p, q)
    <2>1. q \in Ranks /\ p # q
      BY DEF Others
    <2>2. PairInv(p, q) /\ PairInv(q, p) /\ Orderly(net[p][q])
      BY PairFacts
    <2>3. p = r => Answered(p, q)
      BY <1>2
    <2> QED
      BY <1>1, <2>1, <2>2, <2>3
       DEF PairInv, Alone, UnderWay, Answered, Commanded, Promised, Counted, Granted,
           Asks, HoldsOver, ReqSent, AckSent, CmdSent, Counts, Replies, Forces, Stacked
  <1>4. ASSUME NEW x \in Ranks PROVE RankInv(x)'
    <2>1. RankInv(x)
      BY DEF HandshakeInv
    <2> QED
      BY <1>1, <2>1 DEF RankInv
  <1>5. ASSUME NEW x \in Ranks PROVE CountInv(x)'
    <2>1. CountInv(x)
      BY DEF HandshakeInv
    <2>2. \A q \in Others(x) : q \in Ranks /\ x \in Others(q)
      BY DEF Others
    <2>3. CASE x # r
      BY <1>1, <1>3, <2>1, <2>2, <2>3, KeepCounts
    <2>4. CASE x = r
      <3>1. {q \in Others(x) : Counted(q, x)'} = {q \in Others(x) : Counted(q, x)}
        BY <1>3, <2>2, <2>4
      <3>2. {q \in Others(x) : Answered(x, q)'} = {}
        BY <1>3, <2>4
      <3> QED
        BY <1>1, <2>1, <2>4, <3>1, <3>2, FS_EmptySet DEF CountInv
    <2> QED
      BY <2>3, <2>4
  <1> QED
    BY <1>3, <1>4, <1>5 DEF HandshakeInv, Pairs, Others

\* The top of the stack of deferred acks.
LEMMA PopStack ==
  ASSUME NEW s \in Seq(Ranks), s # <<>>, NoRepeat(s)
  PROVE  /\ s[Len(s)] \in Ranks /\ Member(s, s[Len(s)])
         /\ NoRepeat(SubSeq(s, 1, Len(s) - 1))
         /\ \A x : Member(SubSeq(s, 1, Len(s) - 1), x) <=> Member(s, x) /\ x # s[Len(s)]
  <1> DEFINE t == SubSeq(s, 1, Len(s) - 1)
  <1>1. Len(s) \in Nat \ {0} /\ Len(t) = Len(s) - 1 /\ \A i \in 1 .. Len(t) : t[i] = s[i]
    BY SMTT(30)
  <1>2. Len(s) \in 1 .. Len(s) /\ s[Len(s)] \in Ranks
    BY <1>1
  <1>3. \A i \in 1 .. Len(s) : i \in 1 .. Len(t) \/ i = Len(s)
    BY <1>1
  <1>4. \A i \in 1 .. Len(t) : i \in 1 .. Len(s) /\ i # Len(s)
    BY <1>1
  <1> HIDE DEF t
  <1>5. NoRepeat(t)
    BY <1>1, <1>4 DEF NoRepeat
  <1>6. ASSUME NEW x PROVE Member(t, x) <=> Member(s, x) /\ x # s[Len(s)]
    BY <1>1, <1>2, <1>3, <1>4 DEF Member, NoRepeat
  <1> QED
    BY <1>2, <1>5, <1>6 DEF Member, t

\* One more deferred ack.
LEMMA PushStack ==
  ASSUME NEW s \in Seq(Ranks), NEW d \in Ranks, NoRepeat(s), ~ Member(s, d)
  PROVE  /\ NoRepeat(Append(s, d))
         /\ \A x : Member(Append(s, d), x) <=> Member(s, x) \/ x = d
  <1> DEFINE t == Append(s, d)
  <1>1. Len(s) \in Nat /\ Len(t) = Len(s) + 1 /\ t[Len(t)] = d
    OBVIOUS
  <1>2. \A i \in 1 .. Len(s) : t[i] = s[i] /\ i \in 1 .. Len(t)
    OBVIOUS
  <1>3. \A i \in 1 .. Len(t) : i \in 1 .. Len(s) \/ i = Len(t)
    BY <1>1
  <1>4. Len(t) \in 1 .. Len(t)
    BY <1>1
  <1> HIDE DEF t
  <1>5. NoRepeat(t)
    BY <1>1, <1>2, <1>3, <1>4 DEF NoRepeat, Member
  <1>6. ASSUME NEW x PROVE Member(t, x) <=> Member(s, x) \/ x = d
    BY <1>1, <1>2, <1>3, <1>4 DEF Member
  <1> QED
    BY <1>5, <1>6 DEF t

\* An ack sent to a rank that has none on its way.
LEMMA AckGoes ==
  ASSUME TypeOK, HandshakeInv, NEW r \in Ranks, NEW d \in Others(r),
         net' = [net EXCEPT ![r][d] = Append(@, Ack)], ~ AckSent(r, d)
  PROVE  /\ \A p \in Ranks : \A q \in Others(p) : Orderly(net'[p][q])
         /\ \A p, q \in Ranks : \A tag : Carries(net'[p][q], tag) <=>
                Carries(net[p][q], tag) \/ (p = r /\ q = d /\ tag = "NEW_NODE_ACK")
  <1>1. d \in Ranks
    BY DEF Others
  <1>2. Ack \in Messages
    BY MessagesType
  <1>3. Ack.tag = "NEW_NODE_ACK"
    BY DEF Ack
  <1>4. \A p \in Ranks : \A q \in Others(p) : Orderly(net'[p][q])
    BY <1>1, <1>2, <1>3, SendOrderly DEF HandshakeInv, AckSent
  <1>5. \A p, q \in Ranks : \A tag :
            Carries(net'[p][q], tag) <=>
                Carries(net[p][q], tag) \/ (p = r /\ q = d /\ Ack.tag = tag)
    <2> SUFFICES ASSUME NEW p \in Ranks, NEW q \in Ranks, NEW tag
                 PROVE  Carries(net'[p][q], tag) <=>
                            Carries(net[p][q], tag) \/ (p = r /\ q = d /\ Ack.tag = tag)
      OBVIOUS
    <2>1. /\ net[p][q] \in Seq(Messages)
          /\ (p = r /\ q = d) => net'[p][q] = Append(net[p][q], Ack)
          /\ ~ (p = r /\ q = d) => net'[p][q] = net[p][q]
      <3>1. net \in [Ranks -> [Ranks -> Seq(Messages)]]
        BY DEF TypeOK
      <3>2. net' = [net EXCEPT ![r] = [net[r] EXCEPT ![d] = Append(net[r][d], Ack)]]
        OBVIOUS
      <3>3. net'[r] = [net[r] EXCEPT ![d] = Append(net[r][d], Ack)]
        BY <3>1, <3>2
      <3>4. p # r => net'[p] = net[p]
        BY <3>1, <3>2
      <3>5. net'[r][d] = Append(net[r][d], Ack) /\ (q # d => net'[r][q] = net[r][q])
        BY <1>1, <3>1, <3>3
      <3> QED
        BY <3>1, <3>4, <3>5
    <2> QED
      BY <1>2, <2>1, CarriesAppend
  <1> QED
    BY <1>3, <1>4, <1>5

LEMMA SendDeferredAckKeeps ==
  ASSUME TypeOK, HandshakeInv, NEW r \in Ranks, SendDeferredAck(r)
  PROVE  HandshakeInv'
  <1> DEFINE s == ackStack[r]
             d == s[Len(s)]
  <1>1. s \in Seq(Ranks) /\ s # <<>> /\ NoRepeat(s)
    BY DEF TypeOK, SendDeferredAck, HandshakeInv, RankInv
  <1>2. d \in Ranks /\ Member(s, d)
    BY <1>1, PopStack
  <1>3. d \in Others(r)
    BY <1>2 DEF HandshakeInv, RankInv, Others
  <1>4. net' = [net EXCEPT ![r][d] = Append(@, Ack)]
    BY DEF SendDeferredAck
  <1>5. ackStack' = [ackStack EXCEPT ![r] = SubSeq(s, 1, Len(s) - 1)]
    BY DEF SendDeferredAck
  <1>6. /\ NoRepeat(ackStack'[r])
        /\ \A x : Member(ackStack'[r], x) <=> Member(ackStack[r], x) /\ x # d
        /\ \A x \in Ranks : x # r => ackStack'[x] = ackStack[x]
    <2>1. ackStack'[r] = SubSeq(s, 1, Len(s) - 1)
      BY <1>5 DEF TypeOK
    <2>2. \A x \in Ranks : x # r => ackStack'[x] = ackStack[x]
      BY <1>5 DEF TypeOK
    <2> QED
      BY <1>1, <2>1, <2>2, PopStack
  <1>7. Member(ackStack[r], d)
    BY <1>2
  <1> HIDE DEF s, d
  <1>8. pc[r] = "ack" /\ UNCHANGED <<pc, unsent, left, lpc, from, selfAdding, reqLock,
                                     numRequests, numAcks>>
    BY DEF SendDeferredAck, mainVars, listenerVars
  <1>10. PairInv(d, r) /\ d # r
    BY <1>2, <1>3, PairFacts
  <1>11. ~ AckSent(r, d)
    BY <1>7, <1>10 DEF PairInv, Alone, Stacked
  <1>12. /\ \A p \in Ranks : \A q \in Others(p) : Orderly(net'[p][q])
         /\ \A p, q \in Ranks : \A tag : Carries(net'[p][q], tag) <=>
                Carries(net[p][q], tag) \/ (p = r /\ q = d /\ tag = "NEW_NODE_ACK")
    BY <1>3, <1>4, <1>11, AckGoes
  <1>14. ASSUME NEW p \in Ranks, NEW q \in Others(p)
        PROVE  /\ PairInv(p, q)' /\ Orderly(net'[p][q])
               /\ Counted(p, q)' <=> Counted(p, q)
               /\ Answered(p, q)' <=> Answered(p, q)
    <2>1. q \in Ranks /\ p # q
      BY DEF Others
    <2>2. PairInv(p, q) /\ PairInv(q, p) /\ Orderly(net'[p][q])
      BY <1>12, PairFacts
    <2>3. \A tag : /\ Carries(net'[p][q], tag) <=>
                         Carries(net[p][q], tag) \/ (p = r /\ q = d /\ tag = "NEW_NODE_ACK")
                   /\ Carries(net'[q][p], tag) <=>
                         Carries(net[q][p], tag) \/ (q = r /\ p = d /\ tag = "NEW_NODE_ACK")
      BY <1>12, <2>1
    <2>4. /\ Member(ackStack'[q], p) <=> Member(ackStack[q], p) /\ ~ (q = r /\ p = d)
          /\ Member(ackStack'[p], q) <=> Member(ackStack[p], q) /\ ~ (p = r /\ q = d)
      BY <1>6, <2>1
    <2> QED
      BY <1>7, <1>8, <2>1, <2>2, <2>3, <2>4
       DEF PairInv, Alone, UnderWay, Answered, Commanded, Promised, Counted, Granted,
           Asks, HoldsOver, ReqSent, AckSent, CmdSent, Counts, Replies, Forces, Stacked
  <1>15. ASSUME NEW x \in Ranks PROVE RankInv(x)'
    <2>1. RankInv(x)
      BY DEF HandshakeInv
    <2>2. ~ Member(ackStack'[x], x)
      BY <1>6, <2>1 DEF RankInv
    <2>3. NoRepeat(ackStack'[x])
      BY <1>6, <2>1 DEF RankInv
    <2> QED
      BY <1>8, <2>1, <2>2, <2>3 DEF RankInv
  <1> QED
    BY <1>8, <1>14, <1>15, AllKept

-----------------------------------------------------------------------------
(* Each step of the listener keeps the invariant.                          *)

LEMMA ReceiveRequestKeeps ==
  ASSUME TypeOK, HandshakeInv, NEW r \in Ranks, NEW d \in Others(r), ReceiveRequest(r, d)
  PROVE  HandshakeInv'
  <1>1. /\ \A p \in Ranks : \A q \in Others(p) : Orderly(net'[p][q])
        /\ \A p, q \in Ranks :
            \A t \in {"NEW_NODE_REQUEST", "NEW_NODE_ACK", "NEW_NODE_COMMAND"} :
                Carries(net'[p][q], t) <=>
                    Carries(net[p][q], t) /\ ~ (p = d /\ q = r /\ t = "NEW_NODE_REQUEST")
        /\ Carries(net[d][r], "NEW_NODE_REQUEST")
        /\ ~ Carries(net[d][r], "NEW_NODE_COMMAND")
    BY ReceiveEffect DEF HandshakeInv, ReceiveRequest
  <1>2. /\ \A x \in Ranks : /\ lpc'[x] = IF x = r THEN "count" ELSE lpc[x]
                            /\ from'[x] = IF x = r THEN d ELSE from[x]
        /\ lpc[r] = "probe"
        /\ UNCHANGED <<pc, unsent, left, ackStack, selfAdding, reqLock, numRequests, numAcks>>
    BY DEF ReceiveRequest, Receive, TypeOK, mainVars, sharedVars
  <1>3. d \in Ranks /\ d # r
    BY DEF Others
  <1>4. ASSUME NEW p \in Ranks, NEW q \in Others(p)
        PROVE  /\ PairInv(p, q)' /\ Orderly(net'[p][q])
               /\ Counted(p, q)' <=> Counted(p, q)
               /\ Answered(p, q)' <=> Answered(p, q)
    <2>1. q \in Ranks /\ p # q
      BY DEF Others
    <2>2. PairInv(p, q) /\ PairInv(q, p) /\ Orderly(net'[p][q])
      BY <1>1, PairFacts
    <2>3. \A t \in {"NEW_NODE_REQUEST", "NEW_NODE_ACK", "NEW_NODE_COMMAND"} :
                /\ Carries(net'[p][q], t) <=>
                       Carries(net[p][q], t) /\ ~ (p = d /\ q = r /\ t = "NEW_NODE_REQUEST")
                /\ Carries(net'[q][p], t) <=>
                       Carries(net[q][p], t) /\ ~ (q = d /\ p = r /\ t = "NEW_NODE_REQUEST")
      BY <1>1, <2>1
    <2> QED
      BY <1>1, <1>2, <1>3, <2>1, <2>2, <2>3
       DEF PairInv, Alone, UnderWay, Answered, Commanded, Promised, Counted, Granted,
           Asks, HoldsOver, ReqSent, AckSent, CmdSent, Counts, Replies, Forces, Stacked
  <1>5. ASSUME NEW x \in Ranks PROVE RankInv(x)'
    <2>1. RankInv(x)
      BY DEF HandshakeInv
    <2> QED
      BY <1>2, <2>1 DEF RankInv
  <1> QED
    BY <1>2, <1>4, <1>5, AllKept

LEMMA ReceiveCommandKeeps ==
  ASSUME TypeOK, HandshakeInv, NEW r \in Ranks, NEW d \in Others(r), ReceiveCommand(r, d)
  PROVE  HandshakeInv'
  <1>1. /\ \A p \in Ranks : \A q \in Others(p) : Orderly(net'[p][q])
        /\ \A p, q \in Ranks :
            \A t \in {"NEW_NODE_REQUEST", "NEW_NODE_ACK", "NEW_NODE_COMMAND"} :
                Carries(net'[p][q], t) <=>
                    Carries(net[p][q], t) /\ ~ (p = d /\ q = r /\ t = "NEW_NODE_COMMAND")
        /\ Carries(net[d][r], "NEW_NODE_COMMAND")
    BY ReceiveEffect DEF HandshakeInv, ReceiveCommand
  <1>2. /\ \A x \in Ranks : /\ lpc'[x] = IF x = r THEN "force" ELSE lpc[x]
                            /\ from'[x] = IF x = r THEN d ELSE from[x]
        /\ lpc[r] = "probe"
        /\ UNCHANGED <<pc, unsent, left, ackStack, selfAdding, reqLock, numRequests, numAcks>>
    BY DEF ReceiveCommand, Receive, TypeOK, mainVars, sharedVars
  <1>3. d \in Ranks /\ d # r
    BY DEF Others
  <1>4. ASSUME NEW p \in Ranks, NEW q \in Others(p)
        PROVE  /\ PairInv(p, q)' /\ Orderly(net'[p][q])
               /\ Counted(p, q)' <=> Counted(p, q)
               /\ Answered(p, q)' <=> Answered(p, q)
    <2>1. q \in Ranks /\ p # q
      BY DEF Others
    <2>2. PairInv(p, q) /\ PairInv(q, p) /\ Orderly(net'[p][q])
      BY <1>1, PairFacts
    <2>3. \A t \in {"NEW_NODE_REQUEST", "NEW_NODE_ACK", "NEW_NODE_COMMAND"} :
                /\ Carries(net'[p][q], t) <=>
                       Carries(net[p][q], t) /\ ~ (p = d /\ q = r /\ t = "NEW_NODE_COMMAND")
                /\ Carries(net'[q][p], t) <=>
                       Carries(net[q][p], t) /\ ~ (q = d /\ p = r /\ t = "NEW_NODE_COMMAND")
      BY <1>1, <2>1
    <2> QED
      BY <1>1, <1>2, <1>3, <2>1, <2>2, <2>3
       DEF PairInv, Alone, UnderWay, Answered, Commanded, Promised, Counted, Granted,
           Asks, HoldsOver, ReqSent, AckSent, CmdSent, Counts, Replies, Forces, Stacked
  <1>5. ASSUME NEW x \in Ranks PROVE RankInv(x)'
    <2>1. RankInv(x)
      BY DEF HandshakeInv
    <2> QED
      BY <1>2, <2>1 DEF RankInv
  <1> QED
    BY <1>2, <1>4, <1>5, AllKept

LEMMA HandleAckKeeps ==
  ASSUME TypeOK, HandshakeInv, NEW r \in Ranks, NEW d \in Others(r), HandleAck(r, d)
  PROVE  HandshakeInv'
  <1>1. /\ \A p \in Ranks : \A q \in Others(p) : Orderly(net'[p][q])
        /\ \A p, q \in Ranks :
            \A t \in {"NEW_NODE_REQUEST", "NEW_NODE_ACK", "NEW_NODE_COMMAND"} :
                Carries(net'[p][q], t) <=>
                    Carries(net[p][q], t) /\ ~ (p = d /\ q = r /\ t = "NEW_NODE_ACK")
        /\ Carries(net[d][r], "NEW_NODE_ACK")
        /\ ~ Carries(net[d][r], "NEW_NODE_COMMAND")
    BY ReceiveEffect DEF HandshakeInv, HandleAck
  <1>2. /\ \A x \in Ranks : /\ lpc'[x] = lpc[x]
                            /\ from'[x] = IF x = r THEN d ELSE from[x]
                            /\ numAcks'[x] = IF x = r THEN numAcks[r] + 1 ELSE numAcks[x]
        /\ lpc[r] = "probe"
        /\ UNCHANGED <<pc, unsent, left, ackStack, selfAdding, reqLock, numRequests>>
    BY DEF HandleAck, Receive, TypeOK, mainVars, sharedVars
  <1>3. d \in Ranks /\ d # r
    BY DEF Others
  <1>4. ASSUME NEW p \in Ranks, NEW q \in Others(p)
        PROVE  /\ PairInv(p, q)' /\ Orderly(net'[p][q])
               /\ Counted(p, q)' <=> Counted(p, q)
               /\ Answered(p, q)' <=> Answered(p, q) \/ (p = r /\ q = d)
               /\ p = r /\ q = d => ~ Answered(p, q)
    <2>1. q \in Ranks /\ p # q
      BY DEF Others
    <2>2. PairInv(p, q) /\ PairInv(q, p) /\ Orderly(net'[p][q])
      BY <1>1, PairFacts
    <2>3. \A t \in {"NEW_NODE_REQUEST", "NEW_NODE_ACK", "NEW_NODE_COMMAND"} :
                /\ Carries(net'[p][q], t) <=>
                       Carries(net[p][q], t) /\ ~ (p = d /\ q = r /\ t = "NEW_NODE_ACK")
                /\ Carries(net'[q][p], t) <=>
                       Carries(net[q][p], t) /\ ~ (q = d /\ p = r /\ t = "NEW_NODE_ACK")
      BY <1>1, <2>1
    <2> QED
      BY <1>1, <1>2, <1>3, <2>1, <2>2, <2>3
       DEF PairInv, Alone, UnderWay, Answered, Commanded, Promised, Counted, Granted,
           Asks, HoldsOver, ReqSent, AckSent, CmdSent, Counts, Replies, Forces, Stacked
  <1>5. ASSUME NEW x \in Ranks PROVE RankInv(x)'
    <2>1. RankInv(x)
      BY DEF HandshakeInv
    <2> QED
      BY <1>2, <2>1 DEF RankInv
  <1>6. ASSUME NEW x \in Ranks PROVE CountInv(x)'
    <2>1. CountInv(x)
      BY DEF HandshakeInv
    <2>2. \A q \in Others(x) : q \in Ranks /\ x \in Others(q)
      BY DEF Others
    <2>3. CASE x # r
      BY <1>2, <1>4, <2>1, <2>2, <2>3, KeepCounts
    <2>4. CASE x = r
      <3> DEFINE S == {q \in Others(x) : Answered(x, q)}
      <3>1. {q \in Others(x) : Answered(x, q)'} = S \cup {d}
        BY <1>3, <1>4, <2>4
      <3>2. d \notin S
        BY <1>4, <2>4
      <3>3. Cardinality(S \cup {d}) = Cardinality(S) + 1
        BY <3>2, OthersFinite, FS_Subset, FS_AddElement
      <3>4. {q \in Others(x) : Counted(q, x)'} = {q \in Others(x) : Counted(q, x)}
        BY <1>4, <2>2, <2>4
      <3> QED
        BY <1>2, <2>1, <2>4, <3>1, <3>3, <3>4 DEF CountInv
    <2> QED
      BY <2>3, <2>4
  <1> QED
    BY <1>4, <1>5, <1>6 DEF HandshakeInv, Pairs, Others

LEMMA CountRequestKeeps ==
  ASSUME TypeOK, HandshakeInv, NEW r \in Ranks, CountRequest(r)
  PROVE  HandshakeInv'
  <1> DEFINE d == from[r]
  <1>1. /\ \A x \in Ranks :
              /\ lpc'[x] = IF x = r THEN "reply" ELSE lpc[x]
              /\ numRequests'[x] = IF x = r THEN numRequests[r] + 1 ELSE numRequests[x]
              /\ reqLock'[x] = IF x = r /\ numRequests[r] = 0 THEN "listener" ELSE reqLock[x]
        /\ lpc[r] = "count"
        /\ numRequests[r] = 0 => reqLock[r] = "none"
        /\ UNCHANGED <<net, pc, from, ackStack, unsent, selfAdding, numAcks, left>>
    BY DEF CountRequest, mainVars, TypeOK
  <1>2. d \in Others(r) /\ r \in Others(d) /\ d \in Ranks
    BY <1>1 DEF HandshakeInv, RankInv, Others
  <1>3. ASSUME NEW p \in Ranks, NEW q \in Others(p)
        PROVE  /\ PairInv(p, q)' /\ Orderly(net'[p][q])
               /\ Counted(p, q)' <=> Counted(p, q) \/ (p = d /\ q = r)
               /\ p = d /\ q = r => ~ Counted(p, q)
               /\ Answered(p, q)' <=> Answered(p, q)
    <2>1. q \in Ranks /\ p # q
      BY DEF Others
    <2>9. PairInv(p, q) /\ PairInv(q, p) /\ Orderly(net[p][q])
      BY PairFacts
    <2> QED
      BY <1>1, <2>1, <2>9
       DEF PairInv, Alone, UnderWay, Answered, Commanded, Promised, Counted, Granted,
           Asks, HoldsOver, ReqSent, AckSent, CmdSent, Counts, Replies, Forces, Stacked
  <1>4. numRequests[r] \in Nat
    BY CountsType
  <1>5. ASSUME NEW x \in Ranks PROVE RankInv(x)'
    <2>1. RankInv(x)
      BY DEF HandshakeInv
    <2> QED
      BY <1>1, <1>4, <2>1 DEF RankInv
  <1>6. ASSUME NEW x \in Ranks PROVE CountInv(x)'
    <2>1. CountInv(x)
      BY DEF HandshakeInv
    <2>2. \A q \in Others(x) : q \in Ranks /\ x \in Others(q)
      BY DEF Others
    <2>3. CASE x # r
      BY <1>1, <1>3, <2>1, <2>2, <2>3, KeepCounts
    <2>4. CASE x = r
      <3> DEFINE S == {q \in Others(x) : Counted(q, x)}
      <3>1. {q \in Others(x) : Counted(q, x)'} = S \cup {d}
        BY <1>2, <1>3, <2>2, <2>4
      <3>2. d \notin S
        BY <1>2, <1>3, <2>4
      <3>3. IsFiniteSet(S)
        BY OthersFinite, FS_Subset
      <3>4. Cardinality(S \cup {d}) = Cardinality(S) + 1
        BY <3>2, <3>3, FS_AddElement
      <3>5. {q \in Others(x) : Answered(x, q)'} = {q \in Others(x) : Answered(x, q)}
        BY <1>3
      <3> QED
        BY <1>1, <2>1, <2>4, <3>1, <3>4, <3>5 DEF CountInv
    <2> QED
      BY <2>3, <2>4
  <1> QED
    BY <1>3, <1>5, <1>6 DEF HandshakeInv, Pairs, Others

LEMMA FinishCommandKeeps ==
  ASSUME TypeOK, HandshakeInv, NEW r \in Ranks, FinishCommand(r)
  PROVE  HandshakeInv'
  <1> DEFINE d == from[r]
  <1>1. /\ \A x \in Ranks :
              /\ lpc'[x] = IF x = r THEN "probe" ELSE lpc[x]
              /\ numRequests'[x] = IF x = r THEN numRequests[r] - 1 ELSE numRequests[x]
              /\ reqLock'[x] = IF x = r /\ numRequests[r] = 1 THEN "none" ELSE reqLock[x]
        /\ lpc[r] = "force"
        /\ UNCHANGED <<net, pc, from, ackStack, unsent, selfAdding, numAcks, left>>
    BY DEF FinishCommand, mainVars, TypeOK
  <1>2. d \in Others(r) /\ r \in Others(d) /\ d \in Ranks
    BY <1>1 DEF HandshakeInv, RankInv, Others
  <1>3. Counted(d, r) /\ numRequests[r] > 0 /\ numRequests[r] \in Nat
    <2>1. Counted(d, r)
      BY <1>1 DEF Counted, Commanded, Forces
    <2> QED
      BY <1>2, <2>1, CountedLocks, CountsType
  <1>4. ASSUME NEW p \in Ranks, NEW q \in Others(p)
        PROVE  /\ PairInv(p, q)' /\ Orderly(net'[p][q])
               /\ Counted(p, q)' <=> Counted(p, q) /\ ~ (p = d /\ q = r)
               /\ Answered(p, q)' <=> Answered(p, q)
    <2>1. q \in Ranks /\ p # q
      BY DEF Others
    <2>2. PairInv(p, q) /\ PairInv(q, p) /\ Orderly(net[p][q])
      BY PairFacts
    <2> QED
      BY <1>1, <2>1, <2>2
       DEF PairInv, Alone, UnderWay, Answered, Commanded, Promised, Counted, Granted,
           Asks, HoldsOver, ReqSent, AckSent, CmdSent, Counts, Replies, Forces, Stacked
  <1>5. ASSUME NEW x \in Ranks PROVE RankInv(x)'
    <2>1. RankInv(x)
      BY DEF HandshakeInv
    <2> QED
      BY <1>1, <1>3, <2>1 DEF RankInv
  <1>6. ASSUME NEW x \in Ranks PROVE CountInv(x)'
    <2>1. CountInv(x)
      BY DEF HandshakeInv
    <2>2. \A q \in Others(x) : q \in Ranks /\ x \in Others(q)
      BY DEF Others
    <2>3. CASE x # r
      BY <1>1, <1>4, <2>1, <2>2, <2>3, KeepCounts
    <2>4. CASE x = r
      <3> DEFINE S == {q \in Others(x) : Counted(q, x)}
      <3>1. {q \in Others(x) : Counted(q, x)'} = S \ {d}
        BY <1>2, <1>4, <2>2, <2>4
      <3>2. d \in S
        BY <1>2, <1>3, <2>4
      <3>3. Cardinality(S \ {d}) = Cardinality(S) - 1
        BY <3>2, OthersFinite, FS_Subset, FS_RemoveElement
      <3>4. {q \in Others(x) : Answered(x, q)'} = {q \in Others(x) : Answered(x, q)}
        BY <1>4
      <3> QED
        BY <1>1, <1>3, <2>1, <2>4, <3>1, <3>3, <3>4 DEF CountInv
    <2> QED
      BY <2>3, <2>4
  <1> QED
    BY <1>4, <1>5, <1>6 DEF HandshakeInv, Pairs, Others

\* A request whose reply is due is counted, so this rank has not marked itself.
LEMMA Replying ==
  ASSUME TypeOK, HandshakeInv, NEW r \in Ranks, NEW d \in Others(r),
         Replies(r, d)
  PROVE  /\ Asks(d, r) /\ ~ Stacked(r, d) /\ ~ AckSent(r, d) /\ ~ ReqSent(d, r)
         /\ ~ Commanded(d, r) /\ pc[r] # "mark"
  <1>1. d \in Ranks /\ d # r /\ r \in Others(d) /\ PairInv(d, r) /\ RankInv(r)
    BY PairFacts DEF Others
  <1>2. /\ Asks(d, r) /\ ~ Stacked(r, d) /\ ~ AckSent(r, d) /\ ~ ReqSent(d, r)
        /\ ~ Commanded(d, r) /\ Counted(d, r)
    BY <1>1 DEF PairInv, Alone, UnderWay, Promised, Commanded, Counted, Counts, Replies, Forces
  <1>3. reqLock[r] = "listener"
    BY <1>1, <1>2, CountedLocks
  <1> QED
    BY <1>1, <1>2, <1>3 DEF RankInv

\* The reply is deferred.
LEMMA Deferring ==
  ASSUME TypeOK, HandshakeInv, NEW r \in Ranks, NEW d \in Others(r),
         Replies(r, d),
         lpc' = [lpc EXCEPT ![r] = "probe"], ackStack' = [ackStack EXCEPT ![r] = Append(@, d)],
         UNCHANGED <<net, pc, from, unsent, left, selfAdding, reqLock, numRequests, numAcks>>
  PROVE  HandshakeInv'
  <1>1. /\ d \in Ranks /\ d # r
        /\ Asks(d, r) /\ ~ Stacked(r, d) /\ ~ AckSent(r, d) /\ ~ ReqSent(d, r)
    BY Replying DEF Others
  <1>2. \A x \in Ranks : lpc'[x] = IF x = r THEN "probe" ELSE lpc[x]
    BY DEF TypeOK
  <1>3. /\ NoRepeat(ackStack'[r])
        /\ \A x : Member(ackStack'[r], x) <=> Member(ackStack[r], x) \/ x = d
        /\ \A x \in Ranks : x # r => ackStack'[x] = ackStack[x]
    <2>1. ackStack[r] \in Seq(Ranks) /\ NoRepeat(ackStack[r]) /\ ~ Member(ackStack[r], d)
      BY <1>1 DEF TypeOK, HandshakeInv, RankInv, Stacked
    <2>2. ackStack'[r] = Append(ackStack[r], d)
      BY DEF TypeOK
    <2>3. \A x \in Ranks : x # r => ackStack'[x] = ackStack[x]
      BY DEF TypeOK
    <2> QED
      BY <1>1, <2>1, <2>2, <2>3, PushStack
  <1>4. ASSUME NEW p \in Ranks, NEW q \in Others(p)
        PROVE  /\ PairInv(p, q)' /\ Orderly(net'[p][q])
               /\ Counted(p, q)' <=> Counted(p, q)
               /\ Answered(p, q)' <=> Answered(p, q)
    <2>1. q \in Ranks /\ p # q
      BY DEF Others
    <2>2. PairInv(p, q) /\ PairInv(q, p) /\ Orderly(net[p][q])
      BY PairFacts
    <2>3. /\ Member(ackStack'[q], p) <=> Member(ackStack[q], p) \/ (q = r /\ p = d)
          /\ Member(ackStack'[p], q) <=> Member(ackStack[p], q) \/ (p = r /\ q = d)
      BY <1>3, <2>1
    <2> QED
      BY <1>1, <1>2, <2>1, <2>2, <2>3
       DEF PairInv, Alone, UnderWay, Answered, Commanded, Promised, Counted, Granted,
           Asks, HoldsOver, ReqSent, AckSent, CmdSent, Counts, Replies, Forces, Stacked
  <1>5. ASSUME NEW x \in Ranks PROVE RankInv(x)'
    <2>1. RankInv(x)
      BY DEF HandshakeInv
    <2>2. ~ Member(ackStack'[x], x)
      BY <1>1, <1>3, <2>1 DEF RankInv
    <2>3. NoRepeat(ackStack'[x])
      BY <1>3, <2>1 DEF RankInv
    <2> QED
      BY <1>2, <2>1, <2>2, <2>3 DEF RankInv
  <1> QED
    BY <1>4, <1>5, AllKept

\* The reply is sent: a rank that is adding nodes does so only to a higher rank.
LEMMA Acking ==
  ASSUME TypeOK, HandshakeInv, NEW r \in Ranks, NEW d \in Others(r),
         Replies(r, d), pc[r] # "ack", ~ Defers(r, d),
         lpc' = [lpc EXCEPT ![r] = "probe"], net' = [net EXCEPT ![r][d] = Append(@, Ack)],
         UNCHANGED <<ackStack, pc, from, unsent, left, selfAdding, reqLock, numRequests, numAcks>>
  PROVE  HandshakeInv'
  <1>1. /\ d \in Ranks /\ d # r /\ pc[r] # "mark"
        /\ Asks(d, r) /\ ~ Stacked(r, d) /\ ~ AckSent(r, d) /\ ~ ReqSent(d, r)
    BY Replying DEF Others
  <1>2. \A x \in Ranks : lpc'[x] = IF x = r THEN "probe" ELSE lpc[x]
    BY DEF TypeOK
  <1>3. /\ \A p \in Ranks : \A q \in Others(p) : Orderly(net'[p][q])
        /\ \A p, q \in Ranks : \A tag : Carries(net'[p][q], tag) <=>
              Carries(net[p][q], tag) \/ (p = r /\ q = d /\ tag = "NEW_NODE_ACK")
    <2>1. ~ AckSent(r, d)
      BY <1>1
    <2> QED
      BY <2>1, AckGoes, Zenon
  <1>4. d < r => pc[r] \in {"idle", "lock"}
    <2>1. d < r => ~ selfAdding[r]
      BY DEF Defers
    <2>2. d < r => pc[r] \notin {"request", "await", "command", "add"}
      BY <2>1 DEF HandshakeInv, RankInv
    <2>3. pc[r] \in MainStages
      BY DEF TypeOK
    <2> QED
      BY <1>1, <2>2, <2>3 DEF MainStages
  <1>5. ASSUME NEW p \in Ranks, NEW q \in Others(p)
        PROVE  /\ PairInv(p, q)' /\ Orderly(net'[p][q])
               /\ Counted(p, q)' <=> Counted(p, q)
               /\ Answered(p, q)' <=> Answered(p, q)
    <2>1. q \in Ranks /\ p # q
      BY DEF Others
    <2>2. PairInv(p, q) /\ PairInv(q, p) /\ Orderly(net'[p][q])
      BY <1>3, PairFacts
    <2>3. \A tag : /\ Carries(net'[p][q], tag) <=>
                         Carries(net[p][q], tag) \/ (p = r /\ q = d /\ tag = "NEW_NODE_ACK")
                   /\ Carries(net'[q][p], tag) <=>
                         Carries(net[q][p], tag) \/ (q = r /\ p = d /\ tag = "NEW_NODE_ACK")
      BY <1>3, <2>1
    <2> QED
      BY <1>1, <1>2, <1>4, <2>1, <2>2, <2>3
       DEF PairInv, Alone, UnderWay, Answered, Commanded, Promised, Counted, Granted,
           Asks, HoldsOver, ReqSent, AckSent, CmdSent, Counts, Replies, Forces, Stacked
  <1>6. ASSUME NEW x \in Ranks PROVE RankInv(x)'
    <2>1. RankInv(x)
      BY DEF HandshakeInv
    <2> QED
      BY <1>2, <2>1 DEF RankInv
  <1> QED
    BY <1>5, <1>6, AllKept

LEMMA ReplyToRequestKeeps ==
  ASSUME TypeOK, HandshakeInv, NEW r \in Ranks, ReplyToRequest(r)
  PROVE  HandshakeInv'
  <1> DEFINE d == from[r]
  <1>1. /\ lpc[r] = "reply" /\ pc[r] # "ack" /\ lpc' = [lpc EXCEPT ![r] = "probe"]
        /\ UNCHANGED <<pc, from, unsent, left, selfAdding, reqLock, numRequests, numAcks>>
    BY DEF ReplyToRequest, mainVars
  <1>2. d \in Others(r) /\ Replies(r, d)
    BY <1>1 DEF HandshakeInv, RankInv, Replies
  <1>3. CASE Defers(r, d)
    <2>1. ackStack' = [ackStack EXCEPT ![r] = Append(@, d)] /\ net' = net
      BY <1>3 DEF ReplyToRequest
    <2> QED
      BY <1>1, <1>2, <2>1, Deferring
  <1>4. CASE ~ Defers(r, d)
    <2>1. net' = [net EXCEPT ![r][d] = Append(@, Ack)] /\ ackStack' = ackStack
      BY <1>4 DEF ReplyToRequest
    <2> QED
      BY <1>1, <1>2, <1>4, <2>1, Acking
  <1> QED
    BY <1>3, <1>4

-----------------------------------------------------------------------------
(* The invariant holds.                                                    *)

LEMMA HandshakeInit == Init => HandshakeInv
  <1> SUFFICES ASSUME Init PROVE HandshakeInv
    OBVIOUS
  <1>1. /\ \A p, q \in Ranks : net[p][q] = <<>>
        /\ \A r \in Ranks : /\ pc[r] = "idle" /\ lpc[r] = "probe" /\ unsent[r] = {}
                            /\ left[r] = 0 /\ ackStack[r] = <<>> /\ reqLock[r] = "none"
                            /\ numRequests[r] = 0 /\ numAcks[r] = 0 /\ ~ selfAdding[r]
    BY DEF Init
  <1>2. \A tag : ~ Carries(<<>>, tag)
    BY DEF Carries
  <1>3. Orderly(<<>>)
    BY DEF Orderly, AtMostOne, Before
  <1>4. NoRepeat(<<>>) /\ \A x : ~ Member(<<>>, x)
    BY DEF NoRepeat, Member
  <1>5. ASSUME NEW p \in Ranks, NEW q \in Others(p)
        PROVE  Orderly(net[p][q]) /\ PairInv(p, q) /\ ~ Counted(p, q) /\ ~ Answered(p, q)
    <2>1. q \in Ranks
      BY DEF Others
    <2> QED
      BY <1>1, <1>2, <1>3, <1>4, <2>1
       DEF PairInv, Alone, UnderWay, Answered, Commanded, Promised, Counted, Granted,
           Asks, HoldsOver, ReqSent, AckSent, CmdSent, Counts, Replies, Forces, Stacked
  <1>6. ASSUME NEW r \in Ranks PROVE RankInv(r)
    BY <1>1, <1>4 DEF RankInv
  <1>7. ASSUME NEW r \in Ranks PROVE CountInv(r)
    <2>1. \A q \in Others(r) : q \in Ranks /\ r \in Others(q)
      BY DEF Others
    <2>2. {q \in Others(r) : Counted(q, r)} = {}
      BY <1>5, <2>1
    <2>3. {q \in Others(r) : Answered(r, q)} = {}
      BY <1>5
    <2> QED
      BY <1>1, <2>2, <2>3, FS_EmptySet DEF CountInv
  <1> QED
    BY <1>5, <1>6, <1>7 DEF HandshakeInv, Pairs

LEMMA HandshakeStep == TypeOK /\ HandshakeInv /\ [Next]_vars => HandshakeInv'
  <1> SUFFICES ASSUME TypeOK, HandshakeInv, [Next]_vars PROVE HandshakeInv'
    OBVIOUS
  <1>1. CASE UNCHANGED vars
    BY <1>1, ViewKeeps DEF vars, mainVars, listenerVars, sharedVars
  <1>2. ASSUME NEW r \in Ranks, NEW n \in 1 .. MaxNew, BeginAdd(r, n) PROVE HandshakeInv'
    BY <1>2, BeginAddKeeps
  <1>3. ASSUME NEW r \in Ranks, MainStep(r) PROVE HandshakeInv'
    BY <1>3, LockRequestsKeeps, MarkAddingKeeps, SendRequestsKeeps, TakeAcksKeeps,
       SendCommandsKeeps, AddOwnNodeKeeps, ReleaseAddingKeeps, SendDeferredAckKeeps,
       ReturnIdsKeeps DEF MainStep
  <1>4. ASSUME NEW r \in Ranks, ListenerStep(r) PROVE HandshakeInv'
    BY <1>4, ReceiveRequestKeeps, HandleAckKeeps, ReceiveCommandKeeps, CountRequestKeeps,
       ReplyToRequestKeeps, ForceAddNodeKeeps, FinishCommandKeeps DEF ListenerStep
  <1> QED
    BY <1>1, <1>2, <1>3, <1>4 DEF Next

\* Requests, acks, commands, locks and counters fit together in every state.
THEOREM HandshakeKept == Spec => []HandshakeInv
  BY TypeCorrect, HandshakeInit, HandshakeStep, PTL DEF Spec

-----------------------------------------------------------------------------
(* What the invariant means for the counters and for the lock.             *)

\* A set with at most one member.
LEMMA CardinalityOne ==
  ASSUME NEW S, \A i, j \in S : i = j
  PROVE  Cardinality(S) = IF S = {} THEN 0 ELSE 1
  <1>1. CASE S = {}
    BY <1>1, FS_EmptySet
  <1>2. CASE S # {}
    <2>1. PICK i : i \in S
      BY <1>2
    <2>2. S = {i}
      BY <2>1
    <2> QED
      BY <1>2, <2>2, FS_Singleton
  <1> QED
    BY <1>1, <1>2

\* A kind of message carried at most once is counted as 0 or 1.
LEMMA CountCarried ==
  ASSUME NEW s, NEW tag, AtMostOne(s, tag)
  PROVE  CountOf(s, tag) = One(Carries(s, tag))
  <1> DEFINE S == {i \in 1 .. Len(s) : s[i].tag = tag}
  <1>1. \A i, j \in S : i = j
    BY DEF AtMostOne
  <1>2. S = {} <=> ~ Carries(s, tag)
    BY DEF Carries
  <1> HIDE DEF S
  <1>3. Cardinality(S) = IF S = {} THEN 0 ELSE 1
    BY <1>1, CardinalityOne
  <1> QED
    BY <1>2, <1>3 DEF CountOf, One, S

\* So is a rank on a stack that does not repeat.
LEMMA CountStacked ==
  ASSUME NEW s, NEW x, NoRepeat(s)
  PROVE  Cardinality({i \in 1 .. Len(s) : s[i] = x}) = One(Member(s, x))
  <1> DEFINE S == {i \in 1 .. Len(s) : s[i] = x}
  <1>1. \A i, j \in S : i = j
    BY DEF NoRepeat
  <1>2. S = {} <=> ~ Member(s, x)
    BY DEF Member
  <1> HIDE DEF S
  <1>3. Cardinality(S) = IF S = {} THEN 0 ELSE 1
    BY <1>1, CardinalityOne
  <1> QED
    BY <1>2, <1>3 DEF One, S

\* An ack is under way at most once.
LEMMA UnderWayOnce ==
  ASSUME HandshakeInv, NEW r \in Ranks, NEW q \in Others(r)
  PROVE  AckUnderWay(r, q) = One(UnderWay(r, q))
  <1>1. q \in Ranks /\ PairInv(r, q) /\ Orderly(net[r][q]) /\ Orderly(net[q][r])
    BY PairFacts
  <1>2. CountOf(net[r][q], "NEW_NODE_REQUEST") = One(ReqSent(r, q))
    BY <1>1, CountCarried DEF Orderly, ReqSent
  <1>3. CountOf(net[q][r], "NEW_NODE_ACK") = One(AckSent(q, r))
    BY <1>1, CountCarried DEF Orderly, AckSent
  <1>4. Cardinality({i \in 1 .. Len(ackStack[q]) : ackStack[q][i] = r}) = One(Stacked(q, r))
    BY <1>1, CountStacked DEF HandshakeInv, RankInv, Stacked
  <1>5. (lpc[q] \in {"count", "reply"} /\ from[q] = r) <=> Counts(q, r) \/ Replies(q, r)
    BY DEF Counts, Replies
  <1> QED
    BY <1>1, <1>2, <1>3, <1>4, <1>5 DEF AckUnderWay, PairInv, Alone, UnderWay, One

LEMMA AcksFollow == HandshakeInv => AcksAccounted
  <1> SUFFICES ASSUME HandshakeInv, NEW r \in Ranks
               PROVE  /\ \A q \in Others(r) : AckUnderWay(r, q) <= 1
                      /\ numAcks[r] + Cardinality({q \in Others(r) : AckUnderWay(r, q) = 1})
                              = Asked(r)
    BY DEF AcksAccounted
  <1>1. \A q \in Others(r) : AckUnderWay(r, q) = One(UnderWay(r, q))
    BY UnderWayOnce
  <1>2. \A q \in Others(r) : AckUnderWay(r, q) <= 1
    BY <1>1 DEF One
  <1> DEFINE Done == {q \in Others(r) : Answered(r, q)}
             Out == {q \in Others(r) : UnderWay(r, q)}
             All == {q \in Others(r) : Asks(r, q)}
  <1>3. {q \in Others(r) : AckUnderWay(r, q) = 1} = Out
    BY <1>1 DEF One
  <1>4. numAcks[r] = Cardinality(Done)
    BY DEF HandshakeInv, CountInv
  <1>5. All = Done \cup Out /\ Done \cap Out = {}
    <2>1. \A q \in Others(r) : UnderWay(r, q) => Asks(r, q)
      BY PairFacts DEF PairInv
    <2> QED
      BY <2>1 DEF Answered
  <1>6. /\ IsFiniteSet(Done) /\ Cardinality(Done) \in Nat
        /\ IsFiniteSet(Out) /\ Cardinality(Out) \in Nat
    BY OthersFinite, FS_Subset, FS_CardinalityType
  <1>7. Cardinality(All) = Asked(r)
    <2>1. CASE pc[r] \in {"request", "await"}
      <3>1. unsent[r] \in SUBSET Others(r)
        BY DEF HandshakeInv, RankInv
      <3>2. All = Others(r) \ unsent[r]
        BY <2>1 DEF Asks
      <3>3. Cardinality(Others(r) \ unsent[r])
                 = Cardinality(Others(r)) - Cardinality(Others(r) \cap unsent[r])
        BY OthersFinite, FS_Difference
      <3>4. Others(r) \cap unsent[r] = unsent[r]
        BY <3>1
      <3> QED
        BY <2>1, <3>2, <3>3, <3>4, OthersFinite DEF Asked
    <2>2. CASE pc[r] \notin {"request", "await"}
      <3>1. All = {}
        BY <2>2 DEF Asks
      <3> QED
        BY <2>2, <3>1, FS_EmptySet DEF Asked
    <2> QED
      BY <2>1, <2>2
  <1> HIDE DEF Done, Out, All
  <1>8. Cardinality(All) = Cardinality(Done) + Cardinality(Out)
    <2>1. Cardinality(Done \cup Out)
            = Cardinality(Done) + Cardinality(Out) - Cardinality(Done \cap Out)
      BY <1>6, FS_Union
    <2>2. Cardinality(Done \cap Out) = 0
      BY <1>5, FS_EmptySet
    <2>3. Cardinality(All) = Cardinality(Done \cup Out)
      BY <1>5
    <2> QED
      BY <1>6, <2>1, <2>2, <2>3
  <1> QED
    BY <1>2, <1>3, <1>4, <1>7, <1>8

\* A command is owed beyond the requests not counted yet for the ranks counted.
LEMMA OwedCounted ==
  ASSUME HandshakeInv, NEW r \in Ranks, NEW q \in Others(r)
  PROVE  CommandsOwed(r, q) - RequestsUncounted(r, q) = One(Counted(q, r))
         /\ CommandsOwed(r, q) \in Int /\ RequestsUncounted(r, q) \in Int
  <1>1. q \in Ranks /\ PairInv(q, r) /\ Orderly(net[q][r])
    BY PairFacts DEF Others
  <1>2. CountOf(net[q][r], "NEW_NODE_REQUEST") = One(ReqSent(q, r))
    BY <1>1, CountCarried DEF Orderly, ReqSent
  <1>3. CountOf(net[q][r], "NEW_NODE_COMMAND") = One(CmdSent(q, r))
    BY <1>1, CountCarried DEF Orderly, CmdSent
  <1>4. CommandsOwed(r, q) = One(CmdSent(q, r)) + One(Forces(r, q)) + One(Promised(q, r))
    BY <1>3 DEF CommandsOwed, Forces, Promised, Asks
  <1>5. RequestsUncounted(r, q) = One(ReqSent(q, r)) + One(Counts(r, q))
    BY <1>2 DEF RequestsUncounted, Counts
  <1> QED
    BY <1>1, <1>4, <1>5 DEF PairInv, Alone, UnderWay, Commanded, Promised, Counted, One

LEMMA RequestsFollow == HandshakeInv => RequestsAccounted
  <1> SUFFICES ASSUME HandshakeInv, NEW r \in Ranks
               PROVE  /\ \A q \in Others(r) :
                             CommandsOwed(r, q) - RequestsUncounted(r, q) \in {0, 1}
                      /\ numRequests[r] = Cardinality({q \in Others(r) :
                             CommandsOwed(r, q) > RequestsUncounted(r, q)})
    BY DEF RequestsAccounted
  <1>1. \A q \in Others(r) : CommandsOwed(r, q) - RequestsUncounted(r, q) = One(Counted(q, r))
                             /\ CommandsOwed(r, q) \in Int /\ RequestsUncounted(r, q) \in Int
    BY OwedCounted
  <1>2. {q \in Others(r) : CommandsOwed(r, q) > RequestsUncounted(r, q)}
            = {q \in Others(r) : Counted(q, r)}
    BY <1>1 DEF One
  <1> QED
    BY <1>1, <1>2 DEF HandshakeInv, CountInv, One

LEMMA LocksFollow == HandshakeInv => PeersLocked
  <1> SUFFICES ASSUME HandshakeInv, NEW p \in Ranks, NEW q \in Others(p), HoldsOver(p, q)
               PROVE  reqLock[q] = "listener"
    BY DEF PeersLocked
  <1>1. Counted(p, q)
    BY PairFacts DEF PairInv, UnderWay, Asks, HoldsOver, Counted, Promised
  <1> QED
    BY <1>1, CountedLocks

\* No ack is lost, duplicated or left over for the next call (num_acks).
THEOREM AcksBalance == Spec => []AcksAccounted
  BY HandshakeKept, AcksFollow, PTL

\* num_new_node_requests is the number of ranks that were counted and not
\* carried out, for any number of overlapping calls.
THEOREM RequestsBalance == Spec => []RequestsAccounted
  BY HandshakeKept, RequestsFollow, PTL

\* While a rank may go ahead, the callers of the ranks it has not commanded yet
\* are locked out.
THEOREM PeersStayLocked == Spec => []PeersLocked
  BY HandshakeKept, LocksFollow, PTL
=============================================================================
