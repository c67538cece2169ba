--------------------------- MODULE NodeHandshake ---------------------------
(***************************************************************************)
(* The inductive invariant of NodeAgreement: how requests, acks, commands, *)
(* locks and counters fit together between any two steps.  It says of two  *)
(* ranks p and q where p's call stands at q, and of each rank what its     *)
(* counters count.  NEW_EDGE messages are no part of it.                   *)
(***************************************************************************)
EXTENDS NodeAgreement

(* Sequences of messages, and of ranks.                                    *)

Carries(s, tag) == \E i \in 1 .. Len(s) : s[i].tag = tag
AtMostOne(s, tag) == \A i, j \in 1 .. Len(s) : s[i].tag = tag /\ s[j].tag = tag => i = j
Before(s, first, second) ==
    \A i, j \in 1 .. Len(s) : s[i].tag = first /\ s[j].tag = second => i < j

\* A rank sends its next request, and its ack to another's, only after the
\* commands of its last call: the receiver meets the commands first.
Orderly(s) ==
    /\ AtMostOne(s, "NEW_NODE_REQUEST") /\ AtMostOne(s, "NEW_NODE_ACK")
    /\ AtMostOne(s, "NEW_NODE_COMMAND")
    /\ Before(s, "NEW_NODE_COMMAND", "NEW_NODE_REQUEST")
    /\ Before(s, "NEW_NODE_COMMAND", "NEW_NODE_ACK")

Member(s, x) == \E i \in 1 .. Len(s) : s[i] = x
NoRepeat(s) == \A i, j \in 1 .. Len(s) : s[i] = s[j] => i = j

-----------------------------------------------------------------------------
(* Where p's call stands at q.                                             *)

ReqSent(p, q) == Carries(net[p][q], "NEW_NODE_REQUEST")
AckSent(q, p) == Carries(net[q][p], "NEW_NODE_ACK")
CmdSent(p, q) == Carries(net[p][q], "NEW_NODE_COMMAND")

\* q's listener handles a message of p.
Counts(q, p) == lpc[q] = "count" /\ from[q] = p
Replies(q, p) == lpc[q] = "reply" /\ from[q] = p
Forces(q, p) == lpc[q] = "force" /\ from[q] = p
Stacked(q, p) == Member(ackStack[q], p)

\* p asked q and goes on waiting; on its way from the request to the ack.
Asks(p, q) == pc[p] \in {"request", "await"} /\ q \notin unsent[p]
UnderWay(p, q) ==
    ReqSent(p, q) \/ Counts(q, p) \/ Replies(q, p) \/ Stacked(q, p) \/ AckSent(q, p)
Answered(p, q) == Asks(p, q) /\ ~ UnderWay(p, q)

\* q still has to carry out a command of p; p still has to command q.
Commanded(p, q) == CmdSent(p, q) \/ Forces(q, p)
Promised(p, q) == Asks(p, q) \/ HoldsOver(p, q)

\* q's listener counts p; q has let p go ahead, or will not stop it any more.
Counted(p, q) ==
    \/ Commanded(p, q)
    \/ Promised(p, q) /\ ~ ReqSent(p, q) /\ ~ Counts(q, p)
Granted(p, q) ==
    \/ Commanded(p, q)
    \/ /\ Promised(p, q)
       /\ ~ (ReqSent(p, q) \/ Counts(q, p) \/ Replies(q, p) \/ Stacked(q, p))

-----------------------------------------------------------------------------
(* The invariant.                                                          *)

\* p's call is in one place only at q.
Alone(p, q) ==
    /\ ReqSent(p, q) => ~ (Counts(q, p) \/ Replies(q, p) \/ Stacked(q, p) \/ AckSent(q, p))
    /\ Counts(q, p) \/ Replies(q, p) => ~ (Stacked(q, p) \/ AckSent(q, p))
    /\ Stacked(q, p) => ~ AckSent(q, p)
    /\ CmdSent(p, q) => ~ Forces(q, p)

\* The fourth conjunct: by the time p has q's ack, it has carried out q's
\* commands.  The last: q lets a lower rank go ahead only while it is not
\* adding nodes itself, and is locked out from then on.
PairInv(p, q) ==
    /\ Alone(p, q)
    /\ UnderWay(p, q) => Asks(p, q)
    /\ Commanded(p, q) /\ Promised(p, q) => ReqSent(p, q)
    /\ Answered(p, q) => ~ Commanded(q, p)
    /\ p < q /\ Granted(p, q) => pc[q] \in {"idle", "lock", "ack"}

\* One rank's own fields.
RankInv(r) ==
    /\ unsent[r] \subseteq Others(r)
    /\ lpc[r] # "probe" => from[r] \in Others(r)
    /\ selfAdding[r] <=> pc[r] \in {"request", "await", "command", "add"}
    /\ reqLock[r] = "listener" <=> numRequests[r] > 0
    /\ reqLock[r] = "main" <=> pc[r] = "mark"
    /\ pc[r] \notin {"command", "add"} => left[r] = 0
    /\ NoRepeat(ackStack[r])
    /\ ~ Member(ackStack[r], r)

\* What the counters count.
CountInv(r) ==
    /\ numRequests[r] = Cardinality({q \in Others(r) : Counted(q, r)})
    /\ numAcks[r] = Cardinality({q \in Others(r) : Answered(r, q)})

Pairs == \A p \in Ranks : \A q \in Others(p) : Orderly(net[p][q]) /\ PairInv(p, q)
HandshakeInv == Pairs /\ \A r \in Ranks : RankInv(r) /\ CountInv(r)
=============================================================================
