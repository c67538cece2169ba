--------------------------- MODULE NodeAgreement ---------------------------
(***************************************************************************)
(* How the ranks of dllama agree before they add nodes                     *)
(* (dllama::add_nodes and the NEW_NODE_* handlers of snapshot_merger).     *)
(*                                                                         *)
(* Every rank runs two threads: the main thread, which calls add_nodes,    *)
(* and the MPI listener, which serves one message at a time.  They share   *)
(* the fields of shared_thread_state.  Each rank keeps its own replica of  *)
(* the node counter, and ids are dense: a node's id is the value of the    *)
(* counter when the replica created it.  MPI delivers the messages between *)
(* two ranks in the order they were sent; the one-integer messages are     *)
(* sent eagerly, so a send never waits for its receiver.                   *)
(***************************************************************************)
EXTENDS Integers, Sequences, FiniteSets

CONSTANTS
    N,          \* world_size
    MaxCalls,   \* bound: MaxCalls[r] calls of add_nodes at rank r
    MaxNew,     \* bound: nodes asked for by one call
    InitNodes   \* nodes of the graph every rank loaded before the calls

ASSUME ConstantsAssumption ==
    /\ N \in Nat \ {0}
    /\ MaxCalls \in [0 .. N-1 -> Nat]
    /\ MaxNew \in Nat
    /\ InitNodes \in Nat

Ranks == 0 .. N-1
Others(r) == Ranks \ {r}

VARIABLES
    \* the main thread of each rank
    pc,           \* where add_nodes is
    want,         \* num_new_nodes of the call
    unsent,       \* ranks the current MPI_Send loop has not reached
    left,         \* iterations left in the graph->add_node loop
    lastId,       \* new_node_id
    calls,        \* calls made so far
    claimed,      \* history: the ids the finished calls stand for
    \* the listener thread of each rank
    lpc,          \* where the handler is
    from,         \* status.MPI_SOURCE of the message being handled
    lleft,        \* iterations left in force_add_nodes
    \* shared_thread_state
    selfAdding,   \* self_adding_node
    numRequests,  \* num_new_node_requests
    reqLock,      \* owner of num_new_node_requests_lock
    ackStack,     \* new_node_ack_stack, the top last
    numAcks,      \* num_acks
    \* the writable graph and MPI
    maxNodes,     \* _next_new_node_id of the rank's writable graph
    net           \* net[p][q]: messages from p to q not received yet

mainVars == <<pc, want, unsent, left, lastId, calls, claimed>>
listenerVars == <<lpc, from, lleft>>
sharedVars == <<selfAdding, numRequests, reqLock, ackStack, numAcks>>
vars == <<mainVars, listenerVars, sharedVars, maxNodes, net>>

MainStages == {"idle", "lock", "mark", "request", "await", "command", "add", "ack"}
ListenerStages == {"probe", "count", "reply", "force"}
Owners == {"none", "main", "listener"}
Tags == {"NEW_NODE_REQUEST", "NEW_NODE_ACK", "NEW_NODE_COMMAND", "NEW_EDGE"}
Messages == [tag : Tags, n : Nat]

Request(n) == [tag |-> "NEW_NODE_REQUEST", n |-> n]
Command(n) == [tag |-> "NEW_NODE_COMMAND", n |-> n]
Ack == [tag |-> "NEW_NODE_ACK", n |-> 1]

TypeOK ==
    /\ pc \in [Ranks -> MainStages]
    /\ want \in [Ranks -> Nat]
    /\ unsent \in [Ranks -> SUBSET Ranks]
    /\ left \in [Ranks -> Nat]
    /\ lastId \in [Ranks -> Nat]
    /\ calls \in [Ranks -> Nat]
    /\ claimed \in [Ranks -> SUBSET Int]
    /\ lpc \in [Ranks -> ListenerStages]
    /\ from \in [Ranks -> Ranks]
    /\ lleft \in [Ranks -> Nat]
    /\ selfAdding \in [Ranks -> BOOLEAN]
    /\ numRequests \in [Ranks -> Int]
    /\ reqLock \in [Ranks -> Owners]
    /\ ackStack \in [Ranks -> Seq(Ranks)]
    /\ numAcks \in [Ranks -> Nat]
    /\ maxNodes \in [Ranks -> Nat]
    /\ net \in [Ranks -> [Ranks -> Seq(Messages)]]

Init ==
    /\ pc = [r \in Ranks |-> "idle"]
    /\ want = [r \in Ranks |-> 0]
    /\ unsent = [r \in Ranks |-> {}]
    /\ left = [r \in Ranks |-> 0]
    /\ lastId = [r \in Ranks |-> 0]
    /\ calls = [r \in Ranks |-> 0]
    /\ claimed = [r \in Ranks |-> {}]
    /\ lpc = [r \in Ranks |-> "probe"]
    /\ from = [r \in Ranks |-> r]
    /\ lleft = [r \in Ranks |-> 0]
    /\ selfAdding = [r \in Ranks |-> FALSE]
    /\ numRequests = [r \in Ranks |-> 0]
    /\ reqLock = [r \in Ranks |-> "none"]
    /\ ackStack = [r \in Ranks |-> <<>>]
    /\ numAcks = [r \in Ranks |-> 0]
    /\ maxNodes = [r \in Ranks |-> InitNodes]
    /\ net = [p \in Ranks |-> [q \in Ranks |-> <<>>]]

-----------------------------------------------------------------------------
(* The main thread: add_nodes.                                             *)

\* The caller asks for n nodes.
BeginAdd(r, n) ==
    /\ pc[r] = "idle"
    /\ calls[r] < MaxCalls[r]
    /\ pc' = [pc EXCEPT ![r] = "lock"]
    /\ want' = [want EXCEPT ![r] = n]
    /\ calls' = [calls EXCEPT ![r] = @ + 1]
    /\ UNCHANGED <<unsent, left, lastId, claimed, listenerVars, sharedVars, maxNodes, net>>

\* num_new_node_requests_lock.lock(): waits while the listener holds it for
\* the requests of other ranks.
LockRequests(r) ==
    /\ pc[r] = "lock"
    /\ reqLock[r] = "none"
    /\ reqLock' = [reqLock EXCEPT ![r] = "main"]
    /\ pc' = [pc EXCEPT ![r] = "mark"]
    /\ UNCHANGED <<want, unsent, left, lastId, calls, claimed, listenerVars,
                   selfAdding, numRequests, ackStack, numAcks, maxNodes, net>>

\* self_adding_node = 1, and unlock.
MarkAdding(r) ==
    /\ pc[r] = "mark"
    /\ selfAdding' = [selfAdding EXCEPT ![r] = TRUE]
    /\ reqLock' = [reqLock EXCEPT ![r] = "none"]
    /\ unsent' = [unsent EXCEPT ![r] = Others(r)]
    /\ pc' = [pc EXCEPT ![r] = "request"]
    /\ UNCHANGED <<want, left, lastId, calls, claimed, listenerVars,
                   numRequests, ackStack, numAcks, maxNodes, net>>

\* One MPI_Send of a loop over the other ranks, lowest rank first; with no
\* rank left the thread goes on to stage next.
SendLoop(r, m, next) ==
    \/ \E q \in unsent[r] :
        /\ \A u \in unsent[r] : q <= u
        /\ net' = [net EXCEPT ![r][q] = Append(@, m)]
        /\ unsent' = [unsent EXCEPT ![r] = @ \ {q}]
        /\ UNCHANGED pc
    \/ /\ unsent[r] = {}
       /\ pc' = [pc EXCEPT ![r] = next]
       /\ UNCHANGED <<net, unsent>>

SendRequests(r) ==
    /\ pc[r] = "request"
    /\ SendLoop(r, Request(want[r]), "await")
    /\ UNCHANGED <<want, left, lastId, calls, claimed, listenerVars, sharedVars, maxNodes>>

\* Mutant: num_acks keeps the acks of the last call.
TakeAcksWithoutReset(r) ==
    /\ pc[r] = "await"
    /\ numAcks[r] >= N - 1
    /\ unsent' = [unsent EXCEPT ![r] = Others(r)]
    /\ left' = [left EXCEPT ![r] = want[r]]
    /\ pc' = [pc EXCEPT ![r] = "command"]
    /\ UNCHANGED <<want, lastId, calls, claimed, listenerVars, sharedVars, maxNodes, net>>

\* The condition variable's wait, and the reset of num_acks under its lock.
TakeAcks(r) ==
    /\ pc[r] = "await"
    /\ numAcks[r] = N - 1
    /\ numAcks' = [numAcks EXCEPT ![r] = 0]
    /\ unsent' = [unsent EXCEPT ![r] = Others(r)]
    /\ left' = [left EXCEPT ![r] = want[r]]
    /\ pc' = [pc EXCEPT ![r] = "command"]
    /\ UNCHANGED <<want, lastId, calls, claimed, listenerVars,
                   selfAdding, numRequests, reqLock, ackStack, maxNodes, net>>

SendCommands(r) ==
    /\ pc[r] = "command"
    /\ SendLoop(r, Command(want[r]), "add")
    /\ UNCHANGED <<want, left, lastId, calls, claimed, listenerVars, sharedVars, maxNodes>>

\* One graph->add_node() of the loop: the replica's counter is the new id.
AddOwnNode(r) ==
    /\ pc[r] = "add"
    /\ left[r] > 0
    /\ lastId' = [lastId EXCEPT ![r] = maxNodes[r]]
    /\ maxNodes' = [maxNodes EXCEPT ![r] = @ + 1]
    /\ left' = [left EXCEPT ![r] = @ - 1]
    /\ UNCHANGED <<pc, want, unsent, calls, claimed, listenerVars, sharedVars, net>>

\* new_node_ack_stack_lock is held by the main thread in stage "ack" only.
ReleaseAdding(r) ==
    /\ pc[r] = "add"
    /\ left[r] = 0
    /\ selfAdding' = [selfAdding EXCEPT ![r] = FALSE]
    /\ pc' = [pc EXCEPT ![r] = "ack"]
    /\ UNCHANGED <<want, unsent, left, lastId, calls, claimed, listenerVars,
                   numRequests, reqLock, ackStack, numAcks, maxNodes, net>>

SendDeferredAck(r) ==
    /\ pc[r] = "ack"
    /\ ackStack[r] # <<>>
    /\ LET top == ackStack[r][Len(ackStack[r])] IN
        net' = [net EXCEPT ![r][top] = Append(@, Ack)]
    /\ ackStack' = [ackStack EXCEPT ![r] = SubSeq(@, 1, Len(@) - 1)]
    /\ UNCHANGED <<mainVars, listenerVars, selfAdding, numRequests, reqLock, numAcks, maxNodes>>

\* The call returns the first of want consecutive ids that end at lastId.
ReturnIds(r) ==
    /\ pc[r] = "ack"
    /\ ackStack[r] = <<>>
    /\ claimed' = [claimed EXCEPT ![r] = @ \cup (lastId[r] + 1 - want[r] .. lastId[r])]
    /\ pc' = [pc EXCEPT ![r] = "idle"]
    /\ UNCHANGED <<want, unsent, left, lastId, calls, listenerVars, sharedVars, maxNodes, net>>

-----------------------------------------------------------------------------
(* The listener thread: one message at a time, from any rank.              *)

\* MPI_Probe and MPI_Recv of the first message from q, if it has this tag.
Receive(r, q, tag) ==
    /\ lpc[r] = "probe"
    /\ net[q][r] # <<>>
    /\ Head(net[q][r]).tag = tag
    /\ net' = [net EXCEPT ![q][r] = Tail(@)]
    /\ from' = [from EXCEPT ![r] = q]

ReceiveRequest(r, q) ==
    /\ Receive(r, q, "NEW_NODE_REQUEST")
    /\ lpc' = [lpc EXCEPT ![r] = "count"]
    /\ UNCHANGED <<mainVars, lleft, sharedVars, maxNodes>>

\* The first request outstanding takes num_new_node_requests_lock, which is
\* kept until the last one's command has been carried out.
CountRequest(r) ==
    /\ lpc[r] = "count"
    /\ numRequests[r] = 0 => reqLock[r] = "none"
    /\ reqLock' = [reqLock EXCEPT ![r] = IF numRequests[r] = 0 THEN "listener" ELSE @]
    /\ numRequests' = [numRequests EXCEPT ![r] = @ + 1]
    /\ lpc' = [lpc EXCEPT ![r] = "reply"]
    /\ UNCHANGED <<mainVars, from, lleft, selfAdding, ackStack, numAcks, maxNodes, net>>

\* Mutants: nobody defers; a rank that is adding defers everybody.
DefersNobody(r, source) == FALSE
DefersAll(r, source) == selfAdding[r]

\* A rank that is adding defers the ack of a lower rank.
Defers(r, source) == selfAdding[r] /\ source < r

\* The reply, under new_node_ack_stack_lock.
ReplyToRequest(r) ==
    /\ lpc[r] = "reply"
    /\ pc[r] # "ack"
    /\ \/ /\ Defers(r, from[r])
          /\ ackStack' = [ackStack EXCEPT ![r] = Append(@, from[r])]
          /\ UNCHANGED net
       \/ /\ ~Defers(r, from[r])
          /\ net' = [net EXCEPT ![r][from[r]] = Append(@, Ack)]
          /\ UNCHANGED ackStack
    /\ lpc' = [lpc EXCEPT ![r] = "probe"]
    /\ UNCHANGED <<mainVars, from, lleft, selfAdding, numRequests, reqLock, numAcks, maxNodes>>

HandleAck(r, q) ==
    /\ Receive(r, q, "NEW_NODE_ACK")
    /\ numAcks' = [numAcks EXCEPT ![r] = @ + 1]
    /\ UNCHANGED <<mainVars, lpc, lleft, selfAdding, numRequests, reqLock, ackStack, maxNodes>>

\* Mutant: the loop of force_add_nodes ends one node short.
ReceiveCommandShort(r, q) ==
    /\ Receive(r, q, "NEW_NODE_COMMAND")
    /\ lleft' = [lleft EXCEPT ![r] = Head(net[q][r]).n - 1]
    /\ lpc' = [lpc EXCEPT ![r] = "force"]
    /\ UNCHANGED <<mainVars, sharedVars, maxNodes>>

ReceiveCommand(r, q) ==
    /\ Receive(r, q, "NEW_NODE_COMMAND")
    /\ lleft' = [lleft EXCEPT ![r] = Head(net[q][r]).n]
    /\ lpc' = [lpc EXCEPT ![r] = "force"]
    /\ UNCHANGED <<mainVars, sharedVars, maxNodes>>

\* One graph->add_node() of force_add_nodes.
ForceAddNode(r) ==
    /\ lpc[r] = "force"
    /\ lleft[r] > 0
    /\ maxNodes' = [maxNodes EXCEPT ![r] = @ + 1]
    /\ lleft' = [lleft EXCEPT ![r] = @ - 1]
    /\ UNCHANGED <<mainVars, lpc, from, sharedVars, net>>

\* Mutant: the lock is released after any command, not the last.
FinishCommandUnlock(r) ==
    /\ lpc[r] = "force"
    /\ lleft[r] = 0
    /\ numRequests' = [numRequests EXCEPT ![r] = @ - 1]
    /\ reqLock' = [reqLock EXCEPT ![r] = "none"]
    /\ lpc' = [lpc EXCEPT ![r] = "probe"]
    /\ UNCHANGED <<mainVars, from, lleft, selfAdding, ackStack, numAcks, maxNodes, net>>

\* Mutant: the request stays counted.
FinishCommandKeepsCount(r) ==
    /\ lpc[r] = "force"
    /\ lleft[r] = 0
    /\ reqLock' = [reqLock EXCEPT ![r] = IF numRequests[r] = 1 THEN "none" ELSE @]
    /\ lpc' = [lpc EXCEPT ![r] = "probe"]
    /\ UNCHANGED <<mainVars, from, lleft, selfAdding, numRequests, ackStack, numAcks, maxNodes, net>>

FinishCommand(r) ==
    /\ lpc[r] = "force"
    /\ lleft[r] = 0
    /\ numRequests' = [numRequests EXCEPT ![r] = @ - 1]
    /\ reqLock' = [reqLock EXCEPT ![r] = IF numRequests[r] = 1 THEN "none" ELSE @]
    /\ lpc' = [lpc EXCEPT ![r] = "probe"]
    /\ UNCHANGED <<mainVars, from, lleft, selfAdding, ackStack, numAcks, maxNodes, net>>

-----------------------------------------------------------------------------
MainStep(r) ==
    \/ LockRequests(r) \/ MarkAdding(r) \/ SendRequests(r) \/ TakeAcks(r)
    \/ SendCommands(r) \/ AddOwnNode(r) \/ ReleaseAdding(r)
    \/ SendDeferredAck(r) \/ ReturnIds(r)

ListenerStep(r) ==
    \/ \E q \in Others(r) :
        ReceiveRequest(r, q) \/ HandleAck(r, q) \/ ReceiveCommand(r, q)
    \/ CountRequest(r) \/ ReplyToRequest(r) \/ ForceAddNode(r) \/ FinishCommand(r)

Next ==
    \E r \in Ranks :
        \/ \E n \in 1 .. MaxNew : BeginAdd(r, n)
        \/ MainStep(r)
        \/ ListenerStep(r)

Spec == Init /\ [][Next]_vars

-----------------------------------------------------------------------------
(* What the protocol must guarantee.                                       *)

\* p has every ack and has not yet commanded q: p's call has the right to go
\* ahead, and q must not take that right in the meantime.
HoldsOver(p, q) == pc[p] = "command" /\ q \in unsent[p]

\* While p holds over q, q's own callers are locked out by q's listener:
\* an ack is a promise (snapshot_merger.cpp:163-165) that lasts until q has
\* carried out p's command (snapshot_merger.cpp:187-190).
PeersLocked ==
    \A p \in Ranks : \A q \in Others(p) : HoldsOver(p, q) => reqLock[q] = "listener"

CountOf(s, tag) == Cardinality({i \in 1 .. Len(s) : s[i].tag = tag})
One(b) == IF b THEN 1 ELSE 0

\* What r's call has under way at q: its request, the request in q's handler
\* or on q's stack, or the ack.
AckUnderWay(r, q) ==
    CountOf(net[r][q], "NEW_NODE_REQUEST")
        + One(lpc[q] \in {"count", "reply"} /\ from[q] = r)
        + Cardinality({i \in 1 .. Len(ackStack[q]) : ackStack[q][i] = r})
        + CountOf(net[q][r], "NEW_NODE_ACK")

\* The acks r's current call may still count on.
Asked(r) == IF pc[r] \in {"request", "await"} THEN N - 1 - Cardinality(unsent[r]) ELSE 0

\* No ack is lost, duplicated, or left over for the next call: while r asks,
\* every rank asked owes it exactly one ack that num_acks does not count yet,
\* and outside of that nothing is under way (num_acks, dllama.cpp:122-125).
AcksAccounted ==
    \A r \in Ranks :
        /\ \A q \in Others(r) : AckUnderWay(r, q) <= 1
        /\ numAcks[r] + Cardinality({q \in Others(r) : AckUnderWay(r, q) = 1}) = Asked(r)

\* r still has to be commanded, or has still to carry out a command, for a
\* request of q ...
CommandsOwed(r, q) ==
    CountOf(net[q][r], "NEW_NODE_COMMAND")
        + One(lpc[r] = "force" /\ from[r] = q)
        + One((pc[q] \in {"request", "await"} /\ r \notin unsent[q]) \/ HoldsOver(q, r))

\* ... which r's listener may not have counted yet.
RequestsUncounted(r, q) ==
    CountOf(net[q][r], "NEW_NODE_REQUEST") + One(lpc[r] = "count" /\ from[r] = q)

\* num_new_node_requests is the number of ranks whose request was counted and
\* whose command was not carried out, whatever calls overlap: otherwise the
\* lock is released under a rank that was promised it, or never.
RequestsAccounted ==
    \A r \in Ranks :
        /\ \A q \in Others(r) : CommandsOwed(r, q) - RequestsUncounted(r, q) \in {0, 1}
        /\ numRequests[r] =
               Cardinality({q \in Others(r) : CommandsOwed(r, q) > RequestsUncounted(r, q)})

\* No call or message is under way.
Quiet ==
    \A r \in Ranks :
        /\ pc[r] = "idle" /\ lpc[r] = "probe"
        /\ \A q \in Ranks : net[r][q] = <<>>

\* The id add_nodes returns names a node of the caller: test and benchmark
\* code adds edges to it at once (merge_tests.cpp:104-105, main.cpp:50), and
\* two calls must not be given the same node.
IdsUnique == \A p \in Ranks : \A q \in Others(p) : claimed[p] \cap claimed[q] = {}

\* Nobody waits for ever on everybody: as long as a call has not returned or
\* a message was not handled, some thread can move.  Every thread's step
\* takes it further through a bounded number of calls, so this is also what
\* makes the calls return.
NobodyStuck == ~ Quiet => ENABLED (\E r \in Ranks : MainStep(r) \/ ListenerStep(r))
=============================================================================
