--------------------------- MODULE MergeProtocol ---------------------------
(***************************************************************************)
(* How the ranks of dllama checkpoint, exchange snapshots and merge them   *)
(* into a new level 0 (dllama::checkpoint and its callers, and the         *)
(* SNAPSHOT_MESSAGE and START_MERGE_REQUEST handlers of snapshot_merger).  *)
(*                                                                         *)
(* A graph is the set of updates it contains.  An update is made by the    *)
(* main thread of one rank in its writable graph, written to a snapshot    *)
(* file by a checkpoint, sent to the other ranks, and ends in the level 0  *)
(* of every rank by a merge.  How a merge reads and writes the files is    *)
(* the subject of other modules: here a snapshot file is a set of updates. *)
(*                                                                         *)
(* handle_merge_request runs in the listener thread for a request of       *)
(* another rank and in the main thread for start_merge, under              *)
(* listener_lock, which also keeps the listener from any other message.    *)
(***************************************************************************)
EXTENDS Integers, Sequences, FiniteSets

CONSTANTS
    N,           \* world_size
    Writers,     \* bound: the ranks that make updates and checkpoints
    MaxUpdates,  \* bound: updates made by each of them
    MaxSaves,    \* bound: checkpoints asked for by each of them
    MaxStarts,   \* bound: MaxStarts[r] calls of start_merge at rank r
    Rendezvous,  \* does the MPI_Send of a snapshot wait for its receiver?
    \* What the callers of the library respect:
    Fresh,       \* all ranks checkpointed since their last merge before a merge is started
    Barrier      \* checkpoints and merges are kept apart, at all ranks, by barriers

ASSUME ConstantsAssumption ==
    /\ N \in Nat \ {0}
    /\ Writers \subseteq 0 .. N-1
    /\ MaxUpdates \in Nat
    /\ MaxSaves \in Nat
    /\ MaxStarts \in [0 .. N-1 -> Nat]
    /\ {Rendezvous, Fresh, Barrier} \subseteq BOOLEAN

Ranks == 0 .. N-1
Others(r) == Ranks \ {r}

VARIABLES
    \* the database of each rank
    delta,      \* updates in the writable graph
    files,      \* files[r][k]: the updates of csr__out__k.dat
    base,       \* the updates of csr__out__0.dat
    receipts,   \* receipts[r][q][k]: rank<q>/csr__out__k.dat at r
    merged,     \* history: the level 0 each merge made
    \* the main thread of each rank
    pc, unsent, made, saves, starts,
    \* handle_merge_request, in whichever thread runs it
    stage, source, level, toAsk, newBase,
    \* snapshot_merger and shared_thread_state
    received, expected,   \* received_snapshot_levels, expected_snapshot_levels
    currentLevel,         \* current_snapshot_level
    mergeStarting,        \* merge_starting
    startLock,            \* merge_starting_lock is held by an auto_checkpoint
    mergeLock,            \* merge_lock is held
    \* net[p][q]: messages from p to q not received yet
    net

dataVars == <<delta, files, base, receipts, merged>>
mainVars == <<pc, unsent, made, saves, starts>>
handlerVars == <<stage, source, level, toAsk, newBase>>
sharedVars == <<received, expected, currentLevel, mergeStarting, startLock, mergeLock>>
vars == <<dataVars, mainVars, handlerVars, sharedVars, net>>

Updates == Ranks \X (1 .. MaxUpdates)
Snapshot(k, content) == [tag |-> "SNAPSHOT_MESSAGE", n |-> k, content |-> content]
MergeRequest(k) == [tag |-> "START_MERGE_REQUEST", n |-> k, content |-> {}]
Messages == [tag : {"SNAPSHOT_MESSAGE", "START_MERGE_REQUEST"}, n : Int, content : SUBSET Updates]

MainStages == {"idle", "request", "auto", "send", "autosend", "merge"}
HandlerStages ==
    {"none", "mark", "lock", "ask", "compare", "merge", "refresh", "unlock", "unmark"}

\* graph->num_levels(): level 0, the snapshots, and the writable level.
NumLevels(r) == Len(files[r]) + 2

TypeOK ==
    /\ delta \in [Ranks -> SUBSET Updates]
    /\ files \in [Ranks -> Seq(SUBSET Updates)]
    /\ base \in [Ranks -> SUBSET Updates]
    /\ receipts \in [Ranks -> [Ranks -> [0 .. MaxSaves -> SUBSET Updates]]]
    /\ merged \in [Ranks -> Seq(SUBSET Updates)]
    /\ pc \in [Ranks -> MainStages]
    /\ unsent \in [Ranks -> SUBSET Ranks]
    /\ made \in [Ranks -> Nat] /\ saves \in [Ranks -> Nat] /\ starts \in [Ranks -> Nat]
    /\ stage \in [Ranks -> HandlerStages]
    /\ source \in [Ranks -> Ranks]
    /\ level \in [Ranks -> Int]
    /\ toAsk \in [Ranks -> SUBSET Ranks]
    /\ newBase \in [Ranks -> SUBSET Updates]
    /\ received \in [Ranks -> [Ranks -> 0 .. MaxSaves]]
    /\ expected \in [Ranks -> [Ranks -> -1 .. MaxSaves]]
    /\ currentLevel \in [Ranks -> Nat]
    /\ mergeStarting \in [Ranks -> BOOLEAN]
    /\ startLock \in [Ranks -> BOOLEAN]
    /\ mergeLock \in [Ranks -> BOOLEAN]
    /\ net \in [Ranks -> [Ranks -> Seq(Messages)]]

\* Nobody else is expected to have sent anything; -1 means that the rank has
\* to be heard of before a merge.
NothingReceived == [q \in Ranks |-> 0]
NobodyHeard(r) == [q \in Ranks |-> IF q = r THEN 0 ELSE -1]

\* All ranks have loaded the same graph (load_net_graph), which is level 0.
Init ==
    /\ delta = [r \in Ranks |-> {}]
    /\ files = [r \in Ranks |-> <<>>]
    /\ base = [r \in Ranks |-> {}]
    /\ receipts = [r \in Ranks |-> [q \in Ranks |-> [k \in 0 .. MaxSaves |-> {}]]]
    /\ merged = [r \in Ranks |-> <<>>]
    /\ pc = [r \in Ranks |-> "idle"]
    /\ unsent = [r \in Ranks |-> {}]
    /\ made = [r \in Ranks |-> 0]
    /\ saves = [r \in Ranks |-> 0]
    /\ starts = [r \in Ranks |-> 0]
    /\ stage = [r \in Ranks |-> "none"]
    /\ source = [r \in Ranks |-> r]
    /\ level = [r \in Ranks |-> 0]
    /\ toAsk = [r \in Ranks |-> {}]
    /\ newBase = [r \in Ranks |-> {}]
    /\ received = [r \in Ranks |-> NothingReceived]
    /\ expected = [r \in Ranks |-> NobodyHeard(r)]
    /\ currentLevel = [r \in Ranks |-> NumLevels(r)]
    /\ mergeStarting = [r \in Ranks |-> FALSE]
    /\ startLock = [r \in Ranks |-> FALSE]
    /\ mergeLock = [r \in Ranks |-> FALSE]
    /\ net = [p \in Ranks |-> [q \in Ranks |-> <<>>]]

-----------------------------------------------------------------------------
(* What callers respect.                                                   *)

\* As many merges done everywhere, and no merge under way.
AllDone == \A p, q \in Ranks : Len(merged[p]) = Len(merged[q])
NoMerge == AllDone /\ \A r \in Ranks : ~ mergeStarting[r] /\ stage[r] = "none"
MaySave == Barrier => NoMerge
MayStart ==
    /\ Barrier => NoMerge /\ \A p \in Ranks : pc[p] = "idle"
    /\ Fresh => AllDone /\ \A p \in Ranks : currentLevel[p] = NumLevels(p)

-----------------------------------------------------------------------------
(* The main thread.                                                        *)

\* add_edge: a change of the writable graph.
Update(r) ==
    /\ pc[r] = "idle"
    /\ r \in Writers
    /\ made[r] < MaxUpdates
    /\ made' = [made EXCEPT ![r] = @ + 1]
    /\ delta' = [delta EXCEPT ![r] = @ \cup {<<r, made[r] + 1>>}]
    /\ UNCHANGED <<files, base, receipts, merged, pc, unsent, saves, starts,
                   handlerVars, sharedVars, net>>

\* request_checkpoint waits for merge_lock, auto_checkpoint for
\* merge_starting_lock; each keeps its lock until the snapshot is sent.
AskCheckpoint(r) ==
    /\ pc[r] = "idle"
    /\ r \in Writers
    /\ saves[r] < MaxSaves
    /\ MaySave
    /\ saves' = [saves EXCEPT ![r] = @ + 1]
    /\ pc' \in {[pc EXCEPT ![r] = how] : how \in {"request", "auto"}}
    /\ UNCHANGED <<dataVars, unsent, made, starts, handlerVars, sharedVars, net>>

\* Mutant: every checkpoint counts as a level, with or without changes.
SaveCounts(r) ==
    /\ files' = [files EXCEPT ![r] = IF delta[r] = {} THEN @ ELSE Append(@, delta[r])]
    /\ delta' = [delta EXCEPT ![r] = {}]
    /\ currentLevel' = [currentLevel EXCEPT ![r] = @ + 1]
    /\ unsent' = [unsent EXCEPT ![r] = Others(r)]

\* checkpoint, up to the sends: the deltas become the next snapshot file; a
\* graph without changes makes no file.
Save(r) ==
    /\ files' = [files EXCEPT ![r] = IF delta[r] = {} THEN @ ELSE Append(@, delta[r])]
    /\ delta' = [delta EXCEPT ![r] = {}]
    /\ currentLevel' = [currentLevel EXCEPT ![r] = NumLevels(r)']
    /\ unsent' = [unsent EXCEPT ![r] = Others(r)]

\* Mutant: request_checkpoint does not wait for merge_lock.
RequestCheckpointUnlocked(r) ==
    /\ pc[r] = "request"
    /\ mergeLock' = [mergeLock EXCEPT ![r] = TRUE]
    /\ Save(r)
    /\ pc' = [pc EXCEPT ![r] = "send"]
    /\ UNCHANGED <<base, receipts, merged, made, saves, starts, handlerVars,
                   received, expected, mergeStarting, startLock, net>>

RequestCheckpoint(r) ==
    /\ pc[r] = "request"
    /\ ~ mergeLock[r]
    /\ mergeLock' = [mergeLock EXCEPT ![r] = TRUE]
    /\ Save(r)
    /\ pc' = [pc EXCEPT ![r] = "send"]
    /\ UNCHANGED <<base, receipts, merged, made, saves, starts, handlerVars,
                   received, expected, mergeStarting, startLock, net>>

\* Mutant: auto_checkpoint does not test merge_starting.
AutoCheckpointUntested(r) ==
    /\ pc[r] = "auto"
    /\ startLock' = [startLock EXCEPT ![r] = TRUE]
    /\ Save(r)
    /\ pc' = [pc EXCEPT ![r] = "autosend"]
    /\ UNCHANGED <<base, receipts, merged, made, saves, starts, handlerVars,
                   received, expected, mergeStarting, mergeLock, net>>

AutoCheckpoint(r) ==
    /\ pc[r] = "auto"
    /\ \/ /\ ~ mergeStarting[r]
          /\ startLock' = [startLock EXCEPT ![r] = TRUE]
          /\ Save(r)
          /\ pc' = [pc EXCEPT ![r] = "autosend"]
       \/ /\ mergeStarting[r]
          /\ pc' = [pc EXCEPT ![r] = "idle"]
          /\ UNCHANGED <<startLock, files, delta, currentLevel, unsent>>
    /\ UNCHANGED <<base, receipts, merged, made, saves, starts, handlerVars,
                   received, expected, mergeStarting, mergeLock, net>>

\* A rendezvous send is over when the receiver has taken the message.
Delivered(r) ==
    Rendezvous => \A q \in Ranks : \A i \in 1 .. Len(net[r][q]) :
                      net[r][q][i].tag # "SNAPSHOT_MESSAGE"

\* The file with the last number is sent: level 0 if there is no snapshot.
SendSnapshot(r) ==
    /\ pc[r] \in {"send", "autosend"}
    /\ Delivered(r)
    /\ LET k == NumLevels(r) - 2
           content == IF k = 0 THEN base[r] ELSE files[r][k]
       IN \E q \in unsent[r] :
            /\ \A u \in unsent[r] : q <= u
            /\ net' = [net EXCEPT ![r][q] = Append(@, Snapshot(k, content))]
            /\ unsent' = [unsent EXCEPT ![r] = @ \ {q}]
    /\ UNCHANGED <<dataVars, pc, made, saves, starts, handlerVars, sharedVars>>

EndCheckpoint(r) ==
    /\ unsent[r] = {}
    /\ Delivered(r)
    /\ \/ /\ pc[r] = "send"
          /\ mergeLock' = [mergeLock EXCEPT ![r] = FALSE]
          /\ UNCHANGED startLock
       \/ /\ pc[r] = "autosend"
          /\ startLock' = [startLock EXCEPT ![r] = FALSE]
          /\ UNCHANGED mergeLock
    /\ pc' = [pc EXCEPT ![r] = "idle"]
    /\ UNCHANGED <<dataVars, unsent, made, saves, starts, handlerVars,
                   received, expected, currentLevel, mergeStarting, net>>

\* start_merge: begin_merge takes listener_lock and handles a request of its own.
StartMerge(r) ==
    /\ pc[r] = "idle"
    /\ starts[r] < MaxStarts[r]
    /\ MayStart
    /\ stage[r] = "none"
    /\ starts' = [starts EXCEPT ![r] = @ + 1]
    /\ pc' = [pc EXCEPT ![r] = "merge"]
    /\ stage' = [stage EXCEPT ![r] = "mark"]
    /\ source' = [source EXCEPT ![r] = r]
    /\ UNCHANGED <<dataVars, unsent, made, saves, level, toAsk, newBase,
                   sharedVars, net>>
-----------------------------------------------------------------------------
(* The listener thread, which needs listener_lock for every message.       *)

\* Mutant: the level of the snapshot is not recorded.
HandleSnapshotUnrecorded(r, q) ==
    /\ stage[r] = "none"
    /\ net[q][r] # <<>>
    /\ LET m == Head(net[q][r]) IN
        /\ m.tag = "SNAPSHOT_MESSAGE"
        /\ receipts' = [receipts EXCEPT ![r][q][m.n] = m.content]
    /\ net' = [net EXCEPT ![q][r] = Tail(@)]
    /\ UNCHANGED <<delta, files, base, merged, mainVars, handlerVars, received,
                   expected, currentLevel, mergeStarting, startLock, mergeLock>>

HandleSnapshot(r, q) ==
    /\ stage[r] = "none"
    /\ net[q][r] # <<>>
    /\ LET m == Head(net[q][r]) IN
        /\ m.tag = "SNAPSHOT_MESSAGE"
        /\ received' = [received EXCEPT ![r][q] = m.n]
        /\ receipts' = [receipts EXCEPT ![r][q][m.n] = m.content]
    /\ net' = [net EXCEPT ![q][r] = Tail(@)]
    /\ UNCHANGED <<delta, files, base, merged, mainVars, handlerVars,
                   expected, currentLevel, mergeStarting, startLock, mergeLock>>

\* A merge request is probed; it stays in the channel until the handler
\* receives it.
ProbeMergeRequest(r, q) ==
    /\ stage[r] = "none"
    /\ net[q][r] # <<>>
    /\ Head(net[q][r]).tag = "START_MERGE_REQUEST"
    /\ stage' = [stage EXCEPT ![r] = "mark"]
    /\ source' = [source EXCEPT ![r] = q]
    /\ UNCHANGED <<dataVars, mainVars, level, toAsk, newBase, sharedVars, net>>

-----------------------------------------------------------------------------
(* handle_merge_request(source).                                           *)

\* merge_starting is tested and set under merge_starting_lock, then the
\* level of the request is received; the rank's own request has level 2.
MarkStarting(r) ==
    /\ stage[r] = "mark"
    /\ ~ startLock[r]
    /\ mergeStarting' = [mergeStarting EXCEPT ![r] = TRUE]
    /\ \/ /\ source[r] = r
          /\ level' = [level EXCEPT ![r] = 2]
          /\ UNCHANGED net
       \/ /\ source[r] # r
          /\ level' = [level EXCEPT ![r] = Head(net[source[r]][r]).n]
          /\ net' = [net EXCEPT ![source[r]][r] = Tail(@)]
    /\ stage' = [stage EXCEPT ![r] = IF mergeStarting[r] THEN "compare" ELSE "lock"]
    /\ UNCHANGED <<dataVars, mainVars, source, toAsk, newBase,
                   received, expected, currentLevel, startLock, mergeLock>>

\* The first request of a merge takes merge_lock, which keeps
\* request_checkpoint out until the merge is over, ...
LockMerge(r) ==
    /\ stage[r] = "lock"
    /\ ~ mergeLock[r]
    /\ mergeLock' = [mergeLock EXCEPT ![r] = TRUE]
    /\ toAsk' = [toAsk EXCEPT ![r] = Others(r)]
    /\ stage' = [stage EXCEPT ![r] = "ask"]
    /\ UNCHANGED <<dataVars, mainVars, source, level, newBase,
                   received, expected, currentLevel, mergeStarting, startLock, net>>

\* ... and is passed on to all other ranks with the rank's own level.
AskOthers(r) ==
    /\ stage[r] = "ask"
    /\ \/ \E q \in toAsk[r] :
            /\ \A u \in toAsk[r] : q <= u
            /\ net' = [net EXCEPT ![r][q] = Append(@, MergeRequest(currentLevel[r]))]
            /\ toAsk' = [toAsk EXCEPT ![r] = @ \ {q}]
            /\ UNCHANGED stage
       \/ /\ toAsk[r] = {}
          /\ stage' = [stage EXCEPT ![r] = "compare"]
          /\ UNCHANGED <<net, toAsk>>
    /\ UNCHANGED <<dataVars, mainVars, source, level, newBase, sharedVars>>

\* Merge when the last snapshot received from every rank is the last one it
\* announced; otherwise the handler is done.
CompareLevels(r) ==
    /\ stage[r] = "compare"
    /\ expected' = [expected EXCEPT ![r][source[r]] = level[r] - 2]
    /\ stage' = [stage EXCEPT ![r] = IF received[r] = expected'[r] THEN "merge" ELSE "none"]
    /\ pc' = [pc EXCEPT ![r] = IF received[r] # expected'[r] /\ source[r] = r THEN "idle" ELSE @]
    /\ UNCHANGED <<dataVars, unsent, made, saves, starts, source, level, toAsk,
                   newBase, received, currentLevel, mergeStarting, startLock, mergeLock, net>>

\* The updates of the snapshots with numbers in ks.
Contents(snapshots, ks) == UNION {snapshots[k] : k \in ks}

\* The snapshots a merge reads: level 0, the rank's own up to the level it
\* believes to be current, and the others' up to those received.  A file of
\* its own that is not there adds nothing (the code would read an unset
\* pointer: MergeReadsFiles says that it does not come to that).
\* Mutants: the newest snapshot is left out of the merge, the rank's own or
\* those of the others.
OwnReadShort(r) == 1 .. currentLevel[r] - 3
MergeInputShort(r) ==
    base[r]
        \cup Contents(files[r], (1 .. currentLevel[r] - 2) \cap DOMAIN files[r])
        \cup UNION {Contents(receipts[r][q], 1 .. received[r][q] - 1) : q \in Others(r)}
OwnRead(r) == 1 .. currentLevel[r] - 2
MergeInput(r) ==
    base[r]
        \cup Contents(files[r], OwnRead(r) \cap DOMAIN files[r])
        \cup UNION {Contents(receipts[r][q], 1 .. received[r][q]) : q \in Others(r)}

\* merge_snapshots writes new_level0.dat.
MergeSnapshots(r) ==
    /\ stage[r] = "merge"
    /\ received' = [received EXCEPT ![r][r] = currentLevel[r] - 2]
    /\ newBase' = [newBase EXCEPT ![r] = MergeInput(r)]
    /\ stage' = [stage EXCEPT ![r] = "refresh"]
    /\ UNCHANGED <<dataVars, mainVars, source, level, toAsk, expected,
                   currentLevel, mergeStarting, startLock, mergeLock, net>>

\* refresh_ro_graph replaces all snapshots by the new level 0, and the
\* merge's records are reset; current_snapshot_level is not.
Refresh(r) ==
    /\ stage[r] = "refresh"
    /\ base' = [base EXCEPT ![r] = newBase[r]]
    /\ files' = [files EXCEPT ![r] = <<>>]
    /\ merged' = [merged EXCEPT ![r] = Append(@, newBase[r])]
    /\ received' = [received EXCEPT ![r] = NothingReceived]
    /\ expected' = [expected EXCEPT ![r] = NobodyHeard(r)]
    /\ stage' = [stage EXCEPT ![r] = "unlock"]
    /\ UNCHANGED <<delta, receipts, mainVars, source, level, toAsk, newBase,
                   currentLevel, mergeStarting, startLock, mergeLock, net>>

\* Mutant: merge_lock is not released.
UnlockMergeForgotten(r) ==
    /\ stage[r] = "unlock"
    /\ stage' = [stage EXCEPT ![r] = "unmark"]
    /\ UNCHANGED <<dataVars, mainVars, source, level, toAsk, newBase, sharedVars, net>>

UnlockMerge(r) ==
    /\ stage[r] = "unlock"
    /\ mergeLock' = [mergeLock EXCEPT ![r] = FALSE]
    /\ stage' = [stage EXCEPT ![r] = "unmark"]
    /\ UNCHANGED <<dataVars, mainVars, source, level, toAsk, newBase,
                   received, expected, currentLevel, mergeStarting, startLock, net>>

UnmarkStarting(r) ==
    /\ stage[r] = "unmark"
    /\ ~ startLock[r]
    /\ mergeStarting' = [mergeStarting EXCEPT ![r] = FALSE]
    /\ stage' = [stage EXCEPT ![r] = "none"]
    /\ pc' = [pc EXCEPT ![r] = IF source[r] = r THEN "idle" ELSE @]
    /\ UNCHANGED <<dataVars, unsent, made, saves, starts, source, level, toAsk,
                   newBase, received, expected, currentLevel, startLock, mergeLock, net>>

-----------------------------------------------------------------------------
CheckpointStep(r) ==
    RequestCheckpoint(r) \/ AutoCheckpoint(r) \/ SendSnapshot(r) \/ EndCheckpoint(r)

HandlerStep(r) ==
    \/ MarkStarting(r) \/ LockMerge(r) \/ AskOthers(r) \/ CompareLevels(r)
    \/ MergeSnapshots(r) \/ Refresh(r) \/ UnlockMerge(r) \/ UnmarkStarting(r)

ListenerStep(r) == \E q \in Others(r) : HandleSnapshot(r, q) \/ ProbeMergeRequest(r, q)

Work(r) == CheckpointStep(r) \/ HandlerStep(r) \/ ListenerStep(r)

Next == \E r \in Ranks : Update(r) \/ AskCheckpoint(r) \/ StartMerge(r) \/ Work(r)

Spec == Init /\ [][Next]_vars

\* The threads are scheduled; callers need not call.
FairSpec ==
    Spec /\ \A r \in Ranks :
        WF_vars(CheckpointStep(r)) /\ WF_vars(HandlerStep(r)) /\ WF_vars(ListenerStep(r))

-----------------------------------------------------------------------------
(* What the protocol must guarantee.                                       *)

\* What a rank has in its graph and its files.
Kept(r) == delta[r] \cup Contents(files[r], DOMAIN files[r]) \cup base[r]

\* A rank never loses an update it made: a merge replaces the snapshots by a
\* level 0 that has them, and keeps what was not checkpointed
\* (snapshot_merger.cpp:130-131).
NoUpdateLost == \A r \in Ranks : \A k \in 1 .. made[r] : <<r, k>> \in Kept(r)

\* All ranks make the same level 0 of a merge, although each gathers the
\* snapshots and decides to merge on its own (snapshot_merger.cpp:111-121).
MergesAgree ==
    \A p, q \in Ranks : \A k \in DOMAIN merged[p] \cap DOMAIN merged[q] :
        merged[p][k] = merged[q][k]

\* A merge reads only files that exist: the rank's own snapshots up to its
\* current level are there (snapshot_manager.cpp:19-36 reads them unchecked).
MergeReadsFiles ==
    \A r \in Ranks : stage[r] = "merge" => OwnRead(r) \subseteq DOMAIN files[r]

\* No snapshot is written or sent while a merge reads and replaces the
\* files (merge_lock against request_checkpoint, merge_starting against
\* auto_checkpoint: dllama.cpp:172-186).
NoCheckpointInMerge ==
    \A r \in Ranks : pc[r] \in {"send", "autosend"} => stage[r] \notin {"merge", "refresh"}

\* What a rank announced in its request is all it has when the others merge:
\* a merge reads every snapshot of every rank that has not merged yet, as it
\* is now at its owner (snapshot_merger.cpp:111-113, dllama.cpp:180).
MergeSeesAll ==
    \A r \in Ranks : stage[r] = "merge" =>
        \A q \in Others(r) : Len(merged[q]) = Len(merged[r]) =>
            /\ received[r][q] = Len(files[q])
            /\ \A k \in DOMAIN files[q] : receipts[r][q][k] = files[q][k]

Quiet ==
    \A r \in Ranks :
        /\ pc[r] = "idle" /\ stage[r] = "none"
        /\ \A q \in Ranks : net[r][q] = <<>>

\* The locks never leave everybody waiting.
NobodyStuck == ~ Quiet => ENABLED (\E r \in Ranks : Work(r))

\* No merge goes on for ever at a rank: one that has started comes to its
\* end, which lets the main thread write snapshots again
\* (snapshot_merger.cpp:144-148).
MergeEnds == \A r \in Ranks : []<> ~ mergeStarting[r]

\* No checkpoint and no start_merge goes on for ever: a checkpoint that was
\* asked for is made and sent, or given up to a merge.
CheckpointEnds == \A r \in Ranks : []<> (pc[r] = "idle")
=============================================================================
