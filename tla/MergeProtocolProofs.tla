------------------------ MODULE MergeProtocolProofs ------------------------
(***************************************************************************)
(* Proofs about MergeProtocol for any number of ranks, updates,            *)
(* checkpoints and merges.  What the callers have to respect is assumed by *)
(* the theorems that need it: Fresh, and Barrier for agreement.            *)
(***************************************************************************)
EXTENDS MergeProtocol, SequenceTheorems, TLAPS

(***************************************************************************)
(* The locks.  A merge that is under way at a rank holds merge_lock, also  *)
(* while its handler waits for more requests; it does not before LockMerge *)
(* nor after UnlockMerge, although merge_starting is set.                  *)
(***************************************************************************)
MergeHolds(r) == mergeStarting[r] /\ stage[r] \notin {"lock", "unmark"}

LockTypes ==
    /\ pc \in [Ranks -> MainStages]
    /\ stage \in [Ranks -> HandlerStages]
    /\ source \in [Ranks -> Ranks]
    /\ mergeStarting \in [Ranks -> BOOLEAN]
    /\ startLock \in [Ranks -> BOOLEAN]
    /\ mergeLock \in [Ranks -> BOOLEAN]

Locks(r) ==
    /\ mergeLock[r] <=> MergeHolds(r) \/ pc[r] = "send"
    /\ ~ (MergeHolds(r) /\ pc[r] = "send")
    /\ startLock[r] <=> pc[r] = "autosend"
    /\ startLock[r] => ~ mergeStarting[r]
    /\ stage[r] \notin {"none", "mark"} => mergeStarting[r]
    /\ pc[r] = "merge" <=> stage[r] # "none" /\ source[r] = r

LockInv == LockTypes /\ \A r \in Ranks : Locks(r)

LEMMA LockInit == Init => LockInv
  BY DEF Init, LockInv, LockTypes, Locks, MergeHolds, MainStages, HandlerStages

LEMMA LockStep == LockInv /\ [Next]_vars => LockInv'
  <1> SUFFICES ASSUME LockInv, [Next]_vars PROVE LockInv'
    OBVIOUS
  <1> USE DEF LockInv, LockTypes, Locks, MergeHolds, MainStages, HandlerStages
  <1>1. CASE UNCHANGED vars
    BY <1>1 DEF vars, mainVars, handlerVars, sharedVars
  <1>2. ASSUME NEW r \in Ranks, Update(r) \/ AskCheckpoint(r) \/ StartMerge(r)
        PROVE  LockInv'
    <2>1. CASE Update(r)
      BY <2>1 DEF Update, handlerVars, sharedVars
    <2>2. CASE AskCheckpoint(r)
      BY <2>2 DEF AskCheckpoint, handlerVars, sharedVars
    <2>3. CASE StartMerge(r)
      BY <2>3 DEF StartMerge, sharedVars
    <2> QED
      BY <1>2, <2>1, <2>2, <2>3
  <1>3. ASSUME NEW r \in Ranks, CheckpointStep(r)
        PROVE  LockInv'
    <2>1. CASE RequestCheckpoint(r)
      BY <2>1 DEF RequestCheckpoint, handlerVars
    <2>2. CASE AutoCheckpoint(r)
      <3>1. UNCHANGED <<stage, source, mergeStarting, mergeLock>>
        BY <2>2 DEF AutoCheckpoint, handlerVars
      <3>2. CASE /\ pc[r] = "auto"
                 /\ ~ mergeStarting[r]
                 /\ startLock' = [startLock EXCEPT ![r] = TRUE]
                 /\ pc' = [pc EXCEPT ![r] = "autosend"]
        BY <3>1, <3>2
      <3>3. CASE /\ pc[r] = "auto"
                 /\ pc' = [pc EXCEPT ![r] = "idle"]
                 /\ UNCHANGED startLock
        BY <3>1, <3>3
      <3> QED
        BY <2>2, <3>2, <3>3 DEF AutoCheckpoint
    <2>3. CASE SendSnapshot(r)
      BY <2>3 DEF SendSnapshot, handlerVars, sharedVars
    <2>4. CASE EndCheckpoint(r)
      <3>1. /\ UNCHANGED <<stage, source, mergeStarting>>
            /\ pc' = [pc EXCEPT ![r] = "idle"]
        BY <2>4 DEF EndCheckpoint, handlerVars
      <3>2. CASE /\ pc[r] = "send"
                 /\ mergeLock' = [mergeLock EXCEPT ![r] = FALSE]
                 /\ UNCHANGED startLock
        BY <3>1, <3>2
      <3>3. CASE /\ pc[r] = "autosend"
                 /\ startLock' = [startLock EXCEPT ![r] = FALSE]
                 /\ UNCHANGED mergeLock
        BY <3>1, <3>3
      <3> QED
        BY <2>4, <3>2, <3>3 DEF EndCheckpoint
    <2> QED
      BY <1>3, <2>1, <2>2, <2>3, <2>4 DEF CheckpointStep
  <1>4. ASSUME NEW r \in Ranks, ListenerStep(r)
        PROVE  LockInv'
    <2>1. PICK q \in Others(r) : HandleSnapshot(r, q) \/ ProbeMergeRequest(r, q)
      BY <1>4 DEF ListenerStep
    <2>2. q \in Ranks /\ q # r
      BY DEF Others
    <2>3. CASE HandleSnapshot(r, q)
      BY <2>3 DEF HandleSnapshot, mainVars, handlerVars
    <2>4. CASE ProbeMergeRequest(r, q)
      BY <2>2, <2>4 DEF ProbeMergeRequest, mainVars, sharedVars
    <2> QED
      BY <2>1, <2>3, <2>4
  <1>5. ASSUME NEW r \in Ranks, HandlerStep(r)
        PROVE  LockInv'
    <2>1. CASE MarkStarting(r)
      BY <2>1 DEF MarkStarting, mainVars
    <2>2. CASE LockMerge(r)
      BY <2>2 DEF LockMerge, mainVars
    <2>3. CASE AskOthers(r)
      BY <2>3 DEF AskOthers, mainVars, sharedVars
    <2>4. CASE CompareLevels(r)
      BY <2>4 DEF CompareLevels
    <2>5. CASE MergeSnapshots(r)
      BY <2>5 DEF MergeSnapshots, mainVars
    <2>6. CASE Refresh(r)
      BY <2>6 DEF Refresh, mainVars
    <2>7. CASE UnlockMerge(r)
      BY <2>7 DEF UnlockMerge, mainVars
    <2>8. CASE UnmarkStarting(r)
      BY <2>8 DEF UnmarkStarting
    <2> QED
      BY <1>5, <2>1, <2>2, <2>3, <2>4, <2>5, <2>6, <2>7, <2>8 DEF HandlerStep
  <1> QED
    BY <1>1, <1>2, <1>3, <1>4, <1>5 DEF Next, Work

THEOREM LocksHold == Spec => []LockInv
  BY LockInit, LockStep, PTL DEF Spec

(***************************************************************************)
(* No rank writes or sends a snapshot while it merges and replaces the     *)
(* files: request_checkpoint is kept out by merge_lock, auto_checkpoint by *)
(* merge_starting (dllama.cpp:172-186).                                    *)
(***************************************************************************)
THEOREM CheckpointsExcluded == Spec => []NoCheckpointInMerge
  <1>1. LockInv => NoCheckpointInMerge
    BY DEF LockInv, LockTypes, Locks, MergeHolds, NoCheckpointInMerge
  <1> QED
    BY <1>1, LocksHold, PTL

(***************************************************************************)
(* No update is lost.  What makes it inductive: the level a rank believes  *)
(* to be current is never below the number of its files, so that a merge   *)
(* reads them all; and while the new level 0 waits to replace the files it *)
(* has all they have, since the locks keep a checkpoint from adding one.   *)
(***************************************************************************)
Saved(r) == base[r] \cup Contents(files[r], DOMAIN files[r])

DataTypes ==
    /\ delta \in [Ranks -> SUBSET Updates]
    /\ files \in [Ranks -> Seq(SUBSET Updates)]
    /\ DOMAIN base = Ranks
    /\ DOMAIN newBase = Ranks
    /\ made \in [Ranks -> Nat]
    /\ currentLevel \in [Ranks -> Nat]

Keeps(r) ==
    /\ \A k \in 1 .. made[r] : <<r, k>> \in delta[r] \cup Saved(r)
    /\ Len(files[r]) + 2 <= currentLevel[r]
    /\ stage[r] = "refresh" => Saved(r) \subseteq newBase[r]

KeepInv == DataTypes /\ \A r \in Ranks : Keeps(r)

\* Appending a file adds what it has.
LEMMA AppendSaves ==
  ASSUME NEW s \in Seq(SUBSET Updates), NEW d \in SUBSET Updates
  PROVE  Contents(Append(s, d), DOMAIN Append(s, d)) = Contents(s, DOMAIN s) \cup d
  <1>1. /\ Append(s, d) \in Seq(SUBSET Updates)
        /\ Len(Append(s, d)) = Len(s) + 1
        /\ \A k \in 1 .. Len(s) : Append(s, d)[k] = s[k]
        /\ Append(s, d)[Len(s) + 1] = d
    BY AppendProperties
  <1>2. /\ DOMAIN s = 1 .. Len(s) /\ Len(s) \in Nat
        /\ DOMAIN Append(s, d) = 1 .. Len(s) + 1
    BY <1>1, LenProperties
  <1>3. Contents(Append(s, d), DOMAIN Append(s, d)) \subseteq Contents(s, DOMAIN s) \cup d
    BY <1>1, <1>2 DEF Contents
  <1>4. d \subseteq Contents(Append(s, d), DOMAIN Append(s, d))
    BY <1>1, <1>2 DEF Contents
  <1>5. Contents(s, DOMAIN s) \subseteq Contents(Append(s, d), DOMAIN Append(s, d))
    BY <1>1, <1>2 DEF Contents
  <1> QED
    BY <1>3, <1>4, <1>5

\* A checkpoint moves the deltas of its rank to a file and leaves the other
\* ranks alone.
LEMMA SaveKeeps ==
  ASSUME DataTypes, NEW r \in Ranks, Save(r), UNCHANGED base
  PROVE  /\ delta' \in [Ranks -> SUBSET Updates]
         /\ files' \in [Ranks -> Seq(SUBSET Updates)]
         /\ currentLevel' \in [Ranks -> Nat]
         /\ \A p \in Ranks : delta'[p] \cup Saved(p)' = delta[p] \cup Saved(p)
         /\ \A p \in Ranks \ {r} : Saved(p)' = Saved(p)
         /\ \A p \in Ranks \ {r} : Len(files'[p]) = Len(files[p])
         /\ \A p \in Ranks \ {r} : currentLevel'[p] = currentLevel[p]
         /\ Len(files'[r]) + 2 = currentLevel'[r]
  <1>1. /\ delta' = [delta EXCEPT ![r] = {}]
        /\ files' = [files EXCEPT ![r] = IF delta[r] = {} THEN @ ELSE Append(@, delta[r])]
        /\ currentLevel' = [currentLevel EXCEPT ![r] = Len(files'[r]) + 2]
    BY DEF Save, NumLevels
  <1>2. files[r] \in Seq(SUBSET Updates) /\ delta[r] \in SUBSET Updates
    BY DEF DataTypes
  <1>3. Append(files[r], delta[r]) \in Seq(SUBSET Updates)
    BY <1>2, AppendProperties
  <1>4. files' \in [Ranks -> Seq(SUBSET Updates)] /\ delta' \in [Ranks -> SUBSET Updates]
    BY <1>1, <1>3 DEF DataTypes
  <1>5. Len(files'[r]) \in Nat
    BY <1>4, LenProperties
  <1>6. currentLevel' \in [Ranks -> Nat] /\ Len(files'[r]) + 2 = currentLevel'[r]
    BY <1>1, <1>5 DEF DataTypes
  <1>7. Contents(files'[r], DOMAIN files'[r])
          = Contents(files[r], DOMAIN files[r]) \cup delta[r]
    <2>1. CASE delta[r] = {}
      <3>1. files'[r] = files[r]
        BY <1>1, <2>1 DEF DataTypes
      <3> QED
        BY <2>1, <3>1
    <2>2. CASE delta[r] # {}
      <3>1. files'[r] = Append(files[r], delta[r])
        BY <1>1, <2>2 DEF DataTypes
      <3> QED
        BY <1>2, <3>1, AppendSaves
    <2> QED
      BY <2>1, <2>2
  <1>8. delta'[r] = {}
    BY <1>1 DEF DataTypes
  <1>9. delta'[r] \cup Saved(r)' = delta[r] \cup Saved(r)
    BY <1>7, <1>8 DEF Saved
  <1>10. ASSUME NEW p \in Ranks \ {r}
         PROVE  /\ files'[p] = files[p]
                /\ delta'[p] = delta[p]
                /\ currentLevel'[p] = currentLevel[p]
                /\ Saved(p)' = Saved(p)
    <2>1. files'[p] = files[p] /\ delta'[p] = delta[p] /\ currentLevel'[p] = currentLevel[p]
      BY <1>1 DEF DataTypes
    <2> QED
      BY <2>1 DEF Saved
  <1> QED
    BY <1>4, <1>6, <1>9, <1>10

LEMMA KeepInit == Init => KeepInv
  <1> SUFFICES ASSUME Init PROVE KeepInv
    OBVIOUS
  <1>1. DataTypes
    BY EmptySeq DEF Init, DataTypes, NumLevels
  <1>2. \A r \in Ranks : Keeps(r)
    BY EmptySeq DEF Init, Keeps, NumLevels, Saved
  <1> QED
    BY <1>1, <1>2 DEF KeepInv

LEMMA KeepStep == LockInv /\ KeepInv /\ [Next]_vars => KeepInv'
  <1> SUFFICES ASSUME LockInv, KeepInv, [Next]_vars PROVE KeepInv'
    OBVIOUS
  \* Steps that touch no database and do not bring a merge to its refresh.
  <1>1. ASSUME UNCHANGED <<delta, files, base, made, currentLevel, newBase>>,
               \A p \in Ranks : stage'[p] = "refresh" => stage[p] = "refresh"
        PROVE  KeepInv'
    BY <1>1 DEF KeepInv, DataTypes, Keeps, Saved
  <1>2. CASE UNCHANGED vars
    BY <1>1, <1>2 DEF vars, dataVars, mainVars, handlerVars, sharedVars
  <1>3. ASSUME NEW r \in Ranks, Update(r)
        PROVE  KeepInv'
    <2>1. /\ made[r] \in Nat /\ made[r] < MaxUpdates
          /\ made' = [made EXCEPT ![r] = @ + 1]
          /\ delta' = [delta EXCEPT ![r] = @ \cup {<<r, made[r] + 1>>}]
          /\ UNCHANGED <<files, base, newBase, stage, currentLevel>>
      BY <1>3 DEF Update, KeepInv, DataTypes, handlerVars, sharedVars
    <2>2. <<r, made[r] + 1>> \in Updates
      BY <2>1, ConstantsAssumption DEF Updates
    <2>3. DataTypes'
      <3>1. delta[r] \cup {<<r, made[r] + 1>>} \in SUBSET Updates
        BY <2>2 DEF KeepInv, DataTypes
      <3>2. delta' \in [Ranks -> SUBSET Updates]
        BY <2>1, <3>1 DEF KeepInv, DataTypes
      <3> QED
        BY <2>1, <3>2 DEF KeepInv, DataTypes
    <2>4. \A p \in Ranks : Saved(p)' = Saved(p)
      BY <2>1 DEF Saved
    <2>5. ASSUME NEW p \in Ranks, NEW k \in 1 .. made'[p]
          PROVE  <<p, k>> \in delta'[p] \cup Saved(p)'
      <3>1. CASE p = r /\ k = made[r] + 1
        BY <2>1, <3>1 DEF KeepInv, DataTypes
      <3>2. CASE ~ (p = r /\ k = made[r] + 1)
        <4>1. k \in 1 .. made[p]
          BY <2>1, <3>2 DEF KeepInv, DataTypes
        <4>2. delta[p] \subseteq delta'[p]
          BY <2>1 DEF KeepInv, DataTypes
        <4> QED
          BY <2>4, <4>1, <4>2 DEF KeepInv, Keeps
      <3> QED
        BY <3>1, <3>2
    <2> QED
      BY <2>1, <2>3, <2>4, <2>5 DEF KeepInv, Keeps
  <1>4. ASSUME NEW r \in Ranks, Save(r), UNCHANGED <<base, made, newBase, stage>>,
               stage[r] # "refresh"
        PROVE  KeepInv'
    <2>1. DataTypes
      BY DEF KeepInv
    <2>2. /\ delta' \in [Ranks -> SUBSET Updates]
          /\ files' \in [Ranks -> Seq(SUBSET Updates)]
          /\ currentLevel' \in [Ranks -> Nat]
          /\ \A p \in Ranks : delta'[p] \cup Saved(p)' = delta[p] \cup Saved(p)
          /\ \A p \in Ranks \ {r} : /\ Saved(p)' = Saved(p)
                                    /\ Len(files'[p]) = Len(files[p])
                                    /\ currentLevel'[p] = currentLevel[p]
          /\ Len(files'[r]) + 2 = currentLevel'[r]
      BY <1>4, <2>1, SaveKeeps
    <2>3. DataTypes'
      BY <1>4, <2>1, <2>2 DEF DataTypes
    <2>4. ASSUME NEW p \in Ranks
          PROVE  Keeps(p)'
      <3>1. \A k \in 1 .. made'[p] : <<p, k>> \in delta'[p] \cup Saved(p)'
        BY <1>4, <2>2 DEF KeepInv, Keeps
      <3>2. CASE p = r
        <4>1. Len(files'[p]) + 2 <= currentLevel'[p]
          BY <2>2, <3>2, LenProperties
        <4> QED
          BY <1>4, <3>1, <3>2, <4>1 DEF Keeps
      <3>3. CASE p # r
        BY <1>4, <2>2, <3>1, <3>3 DEF KeepInv, Keeps
      <3> QED
        BY <3>2, <3>3
    <2> QED
      BY <2>3, <2>4 DEF KeepInv
  <1>5. ASSUME NEW r \in Ranks, CheckpointStep(r)
        PROVE  KeepInv'
    <2>1. CASE RequestCheckpoint(r)
      <3>1. stage[r] # "refresh"
        BY <2>1 DEF RequestCheckpoint, LockInv, LockTypes, Locks, MergeHolds
      <3> QED
        BY <1>4, <2>1, <3>1 DEF RequestCheckpoint, handlerVars
    <2>2. CASE AutoCheckpoint(r)
      <3>1. UNCHANGED <<base, made, newBase, stage>>
        BY <2>2 DEF AutoCheckpoint, handlerVars
      <3>2. CASE ~ mergeStarting[r] /\ Save(r)
        <4>1. stage[r] # "refresh"
          BY <3>2 DEF LockInv, Locks
        <4> QED
          BY <1>4, <3>1, <3>2, <4>1
      <3>3. CASE UNCHANGED <<files, delta, currentLevel>>
        BY <1>1, <3>1, <3>3
      <3> QED
        BY <2>2, <3>2, <3>3 DEF AutoCheckpoint
    <2>3. CASE SendSnapshot(r)
      BY <1>1, <2>3 DEF SendSnapshot, dataVars, handlerVars, sharedVars
    <2>4. CASE EndCheckpoint(r)
      BY <1>1, <2>4 DEF EndCheckpoint, dataVars, handlerVars
    <2> QED
      BY <1>5, <2>1, <2>2, <2>3, <2>4 DEF CheckpointStep
  <1>6. ASSUME NEW r \in Ranks, AskCheckpoint(r) \/ StartMerge(r)
        PROVE  KeepInv'
    <2>1. CASE AskCheckpoint(r)
      BY <1>1, <2>1 DEF AskCheckpoint, dataVars, handlerVars, sharedVars
    <2>2. CASE StartMerge(r)
      BY <1>1, <2>2 DEF StartMerge, dataVars, sharedVars, LockInv, LockTypes
    <2> QED
      BY <1>6, <2>1, <2>2
  <1>7. ASSUME NEW r \in Ranks, ListenerStep(r)
        PROVE  KeepInv'
    <2>1. PICK q \in Others(r) : HandleSnapshot(r, q) \/ ProbeMergeRequest(r, q)
      BY <1>7 DEF ListenerStep
    <2>2. CASE HandleSnapshot(r, q)
      BY <1>1, <2>2 DEF HandleSnapshot, mainVars, handlerVars
    <2>3. CASE ProbeMergeRequest(r, q)
      BY <1>1, <2>3 DEF ProbeMergeRequest, dataVars, mainVars, sharedVars, LockInv, LockTypes
    <2> QED
      BY <2>1, <2>2, <2>3
  <1>8. ASSUME NEW r \in Ranks, HandlerStep(r)
        PROVE  KeepInv'
    <2>1. CASE MarkStarting(r)
      BY <1>1, <2>1 DEF MarkStarting, dataVars, mainVars, LockInv, LockTypes
    <2>2. CASE LockMerge(r)
      BY <1>1, <2>2 DEF LockMerge, dataVars, mainVars, LockInv, LockTypes
    <2>3. CASE AskOthers(r)
      BY <1>1, <2>3 DEF AskOthers, dataVars, mainVars, sharedVars, LockInv, LockTypes
    <2>4. CASE CompareLevels(r)
      BY <1>1, <2>4 DEF CompareLevels, dataVars, LockInv, LockTypes
    <2>5. CASE MergeSnapshots(r)
      <3>1. /\ newBase' = [newBase EXCEPT ![r] = MergeInput(r)]
            /\ stage' = [stage EXCEPT ![r] = "refresh"]
            /\ UNCHANGED <<delta, files, base, made, currentLevel>>
        BY <2>5 DEF MergeSnapshots, dataVars, mainVars
      <3>2. DOMAIN files[r] \subseteq OwnRead(r)
        <4>1. /\ files[r] \in Seq(SUBSET Updates) /\ currentLevel[r] \in Nat
              /\ Len(files[r]) + 2 <= currentLevel[r]
          BY DEF KeepInv, DataTypes, Keeps
        <4>2. DOMAIN files[r] = 1 .. Len(files[r]) /\ Len(files[r]) \in Nat
          BY <4>1, LenProperties
        <4> QED
          BY <4>1, <4>2 DEF OwnRead
      <3>3. Saved(r) \subseteq MergeInput(r)
        BY <3>2 DEF Saved, MergeInput, Contents
      <3>4. \A p \in Ranks : Saved(p)' = Saved(p)
        BY <3>1 DEF Saved
      <3>5. DataTypes'
        BY <3>1 DEF KeepInv, DataTypes
      <3>6. ASSUME NEW p \in Ranks, stage'[p] = "refresh"
            PROVE  Saved(p)' \subseteq newBase'[p]
        BY <3>1, <3>3, <3>4, <3>6 DEF KeepInv, DataTypes, Keeps, LockInv, LockTypes
      <3> QED
        BY <3>1, <3>4, <3>5, <3>6 DEF KeepInv, Keeps
    <2>6. CASE Refresh(r)
      <3>1. /\ stage[r] = "refresh"
            /\ base' = [base EXCEPT ![r] = newBase[r]]
            /\ files' = [files EXCEPT ![r] = <<>>]
            /\ stage' = [stage EXCEPT ![r] = "unlock"]
            /\ UNCHANGED <<delta, made, currentLevel, newBase>>
        BY <2>6 DEF Refresh, mainVars
      <3>2. DataTypes'
        BY <3>1, EmptySeq DEF KeepInv, DataTypes
      <3>3. ASSUME NEW p \in Ranks \ {r}
            PROVE  /\ Saved(p)' = Saved(p)
                   /\ Len(files'[p]) = Len(files[p])
                   /\ stage'[p] = stage[p]
        <4>1. files'[p] = files[p] /\ base'[p] = base[p] /\ stage'[p] = stage[p]
          BY <3>1 DEF KeepInv, DataTypes, LockInv, LockTypes
        <4> QED
          BY <4>1 DEF Saved
      <3>4. Saved(r) \subseteq Saved(r)'
        <4>1. Saved(r) \subseteq base'[r]
          BY <3>1 DEF KeepInv, DataTypes, Keeps
        <4> QED
          BY <4>1 DEF Saved
      <3>5. Len(files'[r]) + 2 <= currentLevel'[r]
        <4>1. files'[r] = <<>> /\ currentLevel'[r] = currentLevel[r]
          BY <3>1 DEF KeepInv, DataTypes
        <4>2. Len(files[r]) \in Nat
          BY LenProperties DEF KeepInv, DataTypes
        <4> QED
          BY <4>1, <4>2, EmptySeq DEF KeepInv, DataTypes, Keeps
      <3>6. stage'[r] = "unlock"
        BY <3>1 DEF LockInv, LockTypes
      <3> QED
        BY <3>1, <3>2, <3>3, <3>4, <3>5, <3>6 DEF KeepInv, Keeps
    <2>7. CASE UnlockMerge(r)
      BY <1>1, <2>7 DEF UnlockMerge, dataVars, mainVars, LockInv, LockTypes
    <2>8. CASE UnmarkStarting(r)
      BY <1>1, <2>8 DEF UnmarkStarting, dataVars, LockInv, LockTypes
    <2> QED
      BY <1>8, <2>1, <2>2, <2>3, <2>4, <2>5, <2>6, <2>7, <2>8 DEF HandlerStep
  <1> QED
    BY <1>2, <1>3, <1>5, <1>6, <1>7, <1>8 DEF Next, Work

(***************************************************************************)
(* A rank never loses an update it made, whatever the others send it,      *)
(* however the merges are started, and even when the level it announces is *)
(* stale (snapshot_merger.cpp:124-131).                                    *)
(***************************************************************************)
THEOREM UpdatesKept == Spec => []NoUpdateLost
  <1>1. LockInv /\ KeepInv /\ [Next]_vars => (LockInv /\ KeepInv)'
    BY LockStep, KeepStep
  <1>2. KeepInv => NoUpdateLost
    BY DEF KeepInv, Keeps, Saved, NoUpdateLost, Kept
  <1> QED
    BY <1>1, <1>2, LockInit, KeepInit, PTL DEF Spec
(***************************************************************************)
(* Types.  That levels stay within their bounds rests on the checkpoints   *)
(* counted so far, and on a handler that receives what was probed: the     *)
(* level of a request, never the number of a snapshot.                     *)
(***************************************************************************)
IsRequest(m) == m.tag = "START_MERGE_REQUEST"

Sendable ==
    {m \in Messages : IF IsRequest(m) THEN m.n \in 2 .. MaxSaves + 2 ELSE m.n \in 0 .. MaxSaves}

Sized(r) ==
    /\ Len(files[r]) <= saves[r] /\ saves[r] <= MaxSaves
    /\ pc[r] \in {"request", "auto"} => Len(files[r]) < saves[r]
    /\ currentLevel[r] \in 2 .. MaxSaves + 2
    /\ stage[r] \in {"lock", "ask", "compare"} => level[r] \in 2 .. MaxSaves + 2
    /\ stage[r] = "mark" /\ source[r] # r =>
          net[source[r]][r] # <<>> /\ IsRequest(Head(net[source[r]][r]))

TypeInv ==
    /\ TypeOK
    /\ net \in [Ranks -> [Ranks -> Seq(Sendable)]]
    /\ \A r \in Ranks : Sized(r)

\* The channels: a message is appended to one, or taken from one.
LEMMA Extended ==
  ASSUME NEW S, NEW s \in Seq(S), NEW m \in S
  PROVE  /\ Append(s, m) \in Seq(S) /\ Append(s, m) # <<>>
         /\ Len(Append(s, m)) = Len(s) + 1 /\ Len(s) \in Nat
         /\ \A i \in 1 .. Len(s) : Append(s, m)[i] = s[i]
         /\ Append(s, m)[Len(s) + 1] = m
         /\ s # <<>> => Head(Append(s, m)) = Head(s)
  <1>1. /\ Append(s, m) \in Seq(S) /\ Append(s, m) # <<>>
        /\ Len(Append(s, m)) = Len(s) + 1 /\ Len(s) \in Nat
        /\ \A i \in 1 .. Len(s) : Append(s, m)[i] = s[i]
        /\ Append(s, m)[Len(s) + 1] = m
    OBVIOUS
  <1>2. ASSUME s # <<>> PROVE Head(Append(s, m)) = Head(s)
    <2>1. Head(s) = s[1] /\ 1 \in 1 .. Len(s)
      BY <1>2
    <2>2. Head(Append(s, m)) = Append(s, m)[1]
      BY <1>1
    <2> QED
      BY <1>1, <2>1, <2>2
  <1> QED
    BY <1>1, <1>2

LEMMA Shortened ==
  ASSUME NEW S, NEW s \in Seq(S), s # <<>>
  PROVE  /\ Tail(s) \in Seq(S) /\ Head(s) \in S /\ Head(s) = s[1]
         /\ Len(s) \in Nat \ {0} /\ Len(Tail(s)) = Len(s) - 1
         /\ \A i \in 1 .. Len(s) - 1 : Tail(s)[i] = s[i + 1]
  OBVIOUS

LEMMA SendableMessages == Seq(Sendable) \subseteq Seq(Messages)
  BY DEF Sendable

\* One channel changes, the others are as they were.
LEMMA NetAt ==
  ASSUME NEW S, NEW f \in [Ranks -> [Ranks -> S]], NEW p \in Ranks, NEW q \in Ranks,
         NEW s \in S, NEW g, g = [f EXCEPT ![p][q] = s]
  PROVE  /\ g \in [Ranks -> [Ranks -> S]] /\ g[p][q] = s
         /\ \A x, y \in Ranks : x # p \/ y # q => g[x][y] = f[x][y]
  OBVIOUS

LEMMA SnapshotSendable ==
  ASSUME TypeInv, NEW r \in Ranks
  PROVE  LET k == NumLevels(r) - 2
         IN  /\ k = Len(files[r]) /\ k \in 0 .. MaxSaves
             /\ Snapshot(k, IF k = 0 THEN base[r] ELSE files[r][k]) \in Sendable
  <1>1. /\ Len(files[r]) \in Nat /\ Len(files[r]) <= saves[r] /\ saves[r] <= MaxSaves
        /\ saves[r] \in Nat /\ MaxSaves \in Nat /\ files[r] \in Seq(SUBSET Updates)
        /\ base[r] \in SUBSET Updates
    <2>1. saves[r] \in Nat /\ files[r] \in Seq(SUBSET Updates) /\ base[r] \in SUBSET Updates
      BY DEF TypeInv, TypeOK
    <2>2. Len(files[r]) <= saves[r] /\ saves[r] <= MaxSaves
      BY DEF TypeInv, Sized
    <2> QED
      BY <2>1, <2>2, ConstantsAssumption
  <1> DEFINE k == Len(files[r])
             c == IF k = 0 THEN base[r] ELSE files[r][k]
  <1>2. k \in 0 .. MaxSaves /\ k + 2 - 2 = k
    BY <1>1
  <1>3. c \in SUBSET Updates
    BY <1>1, <1>2
  <1> HIDE DEF k, c
  <1>4. Snapshot(k, c) \in Sendable
    BY <1>2, <1>3 DEF Snapshot, Sendable, Messages, IsRequest
  <1> QED
    BY <1>2, <1>4 DEF NumLevels, k, c

LEMMA RequestSendable ==
  ASSUME NEW n \in 2 .. MaxSaves + 2
  PROVE  MergeRequest(n) \in Sendable
  BY ConstantsAssumption DEF MergeRequest, Sendable, Messages, IsRequest

LEMMA MergeInputType ==
  ASSUME TypeOK, NEW r \in Ranks
  PROVE  MergeInput(r) \in SUBSET Updates
  <1>1. base[r] \in SUBSET Updates /\ files[r] \in Seq(SUBSET Updates)
    BY DEF TypeOK
  <1>2. Contents(files[r], OwnRead(r) \cap DOMAIN files[r]) \in SUBSET Updates
    BY <1>1 DEF Contents
  <1>3. ASSUME NEW q \in Others(r)
        PROVE  Contents(receipts[r][q], 1 .. received[r][q]) \in SUBSET Updates
    <2>1. q \in Ranks
      BY DEF Others
    <2>2. receipts[r][q] \in [0 .. MaxSaves -> SUBSET Updates] /\ received[r][q] \in 0 .. MaxSaves
      BY <2>1 DEF TypeOK
    <2> QED
      BY <2>2, ConstantsAssumption DEF Contents
  <1> QED
    BY <1>1, <1>2, <1>3 DEF MergeInput

LEMMA TypeInit == Init => TypeInv
  <1> SUFFICES ASSUME Init PROVE TypeInv
    OBVIOUS
  <1>1. \A r \in Ranks : files[r] = <<>> /\ NumLevels(r) = 2
    BY EmptySeq DEF Init, NumLevels
  <1>2. /\ MaxSaves \in Nat /\ currentLevel \in [Ranks -> Nat]
        /\ \A r \in Ranks : currentLevel[r] = 2
    BY <1>1, ConstantsAssumption DEF Init
  <1>3. TypeOK
    BY <1>2, EmptySeq DEF Init, TypeOK, MainStages, HandlerStages, NothingReceived, NobodyHeard
  <1>4. net \in [Ranks -> [Ranks -> Seq(Sendable)]]
    BY EmptySeq DEF Init
  <1>5. \A r \in Ranks : Sized(r)
    BY <1>1, <1>2, EmptySeq DEF Init, Sized
  <1> QED
    BY <1>3, <1>4, <1>5 DEF TypeInv

\* What a step leaves a rank.
LEMMA SizedFrame ==
  ASSUME NEW p \in Ranks, Sized(p), files'[p] = files[p], saves'[p] = saves[p],
         currentLevel'[p] = currentLevel[p], level'[p] = level[p], source'[p] = source[p],
         stage'[p] = stage[p], pc'[p] \in {"request", "auto"} => pc'[p] = pc[p],
         \A q \in Ranks : stage[p] = "mark" /\ net[q][p] # <<>> =>
                              net'[q][p] # <<>> /\ Head(net'[q][p]) = Head(net[q][p]),
         source[p] \in Ranks
  PROVE  Sized(p)'
  BY DEF Sized

LEMMA UpdateTypes ==
  ASSUME TypeInv, NEW r \in Ranks, Update(r)
  PROVE  TypeInv'
  <1>1. /\ made[r] \in Nat /\ made[r] < MaxUpdates
        /\ made' = [made EXCEPT ![r] = @ + 1]
        /\ delta' = [delta EXCEPT ![r] = @ \cup {<<r, made[r] + 1>>}]
        /\ UNCHANGED <<files, base, receipts, merged, pc, unsent, saves, starts,
                   handlerVars, sharedVars, net>>
    BY DEF Update, TypeInv, TypeOK
  <1>2. <<r, made[r] + 1>> \in Updates
    BY <1>1, ConstantsAssumption DEF Updates
  <1>3. delta' \in [Ranks -> SUBSET Updates] /\ made' \in [Ranks -> Nat]
    <2>1. delta[r] \cup {<<r, made[r] + 1>>} \in SUBSET Updates
      BY <1>2 DEF TypeInv, TypeOK
    <2>2. delta' \in [Ranks -> SUBSET Updates]
      BY <1>1, <2>1 DEF TypeInv, TypeOK
    <2>3. made' \in [Ranks -> Nat]
      BY <1>1 DEF TypeInv, TypeOK
    <2> QED
      BY <2>2, <2>3
  <1>4. TypeOK'
    BY <1>1, <1>3 DEF TypeInv, TypeOK, handlerVars, sharedVars
  <1>5. \A p \in Ranks : Sized(p)'
    BY <1>1 DEF TypeInv, Sized, handlerVars, sharedVars
  <1> QED
    BY <1>1, <1>4, <1>5 DEF TypeInv

LEMMA AskCheckpointTypes ==
  ASSUME TypeInv, NEW r \in Ranks, AskCheckpoint(r)
  PROVE  TypeInv'
  <1>1. /\ saves[r] < MaxSaves /\ saves' = [saves EXCEPT ![r] = @ + 1]
        /\ pc' = [pc EXCEPT ![r] = "request"] \/ pc' = [pc EXCEPT ![r] = "auto"]
        /\ UNCHANGED <<dataVars, unsent, made, starts, handlerVars, sharedVars, net>>
    BY DEF AskCheckpoint
  <1>2. /\ saves' \in [Ranks -> Nat] /\ saves'[r] = saves[r] + 1 /\ saves[r] \in Nat
        /\ pc' \in [Ranks -> MainStages]
        /\ \A p \in Ranks : p # r => saves'[p] = saves[p] /\ pc'[p] = pc[p]
    <2>1. /\ saves' \in [Ranks -> Nat] /\ saves'[r] = saves[r] + 1 /\ saves[r] \in Nat
          /\ \A p \in Ranks : p # r => saves'[p] = saves[p]
      BY <1>1 DEF TypeInv, TypeOK
    <2>2. pc' \in [Ranks -> MainStages] /\ \A p \in Ranks : p # r => pc'[p] = pc[p]
      BY <1>1 DEF TypeInv, TypeOK, MainStages
    <2> QED
      BY <2>1, <2>2
  <1>3. TypeOK'
    BY <1>1, <1>2 DEF TypeInv, TypeOK, dataVars, handlerVars, sharedVars
  <1>4. Len(files[r]) \in Nat /\ MaxSaves \in Nat
    BY ConstantsAssumption DEF TypeInv, TypeOK
  <1>5. Sized(r)'
    BY <1>1, <1>2, <1>4 DEF TypeInv, Sized, dataVars, handlerVars, sharedVars
  <1>6. \A p \in Ranks : p # r => Sized(p)'
    BY <1>1, <1>2, SizedFrame DEF TypeInv, TypeOK, dataVars, handlerVars, sharedVars
  <1> QED
    BY <1>1, <1>3, <1>5, <1>6 DEF TypeInv

LEMMA SaveTypes ==
  ASSUME TypeInv, NEW r \in Ranks, Save(r), pc[r] \in {"request", "auto"},
         pc' \in [Ranks -> MainStages], pc'[r] \notin {"request", "auto"},
         \A p \in Ranks : p # r => pc'[p] = pc[p],
         mergeLock' \in [Ranks -> BOOLEAN], startLock' \in [Ranks -> BOOLEAN],
         UNCHANGED <<base, receipts, merged, made, saves, starts, handlerVars,
                     received, expected, mergeStarting, net>>
  PROVE  TypeInv'
  <1>1. /\ delta' = [delta EXCEPT ![r] = {}]
        /\ files' = [files EXCEPT ![r] = IF delta[r] = {} THEN @ ELSE Append(@, delta[r])]
        /\ currentLevel' = [currentLevel EXCEPT ![r] = Len(files'[r]) + 2]
        /\ unsent' = [unsent EXCEPT ![r] = Others(r)]
    BY DEF Save, NumLevels
  <1>2. files[r] \in Seq(SUBSET Updates) /\ delta[r] \in SUBSET Updates
    BY DEF TypeInv, TypeOK
  <1>3. /\ Append(files[r], delta[r]) \in Seq(SUBSET Updates)
        /\ Len(Append(files[r], delta[r])) = Len(files[r]) + 1 /\ Len(files[r]) \in Nat
    BY <1>2, Extended
  <1>4. files' \in [Ranks -> Seq(SUBSET Updates)] /\ delta' \in [Ranks -> SUBSET Updates]
    BY <1>1, <1>2, <1>3 DEF TypeInv, TypeOK
  <1>5. files'[r] = IF delta[r] = {} THEN files[r] ELSE Append(files[r], delta[r])
    BY <1>1 DEF TypeInv, TypeOK
  <1>6. Len(files'[r]) \in Nat /\ Len(files'[r]) <= saves[r] /\ saves[r] <= MaxSaves
        /\ saves[r] \in Nat
    BY <1>3, <1>5 DEF TypeInv, TypeOK, Sized
  <1>7. currentLevel' \in [Ranks -> Nat] /\ unsent' \in [Ranks -> SUBSET Ranks]
        /\ currentLevel'[r] = Len(files'[r]) + 2
    BY SMTT(30), <1>1, <1>6 DEF TypeInv, TypeOK, Others
  <1>8. TypeOK'
    BY <1>4, <1>7 DEF TypeInv, TypeOK, handlerVars
  <1>9. Sized(r)'
    <2>1. /\ saves' = saves /\ net' = net /\ stage' = stage /\ source' = source
          /\ level' = level /\ pc'[r] \notin {"request", "auto"}
      BY DEF handlerVars
    <2>2. currentLevel'[r] \in 2 .. MaxSaves + 2
      BY <1>6, <1>7, ConstantsAssumption
    <2>3. Sized(r)
      BY DEF TypeInv
    <2> QED
      BY <1>6, <2>1, <2>2, <2>3 DEF Sized
  <1>10. \A p \in Ranks : p # r => Sized(p)'
    <2> SUFFICES ASSUME NEW p \in Ranks, p # r PROVE Sized(p)'
      OBVIOUS
    <2>1. files'[p] = files[p] /\ currentLevel'[p] = currentLevel[p] /\ pc'[p] = pc[p]
      BY <1>1 DEF TypeInv, TypeOK
    <2> QED
      BY <2>1, SizedFrame DEF TypeInv, TypeOK, handlerVars
  <1>11. \A p \in Ranks : Sized(p)'
    BY <1>9, <1>10, Zenon
  <1>12. net' = net
    OBVIOUS
  <1> QED
    BY <1>8, <1>11, <1>12 DEF TypeInv

LEMMA CheckpointTypes ==
  ASSUME TypeInv, NEW r \in Ranks, CheckpointStep(r)
  PROVE  TypeInv'
  <1> USE DEF MainStages
  <1>1. CASE RequestCheckpoint(r)
    <2>1. /\ pc' = [pc EXCEPT ![r] = "send"] /\ mergeLock' = [mergeLock EXCEPT ![r] = TRUE]
          /\ pc[r] = "request" /\ Save(r)
          /\ UNCHANGED <<base, receipts, merged, made, saves, starts, handlerVars,
                         received, expected, mergeStarting, startLock, net>>
      BY <1>1 DEF RequestCheckpoint
    <2>2. pc' \in [Ranks -> MainStages] /\ pc'[r] = "send" /\ mergeLock' \in [Ranks -> BOOLEAN]
          /\ startLock' \in [Ranks -> BOOLEAN] /\ \A p \in Ranks : p # r => pc'[p] = pc[p]
      BY <2>1 DEF TypeInv, TypeOK
    <2> QED
      BY <2>1, <2>2, SaveTypes
  <1>2. CASE AutoCheckpoint(r)
    <2>1. pc[r] = "auto" /\ UNCHANGED <<base, receipts, merged, made, saves, starts, handlerVars,
                       received, expected, mergeStarting, mergeLock, net>>
      BY <1>2 DEF AutoCheckpoint
    <2>2. CASE /\ startLock' = [startLock EXCEPT ![r] = TRUE] /\ Save(r)
               /\ pc' = [pc EXCEPT ![r] = "autosend"]
      <3>1. pc' \in [Ranks -> MainStages] /\ pc'[r] = "autosend"
            /\ startLock' \in [Ranks -> BOOLEAN] /\ mergeLock' \in [Ranks -> BOOLEAN]
            /\ \A p \in Ranks : p # r => pc'[p] = pc[p]
        BY <2>1, <2>2 DEF TypeInv, TypeOK
      <3> QED
        BY <2>1, <2>2, <3>1, SaveTypes
    <2>3. CASE /\ pc' = [pc EXCEPT ![r] = "idle"]
               /\ UNCHANGED <<startLock, files, delta, currentLevel, unsent>>
      <3>1. TypeOK'
        BY <2>1, <2>3 DEF TypeInv, TypeOK, handlerVars
      <3>2. \A p \in Ranks : pc'[p] \in {"request", "auto"} => pc'[p] = pc[p]
        BY <2>3 DEF TypeInv, TypeOK
      <3>3. \A p \in Ranks : Sized(p)'
        BY <2>1, <2>3, <3>2, SizedFrame DEF TypeInv, TypeOK, handlerVars
      <3> QED
        BY <2>1, <3>1, <3>3 DEF TypeInv
    <2> QED
      BY <1>2, <2>2, <2>3 DEF AutoCheckpoint
  <1>3. CASE SendSnapshot(r)
    <2> DEFINE k == NumLevels(r) - 2
               m == Snapshot(k, IF k = 0 THEN base[r] ELSE files[r][k])
    <2>1. PICK q \in unsent[r] :
            /\ net' = [net EXCEPT ![r][q] = Append(@, m)]
            /\ unsent' = [unsent EXCEPT ![r] = @ \ {q}]
      BY <1>3 DEF SendSnapshot
    <2>2. UNCHANGED <<dataVars, pc, made, saves, starts, handlerVars, sharedVars>>
      BY <1>3 DEF SendSnapshot
    <2>3. m \in Sendable /\ q \in Ranks
      BY SnapshotSendable DEF TypeInv, TypeOK
    <2> HIDE DEF m, k
    <2>4. net[r][q] \in Seq(Sendable)
      BY <2>3 DEF TypeInv
    <2>5. /\ Append(net[r][q], m) \in Seq(Sendable)
          /\ net[r][q] # <<>> => /\ Append(net[r][q], m) # <<>>
                                 /\ Head(Append(net[r][q], m)) = Head(net[r][q])
      BY <2>3, <2>4, Extended
    <2>6. /\ net' \in [Ranks -> [Ranks -> Seq(Sendable)]] /\ net'[r][q] = Append(net[r][q], m)
          /\ \A x, y \in Ranks : x # r \/ y # q => net'[x][y] = net[x][y]
      BY <2>1, <2>3, <2>5 DEF TypeInv
    <2>7. unsent' \in [Ranks -> SUBSET Ranks]
      BY <2>1 DEF TypeInv, TypeOK
    <2>8. net' \in [Ranks -> [Ranks -> Seq(Messages)]]
      BY <2>6, SendableMessages
    <2>9. TypeOK'
      BY <2>2, <2>7, <2>8 DEF TypeInv, TypeOK, dataVars, handlerVars, sharedVars
    <2>10. \A x, y \in Ranks : net[x][y] # <<>> =>
              net'[x][y] # <<>> /\ Head(net'[x][y]) = Head(net[x][y])
      BY <2>5, <2>6
    <2>11. \A p \in Ranks : Sized(p)'
      BY <2>2, <2>10, SizedFrame DEF TypeInv, TypeOK, dataVars, handlerVars, sharedVars
    <2> QED
      BY <2>6, <2>9, <2>11 DEF TypeInv
  <1>4. CASE EndCheckpoint(r)
    <2>1. /\ pc' = [pc EXCEPT ![r] = "idle"]
          /\ UNCHANGED <<dataVars, unsent, made, saves, starts, handlerVars,
                         received, expected, currentLevel, mergeStarting, net>>
          /\ mergeLock' = [mergeLock EXCEPT ![r] = FALSE] \/ UNCHANGED mergeLock
          /\ startLock' = [startLock EXCEPT ![r] = FALSE] \/ UNCHANGED startLock
      BY <1>4 DEF EndCheckpoint
    <2>2. mergeLock' \in [Ranks -> BOOLEAN] /\ startLock' \in [Ranks -> BOOLEAN]
          /\ pc' \in [Ranks -> MainStages]
      BY <2>1 DEF TypeInv, TypeOK
    <2>3. TypeOK'
      BY <2>1, <2>2 DEF TypeInv, TypeOK, dataVars, handlerVars
    <2>4. \A p \in Ranks : pc'[p] \in {"request", "auto"} => pc'[p] = pc[p]
      BY <2>1 DEF TypeInv, TypeOK
    <2>5. \A p \in Ranks : Sized(p)'
      BY <2>1, <2>4, SizedFrame DEF TypeInv, TypeOK, dataVars, handlerVars
    <2> QED
      BY <2>1, <2>3, <2>5 DEF TypeInv
  <1> QED
    BY <1>1, <1>2, <1>3, <1>4 DEF CheckpointStep

\* The handler moves on at a rank: what has to hold at its new place.
LEMMA StageTypes ==
  ASSUME TypeInv, NEW r \in Ranks, NEW s \in HandlerStages, NEW q \in Ranks,
         stage' = [stage EXCEPT ![r] = s], source' = [source EXCEPT ![r] = q],
         s \in {"lock", "ask", "compare"} => level[r] \in 2 .. MaxSaves + 2,
         s = "mark" /\ q # r => net[q][r] # <<>> /\ IsRequest(Head(net[q][r])),
         pc' \in [Ranks -> MainStages],
         \A p \in Ranks : pc'[p] \in {"request", "auto"} => pc'[p] = pc[p],
         starts' \in [Ranks -> Nat], toAsk' \in [Ranks -> SUBSET Ranks],
         expected' \in [Ranks -> [Ranks -> -1 .. MaxSaves]],
         mergeStarting' \in [Ranks -> BOOLEAN], mergeLock' \in [Ranks -> BOOLEAN],
         UNCHANGED <<dataVars, unsent, made, saves, level, newBase, received, currentLevel,
                     startLock, net>>
  PROVE  TypeInv'
  <1>1. /\ stage' \in [Ranks -> HandlerStages] /\ source' \in [Ranks -> Ranks]
        /\ stage'[r] = s /\ source'[r] = q
        /\ \A p \in Ranks : p # r => stage'[p] = stage[p] /\ source'[p] = source[p]
    BY DEF TypeInv, TypeOK
  <1>2. TypeOK'
    BY <1>1 DEF TypeInv, TypeOK, dataVars
  <1>3. Sized(r)'
    BY <1>1 DEF TypeInv, Sized, dataVars
  <1>4. \A p \in Ranks : p # r => Sized(p)'
    BY <1>1, SizedFrame DEF TypeInv, TypeOK, dataVars
  <1> QED
    BY <1>2, <1>3, <1>4 DEF TypeInv

LEMMA ListenerTypes ==
  ASSUME TypeInv, NEW r \in Ranks, NEW q \in Others(r),
         HandleSnapshot(r, q) \/ ProbeMergeRequest(r, q)
  PROVE  TypeInv'
  <1>1. q \in Ranks /\ q # r /\ net[q][r] # <<>> /\ net[q][r] \in Seq(Sendable)
        /\ stage[r] = "none"
    BY DEF Others, TypeInv, HandleSnapshot, ProbeMergeRequest
  <1>2. CASE HandleSnapshot(r, q)
    <2> DEFINE m == Head(net[q][r])
    <2>1. /\ m.tag = "SNAPSHOT_MESSAGE"
          /\ received' = [received EXCEPT ![r][q] = m.n]
          /\ receipts' = [receipts EXCEPT ![r][q][m.n] = m.content]
          /\ net' = [net EXCEPT ![q][r] = Tail(@)]
          /\ UNCHANGED <<delta, files, base, merged, mainVars, handlerVars,
                   expected, currentLevel, mergeStarting, startLock, mergeLock>>
      BY <1>2 DEF HandleSnapshot
    <2>2. m \in Sendable /\ Tail(net[q][r]) \in Seq(Sendable)
      BY <1>1, Shortened
    <2> HIDE DEF m
    <2>3. m.n \in 0 .. MaxSaves /\ m.content \in SUBSET Updates
      BY <2>1, <2>2 DEF Sendable, IsRequest, Messages
    <2>4. /\ net' \in [Ranks -> [Ranks -> Seq(Sendable)]]
          /\ \A x, y \in Ranks : x # q \/ y # r => net'[x][y] = net[x][y]
      BY <1>1, <2>1, <2>2 DEF TypeInv
    <2>5. received' \in [Ranks -> [Ranks -> 0 .. MaxSaves]]
      BY <1>1, <2>1, <2>3 DEF TypeInv, TypeOK
    <2>6. receipts' \in [Ranks -> [Ranks -> [0 .. MaxSaves -> SUBSET Updates]]]
      <3> DEFINE f == [receipts[r][q] EXCEPT ![m.n] = m.content]
                 g == [receipts[r] EXCEPT ![q] = f]
      <3>1. f \in [0 .. MaxSaves -> SUBSET Updates]
        <4>1. receipts[r][q] \in [0 .. MaxSaves -> SUBSET Updates]
          BY SMTT(30), <1>1 DEF TypeInv, TypeOK
        <4> QED
          BY <2>3, <4>1
      <3>2. receipts' = [receipts EXCEPT ![r] = g]
        BY <2>1
      <3> HIDE DEF f
      <3>3. g \in [Ranks -> [0 .. MaxSaves -> SUBSET Updates]]
        BY <1>1, <3>1 DEF TypeInv, TypeOK
      <3> HIDE DEF g
      <3> QED
        BY <3>2, <3>3 DEF TypeInv, TypeOK
    <2>7. net' \in [Ranks -> [Ranks -> Seq(Messages)]]
      BY <2>4, SendableMessages
    <2>8. TypeOK'
      BY <2>1, <2>5, <2>6, <2>7 DEF TypeInv, TypeOK, mainVars, handlerVars
    <2>9. \A p \in Ranks : Sized(p)'
      BY <1>1, <2>1, <2>4, SizedFrame DEF TypeInv, TypeOK, mainVars, handlerVars
    <2> QED
      BY <2>4, <2>8, <2>9 DEF TypeInv
  <1>3. CASE ProbeMergeRequest(r, q)
    <2>1. IsRequest(Head(net[q][r]))
      BY <1>3 DEF ProbeMergeRequest, IsRequest
    <2> QED
      BY <1>1, <1>3, <2>1, StageTypes DEF ProbeMergeRequest, mainVars, sharedVars, HandlerStages,
         TypeInv, TypeOK
  <1> QED
    BY <1>2, <1>3

LEMMA StartMergeTypes ==
  ASSUME TypeInv, NEW r \in Ranks, StartMerge(r)
  PROVE  TypeInv'
  <1>1. /\ starts' = [starts EXCEPT ![r] = @ + 1] /\ pc' = [pc EXCEPT ![r] = "merge"]
        /\ stage' = [stage EXCEPT ![r] = "mark"] /\ source' = [source EXCEPT ![r] = r]
        /\ UNCHANGED <<dataVars, unsent, made, saves, level, toAsk, newBase, sharedVars, net>>
    BY DEF StartMerge
  <1>2. /\ starts' \in [Ranks -> Nat] /\ pc' \in [Ranks -> MainStages]
        /\ \A p \in Ranks : pc'[p] \in {"request", "auto"} => pc'[p] = pc[p]
    BY <1>1 DEF TypeInv, TypeOK, MainStages
  <1> QED
    BY <1>1, <1>2, StageTypes DEF sharedVars, HandlerStages, TypeInv, TypeOK

LEMMA MarkTypes ==
  ASSUME TypeInv, NEW r \in Ranks, MarkStarting(r)
  PROVE  TypeInv'
  <1> DEFINE q == source[r]
             n == IF q = r THEN 2 ELSE Head(net[q][r]).n
             s == IF mergeStarting[r] THEN "compare" ELSE "lock"
  <1>1. /\ stage[r] = "mark" /\ mergeStarting' = [mergeStarting EXCEPT ![r] = TRUE]
        /\ level' = [level EXCEPT ![r] = n] /\ stage' = [stage EXCEPT ![r] = s]
        /\ IF q = r THEN UNCHANGED net ELSE net' = [net EXCEPT ![q][r] = Tail(@)]
        /\ UNCHANGED <<dataVars, mainVars, source, toAsk, newBase,
                   received, expected, currentLevel, startLock, mergeLock>>
    BY DEF MarkStarting
  <1>2. q \in Ranks /\ MaxSaves \in Nat
    BY ConstantsAssumption DEF TypeInv, TypeOK
  <1>3. n \in 2 .. MaxSaves + 2
    <2>1. CASE q = r
      BY <1>2, <2>1
    <2>2. CASE q # r
      <3>1. net[q][r] # <<>> /\ IsRequest(Head(net[q][r])) /\ net[q][r] \in Seq(Sendable)
        BY <1>1, <1>2, <2>2 DEF TypeInv, Sized
      <3>2. Head(net[q][r]) \in Sendable
        BY <3>1, Shortened
      <3> QED
        BY <2>2, <3>1, <3>2 DEF Sendable
    <2> QED
      BY <2>1, <2>2
  <1>4. net' \in [Ranks -> [Ranks -> Seq(Sendable)]]
        /\ \A x, y \in Ranks : y # r => net'[x][y] = net[x][y]
    <2>1. CASE q = r
      BY <1>1, <2>1 DEF TypeInv
    <2>2. CASE q # r
      <3>1. net[q][r] # <<>> /\ net[q][r] \in Seq(Sendable)
        BY <1>1, <1>2, <2>2 DEF TypeInv, Sized
      <3>2. Tail(net[q][r]) \in Seq(Sendable)
        BY <3>1, Shortened
      <3>3. net' = [net EXCEPT ![q][r] = Tail(net[q][r])]
        BY <1>1, <2>2
      <3> HIDE DEF q
      <3>4. net \in [Ranks -> [Ranks -> Seq(Sendable)]]
        BY DEF TypeInv
      <3> QED
        BY <1>2, <3>2, <3>3, <3>4, NetAt
    <2> QED
      BY <2>1, <2>2
  <1> HIDE DEF n, q
  <1>5. /\ stage' \in [Ranks -> HandlerStages] /\ level' \in [Ranks -> Int] /\ level'[r] = n
        /\ mergeStarting' \in [Ranks -> BOOLEAN] /\ stage'[r] \in {"compare", "lock"}
        /\ \A p \in Ranks : p # r => stage'[p] = stage[p] /\ level'[p] = level[p]
    <2>1. /\ stage' \in [Ranks -> HandlerStages] /\ stage'[r] \in {"compare", "lock"}
          /\ \A p \in Ranks : p # r => stage'[p] = stage[p]
      BY <1>1 DEF TypeInv, TypeOK, HandlerStages
    <2>2. n \in Int
      BY <1>2, <1>3
    <2>3. /\ level' \in [Ranks -> Int] /\ level'[r] = n
          /\ \A p \in Ranks : p # r => level'[p] = level[p]
      BY <1>1, <2>2 DEF TypeInv, TypeOK
    <2>4. mergeStarting' \in [Ranks -> BOOLEAN]
      BY <1>1 DEF TypeInv, TypeOK
    <2> QED
      BY <2>1, <2>3, <2>4
  <1>6. net' \in [Ranks -> [Ranks -> Seq(Messages)]]
    BY <1>4, SendableMessages
  <1>7. TypeOK'
    BY <1>1, <1>5, <1>6 DEF TypeInv, TypeOK, dataVars, mainVars
  <1>8. Sized(r)'
    BY <1>1, <1>3, <1>5 DEF TypeInv, Sized, dataVars, mainVars
  <1>9. ASSUME NEW p \in Ranks, p # r PROVE Sized(p)'
    <2>1. \A x \in Ranks : net'[x][p] = net[x][p]
      BY <1>4, <1>9
    <2>2. UNCHANGED <<files, saves, currentLevel, source, pc>>
      BY <1>1 DEF dataVars, mainVars
    <2>3. Sized(p) /\ source[p] \in Ranks
      BY DEF TypeInv, TypeOK
    <2> QED
      BY <1>5, <1>9, <2>1, <2>2, <2>3, SizedFrame
  <1> QED
    BY <1>4, <1>7, <1>8, <1>9 DEF TypeInv

LEMMA AskTypes ==
  ASSUME TypeInv, NEW r \in Ranks, AskOthers(r)
  PROVE  TypeInv'
  <1>1. /\ stage[r] = "ask"
        /\ UNCHANGED <<dataVars, mainVars, source, level, newBase, sharedVars>>
    BY DEF AskOthers
  <1>2. CASE /\ toAsk[r] = {} /\ stage' = [stage EXCEPT ![r] = "compare"]
             /\ UNCHANGED <<net, toAsk>>
    <2>1. source' = [source EXCEPT ![r] = source[r]] /\ source[r] \in Ranks
          /\ level[r] \in 2 .. MaxSaves + 2
      BY <1>1 DEF TypeInv, TypeOK, Sized
    <2> QED
      BY <1>1, <1>2, <2>1, StageTypes DEF mainVars, sharedVars, HandlerStages, TypeInv, TypeOK
  <1>3. ASSUME NEW q \in toAsk[r],
               net' = [net EXCEPT ![r][q] = Append(@, MergeRequest(currentLevel[r]))],
               toAsk' = [toAsk EXCEPT ![r] = @ \ {q}], UNCHANGED stage
        PROVE  TypeInv'
    <2> DEFINE m == MergeRequest(currentLevel[r])
    <2>1. m \in Sendable /\ q \in Ranks
      BY RequestSendable DEF TypeInv, TypeOK, Sized
    <2>2. net' = [net EXCEPT ![r][q] = Append(@, m)]
      BY <1>3
    <2> HIDE DEF m
    <2>3. net[r][q] \in Seq(Sendable)
      BY <2>1 DEF TypeInv
    <2>4. /\ Append(net[r][q], m) \in Seq(Sendable)
          /\ net[r][q] # <<>> => /\ Append(net[r][q], m) # <<>>
                                 /\ Head(Append(net[r][q], m)) = Head(net[r][q])
      BY <2>1, <2>3, Extended
    <2>5. /\ net' \in [Ranks -> [Ranks -> Seq(Sendable)]] /\ net'[r][q] = Append(net[r][q], m)
          /\ \A x, y \in Ranks : x # r \/ y # q => net'[x][y] = net[x][y]
      BY <2>1, <2>2, <2>4 DEF TypeInv
    <2>6. net' \in [Ranks -> [Ranks -> Seq(Messages)]]
      BY <2>5, SendableMessages
    <2>7. toAsk' \in [Ranks -> SUBSET Ranks]
      BY <1>3 DEF TypeInv, TypeOK
    <2>8. TypeOK'
      BY <1>1, <1>3, <2>6, <2>7 DEF TypeInv, TypeOK, dataVars, mainVars, sharedVars
    <2>9. \A x, y \in Ranks : net[x][y] # <<>> =>
              net'[x][y] # <<>> /\ Head(net'[x][y]) = Head(net[x][y])
      BY <2>4, <2>5
    <2>10. \A p \in Ranks : Sized(p)'
      BY <1>1, <1>3, <2>9, SizedFrame DEF TypeInv, TypeOK, dataVars, mainVars, sharedVars
    <2> QED
      BY <2>5, <2>8, <2>10 DEF TypeInv
  <1> QED
    BY <1>2, <1>3 DEF AskOthers

\* The new level 0 of a rank, made and put in place.
LEMMA MergeTypes ==
  ASSUME TypeInv, NEW r \in Ranks, MergeSnapshots(r) \/ Refresh(r)
  PROVE  TypeInv'
  <1>1. /\ \E s \in {"refresh", "unlock"} : stage' = [stage EXCEPT ![r] = s]
        /\ UNCHANGED <<delta, receipts, mainVars, source, level, toAsk, currentLevel,
                       mergeStarting, startLock, mergeLock, net>>
    BY DEF MergeSnapshots, Refresh, dataVars
  <1>2. /\ stage' \in [Ranks -> HandlerStages] /\ stage'[r] \in {"refresh", "unlock"}
        /\ \A p \in Ranks : p # r => stage'[p] = stage[p]
    BY <1>1 DEF TypeInv, TypeOK, HandlerStages
  <1>3. MaxSaves \in Nat
    BY ConstantsAssumption
  <1>4. CASE MergeSnapshots(r)
    <2>1. /\ received' = [received EXCEPT ![r][r] = currentLevel[r] - 2]
          /\ newBase' = [newBase EXCEPT ![r] = MergeInput(r)]
          /\ UNCHANGED <<dataVars, expected>>
      BY <1>4 DEF MergeSnapshots
    <2>2. MergeInput(r) \in SUBSET Updates /\ currentLevel[r] - 2 \in 0 .. MaxSaves
      BY <1>3, MergeInputType DEF TypeInv, Sized
    <2>3. newBase' \in [Ranks -> SUBSET Updates]
      BY <2>1, <2>2 DEF TypeInv, TypeOK
    <2>4. received' \in [Ranks -> [Ranks -> 0 .. MaxSaves]]
      BY <2>1, <2>2 DEF TypeInv, TypeOK
    <2>5. TypeOK'
      BY ZenonT(30), <1>1, <1>2, <2>1, <2>3, <2>4 DEF TypeInv, TypeOK, mainVars, dataVars
    <2>6. Sized(r)'
      BY <1>1, <1>2, <2>1 DEF TypeInv, Sized, mainVars, dataVars
    <2>7. \A p \in Ranks : p # r => Sized(p)'
      BY <1>1, <1>2, <2>1, SizedFrame DEF TypeInv, TypeOK, mainVars, dataVars
    <2> QED
      BY <1>1, <2>5, <2>6, <2>7 DEF TypeInv
  <1>5. CASE Refresh(r)
    <2>1. /\ base' = [base EXCEPT ![r] = newBase[r]] /\ files' = [files EXCEPT ![r] = <<>>]
          /\ merged' = [merged EXCEPT ![r] = Append(@, newBase[r])]
          /\ received' = [received EXCEPT ![r] = NothingReceived]
          /\ expected' = [expected EXCEPT ![r] = NobodyHeard(r)]
          /\ UNCHANGED newBase
      BY <1>5 DEF Refresh
    <2>2. newBase[r] \in SUBSET Updates /\ merged[r] \in Seq(SUBSET Updates)
      BY DEF TypeInv, TypeOK
    <2>3. Append(merged[r], newBase[r]) \in Seq(SUBSET Updates)
      BY <2>2, Extended
    <2>4. base' \in [Ranks -> SUBSET Updates] /\ merged' \in [Ranks -> Seq(SUBSET Updates)]
      BY <2>1, <2>2, <2>3 DEF TypeInv, TypeOK
    <2>5. files' \in [Ranks -> Seq(SUBSET Updates)] /\ files'[r] = <<>> /\ Len(files'[r]) = 0
          /\ \A p \in Ranks : p # r => files'[p] = files[p]
      BY <2>1, EmptySeq DEF TypeInv, TypeOK
    <2>6. /\ NothingReceived \in [Ranks -> 0 .. MaxSaves]
          /\ NobodyHeard(r) \in [Ranks -> -1 .. MaxSaves]
      BY <1>3 DEF NothingReceived, NobodyHeard
    <2>7. /\ received' \in [Ranks -> [Ranks -> 0 .. MaxSaves]]
          /\ expected' \in [Ranks -> [Ranks -> -1 .. MaxSaves]]
      BY <2>1, <2>6 DEF TypeInv, TypeOK
    <2>8. TypeOK'
      BY <1>1, <1>2, <2>1, <2>4, <2>5, <2>7 DEF TypeInv, TypeOK, mainVars
    <2>9. Len(files[r]) \in Nat /\ saves[r] \in Nat
      BY DEF TypeInv, TypeOK
    <2>10. Sized(r)'
      BY <1>1, <1>2, <2>5, <2>9 DEF TypeInv, Sized, mainVars
    <2>11. \A p \in Ranks : p # r => Sized(p)'
      BY <1>1, <1>2, <2>5, SizedFrame DEF TypeInv, TypeOK, mainVars
    <2> QED
      BY <1>1, <2>8, <2>10, <2>11 DEF TypeInv
  <1> QED
    BY <1>4, <1>5

LEMMA HandlerTypes ==
  ASSUME TypeInv, NEW r \in Ranks, HandlerStep(r)
  PROVE  TypeInv'
  <1> USE DEF HandlerStages, MainStages
  <1>1. source' = source => source' = [source EXCEPT ![r] = source[r]]
    BY DEF TypeInv, TypeOK
  <1>2. source[r] \in Ranks /\ (stage[r] \in {"lock", "ask", "compare"} => level[r] \in 2 .. MaxSaves + 2)
    BY DEF TypeInv, TypeOK, Sized
  <1>3. CASE LockMerge(r)
    <2>1. toAsk' \in [Ranks -> SUBSET Ranks] /\ mergeLock' \in [Ranks -> BOOLEAN]
      BY <1>3 DEF LockMerge, TypeInv, TypeOK, Others
    <2> QED
      BY <1>1, <1>2, <1>3, <2>1, StageTypes DEF LockMerge, mainVars, TypeInv, TypeOK
  <1>4. CASE CompareLevels(r)
    <2> DEFINE s == IF received[r] = expected'[r] THEN "merge" ELSE "none"
    <2>1. stage' = [stage EXCEPT ![r] = s] /\ s \in {"merge", "none"}
      BY <1>4 DEF CompareLevels
    <2>2. level[r] - 2 \in -1 .. MaxSaves /\ expected' = [expected EXCEPT ![r][source[r]] = level[r] - 2]
      BY <1>2, <1>4, ConstantsAssumption DEF CompareLevels
    <2>3. expected' \in [Ranks -> [Ranks -> -1 .. MaxSaves]]
      BY <1>2, <2>2 DEF TypeInv, TypeOK
    <2>4. pc' \in [Ranks -> MainStages]
          /\ \A p \in Ranks : pc'[p] \in {"request", "auto"} => pc'[p] = pc[p]
      BY <1>4 DEF CompareLevels, TypeInv, TypeOK
    <2>5. UNCHANGED <<dataVars, unsent, made, saves, starts, source, level, toAsk,
                   newBase, received, currentLevel, mergeStarting, startLock, mergeLock, net>>
      BY <1>4 DEF CompareLevels
    <2> HIDE DEF s
    <2> QED
      BY <1>1, <1>2, <2>1, <2>3, <2>4, <2>5, StageTypes DEF TypeInv, TypeOK
  <1>5. CASE UnlockMerge(r)
    <2>1. mergeLock' \in [Ranks -> BOOLEAN]
      BY <1>5 DEF UnlockMerge, TypeInv, TypeOK
    <2> QED
      BY <1>1, <1>2, <1>5, <2>1, StageTypes DEF UnlockMerge, mainVars, TypeInv, TypeOK
  <1>6. CASE UnmarkStarting(r)
    <2>1. /\ mergeStarting' \in [Ranks -> BOOLEAN] /\ pc' \in [Ranks -> MainStages]
          /\ \A p \in Ranks : pc'[p] \in {"request", "auto"} => pc'[p] = pc[p]
      BY <1>6 DEF UnmarkStarting, TypeInv, TypeOK
    <2> QED
      BY <1>1, <1>2, <1>6, <2>1, StageTypes DEF UnmarkStarting, TypeInv, TypeOK
  <1> QED
    BY <1>3, <1>4, <1>5, <1>6, MarkTypes, AskTypes, MergeTypes DEF HandlerStep

LEMMA TypeStep == TypeInv /\ [Next]_vars => TypeInv'
  <1> SUFFICES ASSUME TypeInv, [Next]_vars PROVE TypeInv'
    OBVIOUS
  <1>1. CASE UNCHANGED vars
    <2>1. TypeOK'
      BY <1>1 DEF TypeInv, TypeOK, vars, dataVars, mainVars, handlerVars, sharedVars
    <2> QED
      BY <1>1, <2>1 DEF TypeInv, Sized, vars, dataVars, mainVars, handlerVars, sharedVars
  <1> QED
    BY <1>1, UpdateTypes, AskCheckpointTypes, StartMergeTypes, CheckpointTypes, HandlerTypes,
       ListenerTypes DEF Next, Work, ListenerStep

(***************************************************************************)
(* Every variable keeps its type; the numbers of files, messages and       *)
(* levels keep within the checkpoints that were made.                      *)
(***************************************************************************)
THEOREM TypeCorrect == Spec => []TypeOK
  <1>1. TypeInv => TypeOK
    BY DEF TypeInv
  <1> QED
    BY <1>1, TypeInit, TypeStep, PTL DEF Spec

(***************************************************************************)
(* The merges, numbered at each rank.  A rank is in its next merge from    *)
(* the moment it is marked, or the main thread is on its way to mark it,   *)
(* until the new level 0 is in place.                                      *)
(***************************************************************************)
Done(r) == Len(merged[r])
InMerge(r) == \/ mergeStarting[r] /\ stage[r] \notin {"unlock", "unmark"}
              \/ stage[r] = "mark" /\ source[r] = r
Begun(r) == Done(r) + (IF InMerge(r) THEN 1 ELSE 0)

\* The requests q sent to r and those r took from q, one for each merge, and
\* those in the channel.
HasAsked(q, r) == /\ mergeStarting[q] /\ stage[q] \notin {"lock", "unlock", "unmark"}
                  /\ ~ (stage[q] = "ask" /\ r \in toAsk[q])
HasTaken(r, q) == \/ expected[r][q] # -1
                  \/ source[r] = q /\ stage[r] \in {"lock", "ask", "compare"}
Asked(q, r) == Done(q) + (IF HasAsked(q, r) THEN 1 ELSE 0)
Taken(r, q) == Done(r) + (IF HasTaken(r, q) THEN 1 ELSE 0)

RequestsIn(s) == {i \in 1 .. Len(s) : IsRequest(s[i])}

Channel(q, r) ==
    /\ \A i, j \in RequestsIn(net[q][r]) : i = j
    /\ Asked(q, r) = Taken(r, q) + (IF RequestsIn(net[q][r]) = {} THEN 0 ELSE 1)

Gathered(r) == stage[r] \in {"merge", "refresh"} => \A q \in Others(r) : expected[r][q] # -1

\* No rank is a whole merge ahead of another; and while a merge is under way
\* somewhere, a rank that has still to make it knows its level.
Epochs ==
    /\ \A p, q \in Ranks : Done(q) <= Begun(p) /\ Begun(p) <= Done(q) + 1
    /\ \A p, r \in Ranks : Begun(p) = Done(r) + 1 => currentLevel[r] = Len(files[r]) + 2

EpochInv ==
    /\ Epochs
    /\ \A r \in Ranks : Gathered(r)
    /\ \A r \in Ranks : \A q \in Others(r) : Channel(q, r)

LEMMA Counts ==
  ASSUME TypeInv, NEW r \in Ranks, NEW q \in Ranks
  PROVE  /\ Done(r) \in Nat
         /\ Begun(r) = IF InMerge(r) THEN Done(r) + 1 ELSE Done(r)
         /\ Asked(q, r) = IF HasAsked(q, r) THEN Done(q) + 1 ELSE Done(q)
         /\ Taken(r, q) = IF HasTaken(r, q) THEN Done(r) + 1 ELSE Done(r)
         /\ Asked(q, r) <= Begun(q)
  <1>1. Done(r) \in Nat /\ Done(q) \in Nat
    <2>1. merged \in [Ranks -> Seq(SUBSET Updates)]
      BY DEF TypeInv, TypeOK
    <2> QED
      BY <2>1 DEF Done
  <1>2. HasAsked(q, r) => InMerge(q)
    BY DEF HasAsked, InMerge
  <1> HIDE DEF Done
  <1>3. Asked(q, r) <= Begun(q)
    BY <1>1, <1>2 DEF Asked, Begun
  <1> QED
    BY <1>1, <1>3 DEF Asked, Begun, Taken

\* The requests of a channel when a message is added to it, or taken from it.
LEMMA RequestsAppend ==
  ASSUME NEW s \in Seq(Sendable), NEW m \in Sendable
  PROVE  /\ ~ IsRequest(m) => RequestsIn(Append(s, m)) = RequestsIn(s)
         /\ IsRequest(m) => RequestsIn(Append(s, m)) = RequestsIn(s) \cup {Len(s) + 1}
  <1>1. /\ Len(Append(s, m)) = Len(s) + 1 /\ Len(s) \in Nat
        /\ \A i \in 1 .. Len(s) : Append(s, m)[i] = s[i]
        /\ Append(s, m)[Len(s) + 1] = m
    BY Extended
  <1>2. 1 .. Len(s) + 1 = (1 .. Len(s)) \cup {Len(s) + 1}
    BY <1>1
  <1> QED
    BY <1>1, <1>2 DEF RequestsIn

LEMMA RequestsTail ==
  ASSUME NEW s \in Seq(Sendable), s # <<>>
  PROVE  /\ \A i \in Nat \ {0} : i \in RequestsIn(Tail(s)) <=> i + 1 \in RequestsIn(s)
         /\ RequestsIn(Tail(s)) \subseteq Nat \ {0} /\ RequestsIn(s) \subseteq Nat \ {0}
         /\ 1 \in RequestsIn(s) <=> IsRequest(Head(s))
  <1>1. /\ Head(s) = s[1] /\ Len(s) \in Nat \ {0} /\ Len(Tail(s)) = Len(s) - 1
        /\ \A i \in 1 .. Len(s) - 1 : Tail(s)[i] = s[i + 1]
    BY Shortened
  <1>2. 1 \in 1 .. Len(s) /\ 1 .. Len(s) \subseteq Nat \ {0}
    BY <1>1
  <1>3. \A i \in Nat \ {0} : i \in 1 .. Len(s) - 1 <=> i + 1 \in 1 .. Len(s)
    BY <1>1
  <1>4. \A i \in Nat \ {0} : i \in RequestsIn(Tail(s)) <=> i + 1 \in RequestsIn(s)
    BY <1>1, <1>3 DEF RequestsIn
  <1>5. 1 .. Len(s) - 1 \subseteq Nat \ {0}
    BY <1>1
  <1> QED
    BY <1>1, <1>2, <1>4, <1>5 DEF RequestsIn

LEMMA TailWithout ==
  ASSUME NEW s \in Seq(Sendable), s # <<>>, ~ IsRequest(Head(s))
  PROVE  /\ RequestsIn(Tail(s)) = {} <=> RequestsIn(s) = {}
         /\ (\A i, j \in RequestsIn(s) : i = j) => \A i, j \in RequestsIn(Tail(s)) : i = j
  <1>1. /\ \A i \in Nat \ {0} : i \in RequestsIn(Tail(s)) <=> i + 1 \in RequestsIn(s)
        /\ RequestsIn(Tail(s)) \subseteq Nat \ {0} /\ RequestsIn(s) \subseteq Nat \ {0}
        /\ 1 \notin RequestsIn(s)
    BY RequestsTail
  <1>2. ASSUME NEW i \in RequestsIn(s) PROVE i - 1 \in RequestsIn(Tail(s))
    <2>1. i \in Nat \ {0} /\ i # 1
      BY <1>1, <1>2
    <2>2. i - 1 \in Nat \ {0} /\ i - 1 + 1 = i
      BY <2>1
    <2> QED
      BY <1>1, <1>2, <2>2
  <1>3. ASSUME NEW i \in RequestsIn(Tail(s)) PROVE i + 1 \in RequestsIn(s) /\ i \in Nat
    BY <1>1, <1>3
  <1>4. ASSUME \A i, j \in RequestsIn(s) : i = j
        PROVE  \A i, j \in RequestsIn(Tail(s)) : i = j
    <2> TAKE i, j \in RequestsIn(Tail(s))
    <2>1. i + 1 = j + 1 /\ i \in Nat /\ j \in Nat
      BY <1>3, <1>4
    <2> QED
      BY <2>1
  <1> QED
    BY <1>2, <1>3, <1>4

LEMMA TailOfRequest ==
  ASSUME NEW s \in Seq(Sendable), s # <<>>, IsRequest(Head(s)),
         \A i, j \in RequestsIn(s) : i = j
  PROVE  RequestsIn(s) # {} /\ RequestsIn(Tail(s)) = {}
  <1>1. /\ \A i \in Nat \ {0} : i \in RequestsIn(Tail(s)) <=> i + 1 \in RequestsIn(s)
        /\ RequestsIn(Tail(s)) \subseteq Nat \ {0}
        /\ 1 \in RequestsIn(s)
    BY RequestsTail
  <1>2. ASSUME NEW i \in RequestsIn(Tail(s)) PROVE FALSE
    <2>1. i + 1 = 1 /\ i \in Nat \ {0}
      BY <1>1
    <2> QED
      BY <2>1
  <1> QED
    BY <1>1, <1>2

\* Steps that neither begin nor end a merge.
LEMMA EpochsFrame ==
  ASSUME Epochs, UNCHANGED merged, \A p \in Ranks : InMerge(p)' = InMerge(p),
         \A r \in Ranks : \/ currentLevel'[r] = Len(files'[r]) + 2
                          \/ currentLevel'[r] = currentLevel[r] /\ files'[r] = files[r]
  PROVE  Epochs'
  <1>1. \A p \in Ranks : Done(p)' = Done(p) /\ Begun(p)' = Begun(p)
    BY DEF Done, Begun
  <1> QED
    BY <1>1 DEF Epochs

LEMMA ChannelFrame ==
  ASSUME NEW r \in Ranks, NEW q \in Ranks, Channel(q, r), merged' = merged,
         net'[q][r] = net[q][r], HasAsked(q, r)' = HasAsked(q, r),
         HasTaken(r, q)' = HasTaken(r, q)
  PROVE  Channel(q, r)'
  <1>1. Asked(q, r)' = Asked(q, r) /\ Taken(r, q)' = Taken(r, q)
    BY DEF Asked, Taken, Done
  <1> QED
    BY <1>1 DEF Channel

LEMMA EpochFrame ==
  ASSUME TypeInv, EpochInv, UNCHANGED <<merged, net>>,
         \A p \in Ranks : InMerge(p)' = InMerge(p),
         \A p \in Ranks : \A q \in Others(p) : HasAsked(p, q)' = HasAsked(p, q),
         \A p \in Ranks : \A q \in Others(p) : HasTaken(p, q)' = HasTaken(p, q),
         \A p \in Ranks : Gathered(p)',
         \A r \in Ranks : \/ currentLevel'[r] = Len(files'[r]) + 2
                          \/ currentLevel'[r] = currentLevel[r] /\ files'[r] = files[r]
  PROVE  EpochInv'
  <1>1. Epochs'
    BY EpochsFrame DEF EpochInv
  <1>2. ASSUME NEW r \in Ranks, NEW q \in Others(r) PROVE Channel(q, r)'
    <2>1. q \in Ranks /\ r \in Others(q) /\ Channel(q, r)
      BY DEF Others, EpochInv
    <2> QED
      BY <2>1, ChannelFrame
  <1> QED
    BY <1>1, <1>2 DEF EpochInv

LEMMA EpochInit == Init => EpochInv
  <1> SUFFICES ASSUME Init PROVE EpochInv
    OBVIOUS
  <1>1. \A r \in Ranks : /\ Done(r) = 0 /\ ~ InMerge(r) /\ stage[r] = "none"
                         /\ currentLevel[r] = Len(files[r]) + 2
    BY EmptySeq DEF Init, Done, InMerge, NumLevels
  <1>2. ASSUME NEW r \in Ranks, NEW q \in Others(r)
        PROVE  RequestsIn(net[q][r]) = {} /\ ~ HasAsked(q, r) /\ ~ HasTaken(r, q)
    <2>1. q \in Ranks /\ q # r
      BY DEF Others
    <2>2. net[q][r] = <<>> /\ expected[r][q] = -1
      BY <2>1 DEF Init, NobodyHeard
    <2>3. ~ HasAsked(q, r) /\ ~ HasTaken(r, q)
      BY <2>1, <2>2 DEF Init, HasAsked, HasTaken
    <2> QED
      BY <2>2, <2>3, EmptySeq DEF RequestsIn
  <1>3. Epochs /\ \A r \in Ranks : Gathered(r)
    BY <1>1 DEF Epochs, Begun, Gathered
  <1>4. ASSUME NEW r \in Ranks, NEW q \in Others(r) PROVE Channel(q, r)
    <2>1. q \in Ranks
      BY DEF Others
    <2>2. Asked(q, r) = 0 /\ Taken(r, q) = 0
      BY <1>1, <1>2, <2>1 DEF Asked, Taken
    <2> QED
      BY <1>2, <2>2 DEF Channel
  <1> QED
    BY <1>3, <1>4 DEF EpochInv

\* Checkpoints and updates: the handler stays where it is.
LEMMA EpochStay ==
  ASSUME TypeInv, EpochInv, UNCHANGED <<merged, expected, stage, source, toAsk, mergeStarting>>,
         \A r \in Ranks : \/ currentLevel'[r] = Len(files'[r]) + 2
                          \/ currentLevel'[r] = currentLevel[r] /\ files'[r] = files[r]
  PROVE  /\ Epochs' /\ \A r \in Ranks : Gathered(r)'
         /\ \A r \in Ranks : \A q \in Others(r) : net'[q][r] = net[q][r] => Channel(q, r)'
  <1>1. \A p \in Ranks : InMerge(p)' = InMerge(p)
    BY DEF InMerge
  <1>2. Epochs'
    BY <1>1, EpochsFrame DEF EpochInv
  <1>3. \A r \in Ranks : Gathered(r)'
    BY DEF EpochInv, Gathered
  <1>4. ASSUME NEW r \in Ranks, NEW q \in Others(r), net'[q][r] = net[q][r]
        PROVE  Channel(q, r)'
    <2>1. q \in Ranks /\ Channel(q, r) /\ HasAsked(q, r)' = HasAsked(q, r)
          /\ HasTaken(r, q)' = HasTaken(r, q)
      BY DEF Others, EpochInv, HasAsked, HasTaken
    <2> QED
      BY <1>4, <2>1, ChannelFrame
  <1> QED
    BY <1>2, <1>3, <1>4

LEMMA SaveLevels ==
  ASSUME TypeInv, NEW r \in Ranks, Save(r)
  PROVE  \A p \in Ranks : \/ currentLevel'[p] = Len(files'[p]) + 2
                          \/ currentLevel'[p] = currentLevel[p] /\ files'[p] = files[p]
  <1>1. /\ files' = [files EXCEPT ![r] = IF delta[r] = {} THEN @ ELSE Append(@, delta[r])]
        /\ currentLevel' = [currentLevel EXCEPT ![r] = Len(files'[r]) + 2]
    BY DEF Save, NumLevels
  <1> QED
    BY <1>1 DEF TypeInv, TypeOK

LEMMA CheckpointEpochs ==
  ASSUME TypeInv, EpochInv, NEW r \in Ranks,
         Update(r) \/ AskCheckpoint(r) \/ CheckpointStep(r) \/ UNCHANGED vars
  PROVE  EpochInv'
  <1>1. CASE Update(r) \/ AskCheckpoint(r) \/ EndCheckpoint(r) \/ UNCHANGED vars
    <2>1. UNCHANGED <<merged, expected, stage, source, toAsk, mergeStarting, currentLevel,
                      files, net>>
      BY <1>1 DEF Update, AskCheckpoint, EndCheckpoint, vars, dataVars, mainVars, handlerVars,
         sharedVars
    <2> QED
      BY <2>1, EpochStay DEF EpochInv
  <1>2. CASE RequestCheckpoint(r) \/ AutoCheckpoint(r)
    <2>1. UNCHANGED <<merged, expected, stage, source, toAsk, mergeStarting, net>>
          /\ (Save(r) \/ UNCHANGED <<files, currentLevel>>)
      BY <1>2 DEF RequestCheckpoint, AutoCheckpoint, handlerVars
    <2> QED
      BY <2>1, EpochStay, SaveLevels DEF EpochInv
  <1>3. CASE SendSnapshot(r)
    <2> DEFINE k == NumLevels(r) - 2
               m == Snapshot(k, IF k = 0 THEN base[r] ELSE files[r][k])
    <2>1. UNCHANGED <<merged, expected, stage, source, toAsk, mergeStarting, currentLevel, files>>
      BY <1>3 DEF SendSnapshot, dataVars, handlerVars, sharedVars
    <2>2. PICK q \in unsent[r] : net' = [net EXCEPT ![r][q] = Append(@, m)]
      BY <1>3 DEF SendSnapshot
    <2>3. m \in Sendable /\ q \in Ranks /\ ~ IsRequest(m)
      BY SnapshotSendable DEF TypeInv, TypeOK, Snapshot, IsRequest
    <2> HIDE DEF m, k
    <2>4. net[r][q] \in Seq(Sendable) /\ net'[r][q] = Append(net[r][q], m)
          /\ \A x, y \in Ranks : x # r \/ y # q => net'[x][y] = net[x][y]
      BY <2>2, <2>3 DEF TypeInv
    <2>5. RequestsIn(net'[r][q]) = RequestsIn(net[r][q])
      BY <2>3, <2>4, RequestsAppend
    <2>6. /\ Epochs' /\ \A p \in Ranks : Gathered(p)'
          /\ \A p \in Ranks : \A x \in Others(p) : net'[x][p] = net[x][p] => Channel(x, p)'
      BY <2>1, EpochStay
    <2>7. ASSUME NEW p \in Ranks, NEW x \in Others(p) PROVE Channel(x, p)'
      <3>1. x \in Ranks
        BY DEF Others
      <3>2. CASE x = r /\ p = q
        <4>1. Channel(r, q) /\ Asked(r, q)' = Asked(r, q) /\ Taken(q, r)' = Taken(q, r)
          BY <2>1, <3>2 DEF EpochInv, Asked, Taken, Done, HasAsked, HasTaken
        <4> QED
          BY <2>5, <3>2, <4>1 DEF Channel
      <3>3. CASE ~ (x = r /\ p = q)
        BY <2>4, <2>6, <3>1, <3>3
      <3> QED
        BY <3>2, <3>3
    <2> QED
      BY <2>6, <2>7 DEF EpochInv
  <1> QED
    BY <1>1, <1>2, <1>3 DEF CheckpointStep

\* A merge is started by a rank when all are as far as it, and know their level.
LEMMA StartEpochs ==
  ASSUME Fresh, TypeInv, LockInv, EpochInv, NEW r \in Ranks, StartMerge(r)
  PROVE  EpochInv'
  <1>1. /\ stage[r] = "none" /\ stage' = [stage EXCEPT ![r] = "mark"]
        /\ source' = [source EXCEPT ![r] = r] /\ MayStart
        /\ UNCHANGED <<merged, net, expected, toAsk, mergeStarting, currentLevel, files>>
    BY DEF StartMerge, dataVars, sharedVars
  <1>2. /\ \A p, q \in Ranks : Done(p) = Done(q)
        /\ \A p \in Ranks : currentLevel[p] = Len(files[p]) + 2
    BY <1>1 DEF MayStart, AllDone, NumLevels, Done
  <1>3. /\ stage'[r] = "mark" /\ source'[r] = r
        /\ \A p \in Ranks : p # r => stage'[p] = stage[p] /\ source'[p] = source[p]
    BY <1>1 DEF TypeInv, TypeOK
  <1>4. InMerge(r)' /\ \A p \in Ranks : p # r => InMerge(p)' = InMerge(p)
    BY <1>1, <1>3 DEF InMerge
  <1>5. /\ \A p \in Ranks : Done(p)' = Done(p) /\ Done(p) \in Nat
        /\ Begun(r)' = Done(r) + 1 /\ \A p \in Ranks : p # r => Begun(p)' = Begun(p)
    BY <1>1, <1>4, Counts DEF Begun, Done
  <1>6. Epochs'
    <2>1. \A p \in Ranks : currentLevel'[p] = Len(files'[p]) + 2
      BY <1>1, <1>2
    <2>2. \A p, q \in Ranks : Done(q)' <= Begun(p)' /\ Begun(p)' <= Done(q)' + 1
      <3> TAKE p, q \in Ranks
      <3>1. CASE p = r
        BY <1>2, <1>5, <3>1
      <3>2. CASE p # r
        BY <1>5, <3>2 DEF EpochInv, Epochs
      <3> QED
        BY <3>1, <3>2
    <2> QED
      BY <2>1, <2>2 DEF Epochs
  <1>7. \A p \in Ranks : Gathered(p)'
    BY <1>1, <1>3 DEF EpochInv, Gathered
  <1>8. ASSUME NEW p \in Ranks, NEW q \in Others(p) PROVE Channel(q, p)'
    <2>1. q \in Ranks /\ Channel(q, p)
      BY DEF Others, EpochInv
    <2>2. HasAsked(q, p)' = HasAsked(q, p) /\ HasTaken(p, q)' = HasTaken(p, q)
      BY <1>1, <1>3, <2>1 DEF HasAsked, HasTaken
    <2> QED
      BY <1>1, <2>1, <2>2, ChannelFrame
  <1> QED
    BY <1>6, <1>7, <1>8 DEF EpochInv

LEMMA ListenerEpochs ==
  ASSUME TypeInv, EpochInv, NEW r \in Ranks, NEW q \in Others(r),
         HandleSnapshot(r, q) \/ ProbeMergeRequest(r, q)
  PROVE  EpochInv'
  <1>1. q \in Ranks /\ q # r /\ net[q][r] # <<>> /\ net[q][r] \in Seq(Sendable)
        /\ stage[r] = "none"
    BY DEF Others, TypeInv, HandleSnapshot, ProbeMergeRequest
  <1>2. CASE HandleSnapshot(r, q)
    <2>1. /\ ~ IsRequest(Head(net[q][r])) /\ net' = [net EXCEPT ![q][r] = Tail(@)]
          /\ UNCHANGED <<merged, expected, stage, source, toAsk, mergeStarting, currentLevel, files>>
      BY <1>2 DEF HandleSnapshot, handlerVars, IsRequest
    <2>2. net'[q][r] = Tail(net[q][r])
          /\ \A x, y \in Ranks : x # q \/ y # r => net'[x][y] = net[x][y]
      BY <1>1, <2>1 DEF TypeInv
    <2>3. /\ RequestsIn(net'[q][r]) = {} <=> RequestsIn(net[q][r]) = {}
          /\ (\A i, j \in RequestsIn(net[q][r]) : i = j) => \A i, j \in RequestsIn(net'[q][r]) : i = j
      <3> DEFINE c == net[q][r]
      <3>1. c \in Seq(Sendable) /\ c # <<>> /\ ~ IsRequest(Head(c))
        BY <1>1, <2>1
      <3>2. net'[q][r] = Tail(c)
        BY <2>2
      <3> HIDE DEF c
      <3>3. /\ RequestsIn(Tail(c)) = {} <=> RequestsIn(c) = {}
            /\ (\A i, j \in RequestsIn(c) : i = j) => \A i, j \in RequestsIn(Tail(c)) : i = j
        BY <3>1, TailWithout
      <3> QED
        BY <3>2, <3>3 DEF c
    <2>4. /\ Epochs' /\ \A p \in Ranks : Gathered(p)'
          /\ \A p \in Ranks : \A x \in Others(p) : net'[x][p] = net[x][p] => Channel(x, p)'
      BY <2>1, EpochStay
    <2>5. ASSUME NEW p \in Ranks, NEW x \in Others(p) PROVE Channel(x, p)'
      <3>1. x \in Ranks
        BY DEF Others
      <3>2. CASE x = q /\ p = r
        <4>1. Channel(q, r) /\ Asked(q, r)' = Asked(q, r) /\ Taken(r, q)' = Taken(r, q)
          BY <2>1, <3>2 DEF EpochInv, Asked, Taken, Done, HasAsked, HasTaken
        <4> QED
          BY <2>3, <3>2, <4>1 DEF Channel
      <3>3. CASE ~ (x = q /\ p = r)
        BY <2>2, <2>4, <3>1, <3>3
      <3> QED
        BY <3>2, <3>3
    <2> QED
      BY <2>4, <2>5 DEF EpochInv
  <1>3. CASE ProbeMergeRequest(r, q)
    <2>1. /\ stage' = [stage EXCEPT ![r] = "mark"] /\ source' = [source EXCEPT ![r] = q]
          /\ UNCHANGED <<merged, net, expected, toAsk, mergeStarting, currentLevel, files>>
      BY <1>3 DEF ProbeMergeRequest, dataVars, sharedVars
    <2>2. /\ stage'[r] = "mark" /\ source'[r] = q
          /\ \A p \in Ranks : p # r => stage'[p] = stage[p] /\ source'[p] = source[p]
      BY <2>1 DEF TypeInv, TypeOK
    <2>3. \A p \in Ranks : InMerge(p)' = InMerge(p)
      BY <1>1, <2>1, <2>2 DEF InMerge
    <2>4. \A p \in Ranks : \A x \in Others(p) :
            HasAsked(p, x)' = HasAsked(p, x) /\ HasTaken(p, x)' = HasTaken(p, x)
      BY <1>1, <2>1, <2>2 DEF HasAsked, HasTaken, Others
    <2>5. \A p \in Ranks : Gathered(p)'
      BY <2>1, <2>2 DEF EpochInv, Gathered
    <2> QED
      BY <2>1, <2>3, <2>4, <2>5, EpochFrame
  <1> QED
    BY <1>2, <1>3

\* A rank is marked: by its own call, already counted, or by a request, which
\* shows that the merge it is about has begun elsewhere.
LEMMA MarkEpochs ==
  ASSUME TypeInv, EpochInv, NEW r \in Ranks, MarkStarting(r)
  PROVE  EpochInv'
  <1>0. PICK q \in Ranks : source[r] = q
    BY DEF TypeInv, TypeOK
  <1> DEFINE s == IF mergeStarting[r] THEN "compare" ELSE "lock"
  <1>1. /\ stage[r] = "mark" /\ mergeStarting' = [mergeStarting EXCEPT ![r] = TRUE]
        /\ stage' = [stage EXCEPT ![r] = s]
        /\ IF q = r THEN UNCHANGED net ELSE net' = [net EXCEPT ![q][r] = Tail(@)]
        /\ UNCHANGED <<merged, expected, source, toAsk, currentLevel, files>>
    BY <1>0 DEF MarkStarting, dataVars, mainVars
  <1>2. /\ mergeStarting'[r] /\ stage'[r] = s /\ q \in Ranks
        /\ \A p \in Ranks : p # r => /\ stage'[p] = stage[p]
                                     /\ mergeStarting'[p] = mergeStarting[p]
    BY <1>1 DEF TypeInv, TypeOK
  <1>3. /\ InMerge(r)' /\ (mergeStarting[r] \/ q = r => InMerge(r))
        /\ \A p \in Ranks : p # r => InMerge(p)' = InMerge(p)
    BY <1>0, <1>1, <1>2 DEF InMerge
  <1>4. \A p \in Ranks : \A x \in Others(p) : HasAsked(p, x)' = HasAsked(p, x)
    <2> TAKE p \in Ranks
    <2> TAKE x \in Others(p)
    <2>1. CASE p = r
      BY <1>1, <1>2, <2>1 DEF HasAsked
    <2>2. CASE p # r
      BY <1>1, <1>2, <2>2 DEF HasAsked
    <2> QED
      BY <2>1, <2>2
  <1>5. \A p \in Ranks : \A x \in Others(p) : p # r \/ x # q => HasTaken(p, x)' = HasTaken(p, x)
    BY <1>0, <1>1, <1>2 DEF HasTaken
  <1>6. \A p \in Ranks : Gathered(p)'
    BY <1>1, <1>2 DEF EpochInv, Gathered
  <1>7. \A p \in Ranks : Done(p)' = Done(p) /\ Done(p) \in Nat
    BY <1>1, Counts DEF Done
  <1>8. CASE q = r
    <2>1. \A p \in Ranks : InMerge(p)' = InMerge(p)
      <3>1. InMerge(r) /\ InMerge(r)'
        BY <1>3, <1>8
      <3>2. \A p \in Ranks : p # r => InMerge(p)' = InMerge(p)
        BY <1>3
      <3>3. InMerge(r)' = InMerge(r)
        BY <3>1 DEF InMerge
      <3> QED
        BY <3>2, <3>3
    <2>2. \A p \in Ranks : \A x \in Others(p) : HasTaken(p, x)' = HasTaken(p, x)
      BY <1>5, <1>8 DEF Others
    <2>3. UNCHANGED <<merged, net, currentLevel, files>>
      BY <1>1, <1>8
    <2> QED
      BY <1>4, <1>6, <2>1, <2>2, <2>3, EpochFrame
  <1>9. CASE q # r
    <2>1. /\ net[q][r] # <<>> /\ IsRequest(Head(net[q][r])) /\ net[q][r] \in Seq(Sendable)
          /\ net' = [net EXCEPT ![q][r] = Tail(@)]
      BY <1>0, <1>1, <1>2, <1>9 DEF TypeInv, Sized
    <2>2. Channel(q, r) /\ q \in Others(r)
      BY <1>2, <1>9 DEF EpochInv, Others
    <2>3. RequestsIn(net[q][r]) # {} /\ RequestsIn(Tail(net[q][r])) = {}
      BY <2>1, <2>2, TailOfRequest DEF Channel
    <2>4. Asked(q, r) = Taken(r, q) + 1
      BY <2>2, <2>3 DEF Channel
    <2>5. HasTaken(r, q)'
      BY <1>0, <1>1, <1>2, <1>9 DEF HasTaken, EpochInv
    <2>6. /\ net'[q][r] = Tail(net[q][r])
          /\ \A x, y \in Ranks : x # q \/ y # r => net'[x][y] = net[x][y]
      BY <1>2, <2>1 DEF TypeInv
    <2> HIDE DEF s
    <2>7. /\ Asked(q, r) <= Begun(q) /\ Begun(q) <= Done(r) + 1 /\ Begun(q) \in Nat
          /\ Taken(r, q) = IF HasTaken(r, q) THEN Done(r) + 1 ELSE Done(r)
      BY <1>2, Counts DEF EpochInv, Epochs
    <2>8. ~ HasTaken(r, q) /\ Taken(r, q) = Done(r) /\ Begun(q) = Done(r) + 1
      BY <1>7, <2>4, <2>7
    <2>9. Begun(r)' = Done(r) + 1 /\ \A p \in Ranks : p # r => Begun(p)' = Begun(p)
      BY <1>3, <1>7 DEF Begun
    <2>10. Epochs'
      <3>1. \A p, x \in Ranks : Done(x)' <= Begun(p)' /\ Begun(p)' <= Done(x)' + 1
        BY <1>2, <1>7, <1>9, <2>8, <2>9 DEF EpochInv, Epochs
      <3>2. \A p, x \in Ranks : Begun(p)' = Done(x)' + 1 => currentLevel'[x] = Len(files'[x]) + 2
        BY <1>1, <1>2, <1>7, <2>8, <2>9 DEF EpochInv, Epochs
      <3> QED
        BY <3>1, <3>2 DEF Epochs
    <2>11. ASSUME NEW p \in Ranks, NEW x \in Others(p) PROVE Channel(x, p)'
      <3>1. x \in Ranks /\ p \in Others(x) /\ Channel(x, p)
        BY DEF Others, EpochInv
      <3>2. CASE x = q /\ p = r
        <4>1. Taken(r, q)' = Taken(r, q) + 1
          BY <1>7, <2>5, <2>8 DEF Taken
        <4>2. HasAsked(q, r)' = HasAsked(q, r)
          BY <1>2, <1>4, <3>1, <3>2
        <4>3. Asked(q, r)' = Asked(q, r)
          BY <1>2, <1>7, <4>2 DEF Asked
        <4>4. RequestsIn(net'[q][r]) = {}
          BY <2>3, <2>6
        <4>5. Asked(q, r)' = Taken(r, q)'
          BY <2>4, <2>8, <1>7, <4>1, <4>3
        <4>6. Taken(r, q)' \in Nat
          BY <1>7, <2>8, <4>1
        <4>7. Channel(q, r)'
          BY <4>4, <4>5, <4>6 DEF Channel
        <4> QED
          BY <3>2, <4>7
      <3>3. CASE ~ (x = q /\ p = r)
        BY <1>1, <1>4, <1>5, <2>6, <3>1, <3>3, ChannelFrame
      <3> QED
        BY <3>2, <3>3
    <2> QED
      BY <1>6, <2>10, <2>11 DEF EpochInv
  <1> QED
    BY <1>8, <1>9

\* A request is sent to every other rank, once.
LEMMA AskEpochs ==
  ASSUME TypeInv, LockInv, EpochInv, NEW r \in Ranks, AskOthers(r)
  PROVE  EpochInv'
  <1>1. /\ stage[r] = "ask" /\ mergeStarting[r]
        /\ UNCHANGED <<merged, expected, source, mergeStarting, currentLevel, files>>
    BY DEF AskOthers, dataVars, sharedVars, LockInv, Locks
  <1>2. CASE /\ toAsk[r] = {} /\ stage' = [stage EXCEPT ![r] = "compare"]
             /\ UNCHANGED <<net, toAsk>>
    <2>1. stage'[r] = "compare" /\ \A p \in Ranks : p # r => stage'[p] = stage[p]
      BY <1>2 DEF TypeInv, TypeOK
    <2>2. \A p \in Ranks : InMerge(p)' = InMerge(p)
      BY <1>1, <2>1 DEF InMerge
    <2>3. \A p \in Ranks : \A x \in Others(p) :
            HasAsked(p, x)' = HasAsked(p, x) /\ HasTaken(p, x)' = HasTaken(p, x)
      BY <1>1, <1>2, <2>1 DEF HasAsked, HasTaken
    <2>4. \A p \in Ranks : Gathered(p)'
      BY <1>1, <2>1 DEF EpochInv, Gathered
    <2> QED
      BY <1>1, <1>2, <2>2, <2>3, <2>4, EpochFrame
  <1>3. ASSUME NEW q \in toAsk[r],
               net' = [net EXCEPT ![r][q] = Append(@, MergeRequest(currentLevel[r]))],
               toAsk' = [toAsk EXCEPT ![r] = @ \ {q}], UNCHANGED stage
        PROVE  EpochInv'
    <2> DEFINE m == MergeRequest(currentLevel[r])
    <2>1. m \in Sendable /\ q \in Ranks /\ IsRequest(m)
      BY RequestSendable DEF TypeInv, TypeOK, Sized, MergeRequest, IsRequest
    <2>2. net' = [net EXCEPT ![r][q] = Append(@, m)]
      BY <1>3
    <2> HIDE DEF m
    <2>3. net[r][q] \in Seq(Sendable) /\ net'[r][q] = Append(net[r][q], m)
          /\ \A x, y \in Ranks : x # r \/ y # q => net'[x][y] = net[x][y]
      BY <2>1, <2>2 DEF TypeInv
    <2>4. RequestsIn(net'[r][q]) = RequestsIn(net[r][q]) \cup {Len(net[r][q]) + 1}
      BY <2>1, <2>3, RequestsAppend
    <2>5. toAsk'[r] = toAsk[r] \ {q} /\ \A p \in Ranks : p # r => toAsk'[p] = toAsk[p]
      BY <1>3 DEF TypeInv, TypeOK
    <2>6. \A p \in Ranks : InMerge(p)' = InMerge(p)
      BY <1>1, <1>3 DEF InMerge
    <2>7. \A p, x \in Ranks : HasTaken(p, x)' = HasTaken(p, x)
      BY <1>1, <1>3 DEF HasTaken
    <2>8. /\ ~ HasAsked(r, q) /\ HasAsked(r, q)'
          /\ \A p, x \in Ranks : p # r \/ x # q => HasAsked(p, x)' = HasAsked(p, x)
      BY <1>1, <1>3, <2>5 DEF HasAsked
    <2>9. Epochs'
      BY <1>1, <2>6, EpochsFrame DEF EpochInv
    <2>10. \A p \in Ranks : Gathered(p)'
      BY <1>1, <1>3 DEF EpochInv, Gathered
    <2>11. ASSUME NEW p \in Ranks, NEW x \in Others(p) PROVE Channel(x, p)'
      <3>1. x \in Ranks /\ Channel(x, p)
        BY DEF Others, EpochInv
      <3>2. CASE x = r /\ p = q
        <4>1. Done(r) \in Nat /\ Done(q) \in Nat /\ Done(r)' = Done(r)
          BY <1>1, <2>1, Counts DEF Done
        <4>2. Asked(r, q) = Done(r) /\ Asked(r, q)' = Done(r) + 1 /\ Taken(q, r)' = Taken(q, r)
          <5>1. Done(q)' = Done(q)
            BY <1>1 DEF Done
          <5> QED
            BY <2>1, <2>7, <2>8, <4>1, <5>1, Counts DEF Asked, Taken
        <4>3. Taken(q, r) \in Nat /\ Taken(q, r) >= Done(q)
          BY <2>1, <4>1, Counts
        <4>4. RequestsIn(net[r][q]) = {}
          <5>1. Begun(r) = Done(r) + 1 /\ Done(r) <= Done(q) + 1 /\ Begun(r) <= Done(q) + 1
            BY <1>1, <2>1, <4>1, Counts DEF EpochInv, Epochs, InMerge
          <5> QED
            BY <3>1, <3>2, <4>1, <4>2, <4>3, <5>1 DEF Channel
        <4>5. RequestsIn(net'[r][q]) = {Len(net[r][q]) + 1}
          BY <2>4, <4>4
        <4>6. Asked(r, q) = Taken(q, r)
          BY <3>1, <3>2, <4>3, <4>4 DEF Channel
        <4>7. /\ Asked(r, q)' = Taken(q, r)' + 1
              /\ RequestsIn(net'[r][q]) # {}
              /\ \A i, j \in RequestsIn(net'[r][q]) : i = j
          BY <4>2, <4>5, <4>6
        <4>8. Channel(r, q)'
          BY <4>7 DEF Channel
        <4> QED
          BY <3>2, <4>8
      <3>3. CASE ~ (x = r /\ p = q)
        BY <1>1, <2>3, <2>7, <2>8, <3>1, <3>3, ChannelFrame
      <3> QED
        BY <3>2, <3>3
    <2> QED
      BY <2>9, <2>10, <2>11 DEF EpochInv
  <1> QED
    BY <1>2, <1>3 DEF AskOthers

\* A rank that merges had a request of every other rank: all have begun.
LEMMA MergersBegun ==
  ASSUME TypeInv, LockInv, EpochInv, NEW r \in Ranks, stage[r] \in {"merge", "refresh"}
  PROVE  \A p \in Ranks : Begun(p) = Done(r) + 1
  <1>1. ASSUME NEW q \in Others(r) PROVE Begun(q) = Done(r) + 1
    <2>1. q \in Ranks /\ Channel(q, r) /\ expected[r][q] # -1
      BY DEF Others, EpochInv, Gathered
    <2>2. Taken(r, q) = Done(r) + 1 /\ Done(r) \in Nat
      BY <2>1, Counts DEF Taken, HasTaken
    <2>3. Asked(q, r) >= Done(r) + 1 /\ Asked(q, r) \in Nat
      BY <2>1, <2>2 DEF Channel
    <2> QED
      BY <2>1, <2>2, <2>3, Counts DEF EpochInv, Epochs
  <1>2. InMerge(r)
    BY DEF LockInv, Locks, InMerge
  <1>3. Begun(r) = Done(r) + 1
    BY <1>2, Counts
  <1> QED
    BY <1>1, <1>3 DEF Others

\* Its merge is done.
LEMMA RefreshEpochs ==
  ASSUME TypeInv, LockInv, EpochInv, NEW r \in Ranks, Refresh(r)
  PROVE  EpochInv'
  <1>1. /\ stage[r] = "refresh" /\ stage' = [stage EXCEPT ![r] = "unlock"]
        /\ merged' = [merged EXCEPT ![r] = Append(@, newBase[r])]
        /\ expected' = [expected EXCEPT ![r] = NobodyHeard(r)]
        /\ files' = [files EXCEPT ![r] = <<>>]
        /\ UNCHANGED <<net, source, toAsk, mergeStarting, currentLevel>>
    BY DEF Refresh
  <1>2. mergeStarting[r]
    BY <1>1 DEF LockInv, Locks
  <1>3. /\ stage'[r] = "unlock" /\ expected'[r] = NobodyHeard(r)
        /\ \A p \in Ranks : p # r => /\ stage'[p] = stage[p] /\ expected'[p] = expected[p]
                                     /\ files'[p] = files[p] /\ merged'[p] = merged[p]
    BY <1>1 DEF TypeInv, TypeOK
  <1>4. /\ Done(r)' = Done(r) + 1 /\ Done(r) \in Nat
        /\ \A p \in Ranks : p # r => Done(p)' = Done(p)
    <2>1. merged[r] \in Seq(SUBSET Updates) /\ newBase[r] \in SUBSET Updates
      BY DEF TypeInv, TypeOK
    <2>2. merged'[r] = Append(merged[r], newBase[r])
      BY <1>1 DEF TypeInv, TypeOK
    <2> QED
      BY <1>3, <2>1, <2>2, Extended DEF Done
  <1>5. InMerge(r) /\ ~ InMerge(r)' /\ \A p \in Ranks : p # r => InMerge(p)' = InMerge(p)
    BY <1>1, <1>2, <1>3 DEF InMerge
  <1>6. \A p \in Ranks : Begun(p)' = Begun(p)
    BY <1>4, <1>5 DEF Begun
  <1>9. \A p \in Ranks : Begun(p) = Done(r) + 1
    BY <1>1, MergersBegun
  <1>10. Epochs'
    <2>1. ASSUME NEW p \in Ranks, NEW q \in Ranks
          PROVE  /\ Done(q)' <= Begun(p)' /\ Begun(p)' <= Done(q)' + 1
                 /\ Begun(p)' = Done(q)' + 1 => currentLevel'[q] = Len(files'[q]) + 2
      <3>1. CASE q = r
        BY <1>4, <1>6, <1>9, <3>1
      <3>2. CASE q # r
        BY <1>1, <1>3, <1>4, <1>6, <3>2 DEF EpochInv, Epochs
      <3> QED
        BY <3>1, <3>2
    <2> QED
      BY <2>1 DEF Epochs
  <1>11. \A p \in Ranks : Gathered(p)'
    BY <1>3 DEF EpochInv, Gathered
  <1>12. ASSUME NEW p \in Ranks, NEW q \in Others(p) PROVE Channel(q, p)'
    <2>1. q \in Ranks /\ q # p /\ Channel(q, p)
      BY DEF Others, EpochInv
    <2>2. Asked(q, p)' = Asked(q, p)
      <3>1. CASE q = r
        BY <1>1, <1>2, <1>3, <1>4, <3>1 DEF Asked, HasAsked
      <3>2. CASE q # r
        BY <1>1, <1>3, <1>4, <2>1, <3>2 DEF Asked, HasAsked
      <3> QED
        BY <3>1, <3>2
    <2>3. Taken(p, q)' = Taken(p, q)
      <3>1. CASE p = r
        <4>1. HasTaken(r, q)
          BY <1>1, <3>1 DEF EpochInv, Gathered, HasTaken
        <4>2. ~ HasTaken(r, q)'
          BY <1>3, <2>1, <3>1 DEF HasTaken, NobodyHeard
        <4> QED
          BY <1>4, <3>1, <4>1, <4>2 DEF Taken
      <3>2. CASE p # r
        BY <1>1, <1>3, <1>4, <3>2 DEF Taken, HasTaken
      <3> QED
        BY <3>1, <3>2
    <2> QED
      BY <1>1, <2>1, <2>2, <2>3 DEF Channel
  <1> QED
    BY <1>10, <1>11, <1>12 DEF EpochInv

LEMMA HandlerEpochs ==
  ASSUME TypeInv, LockInv, EpochInv, NEW r \in Ranks,
         LockMerge(r) \/ CompareLevels(r) \/ MergeSnapshots(r) \/ UnlockMerge(r)
            \/ UnmarkStarting(r)
  PROVE  EpochInv'
  <1>1. /\ UNCHANGED <<merged, net, source, currentLevel, files>>
        /\ \E s \in HandlerStages : stage' = [stage EXCEPT ![r] = s]
    BY DEF LockMerge, CompareLevels, MergeSnapshots, UnlockMerge, UnmarkStarting, dataVars,
       HandlerStages
  <1>2. \A p \in Ranks : p # r => stage'[p] = stage[p]
    BY <1>1 DEF TypeInv, TypeOK
  <1>3. /\ stage[r] # "none" /\ (stage[r] # "mark" => mergeStarting[r])
    BY DEF LockMerge, CompareLevels, MergeSnapshots, UnlockMerge, UnmarkStarting, LockInv, Locks
  <1>4. CASE LockMerge(r)
    <2>1. /\ stage[r] = "lock" /\ stage'[r] = "ask" /\ toAsk'[r] = Others(r)
          /\ \A p \in Ranks : p # r => toAsk'[p] = toAsk[p]
          /\ UNCHANGED <<expected, mergeStarting>>
      BY <1>4 DEF LockMerge, TypeInv, TypeOK
    <2>2. \A p \in Ranks : InMerge(p)' = InMerge(p)
      BY <1>1, <1>2, <1>3, <2>1 DEF InMerge
    <2>3. \A p \in Ranks : \A x \in Others(p) :
            HasAsked(p, x)' = HasAsked(p, x) /\ HasTaken(p, x)' = HasTaken(p, x)
      BY <1>1, <1>2, <2>1 DEF HasAsked, HasTaken
    <2>4. \A p \in Ranks : Gathered(p)'
      BY <1>2, <2>1 DEF EpochInv, Gathered
    <2> QED
      BY <1>1, <2>2, <2>3, <2>4, EpochFrame
  <1>5. CASE CompareLevels(r)
    <2> DEFINE q == source[r]
    <2>1. /\ stage[r] = "compare" /\ UNCHANGED <<toAsk, mergeStarting, received>>
          /\ expected' = [expected EXCEPT ![r][q] = level[r] - 2]
          /\ stage'[r] \in {"merge", "none"} /\ (stage'[r] = "merge" => received[r] = expected'[r])
      BY <1>5 DEF CompareLevels, TypeInv, TypeOK
    <2>2. q \in Ranks /\ level[r] - 2 >= 0 /\ level[r] - 2 \in Int
      <3>1. level \in [Ranks -> Int] /\ source \in [Ranks -> Ranks]
        BY DEF TypeInv, TypeOK
      <3>2. level[r] \in 2 .. MaxSaves + 2
        BY <2>1 DEF TypeInv, Sized
      <3> QED
        BY <3>1, <3>2, ConstantsAssumption
    <2> HIDE DEF q
    <2>3. /\ expected'[r][q] = level[r] - 2
          /\ \A p, x \in Ranks : p # r \/ x # q => expected'[p][x] = expected[p][x]
      BY <2>1, <2>2 DEF TypeInv, TypeOK
    <2>4. \A p \in Ranks : InMerge(p)' = InMerge(p)
      BY <1>1, <1>2, <1>3, <2>1 DEF InMerge
    <2>5. \A p \in Ranks : \A x \in Others(p) : HasAsked(p, x)' = HasAsked(p, x)
      BY <1>1, <1>2, <2>1 DEF HasAsked
    <2>6. \A p \in Ranks : \A x \in Others(p) : HasTaken(p, x)' = HasTaken(p, x)
      <3> TAKE p \in Ranks
      <3> TAKE x \in Others(p)
      <3>1. x \in Ranks
        BY DEF Others
      <3>2. CASE p = r /\ x = q
        BY <2>1, <2>2, <2>3, <3>2 DEF HasTaken, q
      <3>3. CASE p = r /\ x # q
        BY <1>1, <2>1, <2>3, <3>1, <3>3 DEF HasTaken, q
      <3>4. CASE p # r
        BY <1>1, <1>2, <2>3, <3>1, <3>4 DEF HasTaken
      <3> QED
        BY <3>2, <3>3, <3>4
    <2>7. ASSUME NEW p \in Ranks PROVE Gathered(p)'
      <3>1. CASE p = r /\ stage'[r] = "merge"
        <4>1. \A x \in Ranks : received[r][x] # -1
          <5>1. \A x \in Ranks : received[r][x] \in 0 .. MaxSaves
            BY DEF TypeInv, TypeOK
          <5> QED
            BY <5>1, ConstantsAssumption
        <4> QED
          BY <2>1, <3>1, <4>1 DEF Gathered, Others
      <3>2. CASE p = r /\ stage'[r] = "none"
        BY <3>2 DEF Gathered
      <3>3. CASE p # r
        BY <1>2, <2>3, <3>3 DEF EpochInv, Gathered, Others
      <3> QED
        BY <2>1, <3>1, <3>2, <3>3
    <2> QED
      BY <1>1, <2>4, <2>5, <2>6, <2>7, EpochFrame
  <1>6. CASE MergeSnapshots(r) \/ UnlockMerge(r) \/ UnmarkStarting(r)
    <2>1. /\ UNCHANGED <<toAsk, expected>>
          /\ \/ stage[r] = "merge" /\ stage'[r] = "refresh" /\ UNCHANGED mergeStarting
             \/ stage[r] = "unlock" /\ stage'[r] = "unmark" /\ UNCHANGED mergeStarting
             \/ stage[r] = "unmark" /\ stage'[r] = "none" /\ ~ mergeStarting'[r]
          /\ \A p \in Ranks : p # r => mergeStarting'[p] = mergeStarting[p]
      BY <1>6 DEF MergeSnapshots, UnlockMerge, UnmarkStarting, TypeInv, TypeOK
    <2>2. \A p \in Ranks : InMerge(p)' = InMerge(p)
      BY <1>1, <1>2, <1>3, <2>1 DEF InMerge
    <2>3. \A p \in Ranks : \A x \in Others(p) :
            HasAsked(p, x)' = HasAsked(p, x) /\ HasTaken(p, x)' = HasTaken(p, x)
      BY <1>1, <1>2, <1>3, <2>1 DEF HasAsked, HasTaken
    <2>4. \A p \in Ranks : Gathered(p)'
      BY <1>2, <2>1 DEF EpochInv, Gathered
    <2> QED
      BY <1>1, <2>2, <2>3, <2>4, EpochFrame
  <1> QED
    BY <1>4, <1>5, <1>6

LEMMA EpochStep == ASSUME Fresh, TypeInv, LockInv, EpochInv, [Next]_vars PROVE EpochInv'
  <1>1. CASE UNCHANGED vars
    <2>1. 0 \in Ranks
      BY ConstantsAssumption DEF Ranks
    <2> QED
      BY <1>1, <2>1, CheckpointEpochs
  <1> QED
    BY <1>1, CheckpointEpochs, StartEpochs, ListenerEpochs, MarkEpochs, AskEpochs, RefreshEpochs,
       HandlerEpochs DEF Next, Work, ListenerStep, HandlerStep

LEMMA EpochsKept == ASSUME Fresh PROVE Spec => [](TypeInv /\ LockInv /\ EpochInv)
  <1>1. TypeInv /\ LockInv /\ EpochInv /\ [Next]_vars => TypeInv' /\ LockInv' /\ EpochInv'
    BY TypeStep, LockStep, EpochStep
  <1> QED
    BY <1>1, TypeInit, LockInit, EpochInit, PTL DEF Spec

(***************************************************************************)
(* A merge reads no snapshot that is not there: a level left over from     *)
(* before the last merge is never the one a merge goes by, as long as      *)
(* every rank has checkpointed since (snapshot_manager.cpp:19-36,          *)
(* snapshot_merger.cpp:106).                                               *)
(***************************************************************************)
THEOREM FilesRead == ASSUME Fresh PROVE Spec => []MergeReadsFiles
  <1>1. TypeInv /\ LockInv /\ EpochInv => MergeReadsFiles
    <2> SUFFICES ASSUME TypeInv, LockInv, EpochInv, NEW r \in Ranks, stage[r] = "merge"
                 PROVE  OwnRead(r) \subseteq DOMAIN files[r]
      BY DEF MergeReadsFiles
    <2>1. InMerge(r)
      BY DEF LockInv, Locks, InMerge
    <2>2. currentLevel[r] = Len(files[r]) + 2
      BY <2>1, Counts DEF EpochInv, Epochs
    <2>3. files[r] \in Seq(SUBSET Updates)
      BY DEF TypeInv, TypeOK
    <2> QED
      BY <2>2, <2>3, LenProperties DEF OwnRead
  <1> QED
    BY <1>1, EpochsKept, PTL

(***************************************************************************)
(* The snapshots on their way: snapshot j is c once all messages of the    *)
(* channel s are handled over the files f.                                 *)
(***************************************************************************)
IsSnapshot(m, j) == ~ IsRequest(m) /\ m.n = j
Arrives(s, f, j, c) ==
    \/ f[j] = c /\ \A i \in 1 .. Len(s) : ~ IsSnapshot(s[i], j)
    \/ \E i \in 1 .. Len(s) : /\ IsSnapshot(s[i], j) /\ s[i].content = c
                              /\ \A k \in i + 1 .. Len(s) : ~ IsSnapshot(s[k], j)
Stored(f, m) == IF IsRequest(m) THEN f ELSE [f EXCEPT ![m.n] = m.content]

\* Nothing follows a request that ends its channel.
Closed(s) == s # <<>> => IsRequest(s[Len(s)])

\* The snapshots of q reach r as they are, but for the one still to be sent.
Carries(r, q) ==
    \A j \in 1 .. Len(files[q]) : \/ r \in unsent[q] /\ j = Len(files[q])
                                  \/ Arrives(net[q][r], receipts[r][q], j, files[q][j])

\* What r is told of a rank in the same merge is how many snapshots it has.
Told(r, q) ==
    Done(q) = Done(r) =>
        /\ \A i \in RequestsIn(net[q][r]) : net[q][r][i].n = Len(files[q]) + 2
        /\ expected[r][q] # -1 => expected[r][q] = Len(files[q])
        /\ stage[r] \in {"lock", "ask", "compare"} /\ source[r] = q =>
              level[r] = Len(files[q]) + 2
        /\ HasAsked(q, r) => Closed(net[q][r])

SeesInv ==
    /\ \A r \in Ranks : stage[r] = "merge" => received[r] = expected[r]
    /\ \A r \in Ranks : unsent[r] # {} => pc[r] \in {"send", "autosend"}
    /\ \A r \in Ranks : \A q \in Others(r) : Carries(r, q) /\ Told(r, q)

LEMMA ArrivesAppend ==
  ASSUME NEW s \in Seq(Sendable), NEW m \in Sendable, NEW f, NEW j, NEW c
  PROVE  /\ IsSnapshot(m, j) => Arrives(Append(s, m), f, j, m.content)
         /\ ~ IsSnapshot(m, j) /\ Arrives(s, f, j, c) => Arrives(Append(s, m), f, j, c)
  <1> DEFINE t == Append(s, m)
  <1>1. /\ Len(t) = Len(s) + 1 /\ Len(s) \in Nat
        /\ \A i \in 1 .. Len(s) : t[i] = s[i]
        /\ t[Len(s) + 1] = m
    BY Extended
  <1> HIDE DEF t
  <1>2. ASSUME IsSnapshot(m, j) PROVE Arrives(t, f, j, m.content)
    <2>1. Len(s) + 1 \in 1 .. Len(t) /\ Len(s) + 1 + 1 .. Len(t) = {}
      BY <1>1
    <2> QED
      BY <1>1, <1>2, <2>1 DEF Arrives
  <1>3. ASSUME ~ IsSnapshot(m, j), Arrives(s, f, j, c) PROVE Arrives(t, f, j, c)
    <2>1. \A i \in 1 .. Len(t) : i \in 1 .. Len(s) \/ i = Len(s) + 1
      BY <1>1
    <2>2. CASE f[j] = c /\ \A i \in 1 .. Len(s) : ~ IsSnapshot(s[i], j)
      BY <1>1, <1>3, <2>1, <2>2 DEF Arrives
    <2>3. ASSUME NEW i \in 1 .. Len(s), IsSnapshot(s[i], j), s[i].content = c,
                 \A k \in i + 1 .. Len(s) : ~ IsSnapshot(s[k], j)
          PROVE  Arrives(t, f, j, c)
      <3>1. i \in 1 .. Len(t) /\ t[i] = s[i]
        BY <1>1
      <3>2. ASSUME NEW k \in i + 1 .. Len(t) PROVE ~ IsSnapshot(t[k], j)
        <4>1. k \in i + 1 .. Len(s) \/ k = Len(s) + 1
          BY <1>1
        <4>2. i + 1 .. Len(s) \subseteq 1 .. Len(s)
          BY <1>1
        <4> QED
          BY <1>1, <1>3, <2>3, <4>1, <4>2
      <3> QED
        BY <2>3, <3>1, <3>2 DEF Arrives
    <2> QED
      BY <1>3, <2>2, <2>3 DEF Arrives
  <1> QED
    BY <1>2, <1>3 DEF t

LEMMA ArrivesTail ==
  ASSUME NEW s \in Seq(Sendable), s # <<>>, NEW f \in [0 .. MaxSaves -> SUBSET Updates],
         NEW j \in 0 .. MaxSaves, NEW c, Arrives(s, f, j, c)
  PROVE  Arrives(Tail(s), Stored(f, Head(s)), j, c)
  <1> DEFINE t == Tail(s)
             g == Stored(f, Head(s))
  <1>1. /\ Head(s) = s[1] /\ Len(s) \in Nat \ {0} /\ Len(t) = Len(s) - 1
        /\ \A i \in 1 .. Len(s) - 1 : t[i] = s[i + 1]
    BY Shortened
  <1>2. g[j] = IF IsSnapshot(s[1], j) THEN s[1].content ELSE f[j]
    <2>1. CASE IsRequest(s[1])
      BY <1>1, <2>1 DEF Stored, IsSnapshot
    <2>2. CASE ~ IsRequest(s[1])
      BY <1>1, <2>2 DEF Stored, IsSnapshot
    <2> QED
      BY <2>1, <2>2
  <1> HIDE DEF t, g
  <1>3. 1 \in 1 .. Len(s) /\ \A i \in 1 .. Len(t) : i + 1 \in 1 .. Len(s) /\ t[i] = s[i + 1]
    BY <1>1
  <1>4. ASSUME f[j] = c, \A i \in 1 .. Len(s) : ~ IsSnapshot(s[i], j)
        PROVE  Arrives(t, g, j, c)
    BY <1>2, <1>3, <1>4 DEF Arrives
  <1>5. ASSUME NEW i \in 1 .. Len(s), IsSnapshot(s[i], j), s[i].content = c,
               \A k \in i + 1 .. Len(s) : ~ IsSnapshot(s[k], j)
        PROVE  Arrives(t, g, j, c)
    <2>1. CASE i = 1
      <3>1. \A k \in 1 .. Len(t) : k + 1 \in i + 1 .. Len(s)
        BY <1>1, <2>1
      <3> QED
        BY <1>2, <1>3, <1>5, <2>1, <3>1 DEF Arrives
    <2>2. CASE i # 1
      <3>1. i - 1 \in 1 .. Len(t) /\ i - 1 + 1 = i
        BY <1>1, <2>2
      <3>2. \A k \in i - 1 + 1 .. Len(t) : k \in 1 .. Len(t) /\ k + 1 \in i + 1 .. Len(s)
        BY <1>1, <2>2
      <3> QED
        BY <1>3, <1>5, <3>1, <3>2 DEF Arrives
    <2> QED
      BY <2>1, <2>2
  <1>6. Arrives(t, g, j, c)
    BY <1>4, <1>5 DEF Arrives
  <1> QED
    BY <1>6 DEF t, g

LEMMA ClosedTail ==
  ASSUME NEW s \in Seq(Sendable), s # <<>>, Closed(s)
  PROVE  Closed(Tail(s))
  <1>1. /\ Len(s) \in Nat \ {0} /\ Len(Tail(s)) = Len(s) - 1 /\ Tail(s) \in Seq(Sendable)
        /\ \A i \in 1 .. Len(s) - 1 : Tail(s)[i] = s[i + 1]
    BY Shortened
  <1>2. ASSUME Tail(s) # <<>> PROVE IsRequest(Tail(s)[Len(Tail(s))])
    <2>1. Len(s) - 1 \in 1 .. Len(s) - 1 /\ Len(s) - 1 + 1 = Len(s)
      BY <1>1, <1>2, EmptySeq
    <2> QED
      BY <1>1, <2>1 DEF Closed
  <1> QED
    BY <1>2 DEF Closed

\* A closed channel without a request is empty.
LEMMA ClosedEmpty ==
  ASSUME NEW s \in Seq(Sendable), Closed(s), RequestsIn(s) = {}
  PROVE  s = <<>>
  <1> SUFFICES ASSUME s # <<>> PROVE FALSE
    OBVIOUS
  <1>1. Len(s) \in 1 .. Len(s)
    BY EmptySeq
  <1> QED
    BY <1>1 DEF Closed, RequestsIn

\* A rank that has told its level, and is in the same merge, is marked: it
\* neither writes nor sends a snapshot.
LEMMA TellsItself ==
  ASSUME TypeInv, LockInv, EpochInv, NEW r \in Ranks, NEW q \in Others(r), Done(q) = Done(r),
         \/ HasTaken(r, q)
         \/ RequestsIn(net[q][r]) # {}
  PROVE  HasAsked(q, r)
  <1>1. q \in Ranks /\ Channel(q, r)
    BY DEF Others, EpochInv
  <1>2. /\ Done(r) \in Nat
        /\ Asked(q, r) = IF HasAsked(q, r) THEN Done(q) + 1 ELSE Done(q)
        /\ Taken(r, q) = IF HasTaken(r, q) THEN Done(r) + 1 ELSE Done(r)
    BY <1>1, Counts
  <1>3. Asked(q, r) = IF RequestsIn(net[q][r]) = {} THEN Taken(r, q) ELSE Taken(r, q) + 1
    BY <1>1, <1>2 DEF Channel
  <1> QED
    BY <1>2, <1>3

LEMMA AskedIsQuiet ==
  ASSUME LockInv, NEW q \in Ranks, NEW r \in Ranks, HasAsked(q, r)
  PROVE  mergeStarting[q] /\ mergeLock[q] /\ pc[q] \notin {"send", "autosend"}
  BY DEF HasAsked, LockInv, Locks, MergeHolds

\* When r has a request of q, and q is not a merge ahead, nothing of q is left
\* in the channel.
LEMMA TakenAll ==
  ASSUME TypeInv, LockInv, EpochInv, SeesInv, NEW r \in Ranks, NEW q \in Others(r),
         Done(q) = Done(r), expected[r][q] # -1
  PROVE  net[q][r] = <<>> /\ HasAsked(q, r)
  <1>1. q \in Ranks /\ Channel(q, r) /\ HasTaken(r, q) /\ Told(r, q)
    BY DEF Others, EpochInv, HasTaken, SeesInv
  <1>2. HasAsked(q, r)
    BY <1>1, TellsItself
  <1>3. Asked(q, r) = Taken(r, q) /\ Done(r) \in Nat
    BY <1>1, <1>2, Counts
  <1>4. RequestsIn(net[q][r]) = {}
    BY <1>1, <1>2, <1>3, Counts DEF Channel
  <1>5. net[q][r] \in Seq(Sendable) /\ Closed(net[q][r])
    BY <1>1, <1>2 DEF TypeInv, Told
  <1> QED
    BY <1>2, <1>4, <1>5, ClosedEmpty

LEMMA SeesInit == Init => SeesInv
  <1> SUFFICES ASSUME Init PROVE SeesInv
    OBVIOUS
  <1>1. ASSUME NEW r \in Ranks, NEW q \in Others(r) PROVE Carries(r, q) /\ Told(r, q)
    <2>1. q \in Ranks /\ q # r
      BY DEF Others
    <2>2. net[q][r] = <<>> /\ expected[r][q] = -1 /\ Len(files[q]) = 0 /\ stage[r] = "none"
      BY <2>1, EmptySeq DEF Init, NobodyHeard
    <2>3. RequestsIn(net[q][r]) = {} /\ Closed(net[q][r])
      BY <2>2, EmptySeq DEF RequestsIn, Closed
    <2> QED
      BY <2>2, <2>3 DEF Carries, Told
  <1> QED
    BY <1>1 DEF SeesInv, Init

\* Nothing that r knows of q changes, but that a merge may be over.
LEMMA ToldFrame ==
  ASSUME NEW r \in Ranks, NEW q \in Ranks, Told(r, q), merged' = merged,
         net'[q][r] = net[q][r], expected'[r][q] = expected[r][q], files'[q] = files[q],
         HasAsked(q, r)' => HasAsked(q, r),
         stage'[r] \in {"lock", "ask", "compare"} /\ source'[r] = q =>
            stage[r] \in {"lock", "ask", "compare"} /\ source[r] = q /\ level'[r] = level[r]
  PROVE  Told(r, q)'
  <1>1. Done(q)' = Done(q) /\ Done(r)' = Done(r)
    BY DEF Done
  <1> QED
    BY <1>1 DEF Told

LEMMA CarriesFrame ==
  ASSUME NEW r \in Ranks, NEW q \in Ranks, Carries(r, q), net'[q][r] = net[q][r],
         receipts'[r][q] = receipts[r][q], files'[q] = files[q], unsent'[q] = unsent[q]
  PROVE  Carries(r, q)'
  BY DEF Carries

LEMMA CheckpointSees ==
  ASSUME TypeInv, LockInv, EpochInv, SeesInv, NEW r \in Ranks,
         Update(r) \/ AskCheckpoint(r) \/ EndCheckpoint(r) \/ UNCHANGED vars
  PROVE  SeesInv'
  <1>1. /\ UNCHANGED <<merged, net, expected, received, files, receipts, unsent, stage, source,
                       level, toAsk, mergeStarting>>
        /\ \/ pc' = pc
           \/ unsent[r] = {} /\ \E s \in MainStages : pc' = [pc EXCEPT ![r] = s]
    <2>1. CASE Update(r) \/ UNCHANGED vars
      <3>1. UNCHANGED <<merged, net, expected, received, files, receipts, unsent, stage, source,
                        level, toAsk, mergeStarting, pc>>
        BY <2>1 DEF Update, vars, dataVars, mainVars, handlerVars, sharedVars
      <3> QED
        BY <3>1
    <2>2. CASE AskCheckpoint(r)
      <3>1. pc[r] = "idle" => unsent[r] = {}
        BY DEF SeesInv
      <3> QED
        BY <2>2, <3>1 DEF AskCheckpoint, dataVars, handlerVars, sharedVars, MainStages
    <2>3. CASE EndCheckpoint(r)
      BY <2>3 DEF EndCheckpoint, dataVars, handlerVars, MainStages
    <2> QED
      BY <2>1, <2>2, <2>3
  <1>2. ASSUME NEW p \in Ranks, NEW q \in Others(p) PROVE Carries(p, q)' /\ Told(p, q)'
    <2>1. q \in Ranks /\ Carries(p, q) /\ Told(p, q) /\ HasAsked(q, p)' = HasAsked(q, p)
      BY <1>1 DEF Others, SeesInv, HasAsked
    <2> QED
      BY <1>1, <2>1, ToldFrame, CarriesFrame
  <1>3. \A p \in Ranks : unsent'[p] # {} => pc'[p] \in {"send", "autosend"}
    BY <1>1 DEF TypeInv, TypeOK, SeesInv
  <1>4. \A p \in Ranks : stage'[p] = "merge" => received'[p] = expected'[p]
    BY <1>1 DEF SeesInv
  <1> QED
    BY <1>2, <1>3, <1>4 DEF SeesInv

\* A snapshot is written when no rank in the same merge knows the level.
LEMMA SaveSees ==
  ASSUME TypeInv, LockInv, EpochInv, SeesInv, NEW r \in Ranks,
         RequestCheckpoint(r) \/ AutoCheckpoint(r)
  PROVE  SeesInv'
  <1>1. UNCHANGED <<merged, net, expected, received, receipts, stage, source, level, toAsk,
                    mergeStarting>>
    BY DEF RequestCheckpoint, AutoCheckpoint, handlerVars
  <1>2. unsent[r] = {} /\ \A p \in Ranks : p # r => pc'[p] = pc[p]
    BY DEF RequestCheckpoint, AutoCheckpoint, SeesInv, TypeInv, TypeOK
  <1>3. \A p, q \in Ranks : HasAsked(q, p)' = HasAsked(q, p)
    BY <1>1 DEF HasAsked
  <1>4. \A p \in Ranks : stage'[p] = "merge" => received'[p] = expected'[p]
    BY <1>1 DEF SeesInv
  <1>5. CASE UNCHANGED <<files, unsent>>
    <2>1. ASSUME NEW p \in Ranks, NEW q \in Others(p) PROVE Carries(p, q)' /\ Told(p, q)'
      <3>1. q \in Ranks /\ Carries(p, q) /\ Told(p, q)
        BY DEF Others, SeesInv
      <3> QED
        BY <1>1, <1>3, <1>5, <3>1, ToldFrame, CarriesFrame
    <2>2. \A p \in Ranks : unsent'[p] # {} => pc'[p] \in {"send", "autosend"}
      BY <1>2, <1>5 DEF SeesInv
    <2> QED
      BY <1>4, <2>1, <2>2 DEF SeesInv
  <1>6. CASE /\ Save(r)
             /\ ~ mergeStarting[r] \/ ~ mergeLock[r]
             /\ \E s \in {"send", "autosend"} : pc' = [pc EXCEPT ![r] = s]
    <2>1. /\ files' = [files EXCEPT ![r] = IF delta[r] = {} THEN @ ELSE Append(@, delta[r])]
          /\ unsent' = [unsent EXCEPT ![r] = Others(r)]
      BY <1>6 DEF Save
    <2>2. /\ files \in [Ranks -> Seq(SUBSET Updates)] /\ delta[r] \in SUBSET Updates
          /\ unsent \in [Ranks -> SUBSET Ranks] /\ pc \in [Ranks -> MainStages]
      BY DEF TypeInv, TypeOK
    <2>3. /\ \A p \in Ranks : p # r => files'[p] = files[p] /\ unsent'[p] = unsent[p]
          /\ unsent'[r] = Others(r) /\ pc'[r] \in {"send", "autosend"}
          /\ files'[r] = IF delta[r] = {} THEN files[r] ELSE Append(files[r], delta[r])
      BY <1>6, <2>1, <2>2
    <2>4. /\ \A j \in 1 .. Len(files'[r]) : j \in 1 .. Len(files[r]) \/ j = Len(files'[r])
          /\ \A j \in 1 .. Len(files[r]) : files'[r][j] = files[r][j]
      BY <2>2, <2>3, Extended
    <2>5. ASSUME NEW p \in Ranks, NEW q \in Others(p) PROVE Carries(p, q)' /\ Told(p, q)'
      <3>1. q \in Ranks /\ Carries(p, q) /\ Told(p, q)
        BY DEF Others, SeesInv
      <3>2. CASE q = r
        <4>1. p \in Others(r)
          BY <3>2 DEF Others
        <4>2. Carries(p, q)'
          BY <1>1, <1>2, <2>3, <2>4, <3>1, <3>2, <4>1 DEF Carries
        <4>3. ASSUME Done(q) = Done(p) PROVE ~ HasTaken(p, q) /\ RequestsIn(net[q][p]) = {}
          BY <1>6, <3>1, <3>2, <4>3, TellsItself, AskedIsQuiet
        <4>4. ASSUME Done(q) = Done(p) PROVE ~ HasAsked(q, p)
          BY <1>6, <3>1, <3>2, AskedIsQuiet
        <4>5. Told(p, q)'
          BY <1>1, <1>3, <3>1, <4>3, <4>4 DEF Told, HasTaken, Done
        <4> QED
          BY <4>2, <4>5
      <3>3. CASE q # r
        BY <1>1, <1>3, <2>3, <3>1, <3>3, ToldFrame, CarriesFrame
      <3> QED
        BY <3>2, <3>3
    <2>6. \A p \in Ranks : unsent'[p] # {} => pc'[p] \in {"send", "autosend"}
      BY <1>2, <2>3 DEF SeesInv
    <2> QED
      BY <1>4, <2>5, <2>6 DEF SeesInv
  <1> QED
    BY <1>5, <1>6 DEF RequestCheckpoint, AutoCheckpoint

\* It is sent before any request of the next merge.
LEMMA SendSees ==
  ASSUME TypeInv, LockInv, EpochInv, SeesInv, NEW r \in Ranks, SendSnapshot(r)
  PROVE  SeesInv'
  <1> DEFINE k == NumLevels(r) - 2
             m == Snapshot(k, IF k = 0 THEN base[r] ELSE files[r][k])
  <1>1. /\ UNCHANGED <<merged, expected, received, files, receipts, stage, source, level, toAsk,
                       mergeStarting, pc>>
        /\ pc[r] \in {"send", "autosend"}
    BY DEF SendSnapshot, dataVars, handlerVars, sharedVars
  <1>2. PICK x \in unsent[r] : /\ net' = [net EXCEPT ![r][x] = Append(@, m)]
                               /\ unsent' = [unsent EXCEPT ![r] = @ \ {x}]
    BY DEF SendSnapshot
  <1>3. m \in Sendable /\ x \in Ranks /\ ~ IsRequest(m) /\ k = Len(files[r])
    BY SnapshotSendable DEF TypeInv, TypeOK, Snapshot, IsRequest
  <1>4. /\ \A j \in 1 .. Len(files[r]) : IsSnapshot(m, j) <=> j = k
        /\ k # 0 => m.content = files[r][k]
    BY <1>3 DEF IsSnapshot, Snapshot
  <1> HIDE DEF m, k
  <1>5. /\ net[r][x] \in Seq(Sendable) /\ net'[r][x] = Append(net[r][x], m)
        /\ \A p, q \in Ranks : q # r \/ p # x => net'[q][p] = net[q][p]
    BY <1>2, <1>3 DEF TypeInv
  <1>6. unsent'[r] = unsent[r] \ {x} /\ \A p \in Ranks : p # r => unsent'[p] = unsent[p]
    BY <1>2 DEF TypeInv, TypeOK
  <1>7. \A p, q \in Ranks : HasAsked(q, p)' = HasAsked(q, p)
    BY <1>1 DEF HasAsked
  <1>8. ASSUME NEW p \in Ranks, NEW q \in Others(p) PROVE Carries(p, q)' /\ Told(p, q)'
    <2>1. q \in Ranks /\ Carries(p, q) /\ Told(p, q)
      BY DEF Others, SeesInv
    <2>2. CASE q = r /\ p = x
      <3>1. Carries(x, r)'
        <4> SUFFICES ASSUME NEW j \in 1 .. Len(files[r])
                     PROVE  Arrives(net'[r][x], receipts[x][r], j, files[r][j])
          BY <1>1 DEF Carries
        <4>1. CASE j = k
          <5>1. IsSnapshot(m, j) /\ m.content = files[r][j]
            BY <1>4, <4>1
          <5> QED
            BY <1>3, <1>5, <5>1, ArrivesAppend
        <4>2. CASE j # k
          <5>1. ~ IsSnapshot(m, j) /\ Arrives(net[r][x], receipts[x][r], j, files[r][j])
            BY <1>3, <1>4, <2>1, <2>2, <4>2 DEF Carries
          <5> QED
            BY <1>3, <1>5, <5>1, ArrivesAppend
        <4> QED
          BY <4>1, <4>2
      <3>2. ASSUME Done(r) = Done(x)
            PROVE  ~ HasTaken(x, r) /\ RequestsIn(net[r][x]) = {} /\ ~ HasAsked(r, x)
        BY <1>1, <1>3, <2>2, <3>2, TellsItself, AskedIsQuiet
      <3>3. RequestsIn(net'[r][x]) = RequestsIn(net[r][x])
        BY <1>3, <1>5, RequestsAppend
      <3>4. Told(x, r)'
        BY <1>1, <1>3, <1>7, <3>2, <3>3 DEF Told, HasTaken, Done
      <3> QED
        BY <2>2, <3>1, <3>4
    <2>3. CASE q = r /\ p # x
      <3>1. Carries(p, r)'
        BY <1>1, <1>5, <1>6, <2>1, <2>3 DEF Carries
      <3>2. Told(p, r)'
        BY <1>1, <1>5, <1>7, <2>1, <2>3, ToldFrame
      <3> QED
        BY <2>3, <3>1, <3>2
    <2>4. CASE q # r
      BY <1>1, <1>5, <1>6, <1>7, <2>1, <2>4, ToldFrame, CarriesFrame
    <2> QED
      BY <2>2, <2>3, <2>4
  <1>9. \A p \in Ranks : unsent'[p] # {} => pc'[p] \in {"send", "autosend"}
    BY <1>1, <1>6 DEF SeesInv
  <1>10. \A p \in Ranks : stage'[p] = "merge" => received'[p] = expected'[p]
    BY <1>1 DEF SeesInv
  <1> QED
    BY <1>8, <1>9, <1>10 DEF SeesInv

\* Steps of start_merge and the handler that neither send nor receive.
LEMMA SeesFrame ==
  ASSUME SeesInv, UNCHANGED <<merged, net, expected, files, receipts, unsent>>,
         \A p \in Ranks : pc[p] \in {"send", "autosend"} => pc'[p] = pc[p],
         \A p \in Ranks : stage'[p] = "merge" => stage[p] = "merge" /\ received'[p] = received[p],
         \A p \in Ranks : \A q \in Others(p) : HasAsked(q, p)' => HasAsked(q, p),
         \A p \in Ranks : \A q \in Others(p) :
            stage'[p] \in {"lock", "ask", "compare"} /\ source'[p] = q =>
            stage[p] \in {"lock", "ask", "compare"} /\ source[p] = q /\ level'[p] = level[p]
  PROVE  SeesInv'
  <1>1. ASSUME NEW p \in Ranks, NEW q \in Others(p) PROVE Carries(p, q)' /\ Told(p, q)'
    <2>1. q \in Ranks /\ Carries(p, q) /\ Told(p, q)
      BY DEF Others, SeesInv
    <2> QED
      BY <2>1, ToldFrame, CarriesFrame
  <1> QED
    BY <1>1 DEF SeesInv

LEMMA StageSees ==
  ASSUME TypeInv, LockInv, EpochInv, SeesInv, NEW r \in Ranks,
         \/ StartMerge(r) \/ LockMerge(r) \/ MergeSnapshots(r) \/ UnlockMerge(r)
         \/ UnmarkStarting(r) \/ \E q \in Others(r) : ProbeMergeRequest(r, q)
  PROVE  SeesInv'
  <1>1. UNCHANGED <<merged, net, expected, files, receipts, unsent, level>>
    BY DEF StartMerge, LockMerge, MergeSnapshots, UnlockMerge, UnmarkStarting,
       ProbeMergeRequest, dataVars, mainVars, handlerVars, sharedVars
  <1>2. /\ \A p \in Ranks : p # r => /\ stage'[p] = stage[p] /\ source'[p] = source[p]
                                     /\ pc'[p] = pc[p] /\ toAsk'[p] = toAsk[p]
                                     /\ mergeStarting'[p] = mergeStarting[p]
                                     /\ received'[p] = received[p]
        /\ mergeStarting'[r] => mergeStarting[r]
    <2> USE DEF TypeInv, TypeOK
    <2>1. CASE StartMerge(r)
      BY <2>1 DEF StartMerge, sharedVars
    <2>2. CASE LockMerge(r) \/ UnlockMerge(r)
      BY <2>2 DEF LockMerge, UnlockMerge, mainVars, sharedVars
    <2>3. CASE MergeSnapshots(r)
      BY <2>3 DEF MergeSnapshots, mainVars
    <2>4. CASE UnmarkStarting(r)
      BY <2>4 DEF UnmarkStarting
    <2>5. CASE \E q \in Others(r) : ProbeMergeRequest(r, q)
      BY <2>5 DEF ProbeMergeRequest, mainVars, sharedVars, Others
    <2> QED
      BY <2>1, <2>2, <2>3, <2>4, <2>5
  <1>3. \/ stage[r] = "none" /\ stage'[r] = "mark" /\ toAsk' = toAsk
        \/ stage[r] = "lock" /\ stage'[r] = "ask" /\ source' = source /\ toAsk'[r] = Others(r)
        \/ stage[r] = "merge" /\ stage'[r] = "refresh" /\ toAsk' = toAsk
        \/ stage[r] = "unlock" /\ stage'[r] = "unmark"
        \/ stage[r] = "unmark" /\ stage'[r] = "none" /\ ~ mergeStarting'[r]
    BY DEF StartMerge, LockMerge, MergeSnapshots, UnlockMerge, UnmarkStarting,
       ProbeMergeRequest, dataVars, mainVars, handlerVars, sharedVars, TypeInv, TypeOK
  <1>4. pc[r] \in {"send", "autosend"} => pc'[r] = pc[r]
    <2>1. CASE StartMerge(r)
      BY <2>1 DEF StartMerge
    <2>2. CASE UnmarkStarting(r)
      BY <2>2 DEF UnmarkStarting, LockInv, LockTypes, Locks
    <2> QED
      BY <2>1, <2>2 DEF LockMerge, MergeSnapshots, UnlockMerge, ProbeMergeRequest, mainVars
  <1>5. \A p \in Ranks : \A q \in Others(p) : HasAsked(q, p)' => HasAsked(q, p)
    <2> TAKE p \in Ranks
    <2> TAKE q \in Others(p)
    <2>1. q \in Ranks /\ p \in Others(q)
      BY DEF Others
    <2>2. CASE q = r
      BY <1>2, <1>3, <2>1, <2>2 DEF HasAsked
    <2>3. CASE q # r
      BY <1>2, <2>1, <2>3 DEF HasAsked
    <2> QED
      BY <2>2, <2>3
  <1> QED
    BY <1>1, <1>2, <1>3, <1>4, <1>5, SeesFrame

\* A snapshot that arrives is stored as it was sent.
LEMMA ArrivalSees ==
  ASSUME TypeInv, EpochInv, SeesInv, NEW r \in Ranks, NEW q \in Others(r), HandleSnapshot(r, q)
  PROVE  SeesInv'
  <1> DEFINE s == net[q][r]
             m == Head(s)
  <1>1. /\ UNCHANGED <<merged, expected, files, unsent, pc, stage, source, level, toAsk,
                       mergeStarting>>
        /\ stage[r] = "none" /\ s # <<>> /\ ~ IsRequest(m)
        /\ net' = [net EXCEPT ![q][r] = Tail(s)]
        /\ receipts' = [receipts EXCEPT ![r][q][m.n] = m.content]
        /\ received' = [received EXCEPT ![r][q] = m.n]
    BY DEF HandleSnapshot, mainVars, handlerVars, IsRequest
  <1>2. q \in Ranks /\ q # r /\ s \in Seq(Sendable) /\ s[1] = m /\ m \in Sendable
    <2>1. s \in Seq(Sendable)
      BY DEF Others, TypeInv
    <2> QED
      BY <1>1, <2>1, Shortened DEF Others
  <1>3. /\ receipts \in [Ranks -> [Ranks -> [0 .. MaxSaves -> SUBSET Updates]]]
        /\ m.n \in 0 .. MaxSaves
    BY <1>1, <1>2 DEF TypeInv, TypeOK, Sendable
  <1> HIDE DEF m, s
  <1>4. /\ net'[q][r] = Tail(s) /\ \A x, y \in Ranks : x # q \/ y # r => net'[x][y] = net[x][y]
        /\ \A p \in Ranks : p # r => received'[p] = received[p]
    BY <1>1, <1>2 DEF TypeInv, TypeOK
  <1>5. receipts'[r][q] = Stored(receipts[r][q], m)
        /\ \A x, y \in Ranks : x # r \/ y # q => receipts'[x][y] = receipts[x][y]
    BY <1>1, <1>2, <1>3 DEF Stored
  <1>6. \A p, x \in Ranks : HasAsked(x, p)' = HasAsked(x, p)
    BY <1>1 DEF HasAsked
  <1>7. Carries(r, q)'
    <2>1. Carries(r, q)
      BY DEF SeesInv
    <2>2. ASSUME NEW j \in 1 .. Len(files[q]), ~ (r \in unsent[q] /\ j = Len(files[q]))
          PROVE  Arrives(net'[q][r], receipts'[r][q], j, files[q][j])
      <3>1. Arrives(s, receipts[r][q], j, files[q][j])
        BY <2>1, <2>2 DEF Carries, s
      <3>2. j \in 0 .. MaxSaves
        <4>1. /\ files[q] \in Seq(SUBSET Updates) /\ Len(files[q]) <= saves[q] /\ saves[q] <= MaxSaves
              /\ saves[q] \in Nat
          BY <1>2 DEF TypeInv, TypeOK, Sized
        <4> QED
          BY <4>1, ConstantsAssumption
      <3>3. receipts[r][q] \in [0 .. MaxSaves -> SUBSET Updates]
        BY <1>2, <1>3
      <3>4. Arrives(Tail(s), Stored(receipts[r][q], Head(s)), j, files[q][j])
        BY <1>1, <1>2, <3>1, <3>2, <3>3, ArrivesTail
      <3>5. m = Head(s)
        BY DEF m
      <3> QED
        BY <1>4, <1>5, <3>4, <3>5
    <2> QED
      BY <1>1, <2>2 DEF Carries
  <1>8. Told(r, q)'
    <2>1. Told(r, q)
      BY DEF SeesInv
    <2>2. \A i \in RequestsIn(Tail(s)) : i + 1 \in RequestsIn(s) /\ i \in 1 .. Len(s) - 1
      <3>1. /\ \A i \in Nat \ {0} : i \in RequestsIn(Tail(s)) <=> i + 1 \in RequestsIn(s)
            /\ RequestsIn(Tail(s)) \subseteq Nat \ {0}
        BY <1>1, <1>2, RequestsTail
      <3>2. Len(Tail(s)) = Len(s) - 1
        BY <1>1, <1>2, Shortened
      <3> QED
        BY <3>1, <3>2 DEF RequestsIn
    <2>3. \A i \in RequestsIn(Tail(s)) : Tail(s)[i] = s[i + 1]
      BY <1>1, <1>2, <2>2, Shortened
    <2>4. Closed(s) => Closed(Tail(s))
      BY <1>1, <1>2, ClosedTail
    <2>5. Done(q)' = Done(q) /\ Done(r)' = Done(r)
      BY <1>1 DEF Done
    <2>6. HasAsked(q, r)' = HasAsked(q, r)
      BY <1>2, <1>6
    <2>7. \A i \in RequestsIn(s) : Done(q) = Done(r) => s[i].n = Len(files[q]) + 2
      BY <2>1 DEF Told, s
    <2>8. Done(q) = Done(r) /\ HasAsked(q, r) => Closed(s)
      BY <2>1 DEF Told, s
    <2>9. Done(q) = Done(r) => \A i \in RequestsIn(Tail(s)) : Tail(s)[i].n = Len(files[q]) + 2
      BY <2>2, <2>3, <2>7
    <2>10. stage'[r] = "none" /\ expected'[r][q] = expected[r][q] /\ files'[q] = files[q]
      BY <1>1
    <2>11. Done(q) = Done(r) /\ expected[r][q] # -1 => expected[r][q] = Len(files[q])
      BY <2>1 DEF Told
    <2> QED
      BY <1>4, <2>4, <2>5, <2>6, <2>8, <2>9, <2>10, <2>11 DEF Told
  <1>9. ASSUME NEW p \in Ranks, NEW x \in Others(p) PROVE Carries(p, x)' /\ Told(p, x)'
    <2>1. x \in Ranks /\ Carries(p, x) /\ Told(p, x)
      BY DEF Others, SeesInv
    <2>2. CASE p = r /\ x = q
      BY <1>7, <1>8, <2>2
    <2>3. CASE p # r \/ x # q
      BY <1>1, <1>4, <1>5, <1>6, <2>1, <2>3, ToldFrame, CarriesFrame
    <2> QED
      BY <2>2, <2>3
  <1>10. \A p \in Ranks : stage'[p] = "merge" => received'[p] = expected'[p]
    BY <1>1, <1>4 DEF SeesInv
  <1> QED
    BY <1>1, <1>9, <1>10 DEF SeesInv

\* The level of a request is taken from its message, ...
LEMMA MarkSees ==
  ASSUME TypeInv, LockInv, EpochInv, SeesInv, NEW r \in Ranks, MarkStarting(r)
  PROVE  SeesInv'
  <1>0. PICK q \in Ranks : source[r] = q
    BY DEF TypeInv, TypeOK
  <1>1. /\ stage[r] = "mark" /\ mergeStarting' = [mergeStarting EXCEPT ![r] = TRUE]
        /\ stage' = [stage EXCEPT ![r] = IF mergeStarting[r] THEN "compare" ELSE "lock"]
        /\ \E n : level' = [level EXCEPT ![r] = n]
        /\ UNCHANGED <<merged, expected, received, receipts, source, toAsk, files, unsent, pc>>
    BY DEF MarkStarting, dataVars, mainVars
  <1>2. /\ mergeStarting'[r] /\ stage'[r] \in {"compare", "lock"}
        /\ stage'[r] = IF mergeStarting[r] THEN "compare" ELSE "lock"
        /\ \A p \in Ranks : p # r => /\ stage'[p] = stage[p] /\ level'[p] = level[p]
                                     /\ mergeStarting'[p] = mergeStarting[p]
    BY <1>1 DEF TypeInv, TypeOK
  <1>3. \A p, x \in Ranks : HasAsked(x, p)' => HasAsked(x, p)
    <2> TAKE p, x \in Ranks
    <2>1. CASE x = r
      BY <1>1, <1>2, <2>1 DEF HasAsked
    <2>2. CASE x # r
      BY <1>1, <1>2, <2>2 DEF HasAsked
    <2> QED
      BY <2>1, <2>2
  <1>4. \A p \in Ranks : stage'[p] = "merge" => received'[p] = expected'[p]
    BY <1>1, <1>2 DEF SeesInv
  <1>5. ASSUME q # r PROVE Carries(r, q)' /\ Told(r, q)'
    <2> DEFINE s == net[q][r]
    <2>1. /\ s # <<>> /\ IsRequest(Head(s)) /\ s \in Seq(Sendable) /\ s[1] = Head(s)
          /\ net'[q][r] = Tail(s) /\ level'[r] = Head(s).n
      <3>1. /\ s # <<>> /\ IsRequest(Head(s)) /\ s \in Seq(Sendable)
            /\ net' = [net EXCEPT ![q][r] = Tail(@)]
            /\ level' = [level EXCEPT ![r] = Head(s).n]
        BY <1>0, <1>1, <1>5 DEF TypeInv, Sized, MarkStarting
      <3>2. net'[q][r] = Tail(s) /\ level'[r] = Head(s).n
        BY <3>1 DEF TypeInv, TypeOK
      <3> QED
        BY <3>1, <3>2, Shortened
    <2>2. q \in Others(r) /\ Carries(r, q) /\ Told(r, q) /\ Channel(q, r)
      BY <1>5 DEF Others, SeesInv, EpochInv
    <2> HIDE DEF s
    <2>3. Stored(receipts[r][q], Head(s)) = receipts[r][q]
      BY <2>1 DEF Stored
    <2>4. Carries(r, q)'
      <3>1. ASSUME NEW j \in 1 .. Len(files[q]), ~ (r \in unsent[q] /\ j = Len(files[q]))
            PROVE  Arrives(net'[q][r], receipts[r][q], j, files[q][j])
        <4>1. Arrives(s, receipts[r][q], j, files[q][j])
          BY <2>2, <3>1 DEF Carries, s
        <4>2. j \in 0 .. MaxSaves
          <5>1. /\ files[q] \in Seq(SUBSET Updates) /\ Len(files[q]) <= saves[q]
                /\ saves[q] <= MaxSaves /\ saves[q] \in Nat
            BY DEF TypeInv, TypeOK, Sized
          <5> QED
            BY <5>1, ConstantsAssumption
        <4>3. receipts[r][q] \in [0 .. MaxSaves -> SUBSET Updates]
          BY SMTT(30) DEF TypeInv, TypeOK
        <4> QED
          BY <2>1, <2>3, <4>1, <4>2, <4>3, ArrivesTail
      <3> QED
        BY <1>1, <3>1 DEF Carries
    <2>5. RequestsIn(s) # {} /\ RequestsIn(Tail(s)) = {} /\ 1 \in RequestsIn(s)
      BY <2>1, <2>2, TailOfRequest, RequestsTail DEF Channel, s
    <2>6. Done(q)' = Done(q) /\ Done(r)' = Done(r)
      BY <1>1 DEF Done
    <2>7. ASSUME Done(q) = Done(r)
          PROVE  level'[r] = Len(files[q]) + 2
                 /\ (expected[r][q] # -1 => expected[r][q] = Len(files[q]))
                 /\ (HasAsked(q, r)' => Closed(Tail(s)))
      <3>1. HasAsked(q, r)' => HasAsked(q, r)
        BY <1>3
      <3>2. s[1].n = Len(files[q]) + 2 /\ (HasAsked(q, r) => Closed(s))
            /\ (expected[r][q] # -1 => expected[r][q] = Len(files[q]))
        BY <2>2, <2>5, <2>7 DEF Told, s
      <3> QED
        BY <2>1, <3>1, <3>2, ClosedTail
    <2>8. Told(r, q)'
      BY <1>1, <2>1, <2>5, <2>6, <2>7 DEF Told
    <2> QED
      BY <2>4, <2>8
  <1>6. \A x, y \in Ranks : x # q \/ y # r => net'[x][y] = net[x][y]
    BY <1>0 DEF MarkStarting, TypeInv
  <1>7. ASSUME NEW p \in Ranks, NEW x \in Others(p) PROVE Carries(p, x)' /\ Told(p, x)'
    <2>1. x \in Ranks /\ x # p /\ Carries(p, x) /\ Told(p, x)
      BY DEF Others, SeesInv
    <2>2. CASE p = r /\ x = q
      BY <1>5, <2>1, <2>2
    <2>3. CASE p # r \/ x # q
      <3>1. /\ net'[x][p] = net[x][p] /\ expected'[p][x] = expected[p][x]
            /\ HasAsked(x, p)' => HasAsked(x, p)
            /\ merged' = merged /\ files'[x] = files[x] /\ unsent'[x] = unsent[x]
            /\ receipts'[p][x] = receipts[p][x]
        BY <1>1, <1>3, <1>6, <2>1, <2>3
      <3>2. stage'[p] \in {"lock", "ask", "compare"} /\ source'[p] = x =>
              stage[p] \in {"lock", "ask", "compare"} /\ source[p] = x /\ level'[p] = level[p]
        BY <1>0, <1>1, <1>2, <2>3
      <3> QED
        BY <2>1, <3>1, <3>2, ToldFrame, CarriesFrame
    <2> QED
      BY <2>2, <2>3
  <1> QED
    BY <1>1, <1>4, <1>7 DEF SeesInv

\* ... which has the level of its sender, and ends the channel until the
\* sender has merged.
LEMMA AskSees ==
  ASSUME TypeInv, LockInv, EpochInv, SeesInv, NEW r \in Ranks, AskOthers(r)
  PROVE  SeesInv'
  <1>1. /\ stage[r] = "ask" /\ mergeStarting[r]
        /\ UNCHANGED <<merged, expected, received, receipts, source, level, mergeStarting, files,
                       unsent, pc, currentLevel>>
    BY DEF AskOthers, dataVars, mainVars, sharedVars, LockInv, Locks
  <1>2. CASE /\ toAsk[r] = {} /\ stage' = [stage EXCEPT ![r] = "compare"]
             /\ UNCHANGED <<net, toAsk>>
    <2>1. stage'[r] = "compare" /\ \A p \in Ranks : p # r => stage'[p] = stage[p]
      BY <1>2 DEF TypeInv, TypeOK
    <2>2. \A p \in Ranks : \A x \in Others(p) : HasAsked(x, p)' => HasAsked(x, p)
      BY <1>1, <1>2, <2>1 DEF HasAsked, Others
    <2> QED
      BY <1>1, <1>2, <2>1, <2>2, SeesFrame
  <1>3. ASSUME NEW q \in toAsk[r],
               net' = [net EXCEPT ![r][q] = Append(@, MergeRequest(currentLevel[r]))],
               toAsk' = [toAsk EXCEPT ![r] = @ \ {q}], UNCHANGED stage
        PROVE  SeesInv'
    <2> DEFINE m == MergeRequest(currentLevel[r])
    <2>1. m \in Sendable /\ q \in Ranks /\ IsRequest(m) /\ m.n = currentLevel[r]
      BY RequestSendable DEF TypeInv, TypeOK, Sized, MergeRequest, IsRequest
    <2>2. net' = [net EXCEPT ![r][q] = Append(@, m)]
      BY <1>3
    <2> HIDE DEF m
    <2>3. net[r][q] \in Seq(Sendable) /\ net'[r][q] = Append(net[r][q], m)
          /\ \A x, y \in Ranks : x # r \/ y # q => net'[x][y] = net[x][y]
      BY <2>1, <2>2 DEF TypeInv
    <2>4. toAsk'[r] = toAsk[r] \ {q} /\ \A p \in Ranks : p # r => toAsk'[p] = toAsk[p]
      BY <1>3 DEF TypeInv, TypeOK
    <2>5. /\ ~ HasAsked(r, q)
          /\ \A p, x \in Ranks : p # r \/ x # q => HasAsked(p, x)' = HasAsked(p, x)
      BY <1>1, <1>3, <2>4 DEF HasAsked
    <2>6. currentLevel[r] = Len(files[r]) + 2
      BY <1>1, Counts DEF EpochInv, Epochs, InMerge
    <2>7. ASSUME r \in Others(q) PROVE Carries(q, r)' /\ Told(q, r)'
      <3>1. Carries(q, r) /\ Told(q, r)
        BY <2>1, <2>7 DEF SeesInv
      <3>2. Carries(q, r)'
        <4>1. \A j : ~ IsSnapshot(m, j)
          BY <2>1 DEF IsSnapshot
        <4>2. \A j, c : Arrives(net[r][q], receipts[q][r], j, c)
                          => Arrives(net'[r][q], receipts[q][r], j, c)
          BY <2>1, <2>3, <4>1, ArrivesAppend
        <4> QED
          BY <1>1, <3>1, <4>2 DEF Carries
      <3>3. /\ Len(net'[r][q]) = Len(net[r][q]) + 1 /\ Len(net[r][q]) \in Nat
            /\ net'[r][q][Len(net[r][q]) + 1] = m
        BY <2>1, <2>3, Extended
      <3>4. Closed(net'[r][q])
        BY <2>1, <3>3 DEF Closed
      <3>5. ASSUME Done(r) = Done(q)
            PROVE  /\ ~ HasTaken(q, r)
                   /\ \A i \in RequestsIn(net'[r][q]) : net'[r][q][i].n = Len(files[r]) + 2
        <4>1. ~ HasTaken(q, r) /\ RequestsIn(net[r][q]) = {}
          BY <2>1, <2>5, <2>7, <3>5, TellsItself
        <4>2. RequestsIn(net'[r][q]) = {Len(net[r][q]) + 1}
          BY <2>1, <2>3, <4>1, RequestsAppend
        <4> QED
          BY <2>1, <2>6, <3>3, <4>1, <4>2
      <3>6. Done(r)' = Done(r) /\ Done(q)' = Done(q)
        BY <1>1 DEF Done
      <3>7. Told(q, r)'
        BY <1>1, <1>3, <3>4, <3>5, <3>6 DEF Told, HasTaken
      <3> QED
        BY <3>2, <3>7
    <2>8. ASSUME NEW p \in Ranks, NEW x \in Others(p) PROVE Carries(p, x)' /\ Told(p, x)'
      <3>1. x \in Ranks /\ Carries(p, x) /\ Told(p, x)
        BY DEF Others, SeesInv
      <3>2. CASE x = r /\ p = q
        BY <2>7, <3>2
      <3>3. CASE x # r \/ p # q
        BY <1>1, <1>3, <2>3, <2>5, <3>1, <3>3, ToldFrame, CarriesFrame
      <3> QED
        BY <3>2, <3>3
    <2>9. \A p \in Ranks : stage'[p] = "merge" => received'[p] = expected'[p]
      BY <1>1, <1>3 DEF SeesInv
    <2> QED
      BY <1>1, <2>8, <2>9 DEF SeesInv
  <1> QED
    BY <1>2, <1>3 DEF AskOthers

\* What is expected of a rank is what it told; a rank merges when it has
\* received as much from every rank.
LEMMA CompareSees ==
  ASSUME TypeInv, LockInv, EpochInv, SeesInv, NEW r \in Ranks, CompareLevels(r)
  PROVE  SeesInv'
  <1>0. PICK q \in Ranks : source[r] = q
    BY DEF TypeInv, TypeOK
  <1>1. /\ UNCHANGED <<merged, net, received, receipts, source, level, toAsk, mergeStarting,
                       files, unsent>>
        /\ stage[r] = "compare"
        /\ expected' = [expected EXCEPT ![r][q] = level[r] - 2]
        /\ stage' = [stage EXCEPT ![r] = IF received[r] = expected'[r] THEN "merge" ELSE "none"]
    <2>1. /\ UNCHANGED <<merged, net, received, receipts, source, level, toAsk, mergeStarting,
                         files, unsent>>
          /\ stage[r] = "compare"
          /\ stage' = [stage EXCEPT ![r] = IF received[r] = expected'[r] THEN "merge" ELSE "none"]
      BY DEF CompareLevels, dataVars
    <2>2. expected' = [expected EXCEPT ![r][q] = level[r] - 2]
      BY <1>0 DEF CompareLevels
    <2> QED
      BY <2>1, <2>2
  <1>2. /\ stage'[r] \in {"merge", "none"} /\ (stage'[r] = "merge" => received[r] = expected'[r])
        /\ \A p \in Ranks : p # r => stage'[p] = stage[p] /\ expected'[p] = expected[p]
    BY <1>1 DEF TypeInv, TypeOK
  <1>3. /\ expected'[r][q] = level[r] - 2
        /\ \A p, x \in Ranks : p # r \/ x # q => expected'[p][x] = expected[p][x]
    <2>1. expected \in [Ranks -> [Ranks -> -1 .. MaxSaves]]
      BY DEF TypeInv, TypeOK
    <2> QED
      BY <1>1, <2>1
  <1>4. \A p \in Ranks : unsent'[p] # {} => pc'[p] \in {"send", "autosend"}
    <2>1. /\ \A p \in Ranks : p # r => pc'[p] = pc[p]
          /\ pc'[r] # pc[r] => source[r] = r /\ stage[r] = "compare"
      BY DEF CompareLevels, TypeInv, TypeOK
    <2>2. pc[r] \in {"send", "autosend"} => pc'[r] = pc[r]
      BY <1>1, <2>1 DEF LockInv, LockTypes, Locks
    <2> QED
      BY <1>1, <2>1, <2>2 DEF SeesInv
  <1>5. \A p, x \in Ranks : HasAsked(x, p)' => HasAsked(x, p)
    BY <1>1, <1>2 DEF HasAsked
  <1>6. ASSUME NEW p \in Ranks, NEW x \in Others(p) PROVE Carries(p, x)' /\ Told(p, x)'
    <2>1. x \in Ranks /\ Carries(p, x) /\ Told(p, x)
      BY DEF Others, SeesInv
    <2>2. Carries(p, x)'
      BY <1>1, <2>1, CarriesFrame
    <2>3. CASE p = r /\ x = q
      <3>1. Done(q)' = Done(q) /\ Done(r)' = Done(r) /\ level[r] \in Int
        BY <1>1 DEF Done, TypeInv, TypeOK
      <3>2. ASSUME Done(q) = Done(r)
            PROVE  /\ \A i \in RequestsIn(net[q][r]) : net[q][r][i].n = Len(files[q]) + 2
                   /\ level[r] = Len(files[q]) + 2
                   /\ HasAsked(q, r) => Closed(net[q][r])
        BY <1>0, <1>1, <2>1, <2>3, <3>2 DEF Told
      <3>3. files[q] \in Seq(SUBSET Updates)
        BY DEF TypeInv, TypeOK
      <3>4. Done(q) = Done(r) => level[r] - 2 = Len(files[q])
        BY <3>2, <3>3
      <3>5. Told(r, q)'
        BY <1>1, <1>2, <1>3, <1>5, <3>1, <3>2, <3>4 DEF Told
      <3> QED
        BY <2>2, <2>3, <3>5
    <2>4. CASE p # r \/ x # q
      <3>1. stage'[p] \in {"lock", "ask", "compare"} /\ source'[p] = x =>
              stage[p] \in {"lock", "ask", "compare"} /\ source[p] = x /\ level'[p] = level[p]
        BY <1>1, <1>2
      <3> QED
        BY <1>1, <1>3, <1>5, <2>1, <2>2, <2>4, <3>1, ToldFrame
    <2> QED
      BY <2>3, <2>4
  <1>7. \A p \in Ranks : stage'[p] = "merge" => received'[p] = expected'[p]
    BY <1>1, <1>2 DEF SeesInv
  <1> QED
    BY <1>4, <1>6, <1>7 DEF SeesInv

\* A rank that has merged has no snapshot, and what was told of it is of the
\* merge that is over.
LEMMA RefreshSees ==
  ASSUME TypeInv, LockInv, EpochInv, SeesInv, NEW r \in Ranks, Refresh(r), TypeInv', EpochInv'
  PROVE  SeesInv'
  <1>1. /\ stage[r] = "refresh" /\ stage' = [stage EXCEPT ![r] = "unlock"]
        /\ merged' = [merged EXCEPT ![r] = Append(@, newBase[r])]
        /\ expected' = [expected EXCEPT ![r] = NobodyHeard(r)]
        /\ received' = [received EXCEPT ![r] = NothingReceived]
        /\ files' = [files EXCEPT ![r] = <<>>]
        /\ UNCHANGED <<net, receipts, source, level, toAsk, mergeStarting, unsent, pc>>
    BY DEF Refresh, mainVars
  <1>2. /\ stage'[r] = "unlock" /\ expected'[r] = NobodyHeard(r) /\ files'[r] = <<>>
        /\ \A p \in Ranks : p # r => /\ stage'[p] = stage[p] /\ expected'[p] = expected[p]
                                     /\ files'[p] = files[p] /\ merged'[p] = merged[p]
                                     /\ received'[p] = received[p]
    BY <1>1 DEF TypeInv, TypeOK
  <1>3. /\ Done(r)' = Done(r) + 1 /\ Done(r) \in Nat
        /\ \A p \in Ranks : p # r => Done(p)' = Done(p)
    <2>1. merged[r] \in Seq(SUBSET Updates) /\ newBase[r] \in SUBSET Updates
      BY DEF TypeInv, TypeOK
    <2>2. merged'[r] = Append(merged[r], newBase[r])
      BY <1>1 DEF TypeInv, TypeOK
    <2> QED
      BY <1>2, <2>1, <2>2, Extended DEF Done
  <1>4. \A p \in Ranks : Begun(p) = Done(r) + 1
    BY <1>1, MergersBegun
  <1>5. \A p \in Ranks : p # r => Begun(p)' = Begun(p)
    BY <1>1, <1>2, <1>3 DEF Begun, InMerge
  <1>6. Begun(r)' = Done(r)'
    <2>1. ~ InMerge(r)'
      BY <1>2 DEF InMerge
    <2> QED
      BY <1>3, <2>1 DEF Begun
  <1>7. ASSUME NEW p \in Ranks, NEW q \in Others(p), p = r \/ q = r, Done(q)' = Done(p)'
        PROVE  ~ HasTaken(p, q)' /\ RequestsIn(net'[q][p]) = {} /\ ~ HasAsked(q, p)'
    <2>1. q \in Ranks /\ Channel(q, p)'
      BY DEF Others, EpochInv
    <2>2. Begun(q)' = Done(p)' /\ Begun(q)' = Done(q)'
      BY <1>3, <1>4, <1>5, <1>6, <1>7, <2>1
    <2>3. /\ Done(q)' \in Nat /\ Asked(q, p)' <= Begun(q)'
          /\ Asked(q, p)' = IF HasAsked(q, p)' THEN Done(q)' + 1 ELSE Done(q)'
          /\ Taken(p, q)' = IF HasTaken(p, q)' THEN Done(p)' + 1 ELSE Done(p)'
      <3>1. Done(q)' \in Nat /\ Done(p)' \in Nat
        BY <1>3, <2>1, Counts
      <3>2. HasAsked(q, p)' => InMerge(q)'
        BY DEF HasAsked, InMerge
      <3> QED
        BY <3>1, <3>2 DEF Asked, Taken, Begun
    <2>4. Asked(q, p)' = IF RequestsIn(net'[q][p]) = {} THEN Taken(p, q)' ELSE Taken(p, q)' + 1
      BY <1>7, <2>1, <2>3 DEF Channel
    <2> QED
      BY <1>7, <2>2, <2>3, <2>4
  <1>8. ASSUME NEW p \in Ranks, NEW q \in Others(p) PROVE Carries(p, q)' /\ Told(p, q)'
    <2>1. q \in Ranks /\ q # p /\ Carries(p, q) /\ Told(p, q)
      BY DEF Others, SeesInv
    <2>2. Carries(p, q)'
      <3>1. CASE q = r
        <4>1. Len(files'[r]) = 0
          BY <1>2, EmptySeq
        <4> QED
          BY <3>1, <4>1 DEF Carries
      <3>2. CASE q # r
        BY <1>1, <1>2, <2>1, <3>2, CarriesFrame
      <3> QED
        BY <3>1, <3>2
    <2>3. CASE p = r \/ q = r
      <3>1. Done(q)' = Done(p)' => /\ RequestsIn(net'[q][p]) = {} /\ ~ HasAsked(q, p)'
                                   /\ expected'[p][q] = -1
                                   /\ ~ (stage'[p] \in {"lock", "ask", "compare"} /\ source'[p] = q)
        BY <1>7, <2>3 DEF HasTaken
      <3>2. Told(p, q)'
        BY <3>1 DEF Told
      <3> QED
        BY <2>2, <3>2
    <2>4. CASE p # r /\ q # r
      <3>1. /\ Done(q)' = Done(q) /\ Done(p)' = Done(p) /\ HasAsked(q, p)' = HasAsked(q, p)
            /\ net'[q][p] = net[q][p] /\ expected'[p][q] = expected[p][q] /\ files'[q] = files[q]
            /\ stage'[p] = stage[p] /\ source'[p] = source[p] /\ level'[p] = level[p]
        BY <1>1, <1>2, <1>3, <2>1, <2>4 DEF HasAsked
      <3>2. Told(p, q)'
        BY <2>1, <3>1 DEF Told
      <3> QED
        BY <2>2, <3>2
    <2> QED
      BY <2>3, <2>4
  <1>9. \A p \in Ranks : stage'[p] = "merge" => received'[p] = expected'[p]
    BY <1>2 DEF SeesInv
  <1> QED
    BY <1>1, <1>8, <1>9 DEF SeesInv

LEMMA SeesStep ==
  ASSUME TypeInv, LockInv, EpochInv, SeesInv, [Next]_vars, TypeInv', EpochInv'
  PROVE  SeesInv'
  <1>1. CASE UNCHANGED vars
    <2>1. 0 \in Ranks
      BY ConstantsAssumption DEF Ranks
    <2> QED
      BY <1>1, <2>1, CheckpointSees
  <1>2. ASSUME NEW r \in Ranks,
               Update(r) \/ AskCheckpoint(r) \/ StartMerge(r) \/ CheckpointStep(r) \/ ListenerStep(r)
        PROVE  SeesInv'
    BY <1>2, CheckpointSees, SaveSees, SendSees, StageSees, ArrivalSees
       DEF CheckpointStep, ListenerStep
  <1>3. ASSUME NEW r \in Ranks, HandlerStep(r) PROVE SeesInv'
    BY <1>3, MarkSees, AskSees, CompareSees, RefreshSees, StageSees DEF HandlerStep
  <1> QED
    BY <1>1, <1>2, <1>3 DEF Next, Work

LEMMA SeesKept == ASSUME Fresh PROVE Spec => [](TypeInv /\ LockInv /\ EpochInv /\ SeesInv)
  <1>1. /\ TypeInv /\ LockInv /\ EpochInv /\ SeesInv /\ [Next]_vars
        => TypeInv' /\ LockInv' /\ EpochInv' /\ SeesInv'
    BY TypeStep, LockStep, EpochStep, SeesStep
  <1> QED
    BY <1>1, TypeInit, LockInit, EpochInit, SeesInit, PTL DEF Spec

(***************************************************************************)
(* What a rank announced in its request is all it has when the others      *)
(* merge: it writes and sends nothing between its request and its own      *)
(* merge, its channel keeps the snapshots before the request, and nobody   *)
(* goes by an announcement of an earlier merge (snapshot_merger.cpp:       *)
(* 111-113, dllama.cpp:180).                                               *)
(***************************************************************************)
THEOREM MergesSee == ASSUME Fresh PROVE Spec => []MergeSeesAll
  <1>1. TypeInv /\ LockInv /\ EpochInv /\ SeesInv => MergeSeesAll
    <2> SUFFICES ASSUME TypeInv, LockInv, EpochInv, SeesInv,
                        NEW r \in Ranks, stage[r] = "merge",
                        NEW q \in Others(r), Len(merged[q]) = Len(merged[r])
                 PROVE  /\ received[r][q] = Len(files[q])
                        /\ \A k \in DOMAIN files[q] : receipts[r][q][k] = files[q][k]
      BY DEF MergeSeesAll
    <2>1. /\ q \in Ranks /\ Carries(r, q) /\ Told(r, q) /\ Done(q) = Done(r)
          /\ received[r] = expected[r] /\ expected[r][q] # -1
      BY DEF Others, SeesInv, EpochInv, Gathered, Done
    <2>2. net[q][r] = <<>> /\ HasAsked(q, r)
      BY <2>1, TakenAll
    <2>3. unsent[q] = {}
      BY <2>1, <2>2, AskedIsQuiet DEF SeesInv
    <2>4. received[r][q] = Len(files[q])
      BY <2>1 DEF Told
    <2>5. DOMAIN files[q] = 1 .. Len(files[q])
      BY <2>1, LenProperties DEF TypeInv, TypeOK
    <2>6. ASSUME NEW k \in 1 .. Len(files[q]) PROVE receipts[r][q][k] = files[q][k]
      <3>1. Arrives(net[q][r], receipts[r][q], k, files[q][k])
        BY <2>1, <2>3 DEF Carries
      <3> QED
        BY <2>2, <3>1, EmptySeq DEF Arrives
    <2> QED
      BY <2>4, <2>5, <2>6
  <1> QED
    BY <1>1, SeesKept, PTL

(***************************************************************************)
(* Agreement.  Between the barriers every rank is brought the snapshots of *)
(* all others as they were when the merge began, also of those that have   *)
(* merged already and have no files any more: all make the same level 0.   *)
(***************************************************************************)

\* l is the number of the last snapshot once the messages of s are handled.
Newest(s, n, l) ==
    \/ l = n /\ \A i \in 1 .. Len(s) : IsRequest(s[i])
    \/ \E i \in 1 .. Len(s) : /\ ~ IsRequest(s[i]) /\ s[i].n = l
                              /\ \A k \in i + 1 .. Len(s) : IsRequest(s[k])

\* r will have the snapshots g of x.
Brings(r, x, g) ==
    /\ Len(g) \in 0 .. MaxSaves
    /\ Newest(net[x][r], received[r][x], Len(g))
    /\ \A j \in 1 .. Len(g) : Arrives(net[x][r], receipts[r][x], j, g[j])

Calm == NoMerge \/ \A r \in Ranks : pc[r] \in {"idle", "merge"}

Synced(r, x) ==
    /\ Done(r) = Done(x) /\ r \notin unsent[x] =>
          Newest(net[x][r], received[r][x], Len(files[x]))
    /\ Done(r) = Done(x) + 1 =>
          received[r][x] = 0 /\ \A i \in 1 .. Len(net[x][r]) : IsRequest(net[x][r][i])
    /\ Done(x) = Done(r) + 1 => files[x] = <<>> /\ Closed(net[x][r])

SyncInv == Calm /\ \A r \in Ranks : \A x \in Others(r) : Synced(r, x)

\* The level 0 that merges level 0 b and the snapshots g[x] of every rank x.
WholeOf(b, g) == b \cup UNION {Contents(g[x], DOMAIN g[x]) : x \in Ranks}

\* What r will merge is what p has merged.
Follows(p, r) ==
    \E g \in [Ranks -> Seq(SUBSET Updates)] :
        /\ g[r] = files[r] /\ \A x \in Others(r) : Brings(r, x, g[x])
        /\ base[p] = WholeOf(base[r], g)

Makes(p) ==
    /\ (\A q \in Ranks : Done(q) = Done(p)) => newBase[p] = WholeOf(base[p], files)
    /\ \A q \in Ranks : Done(q) = Done(p) + 1 => newBase[p] = base[q]

AgreeInv ==
    /\ \A r \in Ranks : Done(r) > 0 => merged[r][Done(r)] = base[r]
    /\ MergesAgree
    /\ \A p, q \in Ranks : Done(p) = Done(q) => base[p] = base[q]
    /\ \A p, r \in Ranks : Done(p) = Done(r) + 1 => Follows(p, r)
    /\ \A p \in Ranks : stage[p] = "refresh" => Makes(p)

LEMMA NewestAppend ==
  ASSUME NEW s \in Seq(Sendable), NEW m \in Sendable, NEW n, NEW l
  PROVE  /\ ~ IsRequest(m) => Newest(Append(s, m), n, m.n)
         /\ IsRequest(m) /\ Newest(s, n, l) => Newest(Append(s, m), n, l)
  <1> DEFINE t == Append(s, m)
  <1>1. /\ Len(t) = Len(s) + 1 /\ Len(s) \in Nat
        /\ \A i \in 1 .. Len(s) : t[i] = s[i]
        /\ t[Len(s) + 1] = m
    BY Extended
  <1> HIDE DEF t
  <1>2. ASSUME ~ IsRequest(m) PROVE Newest(t, n, m.n)
    <2>1. Len(s) + 1 \in 1 .. Len(t) /\ Len(s) + 1 + 1 .. Len(t) = {}
      BY <1>1
    <2> QED
      BY <1>1, <1>2, <2>1 DEF Newest
  <1>3. ASSUME IsRequest(m), Newest(s, n, l) PROVE Newest(t, n, l)
    <2>1. \A i \in 1 .. Len(t) : i \in 1 .. Len(s) \/ i = Len(s) + 1
      BY <1>1
    <2>2. CASE l = n /\ \A i \in 1 .. Len(s) : IsRequest(s[i])
      BY <1>1, <1>3, <2>1, <2>2 DEF Newest
    <2>3. ASSUME NEW i \in 1 .. Len(s), ~ IsRequest(s[i]), s[i].n = l,
                 \A k \in i + 1 .. Len(s) : IsRequest(s[k])
          PROVE  Newest(t, n, l)
      <3>1. i \in 1 .. Len(t) /\ t[i] = s[i]
        BY <1>1
      <3>2. ASSUME NEW k \in i + 1 .. Len(t) PROVE IsRequest(t[k])
        <4>1. k \in i + 1 .. Len(s) \/ k = Len(s) + 1
          BY <1>1
        <4>2. i + 1 .. Len(s) \subseteq 1 .. Len(s)
          BY <1>1
        <4> QED
          BY <1>1, <1>3, <2>3, <4>1, <4>2
      <3> QED
        BY <2>3, <3>1, <3>2 DEF Newest
    <2> QED
      BY <1>3, <2>2, <2>3 DEF Newest
  <1> QED
    BY <1>2, <1>3 DEF t

LEMMA NewestTail ==
  ASSUME NEW s \in Seq(Sendable), s # <<>>, NEW n, NEW l, Newest(s, n, l)
  PROVE  Newest(Tail(s), IF IsRequest(Head(s)) THEN n ELSE Head(s).n, l)
  <1> DEFINE t == Tail(s)
             o == IF IsRequest(Head(s)) THEN n ELSE Head(s).n
  <1>1. /\ Head(s) = s[1] /\ Len(s) \in Nat \ {0} /\ Len(t) = Len(s) - 1
        /\ \A i \in 1 .. Len(s) - 1 : t[i] = s[i + 1]
    BY Shortened
  <1>2. o = IF IsRequest(s[1]) THEN n ELSE s[1].n
    BY <1>1
  <1> HIDE DEF t, o
  <1>3. 1 \in 1 .. Len(s) /\ \A i \in 1 .. Len(t) : i + 1 \in 1 .. Len(s) /\ t[i] = s[i + 1]
    BY <1>1
  <1>4. ASSUME l = n, \A i \in 1 .. Len(s) : IsRequest(s[i]) PROVE Newest(t, o, l)
    BY <1>2, <1>3, <1>4 DEF Newest
  <1>5. ASSUME NEW i \in 1 .. Len(s), ~ IsRequest(s[i]), s[i].n = l,
               \A k \in i + 1 .. Len(s) : IsRequest(s[k])
        PROVE  Newest(t, o, l)
    <2>1. CASE i = 1
      <3>1. \A k \in 1 .. Len(t) : k + 1 \in i + 1 .. Len(s)
        BY <1>1, <2>1
      <3> QED
        BY <1>2, <1>3, <1>5, <2>1, <3>1 DEF Newest
    <2>2. CASE i # 1
      <3>1. i - 1 \in 1 .. Len(t) /\ i - 1 + 1 = i
        BY <1>1, <2>2
      <3>2. \A k \in i - 1 + 1 .. Len(t) : k \in 1 .. Len(t) /\ k + 1 \in i + 1 .. Len(s)
        BY <1>1, <2>2
      <3> QED
        BY <1>3, <1>5, <3>1, <3>2 DEF Newest
    <2> QED
      BY <2>1, <2>2
  <1>6. Newest(t, o, l)
    BY <1>4, <1>5 DEF Newest
  <1> QED
    BY <1>6 DEF t, o

(***************************************************************************)
(* What a step of a merge does to a channel and its receiver: nothing, or  *)
(* its first message is handled, or a request is added.                    *)
(***************************************************************************)
Moves(r, x) ==
    LET s == net[x][r] IN
    \/ net'[x][r] = s /\ receipts'[r][x] = receipts[r][x] /\ received'[r][x] = received[r][x]
    \/ /\ s # <<>> /\ net'[x][r] = Tail(s) /\ receipts'[r][x] = Stored(receipts[r][x], Head(s))
       /\ received'[r][x] = IF IsRequest(Head(s)) THEN received[r][x] ELSE Head(s).n
    \/ /\ \E m \in Sendable : IsRequest(m) /\ net'[x][r] = Append(s, m)
       /\ receipts'[r][x] = receipts[r][x] /\ received'[r][x] = received[r][x]

LEMMA NewestMoves ==
  ASSUME TypeInv, NEW r \in Ranks, NEW x \in Ranks, Moves(r, x), NEW l,
         Newest(net[x][r], received[r][x], l)
  PROVE  Newest(net'[x][r], received'[r][x], l)
  <1> DEFINE s == net[x][r]
  <1>1. s \in Seq(Sendable)
    BY DEF TypeInv
  <1> HIDE DEF s
  <1>2. CASE net'[x][r] = s /\ received'[r][x] = received[r][x]
    BY <1>2 DEF s
  <1>3. CASE /\ s # <<>> /\ net'[x][r] = Tail(s)
             /\ received'[r][x] = IF IsRequest(Head(s)) THEN received[r][x] ELSE Head(s).n
    <2>1. Newest(s, received[r][x], l)
      BY DEF s
    <2>2. Newest(Tail(s), IF IsRequest(Head(s)) THEN received[r][x] ELSE Head(s).n, l)
      BY <1>1, <1>3, <2>1, NewestTail
    <2> QED
      BY <1>3, <2>2
  <1>4. ASSUME NEW m \in Sendable, IsRequest(m), net'[x][r] = Append(s, m),
               received'[r][x] = received[r][x]
        PROVE  Newest(net'[x][r], received'[r][x], l)
    <2>1. Newest(s, received[r][x], l)
      BY DEF s
    <2>2. Newest(Append(s, m), received[r][x], l)
      BY <1>1, <1>4, <2>1, NewestAppend
    <2> QED
      BY <1>4, <2>2
  <1> QED
    BY <1>2, <1>3, <1>4 DEF Moves, s

LEMMA ArrivesMoves ==
  ASSUME TypeInv, NEW r \in Ranks, NEW x \in Ranks, Moves(r, x), NEW j \in 0 .. MaxSaves, NEW c,
         Arrives(net[x][r], receipts[r][x], j, c)
  PROVE  Arrives(net'[x][r], receipts'[r][x], j, c)
  <1> DEFINE s == net[x][r]
             f == receipts[r][x]
  <1>1. s \in Seq(Sendable) /\ f \in [0 .. MaxSaves -> SUBSET Updates] /\ Arrives(s, f, j, c)
    BY SMTT(30) DEF TypeInv, TypeOK
  <1> HIDE DEF s, f
  <1>2. CASE net'[x][r] = s /\ receipts'[r][x] = f
    BY <1>1, <1>2
  <1>3. CASE s # <<>> /\ net'[x][r] = Tail(s) /\ receipts'[r][x] = Stored(f, Head(s))
    <2>1. Arrives(Tail(s), Stored(f, Head(s)), j, c)
      BY <1>1, <1>3, ArrivesTail
    <2> QED
      BY <1>3, <2>1
  <1>4. ASSUME NEW m \in Sendable, IsRequest(m), net'[x][r] = Append(s, m), receipts'[r][x] = f
        PROVE  Arrives(net'[x][r], receipts'[r][x], j, c)
    <2>1. ~ IsSnapshot(m, j)
      BY <1>4 DEF IsSnapshot
    <2>2. Arrives(Append(s, m), f, j, c)
      BY <1>1, <2>1, ArrivesAppend
    <2> QED
      BY <1>4, <2>2
  <1> QED
    BY <1>2, <1>3, <1>4 DEF Moves, s, f

LEMMA BringsMoves ==
  ASSUME TypeInv, NEW r \in Ranks, NEW x \in Ranks, Moves(r, x), NEW g, Brings(r, x, g)
  PROVE  Brings(r, x, g)'
  <1>1. Len(g) \in 0 .. MaxSaves /\ \A j \in 1 .. Len(g) : j \in 0 .. MaxSaves
    BY ConstantsAssumption DEF Brings
  <1>2. Newest(net'[x][r], received'[r][x], Len(g))
    BY NewestMoves DEF Brings
  <1>3. \A j \in 1 .. Len(g) : Arrives(net'[x][r], receipts'[r][x], j, g[j])
    BY <1>1, ArrivesMoves DEF Brings
  <1> QED
    BY <1>1, <1>2, <1>3 DEF Brings

LEMMA ClosedMoves ==
  ASSUME TypeInv, NEW r \in Ranks, NEW x \in Ranks, Moves(r, x), Closed(net[x][r])
  PROVE  Closed(net'[x][r])
  <1> DEFINE s == net[x][r]
  <1>1. s \in Seq(Sendable) /\ Closed(s)
    BY DEF TypeInv
  <1> HIDE DEF s
  <1>2. CASE net'[x][r] = s
    BY <1>1, <1>2
  <1>3. CASE s # <<>> /\ net'[x][r] = Tail(s)
    <2>1. Closed(Tail(s))
      BY <1>1, <1>3, ClosedTail
    <2> QED
      BY <1>3, <2>1
  <1>4. ASSUME NEW m \in Sendable, IsRequest(m), net'[x][r] = Append(s, m)
        PROVE  Closed(net'[x][r])
    <2>1. Len(Append(s, m)) = Len(s) + 1 /\ Append(s, m)[Len(s) + 1] = m
      BY <1>1, Extended
    <2>2. Closed(Append(s, m))
      BY <1>4, <2>1 DEF Closed
    <2> QED
      BY <1>4, <2>2
  <1> QED
    BY <1>2, <1>3, <1>4 DEF Moves, s

LEMMA RequestsMove ==
  ASSUME TypeInv, NEW r \in Ranks, NEW x \in Ranks, Moves(r, x),
         \A i \in 1 .. Len(net[x][r]) : IsRequest(net[x][r][i])
  PROVE  /\ \A i \in 1 .. Len(net'[x][r]) : IsRequest(net'[x][r][i])
         /\ received'[r][x] = received[r][x]
  <1> DEFINE s == net[x][r]
             All(t) == \A i \in 1 .. Len(t) : IsRequest(t[i])
  <1>1. s \in Seq(Sendable) /\ All(s)
    BY DEF TypeInv
  <1> HIDE DEF s
  <1>2. CASE net'[x][r] = s /\ received'[r][x] = received[r][x]
    BY <1>1, <1>2
  <1>3. CASE /\ s # <<>> /\ net'[x][r] = Tail(s)
             /\ received'[r][x] = IF IsRequest(Head(s)) THEN received[r][x] ELSE Head(s).n
    <2>1. /\ Head(s) = s[1] /\ Len(s) \in Nat \ {0} /\ Len(Tail(s)) = Len(s) - 1
          /\ \A i \in 1 .. Len(s) - 1 : Tail(s)[i] = s[i + 1]
      BY <1>1, <1>3, Shortened
    <2>2. 1 \in 1 .. Len(s) /\ \A i \in 1 .. Len(s) - 1 : i + 1 \in 1 .. Len(s)
      BY <2>1
    <2>3. All(Tail(s)) /\ IsRequest(Head(s))
      BY <1>1, <2>1, <2>2
    <2> QED
      BY <1>3, <2>3
  <1>4. ASSUME NEW m \in Sendable, IsRequest(m), net'[x][r] = Append(s, m),
               received'[r][x] = received[r][x]
        PROVE  All(net'[x][r]) /\ received'[r][x] = received[r][x]
    <2>1. /\ Len(Append(s, m)) = Len(s) + 1 /\ Len(s) \in Nat
          /\ \A i \in 1 .. Len(s) : Append(s, m)[i] = s[i]
          /\ Append(s, m)[Len(s) + 1] = m
      BY <1>1, Extended
    <2>2. \A i \in 1 .. Len(s) + 1 : i \in 1 .. Len(s) \/ i = Len(s) + 1
      BY <2>1
    <2>3. All(Append(s, m))
      BY <1>1, <1>4, <2>1, <2>2
    <2> QED
      BY <1>4, <2>3
  <1> QED
    BY <1>2, <1>3, <1>4 DEF Moves, s

\* The steps of a merge before its end.
MergeStep(r) ==
    \/ StartMerge(r) \/ ListenerStep(r) \/ MarkStarting(r) \/ LockMerge(r) \/ AskOthers(r)
    \/ CompareLevels(r) \/ MergeSnapshots(r) \/ UnlockMerge(r) \/ UnmarkStarting(r)

LEMMA MergeMoves ==
  ASSUME TypeInv, NEW r \in Ranks, MergeStep(r)
  PROVE  /\ UNCHANGED <<merged, files, unsent, base>>
         /\ \A p \in Ranks : \A x \in Others(p) : Moves(p, x)
  <1>1. CASE \/ StartMerge(r) \/ LockMerge(r) \/ CompareLevels(r) \/ UnlockMerge(r)
             \/ UnmarkStarting(r) \/ \E q \in Others(r) : ProbeMergeRequest(r, q)
    <2>1. UNCHANGED <<merged, files, unsent, base, net, receipts, received>>
      BY <1>1 DEF StartMerge, LockMerge, CompareLevels, UnlockMerge, UnmarkStarting,
         ProbeMergeRequest, dataVars, mainVars, sharedVars
    <2> QED
      BY <2>1 DEF Moves
  <1>2. CASE MergeSnapshots(r)
    <2>1. UNCHANGED <<merged, files, unsent, base, net, receipts>>
          /\ received' = [received EXCEPT ![r][r] = currentLevel[r] - 2]
      BY <1>2 DEF MergeSnapshots, dataVars, mainVars
    <2>2. \A p \in Ranks : \A x \in Others(p) : received'[p][x] = received[p][x]
      BY <2>1 DEF TypeInv, TypeOK, Others
    <2> QED
      BY <2>1, <2>2 DEF Moves
  <1>3. ASSUME NEW q \in Others(r), HandleSnapshot(r, q)
        PROVE  /\ UNCHANGED <<merged, files, unsent, base>>
               /\ \A p \in Ranks : \A x \in Others(p) : Moves(p, x)
    <2> DEFINE s == net[q][r]
               m == Head(s)
    <2>1. /\ UNCHANGED <<merged, files, unsent, base>> /\ s # <<>> /\ ~ IsRequest(m)
          /\ net' = [net EXCEPT ![q][r] = Tail(s)]
          /\ receipts' = [receipts EXCEPT ![r][q][m.n] = m.content]
          /\ received' = [received EXCEPT ![r][q] = m.n]
      BY <1>3 DEF HandleSnapshot, mainVars, IsRequest
    <2>2. q \in Ranks /\ s \in Seq(Sendable) /\ m \in Sendable
      <3>1. s \in Seq(Sendable)
        BY DEF Others, TypeInv
      <3> QED
        BY <2>1, <3>1, Shortened DEF Others
    <2>3. /\ net'[q][r] = Tail(s) /\ \A x, y \in Ranks : x # q \/ y # r => net'[x][y] = net[x][y]
          /\ received'[r][q] = m.n
          /\ \A x, y \in Ranks : x # r \/ y # q => received'[x][y] = received[x][y]
      <3> HIDE DEF m, s
      <3> QED
        BY <2>1, <2>2 DEF TypeInv, TypeOK
    <2>4. /\ receipts'[r][q] = Stored(receipts[r][q], m)
          /\ \A x, y \in Ranks : x # r \/ y # q => receipts'[x][y] = receipts[x][y]
      <3>1. /\ receipts \in [Ranks -> [Ranks -> [0 .. MaxSaves -> SUBSET Updates]]]
            /\ m.n \in 0 .. MaxSaves
        BY <2>1, <2>2 DEF TypeInv, TypeOK, Sendable
      <3> HIDE DEF m, s
      <3> QED
        BY <2>1, <2>2, <3>1 DEF Stored
    <2>5. Moves(r, q)
      BY <2>1, <2>3, <2>4 DEF Moves
    <2>6. ASSUME NEW p \in Ranks, NEW x \in Others(p), p # r \/ x # q PROVE Moves(p, x)
      <3>1. x \in Ranks
        BY DEF Others
      <3> QED
        BY <2>3, <2>4, <2>6, <3>1 DEF Moves
    <2> QED
      BY <2>1, <2>5, <2>6
  <1>4. CASE MarkStarting(r)
    <2>1. PICK q \in Ranks : source[r] = q
      BY DEF TypeInv, TypeOK
    <2>2. UNCHANGED <<merged, files, unsent, base, receipts, received>>
      BY <1>4 DEF MarkStarting, dataVars, mainVars
    <2>3. CASE q = r
      BY <1>4, <2>1, <2>2, <2>3 DEF MarkStarting, Moves
    <2>4. CASE q # r
      <3> DEFINE s == net[q][r]
      <3>1. s # <<>> /\ IsRequest(Head(s)) /\ net' = [net EXCEPT ![q][r] = Tail(@)]
        BY <1>4, <2>1, <2>4 DEF TypeInv, Sized, MarkStarting
      <3>2. net'[q][r] = Tail(s) /\ \A x, y \in Ranks : x # q \/ y # r => net'[x][y] = net[x][y]
        BY <3>1 DEF TypeInv
      <3>3. Moves(r, q)
        BY <2>2, <3>1, <3>2 DEF Moves, Stored
      <3>4. ASSUME NEW p \in Ranks, NEW x \in Others(p), p # r \/ x # q PROVE Moves(p, x)
        <4>1. x \in Ranks
          BY DEF Others
        <4> QED
          BY <2>2, <3>2, <3>4, <4>1 DEF Moves
      <3> QED
        BY <2>2, <3>3, <3>4
    <2> QED
      BY <2>3, <2>4
  <1>5. CASE AskOthers(r)
    <2>1. UNCHANGED <<merged, files, unsent, base, receipts, received>>
      BY <1>5 DEF AskOthers, dataVars, mainVars, sharedVars
    <2>2. CASE UNCHANGED net
      BY <2>1, <2>2 DEF Moves
    <2>3. ASSUME NEW q \in toAsk[r],
                 net' = [net EXCEPT ![r][q] = Append(@, MergeRequest(currentLevel[r]))]
          PROVE  \A p \in Ranks : \A x \in Others(p) : Moves(p, x)
      <3> DEFINE m == MergeRequest(currentLevel[r])
      <3>1. m \in Sendable /\ q \in Ranks /\ IsRequest(m)
        BY RequestSendable DEF TypeInv, TypeOK, Sized, MergeRequest, IsRequest
      <3>2. net' = [net EXCEPT ![r][q] = Append(@, m)]
        BY <2>3
      <3> HIDE DEF m
      <3>3. net'[r][q] = Append(net[r][q], m)
            /\ \A x, y \in Ranks : x # r \/ y # q => net'[x][y] = net[x][y]
        BY <3>1, <3>2 DEF TypeInv
      <3>4. ASSUME NEW p \in Ranks, NEW x \in Others(p) PROVE Moves(p, x)
        <4>1. x \in Ranks
          BY DEF Others
        <4> QED
          BY <2>1, <3>1, <3>3, <4>1 DEF Moves
      <3> QED
        BY <3>4
    <2> QED
      BY <1>5, <2>1, <2>2, <2>3 DEF AskOthers
  <1> QED
    BY <1>1, <1>2, <1>3, <1>4, <1>5 DEF MergeStep, ListenerStep

\* Nobody checkpoints while a merge is under way at some rank.
LEMMA CalmStep ==
  ASSUME Barrier, TypeInv, LockInv, EpochInv, Calm, [Next]_vars
  PROVE  Calm'
  <1>1. CASE UNCHANGED <<merged, mergeStarting, stage, pc>>
    BY <1>1 DEF Calm, NoMerge, AllDone
  <1>2. ASSUME NoMerge, UNCHANGED <<merged, mergeStarting, stage>> PROVE Calm'
    BY <1>2 DEF Calm, NoMerge, AllDone
  <1>3. ASSUME NEW r \in Ranks, ~ NoMerge, \E s \in {"idle", "merge"} : pc' = [pc EXCEPT ![r] = s]
        PROVE  Calm'
    BY <1>3 DEF Calm, TypeInv, TypeOK
  <1>4. ASSUME NEW r \in Ranks, AskCheckpoint(r) PROVE Calm'
    <2>1. UNCHANGED <<merged, mergeStarting, stage>> /\ MaySave
      BY <1>4 DEF AskCheckpoint, dataVars, handlerVars, sharedVars
    <2> QED
      BY <1>2, <2>1 DEF MaySave
  <1>5. ASSUME NEW r \in Ranks, CheckpointStep(r) PROVE Calm'
    <2>1. UNCHANGED <<merged, mergeStarting, stage>> /\ pc[r] \notin {"idle", "merge"}
      BY <1>5 DEF CheckpointStep, RequestCheckpoint, AutoCheckpoint, SendSnapshot, EndCheckpoint,
         dataVars, handlerVars, sharedVars
    <2>2. NoMerge
      BY <2>1 DEF Calm
    <2> QED
      BY <1>2, <2>1, <2>2
  <1>6. ASSUME NEW r \in Ranks, StartMerge(r) PROVE Calm'
    <2>1. pc' = [pc EXCEPT ![r] = "merge"] /\ \A p \in Ranks : pc[p] = "idle"
      BY <1>6 DEF StartMerge, MayStart
    <2> QED
      BY <2>1 DEF Calm, TypeInv, TypeOK
  <1>7. ASSUME NEW r \in Ranks, NEW q \in Others(r), ProbeMergeRequest(r, q) PROVE Calm'
    <2>1. pc' = pc /\ net[q][r] # <<>> /\ IsRequest(Head(net[q][r]))
      BY <1>7 DEF ProbeMergeRequest, mainVars, IsRequest
    <2>2. ASSUME NoMerge PROVE FALSE
      <3>1. q \in Ranks /\ net[q][r] \in Seq(Sendable)
        BY DEF Others, TypeInv
      <3>2. RequestsIn(net[q][r]) # {}
        BY <2>1, <3>1, RequestsTail
      <3>3. Done(q) = Done(r) /\ ~ mergeStarting[q]
        BY <2>2, <3>1 DEF NoMerge, AllDone, Done
      <3> QED
        BY <3>1, <3>2, <3>3, TellsItself, AskedIsQuiet
    <2> QED
      BY <2>1, <2>2 DEF Calm
  <1>8. ASSUME NEW r \in Ranks, HandlerStep(r) PROVE Calm'
    <2>1. stage[r] # "none" /\ (pc' = pc \/ pc' = [pc EXCEPT ![r] = "idle"])
      <3>1. CASE CompareLevels(r)
        BY <3>1 DEF CompareLevels, TypeInv, TypeOK
      <3>2. CASE UnmarkStarting(r)
        BY <3>2 DEF UnmarkStarting, TypeInv, TypeOK
      <3> QED
        BY <1>8, <3>1, <3>2 DEF HandlerStep, MarkStarting, LockMerge, AskOthers, MergeSnapshots,
           Refresh, UnlockMerge, mainVars
    <2>2. ~ NoMerge
      BY <2>1 DEF NoMerge
    <2>3. CASE pc' = pc
      BY <2>2, <2>3 DEF Calm
    <2>4. CASE pc' = [pc EXCEPT ![r] = "idle"]
      BY <1>3, <2>2, <2>4
    <2> QED
      BY <2>1, <2>3, <2>4
  <1>9. ASSUME NEW r \in Ranks, NEW q \in Others(r), HandleSnapshot(r, q) PROVE Calm'
    BY <1>1, <1>9 DEF HandleSnapshot, mainVars, handlerVars
  <1>10. ASSUME NEW r \in Ranks, Update(r) PROVE Calm'
    BY <1>1, <1>10 DEF Update, handlerVars, sharedVars
  <1>11. CASE UNCHANGED vars
    BY <1>1, <1>11 DEF vars, dataVars, mainVars, handlerVars, sharedVars
  <1> QED
    BY <1>4, <1>5, <1>6, <1>7, <1>8, <1>9, <1>10, <1>11 DEF Next, Work, ListenerStep

LEMMA SyncInit == Init => SyncInv
  <1> SUFFICES ASSUME Init PROVE SyncInv
    OBVIOUS
  <1>1. Calm
    BY DEF Init, Calm
  <1>2. ASSUME NEW r \in Ranks, NEW x \in Others(r) PROVE Synced(r, x)
    <2>1. x \in Ranks
      BY DEF Others
    <2>2. /\ net[x][r] = <<>> /\ received[r][x] = 0 /\ Len(files[x]) = 0
          /\ Done(x) = 0 /\ Done(r) = 0
      BY <2>1, EmptySeq DEF Init, NothingReceived, Done
    <2>3. Newest(net[x][r], received[r][x], Len(files[x]))
      BY <2>2, EmptySeq DEF Newest
    <2> QED
      BY <2>2, <2>3 DEF Synced
  <1> QED
    BY <1>1, <1>2 DEF SyncInv

LEMMA SyncFrame ==
  ASSUME NEW r \in Ranks, NEW x \in Ranks, Synced(r, x), merged' = merged,
         files'[x] = files[x], unsent'[x] = unsent[x], net'[x][r] = net[x][r],
         received'[r][x] = received[r][x]
  PROVE  Synced(r, x)'
  <1>1. Done(r)' = Done(r) /\ Done(x)' = Done(x)
    BY DEF Done
  <1> QED
    BY <1>1 DEF Synced

LEMMA SyncMerge ==
  ASSUME TypeInv, SyncInv, NEW r \in Ranks, MergeStep(r)
  PROVE  \A p \in Ranks : \A x \in Others(p) : Synced(p, x)'
  <1> SUFFICES ASSUME NEW p \in Ranks, NEW x \in Others(p) PROVE Synced(p, x)'
    OBVIOUS
  <1>1. x \in Ranks /\ Synced(p, x) /\ Moves(p, x) /\ UNCHANGED <<merged, files, unsent>>
    BY MergeMoves DEF Others, SyncInv
  <1>2. Done(p)' = Done(p) /\ Done(x)' = Done(x)
    BY <1>1 DEF Done
  <1>3. \A l : Newest(net[x][p], received[p][x], l) => Newest(net'[x][p], received'[p][x], l)
    BY <1>1, NewestMoves
  <1>4. Closed(net[x][p]) => Closed(net'[x][p])
    BY <1>1, ClosedMoves
  <1>5. (\A i \in 1 .. Len(net[x][p]) : IsRequest(net[x][p][i])) =>
            /\ \A i \in 1 .. Len(net'[x][p]) : IsRequest(net'[x][p][i])
            /\ received'[p][x] = received[p][x]
    BY <1>1, RequestsMove
  <1> QED
    BY <1>1, <1>2, <1>3, <1>4, <1>5 DEF Synced

\* Checkpoints are made when all ranks have done as many merges.
LEMMA SyncCheckpoint ==
  ASSUME TypeInv, SyncInv, NEW r \in Ranks,
         Update(r) \/ AskCheckpoint(r) \/ CheckpointStep(r) \/ UNCHANGED vars
  PROVE  \A p \in Ranks : \A x \in Others(p) : Synced(p, x)'
  <1> SUFFICES ASSUME NEW p \in Ranks, NEW x \in Others(p) PROVE Synced(p, x)'
    OBVIOUS
  <1>1. x \in Ranks /\ Synced(p, x)
    BY DEF Others, SyncInv
  <1>2. CASE UNCHANGED <<merged, files, unsent, net, received>>
    BY <1>1, <1>2, SyncFrame
  <1>3. ASSUME pc[r] \in {"request", "auto", "send", "autosend"}, merged' = merged
        PROVE  Done(p) = Done(x) /\ Done(p)' = Done(p) /\ Done(x)' = Done(x) /\ Done(x) \in Nat
    <2>1. NoMerge
      BY <1>3 DEF SyncInv, Calm
    <2> QED
      BY <1>1, <1>3, <2>1, Counts DEF NoMerge, AllDone, Done
  <1>4. CASE /\ Save(r) /\ UNCHANGED <<merged, net, received>>
             /\ pc[r] \in {"request", "auto"}
    <2>1. /\ unsent'[r] = Others(r) /\ \A q \in Ranks : q # r => unsent'[q] = unsent[q]
          /\ \A q \in Ranks : q # r => files'[q] = files[q]
      BY <1>4 DEF Save, TypeInv, TypeOK
    <2>2. CASE x = r
      <3>1. p \in unsent'[x]
        BY <2>1, <2>2 DEF Others
      <3> QED
        BY <1>3, <1>4, <3>1 DEF Synced
    <2>3. CASE x # r
      BY <1>1, <1>4, <2>1, <2>3, SyncFrame
    <2> QED
      BY <2>2, <2>3
  <1>5. CASE SendSnapshot(r)
    <2> DEFINE k == NumLevels(r) - 2
               m == Snapshot(k, IF k = 0 THEN base[r] ELSE files[r][k])
    <2>1. UNCHANGED <<merged, files, received>> /\ pc[r] \in {"send", "autosend"}
      BY <1>5 DEF SendSnapshot, dataVars, sharedVars
    <2>2. PICK q \in unsent[r] : /\ net' = [net EXCEPT ![r][q] = Append(@, m)]
                                 /\ unsent' = [unsent EXCEPT ![r] = @ \ {q}]
      BY <1>5 DEF SendSnapshot
    <2>3. m \in Sendable /\ q \in Ranks /\ ~ IsRequest(m) /\ m.n = Len(files[r])
      BY SnapshotSendable DEF TypeInv, TypeOK, Snapshot, IsRequest
    <2> HIDE DEF m, k
    <2>4. /\ net[r][q] \in Seq(Sendable) /\ net'[r][q] = Append(net[r][q], m)
          /\ \A y, z \in Ranks : y # r \/ z # q => net'[y][z] = net[y][z]
      BY <2>2, <2>3 DEF TypeInv
    <2>5. unsent'[r] = unsent[r] \ {q} /\ \A y \in Ranks : y # r => unsent'[y] = unsent[y]
      BY <2>2 DEF TypeInv, TypeOK
    <2>6. Done(p) = Done(x) /\ Done(p)' = Done(p) /\ Done(x)' = Done(x) /\ Done(x) \in Nat
      BY <1>3, <2>1
    <2>7. CASE x = r /\ p = q
      <3>1. Newest(net'[r][q], received[q][r], Len(files[r]))
        BY <2>3, <2>4, NewestAppend
      <3> QED
        BY <2>1, <2>6, <2>7, <3>1 DEF Synced
    <2>8. CASE x = r /\ p # q
      <3>1. /\ net'[x][p] = net[x][p] /\ received'[p][x] = received[p][x] /\ files'[x] = files[x]
            /\ p \in unsent'[x] <=> p \in unsent[x]
        BY <2>1, <2>4, <2>5, <2>8
      <3> QED
        BY <1>1, <2>6, <3>1 DEF Synced
    <2>9. CASE x # r
      BY <1>1, <2>1, <2>4, <2>5, <2>9, SyncFrame
    <2> QED
      BY <2>7, <2>8, <2>9
  <1>6. CASE Update(r) \/ AskCheckpoint(r) \/ EndCheckpoint(r) \/ UNCHANGED vars
    <2>1. UNCHANGED <<merged, files, unsent, net, received>>
      BY <1>6 DEF Update, AskCheckpoint, EndCheckpoint, vars, dataVars, mainVars, sharedVars
    <2> QED
      BY <1>2, <2>1
  <1>7. CASE RequestCheckpoint(r) \/ AutoCheckpoint(r)
    BY <1>2, <1>4, <1>7 DEF RequestCheckpoint, AutoCheckpoint
  <1> QED
    BY <1>5, <1>6, <1>7 DEF CheckpointStep

\* When a rank merges, every channel to it is empty.
LEMMA MergerDrained ==
  ASSUME TypeInv, LockInv, EpochInv, SeesInv, SyncInv, NEW r \in Ranks,
         stage[r] \in {"merge", "refresh"}, NEW x \in Others(r)
  PROVE  net[x][r] = <<>> /\ (Done(x) = Done(r) \/ Done(x) = Done(r) + 1)
  <1>1. x \in Ranks /\ Channel(x, r) /\ Synced(r, x) /\ expected[r][x] # -1
    BY DEF Others, EpochInv, SyncInv, Gathered
  <1>2. /\ Begun(x) = Done(r) + 1 /\ Done(x) \in Nat /\ Done(r) \in Nat
        /\ Begun(x) = Done(x) \/ Begun(x) = Done(x) + 1
        /\ Asked(x, r) <= Begun(x)
        /\ Asked(x, r) = IF HasAsked(x, r) THEN Done(x) + 1 ELSE Done(x)
    BY <1>1, MergersBegun, Counts
  <1>3. Done(x) = Done(r) \/ Done(x) = Done(r) + 1
    BY <1>2
  <1>4. CASE Done(x) = Done(r)
    BY <1>1, <1>4, TakenAll
  <1>5. CASE Done(x) = Done(r) + 1
    <2>1. Taken(r, x) = Done(r) + 1
      BY <1>1 DEF Taken, HasTaken
    <2>2. RequestsIn(net[x][r]) = {}
      BY <1>1, <1>2, <2>1 DEF Channel
    <2>3. net[x][r] \in Seq(Sendable) /\ Closed(net[x][r])
      BY <1>1, <1>5 DEF TypeInv, Synced
    <2> QED
      BY <1>3, <2>2, <2>3, ClosedEmpty
  <1> QED
    BY <1>3, <1>4, <1>5

LEMMA SyncRefresh ==
  ASSUME TypeInv, LockInv, EpochInv, SeesInv, SyncInv, NEW r \in Ranks, Refresh(r)
  PROVE  \A p \in Ranks : \A x \in Others(p) : Synced(p, x)'
  <1> SUFFICES ASSUME NEW p \in Ranks, NEW x \in Others(p) PROVE Synced(p, x)'
    OBVIOUS
  <1>1. x \in Ranks /\ x # p /\ Synced(p, x) /\ stage[r] = "refresh"
    BY DEF Others, SyncInv, Refresh
  <1>2. /\ UNCHANGED <<net, unsent>> /\ files'[r] = <<>> /\ received'[r] = NothingReceived
        /\ \A q \in Ranks : q # r => files'[q] = files[q] /\ received'[q] = received[q]
    BY DEF Refresh, mainVars, TypeInv, TypeOK
  <1>3. /\ Done(r)' = Done(r) + 1 /\ Done(r) \in Nat
        /\ \A q \in Ranks : q # r => Done(q)' = Done(q)
    <2>1. merged[r] \in Seq(SUBSET Updates) /\ newBase[r] \in SUBSET Updates
      BY DEF TypeInv, TypeOK
    <2>2. /\ merged'[r] = Append(merged[r], newBase[r])
          /\ \A q \in Ranks : q # r => merged'[q] = merged[q]
      BY DEF Refresh, TypeInv, TypeOK
    <2> QED
      BY <2>1, <2>2, Extended DEF Done
  <1>4. CASE p = r
    <2>1. net'[x][p] = <<>> /\ received'[p][x] = 0 /\ (Done(x) = Done(r) \/ Done(x) = Done(r) + 1)
      BY <1>1, <1>2, <1>4, MergerDrained DEF NothingReceived
    <2>2. Done(x)' = Done(x) /\ Done(x) \in Nat /\ files'[x] = files[x]
      BY <1>1, <1>2, <1>3, <1>4, Counts
    <2>3. Done(x) = Done(r) + 1 => files[x] = <<>>
      BY <1>1, <1>4 DEF Synced
    <2>4. \A i \in 1 .. Len(net'[x][p]) : IsRequest(net'[x][p][i])
      BY <2>1, EmptySeq
    <2>5. Done(p)' = Done(x)' => Newest(net'[x][p], received'[p][x], Len(files'[x]))
      BY <1>3, <1>4, <2>1, <2>2, <2>3, <2>4, EmptySeq DEF Newest
    <2>6. Done(x)' # Done(p)' + 1
      BY <1>3, <1>4, <2>1, <2>2
    <2> QED
      BY <2>1, <2>4, <2>5, <2>6 DEF Synced
  <1>5. CASE x = r
    <2>1. Begun(p) = Done(r) + 1 /\ Done(p) \in Nat /\ Done(p)' = Done(p)
          /\ (Begun(p) = Done(p) \/ Begun(p) = Done(p) + 1)
      BY <1>1, <1>3, <1>5, MergersBegun, Counts
    <2>2. files'[x] = <<>> /\ Len(files'[x]) = 0 /\ net'[x][p] = net[x][p]
          /\ received'[p][x] = received[p][x]
      BY <1>1, <1>2, <1>5, EmptySeq
    <2>3. CASE Done(p) = Done(r)
      <3>1. HasAsked(r, p)
        BY <1>1 DEF HasAsked, LockInv, Locks
      <3>2. Closed(net[r][p])
        BY <1>1, <1>5, <2>3, <3>1 DEF SeesInv, Told
      <3> QED
        BY <1>3, <1>5, <2>1, <2>2, <2>3, <3>2 DEF Synced
    <2>4. CASE Done(p) = Done(r) + 1
      <3>1. /\ received[p][x] = 0 /\ \A i \in 1 .. Len(net[x][p]) : IsRequest(net[x][p][i])
        BY <1>1, <1>5, <2>4 DEF Synced
      <3>2. Newest(net'[x][p], received'[p][x], Len(files'[x]))
        BY <2>2, <3>1 DEF Newest
      <3> QED
        BY <1>3, <1>5, <2>1, <2>4, <3>2 DEF Synced
    <2> QED
      BY <1>3, <2>1, <2>3, <2>4
  <1>6. CASE p # r /\ x # r
    BY <1>1, <1>2, <1>3, <1>6 DEF Synced
  <1> QED
    BY <1>4, <1>5, <1>6

LEMMA SyncStep ==
  ASSUME Barrier, TypeInv, LockInv, EpochInv, SeesInv, SyncInv, [Next]_vars
  PROVE  SyncInv'
  <1>1. Calm'
    BY CalmStep DEF SyncInv
  <1>2. CASE UNCHANGED vars
    <2>1. 0 \in Ranks
      BY ConstantsAssumption DEF Ranks
    <2> QED
      BY <1>1, <1>2, <2>1, SyncCheckpoint DEF SyncInv
  <1>3. ASSUME NEW r \in Ranks,
               MergeStep(r) \/ Update(r) \/ AskCheckpoint(r) \/ CheckpointStep(r) \/ Refresh(r)
        PROVE  SyncInv'
    BY <1>1, <1>3, SyncMerge, SyncCheckpoint, SyncRefresh DEF SyncInv
  <1> QED
    BY <1>2, <1>3 DEF Next, Work, HandlerStep, MergeStep

LEMMA AgreeInit == Init => AgreeInv
  <1> SUFFICES ASSUME Init PROVE AgreeInv
    OBVIOUS
  <1>1. \A r \in Ranks : /\ Done(r) = 0 /\ base[r] = {} /\ stage[r] = "none"
                         /\ DOMAIN merged[r] = {}
    BY EmptySeq DEF Init, Done
  <1> QED
    BY <1>1 DEF AgreeInv, MergesAgree

\* A merge makes one level 0 of all snapshots brought to the rank.
LEMMA MergeMakes ==
  ASSUME TypeInv, NEW r \in Ranks, NEW g \in [Ranks -> Seq(SUBSET Updates)],
         currentLevel[r] = Len(files[r]) + 2, g[r] = files[r],
         \A x \in Others(r) : /\ received[r][x] = Len(g[x])
                              /\ \A j \in 1 .. Len(g[x]) : receipts[r][x][j] = g[x][j]
  PROVE  MergeInput(r) = WholeOf(base[r], g)
  <1>1. \A x \in Ranks : DOMAIN g[x] = 1 .. Len(g[x])
    BY LenProperties
  <1>2. OwnRead(r) \cap DOMAIN files[r] = DOMAIN g[r]
    <2>1. files[r] \in Seq(SUBSET Updates)
      BY DEF TypeInv, TypeOK
    <2> QED
      BY <2>1, LenProperties DEF OwnRead
  <1>3. Contents(files[r], OwnRead(r) \cap DOMAIN files[r]) = Contents(g[r], DOMAIN g[r])
    BY <1>2
  <1>4. ASSUME NEW x \in Others(r)
        PROVE  Contents(receipts[r][x], 1 .. received[r][x]) = Contents(g[x], DOMAIN g[x])
    <2>1. x \in Ranks /\ 1 .. received[r][x] = DOMAIN g[x]
          /\ \A j \in DOMAIN g[x] : receipts[r][x][j] = g[x][j]
      BY <1>1 DEF Others
    <2> DEFINE f == receipts[r][x]
    <2>2. {f[j] : j \in DOMAIN g[x]} = {g[x][j] : j \in DOMAIN g[x]}
      BY SMTT(30), <2>1
    <2> QED
      BY <2>1, <2>2 DEF Contents
  <1>5. UNION {Contents(receipts[r][x], 1 .. received[r][x]) : x \in Others(r)}
          = UNION {Contents(g[x], DOMAIN g[x]) : x \in Others(r)}
    <2>1. {Contents(receipts[r][x], 1 .. received[r][x]) : x \in Others(r)}
            = {Contents(g[x], DOMAIN g[x]) : x \in Others(r)}
      BY <1>4
    <2> QED
      BY <2>1
  <1>6. UNION {Contents(g[x], DOMAIN g[x]) : x \in Ranks}
          = Contents(g[r], DOMAIN g[r]) \cup UNION {Contents(g[x], DOMAIN g[x]) : x \in Others(r)}
    <2> DEFINE C(x) == Contents(g[x], DOMAIN g[x])
    <2> HIDE DEF C
    <2>1. UNION {C(x) : x \in Ranks} = C(r) \cup UNION {C(x) : x \in Others(r)}
      BY DEF Others
    <2> QED
      BY <2>1 DEF C
  <1> QED
    BY <1>3, <1>5, <1>6 DEF MergeInput, WholeOf

\* Nothing under way to r: it has what it is brought.
LEMMA BroughtAll ==
  ASSUME NEW r \in Ranks, NEW x \in Ranks, NEW g, Brings(r, x, g), net[x][r] = <<>>
  PROVE  received[r][x] = Len(g) /\ \A j \in 1 .. Len(g) : receipts[r][x][j] = g[j]
  BY EmptySeq DEF Brings, Newest, Arrives

\* What the steps of a merge, and checkpoints between merges, leave as it is.
LEMMA AgreeFrame ==
  ASSUME AgreeInv, UNCHANGED <<merged, base>>,
         \A p, r \in Ranks : Done(p) = Done(r) + 1 => files'[r] = files[r],
         \A p, r \in Ranks : Done(p) = Done(r) + 1 =>
            \A x \in Others(r) : \A g : Brings(r, x, g) => Brings(r, x, g)',
         \A p \in Ranks : stage'[p] = "refresh" => Makes(p)'
  PROVE  AgreeInv'
  <1>1. \A p \in Ranks : Done(p)' = Done(p)
    BY DEF Done
  <1>2. ASSUME NEW p \in Ranks, NEW r \in Ranks, Done(p) = Done(r) + 1 PROVE Follows(p, r)'
    <2>1. Follows(p, r)
      BY <1>2 DEF AgreeInv
    <2>2. PICK g \in [Ranks -> Seq(SUBSET Updates)] :
            /\ g[r] = files[r] /\ \A x \in Others(r) : Brings(r, x, g[x])
            /\ base[p] = WholeOf(base[r], g)
      BY <2>1 DEF Follows
    <2>3. \A x \in Others(r) : Brings(r, x, g[x])'
      BY <1>2, <2>2
    <2>4. base'[p] = WholeOf(base'[r], g) /\ g[r] = files'[r]
      BY <1>2, <2>2
    <2> QED
      BY <2>3, <2>4 DEF Follows
  <1>3. MergesAgree'
    BY DEF AgreeInv, MergesAgree
  <1>4. \A r \in Ranks : Done(r)' > 0 => merged'[r][Done(r)'] = base'[r]
    BY <1>1 DEF AgreeInv
  <1>5. \A p, q \in Ranks : Done(p)' = Done(q)' => base'[p] = base'[q]
    BY <1>1 DEF AgreeInv
  <1>6. \A p, r \in Ranks : Done(p)' = Done(r)' + 1 => Follows(p, r)'
    BY <1>1, <1>2
  <1> QED
    BY <1>3, <1>4, <1>5, <1>6 DEF AgreeInv

\* When all ranks have done as many merges and none is under way, nothing
\* is left to say of files and channels.
LEMMA AgreeCheckpoint ==
  ASSUME TypeInv, SyncInv, AgreeInv, NEW r \in Ranks,
         Update(r) \/ AskCheckpoint(r) \/ CheckpointStep(r) \/ UNCHANGED vars
  PROVE  AgreeInv'
  <1>1. UNCHANGED <<merged, base, stage, newBase>>
    BY DEF Update, AskCheckpoint, CheckpointStep, RequestCheckpoint, AutoCheckpoint, SendSnapshot,
       EndCheckpoint, vars, dataVars, handlerVars
  <1>2. CASE NoMerge
    <2>1. \A p, q \in Ranks : Done(p) = Done(q) /\ Done(q) \in Nat /\ stage[p] = "none"
      BY <1>2, Counts DEF NoMerge, AllDone, Done
    <2>2. \A p, q \in Ranks : Done(p) # Done(q) + 1
      BY <2>1
    <2> QED
      BY <1>1, <2>1, <2>2, AgreeFrame
  <1>3. CASE ~ NoMerge
    <2>1. pc[r] \in {"idle", "merge"}
      BY <1>3 DEF SyncInv, Calm
    <2>2. UNCHANGED <<files, net, receipts, received>>
      BY <2>1 DEF Update, AskCheckpoint, CheckpointStep, RequestCheckpoint, AutoCheckpoint,
         SendSnapshot, EndCheckpoint, vars, dataVars, sharedVars
    <2>3. \A p \in Ranks : \A x \in Others(p) : \A g : Brings(p, x, g) => Brings(p, x, g)'
      BY <2>2 DEF Brings
    <2>4. \A p \in Ranks : stage'[p] = "refresh" => Makes(p)'
      BY <1>1, <2>2 DEF AgreeInv, Makes, Done
    <2> QED
      BY <1>1, <2>2, <2>3, <2>4, AgreeFrame
  <1> QED
    BY <1>2, <1>3

\* The steps of a merge: what it makes is decided by MergeSnapshots.
LEMMA AgreeMerge ==
  ASSUME TypeInv, LockInv, EpochInv, SeesInv, SyncInv, AgreeInv, NEW r \in Ranks, MergeStep(r)
  PROVE  AgreeInv'
  <1>1. UNCHANGED <<merged, files, base>> /\ \A p \in Ranks : \A x \in Others(p) : Moves(p, x)
    BY MergeMoves
  <1>2. ASSUME NEW p \in Ranks, NEW x \in Others(p), NEW g, Brings(p, x, g)
        PROVE  Brings(p, x, g)'
    <2>1. x \in Ranks /\ Moves(p, x)
      BY <1>1 DEF Others
    <2> QED
      BY <1>2, <2>1, BringsMoves
  <1>3. \A p \in Ranks : Done(p)' = Done(p)
    BY <1>1 DEF Done
  <1>4. \A p \in Ranks : newBase'[p] = newBase[p] /\ Makes(p) => Makes(p)'
    BY <1>1, <1>3 DEF Makes
  <1>5. CASE MergeSnapshots(r)
    <2>1. /\ stage[r] = "merge" /\ newBase'[r] = MergeInput(r)
          /\ \A p \in Ranks : p # r => newBase'[p] = newBase[p] /\ stage'[p] = stage[p]
      BY <1>5 DEF MergeSnapshots, TypeInv, TypeOK
    <2>2. currentLevel[r] = Len(files[r]) + 2
      BY <2>1, MergersBegun DEF EpochInv, Epochs
    <2>3. \A x \in Others(r) : net[x][r] = <<>>
      BY <2>1, MergerDrained
    <2>4. files \in [Ranks -> Seq(SUBSET Updates)]
      BY DEF TypeInv, TypeOK
    <2>5. ASSUME \A q \in Ranks : Done(q) = Done(r)
          PROVE  MergeInput(r) = WholeOf(base[r], files)
      <3>1. ASSUME NEW x \in Others(r)
            PROVE  /\ received[r][x] = Len(files[x])
                   /\ \A j \in 1 .. Len(files[x]) : receipts[r][x][j] = files[x][j]
        <4>1. /\ x \in Ranks /\ Done(x) = Done(r) /\ Carries(r, x) /\ Told(r, x)
              /\ received[r] = expected[r] /\ expected[r][x] # -1
          BY <2>1, <2>5 DEF Others, SeesInv, EpochInv, Gathered
        <4>2. HasAsked(x, r)
          BY <4>1, TakenAll
        <4>3. unsent[x] = {}
          BY <4>1, <4>2, AskedIsQuiet DEF SeesInv
        <4>4. received[r][x] = Len(files[x])
          BY <4>1 DEF Told
        <4> QED
          BY <2>3, <4>1, <4>3, <4>4, EmptySeq DEF Carries, Arrives
      <3> QED
        BY <2>2, <2>4, <3>1, MergeMakes
    <2>6. ASSUME NEW q \in Ranks, Done(q) = Done(r) + 1
          PROVE  MergeInput(r) = base[q]
      <3>1. Follows(q, r)
        BY <2>6 DEF AgreeInv
      <3>2. PICK g \in [Ranks -> Seq(SUBSET Updates)] :
              /\ g[r] = files[r] /\ \A x \in Others(r) : Brings(r, x, g[x])
              /\ base[q] = WholeOf(base[r], g)
        BY <3>1 DEF Follows
      <3>3. \A x \in Others(r) : /\ received[r][x] = Len(g[x])
                                 /\ \A j \in 1 .. Len(g[x]) : receipts[r][x][j] = g[x][j]
        BY <2>3, <3>2, BroughtAll DEF Others
      <3>4. MergeInput(r) = WholeOf(base[r], g)
        BY <2>2, <3>2, <3>3, MergeMakes
      <3> QED
        BY <3>2, <3>4
    <2>7. Makes(r)'
      BY <1>1, <1>3, <2>1, <2>5, <2>6 DEF Makes
    <2>8. \A p \in Ranks : stage'[p] = "refresh" => Makes(p)'
      BY <1>4, <2>1, <2>7 DEF AgreeInv
    <2> QED
      BY <1>1, <1>2, <2>8, AgreeFrame
  <1>6. CASE ~ MergeSnapshots(r)
    <2>1. newBase' = newBase /\ \A p \in Ranks : stage'[p] = "refresh" => stage[p] = "refresh"
      <3>1. CASE StartMerge(r)
        BY <3>1 DEF StartMerge, TypeInv, TypeOK
      <3>2. CASE LockMerge(r) \/ AskOthers(r) \/ UnlockMerge(r)
        BY <3>2 DEF LockMerge, AskOthers, UnlockMerge, TypeInv, TypeOK
      <3>3. CASE MarkStarting(r) \/ CompareLevels(r) \/ UnmarkStarting(r)
        BY ZenonT(30), <3>3 DEF MarkStarting, CompareLevels, UnmarkStarting, TypeInv, TypeOK
      <3>4. CASE ListenerStep(r)
        BY ZenonT(30), <3>4 DEF ListenerStep, HandleSnapshot, ProbeMergeRequest, handlerVars, TypeInv, TypeOK
      <3> QED
        BY <1>6, <3>1, <3>2, <3>3, <3>4 DEF MergeStep
    <2>2. \A p \in Ranks : stage'[p] = "refresh" => Makes(p)'
      BY <1>4, <2>1 DEF AgreeInv
    <2> QED
      BY <1>1, <1>2, <2>2, AgreeFrame
  <1> QED
    BY <1>5, <1>6

\* The first rank that ends a merge leads; the others follow.
LEMMA AgreeRefresh ==
  ASSUME TypeInv, LockInv, EpochInv, SeesInv, SyncInv, AgreeInv, NEW r \in Ranks, Refresh(r)
  PROVE  AgreeInv'
  <1>1. /\ stage[r] = "refresh" /\ base'[r] = newBase[r] /\ stage'[r] = "unlock"
        /\ UNCHANGED <<net, receipts, newBase>> /\ files'[r] = <<>>
        /\ \A p \in Ranks : p # r => /\ base'[p] = base[p] /\ stage'[p] = stage[p]
                                     /\ files'[p] = files[p] /\ received'[p] = received[p]
                                     /\ merged'[p] = merged[p]
    BY DEF Refresh, TypeInv, TypeOK
  <1>2. /\ Done(r)' = Done(r) + 1
        /\ \A p \in Ranks : p # r => Done(p)' = Done(p)
        /\ merged'[r] = Append(merged[r], newBase[r])
        /\ merged'[r][Done(r) + 1] = newBase[r]
        /\ \A k \in 1 .. Done(r) : merged'[r][k] = merged[r][k]
    <2>1. merged[r] \in Seq(SUBSET Updates) /\ newBase[r] \in SUBSET Updates
      BY DEF TypeInv, TypeOK
    <2>2. merged'[r] = Append(merged[r], newBase[r])
      BY DEF Refresh, TypeInv, TypeOK
    <2> QED
      BY <1>1, <2>1, <2>2, Extended DEF Done
  <1>3. \A p \in Ranks : Done(p) \in Nat /\ (Done(p) = Done(r) \/ Done(p) = Done(r) + 1)
    <2> TAKE p \in Ranks
    <2>1. CASE p = r
      BY <2>1, Counts
    <2>2. CASE p # r
      BY <1>1, <2>2, MergerDrained, Counts DEF Others
    <2> QED
      BY <2>1, <2>2
  <1>4. \A p \in Ranks : DOMAIN merged[p] = 1 .. Done(p) /\ DOMAIN merged'[p] = 1 .. Done(p)'
    <2> TAKE p \in Ranks
    <2>1. merged[p] \in Seq(SUBSET Updates) /\ merged[r] \in Seq(SUBSET Updates)
          /\ newBase[r] \in SUBSET Updates
      BY DEF TypeInv, TypeOK
    <2>2. merged'[p] \in Seq(SUBSET Updates)
      <3>1. Append(merged[r], newBase[r]) \in Seq(SUBSET Updates)
        BY <2>1, Extended
      <3> QED
        BY <1>1, <1>2, <2>1, <3>1
    <2> QED
      BY <2>1, <2>2, LenProperties DEF Done
  \* The new level 0 is that of the ranks that have merged before.
  <1>5. \A q \in Ranks : Done(q) = Done(r) + 1 => newBase[r] = base[q]
    BY <1>1 DEF AgreeInv, Makes
  <1>6. \A p \in Ranks : Done(p)' > 0 => merged'[p][Done(p)'] = base'[p]
    BY <1>1, <1>2, <1>3 DEF AgreeInv
  <1>7. \A p, q \in Ranks : Done(p)' = Done(q)' => base'[p] = base'[q]
    <2> TAKE p, q \in Ranks
    <2>1. CASE p = r /\ q # r
      BY <1>1, <1>2, <1>5, <2>1
    <2>2. CASE p # r /\ q = r
      BY <1>1, <1>2, <1>5, <2>2
    <2>3. CASE p # r /\ q # r
      BY <1>1, <1>2, <2>3 DEF AgreeInv
    <2> QED
      BY <2>1, <2>2, <2>3
  <1>8. MergesAgree'
    <2> DEFINE m == merged'[r]
    <2>1. ASSUME NEW q \in Ranks, q # r, NEW k \in (1 .. Done(r) + 1) \cap (1 .. Done(q))
          PROVE  merged'[r][k] = merged[q][k]
      <3>1. CASE k = Done(r) + 1
        <4>1. Done(q) = Done(r) + 1
          BY <1>3, <2>1, <3>1
        <4>2. merged[q][Done(q)] = base[q] /\ newBase[r] = base[q]
          BY <1>3, <1>5, <4>1 DEF AgreeInv
        <4> QED
          BY <1>2, <3>1, <4>1, <4>2
      <3>2. CASE k # Done(r) + 1
        <4>1. k \in 1 .. Done(r)
          BY <1>3, <2>1, <3>2
        <4>2. merged[r][k] = merged[q][k]
          BY ZenonT(30), <1>4, <2>1, <4>1 DEF AgreeInv, MergesAgree
        <4> QED
          BY <1>2, <4>1, <4>2
      <3> QED
        BY <3>1, <3>2
    <2>2. ASSUME NEW p \in Ranks, NEW q \in Ranks,
                 NEW k \in DOMAIN merged'[p] \cap DOMAIN merged'[q]
          PROVE  merged'[p][k] = merged'[q][k]
      <3>1. k \in (1 .. Done(p)') \cap (1 .. Done(q)')
        BY <1>4, <2>2
      <3>2. CASE p = r /\ q # r
        BY <1>1, <1>2, <2>1, <3>1, <3>2
      <3>3. CASE p # r /\ q = r
        BY <1>1, <1>2, <2>1, <3>1, <3>3
      <3>4. CASE p # r /\ q # r
        BY <1>1, <1>2, <1>4, <3>1, <3>4 DEF AgreeInv, MergesAgree
      <3> QED
        BY <3>2, <3>3, <3>4
    <2> QED
      BY <2>2 DEF MergesAgree
  \* A rank still to merge is brought what it was.
  <1>9. ASSUME NEW q \in Ranks, q # r, NEW x \in Others(q), NEW g, Brings(q, x, g)
        PROVE  Brings(q, x, g)'
    BY <1>1, <1>9 DEF Brings
  <1>10. ASSUME NEW q \in Ranks, q # r, Done(q) = Done(r) PROVE Follows(r, q)'
    <2>1. CASE \A p \in Ranks : Done(p) = Done(r)
      <3>1. PICK g \in [Ranks -> Seq(SUBSET Updates)] : g = files
        BY DEF TypeInv, TypeOK
      <3>2. ASSUME NEW x \in Others(q) PROVE Brings(q, x, g[x])
        <4>1. x \in Ranks /\ Synced(q, x) /\ Carries(q, x) /\ Done(x) = Done(q)
          BY <2>1, <1>10 DEF Others, SyncInv, SeesInv
        <4>2. ~ NoMerge
          BY <1>1 DEF NoMerge
        <4>3. unsent[x] = {}
          BY <4>1, <4>2 DEF SyncInv, Calm, SeesInv
        <4>4. Len(files[x]) \in 0 .. MaxSaves
          <5>1. files[x] \in Seq(SUBSET Updates) /\ saves[x] \in Nat
                /\ Len(files[x]) <= saves[x] /\ saves[x] <= MaxSaves
            BY <4>1 DEF TypeInv, TypeOK, Sized
          <5> QED
            BY <5>1, ConstantsAssumption
        <4> QED
          BY <3>1, <4>1, <4>3, <4>4 DEF Synced, Carries, Brings
      <3>3. \A x \in Others(q) : Brings(q, x, g[x])'
        BY <1>9, <1>10, <3>2
      <3>4. newBase[r] = WholeOf(base[r], g) /\ base[r] = base[q]
        BY <1>1, <1>10, <2>1, <3>1 DEF AgreeInv, Makes
      <3>5. g[q] = files'[q] /\ base'[r] = WholeOf(base'[q], g)
        BY <1>1, <1>10, <3>1, <3>4
      <3> QED
        BY <3>3, <3>5 DEF Follows
    <2>2. CASE ~ \A p \in Ranks : Done(p) = Done(r)
      <3>1. PICK p \in Ranks : Done(p) = Done(r) + 1
        BY <1>3, <2>2
      <3>2. Follows(p, q) /\ newBase[r] = base[p]
        BY <1>5, <1>10, <3>1 DEF AgreeInv
      <3>3. PICK g \in [Ranks -> Seq(SUBSET Updates)] :
              /\ g[q] = files[q] /\ \A x \in Others(q) : Brings(q, x, g[x])
              /\ base[p] = WholeOf(base[q], g)
        BY <3>2 DEF Follows
      <3>4. \A x \in Others(q) : Brings(q, x, g[x])'
        BY <1>9, <1>10, <3>3
      <3>5. g[q] = files'[q] /\ base'[r] = WholeOf(base'[q], g)
        BY <1>1, <1>10, <3>2, <3>3
      <3> QED
        BY <3>4, <3>5 DEF Follows
    <2> QED
      BY <2>1, <2>2
  <1>11. \A p, q \in Ranks : Done(p)' = Done(q)' + 1 => Follows(p, q)'
    <2> SUFFICES ASSUME NEW p \in Ranks, NEW q \in Ranks, Done(p)' = Done(q)' + 1
                 PROVE  Follows(p, q)'
      OBVIOUS
    <2>1. q # r
      BY <1>2, <1>3
    <2>2. CASE p = r
      BY <1>2, <1>3, <1>10, <2>1, <2>2
    <2>3. CASE p # r
      <3>1. Follows(p, q)
        BY <1>2, <2>1, <2>3 DEF AgreeInv
      <3>2. PICK g \in [Ranks -> Seq(SUBSET Updates)] :
              /\ g[q] = files[q] /\ \A x \in Others(q) : Brings(q, x, g[x])
              /\ base[p] = WholeOf(base[q], g)
        BY <3>1 DEF Follows
      <3>3. \A x \in Others(q) : Brings(q, x, g[x])'
        BY <1>9, <2>1, <3>2
      <3>4. g[q] = files'[q] /\ base'[p] = WholeOf(base'[q], g)
        BY <1>1, <2>1, <2>3, <3>2
      <3> QED
        BY <3>3, <3>4 DEF Follows
    <2> QED
      BY <2>2, <2>3
  \* The others that have merged are about to put the same level 0 in place.
  <1>12. ASSUME NEW p \in Ranks, stage'[p] = "refresh" PROVE Makes(p)'
    <2>1. p # r /\ stage[p] = "refresh" /\ Makes(p)
      BY <1>1, <1>12 DEF AgreeInv
    <2>2. Done(p) = Done(r)
      <3>1. Done(r) = Done(p) \/ Done(r) = Done(p) + 1
        BY <2>1, MergerDrained DEF Others
      <3> QED
        BY <1>3, <2>1, <3>1
    <2>3. newBase[p] = newBase[r]
      <3>1. CASE \A q \in Ranks : Done(q) = Done(r)
        <4>1. base[p] = base[r] /\ Makes(r)
          BY <1>1, <2>2 DEF AgreeInv
        <4> QED
          BY <2>1, <2>2, <3>1, <4>1 DEF Makes
      <3>2. CASE ~ \A q \in Ranks : Done(q) = Done(r)
        <4>1. PICK q \in Ranks : Done(q) = Done(r) + 1
          BY <1>3, <3>2
        <4> QED
          BY <1>5, <2>1, <2>2, <4>1 DEF Makes
      <3> QED
        BY <3>1, <3>2
    <2>4. Done(p)' = Done(p) /\ newBase'[p] = newBase[p]
      BY <1>1, <1>2, <2>1
    <2>5. ~ \A q \in Ranks : Done(q)' = Done(p)'
      BY <1>2, <1>3, <2>2, <2>4
    <2>6. \A q \in Ranks : Done(q)' = Done(p)' + 1 => newBase'[p] = base'[q]
      <3> TAKE q \in Ranks
      <3>1. CASE q = r
        BY <1>1, <2>3, <2>4, <3>1
      <3>2. CASE q # r
        BY <1>1, <1>2, <2>1, <2>4, <3>2 DEF Makes
      <3> QED
        BY <3>1, <3>2
    <2> QED
      BY <2>5, <2>6 DEF Makes
  <1> QED
    BY <1>6, <1>7, <1>8, <1>11, <1>12 DEF AgreeInv

LEMMA AgreeStep ==
  ASSUME TypeInv, LockInv, EpochInv, SeesInv, SyncInv, AgreeInv, [Next]_vars
  PROVE  AgreeInv'
  <1>1. CASE UNCHANGED vars
    <2>1. 0 \in Ranks
      BY ConstantsAssumption DEF Ranks
    <2> QED
      BY <1>1, <2>1, AgreeCheckpoint
  <1>2. ASSUME NEW r \in Ranks,
               MergeStep(r) \/ Update(r) \/ AskCheckpoint(r) \/ CheckpointStep(r) \/ Refresh(r)
        PROVE  AgreeInv'
    BY <1>2, AgreeMerge, AgreeCheckpoint, AgreeRefresh
  <1> QED
    BY <1>1, <1>2 DEF Next, Work, HandlerStep, MergeStep

(***************************************************************************)
(* All ranks make the same level 0 of every merge, although each gathers   *)
(* the snapshots and decides to merge on its own, when the program keeps   *)
(* checkpoints and merges apart by barriers and every rank checkpoints     *)
(* before a merge (snapshot_merger.cpp:111-121).                           *)
(***************************************************************************)
THEOREM LevelsAgree == ASSUME Fresh, Barrier PROVE Spec => []MergesAgree
  <1> DEFINE Inv == TypeInv /\ LockInv /\ EpochInv /\ SeesInv /\ SyncInv /\ AgreeInv
  <1>1. Init => Inv
    BY TypeInit, LockInit, EpochInit, SeesInit, SyncInit, AgreeInit
  <1>2. Inv /\ [Next]_vars => Inv'
    BY TypeStep, LockStep, EpochStep, SeesStep, SyncStep, AgreeStep
  <1>3. Inv => MergesAgree
    BY DEF AgreeInv
  <1> QED
    BY <1>1, <1>2, <1>3, PTL DEF Spec
=============================================================================
