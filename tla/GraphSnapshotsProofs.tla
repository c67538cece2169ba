------------------------ MODULE GraphSnapshotsProofs ------------------------
(***************************************************************************)
(* What holds of the levels of all ranks, for any number of ranks, nodes,  *)
(* levels and merges, and any graph loaded.                                *)
(*                                                                         *)
(* The first part does not look into the levels: ranks that count the same *)
(* vertices and gather the same edges build the same level 0, so what is   *)
(* to be shown is that they do, though a rank knows its own last vertex    *)
(* and of others only what they announced since the last merge: these      *)
(* differ before the first checkpoint of a rank, and after a merge until   *)
(* its next one (Announced).  A rank without a checkpoint has no more      *)
(* nodes than were loaded; one that has made some must make another, or    *)
(* its nodes are counted by itself only.  That is why BasesEqual and       *)
(* ImplementsGraph assume Fresh, and the other theorems do not.            *)
(*                                                                         *)
(* The second looks at the level that a checkpoint makes: its edge table   *)
(* has room for all its cells.                                             *)
(*                                                                         *)
(* The third follows lists through the levels.  That the functions which   *)
(* read them exist (ReadingExists) follows from the levels: an entry is    *)
(* continued only further down.  What a stack of levels is (WellFormed) is *)
(* kept by the level of a checkpoint (NewLevelGood) and by that of a merge *)
(* (MergedLevelGood), so that each is read as the edges put in it.         *)
(*                                                                         *)
(* The last part counts: what a rank sees of a node is a bag of edges, and *)
(* each step does to these bags what SharedGraph says.                     *)
(***************************************************************************)
EXTENDS SharedGraphRefinement, SequenceTheorems, FiniteSetTheorems, WellFoundedInduction, TLAPS

(***************************************************************************)
(* Maxima.                                                                 *)
(***************************************************************************)

\* A maximum is the only one.
LEMMA MaxIs ==
  ASSUME NEW S \in SUBSET Int, NEW m \in S, \A x \in S : x <= m
  PROVE  Max(S) = m
<1>1. m >= m BY SMT
<1>2. \A x \in S : m >= x BY SMT
<1>3. \E x \in S : \A y \in S : x >= y BY <1>2
<1>4. Max(S) \in S /\ \A y \in S : Max(S) >= y BY <1>3, Zenon DEF Max
<1>5. Max(S) >= m /\ m >= Max(S) BY <1>2, <1>4
<1>6. Max(S) \in Int BY <1>4
<1> QED BY <1>5, <1>6, SMTT(10)

Less == {p \in Nat \X Nat : p[1] < p[2]}

LEMMA LessWellFounded == IsWellFoundedOn(Less, Nat)
BY NatLessThanWellFounded, Zenon DEF OpToRel, Less

\* A set of numbers below a bound has a maximum.
LEMMA MaxExists ==
  ASSUME NEW b \in Nat, NEW S \in SUBSET (0 .. b), S # {}
  PROVE  Max(S) \in S /\ \A x \in S : x <= Max(S)
<1> DEFINE T == {b - x : x \in S}
<1>1. T \subseteq Nat /\ T # {}
  <2>1. T \subseteq Nat BY SMT
  <2>2. PICK x \in S : TRUE OBVIOUS
  <2>3. b - x \in T BY <2>2
  <2> QED BY <2>1, <2>3
<1>2. PICK d \in T : \A e \in T : <<e, d>> \notin Less
  <2> HIDE DEF T
  <2> QED BY <1>1, LessWellFounded, WFMin, Zenon
<1>3. PICK m \in S : d = b - m BY <1>2
<1>4. \A x \in S : x <= m
  <2> TAKE x \in S
  <2>1. <<b - x, d>> \notin Less BY <1>2
  <2>2. b - x \in Nat /\ d \in Nat BY <1>1
  <2> QED BY <2>1, <2>2, <1>3, SMT DEF Less
<1> QED BY <1>4, MaxIs, SMT

(***************************************************************************)
(* Levels.                                                                 *)
(***************************************************************************)

\* A stack of levels has a level 0.
IsStack(s) == s # <<>> /\ s \in Seq(ToSet(s))

LEMMA StackAppend ==
  ASSUME NEW s, IsStack(s), NEW e
  PROVE  /\ IsStack(Append(s, e))
         /\ Append(s, e)[1] = s[1]
         /\ Latest(Append(s, e)) = e
<1> DEFINE S == ToSet(s) \cup {e}
           t == Append(s, e)
<1>1. s \in Seq(S) /\ e \in S BY SMT DEF IsStack
<1>2. /\ t \in Seq(S) /\ t # <<>> /\ Len(t) = Len(s) + 1
      /\ \A i \in 1 .. Len(s) : t[i] = s[i]
      /\ t[Len(s) + 1] = e
  <2> HIDE DEF S
  <2> QED BY <1>1, AppendProperties
<1>3. Len(s) \in Nat \ {0} BY <1>1, SMT DEF IsStack
<1>4. t \in Seq(ToSet(t))
  <2> HIDE DEF S, t
  <2>1. DOMAIN t = 1 .. Len(t) /\ Len(t) \in Nat BY <1>2, SMT
  <2>2. t = [i \in 1 .. Len(t) |-> t[i]] BY <1>2, <2>1, SMT
  <2>3. \A i \in 1 .. Len(t) : t[i] \in ToSet(t) BY <2>1 DEF ToSet
  <2> QED BY <2>1, <2>2, <2>3, SMT
<1>5. t[1] = s[1] BY <1>2, <1>3, SMT
<1>6. Latest(t) = e BY <1>2 DEF Latest
<1> QED BY <1>2, <1>4, <1>5, <1>6 DEF IsStack

LEMMA StackOfOne ==
  ASSUME NEW e
  PROVE  /\ IsStack(<<e>>)
         /\ <<e>>[1] = e
         /\ Latest(<<e>>) = e
         /\ Len(<<e>>) = 1
<1>1. DOMAIN <<e>> = {1} /\ <<e>>[1] = e /\ Len(<<e>>) = 1 BY SMT
<1>2. ToSet(<<e>>) = {e} BY <1>1 DEF ToSet
<1>3. <<e>> \in Seq({e}) BY SMT
<1> QED BY <1>1, <1>2, <1>3, SMT DEF IsStack, Latest

\* The levels have the sizes they are given.
LEMMA Sizes ==
  ASSUME NEW lvs, NEW lists, NEW size
  PROVE  NewLevel(lvs, lists, size).size = size /\ MergedLevel(lists, size).size = size
BY Zenon DEF NewLevel, MergedLevel

(***************************************************************************)
(* The inductive invariant.                                                *)
(***************************************************************************)

\* Every rank has a stack of levels.
Stacks == DOMAIN levels = Ranks /\ \A r \in Ranks : IsStack(levels[r])

\* What the other ranks know of the last vertex of a rank depends on its
\* last checkpoint.  One that has none since the last merge has no snapshots
\* either.
Announced ==
    \A r \in Ranks :
        /\ InitNodes - 1 <= vertices[r]
        /\ saved[r] = "since" => announced[r] = vertices[r]
        /\ saved[r] # "since" => announced[r] = 0 /\ Len(levels[r]) = 1
        /\ saved[r] = "never" => vertices[r] = InitNodes - 1

IInv == TypeOK /\ Stacks /\ Announced /\ (Fresh => BasesAgree)

\* Every rank has saved since its last merge, or never.
AllSaved == \A r \in Ranks : saved[r] # "before"

LEMMA ConstantTypes ==
  /\ MaxNodes \in Nat /\ InitNodes \in Nat \ {0} /\ InitNodes <= MaxNodes
  /\ Nodes \subseteq Nat /\ 0 .. InitNodes - 1 \subseteq Nodes
  /\ Sources \subseteq Nodes /\ Targets \subseteq Nodes
  /\ 0 \in Ranks
BY ConstantsAssumption, SMT DEF Nodes, Ranks

LEMMA InitIInv == Init => IInv
<1> SUFFICES ASSUME Init PROVE IInv OBVIOUS
<1> DEFINE base == NewLevel(<<>>, InitEdges, InitNodes)
<1>1. base.size = InitNodes BY Sizes
<1>2. \A r \in Ranks : /\ levels[r] = <<base>> /\ vertices[r] = InitNodes - 1
                       /\ announced[r] = 0 /\ saved[r] = "never"
  BY DEF Init
<1>3. DOMAIN levels = Ranks BY DEF Init
<1> HIDE DEF base
<1>4. \A r \in Ranks : /\ IsStack(levels[r]) /\ levels[r] # <<>>
                       /\ levels[r][1] = base /\ Latest(levels[r]) = base /\ Len(levels[r]) = 1
  BY <1>2, StackOfOne, Zenon DEF IsStack
<1>5. TypeOK
  <2>1. nextNode = InitNodes /\ nextNode \in InitNodes .. MaxNodes BY ConstantTypes, SMT DEF Init
  <2>2. new \in [Ranks -> [Nodes -> Seq(Nodes)]] BY SMT DEF Init, NoEdges
  <2>3. changed \in [Ranks -> BOOLEAN] BY DEF Init
  <2>4. \A r \in Ranks : levels[r] # <<>> /\ Latest(levels[r]).size \in InitNodes .. nextNode
    BY <1>1, <1>4, <2>1, ConstantTypes, SMT
  <2>5. vertices \in [Ranks -> 0 .. nextNode - 1] /\ announced \in [Ranks -> 0 .. nextNode - 1]
    BY <2>1, ConstantTypes, SMT DEF Init
  <2>6. added \in 0 .. MaxEdges /\ merges \in 0 .. MaxMerges
    BY ConstantsAssumption, SMT DEF Init
  <2>7. current \in [Ranks -> Nat]
    <3>1. ASSUME NEW r \in Ranks PROVE NumLevels(r) \in Nat
      <4>1. Len(levels[r]) + 1 = 1 + 1 BY <1>4
      <4> QED BY <4>1, SMT DEF NumLevels
    <3>2. current = [r \in Ranks |-> NumLevels(r)] BY DEF Init
    <3> QED BY <3>1, <3>2
  <2>8. saved \in [Ranks -> {"never", "since", "before"}] BY DEF Init
  <2> QED BY <2>1, <2>2, <2>3, <2>4, <2>5, <2>6, <2>7, <2>8 DEF TypeOK
<1>6. Stacks BY <1>3, <1>4 DEF Stacks
<1>7. Announced BY <1>2, <1>4, ConstantTypes, SMT DEF Announced
<1>8. BasesAgree BY <1>4, Zenon DEF BasesAgree
<1> QED BY <1>5, <1>6, <1>7, <1>8 DEF IInv

\* A rank counts its own vertices for a merge, and no more than there are;
\* ranks that have all saved count the same.
LEMMA SizesAgree ==
  ASSUME IInv
  PROVE  /\ AllSaved => \A r, s \in Ranks : MergedSize(r) = MergedSize(s)
         /\ \A r \in Ranks : MergedSize(r) \in InitNodes .. nextNode
<1> DEFINE Known(r) == {LastVertex(r, q) : q \in Ranks}
<1>1. /\ nextNode \in Nat /\ InitNodes \in Nat \ {0} /\ nextNode - 1 \in Nat
      /\ \A r \in Ranks : vertices[r] \in 0 .. nextNode - 1 /\ announced[r] \in 0 .. nextNode - 1
  BY ConstantTypes, SMT DEF IInv, TypeOK
<1>2. ASSUME NEW r \in Ranks
      PROVE  /\ Known(r) \in SUBSET (0 .. nextNode - 1)
             /\ Known(r) # {}
             /\ vertices[r] \in Known(r)
  <2>1. \A q \in Ranks : LastVertex(r, q) \in 0 .. nextNode - 1 BY <1>1 DEF LastVertex
  <2>2. LastVertex(r, r) = vertices[r] BY DEF LastVertex
  <2> QED BY <2>1, <2>2
<1>3. ASSUME NEW r \in Ranks
      PROVE  /\ Max(Known(r)) \in Known(r)
             /\ \A x \in Known(r) : x <= Max(Known(r))
             /\ Max(Known(r)) \in InitNodes - 1 .. nextNode - 1
  <2>1. Max(Known(r)) \in Known(r) /\ \A x \in Known(r) : x <= Max(Known(r))
    <3> HIDE DEF Known
    <3> QED BY <1>1, <1>2, MaxExists
  <2>2. vertices[r] <= Max(Known(r)) BY <1>2, <2>1
  <2>3. Max(Known(r)) \in 0 .. nextNode - 1 BY <1>2, <2>1
  <2>4. InitNodes - 1 <= vertices[r] BY DEF IInv, Announced
  <2> HIDE DEF Known
  <2> QED BY <2>1, <2>2, <2>3, <2>4, <1>1, SMT
<1>4. ASSUME AllSaved, NEW r \in Ranks, NEW s \in Ranks
      PROVE  Max(Known(r)) = Max(Known(s))
  <2> DEFINE m == Max(Known(r))
  <2>1. /\ m \in InitNodes - 1 .. nextNode - 1
        /\ \A q \in Ranks : LastVertex(r, q) <= m
        /\ \E q \in Ranks : m = LastVertex(r, q)
    BY <1>3
  <2>2. \A q \in Ranks : \/ announced[q] = vertices[q]
                         \/ announced[q] = 0 /\ vertices[q] = InitNodes - 1
    BY <1>4 DEF IInv, TypeOK, Announced, AllSaved
  <2>3. \A q \in Ranks : InitNodes - 1 <= vertices[q] BY DEF IInv, Announced
  <2> HIDE DEF m, Known
  <2>4. \A q \in Ranks : LastVertex(s, q) <= m
    <3> TAKE q \in Ranks
    <3>1. LastVertex(r, q) <= m /\ LastVertex(r, s) <= m BY <2>1
    <3> QED BY <3>1, <2>1, <2>2, <1>1, SMT DEF LastVertex
  <2>5. \E q \in Ranks : m = LastVertex(s, q)
    <3>1. PICK q \in Ranks : m = LastVertex(r, q) BY <2>1
    <3>2. LastVertex(r, s) <= m BY <2>1
    <3>3. m = LastVertex(s, q) \/ m = LastVertex(s, s)
      BY <3>1, <3>2, <2>1, <2>2, <2>3, <1>1, SMT DEF LastVertex
    <3> QED BY <3>3
  <2>6. m \in Known(s) /\ \A x \in Known(s) : x <= m BY <2>4, <2>5 DEF Known
  <2>7. Known(s) \in SUBSET Int BY <1>2, SMT
  <2> QED BY <2>6, <2>7, MaxIs DEF m
<1>5. \A r \in Ranks : MergedSize(r) = Max(Known(r)) + 1 BY DEF MergedSize
<1> HIDE DEF Known
<1> QED BY <1>1, <1>3, <1>4, <1>5, SMT

\* All ranks gather the same neighbours.
LEMMA ListsAgree ==
  ASSUME IInv, Fresh, NEW r \in Ranks, NEW s \in Ranks, NEW v \in Nat
  PROVE  Gathered(r, v) = Gathered(s, v)
<1> DEFINE Of(x, q) == IF HasVertex(x, q, v) THEN ToSet(SnapshotNeighbours(levels[q], v)) ELSE {}
<1>1. levels[r][1] = levels[s][1] BY DEF IInv, BasesAgree
<1>2. ASSUME NEW q \in Ranks PROVE Of(r, q) = Of(s, q)
  <2>1. CASE announced[q] = vertices[q] BY <2>1 DEF HasVertex, LastVertex
  <2>2. CASE Len(levels[q]) = 1
    <3>1. SnapshotNeighbours(levels[q], v) = <<>> BY <2>2 DEF SnapshotNeighbours
    <3>2. ToSet(<<>>) = {} BY DEF ToSet
    <3> QED BY <3>1, <3>2
  <2> QED BY <2>1, <2>2 DEF IInv, TypeOK, Announced
<1>3. {Of(r, q) : q \in Ranks} = {Of(s, q) : q \in Ranks} BY <1>2
<1> QED BY <1>1, <1>3, Zenon DEF Gathered

(***************************************************************************)
(* The steps.                                                              *)
(***************************************************************************)

LEMMA AddNodeIInv == IInv /\ AddNode => IInv'
<1> SUFFICES ASSUME IInv, AddNode PROVE IInv' OBVIOUS
<1> USE DEF AddNode, saveVars
<1>1. TypeOK'
  <2>1. nextNode \in InitNodes .. MaxNodes /\ nextNode' \in InitNodes .. MaxNodes
    BY ConstantTypes, SMT DEF IInv, TypeOK
  <2>2. \A r \in Ranks : levels'[r] # <<>> /\ Latest(levels'[r]).size \in InitNodes .. nextNode'
    BY <2>1, ConstantTypes, SMT DEF IInv, TypeOK
  <2>3. vertices' \in [Ranks -> 0 .. nextNode' - 1] /\ announced' \in [Ranks -> 0 .. nextNode' - 1]
    BY <2>1, ConstantTypes, SMT DEF IInv, TypeOK
  <2> QED BY <2>1, <2>2, <2>3 DEF IInv, TypeOK
<1>2. Stacks' BY DEF IInv, Stacks
<1>3. Announced' BY DEF IInv, Announced
<1>4. Fresh => BasesAgree' BY DEF IInv, BasesAgree
<1> QED BY <1>1, <1>2, <1>3, <1>4 DEF IInv

LEMMA AddEdgeIInv ==
  ASSUME NEW r \in Ranks, NEW s \in Sources, NEW t \in Targets
  PROVE  IInv /\ AddEdge(r, s, t) => IInv'
<1> SUFFICES ASSUME IInv, AddEdge(r, s, t) PROVE IInv' OBVIOUS
<1> USE DEF AddEdge, saveVars
<1>1. TypeOK'
  <2>1. new' \in [Ranks -> [Nodes -> Seq(Nodes)]]
    <3>1. new \in [Ranks -> [Nodes -> Seq(Nodes)]] /\ s \in Nodes /\ t \in Nodes
      BY ConstantTypes DEF IInv, TypeOK
    <3>2. Append(new[r][s], t) \in Seq(Nodes) BY <3>1, AppendProperties
    <3> QED BY <3>1, <3>2
  <2>2. changed' \in [Ranks -> BOOLEAN] BY DEF IInv, TypeOK
  <2>3. added' \in 0 .. MaxEdges BY ConstantsAssumption, SMT DEF IInv, TypeOK
  <2> QED BY <2>1, <2>2, <2>3 DEF IInv, TypeOK
<1>2. Stacks' BY DEF IInv, Stacks
<1>3. Announced' BY DEF IInv, Announced
<1>4. Fresh => BasesAgree' BY DEF IInv, BasesAgree
<1> QED BY <1>1, <1>2, <1>3, <1>4 DEF IInv

LEMMA CheckpointIInv ==
  ASSUME NEW r \in Ranks
  PROVE  IInv /\ Checkpoint(r) => IInv'
<1> SUFFICES ASSUME IInv, Checkpoint(r) PROVE IInv' OBVIOUS
<1> DEFINE level == NewLevel(levels[r], new[r], nextNode)
<1>1. /\ DOMAIN levels = Ranks
      /\ \A q \in Ranks : IsStack(levels[q])
      /\ DOMAIN levels' = Ranks
      /\ levels'[r] = Append(levels[r], level) \/ levels'[r] = levels[r]
      /\ \A q \in Ranks \ {r} : levels'[q] = levels[q]
  BY Zenon DEF IInv, Stacks, Checkpoint
<1>2. level.size = nextNode BY Sizes
<1> HIDE DEF level
<1>3. \A q \in Ranks : /\ IsStack(levels'[q])
                       /\ levels'[q][1] = levels[q][1]
                       /\ \/ Latest(levels'[q]) = Latest(levels[q])
                          \/ Latest(levels'[q]) = level
  <2> TAKE q \in Ranks
  <2>1. IsStack(levels[q]) BY <1>1
  <2>2. levels'[q] = Append(levels[q], level) \/ levels'[q] = levels[q] BY <1>1
  <2>3. /\ IsStack(Append(levels[q], level))
        /\ Append(levels[q], level)[1] = levels[q][1]
        /\ Latest(Append(levels[q], level)) = level
    BY <2>1, StackAppend
  <2> QED BY <2>1, <2>2, <2>3, Zenon
<1>4. TypeOK'
  <2>1. nextNode \in InitNodes .. MaxNodes /\ nextNode' = nextNode BY DEF IInv, TypeOK, Checkpoint
  <2>2. new' \in [Ranks -> [Nodes -> Seq(Nodes)]]
    <3>1. NoEdges \in [Nodes -> Seq(Nodes)] BY SMT DEF NoEdges
    <3> QED BY <3>1 DEF IInv, TypeOK, Checkpoint
  <2>3. changed' \in [Ranks -> BOOLEAN] BY DEF IInv, TypeOK, Checkpoint
  <2>4. \A q \in Ranks : levels'[q] # <<>> /\ Latest(levels'[q]).size \in InitNodes .. nextNode'
    <3> TAKE q \in Ranks
    <3>1. levels'[q] # <<>> BY <1>3 DEF IsStack
    <3>2. Latest(levels[q]).size \in InitNodes .. nextNode BY DEF IInv, TypeOK
    <3>3. nextNode \in InitNodes .. nextNode BY <2>1, ConstantTypes, SMT
    <3> QED BY <1>2, <1>3, <2>1, <3>1, <3>2, <3>3
  <2>5. vertices' \in [Ranks -> 0 .. nextNode' - 1] /\ announced' \in [Ranks -> 0 .. nextNode' - 1]
    <3>1. nextNode - 1 \in 0 .. nextNode - 1 BY <2>1, ConstantTypes, SMT
    <3> QED BY <2>1, <3>1 DEF IInv, TypeOK, Checkpoint
  <2>6. current' \in [Ranks -> Nat]
    <3> DEFINE n == Len(levels'[r])
    <3>1. IsStack(levels'[r]) BY <1>3
    <3>2. n \in Nat BY <3>1, SMT DEF IsStack
    <3> HIDE DEF n
    <3>3. n + 1 \in Nat BY <3>2, SMT
    <3>4. NumLevels(r)' = n + 1 BY DEF NumLevels, n
    <3> QED BY <3>3, <3>4 DEF IInv, TypeOK, Checkpoint
  <2>7. saved' \in [Ranks -> {"never", "since", "before"}] BY DEF IInv, TypeOK, Checkpoint
  <2>8. added' = added /\ merges' = merges BY DEF Checkpoint
  <2> QED BY <2>1, <2>2, <2>3, <2>4, <2>5, <2>6, <2>7, <2>8 DEF IInv, TypeOK
<1>5. Stacks' BY <1>1, <1>3 DEF Stacks
<1>6. Announced'
  <2> SUFFICES ASSUME NEW q \in Ranks
               PROVE  /\ InitNodes - 1 <= vertices'[q]
                      /\ saved'[q] = "since" => announced'[q] = vertices'[q]
                      /\ saved'[q] # "since" => announced'[q] = 0 /\ Len(levels'[q]) = 1
                      /\ saved'[q] = "never" => vertices'[q] = InitNodes - 1
    BY DEF Announced
  <2>1. CASE q = r
    <3>1. vertices'[r] = nextNode - 1 /\ announced'[r] = nextNode - 1 /\ saved'[r] = "since"
      BY DEF IInv, TypeOK, Checkpoint
    <3>2. InitNodes - 1 <= nextNode - 1 BY ConstantTypes, SMT DEF IInv, TypeOK
    <3> QED BY <2>1, <3>1, <3>2
  <2>2. CASE q # r
    <3>1. /\ vertices'[q] = vertices[q] /\ announced'[q] = announced[q]
          /\ saved'[q] = saved[q] /\ levels'[q] = levels[q]
      BY <1>1, <2>2 DEF IInv, TypeOK, Checkpoint
    <3> QED BY <3>1 DEF IInv, Announced
  <2> QED BY <2>1, <2>2
<1>7. Fresh => BasesAgree' BY <1>3, ZenonT(30) DEF IInv, BasesAgree
<1> QED BY <1>4, <1>5, <1>6, <1>7 DEF IInv

LEMMA MergeIInv == IInv /\ Merge => IInv'
<1> SUFFICES ASSUME IInv, Merge PROVE IInv' OBVIOUS
<1> DEFINE lists(r) == [v \in 0 .. MergedSize(r) - 1 |-> Gathered(r, v)]
           base(r) == MergedLevel(lists(r), MergedSize(r))
<1>1. DOMAIN levels' = Ranks /\ \A r \in Ranks : levels'[r] = <<base(r)>>
  BY Zenon DEF Merge
<1>2. ASSUME Fresh, NEW r \in Ranks, NEW s \in Ranks PROVE base(r) = base(s)
  <2>0. AllSaved BY <1>2 DEF Merge, AllSaved
  <2>1. MergedSize(r) = MergedSize(s) BY <2>0, SizesAgree
  <2>2. \A v \in 0 .. MergedSize(r) - 1 : Gathered(r, v) = Gathered(s, v)
    <3> TAKE v \in 0 .. MergedSize(r) - 1
    <3>1. v \in Nat BY SMT
    <3> QED BY <1>2, <3>1, ListsAgree
  <2>3. lists(r) = lists(s) BY <2>1, <2>2
  <2> HIDE DEF lists
  <2> QED BY <2>1, <2>3
<1>3. \A r \in Ranks : base(r).size = MergedSize(r) BY Sizes
<1> HIDE DEF base
<1>4. \A r \in Ranks : /\ IsStack(levels'[r]) /\ levels'[r] # <<>>
                       /\ levels'[r][1] = base(r) /\ Latest(levels'[r]) = base(r)
                       /\ Len(levels'[r]) = 1
  <2> TAKE r \in Ranks
  <2>1. levels'[r] = <<base(r)>> BY <1>1
  <2>2. /\ IsStack(<<base(r)>>) /\ <<base(r)>>[1] = base(r)
        /\ Latest(<<base(r)>>) = base(r) /\ Len(<<base(r)>>) = 1
    BY StackOfOne
  <2>3. IsStack(levels'[r]) BY <2>1, <2>2
  <2>4. levels'[r] # <<>> BY <2>3 DEF IsStack
  <2> QED BY <2>1, <2>2, <2>3, <2>4, Zenon
<1>5. TypeOK'
  <2>1. \A r \in Ranks : levels'[r] # <<>> /\ Latest(levels'[r]).size \in InitNodes .. nextNode
    BY <1>3, <1>4, SizesAgree, Zenon
  <2>2. merges' \in 0 .. MaxMerges BY ConstantsAssumption, SMT DEF IInv, TypeOK, Merge
  <2>3. announced' \in [Ranks -> 0 .. nextNode - 1]
    <3>1. 0 \in 0 .. nextNode - 1 BY ConstantTypes, SMT DEF IInv, TypeOK
    <3> QED BY <3>1 DEF Merge
  <2>4. saved' \in [Ranks -> {"never", "since", "before"}] BY DEF IInv, TypeOK, Merge
  <2>5. UNCHANGED <<nextNode, new, changed, vertices, current, added>> BY DEF Merge
  <2> QED BY <2>1, <2>2, <2>3, <2>4, <2>5 DEF IInv, TypeOK
<1>6. Stacks' BY <1>1, <1>4 DEF Stacks
<1>7. Announced'
  <2> SUFFICES ASSUME NEW r \in Ranks
               PROVE  /\ InitNodes - 1 <= vertices'[r]
                      /\ saved'[r] = "since" => announced'[r] = vertices'[r]
                      /\ saved'[r] # "since" => announced'[r] = 0 /\ Len(levels'[r]) = 1
                      /\ saved'[r] = "never" => vertices'[r] = InitNodes - 1
    BY DEF Announced
  <2>1. /\ vertices'[r] = vertices[r] /\ announced'[r] = 0
        /\ saved'[r] # "since" /\ (saved'[r] = "never" => saved[r] = "never")
    BY DEF Merge
  <2> QED BY <1>4, <2>1 DEF IInv, Announced
<1>8. Fresh => BasesAgree' BY <1>2, <1>4, Zenon DEF BasesAgree
<1> QED BY <1>5, <1>6, <1>7, <1>8 DEF IInv

LEMMA NextIInv == IInv /\ [Next]_vars => IInv'
<1> SUFFICES ASSUME IInv, [Next]_vars PROVE IInv' OBVIOUS
<1>1. CASE AddNode BY <1>1, AddNodeIInv
<1>2. CASE \E r \in Ranks, s \in Sources, t \in Targets : AddEdge(r, s, t) BY <1>2, AddEdgeIInv
<1>3. CASE \E r \in Ranks : Checkpoint(r) BY <1>3, CheckpointIInv
<1>4. CASE Merge BY <1>4, MergeIInv
<1>5. CASE UNCHANGED vars
  BY <1>5 DEF vars, saveVars, IInv, TypeOK, Stacks, Announced, BasesAgree
<1> QED BY <1>1, <1>2, <1>3, <1>4, <1>5 DEF Next

LEMMA Invariance == Spec => []IInv
BY InitIInv, NextIInv, PTL DEF Spec

-----------------------------------------------------------------------------

\* The state keeps its types: a rank never has a level of more nodes than
\* there are, nor a last vertex that is no node.
THEOREM TypeCorrect == Spec => []TypeOK
<1>1. IInv => TypeOK BY DEF IInv
<1> QED BY <1>1, Invariance, PTL

\* All ranks have the same level 0, for every graph and whatever nodes,
\* edges, checkpoints and merges there are, though each counts the vertices
\* on its own and forgets those of the others with each merge
\* (snapshot_merger.cpp:136-140, 372-429), if no rank that has made a
\* checkpoint merges twice without another.
THEOREM BasesEqual ==
  ASSUME Fresh
  PROVE  Spec => []BasesAgree
<1>1. IInv => BasesAgree BY DEF IInv
<1> QED BY <1>1, Invariance, PTL

-----------------------------------------------------------------------------
(***************************************************************************)
(* Edge tables have room.  init_level gives the table a size that it works *)
(* out from the degrees (values_length); init_node and write_values then   *)
(* fill it without a test.  The cells of the first v nodes never exceed    *)
(* what their edges and lists are counted for (Fitting), by the least v    *)
(* for which they would.  That the recursive functions of NewLevel exist   *)
(* is shown in the same way.                                               *)
(***************************************************************************)

\* A sequence, of whatever it holds.
IsSeq(s) == s \in Seq(ToSet(s))

LEMMA SeqFacts ==
  ASSUME NEW S, NEW s \in Seq(S)
  PROVE  IsSeq(s) /\ Len(s) \in Nat /\ DOMAIN s = 1 .. Len(s)
<1>1. DOMAIN s = 1 .. Len(s) /\ Len(s) \in Nat BY SMT
<1>2. s = [i \in 1 .. Len(s) |-> s[i]] BY <1>1, SMT
<1>3. \A i \in 1 .. Len(s) : s[i] \in ToSet(s) BY <1>1 DEF ToSet
<1> QED BY <1>1, <1>2, <1>3, SMT DEF IsSeq

LEMMA Concatenated ==
  ASSUME NEW s, NEW t, IsSeq(s), IsSeq(t)
  PROVE  IsSeq(s \o t) /\ Len(s \o t) = Len(s) + Len(t)
<1> DEFINE S == ToSet(s) \cup ToSet(t)
<1>1. s \in Seq(S) /\ t \in Seq(S) BY SMT DEF IsSeq
<1> HIDE DEF S
<1>2. s \o t \in Seq(S) /\ Len(s \o t) = Len(s) + Len(t) BY <1>1, SMT
<1> QED BY <1>2, SeqFacts

\* The cells of one node's new edges.
LEMMA EdgeCells ==
  ASSUME NEW S, NEW targets \in Seq(S)
  PROVE  LET cells == [i \in DOMAIN targets |-> EdgeTo(targets[i])]
         IN  IsSeq(cells) /\ Len(cells) = Len(targets)
<1> DEFINE cells == [i \in DOMAIN targets |-> EdgeTo(targets[i])]
           n == Len(targets)
<1>1. n \in Nat /\ DOMAIN targets = 1 .. n BY SMT
<1>2. cells = [i \in 1 .. n |-> EdgeTo(targets[i])] BY <1>1
<1>3. cells \in Seq({EdgeTo(targets[i]) : i \in 1 .. n}) /\ Len(cells) = n
  <2> HIDE DEF n
  <2> QED BY <1>1, <1>2, SMT
<1> QED BY <1>3, SeqFacts

LEMMA ContinuationIs ==
  ASSUME NEW k \in Nat, NEW old, NEW S, NEW targets \in Seq(S)
  PROVE  /\ IsSeq(ContinuationCells(k, old, targets))
         /\ Len(ContinuationCells(k, old, targets)) =
               IF k > 0 /\ targets # <<>> THEN ContinuationSize ELSE 0
<1>1. <<>> \in Seq({}) /\ Len(<<>>) = 0 BY SMT
<1>2. \A a, b : <<a, b>> \in Seq({a, b}) /\ Len(<<a, b>>) = 2 BY SMT
<1>3. IsSeq(<<>>) BY <1>1, SeqFacts
<1>4. IsSeq(Continuation(old)) /\ Len(Continuation(old)) = ContinuationSize
  BY <1>2, SeqFacts DEF Continuation, ContinuationSize
<1>5. CASE k > 0 /\ targets # <<>>
  <2>1. ContinuationCells(k, old, targets) = Continuation(old) BY <1>5 DEF ContinuationCells
  <2> QED BY <2>1, <1>4, <1>5
<1>6. CASE ~ (k > 0 /\ targets # <<>>)
  <2>1. ContinuationCells(k, old, targets) = <<>> BY <1>6 DEF ContinuationCells
  <2> QED BY <2>1, <1>1, <1>3, <1>6
<1> QED BY <1>5, <1>6

\* What a table and its bounds are after node v: the cells fit.
Fitting(k, cells, e, c) ==
    /\ IsSeq(cells) /\ e \in Nat /\ c \in Nat
    /\ Len(cells) <= e + (IF k = 0 THEN 0 ELSE c * ContinuationSize)

LEMMA InitNodeFits ==
  ASSUME NEW prev, NEW k \in Nat, NEW table, NEW v, NEW S, NEW targets \in Seq(S),
         NEW e, NEW c, Fitting(k, table.cells, e, c)
  PROVE  Fitting(k, InitNode(prev, k, table, v, targets).cells,
                 e + Len(targets), c + (IF targets = <<>> THEN 0 ELSE 1))
<1> DEFINE t == InitNode(prev, k, table, v, targets)
           old == Previous(prev, v)
           more == [i \in DOMAIN targets |-> EdgeTo(targets[i])]
           rest == ContinuationCells(k, old, targets)
<1>1. \/ t = table /\ targets = <<>>
      \/ t.cells = table.cells \o more \o rest
  BY Zenon DEF InitNode
<1>2. IsSeq(more) /\ Len(more) = Len(targets) BY EdgeCells
<1>3. IsSeq(rest) /\ Len(rest) = IF k > 0 /\ targets # <<>> THEN ContinuationSize ELSE 0
  BY ContinuationIs
<1> HIDE DEF more, rest, t
<1>4. IsSeq(table.cells) /\ e \in Nat /\ c \in Nat /\ Len(table.cells) \in Nat
  <2>1. IsSeq(table.cells) /\ e \in Nat /\ c \in Nat BY DEF Fitting
  <2> QED BY <2>1, SeqFacts DEF IsSeq
<1>5. /\ IsSeq(table.cells \o more \o rest)
      /\ Len(table.cells \o more \o rest) = Len(table.cells) + Len(more) + Len(rest)
  <2>1. IsSeq(table.cells \o more) /\ Len(table.cells \o more) = Len(table.cells) + Len(more)
    BY <1>2, <1>4, Concatenated
  <2> QED BY <2>1, <1>3, Concatenated
<1>6. Len(targets) \in Nat /\ (targets = <<>> => Len(targets) = 0) BY SMT
<1>7. CASE t = table /\ targets = <<>>
  <2>1. e + Len(targets) = e /\ c + 0 = c BY <1>4, <1>6, <1>7, SMT
  <2> QED BY <2>1, <1>7 DEF Fitting, t
<1>8. CASE t.cells = table.cells \o more \o rest
  <2>1. IsSeq(t.cells) /\ Len(t.cells) = Len(table.cells) + Len(targets) + Len(rest)
    BY <1>2, <1>5, <1>8
  <2>2. Len(table.cells) <= e + (IF k = 0 THEN 0 ELSE c * ContinuationSize) BY DEF Fitting
  <2> DEFINE d == c + (IF targets = <<>> THEN 0 ELSE 1)
  <2>3. d \in Nat /\ e + Len(targets) \in Nat
        /\ Len(t.cells) <= e + Len(targets) + (IF k = 0 THEN 0 ELSE d * ContinuationSize)
    <3> DEFINE a == Len(table.cells)
               b == Len(targets)
               x == Len(rest)
    <3>1. a \in Nat /\ b \in Nat /\ e \in Nat /\ c \in Nat BY <1>4, <1>6
    <3>2. x = IF k > 0 /\ targets # <<>> THEN 2 ELSE 0 BY <1>3 DEF ContinuationSize
    <3>3. a <= e + (IF k = 0 THEN 0 ELSE c * 2) BY <2>2 DEF ContinuationSize
    <3>4. Len(t.cells) = a + b + x BY <2>1
    <3>0. b = Len(targets) OBVIOUS
    <3> HIDE DEF a, b, x
    <3>5. CASE targets = <<>>
      <4>1. d = c /\ x = 0 BY <3>1, <3>2, <3>5, SMT
      <4> HIDE DEF d
      <4> QED BY <3>0, <4>1, <3>1, <3>3, <3>4, SMT DEF ContinuationSize
    <3>6. CASE targets # <<>>
      <4>1. d = c + 1 BY <3>6
      <4>2. x = IF k > 0 THEN 2 ELSE 0 BY <3>2, <3>6
      <4> HIDE DEF d
      <4> QED BY <3>0, <4>1, <4>2, <3>1, <3>3, <3>4, SMT DEF ContinuationSize
    <3> QED BY <3>5, <3>6
  <2> QED BY <2>1, <2>3 DEF Fitting, t
<1> QED BY <1>1, <1>7, <1>8

\* The recursive functions of NewLevel, up to node n.
Below(lvs) == IF Len(lvs) = 0 THEN NoLevel ELSE lvs[Len(lvs)]
TableOf(lvs, lists, size, n, t) ==
    t = [v \in 0 .. n |->
            IF v = 0 THEN [pages |-> InheritedPages(Below(lvs), size), cells |-> <<>>]
            ELSE InitNode(Below(lvs), Len(lvs), t[v - 1], v - 1, lists[v - 1])]
EdgesUpTo(lists, n, e) == e = [v \in 0 .. n |-> IF v = 0 THEN 0 ELSE e[v - 1] + Len(lists[v - 1])]
ListsUpTo(lists, n, c) ==
    c = [v \in 0 .. n |-> IF v = 0 THEN 0 ELSE c[v - 1] + (IF lists[v - 1] = <<>> THEN 0 ELSE 1)]

\* There are such functions: if not, there is a least n without.
LEMMA RecursionExists ==
  ASSUME NEW lvs, NEW lists, NEW size, NEW n \in Nat
  PROVE  /\ \E t : TableOf(lvs, lists, size, n, t)
         /\ \E e : EdgesUpTo(lists, n, e)
         /\ \E c : ListsUpTo(lists, n, c)
<1> DEFINE Has(m) == /\ \E t : TableOf(lvs, lists, size, m, t)
                     /\ \E e : EdgesUpTo(lists, m, e)
                     /\ \E c : ListsUpTo(lists, m, c)
           T == {m \in Nat : ~ Has(m)}
<1>1. Has(0)
  <2>1. TableOf(lvs, lists, size, 0, [v \in 0 .. 0 |-> [pages |-> InheritedPages(Below(lvs), size), cells |-> <<>>]])
    BY SMT DEF TableOf
  <2>2. EdgesUpTo(lists, 0, [v \in 0 .. 0 |-> 0]) BY SMT DEF EdgesUpTo
  <2>3. ListsUpTo(lists, 0, [v \in 0 .. 0 |-> 0]) BY SMT DEF ListsUpTo
  <2> QED BY <2>1, <2>2, <2>3
<1>2. ASSUME NEW m \in Nat \ {0}, Has(m - 1) PROVE Has(m)
  <2>1. PICK t : TableOf(lvs, lists, size, m - 1, t) BY <1>2
  <2>2. PICK e : EdgesUpTo(lists, m - 1, e) BY <1>2
  <2>3. PICK c : ListsUpTo(lists, m - 1, c) BY <1>2
  <2>4. m - 1 \in Nat /\ 0 .. m = (0 .. m - 1) \cup {m} /\ m \notin 0 .. m - 1 /\ m - 1 \in 0 .. m - 1
        /\ \A v \in 0 .. m : v # 0 => v - 1 \in 0 .. m - 1
    BY SMT
  <2> DEFINE P(x, v) == InitNode(Below(lvs), Len(lvs), x, v - 1, lists[v - 1])
             base == [pages |-> InheritedPages(Below(lvs), size), cells |-> <<>>]
             u == [v \in 0 .. m |-> IF v = m THEN P(t[m - 1], m) ELSE t[v]]
             f == [v \in 0 .. m |-> IF v = m THEN e[m - 1] + Len(lists[m - 1]) ELSE e[v]]
             d == [v \in 0 .. m |-> IF v = m THEN c[m - 1] + (IF lists[m - 1] = <<>> THEN 0 ELSE 1)
                                    ELSE c[v]]
  <2>5. TableOf(lvs, lists, size, m, u)
    <3>1. \A v \in 0 .. m - 1 : t[v] = IF v = 0 THEN base ELSE P(t[v - 1], v)
      BY <2>1, Zenon DEF TableOf
    <3>2. \A v \in 0 .. m : v # 0 => u[v - 1] = t[v - 1] BY <2>4
    <3>3. ASSUME NEW v \in 0 .. m PROVE u[v] = IF v = 0 THEN base ELSE P(u[v - 1], v)
      <4>1. CASE v = m
        <5>1. u[m - 1] = t[m - 1] BY <2>4
        <5>2. u[m] = P(t[m - 1], m) BY <4>1
        <5>3. m # 0 OBVIOUS
        <5> QED BY <5>1, <5>2, <5>3, <4>1
      <4>2. CASE v # m
        <5>1. v \in 0 .. m - 1 /\ u[v] = t[v] BY <2>4, <4>2
        <5>2. v # 0 => u[v - 1] = t[v - 1] BY <3>2
        <5>3. t[v] = IF v = 0 THEN base ELSE P(t[v - 1], v) BY <3>1, <5>1
        <5> HIDE DEF u, P
        <5> QED BY <5>1, <5>2, <5>3
      <4> QED BY <4>1, <4>2
    <3>4. u = [v \in 0 .. m |-> u[v]] OBVIOUS
    <3> HIDE DEF u
    <3>5. u = [v \in 0 .. m |-> IF v = 0 THEN base ELSE P(u[v - 1], v)] BY <3>3, <3>4, Zenon
    <3> QED BY <3>5, Zenon DEF TableOf
  <2>6. EdgesUpTo(lists, m, f)
    <3>1. \A v \in 0 .. m - 1 : e[v] = IF v = 0 THEN 0 ELSE e[v - 1] + Len(lists[v - 1])
      BY <2>2, Zenon DEF EdgesUpTo
    <3>2. \A v \in 0 .. m : v # 0 => f[v - 1] = e[v - 1] BY <2>4
    <3>3. ASSUME NEW v \in 0 .. m PROVE f[v] = IF v = 0 THEN 0 ELSE f[v - 1] + Len(lists[v - 1])
      BY <2>4, <3>1, <3>2
    <3>4. f = [v \in 0 .. m |-> f[v]] OBVIOUS
    <3> HIDE DEF f
    <3>5. f = [v \in 0 .. m |-> IF v = 0 THEN 0 ELSE f[v - 1] + Len(lists[v - 1])] BY <3>3, <3>4, Zenon
    <3> QED BY <3>5, Zenon DEF EdgesUpTo
  <2>7. ListsUpTo(lists, m, d)
    <3>1. \A v \in 0 .. m - 1 :
            c[v] = IF v = 0 THEN 0 ELSE c[v - 1] + (IF lists[v - 1] = <<>> THEN 0 ELSE 1)
      BY <2>3, Zenon DEF ListsUpTo
    <3>2. \A v \in 0 .. m : v # 0 => d[v - 1] = c[v - 1] BY <2>4
    <3>3. ASSUME NEW v \in 0 .. m
          PROVE  d[v] = IF v = 0 THEN 0 ELSE d[v - 1] + (IF lists[v - 1] = <<>> THEN 0 ELSE 1)
      BY <2>4, <3>1, <3>2
    <3>4. d = [v \in 0 .. m |-> d[v]] OBVIOUS
    <3> HIDE DEF d
    <3>5. d = [v \in 0 .. m |-> IF v = 0 THEN 0
                                ELSE d[v - 1] + (IF lists[v - 1] = <<>> THEN 0 ELSE 1)]
      BY <3>3, <3>4, Zenon
    <3> QED BY <3>5, Zenon DEF ListsUpTo
  <2> QED BY <2>5, <2>6, <2>7
<1> HIDE DEF Has
<1>3. T = {}
  <2> SUFFICES ASSUME T # {} PROVE FALSE OBVIOUS
  <2>1. T \subseteq Nat OBVIOUS
  <2>2. PICK m \in T : \A x \in T : <<x, m>> \notin Less
    <3> HIDE DEF T
    <3> QED BY <2>1, LessWellFounded, WFMin, Zenon
  <2>3. m \in Nat \ {0} /\ ~ Has(m) BY <1>1, <2>2
  <2>4. m - 1 \in Nat /\ <<m - 1, m>> \in Less BY <2>3, SMT DEF Less
  <2>5. m - 1 \notin T BY <2>2, <2>4
  <2>6. Has(m - 1) BY <2>4, <2>5
  <2> QED BY <1>2, <2>3, <2>6
<1>4. Has(n) BY <1>3
<1> QED BY <1>4, Zenon DEF Has

LEMMA NewLevelIs ==
  ASSUME NEW lvs, NEW lists, NEW size \in Nat
  PROVE  \E t, e, c :
            /\ TableOf(lvs, lists, size, size, t)
            /\ EdgesUpTo(lists, size, e)
            /\ ListsUpTo(lists, size, c)
            /\ NewLevel(lvs, lists, size).cells = t[size].cells
            /\ NewLevel(lvs, lists, size).pages =
                  CowWrite(t[size].pages, Len(lvs), size, Entry(Len(lvs), Len(t[size].cells), 0, 0))
            /\ NewLevel(lvs, lists, size).capacity = ValuesLength(Len(lvs), c[size], e[size])
<1> DEFINE t == CHOOSE x : TableOf(lvs, lists, size, size, x)
           e == CHOOSE x : EdgesUpTo(lists, size, x)
           c == CHOOSE x : ListsUpTo(lists, size, x)
<1>1. TableOf(lvs, lists, size, size, t) /\ EdgesUpTo(lists, size, e) /\ ListsUpTo(lists, size, c)
  BY RecursionExists, Zenon
<1>2. /\ NewLevel(lvs, lists, size).cells = t[size].cells
      /\ NewLevel(lvs, lists, size).pages =
            CowWrite(t[size].pages, Len(lvs), size, Entry(Len(lvs), Len(t[size].cells), 0, 0))
      /\ NewLevel(lvs, lists, size).capacity = ValuesLength(Len(lvs), c[size], e[size])
  BY Zenon DEF NewLevel, TableOf, EdgesUpTo, ListsUpTo, Below
<1> HIDE DEF t, e, c
<1> QED BY <1>1, <1>2

\* The edge table of a level that init_level makes has room for its cells.
LevelFits(l) == Len(l.cells) <= l.capacity

LEMMA NewLevelFits ==
  ASSUME NEW S, NEW size \in Nat, NEW lists, \A v \in 0 .. size - 1 : lists[v] \in Seq(S),
         NEW lvs, Len(lvs) \in Nat
  PROVE  LevelFits(NewLevel(lvs, lists, size))
<1> DEFINE k == Len(lvs)
           L == NewLevel(lvs, lists, size)
<1>1. PICK t, e, c : /\ TableOf(lvs, lists, size, size, t)
                     /\ EdgesUpTo(lists, size, e)
                     /\ ListsUpTo(lists, size, c)
                     /\ L.cells = t[size].cells
                     /\ L.pages = CowWrite(t[size].pages, k, size, Entry(k, Len(t[size].cells), 0, 0))
                     /\ L.capacity = ValuesLength(k, c[size], e[size])
  BY NewLevelIs
<1> DEFINE T == {m \in Nat : m <= size /\ ~ Fitting(k, t[m].cells, e[m], c[m])}
<1>2. Fitting(k, t[0].cells, e[0], c[0])
  <2>1. 0 \in 0 .. size BY SMT
  <2>2. t[0].cells = <<>> /\ e[0] = 0 /\ c[0] = 0
    BY <1>1, <2>1 DEF TableOf, EdgesUpTo, ListsUpTo
  <2>3. <<>> \in Seq({}) /\ Len(<<>>) = 0 BY SMT
  <2>4. IsSeq(<<>>) BY <2>3, SeqFacts
  <2> QED BY <2>2, <2>3, <2>4, SMT DEF Fitting, ContinuationSize
<1>3. ASSUME NEW m \in Nat \ {0}, m <= size, Fitting(k, t[m - 1].cells, e[m - 1], c[m - 1])
      PROVE  Fitting(k, t[m].cells, e[m], c[m])
  <2>1. m \in 0 .. size /\ m - 1 \in 0 .. size - 1 /\ m # 0 BY <1>3, SMT
  <2>2. t[m] = InitNode(Below(lvs), k, t[m - 1], m - 1, lists[m - 1])
    BY <1>1, <2>1, Zenon DEF TableOf
  <2>3. e[m] = e[m - 1] + Len(lists[m - 1])
    BY <1>1, <2>1, Zenon DEF EdgesUpTo
  <2>4. c[m] = c[m - 1] + (IF lists[m - 1] = <<>> THEN 0 ELSE 1)
    BY <1>1, <2>1, Zenon DEF ListsUpTo
  <2>5. lists[m - 1] \in Seq(S) BY <2>1
  <2> QED BY <1>3, <2>2, <2>3, <2>4, <2>5, InitNodeFits
<1>4. T = {}
  <2> SUFFICES ASSUME T # {} PROVE FALSE OBVIOUS
  <2>1. T \subseteq Nat OBVIOUS
  <2>2. PICK m \in T : \A x \in T : <<x, m>> \notin Less
    <3> HIDE DEF T
    <3> QED BY <2>1, LessWellFounded, WFMin, Zenon
  <2>3. m \in Nat \ {0} /\ m <= size /\ ~ Fitting(k, t[m].cells, e[m], c[m]) BY <1>2, <2>2
  <2>4. m - 1 \in Nat /\ m - 1 <= size /\ <<m - 1, m>> \in Less BY <2>3, SMT DEF Less
  <2>5. m - 1 \notin T BY <2>2, <2>4
  <2>6. Fitting(k, t[m - 1].cells, e[m - 1], c[m - 1]) BY <2>4, <2>5
  <2> QED BY <1>3, <2>3, <2>6
<1>5. Fitting(k, t[size].cells, e[size], c[size])
  <2>1. size \in Nat /\ size <= size BY SMT
  <2> HIDE DEF k
  <2> QED BY <1>4, <2>1
<1>6. Len(L.cells) <= L.capacity
  <2> DEFINE n == Len(L.cells)
             a == e[size]
             b == c[size]
  <2>1. a \in Nat /\ b \in Nat /\ n <= a + (IF k = 0 THEN 0 ELSE b * 2)
    BY <1>1, <1>5 DEF Fitting, ContinuationSize
  <2>2. L.capacity = IF k = 0 THEN a ELSE a + (b + 4) * 2
    BY <1>1 DEF ValuesLength, ContinuationSize
  <2>3. n \in Nat
    <3>1. IsSeq(L.cells) BY <1>1, <1>5 DEF Fitting
    <3> QED BY <3>1, SeqFacts DEF IsSeq
  <2>4. k \in Nat OBVIOUS
  <2>5. n <= L.capacity
    <3> HIDE DEF n, a, b, k
    <3>1. CASE k = 0 BY <2>1, <2>2, <2>3, <3>1, SMT
    <3>2. CASE k # 0 BY <2>1, <2>2, <2>3, <3>2, SMT
    <3> QED BY <3>1, <3>2
  <2> QED BY <2>5
<1> QED BY <1>6 DEF LevelFits

\* The levels that checkpoints have made.
MadeLevelsFit ==
    \A r \in Ranks : \A k \in 2 .. Len(levels[r]) : LevelFits(levels[r][k])

LEMMA MadeLevelsInit == Init => MadeLevelsFit
<1> SUFFICES ASSUME Init, NEW r \in Ranks PROVE \A k \in 2 .. Len(levels[r]) : LevelFits(levels[r][k])
  BY DEF MadeLevelsFit
<1>1. Len(levels[r]) = 1 BY StackOfOne DEF Init
<1> QED BY <1>1, SMT

LEMMA MadeLevelsStep == IInv /\ MadeLevelsFit /\ [Next]_vars => MadeLevelsFit'
<1> SUFFICES ASSUME IInv, MadeLevelsFit, [Next]_vars PROVE MadeLevelsFit' OBVIOUS
<1>1. CASE levels' = levels BY <1>1 DEF MadeLevelsFit
<1>2. ASSUME NEW r \in Ranks, Checkpoint(r) PROVE MadeLevelsFit'
  <2> DEFINE level == NewLevel(levels[r], new[r], nextNode)
  <2>1. /\ \/ levels'[r] = Append(levels[r], level)
           \/ levels'[r] = levels[r]
        /\ \A q \in Ranks \ {r} : levels'[q] = levels[q]
    BY <1>2, Zenon DEF IInv, Stacks, Checkpoint
  <2>2. IsStack(levels[r]) BY DEF IInv, Stacks
  <2>3. LevelFits(level)
    <3>1. new[r] \in [Nodes -> Seq(Nodes)] BY DEF IInv, TypeOK
    <3>2. nextNode \in Nat /\ 0 .. nextNode - 1 \subseteq Nodes
      BY ConstantTypes, SMT DEF IInv, TypeOK, Nodes
    <3>3. \A v \in 0 .. nextNode - 1 : new[r][v] \in Seq(Nodes) BY <3>1, <3>2
    <3>4. Len(levels[r]) \in Nat BY <2>2, SeqFacts DEF IsStack
    <3> QED BY <3>2, <3>3, <3>4, NewLevelFits
  <2> HIDE DEF level
  <2>4. \A k \in 2 .. Len(Append(levels[r], level)) : LevelFits(Append(levels[r], level)[k])
    <3> DEFINE s == levels[r]
               u == Append(s, level)
               S == ToSet(s) \cup {level}
    <3>1. s \in Seq(S) BY <2>2, SMT DEF IsStack
    <3>2. /\ Len(s) \in Nat /\ Len(u) = Len(s) + 1 /\ u[Len(s) + 1] = level
          /\ \A k \in 1 .. Len(s) : u[k] = s[k]
      <4> HIDE DEF S
      <4> QED BY <3>1, AppendProperties, SMT
    <3>3. \A k \in 2 .. Len(s) : LevelFits(s[k]) BY DEF MadeLevelsFit
    <3> HIDE DEF s, u
    <3>4. ASSUME NEW k \in 2 .. Len(u) PROVE LevelFits(u[k])
      <4>1. k \in 2 .. Len(s) \/ k = Len(s) + 1 BY <3>2, SMT
      <4>2. k \in 2 .. Len(s) => k \in 1 .. Len(s) BY <3>2, SMT
      <4> QED BY <4>1, <4>2, <3>2, <3>3, <2>3
    <3> QED BY <3>4 DEF u, s
  <2>5. ASSUME NEW q \in Ranks PROVE \A k \in 2 .. Len(levels'[q]) : LevelFits(levels'[q][k])
    <3>1. CASE levels'[q] = levels[q] BY <3>1 DEF MadeLevelsFit
    <3>2. CASE levels'[q] # levels[q] BY <2>1, <2>4, <3>2
    <3> QED BY <3>1, <3>2
  <2> QED BY <2>5 DEF MadeLevelsFit
<1>3. CASE Merge
  <2>1. \A r \in Ranks : \E e : levels'[r] = <<e>> BY <1>3, Zenon DEF Merge
  <2>2. \A r \in Ranks : Len(levels'[r]) = 1
    <3> TAKE r \in Ranks
    <3>1. PICK e : levels'[r] = <<e>> BY <2>1
    <3>2. Len(<<e>>) = 1 BY StackOfOne
    <3> QED BY <3>1, <3>2
  <2>3. 2 .. 1 = {} BY SMT
  <2> QED BY <2>2, <2>3 DEF MadeLevelsFit
<1>4. CASE AddNode BY <1>1, <1>4 DEF AddNode, saveVars
<1>5. CASE \E r \in Ranks, s \in Sources, t \in Targets : AddEdge(r, s, t)
  BY <1>1, <1>5 DEF AddEdge, saveVars
<1>6. CASE UNCHANGED vars BY <1>1, <1>6 DEF vars, saveVars
<1> QED BY <1>2, <1>3, <1>4, <1>5, <1>6 DEF Next

\* No checkpoint writes beyond the edge table it allocated, whatever nodes
\* and edges it saves, on any number of levels (ll_mlcsr_sp.h:687).
THEOREM CheckpointsFit == Spec => []MadeLevelsFit
<1>1. Spec => [](IInv /\ MadeLevelsFit)
  BY InitIInv, NextIInv, MadeLevelsInit, MadeLevelsStep, PTL DEF Spec
<1> QED BY <1>1, PTL

\* Induction over a set of numbers.
Inductive(S) == 0 \in S /\ \A n \in Nat : n \in S => n + 1 \in S

LEMMA AllNumbers ==
  ASSUME NEW S, Inductive(S), NEW n \in Nat
  PROVE  n \in S
<1> DEFINE T == Nat \ S
<1> SUFFICES ASSUME T # {} PROVE FALSE OBVIOUS
<1>1. PICK m \in T : \A x \in T : <<x, m>> \notin Less
  <2> HIDE DEF T
  <2>1. T \subseteq Nat BY DEF T
  <2> QED BY <2>1, LessWellFounded, WFMin, Zenon
<1>2. m \in Nat /\ m \notin S /\ m # 0 BY <1>1 DEF Inductive
<1>3. PICK d \in Nat : m = d + 1 BY <1>2, SMT
<1>4. <<d, m>> \in Less BY <1>2, <1>3, SMT DEF Less
<1>5. d \in S BY <1>1, <1>4
<1> QED BY <1>2, <1>3, <1>5 DEF Inductive

LEMMA PageSizeIs == PageSize \in Nat \ {0}
BY PageSizeAssumption

LEMMA Quotient ==
  ASSUME NEW v \in Nat
  PROVE  /\ v \div PageSize \in Nat
         /\ v % PageSize \in 0 .. PageSize - 1
         /\ v = (v \div PageSize) * PageSize + (v % PageSize)
BY PageSizeIs, SMT

\* A number is known by its quotient and remainder.
LEMMA SamePlace ==
  ASSUME NEW u \in Nat, NEW v \in Nat,
         u \div PageSize = v \div PageSize, u % PageSize = v % PageSize
  PROVE  u = v
BY Quotient, Zenon

LEMMA Times ==
  ASSUME NEW a \in Nat, NEW b \in Nat, a <= b, NEW c \in Nat
  PROVE a * c <= b * c
BY SMT

\* Quotients are ordered as the numbers are.
LEMMA QuotientBelow ==
  ASSUME NEW u \in Nat, NEW v \in Nat, u + PageSize <= v
  PROVE  u \div PageSize < v \div PageSize
<1> DEFINE a == u \div PageSize
           b == v \div PageSize
<1>1. /\ a \in Nat /\ u % PageSize \in 0 .. PageSize - 1 /\ u = a * PageSize + (u % PageSize)
      /\ b \in Nat /\ v % PageSize \in 0 .. PageSize - 1 /\ v = b * PageSize + (v % PageSize)
  BY Quotient
<1>2. PageSize \in Nat \ {0} BY PageSizeIs
<1> HIDE DEF a, b
<1>3. CASE b <= a
  <2>1. b * PageSize <= a * PageSize BY <1>1, <1>2, <1>3, Times
  <2>2. a * PageSize \in Nat /\ b * PageSize \in Nat BY <1>1, <1>2, SMT
  <2> QED BY <1>1, <1>2, <2>1, <2>2, SMT
<1> QED BY <1>1, <1>3, SMT DEF a, b

(***************************************************************************)
(* Reading a list: there is a function that a recursive definition speaks  *)
(* of if every step of it goes to a smaller argument.                      *)
(***************************************************************************)

\* f reads the list that begins at e: what is its own, then what is next.
Follows(E, own, last, next, f) ==
    f = [e \in E |-> own[e] \o (IF last[e] THEN <<>> ELSE f[next[e]])]

\* What is next is smaller.
Falling(E, last, next, rank, b) ==
    \A e \in E : /\ rank[e] \in 0 .. b
                 /\ ~ last[e] => next[e] \in E /\ rank[next[e]] < rank[e]

LEMMA ReadingExists ==
  ASSUME NEW E, NEW own, NEW last, NEW next, NEW rank, NEW b \in Nat,
         Falling(E, last, next, rank, b)
  PROVE  \E f : Follows(E, own, last, next, f)
<1> DEFINE D(n) == {e \in E : rank[e] < n}
           S == {n \in Nat : \E f : Follows(D(n), own, last, next, f)}
<1>1. 0 \in S
  <2>1. D(0) = {} BY SMT DEF Falling
  <2> DEFINE f == [e \in {} |-> own[e] \o (IF last[e] THEN <<>> ELSE own[next[e]])]
  <2>2. f = [e \in {} |-> own[e] \o (IF last[e] THEN <<>> ELSE f[next[e]])] BY Zenon
  <2> HIDE DEF f, D
  <2>3. Follows(D(0), own, last, next, f) BY <2>1, <2>2 DEF Follows
  <2> QED BY <2>3
<1>2. ASSUME NEW n \in Nat, n \in S PROVE n + 1 \in S
  <2>1. PICK f : Follows(D(n), own, last, next, f) BY <1>2
  <2> DEFINE V(h, e) == own[e] \o (IF last[e] THEN <<>> ELSE h[next[e]])
             g == [e \in D(n + 1) |-> V(f, e)]
  <2>2. \A e \in D(n) : e \in D(n + 1) BY SMT DEF Falling
  <2>3. \A e \in D(n) : f[e] = V(f, e) BY <2>1 DEF Follows
  <2>4. \A e \in D(n) : g[e] = f[e] BY <2>2, <2>3
  <2>5. ASSUME NEW e \in D(n + 1), ~ last[e] PROVE next[e] \in D(n)
    <3>1. e \in E /\ rank[e] < n + 1 OBVIOUS
    <3>2. next[e] \in E /\ rank[next[e]] < rank[e] /\ rank[next[e]] \in 0 .. b
      BY <2>5, <3>1 DEF Falling
    <3>3. rank[e] \in 0 .. b BY <3>1 DEF Falling
    <3> QED BY <3>1, <3>2, <3>3, SMT
  <2>6. \A e \in D(n + 1) : g[e] = V(f, e) OBVIOUS
  <2> HIDE DEF D
  <2>7. \A e \in D(n + 1) : g[e] = V(g, e)
    <3> TAKE e \in D(n + 1)
    <3>1. CASE last[e] BY <3>1, <2>6
    <3>2. CASE ~ last[e]
      <4>1. g[next[e]] = f[next[e]] BY <2>4, <2>5, <3>2
      <4> HIDE DEF g
      <4> QED BY <4>1, <2>6
    <3> QED BY <3>1, <3>2
  <2>8. g = [e \in D(n + 1) |-> g[e]] OBVIOUS
  <2> HIDE DEF g
  <2>9. g = [e \in D(n + 1) |-> V(g, e)] BY <2>7, <2>8
  <2>10. Follows(D(n + 1), own, last, next, g) BY <2>9, Zenon DEF Follows
  <2> QED BY <2>10
<1>3. b + 1 \in S
  <2> HIDE DEF S
  <2>1. Inductive(S) BY <1>1, <1>2 DEF Inductive
  <2> QED BY <2>1, AllNumbers
<1>4. D(b + 1) = E BY SMT DEF Falling
<1> QED BY <1>3, <1>4

(***************************************************************************)
(* The cells of a stack of levels.                                         *)
(***************************************************************************)

CellType == [target : Int, entry : Entries]

\* An entry that stands for a list in the levels numbered below n: its degree
\* is that of its own edges and of the entry they continue.
Good(L, n, e) ==
    /\ e \in Entries /\ e.level < n
    /\ \/ e.length = 0 /\ e.degree = 0
       \/ /\ e.length > 0 /\ e.level >= 0
          /\ e.degree = e.length + (IF e.level = 0 THEN 0 ELSE NextOf(L, e).degree)

\* A continuation leads further down.
CellsGood(L) ==
    \A k \in 1 .. Len(L) :
        /\ L[k].cells \in Seq(CellType)
        /\ \A i \in 1 .. Len(L[k].cells) : Good(L, k - 1, L[k].cells[i].entry)

LEMMA NilIs ==
  /\ NilEntry \in Entries /\ NilEntry.length = 0 /\ NilEntry.degree = 0 /\ NilEntry.level = -1
  /\ EdgeTo(Unset).entry = NilEntry /\ EdgeTo(Unset).target = -1
  /\ \A L : \A n \in Nat : Good(L, n, NilEntry)
<1>1. NilEntry \in Entries /\ NilEntry.length = 0 /\ NilEntry.degree = 0 /\ NilEntry.level = -1
  BY SMT DEF NilEntry, Entry, Entries, NilLevel
<1>2. EdgeTo(Unset).entry = NilEntry /\ EdgeTo(Unset).target = -1 BY SMT DEF EdgeTo, Unset
<1>3. \A L : \A n \in Nat : Good(L, n, NilEntry) BY <1>1, SMT DEF Good
<1> QED BY <1>1, <1>2, <1>3

LEMMA EntryFields ==
  ASSUME NEW e \in Entries
  PROVE  e.level \in Int /\ e.index \in Nat /\ e.length \in Nat /\ e.degree \in Nat
BY SMT DEF Entries

LEMMA StackDomain ==
  ASSUME NEW L, IsSeq(L)
  PROVE  Len(L) \in Nat /\ DOMAIN L = 1 .. Len(L)
BY SeqFacts DEF IsSeq

\* The entry of any cell of level k - 1 stands for a list further down.
LEMMA CellIs ==
  ASSUME NEW L, IsSeq(L), CellsGood(L), NEW j \in Int, NEW i \in Int
  PROVE  /\ Cell(L, j, i).target \in Int
         /\ Cell(L, j, i).entry \in Entries
         /\ j \in 0 .. Len(L) - 1 => Good(L, j, Cell(L, j, i).entry)
         /\ j \notin 0 .. Len(L) - 1 => Cell(L, j, i).entry = NilEntry
<1>1. Len(L) \in Nat /\ DOMAIN L = 1 .. Len(L) BY StackDomain
<1>2. CASE Cell(L, j, i) = EdgeTo(Unset) /\ j \notin 0 .. Len(L) - 1
  BY <1>2, NilIs
<1>3. CASE Cell(L, j, i) = EdgeTo(Unset) /\ j \in 0 .. Len(L) - 1
  <2>1. j \in Nat BY <1>3, <1>1, SMT
  <2> QED BY <1>3, <2>1, NilIs
<1>4. CASE /\ Cell(L, j, i) = L[j + 1].cells[i + 1]
           /\ j + 1 \in DOMAIN L /\ i + 1 \in DOMAIN L[j + 1].cells
  <2>1. PICK k \in 1 .. Len(L) : k = j + 1 BY <1>1, <1>4
  <2>2. L[k].cells \in Seq(CellType) BY DEF CellsGood
  <2>3. DOMAIN L[k].cells = 1 .. Len(L[k].cells) BY <2>2, SeqFacts
  <2>4. PICK m \in 1 .. Len(L[k].cells) : m = i + 1 BY <2>1, <2>3, <1>4
  <2>5. L[k].cells[m] \in CellType /\ Good(L, k - 1, L[k].cells[m].entry)
    <3>1. Good(L, k - 1, L[k].cells[m].entry) BY DEF CellsGood
    <3> DEFINE s == L[k].cells
    <3>2. s \in Seq(CellType) /\ m \in 1 .. Len(s) BY <2>2
    <3>3. s[m] \in CellType
      <4> HIDE DEF s
      <4> QED BY <3>2, SMT
    <3> QED BY <3>1, <3>3
  <2>6. k - 1 = j /\ j \in 0 .. Len(L) - 1 BY <2>1, <1>1, SMT
  <2>7. Cell(L, j, i) = L[k].cells[m] BY <1>4, <2>1, <2>4
  <2>8. \A c \in CellType : c.target \in Int /\ c.entry \in Entries BY DEF CellType
  <2> QED BY <2>5, <2>6, <2>7, <2>8
<1>5. j + 1 \in DOMAIN L => j \in 0 .. Len(L) - 1 BY <1>1, SMT
<1>6. j \in 0 .. Len(L) - 1 => j + 1 \in DOMAIN L BY <1>1, SMT
<1> QED BY <1>2, <1>3, <1>4, <1>5, Zenon DEF Cell

LEMMA NextIs ==
  ASSUME NEW L, IsSeq(L), CellsGood(L), NEW e \in Entries
  PROVE  /\ NextOf(L, e) \in Entries
         /\ e.level \in 0 .. Len(L) - 1 => Good(L, e.level, NextOf(L, e))
         /\ e.level \notin 0 .. Len(L) - 1 => NextOf(L, e) = NilEntry
<1>1. e.level \in Int /\ e.index \in Nat /\ e.length \in Nat BY EntryFields
<1>2. e.index + e.length \in Int BY <1>1
<1> QED BY <1>1, <1>2, CellIs DEF NextOf

LEMMA EdgesAre ==
  ASSUME NEW L, IsSeq(L), CellsGood(L), NEW e \in Entries
  PROVE  /\ EdgesOf(L, e) \in Seq(Int)
         /\ Len(EdgesOf(L, e)) = e.length
         /\ e.length = 0 => EdgesOf(L, e) = <<>>
<1>1. e.level \in Int /\ e.index \in Nat /\ e.length \in Nat BY EntryFields
<1> DEFINE n == e.length
           T(i) == Cell(L, e.level, e.index + i - 1).target
           s == [i \in 1 .. n |-> T(i)]
<1>2. \A i \in 1 .. n : T(i) \in Int
  <2> TAKE i \in 1 .. n
  <2>1. e.index + i - 1 \in Int BY <1>1, SMT
  <2> QED BY <1>1, <2>1, CellIs
<1>3. n \in Nat BY <1>1
<1>4. s \in Seq(Int) /\ Len(s) = n
  <2> HIDE DEF n, T
  <2> QED BY <1>2, <1>3, SMT
<1>5. n = 0 => s = <<>>
  <2> HIDE DEF s
  <2> QED BY <1>4, EmptySeq
<1> QED BY <1>4, <1>5 DEF EdgesOf

\* How far an entry is from the end of its list.
Depth(L, e) ==
    IF e = NilEntry THEN 0 ELSE IF e.level \in 1 .. Len(L) - 1 THEN e.level + 1 ELSE 1

LEMMA DepthFalls ==
  ASSUME NEW L, IsSeq(L), CellsGood(L), NEW e \in Entries
  PROVE  /\ Depth(L, e) \in 0 .. Len(L) + 1
         /\ e # NilEntry /\ e.level # 0 => Depth(L, NextOf(L, e)) < Depth(L, e)
<1>1. Len(L) \in Nat BY StackDomain
<1>2. e.level \in Int BY EntryFields
<1>3. Depth(L, e) \in 0 .. Len(L) + 1 BY <1>1, <1>2, SMT DEF Depth
<1>4. ASSUME e # NilEntry, e.level \in 1 .. Len(L) - 1
      PROVE  Depth(L, NextOf(L, e)) < Depth(L, e)
  <2>1. e.level \in 0 .. Len(L) - 1 BY <1>1, <1>4, SMT
  <2>2. Good(L, e.level, NextOf(L, e)) BY <2>1, NextIs
  <2>3. NextOf(L, e).level < e.level /\ NextOf(L, e).level \in Int
    BY <2>2, EntryFields DEF Good
  <2>4. Depth(L, e) = e.level + 1 BY <1>4 DEF Depth
  <2>5. Depth(L, NextOf(L, e)) \in {0, 1, NextOf(L, e).level + 1} BY DEF Depth
  <2> QED BY <1>1, <1>2, <1>4, <2>3, <2>4, <2>5, SMT
<1>5. ASSUME e # NilEntry, e.level \notin 0 .. Len(L) - 1
      PROVE  Depth(L, NextOf(L, e)) < Depth(L, e)
  <2>1. NextOf(L, e) = NilEntry BY <1>5, NextIs
  <2>2. Depth(L, NextOf(L, e)) = 0 BY <2>1 DEF Depth
  <2>3. e.level \notin 1 .. Len(L) - 1 BY <1>1, <1>2, <1>5, SMT
  <2>4. Depth(L, e) = 1 BY <1>5, <2>3 DEF Depth
  <2> QED BY <2>2, <2>4
<1>6. e.level # 0 => e.level \in 1 .. Len(L) - 1 \/ e.level \notin 0 .. Len(L) - 1
  BY <1>1, <1>2, SMT
<1> QED BY <1>3, <1>4, <1>5, <1>6

(***************************************************************************)
(* Reading in memory (iter_begin, iter_next).                              *)
(***************************************************************************)

RoStep(L, f, e) ==
    IF e.length = 0 THEN <<>>
    ELSE EdgesOf(L, e) \o (IF e.level = 0 THEN <<>> ELSE f[NextOf(L, e)])
IsRo(L, f) == f = [e \in Entries |-> RoStep(L, f, e)]
Ro(L) == CHOOSE f : IsRo(L, f)

LEMMA RoNeighboursAre ==
  ASSUME NEW L, NEW v
  PROVE  RoNeighbours(L, v) = Ro(L)[EntryAt(Latest(L).pages, v)]
BY Zenon DEF RoNeighbours, Ro, IsRo, RoStep

LEMMA RoExists ==
  ASSUME NEW L, IsSeq(L), CellsGood(L)
  PROVE  \A e \in Entries : Ro(L)[e] = RoStep(L, Ro(L), e)
<1> DEFINE own == [e \in Entries |-> IF e.length = 0 THEN <<>> ELSE EdgesOf(L, e)]
           last == [e \in Entries |-> e.length = 0 \/ e.level = 0]
           next == [e \in Entries |-> NextOf(L, e)]
           rank == [e \in Entries |-> Depth(L, e)]
           b == Len(L) + 1
<1>1. b \in Nat BY StackDomain
<1>2. Falling(Entries, last, next, rank, b)
  <2> SUFFICES ASSUME NEW e \in Entries
               PROVE  /\ rank[e] \in 0 .. b
                      /\ ~ last[e] => next[e] \in Entries /\ rank[next[e]] < rank[e]
    BY Zenon DEF Falling
  <2>1. rank[e] \in 0 .. b BY DepthFalls
  <2>2. ASSUME ~ last[e] PROVE next[e] \in Entries /\ rank[next[e]] < rank[e]
    <3>1. e # NilEntry /\ e.level # 0 BY <2>2, NilIs
    <3>2. next[e] = NextOf(L, e) /\ next[e] \in Entries BY NextIs
    <3>3. Depth(L, NextOf(L, e)) < Depth(L, e) BY <3>1, DepthFalls
    <3> QED BY <3>2, <3>3
  <2> QED BY <2>1, <2>2
<1> HIDE DEF own, last, next, rank, b
<1>3. PICK f : Follows(Entries, own, last, next, f) BY <1>1, <1>2, ReadingExists
<1>4. ASSUME NEW e \in Entries PROVE f[e] = RoStep(L, f, e)
  <2>1. f[e] = own[e] \o (IF last[e] THEN <<>> ELSE f[next[e]]) BY <1>3 DEF Follows
  <2>2. CASE e.length = 0
    <3>1. own[e] = <<>> /\ last[e] BY <2>2 DEF own, last
    <3>2. <<>> \o <<>> = <<>> BY SMT
    <3>3. f[e] = <<>> BY <2>1, <3>1, <3>2
    <3> QED BY <3>3, <2>2 DEF RoStep
  <2>3. CASE e.length # 0
    <3>1. own[e] = EdgesOf(L, e) /\ (last[e] <=> e.level = 0) /\ next[e] = NextOf(L, e)
      BY <2>3 DEF own, last, next
    <3> QED BY <2>1, <2>3, <3>1 DEF RoStep
  <2> QED BY <2>2, <2>3
<1>5. f = [e \in Entries |-> f[e]] BY <1>3 DEF Follows
<1>6. IsRo(L, f) BY <1>4, <1>5 DEF IsRo
<1>7. IsRo(L, Ro(L)) BY <1>6, Zenon DEF Ro
<1> QED BY <1>7, Zenon DEF IsRo

(***************************************************************************)
(* Reading the files (get_neighbours_of_vertex).                           *)
(***************************************************************************)

FileStep(L, f, p) ==
    IF p[1].level = 0 THEN <<>>
    ELSE EdgesOf(L, p[1])
             \o (IF p[2] > p[1].length THEN f[<<NextOf(L, p[1]), p[2] - p[1].length>>] ELSE <<>>)
IsFile(L, f) == f = [p \in Entries \X Int |-> FileStep(L, f, p)]
File(L) == CHOOSE f : IsFile(L, f)

LEMMA FileNeighboursAre ==
  ASSUME NEW L, NEW e
  PROVE  FileNeighbours(L, e) = File(L)[<<e, e.degree>>]
BY Zenon DEF FileNeighbours, File, IsFile, FileStep

LEMMA FileExists ==
  ASSUME NEW L, IsSeq(L), CellsGood(L)
  PROVE  \A p \in Entries \X Int : File(L)[p] = FileStep(L, File(L), p)
<1> DEFINE E == Entries \X Int
           own == [p \in E |-> IF p[1].level = 0 THEN <<>> ELSE EdgesOf(L, p[1])]
           last == [p \in E |-> p[1] = NilEntry \/ p[1].level = 0 \/ ~ p[2] > p[1].length]
           next == [p \in E |-> <<NextOf(L, p[1]), p[2] - p[1].length>>]
           rank == [p \in E |-> Depth(L, p[1])]
           b == Len(L) + 1
<1>1. b \in Nat BY StackDomain
<1>2. Falling(E, last, next, rank, b)
  <2> SUFFICES ASSUME NEW p \in E
               PROVE  /\ rank[p] \in 0 .. b
                      /\ ~ last[p] => next[p] \in E /\ rank[next[p]] < rank[p]
    BY Zenon DEF Falling
  <2>0. p[1] \in Entries /\ p[2] \in Int BY SMT
  <2>1. rank[p] \in 0 .. b BY <2>0, DepthFalls
  <2>2. ASSUME ~ last[p] PROVE next[p] \in E /\ rank[next[p]] < rank[p]
    <3>1. p[1] # NilEntry /\ p[1].level # 0 BY <2>2
    <3>2. NextOf(L, p[1]) \in Entries BY <2>0, NextIs
    <3>3. p[2] - p[1].length \in Int BY <2>0, EntryFields
    <3>4. next[p] \in E /\ next[p][1] = NextOf(L, p[1]) BY <3>2, <3>3
    <3>5. Depth(L, NextOf(L, p[1])) < Depth(L, p[1]) BY <2>0, <3>1, DepthFalls
    <3>6. rank[next[p]] = Depth(L, NextOf(L, p[1])) BY <3>4
    <3> QED BY <3>4, <3>5, <3>6
  <2> QED BY <2>1, <2>2
<1> HIDE DEF E, own, last, next, rank, b
<1>3. PICK f : Follows(E, own, last, next, f) BY <1>1, <1>2, ReadingExists
<1>4. ASSUME NEW p \in E PROVE f[p] = FileStep(L, f, p)
  <2>0. p[1] \in Entries /\ p[2] \in Int BY SMT DEF E
  <2>1. f[p] = own[p] \o (IF last[p] THEN <<>> ELSE f[next[p]]) BY <1>3 DEF Follows
  <2>2. <<>> \o <<>> = <<>> BY SMT
  <2>3. CASE p[1].level = 0
    <3>1. own[p] = <<>> /\ last[p] BY <2>3 DEF own, last
    <3> QED BY <2>1, <2>2, <2>3, <3>1 DEF FileStep
  <2>4. ASSUME p[1] = NilEntry PROVE f[p] = <<>>
    <3>1. last[p] BY <2>4 DEF last
    <3>2. EdgesOf(L, p[1]) = <<>> BY <2>0, <2>4, NilIs, EdgesAre
    <3>3. own[p] = <<>> BY <3>2 DEF own
    <3> QED BY <2>1, <2>2, <3>1, <3>3
  <2>5. CASE p[1] = NilEntry
    <3>1. p[1].length = 0 /\ p[1].level # 0 /\ p[1].level = -1 BY <2>5, NilIs
    <3>2. EdgesOf(L, p[1]) = <<>> BY <2>0, <3>1, EdgesAre
    <3>3. -1 \notin 0 .. Len(L) - 1 BY SMT
    <3>4. NextOf(L, p[1]) = NilEntry BY <2>0, <3>1, <3>3, NextIs
    <3> DEFINE q == <<NextOf(L, p[1]), p[2] - p[1].length>>
    <3>5. q = p
      <4>1. p[2] - p[1].length = p[2] BY <2>0, <3>1, SMT
      <4>2. p = <<p[1], p[2]>> BY SMT DEF E
      <4> QED BY <4>1, <4>2, <3>4, <2>5
    <3>6. f[q] = <<>> BY <3>5, <2>4, <2>5
    <3>7. FileStep(L, f, p) = <<>> \o (IF p[2] > p[1].length THEN f[q] ELSE <<>>)
      BY <3>1, <3>2, Zenon DEF FileStep
    <3> HIDE DEF q
    <3> QED BY <2>2, <2>4, <2>5, <3>6, <3>7
  <2>6. CASE p[1] # NilEntry /\ p[1].level # 0
    <3>1. own[p] = EdgesOf(L, p[1]) /\ (last[p] <=> ~ p[2] > p[1].length)
          /\ next[p] = <<NextOf(L, p[1]), p[2] - p[1].length>>
      BY <2>6 DEF own, last, next
    <3> QED BY <2>1, <2>6, <3>1 DEF FileStep
  <2> QED BY <2>3, <2>5, <2>6
<1>5. f = [p \in E |-> f[p]] BY <1>3 DEF Follows
<1>6. IsFile(L, f) BY <1>4, <1>5 DEF IsFile, E
<1>7. IsFile(L, File(L)) BY <1>6, Zenon DEF File
<1> QED BY <1>7, Zenon DEF IsFile

\* An entry for the levels below m is one for those below n.
LEMMA GoodAbove ==
  ASSUME NEW L, NEW m \in Int, NEW n \in Int, m <= n, NEW e, Good(L, m, e)
  PROVE  Good(L, n, e)
BY EntryFields, SMT DEF Good

\* An entry without edges is read as no edges.
LEMMA ReadNothing ==
  ASSUME NEW L, IsSeq(L), CellsGood(L), NEW n, NEW e, Good(L, n, e), e.degree = 0
  PROVE  e.length = 0 /\ Ro(L)[e] = <<>> /\ File(L)[<<e, e.degree>>] = <<>>
<1>1. e \in Entries /\ e.level \in Int /\ e.length \in Nat BY EntryFields DEF Good
<1>2. e.length = 0
  <2>1. CASE e.level = 0 BY <2>1, <1>1 DEF Good
  <2>2. CASE e.level # 0
    <3>1. NextOf(L, e).degree \in Nat BY <1>1, NextIs, EntryFields
    <3> QED BY <2>2, <3>1, <1>1, SMT DEF Good
  <2> QED BY <2>1, <2>2
<1>3. Ro(L)[e] = <<>> BY <1>1, <1>2, RoExists, Zenon DEF RoStep
<1>4. <<e, e.degree>> \in Entries \X Int BY <1>1
<1>5. File(L)[<<e, e.degree>>] = FileStep(L, File(L), <<e, e.degree>>) BY <1>4, FileExists
<1>6. EdgesOf(L, e) = <<>> BY <1>1, <1>2, EdgesAre
<1>7. <<>> \o <<>> = <<>> BY SMT
<1>8. ~ e.degree > e.length BY <1>2
<1>9. FileStep(L, File(L), <<e, e.degree>>) = <<>> BY <1>6, <1>7, <1>8 DEF FileStep
<1> QED BY <1>2, <1>3, <1>5, <1>9

\* A list that is read in memory has as many edges as its entry says.
LEMMA ReadLength ==
  ASSUME NEW L, IsSeq(L), CellsGood(L), NEW e, Good(L, Len(L), e)
  PROVE  Ro(L)[e] \in Seq(Int) /\ Len(Ro(L)[e]) = e.degree
<1> DEFINE P(d) == Ro(L)[d] \in Seq(Int) /\ Len(Ro(L)[d]) = d.degree
           S == {n \in Nat : n <= Len(L) => \A d : Good(L, n, d) => P(d)}
<1>0. Len(L) \in Nat BY StackDomain
<1>1. ASSUME NEW n \in Nat, n <= Len(L), NEW d, Good(L, n, d), d.length = 0 \/ d.level = 0
      PROVE  P(d)
  <2>1. d \in Entries /\ d.level \in Int /\ d.length \in Nat BY <1>1, EntryFields DEF Good
  <2>2. CASE d.length = 0
    <3>1. Ro(L)[d] = <<>> BY <2>1, <2>2, RoExists, Zenon DEF RoStep
    <3>2. d.degree = 0 BY <2>2, <1>1, SMT DEF Good
    <3> QED BY <3>1, <3>2, EmptySeq
  <2>3. CASE d.length # 0
    <3>1. d.level = 0 BY <1>1, <2>3
    <3>2. Ro(L)[d] = EdgesOf(L, d) \o <<>> BY <2>1, <2>3, <3>1, RoExists, Zenon DEF RoStep
    <3>3. EdgesOf(L, d) \in Seq(Int) /\ Len(EdgesOf(L, d)) = d.length BY <2>1, EdgesAre
    <3>4. EdgesOf(L, d) \o <<>> = EdgesOf(L, d) BY <3>3, ConcatEmptySeq
    <3>5. d.degree = d.length BY <1>1, <2>1, <2>3, <3>1, SMT DEF Good
    <3> QED BY <3>2, <3>3, <3>4, <3>5
  <2> QED BY <2>2, <2>3
<1>2. 0 \in S
  <2>1. ASSUME NEW d, Good(L, 0, d) PROVE P(d)
    <3>1. d \in Entries /\ d.level \in Int /\ d.length \in Nat BY <2>1, EntryFields DEF Good
    <3>2. d.length = 0 BY <2>1, <3>1, SMT DEF Good
    <3>3. 0 <= Len(L) BY <1>0
    <3> HIDE DEF P
    <3> QED BY <1>1, <2>1, <3>2, <3>3
  <2> QED BY <2>1
<1>3. ASSUME NEW n \in Nat, n \in S PROVE n + 1 \in S
  <2>1. ASSUME NEW d, Good(L, n + 1, d), n + 1 <= Len(L) PROVE P(d)
    <3>1. d \in Entries /\ d.level \in Int /\ d.length \in Nat BY <2>1, EntryFields DEF Good
    <3>2. CASE d.length = 0 \/ d.level = 0
      <4> HIDE DEF P
      <4> QED BY <1>1, <2>1, <3>2
    <3>3. CASE d.length # 0 /\ d.level # 0
      <4>1. d.level >= 0 /\ d.level < n + 1 /\ d.degree = d.length + NextOf(L, d).degree
        BY <2>1, <3>3, SMT DEF Good
      <4>2. d.level \in 0 .. Len(L) - 1 /\ d.level <= n BY <4>1, <2>1, <3>1, <1>0, SMT
      <4>3. Good(L, n, NextOf(L, d)) BY <3>1, <4>2, NextIs, GoodAbove
      <4>4. P(NextOf(L, d))
        <5>1. n <= Len(L) BY <2>1, <1>0, SMT
        <5> HIDE DEF P
        <5> QED BY <1>3, <4>3, <5>1
      <4>5. Ro(L)[d] = EdgesOf(L, d) \o Ro(L)[NextOf(L, d)]
        BY <3>1, <3>3, RoExists, Zenon DEF RoStep
      <4>6. EdgesOf(L, d) \in Seq(Int) /\ Len(EdgesOf(L, d)) = d.length BY <3>1, EdgesAre
      <4> DEFINE a == EdgesOf(L, d)
                 b == Ro(L)[NextOf(L, d)]
      <4>7. a \in Seq(Int) /\ b \in Seq(Int) BY <4>4, <4>6
      <4> HIDE DEF a, b
      <4>8. a \o b \in Seq(Int) /\ Len(a \o b) = Len(a) + Len(b) BY <4>7, ConcatProperties
      <4> QED BY <4>1, <4>4, <4>5, <4>6, <4>8 DEF a, b
    <3> QED BY <3>2, <3>3
  <2> HIDE DEF P
  <2> QED BY <2>1
<1>4. Len(L) \in S
  <2> HIDE DEF S
  <2>1. Inductive(S) BY <1>2, <1>3 DEF Inductive
  <2> QED BY <1>0, <2>1, AllNumbers
<1>5. P(e)
  <2> HIDE DEF P
  <2> QED BY <1>0, <1>4
<1> QED BY <1>5

(***************************************************************************)
(* Another level on top changes nothing that stands below.                 *)
(***************************************************************************)

LEMMA OnTop ==
  ASSUME NEW L, IsSeq(L), NEW l
  PROVE  /\ IsSeq(Append(L, l)) /\ Len(Append(L, l)) = Len(L) + 1
         /\ \A k \in 1 .. Len(L) : Append(L, l)[k] = L[k]
         /\ Append(L, l)[Len(L) + 1] = l
         /\ Latest(Append(L, l)) = l
<1> DEFINE S == ToSet(L) \cup {l}
           t == Append(L, l)
<1>1. L \in Seq(S) /\ l \in S BY SMT DEF IsSeq
<1>2. /\ t \in Seq(S) /\ Len(t) = Len(L) + 1
      /\ \A i \in 1 .. Len(L) : t[i] = L[i]
      /\ t[Len(L) + 1] = l
  <2> HIDE DEF S
  <2> QED BY <1>1, AppendProperties
<1>3. IsSeq(t)
  <2> HIDE DEF S, t
  <2> QED BY <1>2, SeqFacts
<1> QED BY <1>2, <1>3 DEF Latest

LEMMA CellsBelow ==
  ASSUME NEW L, IsSeq(L), NEW l, NEW j \in Int, j < Len(L), NEW i
  PROVE  Cell(Append(L, l), j, i) = Cell(L, j, i)
<1> DEFINE t == Append(L, l)
<1>1. /\ Len(L) \in Nat /\ DOMAIN L = 1 .. Len(L)
      /\ DOMAIN t = 1 .. Len(t) /\ Len(t) = Len(L) + 1
      /\ \A k \in 1 .. Len(L) : t[k] = L[k]
  BY StackDomain, OnTop
<1> HIDE DEF t
<1>2. j + 1 \in DOMAIN t <=> j + 1 \in DOMAIN L BY <1>1, SMT
<1>3. j + 1 \in DOMAIN L => t[j + 1] = L[j + 1] BY <1>1
<1>4. Cell(t, j, i) = Cell(L, j, i) BY <1>2, <1>3, Zenon DEF Cell
<1> QED BY <1>4 DEF t

LEMMA EntriesBelow ==
  ASSUME NEW L, IsSeq(L), NEW l, NEW e \in Entries, e.level < Len(L)
  PROVE  /\ NextOf(Append(L, l), e) = NextOf(L, e)
         /\ EdgesOf(Append(L, l), e) = EdgesOf(L, e)
<1>1. e.level \in Int BY EntryFields
<1>2. \A i : Cell(Append(L, l), e.level, i) = Cell(L, e.level, i) BY <1>1, CellsBelow
<1>3. NextOf(Append(L, l), e) = NextOf(L, e) BY <1>2, Zenon DEF NextOf
<1>4. EdgesOf(Append(L, l), e) = EdgesOf(L, e) BY <1>2, Zenon DEF EdgesOf
<1> QED BY <1>3, <1>4

LEMMA GoodBelow ==
  ASSUME NEW L, IsSeq(L), NEW l, NEW n \in Int, n <= Len(L), NEW e
  PROVE  Good(Append(L, l), n, e) <=> Good(L, n, e)
<1>1. CASE e \in Entries /\ e.level < n
  <2>1. e.level < Len(L)
    <3>1. e.level \in Int BY <1>1, EntryFields
    <3>2. Len(L) \in Nat BY StackDomain
    <3> QED BY <1>1, <3>1, <3>2, SMT
  <2> QED BY <1>1, <2>1, EntriesBelow, Zenon DEF Good
<1> QED BY <1>1 DEF Good

LEMMA ReadBelow ==
  ASSUME NEW L, IsSeq(L), CellsGood(L), NEW l, CellsGood(Append(L, l)),
         NEW e, Good(L, Len(L), e)
  PROVE  Ro(Append(L, l))[e] = Ro(L)[e]
<1> DEFINE t == Append(L, l)
           S == {n \in Nat : n <= Len(L) => \A d : Good(L, n, d) => Ro(t)[d] = Ro(L)[d]}
<1>0. Len(L) \in Nat /\ IsSeq(t) BY StackDomain, OnTop
<1>1. ASSUME NEW d \in Entries, d.level < Len(L)
      PROVE  /\ Ro(L)[d] = RoStep(L, Ro(L), d)
             /\ Ro(t)[d] = RoStep(t, Ro(t), d)
             /\ EdgesOf(t, d) = EdgesOf(L, d) /\ NextOf(t, d) = NextOf(L, d)
  BY <1>0, <1>1, RoExists, EntriesBelow
<1> HIDE DEF t
<1>2. 0 \in S
  <2>1. ASSUME NEW d, Good(L, 0, d) PROVE Ro(t)[d] = Ro(L)[d]
    <3>1. d \in Entries /\ d.level \in Int /\ d.length \in Nat BY <2>1, EntryFields DEF Good
    <3>2. d.length = 0 BY <2>1, <3>1, SMT DEF Good
    <3>3. d.level < Len(L) BY <1>0, <2>1, <3>1, SMT DEF Good
    <3> QED BY <1>1, <3>1, <3>2, <3>3 DEF RoStep
  <2> QED BY <2>1
<1>3. ASSUME NEW n \in Nat, n \in S PROVE n + 1 \in S
  <2>1. ASSUME NEW d, Good(L, n + 1, d), n + 1 <= Len(L) PROVE Ro(t)[d] = Ro(L)[d]
    <3>1. d \in Entries /\ d.level \in Int /\ d.length \in Nat /\ d.level < n + 1
      BY <2>1, EntryFields DEF Good
    <3>2. d.level < Len(L) BY <3>1, <2>1, <1>0, SMT
    <3>3. CASE d.length = 0 \/ d.level = 0 BY <1>1, <3>1, <3>2, <3>3, Zenon DEF RoStep
    <3>4. CASE d.length # 0 /\ d.level # 0
      <4>1. d.level >= 0 BY <2>1, <3>4, SMT DEF Good
      <4>2. d.level \in 0 .. Len(L) - 1 /\ d.level <= n BY <4>1, <3>1, <3>2, <1>0, SMT
      <4>3. Good(L, n, NextOf(L, d)) BY <3>1, <4>2, NextIs, GoodAbove
      <4>4. n <= Len(L) BY <2>1, <1>0, SMT
      <4>5. Ro(t)[NextOf(L, d)] = Ro(L)[NextOf(L, d)] BY <1>3, <4>3, <4>4
      <4> QED BY <1>1, <3>1, <3>2, <4>5, Zenon DEF RoStep
    <3> QED BY <3>3, <3>4
  <2> QED BY <2>1
<1>4. Len(L) \in S
  <2> HIDE DEF S
  <2>1. Inductive(S) BY <1>2, <1>3 DEF Inductive
  <2> QED BY <1>0, <2>1, AllNumbers
<1>5. Ro(t)[e] = Ro(L)[e] BY <1>0, <1>4
<1> QED BY <1>5 DEF t

(***************************************************************************)
(* Stacks of levels that the program makes.                                *)
(***************************************************************************)

At(l, v) == EntryAt(l.pages, v)

\* A node of a level has a page, and its entry stands for a list.
EntriesGood(L) ==
    \A k \in 1 .. Len(L) : \A v \in 0 .. L[k].size - 1 :
        v \div PageSize \in DOMAIN L[k].pages /\ Good(L, k, At(L[k], v))

\* The entry of a node is that of the level below, or is continued by it.
History(L) ==
    \A k \in 2 .. Len(L) : \A v \in 0 .. L[k].size - 1 :
        \/ At(L[k], v) = Previous(L[k - 1], v)
        \/ /\ At(L[k], v).length > 0 /\ At(L[k], v).level = k - 1
           /\ NextOf(L, At(L[k], v)) = Previous(L[k - 1], v)

\* A page is in the level that its own level says.
Homes(L) ==
    \A k \in 1 .. Len(L) : \A p \in DOMAIN L[k].pages :
        LET j == L[k].pages[p].level
        IN  j \in 0 .. k - 1 /\ (j > 0 => p \in DOMAIN L[j + 1].pages /\ L[j + 1].pages[p] = L[k].pages[p])

\* A page of level 0 has the entries of level 0.
Bases(L) ==
    \A k \in 1 .. Len(L) : \A v \in 0 .. L[k].size - 1 :
        L[k].pages[v \div PageSize].level = 0 => v < L[1].size /\ At(L[k], v) = At(L[1], v)

\* No level has fewer nodes than the one below.
Grow(L) == \A k \in 1 .. Len(L) : L[k].size \in Nat /\ (k > 1 => L[k - 1].size <= L[k].size)

\* Pages are full of entries.
Shaped(pages) == \A p \in DOMAIN pages : DOMAIN pages[p].entries = 0 .. PageSize - 1
Shapes(L) == \A k \in 1 .. Len(L) : Shaped(L[k].pages)

WellFormed(L) ==
    /\ IsSeq(L) /\ CellsGood(L) /\ EntriesGood(L) /\ History(L) /\ Homes(L) /\ Bases(L) /\ Grow(L)
    /\ Shapes(L)

LEMMA GrowsFromBase ==
  ASSUME NEW L, IsSeq(L), Grow(L), NEW k \in 1 .. Len(L)
  PROVE  L[1].size \in Nat /\ L[k].size \in Nat /\ L[1].size <= L[k].size
<1> DEFINE S == {n \in Nat : n >= 1 /\ n <= Len(L) => L[1].size <= L[n].size}
<1>0. Len(L) \in Nat /\ 1 \in 1 .. Len(L) BY StackDomain, SMT
<1>1. 0 \in S BY SMT
<1>2. ASSUME NEW n \in Nat, n \in S PROVE n + 1 \in S
  <2>1. CASE n = 0 BY <1>0, <2>1 DEF Grow
  <2>2. CASE n # 0 /\ n + 1 <= Len(L)
    <3>1. n \in 1 .. Len(L) /\ n + 1 \in 1 .. Len(L) /\ n + 1 > 1 /\ (n + 1) - 1 = n BY <2>2, <1>0, SMT
    <3>2. L[n].size \in Nat /\ L[n + 1].size \in Nat /\ L[n].size <= L[n + 1].size
      <4>1. PICK m \in 1 .. Len(L) : m = n + 1 BY <3>1
      <4> QED BY <3>1, <4>1 DEF Grow
    <3>3. L[1].size <= L[n].size /\ L[1].size \in Nat BY <1>0, <1>2, <3>1 DEF Grow
    <3> QED BY <3>2, <3>3, SMT
  <2> QED BY <2>1, <2>2
<1>3. k \in S
  <2> HIDE DEF S
  <2>1. Inductive(S) BY <1>1, <1>2 DEF Inductive
  <2> QED BY <1>0, <2>1, AllNumbers
<1> QED BY <1>0, <1>3 DEF Grow

LEMMA BaseRead ==
  ASSUME NEW L, WellFormed(L), Len(L) >= 1, NEW v \in 0 .. L[1].size - 1
  PROVE  LET e == At(L[1], v)
         IN  /\ Good(L, 1, e)
             /\ File(L)[<<e, e.degree>>] = <<>>
             /\ Ro(L)[e] = Level0Neighbours(L[1], v)
<1> DEFINE e == At(L[1], v)
<1>0. IsSeq(L) /\ CellsGood(L) /\ Len(L) \in Nat /\ DOMAIN L = 1 .. Len(L) /\ 1 \in 1 .. Len(L)
  <2>1. Len(L) \in Nat /\ DOMAIN L = 1 .. Len(L) BY StackDomain DEF WellFormed
  <2> QED BY <2>1, SMT DEF WellFormed
<1>1. Good(L, 1, e) BY <1>0 DEF WellFormed, EntriesGood
<1>2. e \in Entries /\ e.level \in Int /\ e.length \in Nat BY <1>1, EntryFields DEF Good
<1>3. Level0Neighbours(L[1], v) = EdgesOf(<<L[1]>>, e)
  <2>1. L[1].size \in Nat BY <1>0 DEF WellFormed, Grow
  <2>2. v < L[1].size BY <2>1, SMT
  <2> QED BY <2>2, Zenon DEF Level0Neighbours, At
<1> HIDE DEF e
<1>4. CASE e.length = 0
  <2>1. e.degree = 0 BY <1>1, <1>2, <1>4, SMT DEF Good
  <2>2. Ro(L)[e] = <<>> /\ File(L)[<<e, e.degree>>] = <<>> BY <1>0, <1>1, <2>1, ReadNothing
  <2>3. EdgesOf(<<L[1]>>, e) = <<>>
    <3>1. EdgesOf(<<L[1]>>, e) = [i \in 1 .. 0 |-> Cell(<<L[1]>>, e.level, e.index + i - 1).target]
      BY <1>4 DEF EdgesOf
    <3>2. 1 .. 0 = {} BY SMT
    <3>3. <<>> = [i \in {} |-> Cell(<<L[1]>>, e.level, e.index + i - 1).target] BY SMT
    <3> QED BY <3>1, <3>2, <3>3
  <2> QED BY <1>1, <1>3, <2>2, <2>3 DEF e
<1>5. CASE e.length # 0
  <2>1. e.level = 0 BY <1>1, <1>2, <1>5, SMT DEF Good
  <2>2. Ro(L)[e] = EdgesOf(L, e) \o <<>> BY <1>0, <1>2, <1>5, <2>1, RoExists, Zenon DEF RoStep
  <2>3. EdgesOf(L, e) \in Seq(Int) BY <1>0, <1>2, EdgesAre
  <2>4. Ro(L)[e] = EdgesOf(L, e) BY <2>2, <2>3, ConcatEmptySeq
  <2>5. \A i : Cell(<<L[1]>>, e.level, i) = Cell(L, e.level, i)
    <3>1. <<L[1]>>[1] = L[1] /\ DOMAIN <<L[1]>> = {1} BY SMT
    <3>2. e.level + 1 = 1 BY <2>1
    <3> QED BY <1>0, <3>1, <3>2 DEF Cell
  <2>6. EdgesOf(<<L[1]>>, e) = EdgesOf(L, e) BY <2>5, Zenon DEF EdgesOf
  <2>7. <<e, e.degree>> \in Entries \X Int BY <1>2, EntryFields
  <2>8. File(L)[<<e, e.degree>>] = FileStep(L, File(L), <<e, e.degree>>) BY <1>0, <2>7, FileExists
  <2>9. File(L)[<<e, e.degree>>] = <<>> BY <2>1, <2>8 DEF FileStep
  <2> QED BY <1>1, <1>3, <2>4, <2>6, <2>9 DEF e
<1> QED BY <1>4, <1>5

LEMMA ToSetConcat ==
  ASSUME NEW S, NEW s \in Seq(S), NEW t \in Seq(S)
  PROVE  ToSet(s \o t) = ToSet(s) \cup ToSet(t)
<1>1. /\ DOMAIN s = 1 .. Len(s) /\ DOMAIN t = 1 .. Len(t) /\ Len(s) \in Nat /\ Len(t) \in Nat
      /\ DOMAIN (s \o t) = 1 .. Len(s) + Len(t)
      /\ \A i \in 1 .. Len(s) + Len(t) : (s \o t)[i] = IF i <= Len(s) THEN s[i] ELSE t[i - Len(s)]
  BY SeqFacts, ConcatProperties
<1>2. ASSUME NEW i \in 1 .. Len(s) PROVE s[i] \in ToSet(s \o t)
  <2>1. i \in 1 .. Len(s) + Len(t) /\ i <= Len(s) BY <1>1, SMT
  <2>2. (s \o t)[i] = s[i] BY <1>1, <2>1
  <2> QED BY <1>1, <2>1, <2>2 DEF ToSet
<1>3. ASSUME NEW i \in 1 .. Len(t) PROVE t[i] \in ToSet(s \o t)
  <2>1. PICK j : j = i + Len(s) OBVIOUS
  <2>2. j \in 1 .. Len(s) + Len(t) /\ ~ j <= Len(s) /\ j - Len(s) = i BY <1>1, <2>1, SMT
  <2>3. (s \o t)[j] = t[i] BY <1>1, <2>2
  <2> QED BY <1>1, <2>2, <2>3 DEF ToSet
<1>4. ASSUME NEW i \in 1 .. Len(s) + Len(t) PROVE (s \o t)[i] \in ToSet(s) \cup ToSet(t)
  <2>1. CASE i <= Len(s)
    <3>1. i \in 1 .. Len(s) BY <1>1, <2>1, SMT
    <3> QED BY <1>1, <2>1, <3>1 DEF ToSet
  <2>2. CASE ~ i <= Len(s)
    <3>1. i - Len(s) \in 1 .. Len(t) BY <1>1, <2>2, SMT
    <3> QED BY <1>1, <2>2, <3>1 DEF ToSet
  <2> QED BY <2>1, <2>2
<1> HIDE DEF ToSet
<1>5. ToSet(s \o t) \subseteq ToSet(s) \cup ToSet(t) BY <1>1, <1>4 DEF ToSet
<1>6. ToSet(s) \subseteq ToSet(s \o t) BY <1>1, <1>2 DEF ToSet
<1>7. ToSet(t) \subseteq ToSet(s \o t) BY <1>1, <1>3 DEF ToSet
<1> QED BY <1>5, <1>6, <1>7

LEMMA ToSetEmpty == ToSet(<<>>) = {}
BY SMT DEF ToSet

\* What is read of node v in memory is what is read of it in the files and
\* in level 0.
ReadsTwice(L, n, v) ==
    LET e == At(L[n], v)
    IN  /\ File(L)[<<e, e.degree>>] \in Seq(Int)
        /\ ToSet(Ro(L)[e]) = ToSet(File(L)[<<e, e.degree>>]) \cup ToSet(Level0Neighbours(L[1], v))

\* The entry that a level continues.
LEMMA PreviousGood ==
  ASSUME NEW L, WellFormed(L), NEW n \in 1 .. Len(L), NEW v \in Nat
  PROVE  Good(L, n, Previous(L[n], v))
<1>1. L[n].size \in Nat /\ n \in Nat
  <2>1. L[n].size \in Nat BY DEF WellFormed, Grow
  <2> QED BY <2>1, SMT
<1>2. CASE v < L[n].size
  <2>1. v \in 0 .. L[n].size - 1 BY <1>1, <1>2, SMT
  <2>2. Good(L, n, At(L[n], v)) BY <2>1 DEF WellFormed, EntriesGood
  <2> QED BY <2>2, <1>2 DEF Previous, At
<1>3. CASE ~ v < L[n].size BY <1>1, <1>3, NilIs DEF Previous
<1> QED BY <1>2, <1>3

LEMMA PreviousRead ==
  ASSUME NEW L, WellFormed(L), NEW n \in 1 .. Len(L), NEW v \in Nat,
         v < L[n].size => ReadsTwice(L, n, v)
  PROVE  LET e == Previous(L[n], v)
         IN  /\ File(L)[<<e, e.degree>>] \in Seq(Int)
             /\ ToSet(Ro(L)[e]) = ToSet(File(L)[<<e, e.degree>>]) \cup ToSet(Level0Neighbours(L[1], v))
<1>1. CASE v < L[n].size BY <1>1 DEF ReadsTwice, Previous, At
<1>2. CASE ~ v < L[n].size
  <2> DEFINE e == Previous(L[n], v)
  <2>1. e = NilEntry BY <1>2 DEF Previous
  <2>2. Good(L, n, e) /\ e.degree = 0 BY <2>1, NilIs, PreviousGood
  <2> HIDE DEF e
  <2>3. Ro(L)[e] = <<>> /\ File(L)[<<e, e.degree>>] = <<>>
    BY <2>2, ReadNothing DEF WellFormed
  <2>4. ~ v < L[1].size
    <3>1. L[1].size \in Nat /\ L[n].size \in Nat /\ L[1].size <= L[n].size
      BY GrowsFromBase DEF WellFormed
    <3> QED BY <1>2, <3>1, SMT
  <2>5. Level0Neighbours(L[1], v) = <<>> BY <2>4 DEF Level0Neighbours
  <2>6. <<>> \in Seq(Int) BY EmptySeq
  <2> QED BY <2>3, <2>5, <2>6, ToSetEmpty DEF e
<1> QED BY <1>1, <1>2

LEMMA ReadTwice ==
  ASSUME NEW L, WellFormed(L), NEW k \in 1 .. Len(L), NEW v \in 0 .. L[k].size - 1
  PROVE  ReadsTwice(L, k, v)
<1> DEFINE S == {n \in Nat : n \in 1 .. Len(L) => \A u \in 0 .. L[n].size - 1 : ReadsTwice(L, n, u)}
<1>0. IsSeq(L) /\ CellsGood(L) /\ Len(L) \in Nat BY StackDomain DEF WellFormed
<1>1. 0 \in S BY SMT
<1>2. ASSUME NEW n \in Nat, n \in S PROVE n + 1 \in S
  <2> SUFFICES ASSUME n + 1 \in 1 .. Len(L), NEW u \in 0 .. L[n + 1].size - 1
               PROVE  ReadsTwice(L, n + 1, u)
    OBVIOUS
  <2>1. CASE n = 0
    <3>1. n + 1 = 1 /\ Len(L) >= 1 BY <2>1, <1>0, SMT
    <3>2. /\ File(L)[<<At(L[1], u), At(L[1], u).degree>>] = <<>>
          /\ Ro(L)[At(L[1], u)] = Level0Neighbours(L[1], u)
      BY <3>1, BaseRead
    <3>3. <<>> \in Seq(Int) BY EmptySeq
    <3> QED BY <3>1, <3>2, <3>3, ToSetEmpty DEF ReadsTwice
  <2>2. CASE n # 0
    <3>1. PICK m : m = n + 1 OBVIOUS
    <3>2. m \in 2 .. Len(L) /\ n \in 1 .. Len(L) /\ m - 1 = n /\ m \in 1 .. Len(L)
      BY <2>2, <3>1, <1>0, SMT
    <3>3. u \in Nat /\ u \in 0 .. L[m].size - 1
      <4>1. L[m].size \in Nat BY <3>2 DEF WellFormed, Grow
      <4> QED BY <3>1, <4>1, SMT
    <3>4. L[n].size \in Nat BY <3>2 DEF WellFormed, Grow
    <3>5. u < L[n].size => ReadsTwice(L, n, u)
      <4>1. u < L[n].size => u \in 0 .. L[n].size - 1 BY <3>3, <3>4, SMT
      <4> QED BY <1>2, <3>2, <4>1
    <3> DEFINE e == At(L[m], u)
               p == Previous(L[n], u)
               F(d) == File(L)[<<d, d.degree>>]
    <3>6. F(p) \in Seq(Int) /\ ToSet(Ro(L)[p]) = ToSet(F(p)) \cup ToSet(Level0Neighbours(L[1], u))
      BY <3>2, <3>3, <3>5, PreviousRead
    <3>7. \/ e = p
          \/ e.length > 0 /\ e.level = n /\ NextOf(L, e) = p
      BY <3>2, <3>3 DEF WellFormed, History
    <3>8. Good(L, m, e) BY <3>2, <3>3 DEF WellFormed, EntriesGood
    <3>9. Good(L, n, p) BY <3>2, <3>3, PreviousGood
    <3> HIDE DEF e, p
    <3>10. CASE e = p BY <3>1, <3>6, <3>10 DEF ReadsTwice, e
    <3>11. CASE e.length > 0 /\ e.level = n /\ NextOf(L, e) = p
      <4>1. e \in Entries /\ e.length \in Nat /\ e.degree \in Nat /\ e.level \in Int
        BY <3>8, EntryFields DEF Good
      <4>2. e.level # 0 /\ e.length # 0 BY <2>2, <3>11, <4>1, SMT
      <4>3. e.degree = e.length + p.degree BY <3>8, <3>11, <4>2 DEF Good
      <4>4. p \in Entries /\ p.degree \in Nat BY <3>9, EntryFields DEF Good
      <4>5. Ro(L)[e] = EdgesOf(L, e) \o Ro(L)[p]
        BY <1>0, <3>11, <4>1, <4>2, RoExists, Zenon DEF RoStep
      <4>6. F(e) = EdgesOf(L, e) \o F(p)
        <5>1. <<e, e.degree>> \in Entries \X Int BY <4>1
        <5>2. F(e) = FileStep(L, File(L), <<e, e.degree>>) BY <1>0, <5>1, FileExists
        <5>3. F(e) = EdgesOf(L, e) \o (IF e.degree > e.length
                                       THEN File(L)[<<NextOf(L, e), e.degree - e.length>>] ELSE <<>>)
          BY <4>2, <5>2 DEF FileStep
        <5>4. e.degree - e.length = p.degree BY <4>1, <4>3, <4>4, SMT
        <5>5. CASE p.degree = 0
          <6>1. F(p) = <<>> BY <1>0, <3>9, <5>5, ReadNothing
          <6>2. ~ e.degree > e.length BY <4>1, <4>3, <5>5, SMT
          <6> QED BY <5>3, <6>1, <6>2
        <5>6. CASE p.degree # 0
          <6>1. e.degree > e.length BY <4>1, <4>3, <4>4, <5>6, SMT
          <6> QED BY <3>11, <5>3, <5>4, <6>1
        <5> QED BY <5>5, <5>6
      <4>7. EdgesOf(L, e) \in Seq(Int) BY <1>0, <4>1, EdgesAre
      <4>8. Ro(L)[p] \in Seq(Int)
        <5>1. n <= Len(L) /\ n \in Int /\ Len(L) \in Int BY <3>2, <1>0, SMT
        <5>2. Good(L, Len(L), p) BY <3>9, <5>1, GoodAbove
        <5> QED BY <1>0, <5>2, ReadLength
      <4> DEFINE a == EdgesOf(L, e)
                 b == Ro(L)[p]
                 c == F(p)
      <4>9. /\ ToSet(a \o b) = ToSet(a) \cup ToSet(b)
            /\ ToSet(a \o c) = ToSet(a) \cup ToSet(c)
            /\ a \o c \in Seq(Int)
        <5>1. a \in Seq(Int) /\ b \in Seq(Int) /\ c \in Seq(Int) BY <3>6, <4>7, <4>8
        <5> HIDE DEF a, b, c
        <5> QED BY <5>1, ToSetConcat, ConcatProperties
      <4>10. F(e) \in Seq(Int) BY <4>6, <4>9
      <4>11. ToSet(Ro(L)[e]) = ToSet(F(e)) \cup ToSet(Level0Neighbours(L[1], u))
        <5>1. ToSet(Ro(L)[e]) = ToSet(a) \cup ToSet(b) BY <4>5, <4>9
        <5>2. ToSet(F(e)) = ToSet(a) \cup ToSet(c) BY <4>6, <4>9
        <5>3. ToSet(b) = ToSet(c) \cup ToSet(Level0Neighbours(L[1], u)) BY <3>6
        <5> HIDE DEF a, b, c, F
        <5> QED BY <5>1, <5>2, <5>3, Zenon
      <4> QED BY <3>1, <4>10, <4>11 DEF ReadsTwice, e
    <3> QED BY <3>7, <3>10, <3>11
  <2> QED BY <2>1, <2>2
<1>3. k \in S
  <2> HIDE DEF S
  <2>1. Inductive(S) BY <1>1, <1>2 DEF Inductive
  <2> QED BY <1>0, <2>1, AllNumbers
<1> QED BY <1>3

\* The edges of node v that are seen in memory.
Content(L, v) == IF v < Latest(L).size THEN Ro(L)[EntryAt(Latest(L).pages, v)] ELSE <<>>

\* get_neighbours_of_vertex and get_level_0_neighbours_of_vertex together
\* find the edges that are seen in memory.
LEMMA SnapshotRead ==
  ASSUME NEW L, WellFormed(L), Len(L) >= 1, NEW v \in Nat
  PROVE  /\ v < Latest(L).size =>
              ToSet(Content(L, v)) =
                ToSet(SnapshotNeighbours(L, v)) \cup ToSet(Level0Neighbours(L[1], v))
         /\ ~ v < Latest(L).size => Level0Neighbours(L[1], v) = <<>>
<1> DEFINE n == Len(L)
           q == v \div PageSize
           j == L[n].pages[q].level
           e == At(L[n], v)
<1>0. /\ IsSeq(L) /\ CellsGood(L) /\ n \in Nat /\ n \in 1 .. n /\ 1 \in 1 .. n
      /\ L[1].size \in Nat /\ L[n].size \in Nat /\ L[1].size <= L[n].size
  <2>1. IsSeq(L) /\ CellsGood(L) /\ Grow(L) BY DEF WellFormed
  <2>2. n \in Nat /\ n \in 1 .. n /\ 1 \in 1 .. n BY <2>1, StackDomain, SMT
  <2> QED BY <2>1, <2>2, GrowsFromBase
<1>1. Latest(L) = L[n] BY DEF Latest
<1>2. ASSUME ~ v < L[n].size PROVE Level0Neighbours(L[1], v) = <<>>
  <2>1. ~ v < L[1].size BY <1>0, <1>2, SMT
  <2> QED BY <2>1 DEF Level0Neighbours
<1>3. ASSUME v < L[n].size
      PROVE  ToSet(Ro(L)[e]) =
                ToSet(SnapshotNeighbours(L, v)) \cup ToSet(Level0Neighbours(L[1], v))
  <2>0. v \in 0 .. L[n].size - 1 BY <1>0, <1>3, SMT
  <2>1. ReadsTwice(L, n, v) BY <1>0, <2>0, ReadTwice
  <2>2. CASE n = 1 \/ j = 0
    <3>1. SnapshotNeighbours(L, v) = <<>> BY <1>1, <2>2 DEF SnapshotNeighbours
    <3>2. v \in 0 .. L[1].size - 1 /\ e = At(L[1], v)
      <4>1. CASE n = 1 BY <2>0, <4>1
      <4>2. CASE j = 0
        <5>1. v < L[1].size /\ At(L[n], v) = At(L[1], v)
          BY <1>0, <2>0, <4>2 DEF WellFormed, Bases
        <5> QED BY <1>0, <5>1, SMT
      <4> QED BY <2>2, <4>1, <4>2
    <3>3. Ro(L)[e] = Level0Neighbours(L[1], v) BY <3>2, BaseRead
    <3> QED BY <3>1, <3>3, ToSetEmpty
  <2>3. CASE ~ (n = 1 \/ j = 0)
    <3>1. q \in DOMAIN L[n].pages BY <1>0, <2>0 DEF WellFormed, EntriesGood
    <3>2. j \in 0 .. n - 1 /\ (j > 0 => L[j + 1].pages[q] = L[n].pages[q])
      BY <1>0, <3>1 DEF WellFormed, Homes
    <3>3. j > 0 BY <1>0, <2>3, <3>2, SMT
    <3>4. EntryAt(L[j + 1].pages, v) = e BY <3>2, <3>3 DEF EntryAt, At
    <3>5. SnapshotNeighbours(L, v) = FileNeighbours(L, EntryAt(L[j + 1].pages, v))
      BY <1>1, <2>3 DEF SnapshotNeighbours
    <3>6. SnapshotNeighbours(L, v) = File(L)[<<e, e.degree>>]
      BY <3>4, <3>5, FileNeighboursAre
    <3> QED BY <2>1, <3>6 DEF ReadsTwice
  <2> QED BY <2>2, <2>3
<1>4. v < L[n].size => Content(L, v) = Ro(L)[e] BY <1>1 DEF Content, At
<1> HIDE DEF n, e
<1> QED BY <1>1, <1>2, <1>3, <1>4

\* A list in memory is as long as its degree.
LEMMA ContentIs ==
  ASSUME NEW L, WellFormed(L), Len(L) >= 1, NEW v \in Nat
  PROVE  /\ Content(L, v) \in Seq(Int)
         /\ v < Latest(L).size => Len(Content(L, v)) = RoDegree(L, v)
         /\ (IF NodeExists(L, v) THEN RoNeighbours(L, v) ELSE <<>>) = Content(L, v)
<1> DEFINE n == Len(L)
           e == At(L[n], v)
<1>0. IsSeq(L) /\ CellsGood(L) /\ n \in Nat /\ n \in 1 .. n /\ L[n].size \in Nat
  <2>1. IsSeq(L) /\ CellsGood(L) /\ Grow(L) BY DEF WellFormed
  <2>2. n \in Nat /\ n \in 1 .. n BY <2>1, StackDomain, SMT
  <2> QED BY <2>1, <2>2 DEF Grow
<1>1. Latest(L) = L[n] BY DEF Latest
<1>2. CASE v < L[n].size
  <2>1. v \in 0 .. L[n].size - 1 BY <1>0, <1>2, SMT
  <2>2. Good(L, n, e) BY <1>0, <2>1 DEF WellFormed, EntriesGood
  <2>3. Content(L, v) = Ro(L)[e] /\ RoDegree(L, v) = e.degree /\ RoNeighbours(L, v) = Ro(L)[e]
    BY <1>1, <1>2, RoNeighboursAre DEF Content, At, RoDegree
  <2>4. Ro(L)[e] \in Seq(Int) /\ Len(Ro(L)[e]) = e.degree BY <1>0, <2>2, ReadLength
  <2>5. e.degree = 0 => Ro(L)[e] = <<>> BY <1>0, <2>2, ReadNothing
  <2>6. NodeExists(L, v) <=> e.degree # 0 BY <1>1, <1>2 DEF NodeExists, At
  <2> HIDE DEF e
  <2> QED BY <2>3, <2>4, <2>5, <2>6
<1>3. CASE ~ v < L[n].size
  <2>1. Content(L, v) = <<>> /\ ~ NodeExists(L, v) BY <1>1, <1>3 DEF Content, NodeExists
  <2>2. <<>> \in Seq(Int) BY EmptySeq
  <2> QED BY <1>1, <1>3, <2>1, <2>2
<1> QED BY <1>2, <1>3

(***************************************************************************)
(* The level that a merge writes.                                          *)
(***************************************************************************)

\* The edges of a list are in the edge table, from an index on.
Holds(cells, index, targets) ==
    \A i \in 1 .. Len(targets) :
        index + i \in 1 .. Len(cells) /\ cells[index + i] = EdgeTo(targets[i])

CellsOf(targets) == [i \in DOMAIN targets |-> EdgeTo(targets[i])]

LEMMA CellsOfIs ==
  ASSUME NEW targets \in Seq(Int)
  PROVE  /\ CellsOf(targets) \in Seq(CellType)
         /\ Len(CellsOf(targets)) = Len(targets)
         /\ \A i \in 1 .. Len(targets) : CellsOf(targets)[i] = EdgeTo(targets[i])
<1> DEFINE n == Len(targets)
           cells == [i \in 1 .. n |-> EdgeTo(targets[i])]
<1>1. n \in Nat /\ DOMAIN targets = 1 .. n BY SeqFacts
<1>2. \A i \in 1 .. n : EdgeTo(targets[i]) \in CellType
  <2> TAKE i \in 1 .. n
  <2>1. targets[i] \in Int BY ElementOfSeq
  <2> QED BY <2>1, NilIs DEF EdgeTo, CellType
<1>3. cells \in Seq(CellType) /\ Len(cells) = n
  <2> HIDE DEF n
  <2> QED BY <1>1, <1>2, SMT
<1>4. CellsOf(targets) = cells BY <1>1 DEF CellsOf
<1> QED BY <1>3, <1>4

\* Cells that follow change nothing.
LEMMA HoldsLonger ==
  ASSUME NEW S, NEW cells \in Seq(S), NEW more \in Seq(S), NEW index \in Nat,
         NEW targets \in Seq(Int), Holds(cells, index, targets)
  PROVE  Holds(cells \o more, index, targets)
<1>1. /\ Len(cells) \in Nat /\ Len(more) \in Nat /\ Len(targets) \in Nat
      /\ Len(cells \o more) = Len(cells) + Len(more)
      /\ \A i \in 1 .. Len(cells) + Len(more) :
            (cells \o more)[i] = IF i <= Len(cells) THEN cells[i] ELSE more[i - Len(cells)]
  BY SeqFacts, ConcatProperties
<1> SUFFICES ASSUME NEW i \in 1 .. Len(targets)
             PROVE  /\ index + i \in 1 .. Len(cells \o more)
                    /\ (cells \o more)[index + i] = EdgeTo(targets[i])
  BY DEF Holds
<1>2. PICK j : j = index + i OBVIOUS
<1>3. j \in 1 .. Len(cells) /\ cells[j] = EdgeTo(targets[i]) BY <1>2 DEF Holds
<1>4. j \in 1 .. Len(cells) + Len(more) /\ j <= Len(cells) BY <1>1, <1>3, SMT
<1> QED BY <1>1, <1>2, <1>3, <1>4

LEMMA HoldsAppended ==
  ASSUME NEW cells \in Seq(CellType), NEW targets \in Seq(Int)
  PROVE  Holds(cells \o CellsOf(targets), Len(cells), targets)
<1> DEFINE more == CellsOf(targets)
<1>1. /\ Len(cells) \in Nat /\ Len(more) = Len(targets) /\ Len(targets) \in Nat
      /\ Len(cells \o more) = Len(cells) + Len(more)
      /\ \A i \in 1 .. Len(cells) + Len(more) :
            (cells \o more)[i] = IF i <= Len(cells) THEN cells[i] ELSE more[i - Len(cells)]
      /\ \A i \in 1 .. Len(targets) : more[i] = EdgeTo(targets[i])
  BY CellsOfIs, SeqFacts, ConcatProperties
<1> HIDE DEF more
<1> SUFFICES ASSUME NEW i \in 1 .. Len(targets)
             PROVE  /\ Len(cells) + i \in 1 .. Len(cells \o more)
                    /\ (cells \o more)[Len(cells) + i] = EdgeTo(targets[i])
  BY DEF Holds, more
<1>2. PICK j : j = Len(cells) + i OBVIOUS
<1>3. j \in 1 .. Len(cells) + Len(more) /\ ~ j <= Len(cells) /\ j - Len(cells) = i BY <1>1, <1>2, SMT
<1> QED BY <1>1, <1>2, <1>3

\* The recursive function of MergedLevel, up to node n.
CellsUpTo(lists, n, c) ==
    c = [v \in 0 .. n |-> IF v = 0 THEN <<>> ELSE c[v - 1] \o CellsOf(lists[v - 1])]

LEMMA CellsExist ==
  ASSUME NEW lists, NEW n \in Nat
  PROVE  \E c : CellsUpTo(lists, n, c)
<1> DEFINE S == {m \in Nat : \E c : CellsUpTo(lists, m, c)}
<1>1. 0 \in S
  <2>1. CellsUpTo(lists, 0, [v \in 0 .. 0 |-> <<>>]) BY SMT DEF CellsUpTo
  <2> QED BY <2>1
<1>2. ASSUME NEW m \in Nat, m \in S PROVE m + 1 \in S
  <2>1. PICK c : CellsUpTo(lists, m, c) BY <1>2
  <2> DEFINE V(f, v) == IF v = 0 THEN <<>> ELSE f[v - 1] \o CellsOf(lists[v - 1])
             d == [v \in 0 .. m + 1 |-> V(c, v)]
  <2>2. \A v \in 0 .. m : c[v] = V(c, v) BY <2>1, Zenon DEF CellsUpTo
  <2>3. \A v \in 0 .. m + 1 : v # 0 => v - 1 \in 0 .. m BY SMT
  <2>4. \A v \in 0 .. m : v \in 0 .. m + 1 BY SMT
  <2>5. \A v \in 0 .. m : d[v] = c[v] BY <2>2, <2>4
  <2>6. \A v \in 0 .. m + 1 : d[v] = V(d, v)
    <3> TAKE v \in 0 .. m + 1
    <3>1. d[v] = V(c, v) OBVIOUS
    <3>2. v # 0 => d[v - 1] = c[v - 1] BY <2>3, <2>5
    <3> HIDE DEF d
    <3> QED BY <3>1, <3>2
  <2>7. d = [v \in 0 .. m + 1 |-> d[v]] OBVIOUS
  <2> HIDE DEF d
  <2>8. d = [v \in 0 .. m + 1 |-> V(d, v)] BY <2>6, <2>7, Zenon
  <2>9. CellsUpTo(lists, m + 1, d) BY <2>8, Zenon DEF CellsUpTo
  <2> QED BY <2>9
<1>3. n \in S
  <2> HIDE DEF S
  <2>1. Inductive(S) BY <1>1, <1>2 DEF Inductive
  <2> QED BY <2>1, AllNumbers
<1> QED BY <1>3

MergedEntry(lists, size, c, v) ==
    IF v < size THEN Entry(0, Len(c[v]), Len(lists[v]), Len(lists[v])) ELSE ZeroEntry

MergedPages(lists, size, c) ==
    [p \in 0 .. (size + PageSize - 1) \div PageSize - 1 |->
        [level |-> 0,
         entries |-> [i \in 0 .. PageSize - 1 |-> MergedEntry(lists, size, c, p * PageSize + i)]]]

LEMMA MergedLevelIs ==
  ASSUME NEW lists, NEW size \in Nat
  PROVE  \E c : /\ CellsUpTo(lists, size, c)
                /\ MergedLevel(lists, size) =
                     [size |-> size, pages |-> MergedPages(lists, size, c),
                      cells |-> c[size], capacity |-> Len(c[size])]
<1> DEFINE c == CHOOSE x : CellsUpTo(lists, size, x)
<1>1. CellsUpTo(lists, size, c) BY CellsExist, Zenon
<1>2. MergedLevel(lists, size) =
        [size |-> size, pages |-> MergedPages(lists, size, c),
         cells |-> c[size], capacity |-> Len(c[size])]
  BY Zenon DEF MergedLevel, CellsUpTo, CellsOf, MergedPages, MergedEntry
<1> HIDE DEF c
<1> QED BY <1>1, <1>2

\* The cells of the first n nodes.
MergedCells(lists, c, n) ==
    /\ c[n] \in Seq(CellType)
    /\ \A i \in 1 .. Len(c[n]) : c[n][i].entry = NilEntry
    /\ \A u \in 0 .. n - 1 : Len(c[u]) \in Nat /\ Holds(c[n], Len(c[u]), lists[u])

LEMMA MergedCellsAre ==
  ASSUME NEW size \in Nat, NEW lists, \A v \in 0 .. size - 1 : lists[v] \in Seq(Int),
         NEW c, CellsUpTo(lists, size, c)
  PROVE  MergedCells(lists, c, size)
<1> DEFINE S == {m \in Nat : m <= size => MergedCells(lists, c, m)}
<1>1. 0 \in S
  <2>1. 0 \in 0 .. size BY SMT
  <2>2. c[0] = <<>> BY <2>1, Zenon DEF CellsUpTo
  <2>3. 0 .. 0 - 1 = {} BY SMT
  <2>4. <<>> \in Seq(CellType) /\ Len(<<>>) = 0 BY EmptySeq
  <2>5. 1 .. 0 = {} BY SMT
  <2> QED BY <2>2, <2>3, <2>4, <2>5 DEF MergedCells
<1>2. ASSUME NEW m \in Nat, m \in S PROVE m + 1 \in S
  <2> SUFFICES ASSUME m + 1 <= size PROVE MergedCells(lists, c, m + 1) OBVIOUS
  <2>1. MergedCells(lists, c, m)
    <3>1. m <= size BY SMT
    <3> QED BY <1>2, <3>1
  <2>2. m + 1 \in 0 .. size /\ m + 1 # 0 /\ (m + 1) - 1 = m /\ m \in 0 .. size - 1 BY SMT
  <2> DEFINE s == c[m]
             ts == lists[m]
             more == CellsOf(ts)
             t == c[m + 1]
  <2>3. t = s \o more BY <2>2, Zenon DEF CellsUpTo
  <2>4. s \in Seq(CellType) /\ ts \in Seq(Int) /\ \A i \in 1 .. Len(s) : s[i].entry = NilEntry
    BY <2>1, <2>2 DEF MergedCells
  <2>5. /\ more \in Seq(CellType) /\ Len(more) = Len(ts)
        /\ \A i \in 1 .. Len(more) : more[i].entry = NilEntry
    <3>1. \A x : EdgeTo(x).entry = NilEntry BY DEF EdgeTo
    <3> QED BY <2>4, <3>1, CellsOfIs
  <2>6. \A u \in 0 .. m - 1 : Len(c[u]) \in Nat /\ Holds(s, Len(c[u]), lists[u])
    BY <2>1 DEF MergedCells
  <2>7. Holds(t, Len(s), ts) BY <2>3, <2>4, HoldsAppended
  <2>8. \A u \in 0 .. (m + 1) - 1 : u \in 0 .. m - 1 \/ u = m BY SMT
  <2>9. Len(s) \in Nat BY <2>4, SeqFacts
  <2>10. ASSUME NEW u \in 0 .. (m + 1) - 1 PROVE Len(c[u]) \in Nat /\ Holds(t, Len(c[u]), lists[u])
    <3>1. CASE u = m BY <3>1, <2>7, <2>9
    <3>2. CASE u \in 0 .. m - 1
      <4>1. Len(c[u]) \in Nat /\ Holds(s, Len(c[u]), lists[u]) BY <2>6, <3>2
      <4>2. lists[u] \in Seq(Int)
        <5>1. u \in 0 .. size - 1 BY <2>2, <3>2, SMT
        <5> QED BY <5>1
      <4> HIDE DEF s, more, t
      <4> QED BY <2>3, <2>4, <2>5, <4>1, <4>2, HoldsLonger
    <3> QED BY <2>8, <3>1, <3>2
  <2>11. t \in Seq(CellType) /\ \A i \in 1 .. Len(t) : t[i].entry = NilEntry
    <3> HIDE DEF s, more, t
    <3>1. /\ s \o more \in Seq(CellType) /\ Len(s \o more) = Len(s) + Len(more)
          /\ \A i \in 1 .. Len(s) + Len(more) :
                (s \o more)[i] = IF i <= Len(s) THEN s[i] ELSE more[i - Len(s)]
      BY <2>4, <2>5, ConcatProperties
    <3>2. Len(more) \in Nat BY <2>5, SeqFacts
    <3>3. ASSUME NEW i \in 1 .. Len(s) + Len(more) PROVE (s \o more)[i].entry = NilEntry
      <4>1. CASE i <= Len(s)
        <5>1. i \in 1 .. Len(s) BY <4>1, <2>9, <3>2, SMT
        <5> QED BY <2>4, <3>1, <4>1, <5>1
      <4>2. CASE ~ i <= Len(s)
        <5>1. i - Len(s) \in 1 .. Len(more) BY <4>2, <2>9, <3>2, SMT
        <5> QED BY <2>5, <3>1, <4>2, <5>1
      <4> QED BY <4>1, <4>2
    <3> QED BY <2>3, <3>1, <3>3
  <2> QED BY <2>10, <2>11 DEF MergedCells
<1>3. size \in S
  <2> HIDE DEF S
  <2>1. Inductive(S) BY <1>1, <1>2 DEF Inductive
  <2> QED BY <2>1, AllNumbers
<1> QED BY <1>3

\* The cells of an entry hold the edges of a list.
Spells(L, e, targets) ==
    /\ e.level \in 0 .. Len(L) - 1 /\ e.index \in Nat /\ e.length = Len(targets)
    /\ targets \in Seq(Int)
    /\ L[e.level + 1].cells \in Seq(CellType)
    /\ Holds(L[e.level + 1].cells, e.index, targets)

LEMMA EdgesHeld ==
  ASSUME NEW L, IsSeq(L), NEW e, NEW targets, Spells(L, e, targets)
  PROVE  EdgesOf(L, e) = targets
<1> DEFINE j == e.level
           index == e.index
           cells == L[j + 1].cells
<1>0. /\ j \in 0 .. Len(L) - 1 /\ index \in Nat /\ e.length = Len(targets) /\ targets \in Seq(Int)
      /\ cells \in Seq(CellType) /\ Holds(cells, index, targets)
  BY DEF Spells
<1>1. /\ Len(L) \in Nat /\ DOMAIN L = 1 .. Len(L) /\ j + 1 \in DOMAIN L
      /\ Len(cells) \in Nat /\ DOMAIN cells = 1 .. Len(cells)
      /\ Len(targets) \in Nat
  <2>1. Len(L) \in Nat /\ DOMAIN L = 1 .. Len(L) BY StackDomain
  <2>2. j + 1 \in DOMAIN L BY <1>0, <2>1, SMT
  <2>3. Len(targets) \in Nat BY <1>0, SeqFacts
  <2>4. Len(cells) \in Nat /\ DOMAIN cells = 1 .. Len(cells)
    <3> HIDE DEF cells
    <3> QED BY <1>0, SeqFacts
  <2> QED BY <2>1, <2>2, <2>3, <2>4
<1> DEFINE T(i) == Cell(L, j, index + i - 1).target
<1>2. ASSUME NEW i \in 1 .. Len(targets) PROVE T(i) = targets[i]
  <2>1. index + i \in 1 .. Len(cells) /\ cells[index + i] = EdgeTo(targets[i]) BY <1>0 DEF Holds
  <2>2. (index + i - 1) + 1 = index + i BY <1>0, <1>1, SMT
  <2>3. Cell(L, j, index + i - 1) = EdgeTo(targets[i]) BY <1>1, <2>1, <2>2, Zenon DEF Cell
  <2> QED BY <2>3 DEF EdgeTo
<1>3. EdgesOf(L, e) = [i \in 1 .. Len(targets) |-> T(i)] BY <1>0, Zenon DEF EdgesOf
<1>4. [i \in 1 .. Len(targets) |-> T(i)] = [i \in 1 .. Len(targets) |-> targets[i]]
  <2> HIDE DEF T
  <2> QED BY <1>2
<1>5. targets = [i \in 1 .. Len(targets) |-> targets[i]] BY <1>0, SMT
<1> QED BY <1>3, <1>4, <1>5

LEMMA StackOne ==
  ASSUME NEW l
  PROVE  IsSeq(<<l>>) /\ Len(<<l>>) = 1 /\ <<l>>[1] = l /\ Latest(<<l>>) = l
<1>1. <<l>> \in Seq({l}) BY SMT
<1> QED BY <1>1, SeqFacts, StackOfOne

\* The entry of a node of a merged level.
LEMMA MergedAt ==
  ASSUME NEW size \in Nat, NEW lists, NEW c, NEW v \in 0 .. size - 1
  PROVE  /\ v \div PageSize \in 0 .. (size + PageSize - 1) \div PageSize - 1
         /\ EntryAt(MergedPages(lists, size, c), v) =
              Entry(0, Len(c[v]), Len(lists[v]), Len(lists[v]))
<1> DEFINE q == v \div PageSize
           n == (size + PageSize - 1) \div PageSize
<1>1. /\ v \in Nat /\ q \in Nat /\ v % PageSize \in 0 .. PageSize - 1
      /\ v = q * PageSize + (v % PageSize)
      /\ PageSize \in Nat \ {0}
  BY Quotient, PageSizeIs, SMT
<1>2. q < n /\ n \in Nat
  <2>1. v + PageSize <= size + PageSize - 1 /\ size + PageSize - 1 \in Nat BY <1>1, SMT
  <2> QED BY <1>1, <2>1, QuotientBelow, Quotient
<1> HIDE DEF n
<1>3. q \in 0 .. n - 1 BY <1>1, <1>2, SMT
<1>4. EntryAt(MergedPages(lists, size, c), v) =
        MergedEntry(lists, size, c, q * PageSize + (v % PageSize))
  BY <1>1, <1>3 DEF EntryAt, MergedPages, n
<1>5. v < size BY SMT
<1> QED BY <1>1, <1>3, <1>4, <1>5 DEF MergedEntry, n

\* A merge makes a level of the lists it was given.
LEMMA MergedLevelGood ==
  ASSUME NEW size \in Nat, NEW lists, \A v \in 0 .. size - 1 : lists[v] \in Seq(Int)
  PROVE  LET l == MergedLevel(lists, size)
         IN  /\ WellFormed(<<l>>)
             /\ l.size = size
             /\ LevelFits(l)
             /\ \A v \in 0 .. size - 1 : Content(<<l>>, v) = lists[v]
<1> DEFINE l == MergedLevel(lists, size)
           L == <<l>>
<1>1. PICK c : /\ CellsUpTo(lists, size, c)
               /\ l = [size |-> size, pages |-> MergedPages(lists, size, c),
                       cells |-> c[size], capacity |-> Len(c[size])]
  BY MergedLevelIs
<1>2. MergedCells(lists, c, size) BY <1>1, MergedCellsAre
<1>3. /\ l.size = size /\ l.pages = MergedPages(lists, size, c)
      /\ l.cells = c[size] /\ l.capacity = Len(c[size])
  BY <1>1
<1> HIDE DEF l
<1>4. IsSeq(L) /\ Len(L) = 1 /\ L[1] = l /\ Latest(L) = l BY StackOne
<1>5. 1 .. 1 = {1} /\ 2 .. 1 = {} BY SMT
<1>6. l.cells \in Seq(CellType) /\ Len(l.cells) \in Nat
  <2>1. l.cells \in Seq(CellType) BY <1>2, <1>3 DEF MergedCells
  <2> QED BY <2>1, SeqFacts
<1>7. CellsGood(L)
  <2>1. ASSUME NEW i \in 1 .. Len(l.cells) PROVE Good(L, 0, l.cells[i].entry)
    <3>1. l.cells[i].entry = NilEntry BY <1>2, <1>3 DEF MergedCells
    <3> QED BY <3>1, NilIs
  <2>2. 1 - 1 = 0 BY SMT
  <2> HIDE DEF L
  <2> QED BY <1>4, <1>5, <1>6, <2>1, <2>2 DEF CellsGood
<1>8. ASSUME NEW v \in 0 .. size - 1
      PROVE  /\ v \div PageSize \in DOMAIN l.pages
             /\ Good(L, 1, At(l, v))
             /\ Content(L, v) = lists[v]
  <2> DEFINE e == At(l, v)
             ts == lists[v]
  <2>1. /\ v \div PageSize \in 0 .. (size + PageSize - 1) \div PageSize - 1
        /\ e = Entry(0, Len(c[v]), Len(ts), Len(ts))
    BY <1>3, MergedAt DEF At
  <2>2. v \div PageSize \in DOMAIN l.pages BY <1>3, <2>1, Zenon DEF MergedPages
  <2>3. ts \in Seq(Int) /\ Len(ts) \in Nat BY SeqFacts
  <2>4. Len(c[v]) \in Nat /\ Holds(l.cells, Len(c[v]), ts) BY <1>2, <1>3 DEF MergedCells
  <2> HIDE DEF e, ts, L
  <2>5. /\ e \in Entries /\ e.level = 0 /\ e.index = Len(c[v])
        /\ e.length = Len(ts) /\ e.degree = Len(ts)
    BY <2>1, <2>3, <2>4, SMT DEF Entry, Entries
  <2>6. Good(L, 1, e) BY <2>3, <2>5, SMT DEF Good
  <2>7. EdgesOf(L, e) = ts
    <3>1. e.level \in 0 .. Len(L) - 1 /\ e.level + 1 = 1 BY <1>4, <2>5, SMT
    <3>2. Spells(L, e, ts) BY <1>4, <1>6, <2>3, <2>4, <2>5, <3>1 DEF Spells
    <3> QED BY <1>4, <3>2, EdgesHeld
  <2>8. Ro(L)[e] = ts
    <3>1. Ro(L)[e] = RoStep(L, Ro(L), e) BY <1>4, <1>7, <2>5, RoExists
    <3>2. CASE e.length = 0
      <4>1. Ro(L)[e] = <<>> BY <3>1, <3>2 DEF RoStep
      <4>2. ts = <<>>
        <5>1. Len(ts) = 0 BY <2>5, <3>2
        <5> QED BY <2>3, <5>1, EmptySeq
      <4> QED BY <4>1, <4>2
    <3>3. CASE e.length # 0
      <4>1. Ro(L)[e] = EdgesOf(L, e) \o <<>> BY <2>5, <3>1, <3>3, Zenon DEF RoStep
      <4>2. ts \o <<>> = ts BY <2>3, ConcatEmptySeq
      <4> QED BY <2>7, <4>1, <4>2
    <3> QED BY <3>2, <3>3
  <2>9. Content(L, v) = ts
    <3>1. v < size BY SMT
    <3> QED BY <1>3, <1>4, <2>8, <3>1 DEF Content, e, At
  <2> QED BY <2>2, <2>6, <2>9 DEF e, ts, L
<1>9. EntriesGood(L)
  <2> HIDE DEF L
  <2> QED BY <1>3, <1>4, <1>5, <1>8, Zenon DEF EntriesGood
<1>10. History(L)
  <2> HIDE DEF L
  <2> QED BY <1>4, <1>5 DEF History
<1>11. Homes(L)
  <2>1. ASSUME NEW p \in DOMAIN l.pages PROVE l.pages[p].level = 0
    <3> DEFINE E(q) == [i \in 0 .. PageSize - 1 |->
                           MergedEntry(lists, size, c, q * PageSize + i)]
               n == (size + PageSize - 1) \div PageSize - 1
    <3>1. l.pages = [q \in 0 .. n |-> [level |-> 0, entries |-> E(q)]]
      BY <1>3, Zenon DEF MergedPages
    <3> HIDE DEF E, n
    <3> QED BY <3>1
  <2>2. 0 \in 0 .. 1 - 1 /\ ~ 0 > 0 BY SMT
  <2> HIDE DEF L
  <2> QED BY <1>4, <1>5, <2>1, <2>2 DEF Homes
<1>12. Bases(L)
  <2>1. \A v \in 0 .. l.size - 1 : v < l.size BY <1>3, SMT
  <2> HIDE DEF L
  <2> QED BY <1>4, <1>5, <2>1 DEF Bases
<1>13. Grow(L)
  <2>1. ~ 1 > 1 BY SMT
  <2> HIDE DEF L
  <2> QED BY <1>3, <1>4, <1>5, <2>1 DEF Grow
<1>16. Shapes(L)
  <2>1. ASSUME NEW p \in DOMAIN l.pages PROVE DOMAIN l.pages[p].entries = 0 .. PageSize - 1
    <3> DEFINE E(q) == [i \in 0 .. PageSize - 1 |->
                           MergedEntry(lists, size, c, q * PageSize + i)]
               n == (size + PageSize - 1) \div PageSize - 1
    <3>1. l.pages = [q \in 0 .. n |-> [level |-> 0, entries |-> E(q)]]
      BY <1>3, Zenon DEF MergedPages
    <3>2. \A q : DOMAIN E(q) = 0 .. PageSize - 1 OBVIOUS
    <3> HIDE DEF E, n
    <3> QED BY <3>1, <3>2
  <2> HIDE DEF L
  <2> QED BY <1>4, <1>5, <2>1 DEF Shapes, Shaped
<1>14. LevelFits(l) BY <1>3, <1>6, SMT DEF LevelFits
<1>15. WellFormed(L) BY <1>4, <1>7, <1>9, <1>10, <1>11, <1>12, <1>13, <1>16 DEF WellFormed
<1> QED BY <1>3, <1>8, <1>14, <1>15 DEF l

(***************************************************************************)
(* The level that a checkpoint writes.                                     *)
(***************************************************************************)

\* The pages w are the others with entry e for v, written by level k.
Rewritten(w, pages, k, v, e) ==
    /\ DOMAIN w = DOMAIN pages /\ Shaped(w)
    /\ EntryAt(w, v) = e /\ w[v \div PageSize].level = k
    /\ \A p \in DOMAIN pages : p # v \div PageSize => w[p] = pages[p]
    /\ \A u \in Nat : u # v /\ u \div PageSize \in DOMAIN pages =>
           EntryAt(w, u) = EntryAt(pages, u)

LEMMA CowWriteIs ==
  ASSUME NEW pages, Shaped(pages), NEW k, NEW v \in Nat, v \div PageSize \in DOMAIN pages, NEW e
  PROVE  Rewritten(CowWrite(pages, k, v, e), pages, k, v, e)
<1> DEFINE w == CowWrite(pages, k, v, e)
           q == v \div PageSize
           old == pages[q].entries
           x == [level |-> k, entries |-> [old EXCEPT ![v % PageSize] = e]]
<1>1. w = [pages EXCEPT ![q] = x] BY Zenon DEF CowWrite
<1>2. DOMAIN w = DOMAIN pages BY <1>1, Zenon
<1>3. w[q] = x BY <1>1
<1>4. \A p \in DOMAIN pages : p # q => w[p] = pages[p] BY <1>1
<1>5. DOMAIN old = 0 .. PageSize - 1 BY DEF Shaped
<1>6. v % PageSize \in 0 .. PageSize - 1 BY Quotient
<1>7. /\ x.level = k /\ DOMAIN x.entries = 0 .. PageSize - 1
      /\ x.entries[v % PageSize] = e
      /\ \A i \in 0 .. PageSize - 1 : i # v % PageSize => x.entries[i] = old[i]
  BY <1>5, <1>6
<1> HIDE DEF w, x, old
<1>8. Shaped(w) BY <1>2, <1>3, <1>4, <1>7, Zenon DEF Shaped
<1>9. EntryAt(w, v) = e BY <1>3, <1>7 DEF EntryAt
<1>10. ASSUME NEW u \in Nat, u # v, u \div PageSize \in DOMAIN pages
       PROVE  EntryAt(w, u) = EntryAt(pages, u)
  <2>1. CASE u \div PageSize = q
    <3>1. u % PageSize # v % PageSize BY <1>10, <2>1, SamePlace
    <3>2. u % PageSize \in 0 .. PageSize - 1 BY Quotient
    <3> QED BY <1>3, <1>7, <2>1, <3>1, <3>2 DEF EntryAt, old
  <2>2. CASE u \div PageSize # q BY <1>4, <1>10, <2>2 DEF EntryAt
  <2> QED BY <2>1, <2>2
<1>11. Rewritten(w, pages, k, v, e) BY <1>2, <1>3, <1>4, <1>7, <1>8, <1>9, <1>10 DEF Rewritten
<1> QED BY <1>11 DEF w

\* A level has a page for each of its nodes and for the entry after them.
LEMMA PageExists ==
  ASSUME NEW size \in Nat, NEW v \in 0 .. size
  PROVE  v \div PageSize \in 0 .. NumPages(size) - 1
<1>1. v \in Nat /\ PageSize \in Nat \ {0} BY PageSizeIs, SMT
<1>2. v + PageSize <= size + 4 + PageSize - 1 /\ size + 4 + PageSize - 1 \in Nat BY <1>1, SMT
<1>3. v \div PageSize < NumPages(size) BY <1>1, <1>2, QuotientBelow DEF NumPages
<1>4. v \div PageSize \in Nat /\ NumPages(size) \in Nat BY <1>1, <1>2, Quotient DEF NumPages
<1> QED BY <1>3, <1>4, SMT

LEMMA InheritedAre ==
  ASSUME NEW prev, Shaped(prev.pages), NEW size \in Nat
  PROVE  LET inh == InheritedPages(prev, size)
         IN  /\ DOMAIN inh = 0 .. NumPages(size) - 1 /\ Shaped(inh)
             /\ \A p \in DOMAIN inh : p \in DOMAIN prev.pages => inh[p] = prev.pages[p]
             /\ \A p \in DOMAIN inh : p \notin DOMAIN prev.pages => inh[p] = ZeroPage
<1> DEFINE inh == InheritedPages(prev, size)
<1>1. inh = [p \in 0 .. NumPages(size) - 1 |-> IF p \in DOMAIN prev.pages THEN prev.pages[p] ELSE ZeroPage]
  BY DEF InheritedPages
<1>2. DOMAIN ZeroPage.entries = 0 .. PageSize - 1 BY DEF ZeroPage
<1>3. \A p \in DOMAIN prev.pages : DOMAIN prev.pages[p].entries = 0 .. PageSize - 1 BY DEF Shaped
<1> HIDE DEF inh
<1>4. /\ DOMAIN inh = 0 .. NumPages(size) - 1
      /\ \A p \in DOMAIN inh : p \in DOMAIN prev.pages => inh[p] = prev.pages[p]
      /\ \A p \in DOMAIN inh : p \notin DOMAIN prev.pages => inh[p] = ZeroPage
  BY <1>1
<1>5. Shaped(inh)
  <2> SUFFICES ASSUME NEW p \in DOMAIN inh PROVE DOMAIN inh[p].entries = 0 .. PageSize - 1 BY DEF Shaped
  <2>1. (inh[p] = prev.pages[p] /\ p \in DOMAIN prev.pages) \/ inh[p] = ZeroPage BY <1>4
  <2> QED BY <1>2, <1>3, <2>1
<1> QED BY <1>4, <1>5 DEF inh

\* The level below a new one, or none.
LevelBelow(prev) ==
    /\ prev.size \in Nat /\ Shaped(prev.pages)
    /\ \A u \in 0 .. prev.size - 1 : u \div PageSize \in DOMAIN prev.pages
    /\ \A u \in Nat : Previous(prev, u) \in Entries

\* A node's entry in a new level, and its edges.
Made(prev, k, pages, cells, u, targets) ==
    \/ targets = <<>> /\ EntryAt(pages, u) = Previous(prev, u)
    \/ /\ targets # <<>>
       /\ \E index \in Nat :
            /\ EntryAt(pages, u) =
                 Entry(k, index, Len(targets), NewDegree(Previous(prev, u), targets))
            /\ Holds(cells, index, targets)
            /\ k > 0 => /\ index + Len(targets) + 1 \in 1 .. Len(cells)
                        /\ cells[index + Len(targets) + 1].entry = Previous(prev, u)

\* Continuations lead to entries of the level below.
CellsFrom(prev, k, cells) ==
    /\ cells \in Seq(CellType)
    /\ \A i \in 1 .. Len(cells) :
         \/ cells[i].entry = NilEntry
         \/ k > 0 /\ \E u \in Nat : cells[i].entry = Previous(prev, u)

\* The tables when the first m nodes are done.
Filled(prev, k, size, lists, pages, cells, m) ==
    LET inh == InheritedPages(prev, size)
    IN  /\ DOMAIN pages = 0 .. NumPages(size) - 1 /\ Shaped(pages)
        /\ \A p \in DOMAIN pages : pages[p] = inh[p] \/ pages[p].level = k
        /\ \A u \in 0 .. m - 1 : /\ Made(prev, k, pages, cells, u, lists[u])
                                 /\ u >= prev.size => pages[u \div PageSize].level = k
        /\ \A u \in m .. size : EntryAt(pages, u) = EntryAt(inh, u)
        /\ CellsFrom(prev, k, cells)

LEMMA MadeLonger ==
  ASSUME NEW prev, NEW k, NEW pages, NEW cells \in Seq(CellType), NEW more \in Seq(CellType),
         NEW u \in Nat, NEW targets \in Seq(Int), Made(prev, k, pages, cells, u, targets),
         NEW other, EntryAt(other, u) = EntryAt(pages, u)
  PROVE  Made(prev, k, other, cells \o more, u, targets)
<1>1. CASE targets = <<>> BY <1>1 DEF Made
<1>2. CASE targets # <<>>
  <2>1. PICK index \in Nat :
          /\ EntryAt(pages, u) = Entry(k, index, Len(targets), NewDegree(Previous(prev, u), targets))
          /\ Holds(cells, index, targets)
          /\ k > 0 => /\ index + Len(targets) + 1 \in 1 .. Len(cells)
                      /\ cells[index + Len(targets) + 1].entry = Previous(prev, u)
    BY <1>2 DEF Made
  <2>2. Holds(cells \o more, index, targets) BY <2>1, HoldsLonger
  <2>3. ASSUME k > 0
        PROVE  /\ index + Len(targets) + 1 \in 1 .. Len(cells \o more)
               /\ (cells \o more)[index + Len(targets) + 1].entry = Previous(prev, u)
    <3>1. PICK j : j = index + Len(targets) + 1 OBVIOUS
    <3>2. j \in 1 .. Len(cells) /\ cells[j].entry = Previous(prev, u) BY <2>1, <2>3, <3>1
    <3>3. /\ Len(cells) \in Nat /\ Len(more) \in Nat
          /\ Len(cells \o more) = Len(cells) + Len(more)
          /\ \A i \in 1 .. Len(cells) + Len(more) :
                (cells \o more)[i] = IF i <= Len(cells) THEN cells[i] ELSE more[i - Len(cells)]
      BY SeqFacts, ConcatProperties
    <3>4. j \in 1 .. Len(cells) + Len(more) /\ j <= Len(cells) BY <3>2, <3>3, SMT
    <3> QED BY <3>1, <3>2, <3>3, <3>4
  <2> QED BY <1>2, <2>1, <2>2, <2>3 DEF Made
<1> QED BY <1>1, <1>2

LEMMA CellsFromConcat ==
  ASSUME NEW prev, NEW k, NEW cells, NEW more, CellsFrom(prev, k, cells), CellsFrom(prev, k, more)
  PROVE  CellsFrom(prev, k, cells \o more)
<1> DEFINE Ok(c) == c.entry = NilEntry \/ (k > 0 /\ \E u \in Nat : c.entry = Previous(prev, u))
<1>1. /\ cells \in Seq(CellType) /\ more \in Seq(CellType)
      /\ \A i \in 1 .. Len(cells) : Ok(cells[i])
      /\ \A i \in 1 .. Len(more) : Ok(more[i])
  BY DEF CellsFrom
<1>2. /\ Len(cells) \in Nat /\ Len(more) \in Nat
      /\ cells \o more \in Seq(CellType)
      /\ Len(cells \o more) = Len(cells) + Len(more)
      /\ \A i \in 1 .. Len(cells) + Len(more) :
            (cells \o more)[i] = IF i <= Len(cells) THEN cells[i] ELSE more[i - Len(cells)]
  BY <1>1, SeqFacts, ConcatProperties
<1>3. ASSUME NEW i \in 1 .. Len(cells \o more) PROVE Ok((cells \o more)[i])
  <2> HIDE DEF Ok
  <2>1. CASE i <= Len(cells)
    <3>1. i \in 1 .. Len(cells) BY <1>2, <2>1, SMT
    <3> QED BY <1>1, <1>2, <2>1, <3>1
  <2>2. CASE ~ i <= Len(cells)
    <3>1. i - Len(cells) \in 1 .. Len(more) BY <1>2, <2>2, SMT
    <3> QED BY <1>1, <1>2, <2>2, <3>1
  <2> QED BY <2>1, <2>2
<1> QED BY <1>2, <1>3 DEF CellsFrom

\* The cells of one node.
LEMMA NodeCells ==
  ASSUME NEW prev, LevelBelow(prev), NEW k \in Nat, NEW v \in Nat, NEW targets \in Seq(Int)
  PROVE  /\ CellsFrom(prev, k, CellsOf(targets))
         /\ CellsFrom(prev, k, ContinuationCells(k, Previous(prev, v), targets))
<1> DEFINE old == Previous(prev, v)
<1>1. CellsFrom(prev, k, CellsOf(targets))
  <2>1. \A x : EdgeTo(x).entry = NilEntry BY DEF EdgeTo
  <2> QED BY <2>1, CellsOfIs DEF CellsFrom
<1>2. CASE k > 0 /\ targets # <<>>
  <2>1. ContinuationCells(k, old, targets) = Continuation(old) BY <1>2 DEF ContinuationCells
  <2> DEFINE a == [target |-> Unset, entry |-> old]
             b == EdgeTo(Unset)
  <2>2. Continuation(old) = <<a, b>> BY DEF Continuation
  <2>3. old \in Entries BY DEF LevelBelow
  <2>4. a \in CellType /\ a.entry = old BY <2>3, SMT DEF CellType, Unset
  <2>5. b \in CellType /\ b.entry = NilEntry
    <3>1. b = [target |-> Unset, entry |-> NilEntry] BY DEF EdgeTo
    <3> QED BY <3>1, NilIs, SMT DEF CellType, Unset
  <2> HIDE DEF a, b, old
  <2>6. <<a, b>> \in Seq(CellType) BY <2>4, <2>5
  <2>7. \A i \in 1 .. Len(<<a, b>>) : <<a, b>>[i] = a \/ <<a, b>>[i] = b BY SMT
  <2>8. old = Previous(prev, v) BY DEF old
  <2> QED BY <1>1, <1>2, <2>1, <2>2, <2>4, <2>5, <2>6, <2>7, <2>8 DEF CellsFrom
<1>3. CASE ~ (k > 0 /\ targets # <<>>)
  <2>1. ContinuationCells(k, old, targets) = <<>> BY <1>3 DEF ContinuationCells
  <2>2. <<>> \in Seq(CellType) /\ Len(<<>>) = 0 /\ 1 .. 0 = {} BY EmptySeq, SMT
  <2> QED BY <1>1, <2>1, <2>2 DEF CellsFrom
<1> QED BY <1>2, <1>3

\* What a node with edges has after its own step.
LEMMA MadeNow ==
  ASSUME NEW prev, LevelBelow(prev), NEW k \in Nat, NEW v \in Nat, NEW targets \in Seq(Int),
         NEW cells \in Seq(CellType), NEW pages, targets # <<>>,
         EntryAt(pages, v) = Entry(k, Len(cells), Len(targets), NewDegree(Previous(prev, v), targets))
  PROVE  Made(prev, k, pages,
              cells \o CellsOf(targets) \o ContinuationCells(k, Previous(prev, v), targets),
              v, targets)
<1> DEFINE old == Previous(prev, v)
           more == CellsOf(targets)
           rest == ContinuationCells(k, old, targets)
           one == cells \o more
           all == one \o rest
<1>1. more \in Seq(CellType) /\ rest \in Seq(CellType) BY NodeCells DEF CellsFrom
<1>2. Len(more) = Len(targets) BY CellsOfIs
<1>3. Holds(one, Len(cells), targets) BY HoldsAppended
<1>4. one \in Seq(CellType) /\ Len(one) = Len(cells) + Len(targets)
  <2> HIDE DEF more, rest
  <2>1. more \in Seq(CellType) BY <1>1
  <2>2. cells \o more \in Seq(CellType) /\ Len(cells \o more) = Len(cells) + Len(more)
    BY <2>1, ConcatProperties
  <2> QED BY <1>2, <2>2
<1>5. Len(cells) \in Nat /\ Len(targets) \in Nat BY SeqFacts
<1> HIDE DEF one
<1>6. Holds(all, Len(cells), targets)
  <2> HIDE DEF rest
  <2> QED BY <1>1, <1>3, <1>4, <1>5, HoldsLonger
<1>7. ASSUME k > 0
      PROVE  /\ Len(cells) + Len(targets) + 1 \in 1 .. Len(all)
             /\ all[Len(cells) + Len(targets) + 1].entry = old
  <2>1. rest = Continuation(old) BY <1>7 DEF ContinuationCells
  <2>2. Len(rest) = 2 /\ rest[1].entry = old BY <2>1, SMT DEF Continuation
  <2> HIDE DEF rest
  <2>3. /\ Len(all) = Len(one) + Len(rest)
        /\ \A i \in 1 .. Len(one) + Len(rest) :
              all[i] = IF i <= Len(one) THEN one[i] ELSE rest[i - Len(one)]
    <3>1. rest \in Seq(CellType) /\ one \in Seq(CellType) BY <1>1, <1>4
    <3> QED BY <3>1, ConcatProperties
  <2> HIDE DEF all
  <2>4. PICK j : j = Len(cells) + Len(targets) + 1 OBVIOUS
  <2>5. j \in 1 .. Len(one) + Len(rest) /\ ~ j <= Len(one) /\ j - Len(one) = 1
    BY <1>4, <1>5, <2>2, <2>4, SMT
  <2> QED BY <2>2, <2>3, <2>4, <2>5
<1>8. Made(prev, k, pages, all, v, targets)
  <2> HIDE DEF all
  <2> QED BY <1>5, <1>6, <1>7 DEF Made
<1> QED BY <1>8 DEF one

\* The step of one node (init_node and write_values).
LEMMA FilledStep ==
  ASSUME NEW prev, LevelBelow(prev), NEW k \in Nat, k = 0 => prev.size = 0,
         NEW size \in Nat, NEW lists, NEW v \in 0 .. size - 1, lists[v] \in Seq(Int),
         \A u \in 0 .. size - 1 : lists[u] \in Seq(Int),
         NEW table, Filled(prev, k, size, lists, table.pages, table.cells, v)
  PROVE  LET t == InitNode(prev, k, table, v, lists[v])
         IN  Filled(prev, k, size, lists, t.pages, t.cells, v + 1)
<1> DEFINE targets == lists[v]
           inh == InheritedPages(prev, size)
           old == Previous(prev, v)
           t == InitNode(prev, k, table, v, targets)
           pages == table.pages
           cells == table.cells
           entry == IF targets = <<>> THEN NilEntry
                    ELSE Entry(k, Len(cells), Len(targets), NewDegree(old, targets))
           all == cells \o CellsOf(targets) \o ContinuationCells(k, old, targets)
<1>1. /\ v \in Nat /\ v \in 0 .. size /\ prev.size \in Nat
      /\ \A u \in 0 .. (v + 1) - 1 : u = v \/ u \in 0 .. v - 1
      /\ \A u \in v + 1 .. size : u \in v .. size /\ u # v /\ u \in 0 .. size /\ u \in Nat
      /\ \A u \in 0 .. v - 1 : u # v /\ u \in 0 .. size /\ u \in Nat /\ u \in 0 .. size - 1
      /\ v \in v .. size
  BY SMT DEF LevelBelow
<1>2. /\ DOMAIN pages = 0 .. NumPages(size) - 1 /\ Shaped(pages)
      /\ \A p \in DOMAIN pages : pages[p] = inh[p] \/ pages[p].level = k
      /\ \A u \in 0 .. v - 1 : /\ Made(prev, k, pages, cells, u, lists[u])
                               /\ u >= prev.size => pages[u \div PageSize].level = k
      /\ \A u \in v .. size : EntryAt(pages, u) = EntryAt(inh, u)
      /\ CellsFrom(prev, k, cells)
  BY Zenon DEF Filled
<1>3. \A u \in 0 .. size : u \div PageSize \in DOMAIN pages BY <1>2, PageExists
<1>4. CASE k > 0 /\ targets = <<>> /\ v < prev.size
  <2>1. t = table BY <1>4, Zenon DEF InitNode
  <2>2. EntryAt(pages, v) = old
    <3>1. EntryAt(pages, v) = EntryAt(inh, v) BY <1>1, <1>2
    <3>2. v \in 0 .. prev.size - 1 BY <1>1, <1>4, SMT
    <3>3. v \div PageSize \in DOMAIN prev.pages BY <3>2 DEF LevelBelow
    <3>4. v \div PageSize \in DOMAIN inh
      <4>1. DOMAIN inh = 0 .. NumPages(size) - 1 BY InheritedAre DEF LevelBelow
      <4> QED BY <1>1, <4>1, PageExists
    <3>5. inh[v \div PageSize] = prev.pages[v \div PageSize]
      BY <3>3, <3>4, InheritedAre DEF LevelBelow
    <3>6. EntryAt(inh, v) = EntryAt(prev.pages, v) BY <3>5 DEF EntryAt
    <3> QED BY <3>1, <3>6, <1>4 DEF Previous
  <2>3. Made(prev, k, pages, cells, v, targets) BY <2>2, <1>4 DEF Made
  <2>4. ~ v >= prev.size BY <1>1, <1>4, SMT
  <2> HIDE DEF t, pages, cells, inh, targets
  <2>5. \A u \in 0 .. (v + 1) - 1 : /\ Made(prev, k, pages, cells, u, lists[u])
                                    /\ u >= prev.size => pages[u \div PageSize].level = k
    <3> TAKE u \in 0 .. (v + 1) - 1
    <3>1. CASE u = v BY <2>3, <2>4, <3>1 DEF targets
    <3>2. CASE u \in 0 .. v - 1 BY <1>2, <3>2
    <3> QED BY <1>1, <3>1, <3>2
  <2>6. \A u \in v + 1 .. size : EntryAt(pages, u) = EntryAt(inh, u) BY <1>1, <1>2
  <2>7. Filled(prev, k, size, lists, pages, cells, v + 1)
    BY <1>2, <2>5, <2>6, Zenon DEF Filled, inh
  <2> QED BY <2>1, <2>7 DEF t, pages, cells, targets
<1>5. CASE ~ (k > 0 /\ targets = <<>> /\ v < prev.size)
  <2> DEFINE w == CowWrite(pages, k, v, entry)
  <2>2. t.pages = w /\ t.cells = all
    <3> HIDE DEF targets
    <3>1. t = IF k > 0 /\ targets = <<>> /\ v < prev.size THEN table
              ELSE [pages |-> w, cells |-> all]
      BY Zenon DEF InitNode, CellsOf
    <3> HIDE DEF t, w, all
    <3>2. t = [pages |-> w, cells |-> all] BY <1>5, <3>1
    <3> QED BY <3>2
  <2>3. v \div PageSize \in DOMAIN pages BY <1>1, <1>3
  <2>4. /\ DOMAIN w = DOMAIN pages /\ Shaped(w)
        /\ EntryAt(w, v) = entry /\ w[v \div PageSize].level = k
        /\ \A p \in DOMAIN pages : p # v \div PageSize => w[p] = pages[p]
        /\ \A u \in Nat : u # v /\ u \div PageSize \in DOMAIN pages =>
              EntryAt(w, u) = EntryAt(pages, u)
    <3> HIDE DEF entry, pages
    <3>1. Shaped(pages) BY <1>2
    <3>2. Rewritten(w, pages, k, v, entry) BY <1>1, <3>1, <2>3, CowWriteIs
    <3> HIDE DEF w
    <3> QED BY <3>2 DEF Rewritten
  <2> HIDE DEF w
  <2>5. \A p \in DOMAIN pages : w[p].level = k \/ w[p] = pages[p] BY <2>4
  <2>6. cells \in Seq(CellType) /\ targets \in Seq(Int) BY <1>2 DEF CellsFrom
  <2>7. CellsFrom(prev, k, CellsOf(targets)) /\ CellsFrom(prev, k, ContinuationCells(k, old, targets))
    BY <1>1, <2>6, NodeCells
  <2>8. CellsFrom(prev, k, all)
    <3> DEFINE more == CellsOf(targets)
               rest == ContinuationCells(k, old, targets)
    <3>1. CellsFrom(prev, k, more) /\ CellsFrom(prev, k, rest) BY <2>7
    <3> HIDE DEF more, rest, cells
    <3>2. CellsFrom(prev, k, cells \o more) BY <1>2, <3>1, CellsFromConcat
    <3>3. CellsFrom(prev, k, (cells \o more) \o rest) BY <3>1, <3>2, CellsFromConcat
    <3> QED BY <3>3 DEF more, rest
  <2>9. Made(prev, k, w, all, v, targets)
    <3>1. CASE targets = <<>>
      <4>1. ~ v < prev.size BY <1>1, <1>5, <3>1, SMT
      <4>2. old = NilEntry BY <4>1 DEF Previous
      <4>3. entry = NilEntry BY <3>1
      <4> QED BY <2>4, <3>1, <4>2, <4>3 DEF Made
    <3>2. CASE targets # <<>>
      <4>1. EntryAt(w, v) = Entry(k, Len(cells), Len(targets), NewDegree(old, targets))
        BY <2>4, <3>2
      <4> HIDE DEF cells
      <4> QED BY <1>1, <2>6, <3>2, <4>1, MadeNow
    <3> QED BY <3>1, <3>2
  <2>10. ASSUME NEW u \in 0 .. v - 1 PROVE Made(prev, k, w, all, u, lists[u])
    <3>1. u \in Nat /\ u # v /\ u \in 0 .. size /\ u \in 0 .. size - 1 BY <1>1
    <3>2. u \div PageSize \in DOMAIN pages BY <1>3, <3>1
    <3>3. EntryAt(w, u) = EntryAt(pages, u) BY <2>4, <3>1, <3>2
    <3>4. Made(prev, k, pages, cells, u, lists[u]) BY <1>2
    <3>5. lists[u] \in Seq(Int) BY <3>1
    <3> DEFINE more == CellsOf(targets)
               rest == ContinuationCells(k, old, targets)
               ts == lists[u]
    <3>6. more \in Seq(CellType) /\ rest \in Seq(CellType) BY <2>7 DEF CellsFrom
    <3>7. EntryAt(pages, u) = EntryAt(pages, u) OBVIOUS
    <3> HIDE DEF more, rest, cells, pages, ts
    <3>8. Made(prev, k, w, cells \o more, u, ts)
      <4>1. ts \in Seq(Int) /\ Made(prev, k, pages, cells, u, ts) BY <3>4, <3>5 DEF ts
      <4> QED BY <2>6, <3>1, <3>3, <3>6, <4>1, MadeLonger
    <3>9. cells \o more \in Seq(CellType) BY <2>6, <3>6, ConcatProperties
    <3>10. Made(prev, k, w, (cells \o more) \o rest, u, ts)
      <4>1. ts \in Seq(Int) /\ EntryAt(w, u) = EntryAt(w, u) BY <3>5 DEF ts
      <4> QED BY <3>1, <3>6, <3>8, <3>9, <4>1, MadeLonger
    <3> QED BY <3>10 DEF more, rest, ts
  <2>11. ASSUME NEW u \in 0 .. v - 1, u >= prev.size PROVE w[u \div PageSize].level = k
    <3>1. u \div PageSize \in DOMAIN pages BY <1>1, <1>3
    <3>2. pages[u \div PageSize].level = k BY <1>2, <2>11
    <3> QED BY <2>5, <3>1, <3>2
  <2>12. \A u \in v + 1 .. size : EntryAt(w, u) = EntryAt(inh, u)
    <3> TAKE u \in v + 1 .. size
    <3>1. u \in v .. size /\ u # v /\ u \in 0 .. size /\ u \in Nat BY <1>1
    <3> QED BY <1>2, <1>3, <2>4, <3>1
  <2> HIDE DEF all, pages, cells, inh, targets, t
  <2>13. \A u \in 0 .. (v + 1) - 1 : /\ Made(prev, k, w, all, u, lists[u])
                                     /\ u >= prev.size => w[u \div PageSize].level = k
    <3> TAKE u \in 0 .. (v + 1) - 1
    <3>1. CASE u = v BY <2>4, <2>9, <3>1 DEF targets
    <3>2. CASE u \in 0 .. v - 1 BY <2>10, <2>11, <3>2
    <3> QED BY <1>1, <3>1, <3>2
  <2>14. \A p \in DOMAIN w : w[p] = inh[p] \/ w[p].level = k BY <1>2, <2>4, <2>5
  <2>15. Filled(prev, k, size, lists, w, all, v + 1)
    BY <1>2, <2>4, <2>8, <2>12, <2>13, <2>14, Zenon DEF Filled, inh
  <2> QED BY <2>2, <2>15 DEF t, targets
<1> QED BY <1>4, <1>5

\* The tables when all nodes are done.
LEMMA FilledAll ==
  ASSUME NEW lvs, Len(lvs) \in Nat, LevelBelow(Below(lvs)), NEW size \in Nat, NEW lists,
         \A u \in 0 .. size - 1 : lists[u] \in Seq(Int), NEW t, TableOf(lvs, lists, size, size, t)
  PROVE  Filled(Below(lvs), Len(lvs), size, lists, t[size].pages, t[size].cells, size)
<1> DEFINE k == Len(lvs)
           prev == Below(lvs)
           inh == InheritedPages(prev, size)
           Done(m) == Filled(prev, k, size, lists, t[m].pages, t[m].cells, m)
           S == {m \in Nat : m <= size => Done(m)}
<1>0. k \in Nat /\ (k = 0 => prev.size = 0) /\ LevelBelow(prev) BY DEF Below, NoLevel
<1>1. Done(0)
  <2>1. 0 \in 0 .. size /\ 0 .. 0 - 1 = {} BY SMT
  <2>2. t[0].pages = inh /\ t[0].cells = <<>> BY <2>1 DEF TableOf
  <2>3. DOMAIN inh = 0 .. NumPages(size) - 1 /\ Shaped(inh) BY <1>0, InheritedAre DEF LevelBelow
  <2>4. CellsFrom(prev, k, <<>>)
    <3>1. <<>> \in Seq(CellType) /\ Len(<<>>) = 0 /\ 1 .. 0 = {} BY EmptySeq, SMT
    <3> QED BY <3>1 DEF CellsFrom
  <2> HIDE DEF k, prev
  <2>5. Filled(prev, k, size, lists, inh, <<>>, 0)
    BY <2>1, <2>3, <2>4, Zenon DEF Filled
  <2> QED BY <2>2, <2>5
<1>2. ASSUME NEW m \in Nat, m \in S PROVE m + 1 \in S
  <2> SUFFICES ASSUME m + 1 <= size PROVE Done(m + 1) OBVIOUS
  <2>1. m \in 0 .. size - 1 /\ m + 1 \in 0 .. size /\ m + 1 # 0 /\ (m + 1) - 1 = m /\ m <= size BY SMT
  <2>2. Done(m) BY <1>2, <2>1
  <2>3. t[m + 1] = InitNode(prev, k, t[m], m, lists[m]) BY <2>1, Zenon DEF TableOf
  <2> HIDE DEF k, prev
  <2>4. lists[m] \in Seq(Int) BY <2>1
  <2>5. Filled(prev, k, size, lists, t[m].pages, t[m].cells, m) BY <2>2
  <2> DEFINE a == t[m]
             b == InitNode(prev, k, a, m, lists[m])
  <2>6. Filled(prev, k, size, lists, b.pages, b.cells, m + 1)
    <3>1. Filled(prev, k, size, lists, a.pages, a.cells, m) BY <2>5
    <3> HIDE DEF a
    <3> QED BY <1>0, <2>1, <2>4, <3>1, FilledStep
  <2> QED BY <2>3, <2>6
<1>3. size \in S
  <2> HIDE DEF S
  <2>1. Inductive(S)
    <3>1. 0 \in S BY <1>1 DEF S
    <3> QED BY <3>1, <1>2 DEF Inductive
  <2> QED BY <2>1, AllNumbers
<1>4. size <= size BY SMT
<1> HIDE DEF Done
<1>5. Done(size) BY <1>3, <1>4
<1> QED BY <1>5 DEF Done

\* A level that stands on another, and adds a list to each node.
Raised(prev, k, size, lists, l) ==
    LET inh == InheritedPages(prev, size)
    IN  /\ l.size = size /\ DOMAIN l.pages = 0 .. NumPages(size) - 1 /\ Shaped(l.pages)
        /\ \A p \in DOMAIN l.pages : l.pages[p] = inh[p] \/ l.pages[p].level = k
        /\ \A u \in 0 .. size - 1 : /\ Made(prev, k, l.pages, l.cells, u, lists[u])
                                    /\ u >= prev.size => l.pages[u \div PageSize].level = k
        /\ CellsFrom(prev, k, l.cells)

LEMMA MadeAlike ==
  ASSUME NEW prev, NEW k, NEW pages, NEW cells, NEW u, NEW targets,
         Made(prev, k, pages, cells, u, targets), NEW other, EntryAt(other, u) = EntryAt(pages, u)
  PROVE  Made(prev, k, other, cells, u, targets)
BY Zenon DEF Made

LEMMA NewLevelRaised ==
  ASSUME NEW lvs, Len(lvs) \in Nat, LevelBelow(Below(lvs)), NEW size \in Nat, NEW lists,
         \A u \in 0 .. size - 1 : lists[u] \in Seq(Int)
  PROVE  Raised(Below(lvs), Len(lvs), size, lists, NewLevel(lvs, lists, size))
<1> DEFINE l == NewLevel(lvs, lists, size)
           k == Len(lvs)
           prev == Below(lvs)
           inh == InheritedPages(prev, size)
<1>1. PICK t, e, c : /\ TableOf(lvs, lists, size, size, t)
                     /\ EdgesUpTo(lists, size, e)
                     /\ ListsUpTo(lists, size, c)
                     /\ l.cells = t[size].cells
                     /\ l.pages = CowWrite(t[size].pages, k, size, Entry(k, Len(t[size].cells), 0, 0))
                     /\ l.capacity = ValuesLength(k, c[size], e[size])
  BY NewLevelIs
<1> DEFINE pages == t[size].pages
           cells == t[size].cells
           end == Entry(k, Len(cells), 0, 0)
           w == CowWrite(pages, k, size, end)
<1>2. Filled(prev, k, size, lists, pages, cells, size) BY <1>1, FilledAll
<1>3. l.size = size /\ l.cells = cells /\ l.pages = w BY <1>1, Sizes
<1> HIDE DEF l, pages, cells, end, k, prev
<1>4. /\ DOMAIN pages = 0 .. NumPages(size) - 1 /\ Shaped(pages)
      /\ \A p \in DOMAIN pages : pages[p] = inh[p] \/ pages[p].level = k
      /\ \A u \in 0 .. size - 1 : /\ Made(prev, k, pages, cells, u, lists[u])
                                  /\ u >= prev.size => pages[u \div PageSize].level = k
      /\ CellsFrom(prev, k, cells)
  BY <1>2, Zenon DEF Filled
<1>5. /\ size \in 0 .. size
      /\ \A u \in 0 .. size - 1 : u \in Nat /\ u # size /\ u \in 0 .. size
  BY SMT
<1>6. \A u \in 0 .. size : u \div PageSize \in DOMAIN pages BY <1>4, PageExists
<1>7. Rewritten(w, pages, k, size, end) BY <1>4, <1>5, <1>6, CowWriteIs
<1> HIDE DEF w
<1>8. /\ DOMAIN w = DOMAIN pages /\ Shaped(w)
      /\ w[size \div PageSize].level = k
      /\ \A p \in DOMAIN pages : p # size \div PageSize => w[p] = pages[p]
      /\ \A u \in Nat : u # size /\ u \div PageSize \in DOMAIN pages =>
             EntryAt(w, u) = EntryAt(pages, u)
  BY <1>7, Zenon DEF Rewritten
<1>9. \A p \in DOMAIN pages : w[p] = pages[p] \/ w[p].level = k BY <1>8
<1>10. \A u \in 0 .. size - 1 : /\ Made(prev, k, w, cells, u, lists[u])
                                /\ u >= prev.size => w[u \div PageSize].level = k
  <2> TAKE u \in 0 .. size - 1
  <2>1. Made(prev, k, w, cells, u, lists[u])
    <3>1. EntryAt(w, u) = EntryAt(pages, u) BY <1>5, <1>6, <1>8
    <3> QED BY <1>4, <3>1, MadeAlike
  <2>2. u >= prev.size => w[u \div PageSize].level = k BY <1>4, <1>5, <1>6, <1>9
  <2> QED BY <2>1, <2>2
<1>11. \A p \in DOMAIN w : w[p] = inh[p] \/ w[p].level = k BY <1>4, <1>8, <1>9
<1> QED BY <1>3, <1>4, <1>8, <1>10, <1>11, Zenon DEF Raised, l, k, prev

\* A new level on a stack that the program made.
OnStack(L, size, lists, l) ==
    /\ WellFormed(L) /\ size \in Nat /\ Below(L).size <= size
    /\ \A u \in 0 .. size - 1 : lists[u] \in Seq(Int)
    /\ Raised(Below(L), Len(L), size, lists, l)

LEMMA NothingWellFormed == WellFormed(<<>>)
<1>1. IsSeq(<<>>) /\ Len(<<>>) = 0 /\ 1 .. 0 = {} /\ 2 .. 0 = {}
  <2>1. <<>> \in Seq({}) /\ Len(<<>>) = 0 /\ 1 .. 0 = {} /\ 2 .. 0 = {} BY SMT
  <2> QED BY <2>1, SeqFacts
<1> QED BY <1>1 DEF WellFormed, CellsGood, EntriesGood, History, Homes, Bases, Grow, Shapes

LEMMA BelowGood ==
  ASSUME NEW L, WellFormed(L)
  PROVE  /\ Len(L) \in Nat /\ LevelBelow(Below(L))
         /\ \A u \in Nat : Good(L, Len(L), Previous(Below(L), u))
         /\ Len(L) = 0 => Below(L).size = 0 /\ \A u \in Nat : Previous(Below(L), u) = NilEntry
<1> DEFINE k == Len(L)
<1>1. k \in Nat BY StackDomain DEF WellFormed
<1>2. CASE k = 0
  <2>1. Below(L) = NoLevel BY <1>2 DEF Below
  <2>2. NoLevel.size = 0 /\ NoLevel.pages = <<>> /\ DOMAIN <<>> = {} /\ 0 .. 0 - 1 = {}
    BY SMT DEF NoLevel
  <2>3. \A u \in Nat : Previous(NoLevel, u) = NilEntry
    <3> TAKE u \in Nat
    <3>1. ~ u < 0 BY SMT
    <3> QED BY <2>2, <3>1 DEF Previous
  <2>4. Shaped(NoLevel.pages) BY <2>2 DEF Shaped
  <2>5. LevelBelow(NoLevel) BY <2>2, <2>3, <2>4, NilIs DEF LevelBelow
  <2>6. Good(L, 0, NilEntry) BY NilIs
  <2> QED BY <1>1, <1>2, <2>1, <2>2, <2>3, <2>5, <2>6
<1>3. CASE k # 0
  <2>1. Below(L) = L[k] /\ k \in 1 .. Len(L) BY <1>1, <1>3, SMT DEF Below
  <2>2. \A u \in Nat : Good(L, k, Previous(L[k], u)) BY <2>1, PreviousGood
  <2>3. L[k].size \in Nat BY <2>1 DEF WellFormed, Grow
  <2>4. Shaped(L[k].pages) BY <2>1 DEF WellFormed, Shapes
  <2>5. \A u \in 0 .. L[k].size - 1 : u \div PageSize \in DOMAIN L[k].pages
    BY <2>1 DEF WellFormed, EntriesGood
  <2>6. \A u \in Nat : Previous(L[k], u) \in Entries BY <2>2 DEF Good
  <2>7. LevelBelow(L[k]) BY <2>3, <2>4, <2>5, <2>6 DEF LevelBelow
  <2> QED BY <1>1, <1>3, <2>1, <2>2, <2>7
<1> QED BY <1>2, <1>3

\* The stack with the new level.
LEMMA RaisedStack ==
  ASSUME NEW L, NEW size, NEW lists, NEW l, OnStack(L, size, lists, l)
  PROVE  LET M == Append(L, l)
         IN  /\ Len(L) \in Nat /\ IsSeq(L) /\ CellsGood(L)
             /\ IsSeq(M) /\ Len(M) = Len(L) + 1 /\ M[Len(L) + 1] = l /\ Latest(M) = l
             /\ \A n \in 1 .. Len(L) : M[n] = L[n]
             /\ CellsGood(M)
<1> DEFINE M == Append(L, l)
           k == Len(L)
<1>1. k \in Nat /\ IsSeq(L) /\ CellsGood(L) BY StackDomain DEF OnStack, WellFormed
<1>2. /\ IsSeq(M) /\ Len(M) = k + 1 /\ M[k + 1] = l /\ Latest(M) = l
      /\ \A n \in 1 .. k : M[n] = L[n]
  BY <1>1, OnTop
<1>3. ASSUME NEW n \in Int, n <= k, NEW e, Good(L, n, e) PROVE Good(M, n, e)
  BY <1>1, <1>3, GoodBelow
<1> HIDE DEF M
<1>4. ASSUME NEW n \in 1 .. k + 1
      PROVE  /\ M[n].cells \in Seq(CellType)
             /\ \A i \in 1 .. Len(M[n].cells) : Good(M, n - 1, M[n].cells[i].entry)
  <2>1. CASE n \in 1 .. k
    <3>1. n - 1 \in Int /\ n - 1 <= k BY <1>1, <2>1, SMT
    <3>2. L[n].cells \in Seq(CellType) /\ \A i \in 1 .. Len(L[n].cells) : Good(L, n - 1, L[n].cells[i].entry)
      BY <1>1, <2>1 DEF CellsGood
    <3>3. M[n] = L[n] BY <1>2, <2>1
    <3> QED BY <1>3, <3>1, <3>2, <3>3
  <2>2. CASE n = k + 1
    <3>1. M[n] = l /\ n - 1 = k /\ k \in Int /\ k <= k BY <1>1, <1>2, <2>2, SMT
    <3>2. CellsFrom(Below(L), k, l.cells) BY Zenon DEF OnStack, Raised
    <3>3. \A u \in Nat : Good(L, k, Previous(Below(L), u)) BY BelowGood DEF OnStack
    <3>4. Good(L, k, NilEntry) BY <1>1, NilIs
    <3>5. ASSUME NEW i \in 1 .. Len(l.cells) PROVE Good(M, k, l.cells[i].entry)
      <4>1. Good(L, k, l.cells[i].entry) BY <3>2, <3>3, <3>4 DEF CellsFrom
      <4> QED BY <1>3, <3>1, <4>1
    <3>6. l.cells \in Seq(CellType) BY <3>2 DEF CellsFrom
    <3> QED BY <3>1, <3>5, <3>6
  <2>3. n \in 1 .. k \/ n = k + 1 BY <1>1, SMT
  <2> QED BY <2>1, <2>2, <2>3
<1>5. CellsGood(M)
  <2> HIDE DEF k
  <2> QED BY <1>2, <1>4 DEF CellsGood
<1> QED BY <1>1, <1>2, <1>5 DEF M

\* The edges below a new level that a node has.
Before(L, u) == Ro(L)[Previous(Below(L), u)]

LEMMA BeforeIs ==
  ASSUME NEW L, WellFormed(L), NEW u \in Nat
  PROVE  /\ Before(L, u) \in Seq(Int)
         /\ Len(L) = 0 => Before(L, u) = <<>>
         /\ Len(L) # 0 => Before(L, u) = Content(L, u)
<1> DEFINE k == Len(L)
           P == Previous(Below(L), u)
<1>1. k \in Nat /\ IsSeq(L) /\ CellsGood(L) BY StackDomain DEF WellFormed
<1>2. Good(L, k, P) BY BelowGood
<1>3. Ro(L)[P] \in Seq(Int) BY <1>1, <1>2, ReadLength
<1>4. Ro(L)[NilEntry] = <<>>
  <2>1. Good(L, 0, NilEntry) /\ NilEntry.degree = 0 BY NilIs
  <2> QED BY <1>1, <2>1, ReadNothing
<1>5. k = 0 => P = NilEntry BY BelowGood
<1>6. ASSUME k # 0 PROVE Ro(L)[P] = Content(L, u)
  <2>1. Below(L) = Latest(L) BY <1>6 DEF Below, Latest
  <2>2. CASE u < Latest(L).size
    <3>1. P = EntryAt(Latest(L).pages, u) BY <2>1, <2>2 DEF Previous
    <3> QED BY <2>2, <3>1 DEF Content
  <2>3. CASE ~ u < Latest(L).size
    <3>1. P = NilEntry BY <2>1, <2>3 DEF Previous
    <3> QED BY <1>4, <2>3, <3>1 DEF Content
  <2> QED BY <2>2, <2>3
<1> QED BY <1>3, <1>4, <1>5, <1>6 DEF Before

\* The entry of a node in the new level.
LEMMA RaisedEntry ==
  ASSUME NEW L, NEW size, NEW lists, NEW l, OnStack(L, size, lists, l), NEW u \in 0 .. size - 1
  PROVE  LET M == Append(L, l)
             e == At(l, u)
             P == Previous(Below(L), u)
         IN  /\ Good(M, Len(L) + 1, e)
             /\ \/ e = P
                \/ e.length > 0 /\ e.level = Len(L) /\ (Len(L) > 0 => NextOf(M, e) = P)
             /\ Ro(M)[e] = lists[u] \o Before(L, u)
<1> DEFINE M == Append(L, l)
           e == At(l, u)
           P == Previous(Below(L), u)
           k == Len(L)
           ts == lists[u]
<1>0. u \in Nat /\ size \in Nat BY SMT DEF OnStack
<1>1. /\ k \in Nat /\ IsSeq(L) /\ CellsGood(L)
      /\ IsSeq(M) /\ Len(M) = k + 1 /\ M[k + 1] = l /\ CellsGood(M)
  BY RaisedStack
<1>2. /\ Good(L, k, P) /\ P \in Entries /\ (k = 0 => P = NilEntry)
  BY <1>0, BelowGood DEF OnStack, Good
<1>3. Made(Below(L), k, l.pages, l.cells, u, ts) /\ CellsFrom(Below(L), k, l.cells)
  BY Zenon DEF OnStack, Raised
<1>4. ts \in Seq(Int) /\ Len(ts) \in Nat BY SeqFacts DEF OnStack
<1>5. Before(L, u) \in Seq(Int) /\ Before(L, u) = Ro(L)[P] BY <1>0, BeforeIs DEF OnStack, Before
<1>6. k <= k /\ k <= k + 1 /\ k \in Int /\ k + 1 \in Int BY <1>1, SMT
<1>7. Ro(M)[P] = Ro(L)[P] /\ Good(M, k, P) BY <1>1, <1>2, <1>6, ReadBelow, GoodBelow
<1> HIDE DEF M, e, P, k, ts
<1>8. CASE ts = <<>> /\ e = P
  <2>1. Good(M, k + 1, e) BY <1>6, <1>7, <1>8, GoodAbove
  <2>2. <<>> \o Before(L, u) = Before(L, u) BY <1>5, ConcatEmptySeq
  <2> QED BY <1>5, <1>7, <1>8, <2>1, <2>2 DEF M, e, P, k, ts
<1>9. CASE /\ ts # <<>>
           /\ \E index \in Nat :
                 /\ e = Entry(k, index, Len(ts), NewDegree(P, ts))
                 /\ Holds(l.cells, index, ts)
                 /\ k > 0 => /\ index + Len(ts) + 1 \in 1 .. Len(l.cells)
                             /\ l.cells[index + Len(ts) + 1].entry = P
  <2>1. PICK index \in Nat :
                 /\ e = Entry(k, index, Len(ts), NewDegree(P, ts))
                 /\ Holds(l.cells, index, ts)
                 /\ k > 0 => /\ index + Len(ts) + 1 \in 1 .. Len(l.cells)
                             /\ l.cells[index + Len(ts) + 1].entry = P
    BY <1>9
  <2>2. NewDegree(P, ts) = Len(ts) + P.degree /\ P.degree \in Nat
    <3>1. P.level \in Int /\ P.degree \in Nat BY <1>2, EntryFields
    <3>2. P.level = NilLevel => P.degree = 0 BY <1>2, <3>1, SMT DEF Good, NilLevel
    <3> QED BY <3>1, <3>2, <1>4, SMT DEF NewDegree
  <2>3. Len(ts) > 0
    <3>1. Len(ts) # 0 BY <1>4, <1>9, EmptySeq
    <3> QED BY <1>4, <3>1, SMT
  <2>4. /\ e \in Entries /\ e.level = k /\ e.index = index /\ e.length = Len(ts)
        /\ e.degree = Len(ts) + P.degree
    BY <1>1, <1>4, <2>1, <2>2, SMT DEF Entry, Entries
  <2>5. ASSUME k > 0 PROVE NextOf(M, e) = P
    <3> DEFINE i == index + Len(ts)
    <3>1. i + 1 \in 1 .. Len(l.cells) /\ l.cells[i + 1].entry = P BY <2>1, <2>5
    <3>2. DOMAIN l.cells = 1 .. Len(l.cells)
      <4> DEFINE c == l.cells
      <4>1. c \in Seq(CellType) BY <1>3 DEF CellsFrom
      <4> HIDE DEF c
      <4>2. DOMAIN c = 1 .. Len(c) BY <4>1, SeqFacts
      <4> QED BY <4>2 DEF c
    <3>3. k + 1 \in DOMAIN M
      <4>1. DOMAIN M = 1 .. k + 1 BY <1>1, StackDomain
      <4> QED BY <1>1, <4>1, SMT
    <3>4. NextOf(M, e) = Cell(M, k, i).entry BY <2>4 DEF NextOf
    <3> HIDE DEF i
    <3>5. Cell(M, k, i) = l.cells[i + 1] BY <1>1, <3>1, <3>2, <3>3, Zenon DEF Cell
    <3> QED BY <3>1, <3>4, <3>5
  <2>6. Good(M, k + 1, e)
    <3>1. e.degree = e.length + (IF e.level = 0 THEN 0 ELSE NextOf(M, e).degree)
      <4>1. CASE k = 0
        <5>1. P.degree = 0 BY <1>2, <4>1, NilIs
        <5> QED BY <4>1, <5>1, <2>4
      <4>2. CASE k # 0
        <5>1. k > 0 BY <1>1, <4>2, SMT
        <5> QED BY <4>2, <5>1, <2>4, <2>5
      <4> QED BY <4>1, <4>2
    <3>2. e.level < k + 1 /\ e.length > 0 /\ e.level >= 0 BY <1>1, <2>3, <2>4, SMT
    <3> QED BY <2>4, <3>1, <3>2 DEF Good
  <2>7. EdgesOf(M, e) = ts
    <3>1. e.level \in 0 .. Len(M) - 1 /\ M[e.level + 1] = l BY <1>1, <2>4, SMT
    <3>2. l.cells \in Seq(CellType) BY <1>3 DEF CellsFrom
    <3>3. Spells(M, e, ts) BY <1>4, <2>1, <2>4, <3>1, <3>2 DEF Spells
    <3> QED BY <1>1, <3>3, EdgesHeld
  <2>8. Ro(M)[e] = ts \o Before(L, u)
    <3>1. Ro(M)[e] = RoStep(M, Ro(M), e) BY <1>1, <2>4, RoExists
    <3>2. e.length # 0 BY <1>4, <2>3, <2>4, SMT
    <3>3. Ro(M)[e] = EdgesOf(M, e) \o (IF e.level = 0 THEN <<>> ELSE Ro(M)[NextOf(M, e)])
      BY <3>1, <3>2, Zenon DEF RoStep
    <3>4. CASE k = 0
      <4>1. Before(L, u) = <<>> BY <1>0, <3>4, BeforeIs DEF OnStack, k
      <4> QED BY <2>4, <2>7, <3>3, <3>4, <4>1
    <3>5. CASE k # 0
      <4>1. k > 0 BY <1>1, <3>5, SMT
      <4> QED BY <1>5, <1>7, <2>4, <2>5, <2>7, <3>3, <3>5, <4>1
    <3> QED BY <3>4, <3>5
  <2> QED BY <2>3, <2>4, <2>5, <2>6, <2>8 DEF M, e, P, k, ts
<1>10. At(l, u) = EntryAt(l.pages, u) BY DEF At
<1> QED BY <1>3, <1>8, <1>9, <1>10 DEF Made, e, P

LEMMA RaisedEntries ==
  ASSUME NEW L, NEW size, NEW lists, NEW l, OnStack(L, size, lists, l)
  PROVE  EntriesGood(Append(L, l)) /\ History(Append(L, l))
<1> DEFINE M == Append(L, l)
           k == Len(L)
<1>1. /\ k \in Nat /\ IsSeq(L) /\ CellsGood(L)
      /\ IsSeq(M) /\ Len(M) = k + 1 /\ M[k + 1] = l
      /\ \A n \in 1 .. k : M[n] = L[n]
  BY RaisedStack
<1>2. l.size = size /\ DOMAIN l.pages = 0 .. NumPages(size) - 1 BY Zenon DEF OnStack, Raised
<1>3. size \in Nat /\ \A u \in 0 .. size - 1 : u \in 0 .. size BY SMT DEF OnStack
<1>4. \A n \in 1 .. k + 1 : n \in 1 .. k \/ n = k + 1 BY <1>1, SMT
<1>5. \A n \in 1 .. k : n \in Int /\ n <= k BY <1>1, SMT
<1>6. ASSUME NEW u \in 0 .. size - 1
      PROVE  /\ u \div PageSize \in DOMAIN l.pages
             /\ Good(M, k + 1, At(l, u))
             /\ \/ At(l, u) = Previous(Below(L), u)
                \/ /\ At(l, u).length > 0 /\ At(l, u).level = k
                   /\ k > 0 => NextOf(M, At(l, u)) = Previous(Below(L), u)
  BY <1>2, <1>3, PageExists, RaisedEntry
<1>7. ASSUME NEW n \in 1 .. k, NEW u \in 0 .. L[n].size - 1
      PROVE  /\ u \div PageSize \in DOMAIN L[n].pages
             /\ Good(M, n, At(L[n], u))
             /\ NextOf(M, At(L[n], u)) = NextOf(L, At(L[n], u))
  <2> DEFINE e == At(L[n], u)
  <2>1. u \div PageSize \in DOMAIN L[n].pages /\ Good(L, n, e)
    BY DEF OnStack, WellFormed, EntriesGood
  <2>2. Good(M, n, e) BY <1>1, <1>5, <2>1, GoodBelow
  <2>3. e \in Entries /\ e.level \in Int /\ e.level < n BY <2>1, EntryFields DEF Good
  <2> HIDE DEF e
  <2>4. e.level < k BY <1>1, <2>3, SMT
  <2>5. NextOf(M, e) = NextOf(L, e) BY <1>1, <2>3, <2>4, EntriesBelow
  <2> QED BY <2>1, <2>2, <2>5 DEF e
<1> HIDE DEF M, k
<1>8. EntriesGood(M)
  <2> SUFFICES ASSUME NEW n \in 1 .. k + 1, NEW u \in 0 .. M[n].size - 1
               PROVE  u \div PageSize \in DOMAIN M[n].pages /\ Good(M, n, At(M[n], u))
    BY <1>1 DEF EntriesGood
  <2>1. CASE n \in 1 .. k BY <1>1, <1>7, <2>1
  <2>2. CASE n = k + 1 BY <1>1, <1>2, <1>6, <2>2
  <2> QED BY <1>4, <2>1, <2>2
<1>9. History(M)
  <2> SUFFICES ASSUME NEW n \in 2 .. k + 1, NEW u \in 0 .. M[n].size - 1
               PROVE  \/ At(M[n], u) = Previous(M[n - 1], u)
                      \/ /\ At(M[n], u).length > 0 /\ At(M[n], u).level = n - 1
                         /\ NextOf(M, At(M[n], u)) = Previous(M[n - 1], u)
    BY <1>1 DEF History
  <2>1. CASE n \in 1 .. k
    <3>1. n \in 2 .. k /\ n - 1 \in 1 .. k BY <1>1, <2>1, SMT
    <3>2. M[n] = L[n] /\ M[n - 1] = L[n - 1] BY <1>1, <2>1, <3>1
    <3>3. \/ At(L[n], u) = Previous(L[n - 1], u)
          \/ /\ At(L[n], u).length > 0 /\ At(L[n], u).level = n - 1
             /\ NextOf(L, At(L[n], u)) = Previous(L[n - 1], u)
      BY <3>1, <3>2, Zenon DEF OnStack, WellFormed, History, k
    <3>4. NextOf(M, At(L[n], u)) = NextOf(L, At(L[n], u)) BY <1>7, <2>1, <3>2
    <3> QED BY <3>2, <3>3, <3>4
  <2>2. CASE n = k + 1
    <3>1. k \in 1 .. k /\ n - 1 = k /\ k > 0 /\ k # 0 BY <1>1, <2>2, SMT
    <3>2. M[n] = l /\ M[n - 1] = L[k] BY <1>1, <2>2, <3>1
    <3>3. Below(L) = L[k] BY <3>1 DEF Below, k
    <3> QED BY <1>2, <1>6, <2>2, <3>1, <3>2, <3>3
  <2>3. n \in 1 .. k + 1 BY <1>1, SMT
  <2> QED BY <1>4, <2>1, <2>2, <2>3
<1> QED BY <1>8, <1>9 DEF M

\* The pages of the new level.
LEMMA RaisedPages ==
  ASSUME NEW L, NEW size, NEW lists, NEW l, OnStack(L, size, lists, l)
  PROVE  /\ \A p \in DOMAIN l.pages :
              \/ l.pages[p].level = Len(L)
              \/ l.pages[p].level = 0
              \/ Len(L) > 0 /\ p \in DOMAIN L[Len(L)].pages /\ l.pages[p] = L[Len(L)].pages[p]
         /\ \A u \in 0 .. size - 1 : Len(L) > 0 /\ l.pages[u \div PageSize].level = 0 =>
              /\ u < L[Len(L)].size
              /\ l.pages[u \div PageSize] = L[Len(L)].pages[u \div PageSize]
<1> DEFINE k == Len(L)
           prev == Below(L)
           inh == InheritedPages(prev, size)
<1>1. k \in Nat /\ size \in Nat /\ LevelBelow(prev) BY BelowGood DEF OnStack
<1>2. /\ DOMAIN inh = 0 .. NumPages(size) - 1
      /\ \A p \in DOMAIN inh : p \in DOMAIN prev.pages => inh[p] = prev.pages[p]
      /\ \A p \in DOMAIN inh : p \notin DOMAIN prev.pages => inh[p] = ZeroPage
  BY <1>1, InheritedAre DEF LevelBelow
<1>3. ZeroPage.level = 0 BY DEF ZeroPage
<1>4. /\ l.size = size /\ DOMAIN l.pages = 0 .. NumPages(size) - 1
      /\ \A p \in DOMAIN l.pages : l.pages[p] = inh[p] \/ l.pages[p].level = k
      /\ \A u \in 0 .. size - 1 : u >= prev.size => l.pages[u \div PageSize].level = k
  BY Zenon DEF OnStack, Raised
<1>5. k > 0 => prev = L[k] BY <1>1, SMT DEF Below
<1>6. k = 0 => prev.pages = <<>> /\ DOMAIN <<>> = {} BY SMT DEF Below, NoLevel
<1>10. k = 0 \/ k > 0 BY <1>1, SMT
<1>11. \A u \in 0 .. size - 1 : u \in 0 .. size /\ u \in Nat BY <1>1, SMT
<1> HIDE DEF k, prev, inh
<1>7. ASSUME NEW p \in DOMAIN l.pages
      PROVE  \/ l.pages[p].level = k
             \/ l.pages[p].level = 0
             \/ k > 0 /\ p \in DOMAIN L[k].pages /\ l.pages[p] = L[k].pages[p]
  BY <1>2, <1>3, <1>4, <1>5, <1>6, <1>10
<1>8. ASSUME NEW u \in 0 .. size - 1, k > 0, l.pages[u \div PageSize].level = 0
      PROVE  /\ u < L[k].size
             /\ l.pages[u \div PageSize] = L[k].pages[u \div PageSize]
  <2>1. 0 # k BY <1>8, <1>1
  <2>2. ~ u >= prev.size BY <1>4, <1>8, <2>1
  <2>3. prev.size \in Nat BY <1>1 DEF LevelBelow
  <2>4. u < prev.size /\ u \in 0 .. prev.size - 1 BY <1>1, <2>2, <2>3, SMT
  <2>5. u \div PageSize \in DOMAIN prev.pages BY <1>1, <2>4 DEF LevelBelow
  <2>6. u \div PageSize \in DOMAIN l.pages BY <1>1, <1>4, <1>11, PageExists
  <2>7. l.pages[u \div PageSize] = inh[u \div PageSize] BY <1>4, <1>8, <2>1, <2>6
  <2>8. inh[u \div PageSize] = prev.pages[u \div PageSize] BY <1>2, <1>4, <2>5, <2>6
  <2> QED BY <1>5, <1>8, <2>4, <2>7, <2>8
<1> QED BY <1>7, <1>8 DEF k

LEMMA RaisedHomes ==
  ASSUME NEW L, NEW size, NEW lists, NEW l, OnStack(L, size, lists, l)
  PROVE  Homes(Append(L, l))
<1> DEFINE M == Append(L, l)
           k == Len(L)
<1>1. /\ k \in Nat /\ Len(M) = k + 1 /\ M[k + 1] = l
      /\ \A n \in 1 .. k : M[n] = L[n]
  BY RaisedStack
<1>2. \A p \in DOMAIN l.pages :
         \/ l.pages[p].level = k
         \/ l.pages[p].level = 0
         \/ k > 0 /\ p \in DOMAIN L[k].pages /\ l.pages[p] = L[k].pages[p]
  BY RaisedPages
<1> HIDE DEF M, k
<1>3. ASSUME NEW n \in 1 .. k, NEW p \in DOMAIN L[n].pages
      PROVE  LET j == L[n].pages[p].level
             IN  j \in 0 .. n - 1 /\ (j > 0 => p \in DOMAIN M[j + 1].pages /\ M[j + 1].pages[p] = L[n].pages[p])
  <2> DEFINE j == L[n].pages[p].level
  <2>1. j \in 0 .. n - 1 /\ (j > 0 => p \in DOMAIN L[j + 1].pages /\ L[j + 1].pages[p] = L[n].pages[p])
    BY Zenon DEF OnStack, WellFormed, Homes, k
  <2> HIDE DEF j
  <2>2. j + 1 \in 1 .. k BY <1>1, <2>1, SMT
  <2>3. M[j + 1] = L[j + 1] BY <1>1, <2>2
  <2> QED BY <2>1, <2>3 DEF j
<1>4. ASSUME NEW p \in DOMAIN l.pages
      PROVE  LET j == l.pages[p].level
             IN  j \in 0 .. k /\ (j > 0 => p \in DOMAIN M[j + 1].pages /\ M[j + 1].pages[p] = l.pages[p])
  <2>1. CASE l.pages[p].level = k
    <3>1. k \in 0 .. k BY <1>1, SMT
    <3> QED BY <1>1, <2>1, <3>1
  <2>2. CASE l.pages[p].level = 0
    <3>1. 0 \in 0 .. k /\ ~ 0 > 0 BY <1>1, SMT
    <3> QED BY <2>2, <3>1
  <2>3. CASE k > 0 /\ p \in DOMAIN L[k].pages /\ l.pages[p] = L[k].pages[p]
    <3> DEFINE j == l.pages[p].level
    <3>1. k \in 1 .. k BY <1>1, <2>3, SMT
    <3>2. j \in 0 .. k - 1 /\ (j > 0 => p \in DOMAIN M[j + 1].pages /\ M[j + 1].pages[p] = l.pages[p])
      BY <1>3, <2>3, <3>1
    <3>3. 0 .. k - 1 \subseteq 0 .. k BY <1>1, SMT
    <3> QED BY <3>2, <3>3
  <2> QED BY <1>2, <2>1, <2>2, <2>3
<1>5. \A n \in 1 .. k + 1 : n \in 1 .. k \/ (n = k + 1 /\ n - 1 = k) BY <1>1, SMT
<1>6. ASSUME NEW n \in 1 .. k + 1, NEW p \in DOMAIN M[n].pages
      PROVE  LET j == M[n].pages[p].level
             IN  j \in 0 .. n - 1 /\ (j > 0 => p \in DOMAIN M[j + 1].pages /\ M[j + 1].pages[p] = M[n].pages[p])
  <2>1. CASE n \in 1 .. k
    <3>1. M[n] = L[n] BY <1>1, <2>1
    <3> QED BY <1>3, <2>1, <3>1
  <2>2. CASE n = k + 1 /\ n - 1 = k
    <3>1. M[n] = l BY <1>1, <2>2
    <3> QED BY <1>4, <2>2, <3>1
  <2> QED BY <1>5, <2>1, <2>2
<1>7. Homes(M) BY <1>1, <1>6, Zenon DEF Homes
<1> QED BY <1>7 DEF M

LEMMA RaisedBases ==
  ASSUME NEW L, NEW size, NEW lists, NEW l, OnStack(L, size, lists, l)
  PROVE  Bases(Append(L, l))
<1> DEFINE M == Append(L, l)
           k == Len(L)
<1>1. /\ k \in Nat /\ Len(M) = k + 1 /\ M[k + 1] = l
      /\ \A n \in 1 .. k : M[n] = L[n]
  BY RaisedStack
<1>2. l.size = size BY Zenon DEF OnStack, Raised
<1>3. \A u \in 0 .. size - 1 : k > 0 /\ l.pages[u \div PageSize].level = 0 =>
              /\ u < L[k].size
              /\ l.pages[u \div PageSize] = L[k].pages[u \div PageSize]
  BY RaisedPages
<1>4. \A n \in 1 .. k + 1 : n \in 1 .. k \/ n = k + 1 BY <1>1, SMT
<1>5. \A u \in 0 .. size - 1 : u < size /\ u \in Nat BY SMT DEF OnStack
<1> HIDE DEF M, k
<1>6. ASSUME NEW n \in 1 .. k, NEW u \in 0 .. L[n].size - 1, L[n].pages[u \div PageSize].level = 0
      PROVE  u < L[1].size /\ At(L[n], u) = At(L[1], u)
  BY <1>6 DEF OnStack, WellFormed, Bases, k
<1>7. ASSUME NEW n \in 1 .. k + 1, NEW u \in 0 .. M[n].size - 1,
             M[n].pages[u \div PageSize].level = 0
      PROVE  u < M[1].size /\ At(M[n], u) = At(M[1], u)
  <2>1. CASE n \in 1 .. k
    <3>1. 1 \in 1 .. k BY <1>1, <2>1, SMT
    <3>2. M[n] = L[n] /\ M[1] = L[1] BY <1>1, <2>1, <3>1
    <3> QED BY <1>6, <1>7, <2>1, <3>2
  <2>2. CASE n = k + 1 /\ k = 0
    <3>1. n = 1 BY <2>2
    <3>2. M[n] = l BY <1>1, <2>2
    <3>3. u < size BY <1>2, <1>5, <3>2
    <3> QED BY <1>2, <3>1, <3>2, <3>3
  <2>3. CASE n = k + 1 /\ k # 0
    <3>1. k > 0 /\ 1 \in 1 .. k /\ k \in 1 .. k BY <1>1, <2>3, SMT
    <3>2. M[n] = l /\ M[1] = L[1] BY <1>1, <2>3, <3>1
    <3>3. u \in 0 .. size - 1 BY <1>2, <3>2
    <3>4. u < L[k].size /\ l.pages[u \div PageSize] = L[k].pages[u \div PageSize]
      BY <1>3, <1>7, <3>1, <3>2, <3>3
    <3>5. L[k].size \in Nat BY <3>1 DEF OnStack, WellFormed, Grow, k
    <3>6. u \in 0 .. L[k].size - 1
      <4> DEFINE z == L[k].size
      <4>1. z \in Nat /\ u < z /\ u \in Nat BY <1>5, <3>3, <3>4, <3>5
      <4> HIDE DEF z
      <4>2. u \in 0 .. z - 1 BY <4>1, SMT
      <4> QED BY <4>2 DEF z
    <3>7. u < L[1].size /\ At(L[k], u) = At(L[1], u)
      <4>1. L[k].pages[u \div PageSize].level = 0 BY <1>7, <3>2, <3>4
      <4> QED BY <1>6, <3>1, <3>6, <4>1
    <3>8. At(l, u) = At(L[k], u) BY <3>4 DEF At, EntryAt
    <3> QED BY <3>2, <3>7, <3>8
  <2> QED BY <1>4, <2>1, <2>2, <2>3
<1>8. Bases(M) BY <1>1, <1>7, Zenon DEF Bases
<1> QED BY <1>8 DEF M

\* A checkpoint makes a stack like those before, and adds to each node the
\* list it was given.
LEMMA RaisedGood ==
  ASSUME NEW L, NEW size, NEW lists, NEW l, OnStack(L, size, lists, l)
  PROVE  /\ WellFormed(Append(L, l))
         /\ \A u \in 0 .. size - 1 : Content(Append(L, l), u) = lists[u] \o Before(L, u)
<1> DEFINE M == Append(L, l)
           k == Len(L)
<1>1. /\ k \in Nat /\ IsSeq(M) /\ Len(M) = k + 1 /\ M[k + 1] = l /\ Latest(M) = l
      /\ \A n \in 1 .. k : M[n] = L[n]
      /\ CellsGood(M)
  BY RaisedStack
<1>2. l.size = size /\ Shaped(l.pages) /\ size \in Nat /\ Below(L).size <= size
  BY Zenon DEF OnStack, Raised
<1>3. \A n \in 1 .. k + 1 : n \in 1 .. k \/ n = k + 1 BY <1>1, SMT
<1>4. EntriesGood(M) /\ History(M) /\ Homes(M) /\ Bases(M) BY RaisedEntries, RaisedHomes, RaisedBases
<1>7. ASSUME NEW u \in 0 .. size - 1 PROVE Content(M, u) = lists[u] \o Before(L, u)
  <2>1. u < size BY <1>2, SMT
  <2>2. Ro(M)[At(l, u)] = lists[u] \o Before(L, u) BY RaisedEntry
  <2> HIDE DEF M
  <2> QED BY <1>1, <1>2, <2>1, <2>2 DEF Content, At
<1>8. \A n \in 1 .. k : L[n].size \in Nat /\ (n > 1 => L[n - 1].size <= L[n].size) /\ Shaped(L[n].pages)
  BY DEF OnStack, WellFormed, Grow, Shapes
<1>9. k # 0 => Below(L) = L[k] BY DEF Below
<1> HIDE DEF M, k
<1>5. Grow(M)
  <2> SUFFICES ASSUME NEW n \in 1 .. k + 1
               PROVE  M[n].size \in Nat /\ (n > 1 => M[n - 1].size <= M[n].size)
    BY <1>1 DEF Grow
  <2>1. CASE n \in 1 .. k
    <3>1. n > 1 => n - 1 \in 1 .. k BY <1>1, <2>1, SMT
    <3> QED BY <1>1, <1>8, <2>1, <3>1
  <2>2. CASE n = k + 1
    <3>1. n > 1 => k # 0 /\ n - 1 = k /\ k \in 1 .. k BY <1>1, <2>2, SMT
    <3> QED BY <1>1, <1>2, <1>9, <2>2, <3>1
  <2> QED BY <1>3, <2>1, <2>2
<1>6. Shapes(M)
  <2> SUFFICES ASSUME NEW n \in 1 .. k + 1 PROVE Shaped(M[n].pages) BY <1>1 DEF Shapes
  <2> QED BY <1>1, <1>2, <1>3, <1>8
<1>10. WellFormed(M) BY <1>1, <1>4, <1>5, <1>6 DEF WellFormed
<1> QED BY <1>7, <1>10 DEF M

LEMMA NewLevelGood ==
  ASSUME NEW L, WellFormed(L), NEW size \in Nat, Below(L).size <= size, NEW lists,
         \A u \in 0 .. size - 1 : lists[u] \in Seq(Int)
  PROVE  LET M == Append(L, NewLevel(L, lists, size))
         IN  /\ WellFormed(M)
             /\ \A u \in 0 .. size - 1 : Content(M, u) = lists[u] \o Before(L, u)
<1>1. Len(L) \in Nat /\ LevelBelow(Below(L)) BY BelowGood
<1>2. Raised(Below(L), Len(L), size, lists, NewLevel(L, lists, size)) BY <1>1, NewLevelRaised
<1>3. OnStack(L, size, lists, NewLevel(L, lists, size)) BY <1>2, Zenon DEF OnStack
<1> QED BY <1>3, RaisedGood

(***************************************************************************)
(* A finite set of numbers has an order.                                   *)
(***************************************************************************)

Increasing(S, s) ==
    s \in [1 .. Cardinality(S) -> S] /\ \A i, j \in DOMAIN s : i < j => s[i] < s[j]
Topped(S) == \E m \in S : \A x \in S : x <= m
Sized(n) == {S \in SUBSET Int : IsFiniteSet(S) /\ Cardinality(S) = n}

\* What is left when an element is removed.
LEMMA OneLess ==
  ASSUME NEW n \in Nat, NEW S \in Sized(n + 1), NEW x \in S
  PROVE  S \ {x} \in Sized(n)
<1>1. IsFiniteSet(S) /\ Cardinality(S) = n + 1 /\ S \in SUBSET Int BY DEF Sized
<1>2. IsFiniteSet(S \ {x}) /\ Cardinality(S \ {x}) = (n + 1) - 1 BY <1>1, FS_RemoveElement
<1>3. (n + 1) - 1 = n BY SMT
<1> QED BY <1>1, <1>2, <1>3 DEF Sized

LEMMA ToppedAll ==
  ASSUME NEW n \in Nat, NEW S \in Sized(n + 1)
  PROVE  Topped(S)
<1> DEFINE T == {m \in Nat : \A R \in Sized(m + 1) : Topped(R)}
<1>1. ASSUME NEW m \in Nat, NEW R \in Sized(m + 1) PROVE R # {} /\ R \in SUBSET Int
  <2>1. Cardinality(R) # 0 BY SMT DEF Sized
  <2> QED BY <2>1, FS_EmptySet DEF Sized
<1>2. 0 \in T
  <2> SUFFICES ASSUME NEW R \in Sized(0 + 1) PROVE Topped(R) OBVIOUS
  <2>1. Cardinality(R) = 1 /\ IsFiniteSet(R) /\ R \in SUBSET Int BY SMT DEF Sized
  <2>2. PICK x : R = {x} BY <2>1, FS_Singleton
  <2>3. x <= x BY <2>1, <2>2, SMT
  <2> QED BY <2>2, <2>3 DEF Topped
<1>3. ASSUME NEW m \in Nat, m \in T PROVE m + 1 \in T
  <2> SUFFICES ASSUME NEW R \in Sized((m + 1) + 1) PROVE Topped(R) OBVIOUS
  <2>1. PICK x \in R : TRUE BY <1>1
  <2>2. R \ {x} \in Sized(m + 1) BY <2>1, OneLess
  <2>3. Topped(R \ {x}) BY <1>3, <2>2
  <2>4. PICK y \in R \ {x} : \A z \in R \ {x} : z <= y BY <2>3 DEF Topped
  <2>5. R \in SUBSET Int BY <1>1
  <2>6. CASE x <= y
    <3>1. \A z \in R : z <= y BY <2>4, <2>6
    <3> QED BY <2>4, <3>1 DEF Topped
  <2>7. CASE ~ x <= y
    <3>1. \A z \in R : z <= x
      <4> TAKE z \in R
      <4>1. CASE z = x BY <2>5, <4>1, SMT
      <4>2. CASE z # x
        <5>1. z <= y BY <2>4, <4>2
        <5> QED BY <2>4, <2>5, <2>7, <5>1, SMT
      <4> QED BY <4>1, <4>2
    <3> QED BY <2>1, <3>1 DEF Topped
  <2> QED BY <2>6, <2>7
<1>4. n \in T
  <2> HIDE DEF T
  <2>1. Inductive(T) BY <1>2, <1>3 DEF Inductive
  <2> QED BY <2>1, AllNumbers
<1> QED BY <1>4

LEMMA IncreasingExists ==
  ASSUME NEW n \in Nat, NEW S \in Sized(n)
  PROVE  \E s : Increasing(S, s)
<1> DEFINE T == {m \in Nat : \A R \in Sized(m) : \E s : Increasing(R, s)}
<1>1. 0 \in T
  <2> SUFFICES ASSUME NEW R \in Sized(0) PROVE \E s : Increasing(R, s) OBVIOUS
  <2>1. Cardinality(R) = 0 /\ 1 .. 0 = {} BY SMT DEF Sized
  <2>2. Increasing(R, [i \in {} |-> i]) BY <2>1 DEF Increasing
  <2> QED BY <2>2
<1>2. ASSUME NEW m \in Nat, m \in T PROVE m + 1 \in T
  <2> SUFFICES ASSUME NEW R \in Sized(m + 1) PROVE \E s : Increasing(R, s) OBVIOUS
  <2>1. PICK x \in R : \A z \in R : z <= x BY ToppedAll DEF Topped
  <2> DEFINE Q == R \ {x}
  <2>2. Q \in Sized(m) BY OneLess
  <2>3. PICK t : Increasing(Q, t) BY <1>2, <2>2
  <2>4. Cardinality(Q) = m /\ Cardinality(R) = m + 1 /\ R \in SUBSET Int BY <2>2 DEF Sized
  <2>5. t \in [1 .. m -> Q] /\ \A i, j \in 1 .. m : i < j => t[i] < t[j]
    BY <2>3, <2>4 DEF Increasing
  <2>6. \A i \in 1 .. m : t[i] \in R /\ t[i] < x
    <3> TAKE i \in 1 .. m
    <3>1. t[i] \in R /\ t[i] # x BY <2>5
    <3>2. t[i] <= x /\ t[i] \in Int /\ x \in Int BY <2>1, <2>4, <3>1
    <3> DEFINE y == t[i]
    <3>3. y <= x /\ y # x /\ y \in Int /\ x \in Int BY <3>1, <3>2
    <3> HIDE DEF y
    <3>4. y < x BY <3>3, SMT
    <3> QED BY <3>1, <3>4 DEF y
  <2> DEFINE s == [i \in 1 .. m + 1 |-> IF i <= m THEN t[i] ELSE x]
  <2>7. \A i \in 1 .. m + 1 : i <= m => i \in 1 .. m BY SMT
  <2>8. s \in [1 .. m + 1 -> R] BY <2>6, <2>7
  <2>9. ASSUME NEW i \in 1 .. m + 1, NEW j \in 1 .. m + 1, i < j PROVE s[i] < s[j]
    <3>1. i <= m /\ i \in 1 .. m BY <2>9, SMT
    <3>2. s[i] = t[i] BY <2>7, <3>1
    <3>3. CASE j <= m BY <2>5, <2>7, <2>9, <3>1, <3>2, <3>3
    <3>4. CASE ~ j <= m BY <2>6, <3>1, <3>2, <3>4
    <3> QED BY <3>3, <3>4
  <2>10. DOMAIN s = 1 .. m + 1 OBVIOUS
  <2> HIDE DEF s
  <2> QED BY <2>4, <2>8, <2>9, <2>10 DEF Increasing
<1>3. n \in T
  <2> HIDE DEF T
  <2>1. Inductive(T) BY <1>1, <1>2 DEF Inductive
  <2> QED BY <2>1, AllNumbers
<1> QED BY <1>3

\* What a std::set of numbers holds, in order: each of them once.
LEMMA SortedIs ==
  ASSUME NEW S \in SUBSET Int, IsFiniteSet(S)
  PROVE  /\ Sorted(S) \in Seq(S)
         /\ ToSet(Sorted(S)) = S
         /\ \A i, j \in DOMAIN Sorted(S) : Sorted(S)[i] = Sorted(S)[j] => i = j
<1> DEFINE n == Cardinality(S)
           s == Sorted(S)
<1>1. n \in Nat /\ S \in Sized(n) BY FS_CardinalityType DEF Sized
<1>2. Increasing(S, s)
  <2>1. \E t : Increasing(S, t) BY <1>1, IncreasingExists
  <2> QED BY <2>1, Zenon DEF Sorted, Increasing
<1> HIDE DEF s
<1>3. s \in [1 .. n -> S] /\ DOMAIN s = 1 .. n BY <1>2 DEF Increasing
<1>4. ASSUME NEW i \in 1 .. n, NEW j \in 1 .. n, s[i] = s[j] PROVE i = j
  <2>1. s[i] \in Int /\ s[j] \in Int BY <1>3
  <2>2. i < j \/ i = j \/ j < i BY <1>1, SMT
  <2>3. CASE i < j
    <3>1. s[i] < s[j] BY <1>2, <1>3, <2>3 DEF Increasing
    <3> QED BY <1>4, <2>1, <3>1, SMT
  <2>4. CASE j < i
    <3>1. s[j] < s[i] BY <1>2, <1>3, <2>4 DEF Increasing
    <3> QED BY <1>4, <2>1, <3>1, SMT
  <2> QED BY <2>2, <2>3, <2>4
<1>5. s \in Injection(1 .. n, S) BY <1>3, <1>4 DEF Injection, IsInjective
<1>6. s \in Surjection(1 .. n, S)
  <2>1. Cardinality(1 .. n) = n
    <3>1. 1 \in Int /\ n \in Int /\ (IF 1 > n THEN 0 ELSE n - 1 + 1) = n BY <1>1, SMT
    <3>2. Cardinality(1 .. n) = IF 1 > n THEN 0 ELSE n - 1 + 1 BY <3>1, FS_Interval
    <3> QED BY <3>1, <3>2
  <2> QED BY <1>5, <2>1, FS_Injection
<1>7. ToSet(s) = S
  <2>1. \A x \in S : \E i \in 1 .. n : s[i] = x BY <1>6 DEF Surjection
  <2> QED BY <1>3, <2>1 DEF ToSet
<1>8. s \in Seq(S)
  <2> HIDE DEF n
  <2> QED BY <1>1, <1>3, SMT
<1> QED BY <1>3, <1>4, <1>7, <1>8 DEF s

LEMMA ToSetFinite ==
  ASSUME NEW S, NEW s \in Seq(S)
  PROVE  IsFiniteSet(ToSet(s)) /\ ToSet(s) \subseteq S
<1>1. Len(s) \in Nat /\ DOMAIN s = 1 .. Len(s) BY SeqFacts
<1>2. \A i \in 1 .. Len(s) : s[i] \in S BY ElementOfSeq
<1>3. IsFiniteSet(1 .. Len(s)) BY <1>1, FS_Interval
<1>4. s \in Surjection(1 .. Len(s), ToSet(s))
  <2>1. s = [i \in 1 .. Len(s) |-> s[i]] BY SMT
  <2> QED BY <1>1, <2>1 DEF Surjection, ToSet
<1> QED BY <1>1, <1>2, <1>3, <1>4, FS_Surjection DEF ToSet

-----------------------------------------------------------------------------
(***************************************************************************)
(* The inductive invariant of the graphs as data.                          *)
(***************************************************************************)

Sound == \A r \in Ranks : WellFormed(levels[r])

\* What the flags and counters of a rank say of its graphs.
Marked(r) ==
    /\ ~ changed[r] => new[r] = NoEdges /\ (Len(levels[r]) > 1 => Latest(levels[r]).size = nextNode)
    /\ \A v \in Nodes : v >= nextNode => new[r][v] = <<>>
    /\ Len(levels[r]) > 1 => Latest(levels[r]).size = vertices[r] + 1
    /\ \E q \in Ranks : Latest(levels[r]).size <= vertices[q] + 1
Marks == \A r \in Ranks : Marked(r)

DataInv == IInv /\ Sound /\ Marks

LEMMA IntSeqs ==
  ASSUME NEW S \in SUBSET Int, NEW s \in Seq(S)
  PROVE  s \in Seq(Int)
<1>1. Len(s) \in Nat BY SeqFacts
<1>2. \A i \in 1 .. Len(s) : s[i] \in Int BY ElementOfSeq
<1>3. s = [i \in 1 .. Len(s) |-> s[i]] BY SMT
<1> QED BY <1>1, <1>2, <1>3, SMT

LEMMA StateTypes ==
  ASSUME IInv
  PROVE  /\ nextNode \in Nat /\ InitNodes <= nextNode /\ 0 .. nextNode - 1 \subseteq Nodes
         /\ \A r \in Ranks : /\ vertices[r] \in Nat /\ announced[r] \in Nat
                             /\ vertices[r] <= nextNode - 1
                             /\ Len(levels[r]) \in Nat /\ Len(levels[r]) >= 1
                             /\ IsStack(levels[r])
                             /\ Latest(levels[r]).size \in Nat /\ Latest(levels[r]).size <= nextNode
                             /\ Below(levels[r]) = Latest(levels[r])
                             /\ new[r] \in [Nodes -> Seq(Nodes)]
         /\ \A r \in Ranks : \A v \in Nodes : new[r][v] \in Seq(Int)
<1>1. /\ nextNode \in Nat /\ InitNodes <= nextNode /\ nextNode <= MaxNodes
      /\ 0 .. nextNode - 1 \subseteq Nodes
  BY ConstantTypes, SMT DEF IInv, TypeOK, Nodes
<1>2. ASSUME NEW r \in Ranks
      PROVE  vertices[r] \in Nat /\ announced[r] \in Nat /\ vertices[r] <= nextNode - 1
  BY <1>1, SMT DEF IInv, TypeOK
<1>3. ASSUME NEW r \in Ranks
      PROVE  /\ Len(levels[r]) \in Nat /\ Len(levels[r]) >= 1 /\ IsStack(levels[r])
             /\ Below(levels[r]) = Latest(levels[r])
  <2>1. IsStack(levels[r]) BY DEF IInv, Stacks
  <2> DEFINE s == levels[r]
  <2>2. IsStack(s) BY <2>1
  <2> HIDE DEF s
  <2>3. Len(s) \in Nat /\ Len(s) >= 1 /\ Len(s) # 0 BY <2>2, SMT DEF IsStack
  <2>4. Below(s) = Latest(s) BY <2>3 DEF Below, Latest
  <2> QED BY <2>2, <2>3, <2>4 DEF s
<1>4. ASSUME NEW r \in Ranks
      PROVE  Latest(levels[r]).size \in Nat /\ Latest(levels[r]).size <= nextNode
  <2>1. Latest(levels[r]).size \in InitNodes .. nextNode BY DEF IInv, TypeOK
  <2> QED BY <1>1, <2>1, ConstantTypes, SMT
<1>5. \A r \in Ranks : new[r] \in [Nodes -> Seq(Nodes)] BY DEF IInv, TypeOK
<1>6. ASSUME NEW r \in Ranks, NEW v \in Nodes PROVE new[r][v] \in Seq(Int)
  <2>1. new[r][v] \in Seq(Nodes) BY <1>5
  <2>2. Nodes \in SUBSET Int BY ConstantTypes, SMT
  <2> QED BY <2>1, <2>2, IntSeqs
<1> QED BY <1>1, <1>2, <1>3, <1>4, <1>5, <1>6

\* A merge counts the vertices of every rank.
LEMMA MergeCounts ==
  ASSUME IInv, NEW r \in Ranks
  PROVE  /\ MergedSize(r) \in Nat /\ MergedSize(r) <= nextNode
         /\ AllSaved => \A q \in Ranks : vertices[q] + 1 <= MergedSize(r)
         /\ \E q \in Ranks : MergedSize(r) <= vertices[q] + 1
<1> DEFINE Known(s) == {LastVertex(s, q) : q \in Ranks}
<1>1. /\ nextNode \in Nat /\ InitNodes <= nextNode
      /\ \A q \in Ranks : vertices[q] \in 0 .. nextNode - 1 /\ announced[q] \in 0 .. nextNode - 1
  BY StateTypes, ConstantTypes, SMT DEF IInv, TypeOK
<1>2. MergedSize(r) \in InitNodes .. nextNode BY SizesAgree
<1>3. ASSUME NEW s \in Ranks
      PROVE  /\ MergedSize(s) = Max(Known(s)) + 1
             /\ Max(Known(s)) \in Known(s) /\ \A x \in Known(s) : x <= Max(Known(s))
  <2>1. \A q \in Ranks : LastVertex(s, q) \in 0 .. nextNode - 1 BY <1>1 DEF LastVertex
  <2>2. Known(s) \in SUBSET (0 .. nextNode - 1) /\ Known(s) # {} BY <2>1
  <2>3. nextNode - 1 \in Nat BY <1>1, ConstantTypes, SMT
  <2> HIDE DEF Known
  <2>4. Max(Known(s)) \in Known(s) /\ \A x \in Known(s) : x <= Max(Known(s))
    BY <2>2, <2>3, MaxExists
  <2> QED BY <2>4 DEF MergedSize, Known
<1>4. ASSUME AllSaved, NEW q \in Ranks PROVE vertices[q] + 1 <= MergedSize(r)
  <2>1. vertices[q] \in Known(q) BY DEF LastVertex
  <2>2. vertices[q] <= Max(Known(q)) /\ MergedSize(q) = Max(Known(q)) + 1 BY <1>3, <2>1
  <2>3. MergedSize(q) = MergedSize(r) BY <1>4, SizesAgree
  <2>4. vertices[q] \in Int BY <1>1
  <2>5. Max(Known(q)) \in Known(q) BY <1>3
  <2>6. Max(Known(q)) \in Int
    <3>1. \A p \in Ranks : LastVertex(q, p) \in Int BY <1>1 DEF LastVertex
    <3> QED BY <2>5, <3>1
  <2> DEFINE m == Max(Known(q))
  <2>7. vertices[q] <= m /\ m \in Int /\ MergedSize(r) = m + 1 BY <2>2, <2>3, <2>6
  <2> HIDE DEF m
  <2> QED BY <2>4, <2>7, SMT
<1>5. \E q \in Ranks : MergedSize(r) <= vertices[q] + 1
  <2>1. PICK q \in Ranks : Max(Known(r)) = LastVertex(r, q) BY <1>3
  <2>2. LastVertex(r, q) <= vertices[q]
    <3>1. announced[q] = vertices[q] \/ announced[q] = 0 BY DEF IInv, TypeOK, Announced
    <3> QED BY <1>1, <3>1, SMT DEF LastVertex
  <2>3. MergedSize(r) = LastVertex(r, q) + 1 BY <1>3, <2>1
  <2>4. LastVertex(r, q) \in Int BY <1>1 DEF LastVertex
  <2> QED BY <1>1, <2>2, <2>3, <2>4, SMT
<1>6. MergedSize(r) \in Nat /\ MergedSize(r) <= nextNode BY <1>1, <1>2, ConstantTypes, SMT
<1> QED BY <1>4, <1>5, <1>6

\* A merge gathers what the ranks see in their read-only graphs: all of it,
\* if the level 0 of one rank is that of all.
LEMMA GatheredIs ==
  ASSUME DataInv, NEW r \in Ranks, NEW v \in Nat
  PROVE  LET g == Gathered(r, v)
         IN  /\ g \in Seq(Int)
             /\ Fresh => ToSet(g) = UNION {ToSet(Content(levels[q], v)) : q \in Ranks}
             /\ \A i, j \in DOMAIN g : g[i] = g[j] => i = j
<1> DEFINE Of(q) == IF HasVertex(r, q, v) THEN ToSet(SnapshotNeighbours(levels[q], v)) ELSE {}
           Base(q) == ToSet(Level0Neighbours(levels[q][1], v))
           all == Base(r) \cup UNION {Of(q) : q \in Ranks}
           Seen(q) == ToSet(Content(levels[q], v))
<1>0. IInv /\ Sound /\ Marks BY DEF DataInv
<1>1. ASSUME NEW q \in Ranks
      PROVE  Of(q) \cup Base(q) = Seen(q)
  <2> DEFINE L == levels[q]
  <2>1. WellFormed(L) /\ Len(L) \in Nat /\ Len(L) >= 1
    BY <1>0, StateTypes DEF Sound
  <2>2. /\ v < Latest(L).size => Seen(q) = ToSet(SnapshotNeighbours(L, v)) \cup Base(q)
        /\ ~ v < Latest(L).size => Base(q) = {}
    BY <2>1, SnapshotRead, ToSetEmpty
  <2>3. CASE Len(L) = 1
    <3>1. SnapshotNeighbours(L, v) = <<>> BY <2>3 DEF SnapshotNeighbours
    <3>2. Of(q) = {} BY <3>1, ToSetEmpty
    <3>3. ~ v < Latest(L).size => Seen(q) = {} BY ToSetEmpty DEF Content
    <3> QED BY <2>2, <3>1, <3>2, <3>3, ToSetEmpty
  <2>4. CASE Len(L) # 1
    <3>1. Len(L) > 1
      <4> DEFINE n == Len(L)
      <4>1. n \in Nat /\ n >= 1 /\ n # 1 BY <2>1, <2>4
      <4> HIDE DEF n
      <4>2. n > 1 BY <4>1, SMT
      <4> QED BY <4>2 DEF n
    <3>2. Latest(L).size = vertices[q] + 1 BY <1>0, <3>1 DEF Marks, Marked
    <3>3. announced[q] = vertices[q] BY <1>0, <2>4 DEF IInv, Announced
    <3>4. LastVertex(r, q) = vertices[q] BY <3>3 DEF LastVertex
    <3>5. HasVertex(r, q, v) <=> v < Latest(L).size
      <4>1. vertices[q] \in Nat BY <1>0, StateTypes
      <4> QED BY <3>2, <3>4, <4>1, SMT DEF HasVertex
    <3>6. ~ v < Latest(L).size => Seen(q) = {} BY ToSetEmpty DEF Content
    <3> QED BY <2>2, <3>5, <3>6
  <2> QED BY <2>3, <2>4
<1>2. ASSUME NEW q \in Ranks PROVE Seen(q) \in SUBSET Int /\ IsFiniteSet(Seen(q))
  <2>1. WellFormed(levels[q]) /\ Len(levels[q]) >= 1 BY <1>0, StateTypes DEF Sound
  <2>2. Content(levels[q], v) \in Seq(Int) BY <2>1, ContentIs
  <2> QED BY <2>2, ToSetFinite
<1> HIDE DEF Of, Base, Seen
<1>3. all \subseteq UNION {Seen(q) : q \in Ranks}
  <2>1. Base(r) \subseteq Seen(r) BY <1>1
  <2>2. \A q \in Ranks : Of(q) \subseteq Seen(q) BY <1>1
  <2> QED BY <2>1, <2>2
<1>4. all \in SUBSET Int BY <1>2, <1>3
<1>9. ASSUME Fresh PROVE all = UNION {Seen(q) : q \in Ranks}
  <2>1. \A q \in Ranks : Base(q) = Base(r) BY <1>0, <1>9 DEF IInv, BasesAgree, Base
  <2>2. \A q \in Ranks : Seen(q) \subseteq Of(q) \cup Base(r) BY <1>1, <2>1
  <2> QED BY <1>3, <2>2
<1>5. IsFiniteSet(all)
  <2> DEFINE F == {Seen(q) : q \in Ranks}
             f == [q \in Ranks |-> Seen(q)]
  <2>1. f \in Surjection(Ranks, F) BY DEF Surjection
  <2>2. IsFiniteSet(Ranks) BY ConstantsAssumption, FS_Interval, SMT DEF Ranks
  <2>3. IsFiniteSet(F)
    <3> HIDE DEF f, F
    <3> QED BY <2>1, <2>2, FS_Surjection
  <2>4. \A T \in F : IsFiniteSet(T) BY <1>2
  <2> HIDE DEF F
  <2>5. IsFiniteSet(UNION F) BY <2>3, <2>4, FS_UNION
  <2>6. all \subseteq UNION F BY <1>3 DEF F
  <2> QED BY <2>5, <2>6, FS_Subset
<1>6. Gathered(r, v) = Sorted(all) BY Zenon DEF Gathered, all, Base, Of
<1> HIDE DEF all
<1>7. /\ Sorted(all) \in Seq(all) /\ ToSet(Sorted(all)) = all
      /\ \A i, j \in DOMAIN Sorted(all) : Sorted(all)[i] = Sorted(all)[j] => i = j
  BY <1>4, <1>5, SortedIs
<1>8. Sorted(all) \in Seq(Int) BY <1>4, <1>7, IntSeqs
<1> QED BY <1>6, <1>7, <1>8, <1>9 DEF Seen

\* No element is there twice.
Once(s) == \A i, j \in DOMAIN s : s[i] = s[j] => i = j

(***************************************************************************)
(* What the steps do to the levels.                                        *)
(***************************************************************************)

\* The level 0 that is loaded is a stack of its own.
LEMMA LoadedLevel ==
  ASSUME Init, NEW r \in Ranks
  PROVE  WellFormed(levels[r]) /\ LevelFits(levels[r][1])
<1> DEFINE l == NewLevel(<<>>, InitEdges, InitNodes)
<1>1. InitNodes \in Nat BY ConstantTypes
<1>2. \A v \in 0 .. InitNodes - 1 : InitEdges[v] \in Seq(Int)
  <2> TAKE v \in 0 .. InitNodes - 1
  <2> DEFINE S == 0 .. InitNodes - 1
  <2>1. InitEdges[v] \in Seq(S) BY ConstantsAssumption
  <2>2. S \in SUBSET Int BY <1>1, SMT
  <2> HIDE DEF S
  <2> QED BY <2>1, <2>2, IntSeqs
<1>3. Len(<<>>) = 0 BY SMT
<1>4. Below(<<>>).size <= InitNodes
  <2>1. Below(<<>>) = NoLevel BY <1>3 DEF Below
  <2> QED BY <1>1, <2>1, SMT DEF NoLevel
<1>5. WellFormed(Append(<<>>, l))
  BY <1>1, <1>2, <1>4, NothingWellFormed, NewLevelGood
<1>6. LevelFits(l)
  <2>1. Len(<<>>) \in Nat BY <1>3
  <2> QED BY <1>1, <1>2, <2>1, NewLevelFits
<1>7. levels[r] = <<l>> BY DEF Init
<1> HIDE DEF l
<1>8. Append(<<>>, l) = <<l>> /\ <<l>>[1] = l BY SMT
<1> QED BY <1>5, <1>6, <1>7, <1>8

\* A checkpoint puts the new edges of a node before those of older levels.
LEMMA CheckpointLevels ==
  ASSUME DataInv, NEW r \in Ranks, Checkpoint(r), NEW q \in Ranks
  PROVE  /\ WellFormed(levels'[q])
         /\ levels'[q][1] = levels[q][1]
         /\ \A v \in Nodes : Content(levels'[q], v) =
               IF q = r THEN new[r][v] \o Content(levels[r], v) ELSE Content(levels[q], v)
         /\ q # r => levels'[q] = levels[q]
         /\ q = r /\ changed[r] => Latest(levels'[r]).size = nextNode
         /\ q = r /\ ~ changed[r] => levels'[r] = levels[r]
<1>0. IInv /\ Sound /\ Marks BY DEF DataInv
<1> DEFINE L == levels[r]
           l == NewLevel(L, new[r], nextNode)
           M == Append(L, l)
<1>1. /\ q # r => levels'[q] = levels[q]
      /\ changed[r] => levels'[r] = M
      /\ ~ changed[r] => levels'[r] = levels[r]
  BY <1>0 DEF IInv, Stacks, Checkpoint
<1>2. /\ nextNode \in Nat /\ \A v \in 0 .. nextNode - 1 : new[r][v] \in Seq(Int)
      /\ Latest(L).size \in Nat /\ Latest(L).size <= nextNode /\ Below(L) = Latest(L)
      /\ Len(L) \in Nat /\ Len(L) >= 1 /\ IsStack(L) /\ WellFormed(L)
  BY <1>0, StateTypes DEF Sound
<1>3. Len(L) # 0 BY <1>2, SMT
<1>4. ASSUME NEW v \in Nodes
      PROVE  /\ new[r][v] \in Seq(Int) /\ Content(L, v) \in Seq(Int) /\ v \in Nat
             /\ v >= nextNode => new[r][v] = <<>> /\ Content(L, v) = <<>>
  <2>1. v \in Nat BY ConstantTypes
  <2>2. new[r][v] \in Seq(Int) BY <1>0, StateTypes
  <2>3. Content(L, v) \in Seq(Int) BY <1>2, <2>1, ContentIs
  <2>4. v >= nextNode => new[r][v] = <<>> BY <1>0 DEF Marks, Marked
  <2>5. v >= nextNode => ~ v < Latest(L).size
    <3> DEFINE z == Latest(L).size
    <3>1. z \in Nat /\ z <= nextNode /\ nextNode \in Nat BY <1>2
    <3> HIDE DEF z
    <3>2. v >= nextNode => ~ v < z BY <2>1, <3>1, SMT
    <3> QED BY <3>2 DEF z
  <2> QED BY <2>1, <2>2, <2>3, <2>4, <2>5 DEF Content
<1>5. CASE q # r BY <1>0, <1>1, <1>5 DEF Sound
<1>6. CASE q = r /\ changed[r]
  <2>1. /\ WellFormed(M)
        /\ \A v \in 0 .. nextNode - 1 : Content(M, v) = new[r][v] \o Before(L, v)
    BY <1>2, NewLevelGood
  <2>2. M[1] = L[1] /\ Latest(M) = l BY <1>2, StackAppend
  <2>3. l.size = nextNode BY Sizes
  <2> HIDE DEF M, l, L
  <2>4. ASSUME NEW v \in Nodes PROVE Content(M, v) = new[r][v] \o Content(L, v)
    <3>1. CASE v < nextNode
      <4>1. v \in 0 .. nextNode - 1 BY <1>2, <1>4, <3>1, SMT
      <4>2. Before(L, v) = Content(L, v) BY <1>2, <1>3, <1>4, BeforeIs
      <4> QED BY <2>1, <4>1, <4>2
    <3>2. CASE ~ v < nextNode
      <4>1. Content(M, v) = <<>> BY <2>2, <2>3, <3>2 DEF Content
      <4>2. v >= nextNode BY <1>2, <1>4, <3>2, SMT
      <4>3. <<>> \o <<>> = <<>> BY SMT
      <4> QED BY <1>4, <4>1, <4>2, <4>3
    <3> QED BY <3>1, <3>2
  <2> QED BY <1>1, <1>6, <2>1, <2>2, <2>3, <2>4 DEF L
<1>7. CASE q = r /\ ~ changed[r]
  <2>1. new[r] = NoEdges BY <1>0, <1>7 DEF Marks, Marked
  <2>2. \A v \in Nodes : new[r][v] = <<>> BY <2>1 DEF NoEdges
  <2>3. \A v \in Nodes : <<>> \o Content(L, v) = Content(L, v) BY <1>4, ConcatEmptySeq
  <2> QED BY <1>1, <1>2, <1>7, <2>2, <2>3
<1> QED BY <1>5, <1>6, <1>7

\* After a merge a rank sees what any rank had saved, each edge once.
LEMMA MergeLevels ==
  ASSUME DataInv, Merge, NEW r \in Ranks
  PROVE  /\ WellFormed(levels'[r]) /\ Len(levels'[r]) = 1 /\ LevelFits(levels'[r][1])
         /\ Latest(levels'[r]).size = MergedSize(r)
         /\ \A v \in Nodes :
              /\ Content(levels'[r], v) \in Seq(Int)
              /\ Once(Content(levels'[r], v))
              /\ Fresh => ToSet(Content(levels'[r], v)) =
                            UNION {ToSet(Content(levels[q], v)) : q \in Ranks}
<1>0. IInv /\ Sound /\ Marks BY DEF DataInv
<1> DEFINE size == MergedSize(r)
           lists == [v \in 0 .. size - 1 |-> Gathered(r, v)]
           l == MergedLevel(lists, size)
<1>1. levels'[r] = <<l>> BY Zenon DEF Merge
<1>2. size \in Nat /\ (Fresh => \A q \in Ranks : vertices[q] + 1 <= size)
  <2>1. Fresh => AllSaved BY DEF Merge, AllSaved
  <2> QED BY <1>0, <2>1, MergeCounts
<1> HIDE DEF size
<1>3. \A v \in 0 .. size - 1 : v \in Nat BY SMT
<1>4. \A v \in 0 .. size - 1 : lists[v] = Gathered(r, v) OBVIOUS
<1>5. \A v \in 0 .. size - 1 : lists[v] \in Seq(Int) BY <1>3, <1>4, GatheredIs
<1> HIDE DEF lists
<1>6. /\ WellFormed(<<l>>) /\ l.size = size /\ LevelFits(l)
      /\ \A v \in 0 .. size - 1 : Content(<<l>>, v) = lists[v]
  BY <1>2, <1>5, MergedLevelGood
<1> HIDE DEF l
<1>7. Len(<<l>>) = 1 /\ <<l>>[1] = l /\ Latest(<<l>>) = l BY StackOne
<1>8. ASSUME NEW v \in Nodes
      PROVE  /\ Content(<<l>>, v) \in Seq(Int) /\ Once(Content(<<l>>, v))
             /\ Fresh => ToSet(Content(<<l>>, v)) = UNION {ToSet(Content(levels[q], v)) : q \in Ranks}
  <2>1. v \in Nat BY ConstantTypes
  <2>2. CASE v < size
    <3>1. v \in 0 .. size - 1 BY <1>2, <2>1, <2>2, SMT
    <3>2. Content(<<l>>, v) = Gathered(r, v) BY <1>4, <1>6, <3>1
    <3>3. /\ Gathered(r, v) \in Seq(Int)
          /\ Fresh => ToSet(Gathered(r, v)) = UNION {ToSet(Content(levels[q], v)) : q \in Ranks}
          /\ \A i, j \in DOMAIN Gathered(r, v) : Gathered(r, v)[i] = Gathered(r, v)[j] => i = j
      BY <2>1, GatheredIs
    <3> QED BY <3>2, <3>3, Zenon DEF Once
  <2>3. CASE ~ v < size
    <3>1. Content(<<l>>, v) = <<>> BY <1>6, <1>7, <2>3 DEF Content
    <3>2. ASSUME Fresh, NEW q \in Ranks PROVE Content(levels[q], v) = <<>>
      <4>1. PICK p \in Ranks : Latest(levels[q]).size <= vertices[p] + 1 BY <1>0 DEF Marks, Marked
      <4>2. vertices[p] + 1 <= size /\ vertices[p] \in Nat /\ Latest(levels[q]).size \in Nat
        BY <1>0, <1>2, <3>2, StateTypes
      <4>3. ~ v < Latest(levels[q]).size BY <1>2, <2>1, <2>3, <4>1, <4>2, SMT
      <4> QED BY <4>3 DEF Content
    <3>3. Fresh => UNION {ToSet(Content(levels[q], v)) : q \in Ranks} = {} BY <3>2, ToSetEmpty
    <3>4. <<>> \in Seq(Int) /\ DOMAIN <<>> = {} BY SMT
    <3>5. Once(<<>>) BY <3>4 DEF Once
    <3> QED BY <3>1, <3>3, <3>4, <3>5, ToSetEmpty
  <2> QED BY <2>2, <2>3
<1> QED BY <1>1, <1>6, <1>7, <1>8 DEF size

LEMMA InitDataInv == Init => DataInv
<1> SUFFICES ASSUME Init PROVE DataInv OBVIOUS
<1>1. IInv BY InitIInv
<1>2. Sound BY LoadedLevel DEF Sound
<1>3. ASSUME NEW r \in Ranks PROVE Marked(r)
  <2>1. new[r] = NoEdges /\ vertices[r] = InitNodes - 1 /\ nextNode = InitNodes BY DEF Init
  <2>2. Len(levels[r]) = 1 BY StackOfOne DEF Init
  <2>3. ~ Len(levels[r]) > 1 BY <2>2, SMT
  <2>4. Latest(levels[r]).size <= vertices[r] + 1
    <3>1. Latest(levels[r]).size \in Nat /\ Latest(levels[r]).size <= nextNode BY <1>1, StateTypes
    <3>2. vertices[r] + 1 = nextNode BY <2>1, ConstantTypes, SMT
    <3> QED BY <3>1, <3>2
  <2>5. \A v \in Nodes : new[r][v] = <<>> BY <2>1 DEF NoEdges
  <2> QED BY <2>1, <2>3, <2>4, <2>5 DEF Marked
<1> QED BY <1>1, <1>2, <1>3 DEF DataInv, Marks

LEMMA AddNodeDataInv == DataInv /\ AddNode => DataInv'
<1> SUFFICES ASSUME DataInv, AddNode PROVE DataInv' OBVIOUS
<1>1. IInv /\ Sound /\ Marks /\ IInv' BY AddNodeIInv DEF DataInv
<1>2. /\ nextNode' = nextNode + 1 /\ nextNode \in Nat
      /\ UNCHANGED <<new, levels, vertices>> /\ \A r \in Ranks : changed'[r]
  BY <1>1, StateTypes DEF AddNode, saveVars
<1>3. Sound' BY <1>1, <1>2 DEF Sound
<1>4. \A v \in Nodes : v >= nextNode' => v >= nextNode BY <1>2, ConstantTypes, SMT
<1>5. ASSUME NEW r \in Ranks PROVE Marked(r)'
  <2>1. \A v \in Nodes : v >= nextNode' => new'[r][v] = <<>> BY <1>1, <1>2, <1>4 DEF Marks, Marked
  <2>2. /\ Len(levels'[r]) > 1 => Latest(levels'[r]).size = vertices'[r] + 1
        /\ \E q \in Ranks : Latest(levels'[r]).size <= vertices'[q] + 1
    BY <1>1, <1>2 DEF Marks, Marked
  <2> QED BY <1>2, <2>1, <2>2 DEF Marked
<1> QED BY <1>1, <1>3, <1>5 DEF DataInv, Marks

LEMMA AddEdgeDataInv ==
  ASSUME NEW r \in Ranks, NEW s \in Sources, NEW t \in Targets
  PROVE  DataInv /\ AddEdge(r, s, t) => DataInv'
<1> SUFFICES ASSUME DataInv, AddEdge(r, s, t) PROVE DataInv' OBVIOUS
<1>1. IInv /\ Sound /\ Marks /\ IInv' BY AddEdgeIInv DEF DataInv
<1>2. /\ UNCHANGED <<nextNode, levels, vertices>> /\ nextNode \in Nat /\ s < nextNode /\ s \in Nat
      /\ changed'[r] /\ \A q \in Ranks : q # r => changed'[q] = changed[q] /\ new'[q] = new[q]
      /\ \A v \in Nodes : v # s => new'[r][v] = new[r][v]
  BY <1>1, StateTypes, ConstantTypes DEF AddEdge, saveVars, IInv, TypeOK
<1>3. Sound' BY <1>1, <1>2 DEF Sound
<1>4. ASSUME NEW q \in Ranks PROVE Marked(q)'
  <2>1. ASSUME NEW v \in Nodes, v >= nextNode' PROVE new'[q][v] = <<>>
    <3>1. v # s BY <1>2, <2>1, ConstantTypes, SMT
    <3>2. new'[q][v] = new[q][v] BY <1>2, <3>1
    <3> QED BY <1>1, <1>2, <2>1, <3>2 DEF Marks, Marked
  <2>2. /\ Len(levels'[q]) > 1 => Latest(levels'[q]).size = vertices'[q] + 1
        /\ \E p \in Ranks : Latest(levels'[q]).size <= vertices'[p] + 1
    BY <1>1, <1>2 DEF Marks, Marked
  <2>3. ~ changed'[q] => new'[q] = NoEdges /\ (Len(levels'[q]) > 1 => Latest(levels'[q]).size = nextNode')
    BY <1>1, <1>2 DEF Marks, Marked
  <2> QED BY <2>1, <2>2, <2>3 DEF Marked
<1> QED BY <1>1, <1>3, <1>4 DEF DataInv, Marks

LEMMA CheckpointDataInv ==
  ASSUME NEW r \in Ranks
  PROVE  DataInv /\ Checkpoint(r) => DataInv'
<1> SUFFICES ASSUME DataInv, Checkpoint(r) PROVE DataInv' OBVIOUS
<1>1. IInv /\ Sound /\ Marks /\ IInv' BY CheckpointIInv DEF DataInv
<1>2. Sound' BY CheckpointLevels DEF Sound
<1>3. /\ nextNode' = nextNode /\ nextNode \in Nat /\ new'[r] = NoEdges /\ ~ changed'[r]
      /\ vertices'[r] = nextNode - 1 /\ vertices'[r] + 1 = nextNode
      /\ \A q \in Ranks : q # r =>
           changed'[q] = changed[q] /\ new'[q] = new[q] /\ vertices'[q] = vertices[q]
  <2>1. /\ nextNode' = nextNode /\ new'[r] = NoEdges /\ ~ changed'[r] /\ vertices'[r] = nextNode - 1
        /\ \A q \in Ranks : q # r =>
             changed'[q] = changed[q] /\ new'[q] = new[q] /\ vertices'[q] = vertices[q]
    BY <1>1 DEF Checkpoint, IInv, TypeOK
  <2>2. nextNode \in Nat /\ (nextNode - 1) + 1 = nextNode BY <1>1, StateTypes, SMT
  <2> QED BY <2>1, <2>2
<1>4. \A q \in Ranks : vertices[q] \in Nat /\ vertices[q] <= nextNode - 1 BY <1>1, StateTypes
<1>5. \A v \in Nodes : NoEdges[v] = <<>> BY DEF NoEdges
<1>6. ASSUME NEW q \in Ranks PROVE Marked(q)'
  <2>1. /\ q # r => levels'[q] = levels[q]
        /\ q = r /\ changed[r] => Latest(levels'[r]).size = nextNode
        /\ q = r /\ ~ changed[r] => levels'[r] = levels[r]
    BY CheckpointLevels
  <2>2. CASE q = r
    <3>1. Len(levels'[r]) > 1 => Latest(levels'[r]).size = nextNode
      BY <1>1, <2>1, <2>2 DEF Marks, Marked
    <3>2. Latest(levels'[r]).size <= vertices'[r] + 1
      <4>1. IInv' => Latest(levels'[r]).size <= nextNode'
        <5>1. IInv' => Latest(levels'[r]).size \in InitNodes' .. nextNode' BY DEF IInv, TypeOK
        <5> QED BY <1>3, <5>1, ConstantTypes, SMT
      <4> QED BY <1>1, <1>3, <4>1
    <3> QED BY <1>3, <1>5, <2>2, <3>1, <3>2 DEF Marked
  <2>3. CASE q # r
    <3>1. PICK p \in Ranks : Latest(levels[q]).size <= vertices[p] + 1 BY <1>1 DEF Marks, Marked
    <3>2. vertices[p] <= vertices'[p] /\ vertices'[p] \in Int
      <4>1. CASE p = r BY <1>3, <1>4, <4>1
      <4>2. CASE p # r BY <1>3, <1>4, <4>2, SMT
      <4> QED BY <4>1, <4>2
    <3>3. Latest(levels'[q]).size <= vertices'[p] + 1
      <4>1. Latest(levels[q]).size \in Nat /\ vertices[p] \in Nat BY <1>1, StateTypes
      <4>2. Latest(levels[q]).size <= vertices'[p] + 1
        <5> DEFINE z == Latest(levels[q]).size
        <5>1. z \in Nat /\ vertices[p] \in Nat /\ z <= vertices[p] + 1 BY <3>1, <4>1
        <5> HIDE DEF z
        <5>2. z <= vertices'[p] + 1 BY <3>2, <5>1, SMT
        <5> QED BY <5>2 DEF z
      <4> QED BY <2>1, <2>3, <4>2
    <3> QED BY <1>1, <1>3, <2>1, <2>3, <3>3 DEF Marks, Marked
  <2> QED BY <2>2, <2>3
<1> QED BY <1>1, <1>2, <1>6 DEF DataInv, Marks

LEMMA MergeDataInv == DataInv /\ Merge => DataInv'
<1> SUFFICES ASSUME DataInv, Merge PROVE DataInv' OBVIOUS
<1>1. IInv /\ Sound /\ Marks /\ IInv' BY MergeIInv DEF DataInv
<1>2. Sound' BY MergeLevels DEF Sound
<1>3. UNCHANGED <<nextNode, new, changed, vertices>> BY DEF Merge
<1>4. ASSUME NEW r \in Ranks PROVE Marked(r)'
  <2>1. Len(levels'[r]) = 1 /\ Latest(levels'[r]).size = MergedSize(r) BY MergeLevels
  <2>2. ~ Len(levels'[r]) > 1 BY <2>1, SMT
  <2>3. \E q \in Ranks : Latest(levels'[r]).size <= vertices'[q] + 1
    BY <1>1, <1>3, <2>1, MergeCounts
  <2>4. /\ ~ changed'[r] => new'[r] = NoEdges
        /\ \A v \in Nodes : v >= nextNode' => new'[r][v] = <<>>
    BY <1>1, <1>3 DEF Marks, Marked
  <2> QED BY <2>2, <2>3, <2>4 DEF Marked
<1> QED BY <1>1, <1>2, <1>4 DEF DataInv, Marks

LEMMA NextDataInv == DataInv /\ [Next]_vars => DataInv'
<1> SUFFICES ASSUME DataInv, [Next]_vars PROVE DataInv' OBVIOUS
<1>1. CASE AddNode BY <1>1, AddNodeDataInv
<1>2. CASE \E r \in Ranks, s \in Sources, t \in Targets : AddEdge(r, s, t) BY <1>2, AddEdgeDataInv
<1>3. CASE \E r \in Ranks : Checkpoint(r) BY <1>3, CheckpointDataInv
<1>4. CASE Merge BY <1>4, MergeDataInv
<1>5. CASE UNCHANGED vars
  <2>1. IInv' BY <1>5, NextIInv DEF DataInv
  <2> QED BY <1>5, <2>1 DEF vars, saveVars, DataInv, Sound, Marks, Marked
<1> QED BY <1>1, <1>2, <1>3, <1>4, <1>5 DEF Next

LEMMA DataInvariance == Spec => []DataInv
BY InitDataInv, NextDataInv, PTL DEF Spec

-----------------------------------------------------------------------------
(***************************************************************************)
(* Sequences as bags.                                                      *)
(***************************************************************************)

\* Where x is in s, and how often.
Places(s, x) == {i \in DOMAIN s : s[i] = x}
Count(s, x) == Cardinality(Places(s, x))

\* Two bags together; a bag of one copy of each member of S.
Plus(B, C) ==
    [e \in (DOMAIN B) \cup (DOMAIN C) |->
        (IF e \in DOMAIN B THEN B[e] ELSE 0) + (IF e \in DOMAIN C THEN C[e] ELSE 0)]
Ones(S) == [e \in S |-> 1]

LEMMA CountIs ==
  ASSUME NEW S, NEW s \in Seq(S), NEW x
  PROVE  /\ Places(s, x) \subseteq 1 .. Len(s) /\ IsFiniteSet(Places(s, x))
         /\ Count(s, x) \in Nat
         /\ Count(s, x) = 0 <=> x \notin ToSet(s)
<1>1. Len(s) \in Nat /\ DOMAIN s = 1 .. Len(s) BY SeqFacts
<1>2. Places(s, x) \subseteq 1 .. Len(s) BY <1>1 DEF Places
<1>3. IsFiniteSet(1 .. Len(s)) BY <1>1, FS_Interval
<1>4. IsFiniteSet(Places(s, x)) BY <1>2, <1>3, FS_Subset
<1>5. Places(s, x) = {} <=> x \notin ToSet(s) BY DEF Places, ToSet
<1>6. Count(s, x) \in Nat /\ (Count(s, x) = 0 <=> Places(s, x) = {})
  BY <1>4, FS_CardinalityType, FS_EmptySet DEF Count
<1> QED BY <1>2, <1>4, <1>5, <1>6

\* Places that correspond are as many.
LEMMA AsMany ==
  ASSUME NEW A, NEW B, IsFiniteSet(A), NEW f \in [A -> B],
         \A i, j \in A : f[i] = f[j] => i = j, \A k \in B : \E i \in A : f[i] = k
  PROVE  IsFiniteSet(B) /\ Cardinality(B) = Cardinality(A)
<1>1. f \in Bijection(A, B) BY DEF Bijection, Injection, IsInjective, Surjection
<1>2. ExistsBijection(A, B) BY <1>1 DEF ExistsBijection
<1> QED BY <1>2, FS_Bijection

LEMMA CountReverse ==
  ASSUME NEW S, NEW s \in Seq(S)
  PROVE  /\ Reverse(s) \in Seq(S) /\ Len(Reverse(s)) = Len(s)
         /\ \A x : Count(Reverse(s), x) = Count(s, x)
<1> DEFINE n == Len(s)
           r == Reverse(s)
<1>1. n \in Nat /\ DOMAIN s = 1 .. n BY SeqFacts
<1>2. r = [i \in 1 .. n |-> s[n - i + 1]] BY DEF Reverse
<1> HIDE DEF r
<1>3. \A i \in 1 .. n : n - i + 1 \in 1 .. n /\ n - (n - i + 1) + 1 = i
  <2> HIDE DEF n
  <2> QED BY <1>1, SMT
<1>4. \A i \in 1 .. n : s[n - i + 1] \in S BY <1>3, ElementOfSeq
<1>5. DOMAIN r = 1 .. n /\ \A i \in 1 .. n : r[i] = s[n - i + 1] BY <1>2
<1>6. r \in Seq(S) /\ Len(r) = n
  <2> DEFINE f(i) == s[n - i + 1]
  <2>1. n \in Nat /\ r = [i \in 1 .. n |-> f(i)] /\ \A i \in 1 .. n : f(i) \in S BY <1>1, <1>2, <1>4
  <2> HIDE DEF n, f
  <2> QED BY <2>1, SMT
<1>7. ASSUME NEW x PROVE Count(r, x) = Count(s, x)
  <2> DEFINE A == Places(s, x)
             B == Places(r, x)
             f == [i \in A |-> n - i + 1]
  <2>1. A \subseteq 1 .. n /\ IsFiniteSet(A) BY CountIs
  <2>2. \A i \in A : s[i] = x BY DEF Places
  <2>3. \A i : i \in B <=> i \in 1 .. n /\ s[n - i + 1] = x BY <1>5 DEF Places
  <2>4. ASSUME NEW i \in A PROVE f[i] \in B
    <3>1. i \in 1 .. n /\ s[i] = x BY <2>1, <2>2
    <3>2. n - i + 1 \in 1 .. n /\ n - (n - i + 1) + 1 = i BY <1>3, <3>1
    <3>3. PICK j : j = n - i + 1 OBVIOUS
    <3>4. j \in 1 .. n /\ n - j + 1 = i BY <3>2, <3>3
    <3>5. j \in B BY <2>3, <3>1, <3>4
    <3> QED BY <3>3, <3>5
  <2>5. f \in [A -> B]
    <3>1. f = [i \in A |-> f[i]] OBVIOUS
    <3> HIDE DEF f
    <3> QED BY <2>4, <3>1
  <2>6. \A i, j \in A : f[i] = f[j] => i = j
    <3> TAKE i, j \in A
    <3>1. i \in 1 .. n /\ j \in 1 .. n BY <2>1
    <3>2. n - i + 1 = n - j + 1 => i = j
      <4> HIDE DEF n
      <4> QED BY <1>1, <3>1, SMT
    <3> QED BY <3>2
  <2>7. ASSUME NEW k \in B PROVE \E i \in A : f[i] = k
    <3>1. k \in 1 .. n /\ s[n - k + 1] = x BY <2>3
    <3>2. n - k + 1 \in 1 .. n /\ n - (n - k + 1) + 1 = k BY <1>3, <3>1
    <3>3. PICK i : i = n - k + 1 OBVIOUS
    <3>4. i \in A /\ n - i + 1 = k BY <1>1, <3>1, <3>2, <3>3 DEF Places
    <3> QED BY <3>4
  <2> HIDE DEF f, A, B
  <2>8. Cardinality(B) = Cardinality(A) BY <2>1, <2>5, <2>6, <2>7, AsMany
  <2> QED BY <2>8 DEF Count, A, B
<1> QED BY <1>6, <1>7 DEF r

LEMMA CountConcat ==
  ASSUME NEW S, NEW s \in Seq(S), NEW t \in Seq(S), NEW x
  PROVE  Count(s \o t, x) = Count(s, x) + Count(t, x)
<1> DEFINE m == Len(s)
           n == Len(t)
           u == s \o t
           A == Places(s, x)
           B == Places(t, x)
           C == {m + i : i \in B}
           f == [i \in B |-> m + i]
<1>1. /\ m \in Nat /\ n \in Nat /\ DOMAIN s = 1 .. m /\ DOMAIN t = 1 .. n
      /\ DOMAIN u = 1 .. m + n
      /\ \A i \in 1 .. m + n : u[i] = IF i <= m THEN s[i] ELSE t[i - m]
  BY SeqFacts, ConcatProperties
<1>2. A \subseteq 1 .. m /\ IsFiniteSet(A) /\ B \subseteq 1 .. n /\ IsFiniteSet(B) BY CountIs
<1> HIDE DEF m, n, u
<1>3. Cardinality(C) = Cardinality(B) /\ IsFiniteSet(C)
  <2>1. f \in [B -> C] BY Zenon
  <2>2. \A i, j \in B : f[i] = f[j] => i = j
    <3> TAKE i, j \in B
    <3>1. i \in Int /\ j \in Int /\ f[i] = m + i /\ f[j] = m + j BY <1>1, <1>2
    <3>2. m + i = m + j => i = j
      <4>1. i \in Int /\ j \in Int BY <3>1
      <4> QED BY <1>1, <4>1, SMT
    <3> QED BY <3>1, <3>2
  <2>3. \A k \in C : \E i \in B : f[i] = k BY Zenon
  <2> HIDE DEF f, C, B
  <2> QED BY <1>2, <2>1, <2>2, <2>3, AsMany
<1>4. A \cap C = {}
  <2>1. \A i \in B : m + i \notin 1 .. m
    <3> TAKE i \in B
    <3>1. i \in 1 .. n BY <1>2
    <3> QED BY <1>1, <3>1, SMT
  <2> QED BY <1>2, <2>1
<1>5. Places(u, x) = A \cup C
  <2>1. ASSUME NEW i \in Places(u, x) PROVE i \in A \cup C
    <3>1. i \in 1 .. m + n /\ u[i] = x BY <1>1 DEF Places
    <3>2. CASE i <= m
      <4>1. i \in 1 .. m BY <1>1, <3>1, <3>2, SMT
      <4> QED BY <1>1, <3>1, <3>2, <4>1 DEF Places
    <3>3. CASE ~ i <= m
      <4>1. PICK j : j = i - m OBVIOUS
      <4>2. j \in 1 .. n /\ i = m + j BY <1>1, <3>1, <3>3, <4>1, SMT
      <4>3. t[j] = x BY <1>1, <3>1, <3>3, <4>1
      <4>4. j \in B BY <1>1, <4>2, <4>3 DEF Places
      <4> QED BY <4>2, <4>4
    <3> QED BY <3>2, <3>3
  <2>2. ASSUME NEW i \in A PROVE i \in Places(u, x)
    <3>1. i \in 1 .. m /\ s[i] = x BY <1>2 DEF Places
    <3>2. i \in 1 .. m + n /\ i <= m BY <1>1, <3>1, SMT
    <3> QED BY <1>1, <3>1, <3>2 DEF Places
  <2>3. ASSUME NEW j \in B PROVE m + j \in Places(u, x)
    <3>1. j \in 1 .. n /\ t[j] = x BY <1>2 DEF Places
    <3>2. PICK i : i = m + j OBVIOUS
    <3>3. i \in 1 .. m + n /\ ~ i <= m /\ i - m = j BY <1>1, <3>1, <3>2, SMT
    <3>4. i \in Places(u, x) BY <1>1, <3>1, <3>3 DEF Places
    <3> QED BY <3>2, <3>4
  <2> QED BY <2>1, <2>2, <2>3
<1>6. Cardinality(A \cup C) = Cardinality(A) + Cardinality(C)
  <2> HIDE DEF A, C
  <2>1. Cardinality(A \cup C) = Cardinality(A) + Cardinality(C) - Cardinality({})
    BY <1>2, <1>3, <1>4, FS_Union
  <2>2. Cardinality({}) = 0 /\ Cardinality(A) \in Nat /\ Cardinality(C) \in Nat
    BY <1>2, <1>3, FS_EmptySet, FS_CardinalityType
  <2> QED BY <2>1, <2>2, SMT
<1> QED BY <1>3, <1>5, <1>6 DEF Count, u

\* A sequence that has nothing twice is counted as a set.
LEMMA CountOnce ==
  ASSUME NEW S, NEW s \in Seq(S), Once(s), NEW x
  PROVE  Count(s, x) = IF x \in ToSet(s) THEN 1 ELSE 0
<1>1. CASE x \in ToSet(s)
  <2>1. PICK i \in DOMAIN s : s[i] = x BY <1>1 DEF ToSet
  <2>2. Places(s, x) = {i} BY <2>1 DEF Places, Once
  <2> QED BY <1>1, <2>2, FS_Singleton DEF Count
<1>2. CASE x \notin ToSet(s) BY <1>2, CountIs
<1> QED BY <1>1, <1>2

LEMMA CountAppended ==
  ASSUME NEW S, NEW s \in Seq(S), NEW e \in S, NEW x
  PROVE  Count(Append(s, e), x) = Count(s, x) + (IF x = e THEN 1 ELSE 0)
<1>1. <<e>> \in Seq(S) /\ DOMAIN <<e>> = {1} /\ <<e>>[1] = e BY SMT
<1>2. Append(s, e) = s \o <<e>> BY SMT
<1>3. Once(<<e>>) /\ ToSet(<<e>>) = {e} BY <1>1 DEF Once, ToSet
<1>4. Count(<<e>>, x) = IF x = e THEN 1 ELSE 0 BY <1>1, <1>3, CountOnce
<1>5. Count(s \o <<e>>, x) = Count(s, x) + Count(<<e>>, x) BY <1>1, CountConcat
<1> QED BY <1>2, <1>4, <1>5

LEMMA BagIs ==
  ASSUME NEW s
  PROVE  /\ BagOf(s) = [x \in ToSet(s) |-> Count(s, x)]
         /\ DOMAIN BagOf(s) = ToSet(s)
         /\ \A x \in ToSet(s) : BagOf(s)[x] = Count(s, x)
<1>1. BagOf(s) = [x \in ToSet(s) |-> Count(s, x)] BY Zenon DEF BagOf, Count, Places
<1> QED BY <1>1

LEMMA BagsEqual ==
  ASSUME NEW s \in Seq(Int), NEW t \in Seq(Int), \A x : Count(s, x) = Count(t, x)
  PROVE  BagOf(s) = BagOf(t)
<1>1. ToSet(s) = ToSet(t)
  <2>1. \A x : x \in ToSet(s) <=> x \in ToSet(t)
    <3> TAKE x
    <3>1. Count(s, x) = Count(t, x) OBVIOUS
    <3> QED BY <3>1, CountIs
  <2> QED BY <2>1
<1>2. [x \in ToSet(s) |-> Count(s, x)] = [x \in ToSet(t) |-> Count(t, x)] BY <1>1
<1> QED BY <1>2, BagIs

\* t has what s has and one of each member of T besides.
LEMMA BagPlus ==
  ASSUME NEW s \in Seq(Int), NEW t \in Seq(Int), NEW T,
         \A x : Count(t, x) = Count(s, x) + (IF x \in T THEN 1 ELSE 0)
  PROVE  BagOf(t) = Plus(BagOf(s), Ones(T)) /\ BagOf(t) = Plus(Ones(T), BagOf(s))
<1>1. \A x : /\ Count(s, x) \in Nat /\ Count(t, x) \in Nat
             /\ Count(s, x) = 0 <=> x \notin ToSet(s)
             /\ Count(t, x) = 0 <=> x \notin ToSet(t)
  BY CountIs
<1>2. ToSet(t) = ToSet(s) \cup T
  <2>1. \A x : x \in ToSet(t) <=> x \in ToSet(s) \/ x \in T
    <3> TAKE x
    <3>1. Count(t, x) = Count(s, x) + (IF x \in T THEN 1 ELSE 0) OBVIOUS
    <3>2. Count(t, x) = 0 <=> Count(s, x) = 0 /\ x \notin T BY <1>1, <3>1, SMT
    <3> QED BY <1>1, <3>2
  <2> QED BY <2>1
<1>3. ASSUME NEW x \in ToSet(t)
      PROVE  /\ Count(t, x) = (IF x \in ToSet(s) THEN Count(s, x) ELSE 0) + (IF x \in T THEN 1 ELSE 0)
             /\ Count(t, x) = (IF x \in T THEN 1 ELSE 0) + (IF x \in ToSet(s) THEN Count(s, x) ELSE 0)
  <2>1. Count(t, x) = Count(s, x) + (IF x \in T THEN 1 ELSE 0) OBVIOUS
  <2> QED BY <1>1, <2>1, SMT
<1>4. DOMAIN Ones(T) = T /\ \A x \in T : Ones(T)[x] = 1 BY DEF Ones
<1>5. /\ DOMAIN BagOf(s) = ToSet(s) /\ \A x \in ToSet(s) : BagOf(s)[x] = Count(s, x)
      /\ BagOf(t) = [x \in ToSet(t) |-> Count(t, x)]
  BY BagIs
<1>6. BagOf(t) = [x \in ToSet(t) |->
         (IF x \in ToSet(s) THEN Count(s, x) ELSE 0) + (IF x \in T THEN 1 ELSE 0)]
  BY <1>3, <1>5
<1>7. BagOf(t) = [x \in ToSet(t) |->
         (IF x \in T THEN 1 ELSE 0) + (IF x \in ToSet(s) THEN Count(s, x) ELSE 0)]
  BY <1>3, <1>5
<1>8. Plus(BagOf(s), Ones(T)) = [x \in ToSet(t) |->
         (IF x \in ToSet(s) THEN Count(s, x) ELSE 0) + (IF x \in T THEN 1 ELSE 0)]
  <2>1. Plus(BagOf(s), Ones(T)) = [x \in ToSet(t) |->
         (IF x \in ToSet(s) THEN BagOf(s)[x] ELSE 0) + (IF x \in T THEN Ones(T)[x] ELSE 0)]
    BY <1>2, <1>4, <1>5, Zenon DEF Plus
  <2> QED BY <1>4, <1>5, <2>1
<1>9. Plus(Ones(T), BagOf(s)) = [x \in ToSet(t) |->
         (IF x \in T THEN 1 ELSE 0) + (IF x \in ToSet(s) THEN Count(s, x) ELSE 0)]
  <2>1. T \cup ToSet(s) = ToSet(t) BY <1>2
  <2>2. Plus(Ones(T), BagOf(s)) = [x \in ToSet(t) |->
         (IF x \in T THEN Ones(T)[x] ELSE 0) + (IF x \in ToSet(s) THEN BagOf(s)[x] ELSE 0)]
    BY <1>4, <1>5, <2>1, Zenon DEF Plus
  <2> QED BY <1>4, <1>5, <2>2
<1> QED BY <1>6, <1>7, <1>8, <1>9

-----------------------------------------------------------------------------

\* The degree of a node that a rank reports is the number of neighbours its
\* iterator returns, on any stack of levels that checkpoints and merges
\* make, though each level works the degree out from the entry of the level
\* below and the iterator follows the continuations (ll_mlcsr_sp.h:1496-1518).
THEOREM DegreesExact == Spec => []DegreesCount
<1>1. ASSUME DataInv PROVE DegreesCount
  <2> SUFFICES ASSUME NEW r \in Ranks, NEW v \in 0 .. nextNode - 1
               PROVE  OutDegree(r, v) = Len(Neighbours(r, v))
    BY DEF DegreesCount
  <2>0. IInv /\ Sound BY <1>1 DEF DataInv
  <2> DEFINE L == levels[r]
             own == Reverse(new[r][v])
             c == Content(L, v)
  <2>1. WellFormed(L) /\ Len(L) >= 1 /\ v \in Nodes /\ v \in Nat
    BY <2>0, StateTypes, ConstantTypes DEF Sound
  <2>2. /\ c \in Seq(Int)
        /\ v < Latest(L).size => Len(c) = RoDegree(L, v)
        /\ (IF NodeExists(L, v) THEN RoNeighbours(L, v) ELSE <<>>) = c
    BY <2>1, ContentIs
  <2>3. new[r][v] \in Seq(Int) BY <2>0, <2>1, StateTypes
  <2>4. own \in Seq(Int) /\ Len(own) = Len(new[r][v]) BY <2>3, CountReverse
  <2>5. Neighbours(r, v) = own \o c BY <2>2 DEF Neighbours
  <2>6. Len(c) = IF NodeExists(L, v) THEN RoDegree(L, v) ELSE 0
    <3>1. CASE NodeExists(L, v) BY <2>2, <3>1 DEF NodeExists
    <3>2. CASE ~ NodeExists(L, v)
      <4>1. c = <<>> BY <2>2, <3>2
      <4>2. Len(<<>>) = 0 BY SMT
      <4> QED BY <3>2, <4>1, <4>2
    <3> QED BY <3>1, <3>2
  <2> HIDE DEF own, c
  <2>7. Len(own \o c) = Len(own) + Len(c) BY <2>2, <2>4, ConcatProperties
  <2> QED BY <2>4, <2>5, <2>6, <2>7 DEF OutDegree
<1> QED BY <1>1, DataInvariance, PTL

\* Level 0 of each rank.
BasesFit == \A r \in Ranks : LevelFits(levels[r][1])

LEMMA BasesFitStep == DataInv /\ BasesFit /\ [Next]_vars => BasesFit'
<1> SUFFICES ASSUME DataInv, BasesFit, [Next]_vars PROVE BasesFit' OBVIOUS
<1>1. CASE levels' = levels BY <1>1 DEF BasesFit
<1>2. ASSUME NEW r \in Ranks, Checkpoint(r) PROVE BasesFit'
  <2>1. \A q \in Ranks : levels'[q][1] = levels[q][1] BY <1>2, CheckpointLevels
  <2> QED BY <2>1 DEF BasesFit
<1>3. CASE Merge BY <1>3, MergeLevels DEF BasesFit
<1>4. CASE AddNode BY <1>1, <1>4 DEF AddNode, saveVars
<1>5. CASE \E r \in Ranks, s \in Sources, t \in Targets : AddEdge(r, s, t)
  BY <1>1, <1>5 DEF AddEdge, saveVars
<1>6. CASE UNCHANGED vars BY <1>1, <1>6 DEF vars, saveVars
<1> QED BY <1>2, <1>3, <1>4, <1>5, <1>6 DEF Next

\* No level has more cells than its edge table was given, whether it was
\* loaded, made by a checkpoint or written by a merge (ll_mlcsr_sp.h:687).
THEOREM AllTablesFit == Spec => []TablesFit
<1>1. Init => BasesFit BY LoadedLevel DEF BasesFit
<1>2. Spec => [](DataInv /\ BasesFit /\ MadeLevelsFit)
  <2>1. Init => DataInv /\ BasesFit /\ MadeLevelsFit BY <1>1, InitDataInv, MadeLevelsInit
  <2>2. DataInv /\ BasesFit /\ MadeLevelsFit /\ [Next]_vars => (DataInv /\ BasesFit /\ MadeLevelsFit)'
    BY NextDataInv, BasesFitStep, MadeLevelsStep DEF DataInv
  <2> QED BY <2>1, <2>2, PTL DEF Spec
<1>3. ASSUME DataInv, BasesFit, MadeLevelsFit PROVE TablesFit
  <2> SUFFICES ASSUME NEW r \in Ranks, NEW k \in DOMAIN levels[r]
               PROVE  LevelFits(levels[r][k])
    BY DEF TablesFit, LevelFits
  <2>1. Len(levels[r]) \in Nat /\ DOMAIN levels[r] = 1 .. Len(levels[r])
    BY <1>3, StackDomain DEF DataInv, Sound, WellFormed
  <2>2. k = 1 \/ k \in 2 .. Len(levels[r]) BY <2>1, SMT
  <2> QED BY <1>3, <2>2 DEF BasesFit, MadeLevelsFit
<1> QED BY <1>2, <1>3, PTL

-----------------------------------------------------------------------------
(***************************************************************************)
(* The shared graph in the terms used here: the operators on bags have     *)
(* other names in an instance than in the module that makes it, Plus and   *)
(* Ones are those that both stand for.                                     *)
(***************************************************************************)

\* What each rank sees, the part of it that it has not saved, and what it
\* has saved (SharedGraphRefinement).
Seen == [r \in Ranks |-> [s \in Nodes |-> BagOf(Neighbours(r, s))]]
Unsaved == [r \in Ranks |-> [s \in Nodes |-> BagOf(new[r][s])]]
NoBags == [s \in Nodes |-> Ones({})]
OldTargets(r, s) ==
  {x \in DOMAIN Seen[r][s] : (IF x \in DOMAIN Unsaved[r][s] THEN Seen[r][s][x] - Unsaved[r][s][x] ELSE Seen[r][s][x]) > 0}

LEMMA SharedAddEdge ==
  ASSUME NEW r, NEW s, NEW t
  PROVE Shared!AddEdge(r, s, t) <=>
    /\ s < nextNode /\ t < nextNode
    /\ Unsaved' = [Unsaved EXCEPT ![r][s] = Plus(@, Ones({t}))]
    /\ Seen' = [Seen EXCEPT ![r][s] = Plus(@, Ones({t}))]
    /\ UNCHANGED nextNode
BY Zenon DEF Shared!AddEdge, Shared!(+), (+), Shared!SetToBag, SetToBag, Plus, Ones, Unsaved, Seen

LEMMA SharedSave ==
  ASSUME NEW r
  PROVE Shared!Save(r) <=>
    /\ Unsaved' = [Unsaved EXCEPT ![r] = NoBags]
    /\ UNCHANGED nextNode /\ Seen' = Seen
BY Zenon DEF Shared!Save, Shared!None, Shared!EmptyBag, EmptyBag, Shared!SetToBag, SetToBag, NoBags, Ones, Unsaved, Seen

LEMMA SharedInit ==
  Shared!Init <=>
    /\ nextNode \in Nat
    /\ \A r, q \in Ranks : Seen[r] = Seen[q]
    /\ \A r \in Ranks : DOMAIN Seen[r] = Nodes /\ \A s \in Nodes : Seen[r][s] \in [DOMAIN Seen[r][s] -> {n \in Nat : n > 0}]
    /\ Unsaved = [r \in Ranks |-> NoBags]
BY Zenon DEF Shared!Init, Shared!None, Shared!EmptyBag, EmptyBag, Shared!SetToBag, SetToBag, NoBags, Ones, Unsaved, Seen, Shared!IsABag, IsABag

LEMMA SharedSaved ==
  ASSUME NEW r, NEW s
  PROVE Shared!Saved(r, s) = OldTargets(r, s)
BY Zenon DEF Shared!Saved, Shared!(-), (-), Shared!BagToSet, BagToSet, OldTargets, Unsaved, Seen

LEMMA SharedMerge ==
  Shared!Merge <=>
    /\ Seen' = [r \in Ranks |-> [s \in Nodes |->
          Plus(Ones(UNION {OldTargets(q, s) : q \in Ranks}), Unsaved[r][s])]]
    /\ UNCHANGED nextNode /\ Unsaved' = Unsaved
<1> DEFINE A(x) == UNION {Shared!Saved(q, x) : q \in Ranks}
           B(x) == UNION {OldTargets(q, x) : q \in Ranks}
<1>1. Shared!Merge <=>
        /\ Seen' = [r \in Ranks |-> [s \in Nodes |-> Plus(Ones(A(s)), Unsaved[r][s])]]
        /\ UNCHANGED nextNode /\ Unsaved' = Unsaved
  BY Zenon DEF Shared!Merge, Shared!(+), (+), Shared!SetToBag, SetToBag, Plus, Ones, Unsaved, Seen
<1>2. \A x : A(x) = B(x) BY SharedSaved
<1> HIDE DEF A, B
<1>3. [r \in Ranks |-> [s \in Nodes |-> Plus(Ones(A(s)), Unsaved[r][s])]] =
      [r \in Ranks |-> [s \in Nodes |-> Plus(Ones(B(s)), Unsaved[r][s])]]
  BY <1>2
<1> QED BY <1>1, <1>3 DEF B

LEMMA SharedAddNode ==
  Shared!AddNode <=> nextNode' = nextNode + 1 /\ Seen' = Seen /\ Unsaved' = Unsaved
BY Zenon DEF Shared!AddNode, Seen, Unsaved

(***************************************************************************)
(* What a reader gets.                                                     *)
(***************************************************************************)

\* The neighbours of v with the levels L and the new edges own.
Read(L, own, v) ==
    Reverse(own) \o (IF NodeExists(L, v) THEN RoNeighbours(L, v) ELSE <<>>)

LEMMA ReadIs ==
  ASSUME NEW L, WellFormed(L), Len(L) >= 1, NEW own \in Seq(Int), NEW v \in Nat
  PROVE  /\ Read(L, own, v) \in Seq(Int)
         /\ \A x : Count(Read(L, own, v), x) = Count(own, x) + Count(Content(L, v), x)
<1> DEFINE c == Content(L, v)
           a == Reverse(own)
<1>1. c \in Seq(Int) /\ Read(L, own, v) = a \o c BY ContentIs DEF Read
<1>2. a \in Seq(Int) /\ \A x : Count(a, x) = Count(own, x) BY CountReverse
<1> HIDE DEF a, c
<1>3. a \o c \in Seq(Int) /\ \A x : Count(a \o c, x) = Count(a, x) + Count(c, x)
  BY <1>1, <1>2, ConcatProperties, CountConcat
<1> QED BY <1>1, <1>2, <1>3 DEF c

\* A table has something for each rank and node.
Tabled(F) == F = [r \in Ranks |-> [s \in Nodes |-> F[r][s]]]

LEMMA TablesEqual ==
  ASSUME NEW F, NEW G, Tabled(F), Tabled(G), \A r \in Ranks : \A s \in Nodes : F[r][s] = G[r][s]
  PROVE  F = G
BY DEF Tabled

\* One entry of a table is changed, or one row.
LEMMA EntryChanged ==
  ASSUME NEW F, NEW G, Tabled(F), Tabled(G), NEW r \in Ranks, NEW s \in Nodes,
         \A q \in Ranks : \A v \in Nodes : q # r \/ v # s => G[q][v] = F[q][v]
  PROVE  G = [F EXCEPT ![r][s] = G[r][s]]
<1> DEFINE H == [F EXCEPT ![r][s] = G[r][s]]
<1>1. DOMAIN F = Ranks /\ \A q \in Ranks : F[q] = [v \in Nodes |-> F[q][v]] BY DEF Tabled
<1>2. G = [q \in Ranks |-> [v \in Nodes |-> G[q][v]]] BY DEF Tabled
<1>3. H = [q \in Ranks |-> IF q = r THEN [F[r] EXCEPT ![s] = G[r][s]] ELSE F[q]] BY <1>1
<1>4. [F[r] EXCEPT ![s] = G[r][s]] = [v \in Nodes |-> G[r][v]] BY <1>1
<1>5. \A q \in Ranks : q # r => F[q] = [v \in Nodes |-> G[q][v]] BY <1>1
<1> HIDE DEF H
<1>6. H = [q \in Ranks |-> [v \in Nodes |-> G[q][v]]] BY <1>3, <1>4, <1>5
<1> QED BY <1>2, <1>6 DEF H

LEMMA RowChanged ==
  ASSUME NEW F, NEW G, Tabled(F), Tabled(G), NEW r \in Ranks,
         \A q \in Ranks : \A v \in Nodes : q # r => G[q][v] = F[q][v]
  PROVE  G = [F EXCEPT ![r] = [v \in Nodes |-> G[r][v]]]
<1>1. DOMAIN F = Ranks /\ \A q \in Ranks : F[q] = [v \in Nodes |-> F[q][v]] BY DEF Tabled
<1>2. G = [q \in Ranks |-> [v \in Nodes |-> G[q][v]]] BY DEF Tabled
<1>3. \A q \in Ranks : q # r => F[q] = [v \in Nodes |-> G[q][v]] BY <1>1
<1> QED BY <1>1, <1>2, <1>3

LEMMA SeenAre ==
  /\ \A r \in Ranks : \A s \in Nodes :
        Seen[r][s] = BagOf(Read(levels[r], new[r][s], s)) /\ Unsaved[r][s] = BagOf(new[r][s])
  /\ Tabled(Seen) /\ Tabled(Unsaved)
BY DEF Seen, Unsaved, Neighbours, Read, Tabled

LEMMA SeenAreNext ==
  /\ \A r \in Ranks : \A s \in Nodes :
        Seen'[r][s] = BagOf(Read(levels'[r], new'[r][s], s)) /\ Unsaved'[r][s] = BagOf(new'[r][s])
  /\ Tabled(Seen') /\ Tabled(Unsaved')
BY DEF Seen, Unsaved, Neighbours, Read, Tabled

\* The lists that the state holds.
LEMMA ListsAre ==
  ASSUME DataInv, NEW r \in Ranks, NEW s \in Nodes
  PROVE  /\ WellFormed(levels[r]) /\ Len(levels[r]) >= 1 /\ s \in Nat
         /\ new[r][s] \in Seq(Int) /\ Content(levels[r], s) \in Seq(Int)
<1>1. IInv /\ Sound BY DEF DataInv
<1>2. /\ WellFormed(levels[r]) /\ Len(levels[r]) >= 1 /\ s \in Nat /\ new[r][s] \in Seq(Int)
  BY <1>1, StateTypes, ConstantTypes DEF Sound
<1> QED BY <1>2, ContentIs

\* ListsAre for all ranks, now and in the next state.
Listed == \A r \in Ranks : \A s \in Nodes :
    /\ WellFormed(levels[r]) /\ Len(levels[r]) >= 1 /\ s \in Nat
    /\ new[r][s] \in Seq(Int) /\ Content(levels[r], s) \in Seq(Int)

LEMMA ListedAlways == DataInv => Listed
BY ListsAre DEF Listed

LEMMA ListedNext ==
  ASSUME DataInv'
  PROVE  \A r \in Ranks : \A s \in Nodes :
           /\ WellFormed(levels'[r]) /\ Len(levels'[r]) >= 1 /\ s \in Nat
           /\ new'[r][s] \in Seq(Int) /\ Content(levels'[r], s) \in Seq(Int)
<1>1. DataInv' => Listed' BY ListedAlways, PTL
<1> QED BY <1>1 DEF Listed

\* All ranks see the loaded graph at first.
LEMMA SharesAtFirst == Init => Shared!Init
<1> SUFFICES ASSUME Init PROVE Shared!Init OBVIOUS
<1>1. DataInv BY InitDataInv
<1>2. nextNode \in Nat BY ConstantTypes DEF Init
<1>3. \A r, q \in Ranks : Seen[r] = Seen[q]
  <2> TAKE r, q \in Ranks
  <2>1. levels[r] = levels[q] /\ new[r] = new[q] BY DEF Init
  <2> QED BY <2>1, Zenon DEF Seen, Neighbours
<1>4. ASSUME NEW r \in Ranks, NEW s \in Nodes
      PROVE  Seen[r][s] \in [DOMAIN Seen[r][s] -> {n \in Nat : n > 0}]
  <2> DEFINE t == Read(levels[r], new[r][s], s)
  <2>1. t \in Seq(Int) BY <1>1, ListsAre, ReadIs
  <2>2. Seen[r][s] = BagOf(t) BY SeenAre
  <2> HIDE DEF t
  <2>3. BagOf(t) = [x \in ToSet(t) |-> Count(t, x)] BY BagIs
  <2>4. \A x \in ToSet(t) : Count(t, x) \in {n \in Nat : n > 0}
    <3> TAKE x \in ToSet(t)
    <3>1. Count(t, x) \in Nat /\ Count(t, x) # 0 BY <2>1, CountIs
    <3> QED BY <3>1, SMT
  <2>5. BagOf(t) \in [ToSet(t) -> {n \in Nat : n > 0}] BY <2>3, <2>4
  <2> QED BY <2>2, <2>3, <2>5
<1>5. Unsaved = [r \in Ranks |-> NoBags]
  <2>1. BagOf(<<>>) = Ones({}) BY BagIs, ToSetEmpty DEF Ones
  <2>2. \A r \in Ranks : \A s \in Nodes : new[r][s] = <<>> BY DEF Init, NoEdges
  <2> QED BY <2>1, <2>2 DEF Unsaved, NoBags
<1>6. \A r \in Ranks : DOMAIN Seen[r] = Nodes BY DEF Seen
<1> QED BY <1>2, <1>3, <1>4, <1>5, <1>6, SharedInit

LEMMA SharesAddNode == AddNode => Shared!AddNode
<1> SUFFICES ASSUME AddNode PROVE Shared!AddNode OBVIOUS
<1>1. nextNode' = nextNode + 1 /\ new' = new /\ levels' = levels BY DEF AddNode
<1>2. Seen' = Seen /\ Unsaved' = Unsaved BY <1>1 DEF Seen, Unsaved, Neighbours
<1> QED BY <1>1, <1>2, SharedAddNode

LEMMA SharesAddEdge ==
  ASSUME NEW r \in Ranks, NEW s \in Sources, NEW t \in Targets, DataInv, AddEdge(r, s, t)
  PROVE  Shared!AddEdge(r, s, t)
<1>1. /\ s < nextNode /\ t < nextNode /\ nextNode' = nextNode /\ levels' = levels
      /\ s \in Nodes /\ t \in Nodes /\ t \in Int
  BY ConstantTypes, SMT DEF AddEdge
<1>2. /\ new'[r][s] = Append(new[r][s], t)
      /\ \A q \in Ranks, v \in Nodes : q # r \/ v # s => new'[q][v] = new[q][v]
  BY <1>1 DEF AddEdge, DataInv, IInv, TypeOK
<1> DEFINE a == new[r][s]
           b == Append(a, t)
           L == levels[r]
<1>3. WellFormed(L) /\ Len(L) >= 1 /\ s \in Nat /\ a \in Seq(Int) BY <1>1, ListsAre
<1>4. b \in Seq(Int) BY <1>1, <1>3, AppendProperties
<1>5. \A x : Count(b, x) = Count(a, x) + (IF x \in {t} THEN 1 ELSE 0) BY <1>1, <1>3, CountAppended
<1>6. BagOf(b) = Plus(BagOf(a), Ones({t}))
  <2> HIDE DEF a, b
  <2> QED BY <1>3, <1>4, <1>5, BagPlus
<1>7. BagOf(Read(L, b, s)) = Plus(BagOf(Read(L, a, s)), Ones({t}))
  <2> DEFINE c == Content(L, s)
             y == Read(L, a, s)
             z == Read(L, b, s)
  <2> HIDE DEF a, b, L
  <2>1. /\ y \in Seq(Int) /\ \A x : Count(y, x) = Count(a, x) + Count(c, x)
        /\ z \in Seq(Int) /\ \A x : Count(z, x) = Count(b, x) + Count(c, x)
    BY <1>3, <1>4, ReadIs
  <2>2. c \in Seq(Int) BY <1>3, ContentIs
  <2> HIDE DEF c, y, z
  <2>3. ASSUME NEW x PROVE Count(z, x) = Count(y, x) + (IF x \in {t} THEN 1 ELSE 0)
    <3>1. Count(a, x) \in Nat /\ Count(c, x) \in Nat BY <1>3, <2>2, CountIs
    <3>2. /\ Count(y, x) = Count(a, x) + Count(c, x) /\ Count(z, x) = Count(b, x) + Count(c, x)
          /\ Count(b, x) = Count(a, x) + (IF x \in {t} THEN 1 ELSE 0)
      BY <1>5, <2>1
    <3> QED BY <3>1, <3>2, SMT
  <2>4. BagOf(z) = Plus(BagOf(y), Ones({t})) BY <2>1, <2>3, BagPlus
  <2> QED BY <2>4 DEF y, z
<1> HIDE DEF b
<1>8. /\ Unsaved'[r][s] = Plus(Unsaved[r][s], Ones({t}))
      /\ Seen'[r][s] = Plus(Seen[r][s], Ones({t}))
  <2>1. /\ Unsaved'[r][s] = BagOf(b) /\ Unsaved[r][s] = BagOf(a)
        /\ Seen'[r][s] = BagOf(Read(levels'[r], b, s)) /\ Seen[r][s] = BagOf(Read(L, a, s))
    BY <1>1, <1>2, SeenAre, SeenAreNext DEF b
  <2>2. levels'[r] = L BY <1>1
  <2> HIDE DEF a, L
  <2> QED BY <1>6, <1>7, <2>1, <2>2
<1>9. \A q \in Ranks, v \in Nodes : q # r \/ v # s =>
        Unsaved'[q][v] = Unsaved[q][v] /\ Seen'[q][v] = Seen[q][v]
  BY <1>1, <1>2, SeenAre, SeenAreNext
<1>10. Unsaved' = [Unsaved EXCEPT ![r][s] = Plus(@, Ones({t}))]
  <2>1. Unsaved' = [Unsaved EXCEPT ![r][s] = Unsaved'[r][s]]
    BY <1>1, <1>9, EntryChanged, SeenAre, SeenAreNext
  <2> QED BY <1>8, <2>1
<1>11. Seen' = [Seen EXCEPT ![r][s] = Plus(@, Ones({t}))]
  <2>1. Seen' = [Seen EXCEPT ![r][s] = Seen'[r][s]]
    BY <1>1, <1>9, EntryChanged, SeenAre, SeenAreNext
  <2> QED BY <1>8, <2>1
<1> QED BY <1>1, <1>10, <1>11, SharedAddEdge

\* A checkpoint moves edges from one place to another that readers look at.
LEMMA SharesCheckpoint ==
  ASSUME NEW r \in Ranks, DataInv, DataInv', Checkpoint(r)
  PROVE  Shared!Save(r)
<1>1. /\ nextNode' = nextNode /\ new' = [new EXCEPT ![r] = NoEdges]
      /\ DOMAIN new = Ranks
  BY DEF Checkpoint, DataInv, IInv, TypeOK
<1>2. \A v \in Nodes : NoEdges[v] = <<>> BY DEF NoEdges
<1>3. BagOf(<<>>) = Ones({}) BY BagIs, ToSetEmpty DEF Ones
<1>4. Unsaved' = [Unsaved EXCEPT ![r] = NoBags]
  <2>1. \A v \in Nodes : Unsaved'[r][v] = Ones({}) BY <1>1, <1>2, <1>3, SeenAreNext
  <2>2. \A q \in Ranks, v \in Nodes : q # r => Unsaved'[q][v] = Unsaved[q][v]
    BY <1>1, SeenAre, SeenAreNext
  <2>3. Unsaved' = [Unsaved EXCEPT ![r] = [v \in Nodes |-> Unsaved'[r][v]]]
    BY <2>2, RowChanged, SeenAre, SeenAreNext
  <2>4. [v \in Nodes |-> Unsaved'[r][v]] = NoBags BY <2>1 DEF NoBags
  <2> QED BY <2>3, <2>4
<1>5. ASSUME NEW q \in Ranks, NEW v \in Nodes PROVE Seen'[q][v] = Seen[q][v]
  <2> DEFINE a == new[q][v]
             b == new'[q][v]
             L == levels[q]
             M == levels'[q]
             y == Read(L, a, v)
             z == Read(M, b, v)
  <2>1. WellFormed(L) /\ Len(L) >= 1 /\ v \in Nat /\ a \in Seq(Int) /\ Content(L, v) \in Seq(Int)
    BY ListsAre
  <2>2. WellFormed(M) /\ Len(M) >= 1 /\ b \in Seq(Int) BY ListedNext
  <2>3. /\ y \in Seq(Int) /\ \A x : Count(y, x) = Count(a, x) + Count(Content(L, v), x)
        /\ z \in Seq(Int) /\ \A x : Count(z, x) = Count(b, x) + Count(Content(M, v), x)
    BY <2>1, <2>2, ReadIs
  <2>4. ASSUME NEW x PROVE Count(z, x) = Count(y, x)
    <3>1. Count(z, x) = Count(b, x) + Count(Content(M, v), x)
          /\ Count(y, x) = Count(a, x) + Count(Content(L, v), x)
      BY <2>3
    <3>2. CASE q = r
      <4>1. Content(M, v) = a \o Content(L, v) BY <3>2, CheckpointLevels
      <4>2. b = <<>> BY <1>1, <1>2, <3>2
      <4>3. Count(b, x) = 0 BY <2>2, <4>2, CountIs, ToSetEmpty
      <4> DEFINE c == Content(L, v)
      <4>4. Count(a \o c, x) = Count(a, x) + Count(c, x)
        <5> HIDE DEF a, c
        <5>1. a \in Seq(Int) /\ c \in Seq(Int) BY <2>1 DEF c
        <5> QED BY <5>1, CountConcat
      <4>5. Count(a, x) \in Nat /\ Count(c, x) \in Nat BY <2>1, CountIs
      <4>6. Count(z, x) = 0 + (Count(a, x) + Count(c, x)) BY <3>1, <4>1, <4>3, <4>4
      <4> HIDE DEF a, c, y, z
      <4>7. 0 + (Count(a, x) + Count(c, x)) = Count(a, x) + Count(c, x) BY <4>5, SMT
      <4> QED BY <3>1, <4>6, <4>7 DEF c
    <3>3. CASE q # r
      <4>1. Content(M, v) = Content(L, v) /\ b = a BY <1>1, <3>3, CheckpointLevels
      <4> QED BY <3>1, <4>1
    <3> QED BY <3>2, <3>3
  <2> HIDE DEF y, z
  <2>5. BagOf(z) = BagOf(y) BY <2>3, <2>4, BagsEqual
  <2> QED BY <2>5, SeenAre, SeenAreNext DEF y, z
<1>6. Seen' = Seen
  BY <1>5, TablesEqual, SeenAre, SeenAreNext
<1> QED BY <1>1, <1>4, <1>6, SharedSave

\* The edges that a rank has saved are those in its read-only graph.
LEMMA OldTargetsAre ==
  ASSUME DataInv, NEW q \in Ranks, NEW s \in Nodes
  PROVE  OldTargets(q, s) = ToSet(Content(levels[q], s))
<1> DEFINE a == new[q][s]
           c == Content(levels[q], s)
           y == Read(levels[q], a, s)
<1>1. a \in Seq(Int) /\ c \in Seq(Int) BY ListsAre
<1>2. y \in Seq(Int) /\ \A x : Count(y, x) = Count(a, x) + Count(c, x) BY ListsAre, ReadIs
<1>3. Seen[q][s] = BagOf(y) /\ Unsaved[q][s] = BagOf(a) BY SeenAre
<1> HIDE DEF a, c, y
<1>4. \A x : /\ Count(a, x) \in Nat /\ (Count(a, x) = 0 <=> x \notin ToSet(a))
             /\ Count(c, x) \in Nat /\ (Count(c, x) = 0 <=> x \notin ToSet(c))
             /\ Count(y, x) = 0 <=> x \notin ToSet(y)
  BY <1>1, <1>2, CountIs
<1>5. /\ DOMAIN BagOf(y) = ToSet(y) /\ \A x \in ToSet(y) : BagOf(y)[x] = Count(y, x)
      /\ DOMAIN BagOf(a) = ToSet(a) /\ \A x \in ToSet(a) : BagOf(a)[x] = Count(a, x)
  BY BagIs
<1> DEFINE Left(x) == IF x \in ToSet(a) THEN Count(y, x) - Count(a, x) ELSE Count(y, x)
<1>6. ASSUME NEW x PROVE (x \in ToSet(y) /\ Left(x) > 0) <=> x \in ToSet(c)
  <2>1. Count(y, x) = Count(a, x) + Count(c, x) BY <1>2
  <2>2. Left(x) = Count(c, x)
    <3>1. CASE x \in ToSet(a) BY <1>4, <2>1, <3>1, SMT
    <3>2. CASE x \notin ToSet(a)
      <4>1. Count(a, x) = 0 BY <1>4, <3>2
      <4> QED BY <1>4, <2>1, <3>2, <4>1, SMT
    <3> QED BY <3>1, <3>2
  <2> HIDE DEF Left
  <2>3. Count(c, x) > 0 <=> Count(c, x) # 0 BY <1>4, SMT
  <2>4. Count(c, x) # 0 => Count(y, x) # 0 BY <1>4, <2>1, SMT
  <2> QED BY <1>4, <2>2, <2>3, <2>4
<1>7. OldTargets(q, s) =
        {x \in ToSet(y) : (IF x \in ToSet(a) THEN BagOf(y)[x] - BagOf(a)[x] ELSE BagOf(y)[x]) > 0}
  BY <1>3, <1>5 DEF OldTargets
<1>8. \A x \in ToSet(y) :
        (IF x \in ToSet(a) THEN BagOf(y)[x] - BagOf(a)[x] ELSE BagOf(y)[x]) = Left(x)
  BY <1>5
<1>9. OldTargets(q, s) = {x \in ToSet(y) : Left(x) > 0} BY <1>7, <1>8
<1> HIDE DEF Left
<1>10. OldTargets(q, s) = ToSet(c) BY <1>6, <1>9
<1> QED BY <1>10 DEF c

\* After a merge every rank sees what the ranks had saved, each edge once,
\* and its own new edges.
LEMMA SharesMerge ==
  ASSUME Fresh, DataInv, DataInv', Merge
  PROVE  Shared!Merge
<1>1. nextNode' = nextNode /\ new' = new BY DEF Merge
<1>2. Unsaved' = Unsaved BY <1>1 DEF Unsaved
<1> DEFINE U(s) == UNION {OldTargets(q, s) : q \in Ranks}
           G == [r \in Ranks |-> [s \in Nodes |-> Plus(Ones(U(s)), Unsaved[r][s])]]
<1>3. ASSUME NEW r \in Ranks, NEW s \in Nodes
      PROVE  Seen'[r][s] = Plus(Ones(U(s)), Unsaved[r][s])
  <2> DEFINE a == new[r][s]
             M == levels'[r]
             c == Content(M, s)
             z == Read(M, a, s)
  <2>1. WellFormed(M) /\ Len(M) >= 1 /\ s \in Nat /\ a \in Seq(Int) /\ c \in Seq(Int)
    BY <1>1, ListedNext
  <2>2. z \in Seq(Int) /\ \A x : Count(z, x) = Count(a, x) + Count(c, x) BY <2>1, ReadIs
  <2>3. Once(c) /\ ToSet(c) = UNION {ToSet(Content(levels[q], s)) : q \in Ranks} BY MergeLevels
  <2>4. ToSet(c) = U(s) BY <2>3, OldTargetsAre
  <2>5. Seen'[r][s] = BagOf(z) /\ Unsaved[r][s] = BagOf(a) BY <1>1, SeenAre, SeenAreNext
  <2> DEFINE T == U(s)
  <2>6. ToSet(c) = T BY <2>4
  <2> HIDE DEF a, c, z, T
  <2>7. \A x : Count(c, x) = IF x \in T THEN 1 ELSE 0 BY <2>1, <2>3, <2>6, CountOnce
  <2>8. \A x : Count(z, x) = Count(a, x) + (IF x \in T THEN 1 ELSE 0) BY <2>2, <2>7
  <2>9. BagOf(z) = Plus(Ones(T), BagOf(a)) BY <2>1, <2>2, <2>8, BagPlus
  <2> QED BY <2>5, <2>9 DEF T
<1> HIDE DEF U
<1>4. \A r \in Ranks : \A s \in Nodes : G[r][s] = Plus(Ones(U(s)), Unsaved[r][s]) OBVIOUS
<1>5. Tabled(G) BY <1>4 DEF Tabled
<1> HIDE DEF G
<1>6. Seen' = G BY <1>3, <1>4, <1>5, TablesEqual, SeenAreNext
<1> QED BY <1>1, <1>2, <1>6, SharedMerge DEF G, U

\* The levels, pages and edge tables of any number of ranks implement the
\* shared graph: no edge is lost, doubled or seen before its merge, for every
\* loaded graph and however additions, checkpoints and merges follow each
\* other, if no rank that has made a checkpoint merges twice without another
\* (ll_writable_graph.h:1967-2030, snapshot_merger.cpp:136-140, 372-443).
THEOREM ImplementsGraph ==
  ASSUME Fresh
  PROVE  Spec => ImplementsSharedGraph
<1>1. Init => Shared!Init BY SharesAtFirst
<1>2. ASSUME DataInv, DataInv', [Next]_vars PROVE [Shared!Next]_(Shared!vars)
  <2>1. CASE AddNode
    <3>1. Shared!AddNode BY <2>1, SharesAddNode
    <3> QED BY <3>1 DEF Shared!Next
  <2>2. ASSUME NEW r \in Ranks, NEW s \in Sources, NEW t \in Targets, AddEdge(r, s, t)
        PROVE  Shared!Next
    <3>1. Shared!AddEdge(r, s, t) BY <1>2, <2>2, SharesAddEdge
    <3>2. s \in Nodes /\ t \in Nodes BY ConstantTypes
    <3> QED BY <3>1, <3>2 DEF Shared!Next
  <2>3. ASSUME NEW r \in Ranks, Checkpoint(r) PROVE Shared!Next
    <3>1. Shared!Save(r) BY <1>2, <2>3, SharesCheckpoint
    <3> QED BY <3>1 DEF Shared!Next
  <2>4. CASE Merge
    <3>1. Shared!Merge BY <1>2, <2>4, SharesMerge
    <3> QED BY <3>1 DEF Shared!Next
  <2>5. CASE UNCHANGED vars
    <3>1. nextNode' = nextNode /\ new' = new /\ levels' = levels BY <2>5 DEF vars
    <3>2. Seen' = Seen /\ Unsaved' = Unsaved BY <3>1 DEF Seen, Unsaved, Neighbours
    <3>3. UNCHANGED Shared!vars BY <3>1, <3>2 DEF Shared!vars, Seen, Unsaved
    <3> QED BY <3>3
  <2> QED BY <1>2, <2>1, <2>2, <2>3, <2>4, <2>5 DEF Next
<1>3. Spec => Shared!Spec BY <1>1, <1>2, DataInvariance, PTL DEF Spec, Shared!Spec
<1> QED BY <1>3 DEF ImplementsSharedGraph
=============================================================================
