---------------------------- MODULE SharedGraph ----------------------------
(***************************************************************************)
(* What the store of dllama promises its users: a graph that many ranks    *)
(* add to.  An edge is seen by its rank at once, and by all ranks after a  *)
(* merge if its rank has saved it.  The same edge may be added several     *)
(* times, until a merge makes one of them.                                 *)
(***************************************************************************)
EXTENDS Integers, Bags

CONSTANTS Ranks, Nodes

VARIABLES
    nodes,   \* how many nodes there are
    seen,    \* seen[r][s]: the bag of the targets of s at rank r
    fresh    \* fresh[r][s]: those rank r has not saved

vars == <<nodes, seen, fresh>>

None == [s \in Nodes |-> EmptyBag]

Init ==
    /\ nodes \in Nat
    /\ \A r, q \in Ranks : seen[r] = seen[q]
    /\ \A r \in Ranks : DOMAIN seen[r] = Nodes /\ \A s \in Nodes : IsABag(seen[r][s])
    /\ fresh = [r \in Ranks |-> None]

AddNode ==
    /\ nodes' = nodes + 1
    /\ UNCHANGED <<seen, fresh>>

AddEdge(r, s, t) ==
    /\ s < nodes /\ t < nodes
    /\ fresh' = [fresh EXCEPT ![r][s] = @ (+) SetToBag({t})]
    /\ seen' = [seen EXCEPT ![r][s] = @ (+) SetToBag({t})]
    /\ UNCHANGED nodes

Save(r) ==
    /\ fresh' = [fresh EXCEPT ![r] = None]
    /\ UNCHANGED <<nodes, seen>>

Saved(r, s) == BagToSet(seen[r][s] (-) fresh[r][s])

Merge ==
    /\ seen' = [r \in Ranks |-> [s \in Nodes |->
                   SetToBag(UNION {Saved(q, s) : q \in Ranks}) (+) fresh[r][s]]]
    /\ UNCHANGED <<nodes, fresh>>

Next ==
    \/ AddNode
    \/ \E r \in Ranks, s, t \in Nodes : AddEdge(r, s, t)
    \/ \E r \in Ranks : Save(r)
    \/ Merge

Spec == Init /\ [][Next]_vars
=============================================================================
