-------------------------- MODULE NodeReservation --------------------------
(***************************************************************************)
(* What add_nodes promises, without messages, locks or threads: before a   *)
(* rank adds nodes it is granted a reservation over every other rank; the  *)
(* reservation over a rank ends when that rank is told to add the nodes    *)
(* too; and a rank is granted nothing while another holds a reservation    *)
(* over it or while it still owes nodes it was told to add.                *)
(***************************************************************************)
EXTENDS Integers

CONSTANTS Ranks, MaxNew, InitNodes

VARIABLES
    stage,  \* "out", "asking" or "granted"
    size,   \* nodes the rank asks for
    holds,  \* <<p, q>>: p holds a reservation over q
    own,    \* nodes the rank still has to add for its own call
    due,    \* due[p][q]: nodes q still has to add for p's call
    count   \* node counter of the rank's replica

vars == <<stage, size, holds, own, due, count>>

Init ==
    /\ stage = [r \in Ranks |-> "out"]
    /\ size = [r \in Ranks |-> 0]
    /\ holds = {}
    /\ own = [r \in Ranks |-> 0]
    /\ due = [p \in Ranks |-> [q \in Ranks |-> 0]]
    /\ count = [r \in Ranks |-> InitNodes]

Ask(p, n) ==
    /\ stage[p] = "out"
    /\ stage' = [stage EXCEPT ![p] = "asking"]
    /\ size' = [size EXCEPT ![p] = n]
    /\ UNCHANGED <<holds, own, due, count>>

Grant(p) ==
    /\ stage[p] = "asking"
    /\ \A q \in Ranks : <<q, p>> \notin holds /\ due[q][p] = 0
    /\ stage' = [stage EXCEPT ![p] = "granted"]
    /\ holds' = holds \cup ({p} \X (Ranks \ {p}))
    /\ own' = [own EXCEPT ![p] = size[p]]
    /\ UNCHANGED <<size, due, count>>

Tell(p, q) ==
    /\ <<p, q>> \in holds
    /\ due[p][q] = 0
    /\ holds' = holds \ {<<p, q>>}
    /\ due' = [due EXCEPT ![p][q] = size[p]]
    /\ UNCHANGED <<stage, size, own, count>>

AddOwn(p) ==
    /\ own[p] > 0
    /\ \A q \in Ranks : <<p, q>> \notin holds
    /\ own' = [own EXCEPT ![p] = @ - 1]
    /\ count' = [count EXCEPT ![p] = @ + 1]
    /\ UNCHANGED <<stage, size, holds, due>>

AddDue(p, q) ==
    /\ due[p][q] > 0
    /\ due' = [due EXCEPT ![p][q] = @ - 1]
    /\ count' = [count EXCEPT ![q] = @ + 1]
    /\ UNCHANGED <<stage, size, holds, own>>

Return(p) ==
    /\ stage[p] = "granted"
    /\ own[p] = 0
    /\ stage' = [stage EXCEPT ![p] = "out"]
    /\ UNCHANGED <<size, holds, own, due, count>>

Next ==
    \E p \in Ranks :
        \/ \E n \in 1 .. MaxNew : Ask(p, n)
        \/ Grant(p) \/ AddOwn(p) \/ Return(p)
        \/ \E q \in Ranks : Tell(p, q) \/ AddDue(p, q)

Spec == Init /\ [][Next]_vars
=============================================================================
