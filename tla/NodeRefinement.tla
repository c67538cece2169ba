--------------------------- MODULE NodeRefinement ---------------------------
(***************************************************************************)
(* The protocol of NodeAgreement carries out NodeReservation.              *)
(***************************************************************************)
EXTENDS NodeAgreement

\* The command from p that q has not carried out: in q's handler or on its way.
DueAt(p, q) ==
    LET s == net[p][q]
        coming == {i \in 1 .. Len(s) : s[i].tag = "NEW_NODE_COMMAND"}
    IN  IF lpc[q] = "force" /\ from[q] = p THEN lleft[q]
        ELSE IF coming # {} THEN s[CHOOSE i \in coming : TRUE].n
        ELSE 0

StageOf(r) ==
    CASE pc[r] = "idle" -> "out"
      [] pc[r] \in {"lock", "mark", "request", "await"} -> "asking"
      [] pc[r] \in {"command", "add", "ack"} -> "granted"

Reservation == INSTANCE NodeReservation WITH
    stage <- [r \in Ranks |-> StageOf(r)],
    size <- want,
    holds <- {h \in Ranks \X Ranks : HoldsOver(h[1], h[2])},
    own <- left,
    due <- [p \in Ranks |-> [q \in Ranks |-> DueAt(p, q)]],
    count <- maxNodes

\* Every step of the protocol is a step of NodeReservation or leaves it
\* alone: no rank goes ahead while another holds a reservation over it or
\* while it has commands to carry out (dllama.cpp:102-153).
ImplementsReservation == Reservation!Spec
=============================================================================
