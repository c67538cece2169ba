------------------------------ MODULE WorkList ------------------------------
(* What load_incremental() promises: it takes edges from the data source,     *)
(* applies each of them to the writable graph once, in any order, and does    *)
(* not return while one that it took is not applied.                          *)
CONSTANT Edge

VARIABLES
    taken,     \* the edges taken from the data source by now
    applied,   \* the edges the graph has
    loading    \* a call is under way

vars == <<taken, applied, loading>>

Init == taken = {} /\ applied = {} /\ loading = TRUE

Take(e) ==
    /\ loading /\ e \notin taken
    /\ taken' = taken \cup {e}
    /\ UNCHANGED <<applied, loading>>

Apply(e) ==
    /\ loading /\ e \in taken \ applied
    /\ applied' = applied \cup {e}
    /\ UNCHANGED <<taken, loading>>

Return ==
    /\ loading /\ applied = taken
    /\ loading' = FALSE
    /\ UNCHANGED <<taken, applied>>

Call ==
    /\ ~ loading
    /\ loading' = TRUE
    /\ UNCHANGED <<taken, applied>>

Next == Return \/ Call \/ \E e \in Edge : Take(e) \/ Apply(e)
Spec == Init /\ [][Next]_vars
=============================================================================
