--------------------------- MODULE VersionedArray ---------------------------
(* What the levels of a property or of a vertex table promise: a new level    *)
(* begins as a copy of the one before with zeros behind it, only the newest   *)
(* one changes, value by value, and an older one is as it was until it is     *)
(* deleted. An addition that is under way while the newest level is still the *)
(* one before may be torn: it then stores any value.                          *)
EXTENDS Integers

VARIABLES version, newest,  \* level -> node -> value; the newest level
          torn              \* the nodes of torn additions

vars == <<version, newest, torn>>

Init == version = <<>> /\ newest = -1 /\ torn = {}

NewVersion ==
    /\ newest' = newest + 1
    /\ \E a \in {version'[newest']} :
          /\ version' = [l \in DOMAIN version \cup {newest'} |->
                            IF l = newest' THEN a ELSE version[l]]
          /\ \A n \in DOMAIN a : a[n] =
                IF newest \in DOMAIN version /\ n \in DOMAIN version[newest]
                THEN version[newest][n] ELSE 0
    /\ UNCHANGED torn

Add(n) ==
    /\ n \notin torn
    /\ version' = [version EXCEPT ![newest][n] = @ + 1]
    /\ UNCHANGED <<newest, torn>>

Tear(n) ==
    /\ newest - 1 \in DOMAIN version /\ version[newest] = version[newest - 1]
    /\ torn' = torn \cup {n}
    /\ UNCHANGED <<version, newest>>

Spoil(n) ==
    /\ n \in torn
    /\ \E x \in {version'[newest][n]} : version' = [version EXCEPT ![newest][n] = x]
    /\ torn' = torn \ {n}
    /\ UNCHANGED newest

Forget(l) ==
    /\ version' = [k \in DOMAIN version \ {l} |-> version[k]]
    /\ UNCHANGED <<newest, torn>>

Next == \/ NewVersion
        \/ newest \in DOMAIN version /\ \E n \in DOMAIN version[newest] :
              Add(n) \/ Tear(n) \/ Spoil(n)
        \/ \E l \in DOMAIN version : Forget(l)
Spec == Init /\ [][Next]_vars
=============================================================================
