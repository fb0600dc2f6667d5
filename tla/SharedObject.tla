---------------------------- MODULE SharedObject ----------------------------
(***************************************************************************)
(* What reference counting promises its users: an object outlives every    *)
(* reference to it, is destroyed once, when the last one has gone, and is  *)
(* not left behind.                                                        *)
(***************************************************************************)
CONSTANT Holders

VARIABLES
    held,   \* the holders of a reference
    exists  \* the object was not destroyed yet

vars == <<held, exists>>

\* The creator has the first reference.
Init == (\E h \in Holders : held = {h}) /\ exists = TRUE

\* Only a holder can make another one.
Take(h) ==
    /\ held # {}
    /\ held' = held \cup {h}
    /\ UNCHANGED exists

Drop(h) ==
    /\ h \in held
    /\ held' = held \ {h}
    /\ UNCHANGED exists

Destroy ==
    /\ held = {} /\ exists
    /\ exists' = FALSE
    /\ UNCHANGED held

Next == Destroy \/ \E h \in Holders : Take(h) \/ Drop(h)

Spec == Init /\ [][Next]_vars /\ WF_vars(Destroy)
=============================================================================
