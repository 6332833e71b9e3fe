------------------------- MODULE TrustedGeneration -------------------------
(***************************************************************************)
(* What a plugin manager promises its callers: at any time it trusts at    *)
(* most one generation of its plugin.  A generation is trusted once, after *)
(* every earlier one has been given up and under a higher id, and never    *)
(* after the manager has been closed; health is reported for it only while *)
(* it is trusted.                                                          *)
(***************************************************************************)
EXTENDS Naturals

VARIABLES
    trusted,     \* whether some generation may answer calls
    generation,  \* the id of the generation trusted last, 0 when none was
    healthy,     \* the health reported for the trusted generation
    closed       \* the manager has been closed

vars == <<trusted, generation, healthy, closed>>

Init ==
    /\ trusted = FALSE /\ generation = 0
    /\ healthy = FALSE /\ closed = FALSE

Trust ==
    /\ ~trusted /\ ~closed
    /\ trusted' = TRUE /\ healthy' = TRUE
    /\ generation' = generation + 1
    /\ UNCHANGED closed

Report ==
    /\ trusted
    /\ healthy' \in BOOLEAN
    /\ UNCHANGED <<trusted, generation, closed>>

Distrust ==
    /\ trusted' = FALSE /\ healthy' = FALSE
    /\ UNCHANGED <<generation, closed>>

Close ==
    /\ trusted' = FALSE /\ healthy' = FALSE /\ closed' = TRUE
    /\ UNCHANGED generation

Next == Trust \/ Report \/ Distrust \/ Close

Spec == Init /\ [][Next]_vars

=============================================================================
