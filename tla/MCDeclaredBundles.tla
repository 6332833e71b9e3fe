------------------------- MODULE MCDeclaredBundles -------------------------
(* DeclaredBundles for TLC: a static declaration for the first generation, a *)
(* refreshed one for the second, and an entry filed under the wrong          *)
(* generation.                                                               *)
EXTENDS DeclaredBundles, TLC

MCStatic == {[plugin |-> "p", gen |-> 1]}
MCRefresh == 1 :> [plugin |-> "p", gen |-> 2] @@ 2 :> [plugin |-> "p", gen |-> 2]
=============================================================================
