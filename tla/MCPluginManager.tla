-------------------------- MODULE MCPluginManager --------------------------
(* PluginManager for TLC: the goroutines are interchangeable model values. *)
EXTENDS PluginManager, TLC

Symmetry == Permutations(Workers)

=============================================================================
