---------------------------- MODULE MCUpdateCache ----------------------------
(* Two runs at once, of one target; versions live for two hours, locks and    *)
(* errors for one.                                                             *)
EXTENDS UpdateCache, TLC

Symmetry == Permutations(Procs)
==============================================================================
