---------------------------- MODULE MCLifecycle -----------------------------
(* Small instances of Lifecycle.  Callers are interchangeable; Pids are too. *)
EXTENDS Lifecycle, TLC

Symmetry == Permutations(Callers) \union Permutations(Pids)
=============================================================================
