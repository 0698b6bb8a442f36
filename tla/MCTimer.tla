------------------------------ MODULE MCTimer -------------------------------
(* Timer on small instances. *)
EXTENDS Timer, TLC

Symmetry == Permutations(Keys) \union Permutations(Runs)
=============================================================================
