-------------------------- MODULE MCRuntimeConfig ---------------------------
EXTENDS RuntimeConfig, TLC

Symmetry == Permutations(Callers)
=============================================================================
