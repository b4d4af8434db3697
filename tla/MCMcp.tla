------------------------------- MODULE MCMcp -------------------------------
(* Small instances of McpManager for TLC.                                  *)
EXTENDS McpManager, TLC
Symmetry == Permutations(Callers)
=============================================================================
