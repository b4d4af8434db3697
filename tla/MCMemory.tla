------------------------------ MODULE MCMemory ------------------------------
(* Instance of Memory: two writers and the prompts of one session.         *)
EXTENDS Memory, TLC

Symmetry == Permutations(Writers) \cup Permutations(Bullets)
=============================================================================
