--------------------------- MODULE MCFileHistory ---------------------------
(* Instance of FileHistory: a/b.ts, whose name is only its own, and b.ts,  *)
(* a request for which also answers to the checkpoints of the first.       *)
EXTENDS FileHistory, TLC

MCPaths == {"deep", "short"}
MCName == [p \in MCPaths |-> p]
MCAnswers == [p \in MCPaths |-> IF p = "short" THEN MCPaths ELSE {p}]
Symmetry == Permutations(Callers) \cup Permutations(Values)
=============================================================================
