--------------------------- MODULE MCQueryEngine ---------------------------
(* Three calls of the model and three tools, with tool-call ids the model  *)
(* may repeat; the breaker trips on the second failure, and one long       *)
(* output, or a long summary, nearly fills the budget.                     *)
EXTENDS QueryEngine, TLC

CONSTANTS t1, t2
=============================================================================
