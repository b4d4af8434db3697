----------------------------- MODULE MCConsole -----------------------------
(* Two sends of two attempts each over connections that may break.         *)
EXTENDS Console
=============================================================================
