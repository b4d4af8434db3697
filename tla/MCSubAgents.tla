---------------------------- MODULE MCSubAgents ----------------------------
(* One message under way, three workers: a worker may spawn another, so     *)
(* that every permit is held by a loop that waits for a task in the queue. *)
EXTENDS SubAgents, TLC

CONSTANTS w1, w2, w3, r1

MCIdOf == [w \in Workers |-> w]
=============================================================================
