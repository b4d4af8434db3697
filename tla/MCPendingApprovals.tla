------------------------- MODULE MCPendingApprovals -------------------------
(* Four waits: two under each of two approval ids, so that an id is taken   *)
(* twice, at once and one after the other. w1 and w3 share the signal of    *)
(* one run (an abort ends both), w2 belongs to another run, and w4 is       *)
(* registered without a signal.                                            *)
EXTENDS PendingApprovals, TLC

CONSTANTS w1, w2, w3, w4, i1, i2, s1, s2

MCIdOf == (w1 :> i1) @@ (w2 :> i1) @@ (w3 :> i2) @@ (w4 :> i2)
MCSignalOf == (w1 :> s1) @@ (w2 :> s2) @@ (w3 :> s1) @@ (w4 :> NoSignal)
=============================================================================
