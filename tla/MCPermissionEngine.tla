------------------------- MODULE MCPermissionEngine -------------------------
(* Two runs of session s1. r1, in full mode, wants bash twice; r2, in plan  *)
(* mode, reads a file the classifier rates critical, under the tool-call   *)
(* id the model also gave to r1's first call, and reads another (which     *)
(* approves itself). The calls of a run are made in any order.             *)
EXTENDS PermissionEngine, TLC

CONSTANTS b1, b2, x1, x2, r1, r2, s1, s2, bash, read

MCRunOf == (b1 :> r1) @@ (b2 :> r1) @@ (x2 :> r2) @@ (x1 :> r2)
MCSessionOf == (r1 :> s1) @@ (r2 :> s1)
MCModeOf == (r1 :> "full") @@ (r2 :> "plan")
MCToolOf == (b1 :> bash) @@ (b2 :> bash) @@ (x1 :> read) @@ (x2 :> read)
MCLevelOf == (bash :> "require_approval") @@ (read :> "auto_approve")
MCIdOf == (b1 :> "s1:0") @@ (b2 :> "s1:1") @@ (x2 :> "s1:0") @@ (x1 :> "s1:2")

(* For what two sessions do to each other: one bash call in each, and then  *)
(* another in the first.                                                   *)
PairCalls == {b1, b2, x2}
PairSessionOf == (r1 :> s1) @@ (r2 :> s2)
PairModeOf == (r1 :> "full") @@ (r2 :> "auto")
PairRunOf == (b1 :> r1) @@ (b2 :> r1) @@ (x2 :> r2)
PairToolOf == (b1 :> bash) @@ (b2 :> bash) @@ (x2 :> read)
PairIdOf == (b1 :> "s1:0") @@ (b2 :> "s1:1") @@ (x2 :> "s2:0")
=============================================================================
