----------------------------- MODULE MCSessions -----------------------------
(* One session that three messages are posted to, and a second session with *)
(* a message of its own. Any of them may overlap; the server may die once.  *)
EXTENDS Sessions, TLC

CONSTANTS m1, m2, m3, n1, s1, s2

MCSessionOf == (m1 :> s1) @@ (m2 :> s1) @@ (m3 :> s1) @@ (n1 :> s2)
OneSession == (m1 :> s1) @@ (m2 :> s1)
Similar == Permutations({m1, m2, m3})
=============================================================================
