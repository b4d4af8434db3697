--------------------------- MODULE ApprovalPromise ---------------------------
(***************************************************************************)
(* What PendingApprovals promises to the loop that waits on it, without    *)
(* the map, the timers and the abort listeners it is built from: a wait is *)
(* either refused when it is asked for, or it is open until exactly one    *)
(* outcome is delivered to it.                                             *)
(***************************************************************************)
CONSTANTS
    Waits,       \* the calls of register(), one promise each
    Outcomes,    \* the values a promise can resolve to
    NoOutcome    \* a promise that has not resolved

VARIABLES
    asked,       \* waits that register() accepted
    refused,     \* waits for which register() threw
    answer       \* what each promise resolved to

vars == <<asked, refused, answer>>

Init == /\ asked = {}
        /\ refused = {}
        /\ answer = [w \in Waits |-> NoOutcome]

Fresh(w) == w \notin asked \cup refused

Refuse(w) == /\ Fresh(w)
             /\ refused' = refused \cup {w}
             /\ UNCHANGED <<asked, answer>>

Ask(w) == /\ Fresh(w)
          /\ asked' = asked \cup {w}
          /\ UNCHANGED <<refused, answer>>

(* A wait whose caller has already given up is answered as it is asked.    *)
AskAnswered(w, o) == /\ Fresh(w)
                     /\ asked' = asked \cup {w}
                     /\ answer' = [answer EXCEPT ![w] = o]
                     /\ UNCHANGED refused

(* One event may answer several open waits, all with the same outcome.     *)
Deliver(S, o) ==
    /\ S \subseteq {w \in asked : answer[w] = NoOutcome}
    /\ answer' = [w \in Waits |-> IF w \in S THEN o ELSE answer[w]]
    /\ UNCHANGED <<asked, refused>>

Next == \/ \E w \in Waits : Refuse(w) \/ Ask(w)
        \/ \E w \in Waits, o \in Outcomes : AskAnswered(w, o)
        \/ \E S \in SUBSET Waits, o \in Outcomes : Deliver(S, o)

Spec == Init /\ [][Next]_vars
=============================================================================
