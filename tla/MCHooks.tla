------------------------------ MODULE MCHooks ------------------------------
(* Instance of Hooks: a global file that is empty or lists two hooks, and a *)
(* project file that is empty or lists a blank command and disables the     *)
(* first of the global hooks.                                              *)
EXTENDS Hooks

H(command, onFailure, enabled) ==
  [command |-> command, onFailure |-> onFailure, enabled |-> enabled]

MCGlobal == {NoHooks, << H("lint", "abort", TRUE), H("audit", "continue", TRUE) >>}
MCProject == {NoHooks, << H("blank", "abort", TRUE), H("lint", "abort", FALSE) >>}
=============================================================================
