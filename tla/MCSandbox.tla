----------------------------- MODULE MCSandbox -----------------------------
(* Instance of Sandbox: two agents, one command each, on a host of each     *)
(* kind that has its tools.                                                 *)
EXTENDS Sandbox

Host(p) == [platform |-> p, installed |-> Probes(p)]
MCHosts == {Host("linux"), Host("darwin"), Host("win32")}
=============================================================================
