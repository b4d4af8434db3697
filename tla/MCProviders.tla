---------------------------- MODULE MCProviders ----------------------------
(* An instance of Providers: two calls that take or verify a keyed remote  *)
(* or a local provider, the stream of one of them, and a scan.             *)
EXTENDS Providers
=============================================================================
