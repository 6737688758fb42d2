----------------------------- MODULE MCPollard -----------------------------
(***************************************************************************)
(* The Pollard on instances small enough for TLC.                          *)
(***************************************************************************)
EXTENDS Pollard

=============================================================================
