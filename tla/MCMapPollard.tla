---------------------------- MODULE MCMapPollard ----------------------------
(***************************************************************************)
(* MapPollard on instances small enough for TLC.                           *)
(***************************************************************************)
EXTENDS MapPollard

=============================================================================
