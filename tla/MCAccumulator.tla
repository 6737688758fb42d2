--------------------------- MODULE MCAccumulator ---------------------------
(***************************************************************************)
(* The abstract accumulator on an instance small enough for TLC.           *)
(***************************************************************************)
EXTENDS Accumulator

=============================================================================
