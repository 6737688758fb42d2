------------------------------ MODULE MCStump ------------------------------
(***************************************************************************)
(* A small instance of the Stump.                                          *)
(***************************************************************************)
EXTENDS Stump

MCOnesCount64 == [n \in 0..MaxLeaves |-> Cardinality({h \in 0..n : Bit(n, h) = 1})]

=============================================================================
