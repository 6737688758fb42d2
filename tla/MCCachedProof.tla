--------------------------- MODULE MCCachedProof ---------------------------
(***************************************************************************)
(* A small instance of the light client.                                   *)
(***************************************************************************)
EXTENDS CachedProof

MCOnesCount64 == [n \in 0..MaxLeaves |-> Cardinality({h \in 0..n : Bit(n, h) = 1})]

=============================================================================
