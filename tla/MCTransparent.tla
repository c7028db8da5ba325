--------------------------- MODULE MCTransparent ---------------------------
(* Transparent with one send of the producer that is attached first.       *)
EXTENDS Transparent

CONSTANTS a

OnFirst == [s \in Sends |-> 0]
=============================================================================
