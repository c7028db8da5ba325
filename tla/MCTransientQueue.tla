-------------------------- MODULE MCTransientQueue --------------------------
(***************************************************************************)
(* Model-checking instances of TransientQueue.                             *)
(***************************************************************************)
EXTENDS TransientQueue, FiniteSetsExt

(***************************************************************************)
(* The byte counter is exact: it is the total length of the bodies held,   *)
(* so none of its saturating subtractions ever saturates and the byte      *)
(* bound neither leaks nor loosens over a queue's life.                    *)
(***************************************************************************)
BytesExact ==
    bytes = MapThenSumSet(LAMBDA m : size[m], {m \in MsgId : fate[m] = "held"})
=============================================================================
