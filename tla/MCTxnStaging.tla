---------------------------- MODULE MCTxnStaging ----------------------------
(***************************************************************************)
(* Model-checking instances of TxnStaging.                                 *)
(***************************************************************************)
EXTENDS TxnStaging, FiniteSetsExt, TLC

CONSTANTS m1, m2

\* The messages are interchangeable.
MsgSymmetry == Permutations(Msg)

(***************************************************************************)
(* The staging budget is exact: staged_bytes is the total length of the    *)
(* bodies staged in open transactions, so a discharge or a detach gives    *)
(* back what staging took, no more and no less.                            *)
(***************************************************************************)
StagedBytesExact == staged_bytes = MapThenSumSet(LAMBDA t : size[t], txns)

(***************************************************************************)
(* What a connection stages is bounded: the caps on transactions, on work  *)
(* in one of them and on bytes hold, and the budget of bytes is exact over *)
(* any sequence of declares, discharges, session ends and reuses.          *)
(***************************************************************************)
StagingBounded == TypeOK /\ StagedBytesExact
=============================================================================
