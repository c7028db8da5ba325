---------------------------- MODULE MCTxnCommit ----------------------------
(***************************************************************************)
(* Model-checking instances of TxnCommit.                                  *)
(***************************************************************************)
EXTENDS TxnCommit, FiniteSetsExt

CONSTANTS qa, qb, m1, m2, t1, t2

AllOnQa == [m \in Msg |-> qa]

(***************************************************************************)
(* No slot leaks: the slots a queue holds are exactly those that discharge *)
(* tasks still hold, plus those that a publish or a release on its way to  *)
(* the queue will give up.  When every discharge is over and the mailbox   *)
(* is empty, the queue has no slot reserved.                               *)
(***************************************************************************)
OnTheWay(q) ==
    MapThenSumSet(LAMBDA i : CASE mbox[q][i].op = "PublishReserved" -> 1
                               [] mbox[q][i].op = "Unreserve" -> mbox[q][i].n
                               [] OTHER -> 0,
                  DOMAIN mbox[q])

SlotsAccounted ==
    \A q \in Queue : alive[q] =>
        reserved[q] = OnTheWay(q) + MapThenSumSet(LAMBDA t : remaining[t][q],
                                                {t \in Txn : pc[t] # "done"})

(***************************************************************************)
(* Slots are exact: a queue holds those the tasks hold and no others, they *)
(* fit beside its messages, and mailboxes and counters keep their types.   *)
(***************************************************************************)
SlotsExact == TypeOK /\ SlotsFit /\ SlotsAccounted
=============================================================================
