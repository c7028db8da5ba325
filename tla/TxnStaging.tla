----------------------------- MODULE TxnStaging -----------------------------
(***************************************************************************)
(* One connection's transactions: the table of txn.rs (TxnManager) and the *)
(* part of connection.rs that stages work in it, takes control messages    *)
(* from the coordinator link and answers discharges.                       *)
(*                                                                         *)
(* The connection task handles one thing at a time.  A disposition that a  *)
(* consumer sends resolves a future in `settlements`; the future is        *)
(* forwarded later, in any order, so the discharge that the client         *)
(* pipelines behind it must first drain what is ready (pc = "drain").  A   *)
(* discharge runs as a task of its own (TxnCommit has its steps; here it   *)
(* is one), and its answer comes back through `txn_results`.               *)
(*                                                                         *)
(* The coordinator link is on one channel, whose sessions come and go; the *)
(* producer and the consumer links are on sessions that stay.              *)
(***************************************************************************)
EXTENDS Integers, FiniteSets

CONSTANTS
    Msg,                \* messages delivered to the consumer
    MAX_TXNS, MAX_STAGED, MAX_STAGED_BYTES,
    BodySizes,          \* lengths of the bodies published
    MaxDeclares,        \* bound: transactions declared
    MaxPublishes,       \* bound: enqueues sent under one transaction
    MaxSessions         \* bound: sessions begun on the channel

ASSUME StagingAssumption ==
    /\ MAX_TXNS \in Nat /\ MAX_STAGED \in Nat /\ MAX_STAGED_BYTES \in Nat
    /\ BodySizes \subseteq Nat
    /\ MaxDeclares \in Nat /\ MaxPublishes \in Nat /\ MaxSessions \in Nat

TxnId == 1..MaxDeclares
NoTxn == 0
NoSession == 0

VARIABLES
    pc,             \* the connection task: "run", "drain", "closing", "closed"
    control,        \* the control message behind the drain
    session,        \* SessionId at the channel, or NoSession
    next_session_id,
    coordinator,    \* a Binding::Coordinator exists
    txns,           \* ids in the table
    next_id,
    count, size,    \* Txn.publishes: how many, and their bytes
    settles,        \* Txn.settles
    rollback_only,  \* Txn.rollback_only
    staged_bytes,
    settlements,    \* resolved and not yet forwarded, <<message, txn>>
    task,           \* the discharge task of each transaction
    asker,          \* TxnDone.session_id
    answered,       \* the session the outcome was sent on
    owner,          \* who has the message: consumer, acked or requeued
    under,          \* history: the transaction a message was settled under
    in_time,        \* history: messages settled before the discharge
    sent            \* history: enqueues sent under each open transaction

table == <<txns, next_id, count, size, settles, rollback_only, staged_bytes>>
channel == <<session, next_session_id, coordinator>>
history == <<under, in_time, sent>>
tasks == <<task, asker, answered>>
vars == <<pc, control, channel, table, settlements, tasks, owner, history>>

Init ==
    /\ pc = "run" /\ control = [op |-> "none", txn |-> NoTxn]
    /\ session = NoSession /\ next_session_id = 0 /\ coordinator = FALSE
    /\ txns = {} /\ next_id = 0
    /\ count = [t \in TxnId |-> 0] /\ size = [t \in TxnId |-> 0]
    /\ settles = [t \in TxnId |-> {}]
    /\ rollback_only = [t \in TxnId |-> FALSE]
    /\ staged_bytes = 0 /\ settlements = {}
    /\ task = [t \in TxnId |-> "none"]
    /\ asker = [t \in TxnId |-> NoSession]
    /\ answered = [t \in TxnId |-> NoSession]
    /\ owner = [m \in Msg |-> "consumer"]
    /\ under = [m \in Msg |-> NoTxn] /\ in_time = {}
    /\ sent = [t \in TxnId |-> 0]

-----------------------------------------------------------------------------
(* Sessions and the coordinator link.                                      *)

AcceptBegin ==
    /\ pc = "run" /\ session = NoSession /\ next_session_id < MaxSessions
    /\ next_session_id' = next_session_id + 1
    /\ session' = next_session_id'
    /\ UNCHANGED <<pc, control, coordinator, table, settlements, tasks, owner,
                   history>>

AttachCoordinator ==
    /\ pc = "run" /\ session # NoSession /\ ~coordinator
    /\ coordinator' = TRUE
    /\ UNCHANGED <<pc, control, session, next_session_id, table, settlements,
                   tasks, owner, history>>

(***************************************************************************)
(* The link detaches: take_all(), every open transaction rolls back.       *)
(***************************************************************************)
DetachCoordinator ==
    /\ pc = "run" /\ coordinator
    /\ coordinator' = FALSE
    /\ txns' = {} /\ staged_bytes' = 0
    /\ task' = [t \in TxnId |-> IF t \in txns THEN "rollback" ELSE task[t]]
    /\ UNCHANGED <<pc, control, session, next_session_id, next_id, count, size,
                   settles, rollback_only, settlements, asker, answered, owner,
                   history>>

(***************************************************************************)
(* The session ends: release_session_bindings drops the coordinator        *)
(* binding and leaves the table alone.                                     *)
(***************************************************************************)
HandleEnd ==
    /\ pc = "run" /\ session # NoSession
    /\ session' = NoSession /\ coordinator' = FALSE
    /\ UNCHANGED <<pc, control, next_session_id, table, settlements, tasks,
                   owner, history>>

-----------------------------------------------------------------------------
(* Staging.                                                                *)

Room(t) == count[t] + Cardinality(settles[t]) < MAX_STAGED

Poisoned(t) == [rollback_only EXCEPT ![t] = TRUE]

FitsBytes(sz) == staged_bytes + sz <= MAX_STAGED_BYTES

(***************************************************************************)
(* An enqueue under an open transaction (under an unknown one it is        *)
(* rejected and nothing changes).                                          *)
(***************************************************************************)
stage_publish(t, sz) ==
    /\ pc = "run"
    /\ t \in txns /\ sent[t] < MaxPublishes
    /\ sent' = [sent EXCEPT ![t] = @ + 1]
    /\ IF FitsBytes(sz) /\ Room(t)
       THEN /\ staged_bytes' = staged_bytes + sz
            /\ count' = [count EXCEPT ![t] = @ + 1]
            /\ size' = [size EXCEPT ![t] = @ + sz]
            /\ UNCHANGED rollback_only
       ELSE /\ rollback_only' = Poisoned(t)
            /\ UNCHANGED <<staged_bytes, count, size>>
    /\ UNCHANGED <<pc, control, channel, txns, next_id, settles, settlements,
                   tasks, owner, under, in_time>>

(***************************************************************************)
(* A disposition with transactional-state, for any transaction the client  *)
(* was told of, discharged or not.                                         *)
(***************************************************************************)
Disposition(m, t) ==
    /\ pc = "run"
    /\ owner[m] = "consumer" /\ under[m] = NoTxn
    /\ t \in 1..next_id
    /\ under' = [under EXCEPT ![m] = t]
    /\ in_time' = IF t \in txns THEN in_time \cup {m} ELSE in_time
    /\ settlements' = settlements \cup {<<m, t>>}
    /\ UNCHANGED <<pc, control, channel, table, tasks, owner, sent>>

\* Variant: a settlement that cannot be staged is dropped.
NotRequeued(m) == owner
Requeued(m) == [owner EXCEPT ![m] = "requeued"]

forward_settlement(m, t) ==
    /\ pc \in {"run", "drain", "closing"}
    /\ <<m, t>> \in settlements
    /\ settlements' = settlements \ {<<m, t>>}
    /\ IF t \in txns /\ Room(t)
       THEN /\ settles' = [settles EXCEPT ![t] = @ \cup {m}]
            /\ UNCHANGED <<rollback_only, owner>>
       ELSE /\ rollback_only' = IF t \in txns THEN Poisoned(t) ELSE rollback_only
            /\ owner' = Requeued(m)
            /\ UNCHANGED settles
    /\ UNCHANGED <<pc, control, channel, txns, next_id, count, size,
                   staged_bytes, tasks, history>>

-----------------------------------------------------------------------------
(***************************************************************************)
(* A control message on the coordinator link: drain the settlements that   *)
(* are ready, then handle it.                                              *)
(***************************************************************************)
Control(op, t) ==
    /\ pc = "run" /\ coordinator
    /\ pc' = "drain"
    /\ control' = [op |-> op, txn |-> t]
    /\ UNCHANGED <<channel, table, settlements, tasks, owner, history>>

\* Variant: no drain before the control message.
NoDrain == TRUE
Drained == settlements = {}

Handles(op) ==
    /\ pc = "drain" /\ Drained /\ control.op = op
    /\ pc' = "run" /\ control' = [op |-> "none", txn |-> NoTxn]

declare ==
    /\ Handles("declare")
    /\ IF Cardinality(txns) < MAX_TXNS
       THEN /\ next_id' = next_id + 1
            /\ txns' = txns \cup {next_id'}
       ELSE UNCHANGED <<next_id, txns>>
    /\ UNCHANGED <<channel, count, size, settles, rollback_only, staged_bytes,
                   settlements, tasks, owner, history>>

\* Variant: the bytes stay in the budget.
BytesKept(t) == staged_bytes
BytesFreed(t) == IF size[t] <= staged_bytes THEN staged_bytes - size[t] ELSE 0

(***************************************************************************)
(* Discharge: take() the transaction, note who asked, and spawn the task.  *)
(* An unknown id is rejected.                                              *)
(***************************************************************************)
discharge(op) ==
    LET t == control.txn
    IN  /\ Handles(op)
        /\ IF t \in txns
           THEN /\ txns' = txns \ {t}
                /\ staged_bytes' = BytesFreed(t)
                /\ asker' = [asker EXCEPT ![t] = session]
                /\ task' = [task EXCEPT ![t] =
                               IF op = "commit" /\ ~rollback_only[t]
                               THEN "commit" ELSE "rollback"]
           ELSE UNCHANGED <<txns, staged_bytes, asker, task>>
        /\ UNCHANGED <<channel, next_id, count, size, settles, rollback_only,
                       settlements, answered, owner, history>>

(***************************************************************************)
(* The task runs: the staged settlements are applied or requeued, where    *)
(* the consumer still owns the message.                                    *)
(***************************************************************************)
Execute(t, committed) ==
    /\ task[t] \in {"commit", "rollback"}
    /\ committed => task[t] = "commit"
    /\ task' = [task EXCEPT ![t] = IF committed THEN "committed" ELSE "undone"]
    /\ owner' = [m \in Msg |->
                    IF m \in settles[t] /\ owner[m] = "consumer"
                    THEN IF committed THEN "acked" ELSE "requeued"
                    ELSE owner[m]]
    /\ UNCHANGED <<pc, control, channel, table, settlements, asker, answered,
                   history>>

\* Variant: whatever session has the channel gets the outcome.
AnyAsker(t) == session # NoSession
SameSession(t) == session # NoSession /\ session = asker[t]

report_txn_done(t) ==
    /\ pc = "run"
    /\ task[t] \in {"committed", "undone"} /\ asker[t] # NoSession
    /\ task' = [task EXCEPT ![t] = "reported"]
    /\ answered' = [answered EXCEPT ![t] = IF SameSession(t) THEN session ELSE NoSession]
    /\ UNCHANGED <<pc, control, channel, table, settlements, asker, owner,
                   history>>

-----------------------------------------------------------------------------
(***************************************************************************)
(* The connection ends: forward what has resolved, then unsubscribe, which *)
(* requeues all that the consumer still owns.  The tasks go on.            *)
(***************************************************************************)
Close ==
    /\ pc = "run"
    /\ pc' = "closing"
    /\ UNCHANGED <<control, channel, table, settlements, tasks, owner, history>>

cleanup ==
    /\ pc = "closing" /\ settlements = {}
    /\ pc' = "closed"
    /\ txns' = {} /\ staged_bytes' = 0
    /\ owner' = [m \in Msg |-> IF owner[m] = "consumer" THEN "requeued" ELSE owner[m]]
    /\ UNCHANGED <<control, channel, next_id, count, size, settles,
                   rollback_only, settlements, tasks, history>>

Next ==
    \/ AcceptBegin \/ AttachCoordinator \/ DetachCoordinator \/ HandleEnd
    \/ \E t \in TxnId :
          \/ \E sz \in BodySizes : stage_publish(t, sz)
          \/ \E m \in Msg : Disposition(m, t) \/ forward_settlement(m, t)
          \/ \E op \in {"commit", "rollback"} : t <= next_id /\ Control(op, t)
          \/ \E committed \in BOOLEAN : Execute(t, committed)
          \/ report_txn_done(t)
    \/ /\ next_id < MaxDeclares \/ Cardinality(txns) >= MAX_TXNS
       /\ Control("declare", NoTxn)
    \/ declare \/ discharge("commit") \/ discharge("rollback")
    \/ Close \/ cleanup

Spec == Init /\ [][Next]_vars

-----------------------------------------------------------------------------
(***************************************************************************)
(* Every variable keeps its type, and the caps hold.                       *)
(***************************************************************************)
TypeOK ==
    /\ pc \in {"run", "drain", "closing", "closed"}
    /\ session \in 0..MaxSessions /\ coordinator \in BOOLEAN
    /\ txns \subseteq 1..next_id /\ Cardinality(txns) <= MAX_TXNS
    /\ \A t \in TxnId : count[t] + Cardinality(settles[t]) <= MAX_STAGED
    /\ staged_bytes \in 0..MAX_STAGED_BYTES
    /\ settlements \subseteq Msg \X TxnId
    /\ owner \in [Msg -> {"consumer", "acked", "requeued"}]

(***************************************************************************)
(* A commit is whole: it has every enqueue sent and every message settled  *)
(* under the transaction before it was discharged.  Pipelined dispositions *)
(* are in it although they are staged late, and work refused at a cap      *)
(* makes the commit impossible.                                            *)
(***************************************************************************)
CommitIsWhole ==
    \A t \in TxnId : task[t] = "committed" =>
        /\ count[t] = sent[t]
        /\ \A m \in in_time : under[m] = t => m \in settles[t]

(***************************************************************************)
(* No settled message is forgotten: while the consumer still owns a        *)
(* message it settled, the settlement waits to be forwarded, is staged in  *)
(* an open transaction, or is in the hands of a discharge task.            *)
(***************************************************************************)
NoSettlementLost ==
    \A m \in Msg : under[m] # NoTxn /\ owner[m] = "consumer" =>
        \/ <<m, under[m]>> \in settlements
        \/ /\ m \in settles[under[m]]
           /\ under[m] \in txns \/ task[under[m]] \in {"commit", "rollback"}

(***************************************************************************)
(* The outcome of a discharge goes to the session that asked, never to one *)
(* that inherited its channel while the discharge ran.                     *)
(***************************************************************************)
AnswerReachesAsker ==
    \A t \in TxnId : answered[t] # NoSession => answered[t] = asker[t]
=============================================================================
