-------------------------- MODULE TxnStagingProofs --------------------------
(***************************************************************************)
(* Theorems about TxnStaging, for every cap, every set of messages and any *)
(* number of transactions and sessions.                                    *)
(***************************************************************************)
EXTENDS TxnStaging, FiniteSetTheorems, TLAPS

Outcomes == {"commit", "rollback"}

-----------------------------------------------------------------------------
(* The inductive invariant.                                                *)

ChannelTypes ==
    /\ pc \in {"run", "drain", "closing", "closed"}
    /\ control \in [op : {"none", "declare", "commit", "rollback"}, txn : 0..MaxDeclares]
    /\ session \in 0..MaxSessions /\ next_session_id \in 0..MaxSessions

TableTypes ==
    /\ next_id \in 0..MaxDeclares /\ txns \subseteq 1..next_id
    /\ count \in [TxnId -> Nat] /\ size \in [TxnId -> Nat]
    /\ settles \in [TxnId -> SUBSET Msg]
    /\ staged_bytes \in 0..MAX_STAGED_BYTES
    /\ settlements \subseteq Msg \X TxnId

Flags == coordinator \in BOOLEAN /\ rollback_only \in [TxnId -> BOOLEAN]

TaskTypes ==
    /\ task \in [TxnId -> {"none", "commit", "rollback", "committed", "undone", "reported"}]
    /\ asker \in [TxnId -> Nat] /\ answered \in [TxnId -> Nat]
    /\ owner \in [Msg -> {"consumer", "acked", "requeued"}]

HistoryTypes ==
    /\ under \in [Msg -> 0..MaxDeclares] /\ in_time \subseteq Msg
    /\ sent \in [TxnId -> Nat]

Types == ChannelTypes /\ TableTypes /\ Flags /\ TaskTypes /\ HistoryTypes

\* the caps of stage_publish, stage_settle and declare
Capped ==
    /\ Cardinality(txns) <= MAX_TXNS
    /\ \A t \in TxnId :
          IsFiniteSet(settles[t]) /\ count[t] + Cardinality(settles[t]) <= MAX_STAGED

\* an id not handed out yet has no work and no task; an open transaction has
\* no task, and only a reported one has an answer
Stages ==
    /\ \A t \in TxnId : t > next_id => count[t] = 0 /\ sent[t] = 0
    /\ \A m \in Msg : under[m] <= next_id
    /\ \A t \in TxnId : t \in txns \/ t > next_id => task[t] = "none"
    /\ \A t \in TxnId : answered[t] # NoSession => task[t] = "reported"

\* a message settled in time is staged, or will be before any discharge
Gathered(t) ==
    /\ count[t] = sent[t]
    /\ \A m \in in_time : under[m] = t =>
          m \in settles[t] \/ (t \in txns /\ <<m, t>> \in settlements)

InTime == \A m \in in_time : under[m] # NoTxn

WholeSoFar ==
    \A t \in TxnId :
        (t \in txns /\ ~rollback_only[t]) \/ task[t] \in {"commit", "committed"}
            => Gathered(t)

\* a declare that is behind the drain has an id to take, or will be refused
DeclareFits ==
    pc = "drain" /\ control.op = "declare" =>
        next_id < MaxDeclares \/ Cardinality(txns) >= MAX_TXNS

IInv ==
    /\ Types /\ Capped /\ Stages /\ InTime /\ WholeSoFar /\ DeclareFits
    /\ NoSettlementLost /\ AnswerReachesAsker

-----------------------------------------------------------------------------
(* Operator facts.                                                         *)

(***************************************************************************)
(* The table is finite, so its size is a number (txn.rs declare compares   *)
(* it with MAX_TXNS).                                                      *)
(***************************************************************************)
LEMMA TableSize ==
    ASSUME TableTypes
    PROVE  IsFiniteSet(txns) /\ Cardinality(txns) \in Nat
<1>1. next_id \in Int /\ 1 \in Int /\ txns \in SUBSET (1..next_id)
  BY StagingAssumption DEF TableTypes
<1>2. IsFiniteSet(1..next_id)
  BY Zenon, <1>1, FS_Interval
<1>3. IsFiniteSet(txns)
  BY Zenon, <1>1, <1>2, FS_Subset
<1> QED
  BY Zenon, <1>3, FS_CardinalityType

(***************************************************************************)
(* Ids in the table have been handed out, and ids handed out are TxnIds.   *)
(***************************************************************************)
LEMMA Ids ==
    ASSUME TableTypes
    PROVE  /\ next_id \in Nat /\ next_id <= MaxDeclares /\ MaxDeclares \in Nat
           /\ txns \subseteq TxnId /\ txns \subseteq 1..next_id
           /\ 1..next_id \subseteq TxnId
           /\ \A t \in txns : t \in 1..next_id /\ t \in TxnId
<1>1. next_id \in 0..MaxDeclares /\ txns \subseteq 1..next_id
  BY Zenon DEF TableTypes
<1> QED
  BY <1>1, StagingAssumption DEF TxnId

(***************************************************************************)
(* Staging one more settlement keeps the set finite and adds at most one.  *)
(***************************************************************************)
LEMMA OneMore ==
    ASSUME NEW S, IsFiniteSet(S), NEW m
    PROVE  /\ IsFiniteSet(S \cup {m}) /\ Cardinality(S) \in Nat
           /\ Cardinality(S \cup {m}) \in Nat
           /\ Cardinality(S \cup {m}) <= Cardinality(S) + 1
BY SMTT(30), FS_AddElement, FS_CardinalityType

(***************************************************************************)
(* A new connection has an empty table.                                    *)
(***************************************************************************)
LEMMA InitIInv == Init => IInv
<1> SUFFICES ASSUME Init PROVE IInv
  BY Zenon
<1>1. ChannelTypes
  BY StagingAssumption DEF Init, ChannelTypes, NoTxn, NoSession
<1>2. TableTypes
  BY StagingAssumption DEF Init, TableTypes
<1>3. Flags
  BY Zenon DEF Init, Flags
<1>4. TaskTypes /\ HistoryTypes
  BY StagingAssumption DEF Init, TaskTypes, HistoryTypes, NoTxn, NoSession
<1>5. Capped
  BY FS_EmptySet, StagingAssumption DEF Init, Capped
<1>6. Stages /\ InTime /\ DeclareFits
  BY StagingAssumption DEF Init, Stages, InTime, DeclareFits, NoTxn, NoSession, TxnId
<1>7. WholeSoFar
  BY Zenon DEF Init, WholeSoFar
<1>8. NoSettlementLost /\ AnswerReachesAsker
  BY Zenon DEF Init, NoSettlementLost, AnswerReachesAsker, NoTxn, NoSession
<1> QED
  BY Zenon, <1>1, <1>2, <1>3, <1>4, <1>5, <1>6, <1>7, <1>8 DEF IInv, Types

-----------------------------------------------------------------------------
(* One lemma per kind of step.                                             *)

(***************************************************************************)
(* What leaves the table, the tasks and the history alone keeps all that   *)
(* is said of them.                                                        *)
(***************************************************************************)
LEMMA Untouched ==
    ASSUME IInv, UNCHANGED <<table, settlements, tasks, owner, history>>,
           ChannelTypes', coordinator' \in BOOLEAN, DeclareFits'
    PROVE  IInv'
<1>1. TableTypes'
  BY Zenon DEF IInv, Types, TableTypes, table
<1>2. Flags'
  BY Zenon DEF IInv, Types, Flags, table
<1>3. TaskTypes' /\ HistoryTypes'
  BY Zenon DEF IInv, Types, TaskTypes, HistoryTypes, tasks, history
<1>4. Capped'
  BY Zenon DEF IInv, Capped, table
<1>5. Stages' /\ InTime'
  BY Zenon DEF IInv, Stages, InTime, table, tasks, history
<1>6. WholeSoFar'
  BY Zenon DEF IInv, WholeSoFar, Gathered, table, tasks, history
<1>7. NoSettlementLost'
  BY Zenon DEF IInv, NoSettlementLost, table, tasks, history
<1>8. AnswerReachesAsker'
  BY Zenon DEF IInv, AnswerReachesAsker, tasks
<1> QED
  BY Zenon, <1>1, <1>2, <1>3, <1>4, <1>5, <1>6, <1>7, <1>8 DEF IInv, Types

(***************************************************************************)
(* accept_begin, accept_attach, handle_end and the start of the shutdown.  *)
(***************************************************************************)
LEMMA StepChannel ==
    ASSUME IInv, AcceptBegin \/ AttachCoordinator \/ HandleEnd \/ Close
    PROVE  IInv'
<1>1. UNCHANGED <<table, settlements, tasks, owner, history>>
  BY Zenon DEF AcceptBegin, AttachCoordinator, HandleEnd, Close
<1>2. ChannelTypes'
  BY StagingAssumption DEF IInv, Types, ChannelTypes, AcceptBegin, AttachCoordinator,
     HandleEnd, Close, channel, NoSession
<1>3. coordinator' \in BOOLEAN
  BY Zenon DEF IInv, Types, Flags, AcceptBegin, AttachCoordinator, HandleEnd, Close, channel
<1>4. DeclareFits'
  BY Zenon DEF IInv, DeclareFits, AcceptBegin, AttachCoordinator, HandleEnd, Close
<1> QED
  BY Zenon, <1>1, <1>2, <1>3, <1>4, Untouched

(***************************************************************************)
(* A control message waits behind the drain.                               *)
(***************************************************************************)
LEMMA StepControl ==
    ASSUME IInv, NEW op \in {"declare", "commit", "rollback"}, NEW t \in 0..MaxDeclares,
           op = "declare" => next_id < MaxDeclares \/ Cardinality(txns) >= MAX_TXNS,
           Control(op, t)
    PROVE  IInv'
<1>1. UNCHANGED <<table, settlements, tasks, owner, history>>
  BY Zenon DEF Control
<1>2. ChannelTypes'
  BY Zenon DEF IInv, Types, ChannelTypes, Control, channel
<1>3. coordinator' \in BOOLEAN
  BY Zenon DEF IInv, Types, Flags, Control, channel
<1>4. DeclareFits'
  BY Zenon DEF IInv, DeclareFits, Control, table
<1> QED
  BY Zenon, <1>1, <1>2, <1>3, <1>4, Untouched


(***************************************************************************)
(* The coordinator link detaches: every open transaction gets a rollback.  *)
(***************************************************************************)
LEMMA StepDetach ==
    ASSUME IInv, DetachCoordinator
    PROVE  IInv'
<1>1. ChannelTypes'
  BY Zenon DEF IInv, Types, ChannelTypes, DetachCoordinator, history
<1>2. TableTypes'
  BY StagingAssumption DEF IInv, Types, TableTypes, DetachCoordinator, history
<1>3. Flags'
  BY Zenon DEF IInv, Types, Flags, DetachCoordinator, history
<1>4. TaskTypes' /\ HistoryTypes'
  BY Zenon DEF IInv, Types, TaskTypes, HistoryTypes, DetachCoordinator, history
<1>5. Capped'
  BY FS_EmptySet, StagingAssumption DEF IInv, Capped, DetachCoordinator
<1>6. Stages' /\ InTime'
  BY DEF IInv, Types, TableTypes, TaskTypes, Stages, InTime, DetachCoordinator, history, TxnId
<1>7. WholeSoFar'
  BY Zenon DEF IInv, Types, TaskTypes, Stages, WholeSoFar, Gathered, DetachCoordinator, history
<1>8. NoSettlementLost'
  BY DEF IInv, Types, TaskTypes, HistoryTypes, NoSettlementLost, TxnId, NoTxn, DetachCoordinator, history
<1>9. AnswerReachesAsker' /\ DeclareFits'
  BY Zenon DEF IInv, AnswerReachesAsker, DeclareFits, DetachCoordinator, history
<1> QED
  BY Zenon, <1>1, <1>2, <1>3, <1>4, <1>5, <1>6, <1>7, <1>8, <1>9 DEF IInv, Types

(***************************************************************************)
(* An enqueue is staged, or refused at a cap and the transaction poisoned. *)
(***************************************************************************)
LEMMA StepStagePublish ==
    ASSUME IInv, NEW t \in TxnId, NEW sz \in BodySizes, stage_publish(t, sz)
    PROVE  IInv'
<1>0. sz \in Nat /\ t \in txns /\ t \in 1..next_id
  BY Zenon, StagingAssumption DEF IInv, Types, TableTypes, stage_publish
<1>1. ChannelTypes'
  BY Zenon DEF IInv, Types, ChannelTypes, stage_publish, channel, tasks
<1>2. TableTypes'
  BY <1>0, StagingAssumption DEF IInv, Types, TableTypes, stage_publish, FitsBytes
<1>3. Flags'
  BY Zenon DEF IInv, Types, Flags, stage_publish, Poisoned, channel
<1>4. TaskTypes' /\ HistoryTypes'
  BY DEF IInv, Types, TaskTypes, HistoryTypes, stage_publish, tasks
<1>5. Capped'
  <2>1. \A u \in TxnId : Cardinality(settles[u]) \in Nat
    BY Zenon, FS_CardinalityType DEF IInv, Capped
  <2>2. UNCHANGED <<txns, settles>>
    BY Zenon DEF stage_publish
  <2> QED
    BY <2>1, <2>2, StagingAssumption DEF IInv, Types, TableTypes, Capped, stage_publish, Room
<1>6. Stages' /\ InTime'
  <2>1. UNCHANGED <<next_id, txns, task, answered, under, in_time>>
    BY Zenon DEF stage_publish, tasks
  <2>2. ASSUME NEW u \in TxnId, u > next_id PROVE count'[u] = 0 /\ sent'[u] = 0
    <3>1. u # t
      BY <1>0, <2>2 DEF IInv, Types, TableTypes, TxnId
    <3> QED
      BY Zenon, <2>2, <3>1 DEF IInv, Types, TableTypes, HistoryTypes, Stages, stage_publish
  <2> QED
    BY Zenon, <2>1, <2>2 DEF IInv, Stages, InTime
<1>7. WholeSoFar'
  BY SMTT(30), <1>0 DEF IInv, Types, TableTypes, Flags, HistoryTypes, Stages, WholeSoFar, Gathered,
     stage_publish, Poisoned, tasks
<1>8. NoSettlementLost'
  BY Zenon DEF IInv, NoSettlementLost, stage_publish, tasks
<1>9. AnswerReachesAsker' /\ DeclareFits'
  BY Zenon DEF IInv, AnswerReachesAsker, DeclareFits, stage_publish, channel, tasks
<1> QED
  BY Zenon, <1>0, <1>1, <1>2, <1>3, <1>4, <1>5, <1>6, <1>7, <1>8, <1>9 DEF IInv, Types

(***************************************************************************)
(* A disposition under a transaction waits to be forwarded.                *)
(***************************************************************************)
LEMMA StepDisposition ==
    ASSUME IInv, NEW m \in Msg, NEW t \in TxnId, Disposition(m, t)
    PROVE  IInv'
<1>0. t \in 1..next_id /\ m \notin in_time /\ under[m] = NoTxn /\ t # NoTxn
  BY DEF IInv, InTime, Disposition, TxnId, NoTxn
<1>1. ChannelTypes'
  BY Zenon DEF IInv, Types, ChannelTypes, Disposition, channel, table, tasks
<1>2. TableTypes'
  BY StagingAssumption DEF IInv, Types, TableTypes, Disposition, channel, table, tasks
<1>3. Flags'
  BY Zenon DEF IInv, Types, Flags, Disposition, channel, table, tasks
<1>4. TaskTypes' /\ HistoryTypes'
  BY DEF IInv, Types, TaskTypes, HistoryTypes, Disposition, tasks, TxnId
<1>5. Capped'
  BY Zenon DEF IInv, Capped, Disposition, channel, table, tasks
<1>6. Stages' /\ InTime'
  BY <1>0 DEF IInv, Types, TableTypes, HistoryTypes, Stages, InTime, Disposition, table, tasks
<1>7. WholeSoFar'
  BY <1>0 DEF IInv, Types, HistoryTypes, Stages, WholeSoFar, Gathered, Disposition, table, tasks
<1>8. NoSettlementLost'
  BY Zenon DEF IInv, Types, TaskTypes, HistoryTypes, NoSettlementLost, TxnId, NoTxn, Disposition, channel, table, tasks
<1>9. AnswerReachesAsker' /\ DeclareFits'
  BY Zenon DEF IInv, AnswerReachesAsker, DeclareFits, Disposition, channel, table, tasks
<1> QED
  BY Zenon, <1>0, <1>1, <1>2, <1>3, <1>4, <1>5, <1>6, <1>7, <1>8, <1>9 DEF IInv, Types

(***************************************************************************)
(* A settlement is staged, or refused and its message requeued.            *)
(***************************************************************************)
LEMMA StepForward ==
    ASSUME IInv, NEW m \in Msg, NEW t \in TxnId, forward_settlement(m, t)
    PROVE  IInv'
<1>1. ChannelTypes'
  BY Zenon DEF IInv, Types, ChannelTypes, forward_settlement, channel, tasks, history
<1>2. TableTypes'
  BY StagingAssumption DEF IInv, Types, TableTypes, forward_settlement, channel, tasks, history
<1>3. Flags'
  BY Zenon DEF IInv, Types, Flags, forward_settlement, Poisoned, channel
<1>4. TaskTypes' /\ HistoryTypes'
  BY Zenon DEF IInv, Types, TaskTypes, HistoryTypes, forward_settlement, Requeued, tasks, history
<1>5. Capped'
  <2>1. \A u \in TxnId : /\ IsFiniteSet(settles[u] \cup {m})
                          /\ Cardinality(settles[u] \cup {m}) \in Nat
                          /\ Cardinality(settles[u]) \in Nat
                          /\ Cardinality(settles[u] \cup {m}) <= Cardinality(settles[u]) + 1
    BY Zenon, OneMore DEF IInv, Capped
  <2>2. UNCHANGED <<txns, count>>
    BY Zenon DEF forward_settlement
  <2> QED
    BY <2>1, <2>2, StagingAssumption DEF IInv, Types, TableTypes, Capped, forward_settlement, Room
<1>6. Stages' /\ InTime'
  BY Zenon DEF IInv, Types, TaskTypes, Stages, InTime, forward_settlement, channel, tasks, history
<1>7. WholeSoFar'
  <2>1. UNCHANGED <<txns, task, count, sent, under, in_time>>
    BY Zenon DEF forward_settlement, tasks, history
  <2>2. ASSUME NEW u \in TxnId, u # t
        PROVE  settles'[u] = settles[u] /\ rollback_only'[u] = rollback_only[u]
    BY Zenon, <2>2 DEF IInv, Types, TableTypes, Flags, forward_settlement, Poisoned
  <2>3. ASSUME NEW u \in TxnId, u # t, NEW n \in Msg
        PROVE  <<n, u>> \in settlements' <=> <<n, u>> \in settlements
    BY Zenon, <2>3 DEF forward_settlement
  <2>4. ASSUME NEW n \in Msg, n # m
        PROVE  <<n, t>> \in settlements' <=> <<n, t>> \in settlements
    BY Zenon, <2>4 DEF forward_settlement
  <2>5. CASE t \in txns /\ Room(t)
    <3>1. settles'[t] = settles[t] \cup {m} /\ UNCHANGED rollback_only
      BY <2>5 DEF IInv, Types, TableTypes, forward_settlement
    <3> QED
      BY <2>1, <2>2, <2>3, <2>4, <3>1 DEF IInv, Types, HistoryTypes, WholeSoFar, Gathered
  <2>6. CASE ~(t \in txns /\ Room(t))
    <3>1. settles' = settles /\ (t \in txns => rollback_only'[t])
      BY <2>6 DEF IInv, Types, Flags, forward_settlement, Poisoned
    <3>2. t \in txns => task[t] = "none"
      BY Zenon DEF IInv, Stages
    <3> QED
      BY <2>1, <2>2, <2>3, <3>1, <3>2 DEF IInv, Types, HistoryTypes, WholeSoFar, Gathered
  <2> QED
    BY <2>5, <2>6
<1>8. NoSettlementLost'
  <2>1. UNCHANGED <<txns, task, under>>
    BY Zenon DEF forward_settlement, tasks, history
  <2>2. ASSUME NEW n \in Msg, NEW u \in TxnId, <<n, u>> # <<m, t>>
        PROVE  <<n, u>> \in settlements' <=> <<n, u>> \in settlements
    BY <2>2 DEF forward_settlement
  <2>3. ASSUME NEW u \in TxnId PROVE settles[u] \subseteq settles'[u]
    BY DEF IInv, Types, TableTypes, forward_settlement
  <2>4. ASSUME NEW n \in Msg, owner'[n] = "consumer" PROVE owner[n] = "consumer"
    BY Zenon, <2>4 DEF IInv, Types, TaskTypes, forward_settlement, Requeued
  <2>5. owner'[m] # "consumer" \/ (t \in txns /\ m \in settles'[t])
    BY DEF IInv, Types, TableTypes, TaskTypes, forward_settlement, Requeued
  <2>6. \A n \in Msg : under[n] # NoTxn => under[n] \in TxnId
    BY DEF IInv, Types, HistoryTypes, TxnId, NoTxn
  <2> QED
    BY <2>1, <2>2, <2>3, <2>4, <2>5, <2>6 DEF IInv, NoSettlementLost
<1>9. AnswerReachesAsker' /\ DeclareFits'
  BY Zenon DEF IInv, AnswerReachesAsker, DeclareFits, forward_settlement, channel, tasks, history
<1> QED
  BY <1>1, <1>2, <1>3, <1>4, <1>5, <1>6, <1>7, <1>8, <1>9 DEF IInv, Types

(***************************************************************************)
(* A declare behind the drain takes the next id, or is refused at the cap. *)
(***************************************************************************)
LEMMA StepDeclare ==
    ASSUME IInv, declare
    PROVE  IInv'
<1>0. /\ Cardinality(txns) \in Nat /\ IsFiniteSet(txns)
      /\ Cardinality(txns) < MAX_TXNS => next_id + 1 \in TxnId
      /\ pc' = "run" /\ control' = [op |-> "none", txn |-> NoTxn]
  BY TableSize, StagingAssumption
     DEF IInv, Types, TableTypes, DeclareFits, declare, Handles, TxnId
<1>1. ChannelTypes'
  BY <1>0, StagingAssumption DEF IInv, Types, ChannelTypes, declare, channel, NoTxn
<1>2. TableTypes'
  <2>1. UNCHANGED <<count, size, settles, staged_bytes, settlements>>
    BY Zenon DEF declare
  <2>2. next_id' \in 0..MaxDeclares /\ txns' \subseteq 1..next_id'
    <3>1. CASE Cardinality(txns) < MAX_TXNS
      <4>1. next_id' = next_id + 1 /\ txns' = txns \cup {next_id + 1}
        BY <3>1 DEF declare
      <4> QED
        BY <1>0, <3>1, <4>1, Ids DEF IInv, Types, TxnId
    <3>2. CASE ~(Cardinality(txns) < MAX_TXNS)
      BY Zenon, <3>2 DEF IInv, Types, TableTypes, declare
    <3> QED
      BY <3>1, <3>2
  <2> QED
    BY <2>1, <2>2 DEF IInv, Types, TableTypes
<1>3. Flags'
  BY DEF IInv, Types, Flags, declare, channel, tasks, history
<1>4. TaskTypes' /\ HistoryTypes'
  BY DEF IInv, Types, TaskTypes, HistoryTypes, declare, channel, tasks, history
<1>5. Capped'
  <2>1. Cardinality(txns \cup {next_id + 1}) <= Cardinality(txns) + 1
        /\ Cardinality(txns \cup {next_id + 1}) \in Nat
    BY Zenon, <1>0, OneMore
  <2>2. Cardinality(txns) < MAX_TXNS =>
           Cardinality(txns \cup {next_id + 1}) <= MAX_TXNS
    BY SMT, <1>0, <2>1, StagingAssumption
  <2>3. \/ Cardinality(txns) < MAX_TXNS /\ txns' = txns \cup {next_id + 1}
        \/ txns' = txns
    BY Zenon DEF declare
  <2>4. Cardinality(txns') <= MAX_TXNS
    BY Zenon, <2>2, <2>3 DEF IInv, Capped
  <2>5. UNCHANGED <<settles, count>>
    BY Zenon DEF declare
  <2> QED
    BY Zenon, <2>4, <2>5 DEF IInv, Capped
<1>6. Stages' /\ InTime'
  <2>1. UNCHANGED <<count, sent, under, in_time, task, answered>>
    BY DEF declare, tasks, history
  <2>2. CASE Cardinality(txns) < MAX_TXNS
    <3>1. next_id' = next_id + 1 /\ txns' = txns \cup {next_id + 1} /\ next_id \in Nat
      BY <2>2 DEF IInv, Types, TableTypes, declare
    <3> QED
      BY <2>1, <3>1 DEF IInv, Types, HistoryTypes, Stages, InTime, TxnId
  <2>3. CASE ~(Cardinality(txns) < MAX_TXNS)
    BY <2>1, <2>3 DEF IInv, Stages, InTime, declare
  <2> QED
    BY <2>2, <2>3
<1>7. WholeSoFar'
  <2>1. UNCHANGED <<count, sent, under, in_time, task, settles, rollback_only, settlements>>
    BY Zenon DEF declare, tasks, history
  <2>2. CASE Cardinality(txns) < MAX_TXNS
    <3>1. next_id' = next_id + 1 /\ txns' = txns \cup {next_id + 1} /\ next_id \in Nat
      BY <2>2 DEF IInv, Types, TableTypes, declare
    <3>2. \A n \in in_time : under[n] # next_id + 1
      BY <3>1 DEF IInv, Types, HistoryTypes, Stages
    <3>3. next_id + 1 \in TxnId => count[next_id + 1] = sent[next_id + 1]
      BY <3>1 DEF IInv, Stages
    <3> QED
      BY <2>1, <3>1, <3>2, <3>3 DEF IInv, WholeSoFar, Gathered
  <2>3. CASE ~(Cardinality(txns) < MAX_TXNS)
    BY <2>1, <2>3 DEF IInv, WholeSoFar, Gathered, declare
  <2> QED
    BY <2>2, <2>3
<1>8. NoSettlementLost'
  BY DEF IInv, Types, TaskTypes, HistoryTypes, NoSettlementLost, TxnId, NoTxn, declare, channel, tasks, history
<1>9. AnswerReachesAsker' /\ DeclareFits'
  BY Zenon, <1>0 DEF IInv, AnswerReachesAsker, DeclareFits, declare, tasks
<1> QED
  BY SMTT(30), <1>0, <1>1, <1>2, <1>3, <1>4, <1>5, <1>6, <1>7, <1>8, <1>9 DEF IInv, Types

(***************************************************************************)
(* A discharge of an unknown transaction is rejected.                      *)
(***************************************************************************)
LEMMA StepDischargeUnknown ==
    ASSUME IInv, NEW op \in Outcomes, discharge(op), control.txn \notin txns
    PROVE  IInv'
<1>1. pc' = "run" /\ control' = [op |-> "none", txn |-> NoTxn]
      /\ UNCHANGED <<table, settlements, tasks, owner, history, channel>>
  BY Zenon DEF discharge, Handles, table, tasks
<1>2. ChannelTypes'
  BY <1>1, StagingAssumption DEF IInv, Types, ChannelTypes, channel, NoTxn
<1>3. coordinator' \in BOOLEAN
  BY Zenon, <1>1 DEF IInv, Types, Flags, channel
<1>4. DeclareFits'
  BY Zenon, <1>1 DEF DeclareFits
<1> QED
  BY <1>1, <1>2, <1>3, <1>4, Untouched

(***************************************************************************)
(* A discharge behind the drain takes the transaction and spawns its task. *)
(***************************************************************************)
LEMMA StepDischarge ==
    ASSUME IInv, NEW op \in Outcomes, discharge(op), control.txn \in txns
    PROVE  IInv'
<1>0. /\ settlements = {} /\ pc' = "run" /\ control' = [op |-> "none", txn |-> NoTxn]
      /\ UNCHANGED <<next_id, count, size, settles, rollback_only, settlements, answered,
                     owner, under, in_time, sent, session, next_session_id, coordinator>>
  BY Zenon DEF discharge, Handles, Drained, channel, history
<1> PICK t : t = control.txn
  BY Zenon
<1>a. /\ t \in txns /\ txns' = txns \ {t}
      /\ staged_bytes' = BytesFreed(t)
      /\ asker' = [asker EXCEPT ![t] = session]
  BY Zenon DEF discharge
<1> PICK x \in Outcomes : /\ task' = [task EXCEPT ![t] = x]
                          /\ x = "commit" => ~rollback_only[t]
  <2>1. task' = [task EXCEPT ![t] = IF op = "commit" /\ ~rollback_only[t]
                                    THEN "commit" ELSE "rollback"]
    BY Zenon DEF discharge
  <2> QED
    BY <2>1, Zenon DEF Outcomes
<1>b. t \in TxnId /\ t \in 1..next_id /\ next_id \in Nat
  BY <1>a, Ids DEF IInv, Types
<1>c. task[t] = "none" /\ task'[t] \in {"commit", "rollback"} /\ asker'[t] = session
      /\ (task'[t] = "commit" => ~rollback_only[t])
      /\ \A u \in TxnId : u # t => task'[u] = task[u] /\ asker'[u] = asker[u]
  BY <1>a, <1>b DEF IInv, Types, TaskTypes, Stages, Outcomes
<1>1. ChannelTypes'
  BY <1>0, StagingAssumption DEF IInv, Types, ChannelTypes, NoTxn
<1>2. TableTypes'
  <2>1. BytesFreed(t) \in 0..MAX_STAGED_BYTES
    BY <1>b, StagingAssumption DEF IInv, Types, TableTypes, BytesFreed
  <2> QED
    BY Zenon, <1>0, <1>a, <2>1 DEF IInv, Types, TableTypes
<1>3. Flags'
  BY <1>0 DEF IInv, Types, Flags
<1>4. TaskTypes' /\ HistoryTypes'
  <2>1. session \in Nat
    BY StagingAssumption DEF IInv, Types, ChannelTypes
  <2> QED
    BY SMTT(30), <1>0, <1>a, <1>b, <2>1 DEF IInv, Types, TaskTypes, HistoryTypes, Outcomes
<1>5. Capped'
  <2>1. Cardinality(txns') <= Cardinality(txns) /\ Cardinality(txns') \in Nat
        /\ Cardinality(txns) \in Nat
    BY <1>a, TableSize, FS_Subset, FS_CardinalityType DEF IInv, Types
  <2>2. Cardinality(txns') <= MAX_TXNS
    BY <2>1, StagingAssumption DEF IInv, Capped
  <2>3. UNCHANGED <<settles, count>>
    BY Zenon, <1>0
  <2> QED
    BY ZenonT(30), <2>2, <2>3 DEF IInv, Capped
<1>6. Stages' /\ InTime'
  BY SMTT(30), <1>0, <1>a, <1>b, <1>c DEF IInv, Stages, InTime, TxnId
<1>7. WholeSoFar'
  <2>1. ASSUME NEW u \in TxnId, u \in txns', ~rollback_only'[u]
        PROVE  u \in txns /\ ~rollback_only[u]
    BY <1>0, <1>a, <2>1
  <2>2. ASSUME NEW u \in TxnId, task'[u] \in {"commit", "committed"}
        PROVE  task[u] \in {"commit", "committed"} \/ (u \in txns /\ ~rollback_only[u])
    <3>1. CASE u = t
      BY SMTT(30), <1>a, <1>c, <2>2, <3>1
    <3>2. CASE u # t
      BY SMTT(30), <1>c, <2>2, <3>2
    <3> QED
      BY SMTT(30), <3>1, <3>2
  <2>3. ASSUME NEW u \in TxnId, Gathered(u) PROVE Gathered(u)'
    BY SMTT(30), <1>0, <2>3 DEF Gathered
  <2> QED
    BY ZenonT(30), <2>1, <2>2, <2>3 DEF IInv, WholeSoFar
<1>8. NoSettlementLost'
  <2>1. ASSUME NEW u \in txns PROVE u \in txns' \/ task'[u] \in {"commit", "rollback"}
    BY <1>a, <1>c
  <2>2. ASSUME NEW u \in TxnId, task[u] \in {"commit", "rollback"} PROVE task'[u] = task[u]
    BY <1>c, <2>2
  <2>3. \A n \in Msg : under[n] # NoTxn => under[n] \in TxnId
    BY SMTT(30) DEF IInv, Types, HistoryTypes, TxnId, NoTxn
  <2> QED
    BY SMTT(30), <1>0, <2>1, <2>2, <2>3 DEF IInv, NoSettlementLost
<1>9. AnswerReachesAsker' /\ DeclareFits'
  BY <1>0, <1>b, <1>c DEF IInv, Stages, AnswerReachesAsker, DeclareFits
<1> QED
  BY <1>0, <1>1, <1>2, <1>3, <1>4, <1>5, <1>6, <1>7, <1>8, <1>9 DEF IInv, Types

(***************************************************************************)
(* The discharge task applies or requeues the settlements.                 *)
(***************************************************************************)
LEMMA StepExecute ==
    ASSUME IInv, NEW t \in TxnId, NEW committed \in BOOLEAN, Execute(t, committed)
    PROVE  IInv'
<1>1. ChannelTypes'
  BY DEF IInv, Types, ChannelTypes, Execute, channel, table, history
<1>2. TableTypes'
  BY StagingAssumption DEF IInv, Types, TableTypes, Execute, channel, table, history
<1>3. Flags'
  BY DEF IInv, Types, Flags, Execute, channel, table, history
<1>4. TaskTypes' /\ HistoryTypes'
  BY SMTT(30) DEF IInv, Types, TaskTypes, HistoryTypes, Execute, history
<1>5. Capped'
  BY DEF IInv, Capped, Execute, table
<1>6. Stages' /\ InTime'
  BY DEF IInv, Types, TaskTypes, Stages, InTime, Execute, table, history
<1>7. WholeSoFar'
  BY DEF IInv, Types, TaskTypes, WholeSoFar, Gathered, Execute, table, history
<1>8. NoSettlementLost'
  <2>1. UNCHANGED <<txns, settles, settlements, under>>
    BY DEF Execute, table, history
  <2>2. ASSUME NEW n \in Msg, owner'[n] = "consumer"
        PROVE  owner[n] = "consumer" /\ n \notin settles[t]
    BY <2>2 DEF Execute
  <2>3. \A u \in TxnId : u # t => task'[u] = task[u]
    BY DEF IInv, Types, TaskTypes, Execute
  <2>4. \A n \in Msg : under[n] # NoTxn => under[n] \in TxnId
    BY DEF IInv, Types, HistoryTypes, TxnId, NoTxn
  <2> QED
    BY <2>1, <2>2, <2>3, <2>4 DEF IInv, NoSettlementLost
<1>9. AnswerReachesAsker' /\ DeclareFits'
  BY Zenon DEF IInv, AnswerReachesAsker, DeclareFits, Execute, table
<1> QED
  BY SMTT(30), <1>1, <1>2, <1>3, <1>4, <1>5, <1>6, <1>7, <1>8, <1>9 DEF IInv, Types

(***************************************************************************)
(* The outcome is answered on the session that asked, if it is still there. *)
(***************************************************************************)
LEMMA StepReport ==
    ASSUME IInv, NEW t \in TxnId, report_txn_done(t)
    PROVE  IInv'
<1>1. ChannelTypes'
  BY ZenonT(30) DEF IInv, Types, ChannelTypes, report_txn_done, channel, table, history
<1>2. TableTypes'
  BY SMTT(30), StagingAssumption DEF IInv, Types, TableTypes, report_txn_done, channel, table, history
<1>3. Flags'
  BY ZenonT(30) DEF IInv, Types, Flags, report_txn_done, channel, table, history
<1>4. TaskTypes' /\ HistoryTypes'
  BY SMTT(30), StagingAssumption DEF IInv, Types, ChannelTypes, TaskTypes, HistoryTypes,
     report_txn_done, history, NoSession
<1>5. Capped'
  BY Zenon DEF IInv, Capped, report_txn_done, table
<1>6. Stages' /\ InTime'
  BY SMTT(30) DEF IInv, Types, TaskTypes, Stages, InTime, report_txn_done, table, history
<1>7. WholeSoFar'
  BY ZenonT(30) DEF IInv, Types, TaskTypes, WholeSoFar, Gathered, report_txn_done, table, history
<1>8. NoSettlementLost'
  <2>1. UNCHANGED <<txns, settles, settlements, under, owner>>
    BY Zenon DEF report_txn_done, table, history
  <2>2. \A u \in TxnId : task[u] \in {"commit", "rollback"} => task'[u] = task[u]
    BY DEF IInv, Types, TaskTypes, report_txn_done
  <2>3. \A n \in Msg : under[n] # NoTxn => under[n] \in TxnId
    BY DEF IInv, Types, HistoryTypes, TxnId, NoTxn
  <2> QED
    BY Zenon, <2>1, <2>2, <2>3 DEF IInv, NoSettlementLost
<1>9. AnswerReachesAsker' /\ DeclareFits'
  BY Zenon DEF IInv, Types, TaskTypes, AnswerReachesAsker, DeclareFits, report_txn_done, SameSession, table
<1> QED
  BY SMTT(30), <1>1, <1>2, <1>3, <1>4, <1>5, <1>6, <1>7, <1>8, <1>9 DEF IInv, Types

(***************************************************************************)
(* The connection ends and the consumers are unsubscribed.                 *)
(***************************************************************************)
LEMMA StepCleanup ==
    ASSUME IInv, cleanup
    PROVE  IInv'
<1>1. ChannelTypes'
  BY DEF IInv, Types, ChannelTypes, cleanup, channel, tasks, history
<1>2. TableTypes'
  BY StagingAssumption DEF IInv, Types, TableTypes, cleanup, channel, tasks, history
<1>3. Flags'
  BY DEF IInv, Types, Flags, cleanup, channel, tasks, history
<1>4. TaskTypes' /\ HistoryTypes'
  BY DEF IInv, Types, TaskTypes, HistoryTypes, cleanup, channel, tasks, history
<1>5. Capped'
  BY FS_EmptySet, StagingAssumption DEF IInv, Capped, cleanup
<1>6. Stages' /\ InTime'
  BY SMTT(30) DEF IInv, Types, TableTypes, Stages, InTime, cleanup, tasks, history
<1>7. WholeSoFar'
  BY SMTT(30) DEF IInv, Stages, WholeSoFar, Gathered, cleanup, tasks, history
<1>8. NoSettlementLost'
  BY SMTT(30) DEF NoSettlementLost, cleanup
<1>9. AnswerReachesAsker' /\ DeclareFits'
  BY DEF IInv, AnswerReachesAsker, DeclareFits, cleanup, channel, tasks, history
<1> QED
  BY Zenon, <1>1, <1>2, <1>3, <1>4, <1>5, <1>6, <1>7, <1>8, <1>9 DEF IInv, Types

-----------------------------------------------------------------------------
(***************************************************************************)
(* Every step of the connection task and of its discharge tasks keeps the  *)
(* inductive invariant.                                                    *)
(***************************************************************************)
LEMMA StepIInv == IInv /\ [Next]_vars => IInv'
<1> SUFFICES ASSUME IInv, [Next]_vars PROVE IInv'
  OBVIOUS
<1>1. ASSUME NEW t \in TxnId, NEW op \in {"commit", "rollback"}, t <= next_id, Control(op, t)
      PROVE  IInv'
  <2>1. t \in 0..MaxDeclares /\ op \in {"declare", "commit", "rollback"} /\ op # "declare"
    BY StagingAssumption DEF TxnId
  <2> QED
    BY <1>1, <2>1, StepControl
<1>2. ASSUME next_id < MaxDeclares \/ Cardinality(txns) >= MAX_TXNS,
             Control("declare", NoTxn)
      PROVE  IInv'
  <2>1. NoTxn \in 0..MaxDeclares
    BY StagingAssumption DEF NoTxn
  <2> QED
    BY <1>2, <2>1, StepControl
<1>3. ASSUME NEW op \in Outcomes, discharge(op) PROVE IInv'
  BY SMTT(30), <1>3, StepDischarge, StepDischargeUnknown
<1>4. CASE UNCHANGED vars
  <2>1. UNCHANGED <<table, settlements, tasks, owner, history, pc, control, channel>>
    BY SMTT(30), <1>4 DEF vars
  <2>2. ChannelTypes' /\ DeclareFits'
    BY <2>1 DEF IInv, Types, ChannelTypes, DeclareFits, channel, table
  <2>3. coordinator' \in BOOLEAN
    BY SMTT(30), <2>1 DEF IInv, Types, Flags, channel
  <2> QED
    BY SMTT(30), <2>1, <2>2, <2>3, Untouched
<1>5. CASE Next
  BY SMTT(30), <1>1, <1>2, <1>3, <1>5, StepChannel, StepDetach, StepStagePublish, StepDisposition,
     StepForward, StepDeclare, StepExecute, StepReport, StepCleanup DEF Next, Outcomes
<1> QED
  BY <1>4, <1>5

(***************************************************************************)
(* The inductive invariant holds throughout.                               *)
(***************************************************************************)
LEMMA IInvHolds == Spec => []IInv
BY InitIInv, StepIInv, PTL DEF Spec

(***************************************************************************)
(* The caps hold and the types are kept: a connection never has more than  *)
(* MAX_TXNS transactions, none has more than MAX_STAGED pieces of work,    *)
(* and no more than MAX_STAGED_BYTES are staged, whatever is declared,     *)
(* discharged, refused and detached (txn.rs).                              *)
(***************************************************************************)
THEOREM CapsHold == Spec => []TypeOK
<1>1. IInv => TypeOK
  BY DEF IInv, Types, ChannelTypes, TableTypes, Flags, TaskTypes, Capped, TypeOK
<1> QED
  BY <1>1, IInvHolds, PTL

(***************************************************************************)
(* A commit is whole: it has every enqueue and every settlement sent       *)
(* before its discharge, however late the settlements are forwarded, for   *)
(* the drain comes before the discharge and work refused at a cap poisons  *)
(* the transaction (connection.rs, txn.rs rollback_only).                  *)
(***************************************************************************)
THEOREM CommitsWhole == Spec => []CommitIsWhole
<1>1. ASSUME IInv, NEW t \in TxnId, task[t] = "committed"
      PROVE  count[t] = sent[t] /\ \A m \in in_time : under[m] = t => m \in settles[t]
  <2>1. t \notin txns /\ Gathered(t)
    BY SMTT(30), <1>1 DEF IInv, Stages, WholeSoFar
  <2> QED
    BY Zenon, <2>1 DEF Gathered
<1>2. IInv => CommitIsWhole
  BY <1>1 DEF CommitIsWhole
<1> QED
  BY <1>2, IInvHolds, PTL

(***************************************************************************)
(* No settled message is forgotten: it waits to be forwarded, or is staged *)
(* in an open transaction or in the hands of a discharge task, across      *)
(* detaches, session ends and the end of the connection.                   *)
(***************************************************************************)
THEOREM SettlementsKept == Spec => []NoSettlementLost
<1>1. IInv => NoSettlementLost
  BY DEF IInv
<1> QED
  BY <1>1, IInvHolds, PTL

(***************************************************************************)
(* A discharge is answered on the session that asked, never on one that    *)
(* has taken its channel over (report_txn_done).                           *)
(***************************************************************************)
THEOREM AnswersReachAskers == Spec => []AnswerReachesAsker
<1>1. IInv => AnswerReachesAsker
  BY Zenon DEF IInv
<1> QED
  BY <1>1, IInvHolds, PTL
=============================================================================
