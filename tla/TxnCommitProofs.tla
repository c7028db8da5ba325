-------------------------- MODULE TxnCommitProofs --------------------------
(***************************************************************************)
(* Proofs about TxnCommit, for any number of queues, transactions, staged  *)
(* enqueues and settlements, any mailbox capacity and any failures: the    *)
(* answer to a discharge is honest, and staged settlements have the fate   *)
(* it says.                                                                *)
(*                                                                         *)
(* The argument is a relation between where a discharge task is, which of  *)
(* its enqueues have landed and which of its messages are still in a       *)
(* mailbox.  At most one request (Reserve or PublishReserved) of a task is *)
(* on its way, so that the answer a task takes is the one it waits for.    *)
(***************************************************************************)
EXTENDS TxnCommit, FiniteSetTheorems, TLAPS

Requests == {"Reserve", "PublishReserved"}

Letter ==
    [op : Requests \cup {"Unreserve"}, txn : Txn, n : Int]
    \cup [op : {"Settle"}, txn : Txn, msg : Msg, outcome : {"Ack", "Requeue"}]
    \cup [op : {"Unsubscribe"}]

Types ==
    /\ publishes \in [Txn -> Seq(Queue)]
    /\ staged_by \in [Msg -> Txn]
    /\ mode \in [Txn -> {"none", "commit", "rollback", "rollback_only"}]
    /\ pc \in [Txn -> {"staged", "reserve", "reserving", "publish",
                       "publishing", "settle", "abort", "done"}]
    /\ remaining \in [Txn -> [Queue -> Int]]
    /\ applied \in [Txn -> Nat]
    /\ unsent \in [Txn -> SUBSET Msg]
    /\ outcome \in [Txn -> {"none", "Complete", "RolledBack", "Partial"}]
    /\ mbox \in [Queue -> Seq(Letter)]
    /\ alive \in [Queue -> BOOLEAN]
    /\ owner \in [Msg -> {"consumer", "ready", "other", "acked"}]

-----------------------------------------------------------------------------
(* The inductive invariant *)

\* The first n enqueues of t have landed, and no other.
LandedIs(t, n) == \A k \in Nat \ {0} : <<t, k>> \in landed <=> k <= n

\* The discharge of t cannot succeed any more.
FailedAt(t) ==
    IF mode[t] = "commit"
    THEN /\ applied[t] < Len(publishes[t])
         /\ \/ LandedIs(t, applied[t])
            \/ "unconfirmed" \in Failures /\ LandedIs(t, applied[t] + 1)
    ELSE applied[t] = 0 /\ LandedIs(t, 0)

\* Every enqueue of the commit of t has landed.
Whole(t) == mode[t] = "commit" /\ LandedIs(t, Len(publishes[t]))

\* Where the task of t is says what has landed.
Stage(t) ==
    /\ pc[t] = "staged" => applied[t] = 0 /\ LandedIs(t, 0)
    /\ pc[t] \in {"reserve", "reserving"} => applied[t] = 0
    /\ pc[t] \in {"reserve", "reserving", "publish", "publishing"} =>
          /\ mode[t] = "commit"
          /\ applied[t] < Len(publishes[t])
          /\ LandedIs(t, applied[t])
    /\ pc[t] = "settle" => Whole(t)
    /\ pc[t] = "abort" => FailedAt(t)
    /\ pc[t] # "done" => outcome[t] = "none"

\* What the answer to t says has landed.
Answer(t) ==
    /\ outcome[t] = "Complete" =>
          Whole(t) \/ (mode[t] = "rollback" /\ LandedIs(t, 0))
    /\ outcome[t] = "RolledBack" => FailedAt(t) /\ applied[t] = 0
    /\ outcome[t] = "Partial" => FailedAt(t) /\ applied[t] > 0

StageInv == \A t \in Txn : Stage(t) /\ Answer(t)

\* A request in a mailbox is the one its task waits for, and the only one.
Awaited ==
    \A q \in Queue : \A i \in DOMAIN mbox[q] :
        /\ mbox[q][i].op = "Reserve" => pc[mbox[q][i].txn] = "reserving"
        /\ mbox[q][i].op = "PublishReserved" =>
              /\ pc[mbox[q][i].txn] = "publishing"
              /\ mbox[q][i].n = applied[mbox[q][i].txn] + 1

Alone ==
    \A q, r \in Queue : \A i \in DOMAIN mbox[q], j \in DOMAIN mbox[r] :
        /\ mbox[q][i].op \in Requests /\ mbox[r][j].op \in Requests
        /\ mbox[q][i].txn = mbox[r][j].txn
        => q = r /\ i = j

RequestInv == Awaited /\ Alone

\* The commits that have landed, and stay so.
Committed == {t \in Txn : pc[t] \in {"settle", "done"} /\ Whole(t)}

\* Only they send an Ack, and only theirs are applied.
AcksCommitted ==
    \A q \in Queue : \A i \in DOMAIN mbox[q] :
        mbox[q][i].op = "Settle" /\ mbox[q][i].outcome = "Ack" =>
            staged_by[mbox[q][i].msg] \in Committed

AckedCommitted == \A m \in Msg : owner[m] = "acked" => staged_by[m] \in Committed

\* What a task has left to send.
UnsentOwn ==
    \A t \in Txn : /\ \A m \in unsent[t] : staged_by[m] = t
                   /\ pc[t] = "done" => unsent[t] = {}

\* The settlement of a message still in flight is staged or on its way.
SettleAhead ==
    \A m \in Msg : alive[home[m]] /\ owner[m] = "consumer" =>
        m \in unsent[staged_by[m]] \/ SettlePending(m)

SettleInv == AcksCommitted /\ AckedCommitted /\ UnsentOwn /\ SettleAhead

IInv == Types /\ StageInv /\ RequestInv /\ SettleInv

-----------------------------------------------------------------------------
(* Mailboxes *)

\* A message that is sent is the last of its mailbox, and nothing else changes.
LEMMA Pushed ==
    ASSUME mbox \in [Queue -> Seq(Letter)], NEW q \in Queue, NEW msg \in Letter,
           Send(q, msg)
    PROVE  /\ mbox' \in [Queue -> Seq(Letter)]
           /\ \A p \in Queue : \A i \in DOMAIN mbox'[p] :
                 \/ i \in DOMAIN mbox[p] /\ mbox'[p][i] = mbox[p][i]
                 \/ p = q /\ i = Len(mbox[q]) + 1 /\ mbox'[p][i] = msg
           /\ \A p \in Queue : \A i \in DOMAIN mbox[p] :
                 i \in DOMAIN mbox'[p] /\ mbox'[p][i] = mbox[p][i]
           /\ alive[q] => \E i \in DOMAIN mbox'[q] : mbox'[q][i] = msg
<1>1. CASE ~alive[q]
  BY Zenon, <1>1 DEF Send
<1>2. CASE alive[q]
  <2> DEFINE s == mbox[q]
  <2>1. mbox' = [mbox EXCEPT ![q] = Append(s, msg)]
    BY Zenon, <1>2 DEF Send
  <2>2. s \in Seq(Letter) /\ Len(s) \in Nat /\ DOMAIN s = 1..Len(s)
    OBVIOUS
  <2>3. /\ Append(s, msg) \in Seq(Letter)
        /\ Len(Append(s, msg)) = Len(s) + 1
        /\ \A i \in 1..Len(s) : Append(s, msg)[i] = s[i]
        /\ Append(s, msg)[Len(s) + 1] = msg
    BY <2>2
  <2>4. DOMAIN Append(s, msg) = 1..Len(s) + 1
    BY <2>3
  <2>5. mbox'[q] = Append(s, msg) /\ \A p \in Queue \ {q} : mbox'[p] = mbox[p]
    BY Zenon, <2>1
  <2>6. mbox' \in [Queue -> Seq(Letter)]
    BY Zenon, <2>1, <2>3
  <2> HIDE DEF s
  <2>7. \A i \in 1..Len(s) + 1 : i \in 1..Len(s) \/ i = Len(s) + 1
    BY <2>2
  <2>8. Len(s) + 1 \in 1..Len(s) + 1 /\ 1..Len(s) \subseteq 1..Len(s) + 1
    BY <2>2
  <2> QED
    BY ZenonT(30), <2>2, <2>3, <2>4, <2>5, <2>6, <2>7, <2>8 DEF s
<1> QED
  BY Zenon, <1>1, <1>2

\* What an actor takes is the first message, and the others move up.
LEMMA Popped ==
    ASSUME mbox \in [Queue -> Seq(Letter)], NEW q \in Queue, NEW op, Takes(q, op)
    PROVE  /\ mbox' \in [Queue -> Seq(Letter)]
           /\ 1 \in DOMAIN mbox[q] /\ Head(mbox[q]) = mbox[q][1]
           /\ Head(mbox[q]) \in Letter /\ mbox[q][1].op = op
           /\ \A p \in Queue : \A i \in DOMAIN mbox'[p] :
                 IF p = q THEN /\ i + 1 \in DOMAIN mbox[q] /\ i + 1 # 1
                               /\ mbox'[q][i] = mbox[q][i + 1]
                 ELSE i \in DOMAIN mbox[p] /\ mbox'[p][i] = mbox[p][i]
           /\ \A i \in DOMAIN mbox[q] : i # 1 =>
                 \E j \in DOMAIN mbox'[q] : mbox'[q][j] = mbox[q][i]
           /\ \A p \in Queue : p # q => mbox'[p] = mbox[p]
<1> DEFINE s == mbox[q]
<1>1. mbox' = [mbox EXCEPT ![q] = Tail(s)] /\ s # <<>> /\ Head(s).op = op
  BY Zenon DEF Takes
<1>2. s \in Seq(Letter) /\ Len(s) \in Nat /\ DOMAIN s = 1..Len(s)
  OBVIOUS
<1>3. Len(s) \in Nat \ {0}
  BY <1>1, <1>2
<1>4. /\ Tail(s) \in Seq(Letter)
      /\ Len(Tail(s)) = Len(s) - 1
      /\ \A i \in 1..Len(Tail(s)) : Tail(s)[i] = s[i + 1]
      /\ Head(s) = s[1] /\ Head(s) \in Letter
  BY <1>1, <1>2, <1>3
<1>5. DOMAIN Tail(s) = 1..Len(s) - 1
  BY <1>4
<1>6. mbox'[q] = Tail(s) /\ \A p \in Queue \ {q} : mbox'[p] = mbox[p]
  BY Zenon, <1>1
<1>7. mbox' \in [Queue -> Seq(Letter)]
  BY Zenon, <1>1, <1>4
<1> HIDE DEF s
<1>8. /\ 1 \in 1..Len(s)
      /\ \A i \in 1..Len(s) - 1 : i + 1 \in 1..Len(s) /\ i + 1 # 1
      /\ \A i \in 1..Len(s) : i # 1 => i - 1 \in 1..Len(s) - 1 /\ (i - 1) + 1 = i
  BY <1>3
<1>9. \A i \in DOMAIN s : i # 1 => \E j \in DOMAIN Tail(s) : Tail(s)[j] = s[i]
  <2> TAKE i \in DOMAIN s
  <2> HAVE i # 1
  <2>1. i - 1 \in DOMAIN Tail(s) /\ Tail(s)[i - 1] = s[i]
    BY Zenon, <1>2, <1>4, <1>5, <1>8
  <2> QED BY Zenon, <2>1
<1> QED
  BY <1>1, <1>2, <1>4, <1>5, <1>6, <1>7, <1>8, <1>9 DEF s

-----------------------------------------------------------------------------
(* Initial states *)

LEMMA CountInt ==
    ASSUME publishes \in [Txn -> Seq(Queue)], NEW t \in Txn, NEW q \in Queue
    PROVE  Count(t, q) \in Int
<1> DEFINE S == {k \in DOMAIN publishes[t] : publishes[t][k] = q}
<1>1. Len(publishes[t]) \in Nat /\ DOMAIN publishes[t] = 1..Len(publishes[t])
  OBVIOUS
<1>2. IsFiniteSet(1..Len(publishes[t]))
  BY <1>1, FS_Interval
<1>3. IsFiniteSet(S)
  BY <1>1, <1>2, FS_Subset
<1> QED
  BY <1>3, FS_CardinalityType DEF Count

LEMMA InitIInv == Init => IInv
<1> SUFFICES ASSUME Init PROVE IInv
  BY Zenon
<1> USE DEF Init
<1>1. publishes \in [Txn -> Seq(Queue)]
  <2> DEFINE Lists == UNION {[1..n -> Queue] : n \in 0..MaxPublishes}
  <2>1. \A n \in 0..MaxPublishes : [1..n -> Queue] \subseteq Seq(Queue)
    BY CommitAssumption DEF CommitAssumption
  <2>2. Lists \subseteq Seq(Queue)
    BY ZenonT(30), <2>1
  <2>3. publishes \in [Txn -> Lists]
    BY Zenon
  <2> HIDE DEF Lists
  <2> QED BY Zenon, <2>2, <2>3
<1>2. \A q \in Queue : mbox[q] = <<>> /\ DOMAIN mbox[q] = {}
  OBVIOUS
<1>3. mbox \in [Queue -> Seq(Letter)]
  OBVIOUS
<1>4. Types
  BY <1>1, <1>3 DEF Types
<1>5. StageInv
  BY <1>4 DEF StageInv, Stage, Answer, LandedIs
<1>6. RequestInv
  BY Zenon, <1>2 DEF RequestInv, Awaited, Alone
<1>7. SettleInv
  <2>1. home \in [Msg -> Queue]
    BY Zenon, CommitAssumption DEF CommitAssumption
  <2> QED
    BY Zenon, <1>2, <2>1 DEF SettleInv, AcksCommitted, AckedCommitted, UnsentOwn, SettleAhead
<1> QED
  BY Zenon, <1>4, <1>5, <1>6, <1>7 DEF IInv

-----------------------------------------------------------------------------
(* Types *)

\* The letters the actions send.
LEMMA RequestLetters ==
    ASSUME Types, NEW t \in Txn, NEW q \in Queue
    PROVE  /\ [op |-> "Reserve", txn |-> t, n |-> Count(t, q)] \in Letter
           /\ [op |-> "PublishReserved", txn |-> t, n |-> applied[t] + 1] \in Letter
           /\ [op |-> "Unreserve", txn |-> t, n |-> remaining[t][q]] \in Letter
<1>1. Count(t, q) \in Int
  BY Zenon, CountInt DEF Types
<1>2. applied[t] + 1 \in Int /\ remaining[t][q] \in Int
  BY DEF Types
<1> QED
  BY Zenon, <1>1, <1>2 DEF Letter, Requests

LEMMA SettleLetter ==
    ASSUME NEW t \in Txn, NEW m \in Msg
    PROVE  [op |-> "Settle", txn |-> t, msg |-> m, outcome |-> settle_outcome(t)] \in Letter
  BY Zenon DEF Letter, settle_outcome

\* What the fields of a letter are.
LEMMA Fields ==
    ASSUME NEW l \in Letter
    PROVE  /\ l.op \in Requests \cup {"Unreserve"} => l.txn \in Txn /\ l.n \in Int
           /\ l.op = "Settle" => l.txn \in Txn /\ l.msg \in Msg
  BY Zenon DEF Letter, Requests

-----------------------------------------------------------------------------
(* What a step leaves alone *)

\* The step does not move the discharge of t.
Unmoved(t) ==
    /\ pc'[t] = pc[t] /\ mode'[t] = mode[t]
    /\ applied'[t] = applied[t] /\ outcome'[t] = outcome[t]
    /\ publishes' = publishes
    /\ \A k \in Nat \ {0} : <<t, k>> \in landed' <=> <<t, k>> \in landed

LEMMA StageUnmoved ==
    ASSUME NEW t \in Txn, Stage(t), Answer(t), Unmoved(t)
    PROVE  Stage(t)' /\ Answer(t)' /\ (t \in Committed => t \in Committed')
<1>2. (FailedAt(t)' <=> FailedAt(t)) /\ (Whole(t)' <=> Whole(t))
  <2>1. /\ LandedIs(t, 0)' <=> LandedIs(t, 0)
        /\ LandedIs(t, applied[t])' <=> LandedIs(t, applied[t])
        /\ LandedIs(t, applied[t] + 1)' <=> LandedIs(t, applied[t] + 1)
        /\ LandedIs(t, Len(publishes[t]))' <=> LandedIs(t, Len(publishes[t]))
    BY Zenon DEF LandedIs, Unmoved
  <2> QED BY Zenon, <2>1 DEF Unmoved, FailedAt, Whole
<1>3. LandedIs(t, 0)' <=> LandedIs(t, 0)
  BY Zenon DEF LandedIs, Unmoved
<1>4. LandedIs(t, applied[t])' <=> LandedIs(t, applied[t])
  BY Zenon DEF LandedIs, Unmoved
<1> QED
  BY Zenon, <1>2, <1>3, <1>4 DEF Stage, Answer, Committed, Unmoved

\* The requests in the mailboxes after the step are those of before, but for
\* the one that was taken: no other is of the same transaction.
LEMMA PoppedRequests ==
    ASSUME IInv, NEW q \in Queue, NEW op, Takes(q, op)
    PROVE  /\ \A p \in Queue : \A i \in DOMAIN mbox'[p] :
                 /\ \E j \in DOMAIN mbox[p] : mbox'[p][i] = mbox[p][j]
                 /\ mbox'[p][i] \in Letter
                 /\ op \in Requests /\ mbox'[p][i].op \in Requests =>
                       mbox'[p][i].txn # mbox[q][1].txn
           /\ Alone'
<1> DEFINE Old(p, i) == IF p = q THEN i + 1 ELSE i
<1>1. mbox \in [Queue -> Seq(Letter)]
  BY Zenon DEF IInv, Types
<1>2. /\ mbox' \in [Queue -> Seq(Letter)]
      /\ 1 \in DOMAIN mbox[q] /\ mbox[q][1].op = op
  BY Zenon, <1>1, Popped
<1>3. \A p \in Queue : \A i \in DOMAIN mbox'[p] :
         /\ Old(p, i) \in DOMAIN mbox[p] /\ mbox'[p][i] = mbox[p][Old(p, i)]
         /\ p = q => Old(p, i) # 1
  BY <1>1, Popped
<1>4. \A p \in Queue : \A i \in DOMAIN mbox'[p] : i \in Nat /\ mbox'[p][i] \in Letter
  <2> TAKE p \in Queue
  <2>1. mbox'[p] \in Seq(Letter)
    BY Zenon, <1>2
  <2>2. Len(mbox'[p]) \in Nat /\ DOMAIN mbox'[p] = 1..Len(mbox'[p])
    BY <2>1
  <2> QED
    BY <2>1, <2>2
<1>5. \A p \in Queue : \A i, j \in DOMAIN mbox'[p] : Old(p, i) = Old(p, j) => i = j
  BY <1>4
<1> HIDE DEF Old
<1>6. Alone
  BY Zenon DEF IInv, RequestInv
<1>7. \A p \in Queue : \A i \in DOMAIN mbox'[p] :
         op \in Requests /\ mbox'[p][i].op \in Requests => mbox'[p][i].txn # mbox[q][1].txn
  BY <1>2, <1>3, <1>6 DEF Alone
<1>8. Alone'
  BY <1>3, <1>5, <1>6 DEF Alone
<1> QED
  BY Zenon, <1>3, <1>4, <1>7, <1>8

\* A step that sends msg keeps the requests apart if msg is none, or if its
\* transaction had none on its way.
LEMMA PushedRequests ==
    ASSUME IInv, NEW q \in Queue, NEW msg \in Letter, Send(q, msg),
           msg.op \in Requests => pc[msg.txn] \notin {"reserving", "publishing"}
    PROVE  /\ \A p \in Queue : \A i \in DOMAIN mbox'[p] :
                 \/ mbox'[p][i] = msg
                 \/ \E j \in DOMAIN mbox[p] : mbox'[p][i] = mbox[p][j]
           /\ Alone'
<1>1. mbox \in [Queue -> Seq(Letter)]
  BY Zenon DEF IInv, Types
<1>2. \A p \in Queue : \A i \in DOMAIN mbox'[p] :
         \/ i \in DOMAIN mbox[p] /\ mbox'[p][i] = mbox[p][i]
         \/ p = q /\ i = Len(mbox[q]) + 1 /\ mbox'[p][i] = msg
  BY <1>1, Pushed
<1>3. \A p \in Queue : \A i \in DOMAIN mbox[p] :
         mbox[p][i].op \in Requests => pc[mbox[p][i].txn] \in {"reserving", "publishing"}
  BY Zenon DEF IInv, RequestInv, Awaited, Requests
<1>4. Alone
  BY Zenon DEF IInv, RequestInv
<1>5. Alone'
  BY <1>2, <1>3, <1>4 DEF Alone
<1> QED
  BY Zenon, <1>2, <1>5

\* What a step that sends msg does to the settlements on their way.
LEMMA PushedSettles ==
    ASSUME IInv, NEW q \in Queue, NEW msg \in Letter, Send(q, msg),
           UNCHANGED <<staged_by, owner, alive>>,
           Committed \subseteq Committed',
           msg.op = "Settle" /\ msg.outcome = "Ack" => staged_by[msg.msg] \in Committed
    PROVE  AcksCommitted' /\ AckedCommitted' /\ \A m \in Msg : SettlePending(m) => SettlePending(m)'
<1> USE CommitAssumption DEF CommitAssumption
<1>1. mbox \in [Queue -> Seq(Letter)]
  BY Zenon DEF IInv, Types
<1>2. /\ \A p \in Queue : \A i \in DOMAIN mbox'[p] :
            \/ i \in DOMAIN mbox[p] /\ mbox'[p][i] = mbox[p][i]
            \/ mbox'[p][i] = msg
      /\ \A p \in Queue : \A i \in DOMAIN mbox[p] :
            i \in DOMAIN mbox'[p] /\ mbox'[p][i] = mbox[p][i]
  BY <1>1, Pushed
<1>3. AcksCommitted /\ AckedCommitted
  BY Zenon DEF IInv, SettleInv
<1>4. AcksCommitted'
  BY <1>2, <1>3 DEF AcksCommitted
<1>5. AckedCommitted'
  BY Zenon, <1>3 DEF AckedCommitted
<1>6. \A m \in Msg : SettlePending(m) => SettlePending(m)'
  BY <1>2 DEF SettlePending
<1> QED
  BY Zenon, <1>4, <1>5, <1>6

-----------------------------------------------------------------------------
(* A discharge task and a consumer that detaches: each step preserves the  *)
(* invariant.                                                              *)

\* A step that moves no task waiting for an answer, and sends msg: the request
\* of a task that now waits for its answer, or no request.
LEMMA RequestsPushed ==
    ASSUME IInv, NEW q \in Queue, NEW msg \in Letter, Send(q, msg),
           \A u \in Txn : pc[u] \in {"reserving", "publishing"} =>
               pc'[u] = pc[u] /\ applied'[u] = applied[u],
           msg.op \in Requests => pc[msg.txn] \notin {"reserving", "publishing"},
           alive[q] /\ msg.op = "Reserve" => pc'[msg.txn] = "reserving",
           alive[q] /\ msg.op = "PublishReserved" =>
               pc'[msg.txn] = "publishing" /\ msg.n = applied'[msg.txn] + 1
    PROVE  RequestInv'
<1>1. mbox \in [Queue -> Seq(Letter)]
  BY Zenon DEF IInv, Types
<1>2. Alone'
  BY Zenon, PushedRequests
<1>3. Awaited
  BY Zenon DEF IInv, RequestInv
<1>4. \A p \in Queue : \A i \in DOMAIN mbox[p] :
         mbox[p][i].op \in Requests =>
             /\ pc'[mbox[p][i].txn] = pc[mbox[p][i].txn]
             /\ applied'[mbox[p][i].txn] = applied[mbox[p][i].txn]
  <2> SUFFICES ASSUME NEW p \in Queue, NEW i \in DOMAIN mbox[p], mbox[p][i].op \in Requests
               PROVE  /\ pc'[mbox[p][i].txn] = pc[mbox[p][i].txn]
                      /\ applied'[mbox[p][i].txn] = applied[mbox[p][i].txn]
    BY Zenon
  <2>1. mbox[p] \in Seq(Letter)
    BY Zenon, <1>1
  <2>2. mbox[p][i] \in Letter
    BY <2>1
  <2>3. mbox[p][i].txn \in Txn
    BY Zenon, <2>2, Fields
  <2>4. pc[mbox[p][i].txn] \in {"reserving", "publishing"}
    BY Zenon, <1>3 DEF Awaited, Requests
  <2> QED
    BY Zenon, <2>3, <2>4
<1>5. \A p \in Queue : \A i \in DOMAIN mbox[p] :
         /\ mbox[p][i].op = "Reserve" => pc'[mbox[p][i].txn] = "reserving"
         /\ mbox[p][i].op = "PublishReserved" =>
               /\ pc'[mbox[p][i].txn] = "publishing"
               /\ mbox[p][i].n = applied'[mbox[p][i].txn] + 1
  BY <1>3, <1>4 DEF Awaited, Requests
<1>6. CASE alive[q]
  <2>1. \A p \in Queue : \A i \in DOMAIN mbox'[p] :
           mbox'[p][i] = msg \/ \E j \in DOMAIN mbox[p] : mbox'[p][i] = mbox[p][j]
    BY Zenon, PushedRequests
  <2>2. Awaited'
    BY SMTT(30), <1>5, <1>6, <2>1 DEF Awaited
  <2> QED
    BY Zenon, <1>2, <2>2 DEF RequestInv
<1>7. CASE ~alive[q]
  <2>1. mbox' = mbox
    BY Zenon, <1>7 DEF Send
  <2>2. Awaited'
    BY Zenon, <1>5, <2>1 DEF Awaited
  <2> QED
    BY Zenon, <1>2, <2>2 DEF RequestInv
<1> QED
  BY Zenon, <1>6, <1>7

\* A step that moves only the task of t, which waits for no answer, and leaves
\* the mailboxes alone.
LEMMA RequestsKept ==
    ASSUME IInv, NEW t \in Txn, pc[t] \notin {"reserving", "publishing"},
           \A u \in Txn \ {t} : pc'[u] = pc[u], UNCHANGED <<mbox, applied>>
    PROVE  RequestInv'
<1>1. Awaited /\ Alone
  BY Zenon DEF IInv, RequestInv
<1>2. Alone'
  BY <1>1 DEF Alone
<1>3. \A p \in Queue : \A i \in DOMAIN mbox[p] :
         mbox[p][i].op \in Requests => pc'[mbox[p][i].txn] = pc[mbox[p][i].txn]
  <2> SUFFICES ASSUME NEW p \in Queue, NEW i \in DOMAIN mbox[p], mbox[p][i].op \in Requests
               PROVE  pc'[mbox[p][i].txn] = pc[mbox[p][i].txn]
    BY Zenon
  <2>1. mbox[p] \in Seq(Letter)
    BY Zenon DEF IInv, Types
  <2>2. mbox[p][i] \in Letter
    BY <2>1
  <2>3. mbox[p][i].txn \in Txn
    BY Zenon, <2>2, Fields
  <2>4. pc[mbox[p][i].txn] \in {"reserving", "publishing"}
    BY Zenon, <1>1 DEF Awaited, Requests
  <2> QED
    BY Zenon, <2>3, <2>4
<1>4. Awaited'
  BY <1>1, <1>3 DEF Awaited, Requests
<1> QED
  BY Zenon, <1>2, <1>4 DEF RequestInv

\* A step that sends no settlement.
LEMMA SettlesPushed ==
    ASSUME IInv, NEW q \in Queue, NEW msg \in Letter, Send(q, msg), msg.op # "Settle",
           UNCHANGED <<staged_by, owner, alive, unsent>>,
           Committed \subseteq Committed',
           \A t \in Txn : pc'[t] = "done" => pc[t] = "done"
    PROVE  SettleInv'
<1>1. AcksCommitted' /\ AckedCommitted' /\ \A m \in Msg : SettlePending(m) => SettlePending(m)'
  BY Zenon, PushedSettles
<1>2. UnsentOwn /\ SettleAhead
  BY Zenon DEF IInv, SettleInv
<1>3. UnsentOwn'
  BY Zenon, <1>2 DEF UnsentOwn
<1>4. SettleAhead'
  BY Zenon, <1>1, <1>2 DEF SettleAhead
<1> QED
  BY Zenon, <1>1, <1>3, <1>4 DEF SettleInv

\* A step that sends nothing.
LEMMA SettlesKept ==
    ASSUME IInv, UNCHANGED <<mbox, staged_by, owner, alive, unsent>>,
           Committed \subseteq Committed',
           \A t \in Txn : pc'[t] = "done" => unsent[t] = {}
    PROVE  SettleInv'
<1>1. AcksCommitted /\ AckedCommitted /\ UnsentOwn /\ SettleAhead
  BY Zenon DEF IInv, SettleInv
<1>2. AcksCommitted'
  BY Zenon, <1>1 DEF AcksCommitted
<1>3. AckedCommitted'
  BY Zenon, <1>1 DEF AckedCommitted
<1>4. UnsentOwn'
  BY Zenon, <1>1 DEF UnsentOwn
<1>5. SettleAhead'
  BY Zenon, <1>1 DEF SettleAhead, SettlePending
<1> QED
  BY Zenon, <1>2, <1>3, <1>4, <1>5 DEF SettleInv

-----------------------------------------------------------------------------
LEMMA StepDischarge ==
    ASSUME IInv, NEW t \in Txn, NEW how \in {"commit", "rollback", "rollback_only"},
           Discharge(t, how)
    PROVE  IInv'
<1> USE DEF Discharge, Goto, plan, queues
<1>1. Types'
  BY Zenon DEF IInv, Types
<1>2. \A u \in Txn : u # t => Unmoved(u)
  BY Zenon DEF IInv, Types, Unmoved
<1>3. publishes[t] \in Seq(Queue) /\ Len(publishes[t]) \in Nat
  BY DEF IInv, Types
<1>4. publishes[t] # <<>> => 0 < Len(publishes[t])
  BY <1>3
<1>5. publishes[t] = <<>> => Len(publishes[t]) = 0
  BY <1>3
<1>6. LandedIs(t, 0)' /\ applied'[t] = 0 /\ outcome'[t] = "none"
  BY Zenon DEF IInv, Types, StageInv, Stage, LandedIs
<1>7. Stage(t)' /\ Answer(t)'
  BY Zenon, <1>3, <1>4, <1>5, <1>6 DEF IInv, Types, Stage, Answer, Whole, FailedAt
<1>8. StageInv'
  BY Zenon, <1>2, <1>7, StageUnmoved DEF IInv, StageInv
<1>9. RequestInv'
  BY Zenon, <1>2, RequestsKept DEF Unmoved
<1>10. Committed \subseteq Committed'
  <2>1. t \notin Committed /\ Committed \subseteq Txn
    BY Zenon DEF Committed
  <2> QED
    BY Zenon, <1>2, <2>1, StageUnmoved DEF IInv, StageInv
<1>11. SettleInv'
  <2>1. \A u \in Txn : pc'[u] = "done" => unsent[u] = {}
    BY Zenon DEF IInv, Types, SettleInv, UnsentOwn
  <2> QED
    BY Zenon, <1>10, <2>1, SettlesKept
<1> QED
  BY Zenon, <1>1, <1>8, <1>9, <1>11 DEF IInv

LEMMA StepSendReserve ==
    ASSUME IInv, NEW t \in Txn, NEW q \in Queue, SendReserve(t, q)
    PROVE  IInv'
<1> USE DEF SendReserve, Goto, plan
<1> DEFINE msg == [op |-> "Reserve", txn |-> t, n |-> Count(t, q)]
<1>1. msg \in Letter
  BY RequestLetters, Zenon DEF IInv
<1>2. Send(q, msg) /\ msg.op = "Reserve" /\ msg.txn = t
  BY Zenon
<1> HIDE DEF msg
<1>3. mbox' \in [Queue -> Seq(Letter)]
  BY Zenon, <1>1, <1>2, Pushed DEF IInv, Types
<1>4. /\ pc' \in [Txn -> {"staged", "reserve", "reserving", "publish",
                          "publishing", "settle", "abort", "done"}]
      /\ pc'[t] = IF alive[q] THEN "reserving" ELSE "abort"
      /\ \A u \in Txn \ {t} : pc'[u] = pc[u]
  BY Zenon DEF IInv, Types
<1>5. /\ pc[t] = "reserve"
      /\ UNCHANGED <<publishes, staged_by, mode, remaining, applied, unsent, outcome,
                     alive, owner, landed>>
  BY Zenon
<1> HIDE DEF SendReserve
<1>6. Types'
  BY Zenon, <1>3, <1>4, <1>5 DEF IInv, Types
<1>7. \A u \in Txn : u # t => Unmoved(u)
  BY Zenon, <1>4, <1>5 DEF Unmoved
<1>8. /\ mode[t] = "commit" /\ applied[t] = 0 /\ outcome[t] = "none"
      /\ applied[t] < Len(publishes[t]) /\ LandedIs(t, applied[t])'
  BY Zenon, <1>5 DEF IInv, StageInv, Stage, LandedIs
<1>9. Stage(t)' /\ Answer(t)'
  BY Zenon, <1>4, <1>5, <1>8 DEF Stage, Answer, FailedAt
<1>10. StageInv'
  BY Zenon, <1>7, <1>9, StageUnmoved DEF IInv, StageInv
<1>11. RequestInv'
  <2>1. \A u \in Txn : pc[u] \in {"reserving", "publishing"} =>
           pc'[u] = pc[u] /\ applied'[u] = applied[u]
    BY Zenon, <1>4, <1>5
  <2>2. /\ msg.op \in Requests => pc[msg.txn] \notin {"reserving", "publishing"}
        /\ alive[q] /\ msg.op = "Reserve" => pc'[msg.txn] = "reserving"
        /\ alive[q] /\ msg.op = "PublishReserved" =>
              pc'[msg.txn] = "publishing" /\ msg.n = applied'[msg.txn] + 1
    BY Zenon, <1>2, <1>4, <1>5
  <2> QED
    BY <1>1, <1>2, <2>1, <2>2, RequestsPushed, Zenon
<1>12. Committed \subseteq Committed'
  <2>1. t \notin Committed /\ Committed \subseteq Txn
    BY Zenon, <1>5 DEF Committed
  <2> QED
    BY Zenon, <1>7, <2>1, StageUnmoved DEF IInv, StageInv
<1>13. SettleInv'
  BY Zenon, <1>1, <1>2, <1>4, <1>5, <1>12, SettlesPushed
<1> QED
  BY Zenon, <1>6, <1>10, <1>11, <1>13 DEF IInv

LEMMA StepSendPublish ==
    ASSUME IInv, NEW t \in Txn, SendPublish(t)
    PROVE  IInv'
<1> USE DEF SendPublish, Goto, plan
<1>1. PICK q \in Queue : q = publishes[t][applied[t] + 1]
  <2>1. publishes[t] \in Seq(Queue) /\ applied[t] \in Nat /\ applied[t] < Len(publishes[t])
    BY Zenon DEF IInv, Types, StageInv, Stage
  <2>2. Len(publishes[t]) \in Nat
    BY SMTT(30), <2>1
  <2>3. applied[t] + 1 \in 1..Len(publishes[t])
    BY <2>1, <2>2
  <2> QED
    BY SMTT(30), <2>1, <2>3
<1> DEFINE msg == [op |-> "PublishReserved", txn |-> t, n |-> applied[t] + 1]
<1>2. msg \in Letter
  BY <1>1, RequestLetters, Zenon DEF IInv
<1>3. /\ Send(q, msg)
      /\ msg.op = "PublishReserved" /\ msg.txn = t /\ msg.n = applied[t] + 1
  BY Zenon, <1>1
<1> HIDE DEF msg
<1>4. mbox' \in [Queue -> Seq(Letter)]
  BY Zenon, <1>2, <1>3, Pushed DEF IInv, Types
<1>5. /\ pc' = [pc EXCEPT ![t] = IF alive[q] THEN "publishing" ELSE "abort"]
      /\ remaining' = [remaining EXCEPT ![t][q] = @ - 1]
  BY Zenon, <1>1
<1>6. /\ pc[t] = "publish"
      /\ UNCHANGED <<publishes, staged_by, mode, applied, unsent, outcome, alive,
                     owner, landed>>
  BY Zenon
<1> HIDE DEF SendPublish
<1>7. /\ pc' \in [Txn -> {"staged", "reserve", "reserving", "publish",
                          "publishing", "settle", "abort", "done"}]
      /\ pc'[t] = IF alive[q] THEN "publishing" ELSE "abort"
      /\ \A u \in Txn \ {t} : pc'[u] = pc[u]
  BY Zenon, <1>5 DEF IInv, Types
<1>8. remaining' \in [Txn -> [Queue -> Int]]
  BY <1>5 DEF IInv, Types
<1>9. Types'
  BY Zenon, <1>4, <1>6, <1>7, <1>8 DEF IInv, Types
<1>10. \A u \in Txn : u # t => Unmoved(u)
  BY Zenon, <1>6, <1>7 DEF Unmoved
<1>11. /\ mode[t] = "commit" /\ outcome[t] = "none"
       /\ applied[t] < Len(publishes[t]) /\ LandedIs(t, applied[t])'
  BY Zenon, <1>6 DEF IInv, StageInv, Stage, LandedIs
<1>12. Stage(t)' /\ Answer(t)'
  BY Zenon, <1>6, <1>7, <1>11 DEF Stage, Answer, FailedAt
<1>13. StageInv'
  BY Zenon, <1>10, <1>12, StageUnmoved DEF IInv, StageInv
<1>14. RequestInv'
  <2>1. \A u \in Txn : pc[u] \in {"reserving", "publishing"} =>
           pc'[u] = pc[u] /\ applied'[u] = applied[u]
    BY Zenon, <1>6, <1>7
  <2>2. /\ msg.op \in Requests => pc[msg.txn] \notin {"reserving", "publishing"}
        /\ alive[q] /\ msg.op = "Reserve" => pc'[msg.txn] = "reserving"
        /\ alive[q] /\ msg.op = "PublishReserved" =>
              pc'[msg.txn] = "publishing" /\ msg.n = applied'[msg.txn] + 1
    BY Zenon, <1>3, <1>6, <1>7
  <2> QED
    BY <1>2, <1>3, <2>1, <2>2, RequestsPushed, Zenon
<1>15. Committed \subseteq Committed'
  <2>1. t \notin Committed /\ Committed \subseteq Txn
    BY Zenon, <1>6 DEF Committed
  <2> QED
    BY Zenon, <1>10, <2>1, StageUnmoved DEF IInv, StageInv
<1>16. SettleInv'
  BY Zenon, <1>2, <1>3, <1>6, <1>7, <1>15, SettlesPushed
<1> QED
  BY ZenonT(30), <1>9, <1>13, <1>14, <1>16 DEF IInv

\* A step that sends what is no request and moves no task.
LEMMA QuietSend ==
    ASSUME IInv, NEW q \in Queue, NEW msg \in Letter, Send(q, msg),
           msg.op \notin Requests,
           UNCHANGED <<plan, mode, pc, applied, outcome, alive, owner, landed>>
    PROVE  /\ mbox' \in [Queue -> Seq(Letter)]
           /\ StageInv' /\ RequestInv'
           /\ Committed \subseteq Committed'
<1> USE DEF plan
<1>1. mbox' \in [Queue -> Seq(Letter)]
  BY Zenon, Pushed DEF IInv, Types
<1>2. \A u \in Txn : Unmoved(u)
  BY Zenon DEF Unmoved
<1>3. StageInv'
  BY Zenon, <1>2, StageUnmoved DEF IInv, StageInv
<1>4. RequestInv'
  <2>1. msg.op # "Reserve" /\ msg.op # "PublishReserved"
    BY Zenon DEF Requests
  <2>2. \A u \in Txn : pc'[u] = pc[u] /\ applied'[u] = applied[u]
    BY Zenon
  <2> QED
    BY <2>1, <2>2, RequestsPushed, Zenon
<1>5. Committed \subseteq Committed'
  BY Zenon, <1>2, StageUnmoved DEF IInv, StageInv, Committed
<1> QED
  BY Zenon, <1>1, <1>3, <1>4, <1>5

LEMMA StepSendUnreserve ==
    ASSUME IInv, NEW t \in Txn, NEW q \in Queue, SendUnreserve(t, q)
    PROVE  IInv'
<1> USE DEF SendUnreserve, plan
<1> DEFINE msg == [op |-> "Unreserve", txn |-> t, n |-> remaining[t][q]]
<1>0. msg \in Letter
  BY RequestLetters, Zenon DEF IInv
<1>1. msg \in Letter /\ Send(q, msg) /\ msg.op = "Unreserve"
  BY Zenon, <1>0
<1> HIDE DEF msg
<1>2. /\ mbox' \in [Queue -> Seq(Letter)]
      /\ StageInv' /\ RequestInv'
      /\ Committed \subseteq Committed'
  BY Zenon, <1>1, QuietSend DEF Requests
<1>3. Types'
  BY SMTT(30), <1>2 DEF IInv, Types
<1>4. SettleInv'
  BY Zenon, <1>1, <1>2, SettlesPushed
<1> QED
  BY Zenon, <1>2, <1>3, <1>4 DEF IInv

LEMMA StepConsumerDetaches ==
    ASSUME IInv, NEW q \in Queue, ConsumerDetaches(q)
    PROVE  IInv'
<1> USE DEF ConsumerDetaches, plan, task
<1> DEFINE msg == [op |-> "Unsubscribe"]
<1>1. msg \in Letter /\ Send(q, msg) /\ msg.op = "Unsubscribe"
  BY Zenon DEF Letter
<1> HIDE DEF msg
<1>2. /\ mbox' \in [Queue -> Seq(Letter)]
      /\ StageInv' /\ RequestInv'
      /\ Committed \subseteq Committed'
  BY Zenon, <1>1, QuietSend DEF Requests
<1>3. Types'
  BY Zenon, <1>2 DEF IInv, Types
<1>4. SettleInv'
  BY ZenonT(30), <1>1, <1>2, SettlesPushed
<1> QED
  BY Zenon, <1>2, <1>3, <1>4 DEF IInv

LEMMA StepSendSettle ==
    ASSUME IInv, NEW t \in Txn, NEW m \in Msg, SendSettle(t, m)
    PROVE  IInv'
<1> PICK q \in Queue : q = home[m]
  BY Zenon, CommitAssumption DEF CommitAssumption
<1> PICK msg : msg = [op |-> "Settle", txn |-> t, msg |-> m, outcome |-> settle_outcome(t)]
  BY ZenonT(30)
<1>1. /\ Settling(t) /\ m \in unsent[t] /\ Send(q, msg)
      /\ unsent' = [unsent EXCEPT ![t] = @ \ {m}]
      /\ UNCHANGED <<plan, mode, pc, asked, remaining, applied, outcome, alive,
                     depth, reserved, owner, landed>>
      /\ UNCHANGED staged_by
  BY Zenon DEF SendSettle, plan
<1>2. /\ msg \in Letter /\ msg.op = "Settle" /\ msg.msg = m
      /\ msg.outcome = settle_outcome(t) /\ msg.op \notin Requests
  BY Zenon, SettleLetter DEF Requests
<1>3. /\ mbox' \in [Queue -> Seq(Letter)]
      /\ StageInv' /\ RequestInv'
      /\ Committed \subseteq Committed'
  BY Zenon, <1>1, <1>2, QuietSend
<1>4. Types'
  BY Zenon, <1>1, <1>3 DEF IInv, Types, plan
<1>5. UnsentOwn /\ SettleAhead /\ staged_by \in [Msg -> Txn] /\ unsent \in [Txn -> SUBSET Msg]
  BY Zenon DEF IInv, Types, SettleInv
<1>6. staged_by[m] = t
  BY Zenon, <1>1, <1>5 DEF UnsentOwn
<1>7. msg.outcome = "Ack" => staged_by[m] \in Committed
  <2>1. pc[t] = "settle" => Whole(t)
    BY Zenon DEF IInv, StageInv, Stage
  <2> QED
    BY Zenon, <1>2, <1>6, <2>1 DEF settle_outcome, Committed
<1>8. AcksCommitted' /\ AckedCommitted' /\ \A n \in Msg : SettlePending(n) => SettlePending(n)'
  BY Zenon, <1>1, <1>2, <1>3, <1>7, PushedSettles
<1>9. alive[q] => SettlePending(m)'
  <2>1. alive[q] => \E i \in DOMAIN mbox'[q] : mbox'[q][i] = msg
    <3>1. mbox \in [Queue -> Seq(Letter)]
      BY Zenon DEF IInv, Types
    <3> QED
      BY SMTT(30), <1>1, <1>2, <3>1, Pushed
  <2> QED
    BY ZenonT(30), <1>2, <2>1 DEF SettlePending
<1>10. UnsentOwn'
  BY Zenon, <1>1, <1>5 DEF UnsentOwn
<1>11. SettleAhead'
  <2>1. \A n \in Msg : n # m /\ n \in unsent[staged_by[n]] => n \in unsent'[staged_by[n]]
    BY Zenon, <1>1, <1>5
  <2> QED
    BY Zenon, <1>1, <1>5, <1>8, <1>9, <2>1 DEF SettleAhead
<1>12. SettleInv'
  BY Zenon, <1>8, <1>10, <1>11 DEF SettleInv
<1> QED
  BY Zenon, <1>3, <1>4, <1>12 DEF IInv

LEMMA StepFinish ==
    ASSUME IInv, NEW t \in Txn, Finish(t)
    PROVE  IInv'
<1> USE DEF Finish, Goto, plan, queues
<1>1. pc[t] \in {"settle", "abort"} /\ unsent[t] = {}
  BY Zenon DEF AllSent, Settling
<1>2. Types'
  BY Zenon DEF IInv, Types, discharge_outcome
<1>3. \A u \in Txn : u # t => Unmoved(u)
  BY Zenon DEF IInv, Types, Unmoved
<1>4. /\ FailedAt(t)' <=> FailedAt(t)
      /\ Whole(t)' <=> Whole(t)
      /\ LandedIs(t, 0)' <=> LandedIs(t, 0)
  <2>1. /\ LandedIs(t, 0)' <=> LandedIs(t, 0)
        /\ LandedIs(t, applied[t])' <=> LandedIs(t, applied[t])
        /\ LandedIs(t, applied[t] + 1)' <=> LandedIs(t, applied[t] + 1)
        /\ LandedIs(t, Len(publishes[t]))' <=> LandedIs(t, Len(publishes[t]))
    BY Zenon DEF LandedIs
  <2> QED
    BY Zenon, <2>1 DEF FailedAt, Whole
<1>5. pc[t] = "settle" => Whole(t)
  BY Zenon DEF IInv, StageInv, Stage
<1>6. pc[t] = "abort" => FailedAt(t)
  BY Zenon DEF IInv, StageInv, Stage
<1>7. pc[t] = "abort" /\ mode[t] = "rollback" => LandedIs(t, 0)
  BY Zenon, <1>6 DEF FailedAt
<1>8. Stage(t)' /\ Answer(t)'
  <2>1. outcome'[t] = discharge_outcome(t) /\ pc'[t] = "done"
        /\ mode'[t] = mode[t] /\ applied'[t] = applied[t] /\ applied[t] \in Nat
    BY Zenon DEF IInv, Types
  <2>2. Stage(t)'
    BY Zenon, <2>1 DEF Stage
  <2>3. Answer(t)'
    <3>1. CASE pc[t] = "settle"
      <4>1. discharge_outcome(t) = "Complete" /\ Whole(t)'
        BY Zenon, <1>4, <1>5, <3>1 DEF discharge_outcome
      <4> QED
        BY Zenon, <2>1, <4>1 DEF Answer
    <3>2. CASE pc[t] = "abort"
      <4>1. FailedAt(t)' /\ (mode[t] = "rollback" => LandedIs(t, 0)')
        BY Zenon, <1>4, <1>6, <1>7, <3>2
      <4>2. discharge_outcome(t) =
              IF mode[t] = "rollback" THEN "Complete"
              ELSE IF applied[t] = 0 THEN "RolledBack" ELSE "Partial"
        BY Zenon, <3>2 DEF discharge_outcome
      <4> QED
        BY SMTT(30), <2>1, <4>1, <4>2 DEF Answer
    <3> QED
      BY Zenon, <1>1, <3>1, <3>2
  <2> QED
    BY Zenon, <2>2, <2>3
<1>9. StageInv'
  BY Zenon, <1>3, <1>8, StageUnmoved DEF IInv, StageInv
<1>10. RequestInv'
  BY Zenon, <1>1, <1>3, RequestsKept DEF Unmoved
<1>11. Committed \subseteq Committed'
  <2>1. t \in Committed => t \in Committed'
    BY Zenon, <1>4 DEF Committed, IInv, Types
  <2>2. Committed \subseteq Txn
    BY Zenon DEF Committed
  <2> QED
    BY Zenon, <1>3, <2>1, <2>2, StageUnmoved DEF IInv, StageInv
<1>12. SettleInv'
  <2>1. \A u \in Txn : pc'[u] = "done" => unsent[u] = {}
    BY Zenon, <1>1 DEF IInv, Types, SettleInv, UnsentOwn
  <2> QED
    BY Zenon, <1>11, <2>1, SettlesKept
<1> QED
  BY Zenon, <1>2, <1>9, <1>10, <1>12 DEF IInv

-----------------------------------------------------------------------------
(* A queue actor: it takes a message, or stops.                            *)

\* What a step that takes a message does to the settlements on their way.
LEMMA PoppedSettles ==
    ASSUME IInv, NEW q \in Queue, NEW op, Takes(q, op), UNCHANGED staged_by,
           Committed \subseteq Committed'
    PROVE  /\ AcksCommitted'
           /\ \A m \in Msg : SettlePending(m) =>
                 SettlePending(m)' \/ (op = "Settle" /\ mbox[q][1].msg = m)
<1>1. mbox \in [Queue -> Seq(Letter)]
  BY Zenon DEF IInv, Types
<1>2. \A p \in Queue : \A i \in DOMAIN mbox'[p] :
         \E j \in DOMAIN mbox[p] : mbox'[p][i] = mbox[p][j]
  BY PoppedRequests
<1>3. AcksCommitted'
  BY <1>2 DEF IInv, SettleInv, AcksCommitted
<1>4. /\ \A i \in DOMAIN mbox[q] : i # 1 =>
            \E j \in DOMAIN mbox'[q] : mbox'[q][j] = mbox[q][i]
      /\ \A p \in Queue : p # q => mbox'[p] = mbox[p]
      /\ mbox[q][1].op = op
  BY Zenon, <1>1, Popped
<1>5. \A m \in Msg : SettlePending(m) =>
         SettlePending(m)' \/ (op = "Settle" /\ mbox[q][1].msg = m)
  <2> SUFFICES ASSUME NEW m \in Msg, SettlePending(m),
                      ~(op = "Settle" /\ mbox[q][1].msg = m)
               PROVE  SettlePending(m)'
    BY Zenon
  <2>1. home[m] \in Queue
    BY Zenon, CommitAssumption DEF CommitAssumption
  <2>2. PICK i \in DOMAIN mbox[home[m]] :
           mbox[home[m]][i].op = "Settle" /\ mbox[home[m]][i].msg = m
    BY Zenon DEF SettlePending
  <2>3. \E j \in DOMAIN mbox'[home[m]] : mbox'[home[m]][j] = mbox[home[m]][i]
    BY <1>4, <2>1, <2>2
  <2> QED
    BY Zenon, <2>2, <2>3 DEF SettlePending
<1> QED
  BY Zenon, <1>3, <1>5

\* A step that takes what is no request and moves no task.
LEMMA QuietTake ==
    ASSUME IInv, NEW q \in Queue, NEW op, Takes(q, op), op \notin Requests,
           UNCHANGED <<plan, task, alive, landed>>,
           owner' \in [Msg -> {"consumer", "ready", "other", "acked"}],
           \A m \in Msg : owner'[m] = "consumer" =>
               owner[m] = "consumer" /\ ~(op = "Settle" /\ mbox[q][1].msg = m),
           \A m \in Msg : owner'[m] = "acked" =>
               owner[m] = "acked" \/ staged_by[m] \in Committed
    PROVE  IInv'
<1> USE DEF plan, task
<1>1. Types'
  BY Zenon, Popped DEF IInv, Types
<1>2. \A u \in Txn : Unmoved(u)
  BY Zenon DEF Unmoved
<1>3. StageInv'
  BY Zenon, <1>2, StageUnmoved DEF IInv, StageInv
<1>4. RequestInv'
  <2>1. Alone' /\ Awaited
    BY Zenon, PoppedRequests DEF IInv, RequestInv
  <2>2. \A p \in Queue : \A i \in DOMAIN mbox'[p] :
           \E j \in DOMAIN mbox[p] : mbox'[p][i] = mbox[p][j]
    BY SMTT(30), PoppedRequests
  <2>3. Awaited'
    BY <2>1, <2>2 DEF Awaited
  <2> QED
    BY Zenon, <2>1, <2>3 DEF RequestInv
<1>5. Committed \subseteq Committed'
  BY Zenon, <1>2, StageUnmoved DEF IInv, StageInv, Committed
<1>6. SettleInv'
  <2>1. /\ AcksCommitted'
        /\ \A m \in Msg : SettlePending(m) =>
              SettlePending(m)' \/ (op = "Settle" /\ mbox[q][1].msg = m)
    BY Zenon, <1>5, PoppedSettles
  <2>2. AckedCommitted /\ UnsentOwn /\ SettleAhead
    BY Zenon DEF IInv, SettleInv
  <2>3. AckedCommitted'
    BY Zenon, <1>5, <2>2 DEF AckedCommitted
  <2>4. UnsentOwn'
    BY Zenon, <2>2 DEF UnsentOwn
  <2>5. SettleAhead'
    BY Zenon, <2>1, <2>2 DEF SettleAhead
  <2> QED
    BY Zenon, <2>1, <2>3, <2>4, <2>5 DEF SettleInv
<1> QED
  BY Zenon, <1>1, <1>3, <1>4, <1>6 DEF IInv

LEMMA StepRecvUnreserve ==
    ASSUME IInv, NEW q \in Queue, RecvUnreserve(q)
    PROVE  IInv'
<1>1. owner \in [Msg -> {"consumer", "ready", "other", "acked"}] /\ owner' = owner
  BY Zenon DEF RecvUnreserve, IInv, Types
<1> QED
  BY <1>1, QuietTake DEF RecvUnreserve, Requests

LEMMA StepRecvUnsubscribe ==
    ASSUME IInv, NEW q \in Queue, RecvUnsubscribe(q)
    PROVE  IInv'
<1> USE DEF RecvUnsubscribe
<1>1. /\ owner' \in [Msg -> {"consumer", "ready", "other", "acked"}]
      /\ \A m \in Msg : owner'[m] = "consumer" => owner[m] = "consumer"
      /\ \A m \in Msg : owner'[m] = "acked" => owner[m] = "acked"
  BY Zenon DEF IInv, Types
<1> QED
  BY <1>1, QuietTake DEF Requests

LEMMA StepRecvSettle ==
    ASSUME IInv, NEW q \in Queue, RecvSettle(q)
    PROVE  IInv'
<1> USE DEF RecvSettle
<1> DEFINE msg == Head(mbox[q])
<1>1. /\ Takes(q, "Settle") /\ msg = mbox[q][1] /\ 1 \in DOMAIN mbox[q]
      /\ msg \in Letter /\ msg.op = "Settle"
  BY Popped DEF IInv, Types
<1>2. msg.msg \in Msg
  BY Zenon, <1>1, Fields
<1>3. msg.outcome = "Ack" => staged_by[msg.msg] \in Committed
  BY Zenon, <1>1 DEF IInv, SettleInv, AcksCommitted
<1>4. owner' = IF owner[msg.msg] # "consumer" THEN owner
               ELSE [owner EXCEPT ![msg.msg] = IF msg.outcome = "Ack" THEN "acked" ELSE "ready"]
  BY Zenon
<1>5. UNCHANGED <<plan, task, alive, landed>>
  BY Zenon
<1> HIDE DEF msg, RecvSettle
<1>6. owner' \in [Msg -> {"consumer", "ready", "other", "acked"}]
  BY Zenon, <1>2, <1>4 DEF IInv, Types
<1>7. \A m \in Msg : owner'[m] = "consumer" => owner[m] = "consumer" /\ msg.msg # m
  BY <1>2, <1>4 DEF IInv, Types
<1>8. \A m \in Msg : owner'[m] = "acked" => owner[m] = "acked" \/ staged_by[m] \in Committed
  BY Zenon, <1>2, <1>3, <1>4 DEF IInv, Types
<1> QED
  BY SMTT(30), <1>1, <1>5, <1>6, <1>7, <1>8, QuietTake DEF Requests

\* A step that takes the request of t and moves on no task but that of t.
LEMMA RequestTaken ==
    ASSUME IInv, NEW q \in Queue, NEW op \in Requests, Takes(q, op),
           NEW t \in Txn, t = Head(mbox[q]).txn,
           UNCHANGED <<plan, mode, unsent, outcome, alive, owner>>,
           \A u \in Txn : u # t => Unmoved(u),
           pc' \in [Txn -> {"staged", "reserve", "reserving", "publish",
                            "publishing", "settle", "abort", "done"}],
           pc'[t] # "done"
    PROVE  /\ mbox' \in [Queue -> Seq(Letter)]
           /\ RequestInv' /\ SettleInv'
<1> USE DEF plan
<1>1. /\ mbox' \in [Queue -> Seq(Letter)]
      /\ 1 \in DOMAIN mbox[q] /\ mbox[q][1].op = op /\ t = mbox[q][1].txn
  BY ZenonT(30), Popped DEF IInv, Types
<1>2. pc[t] \in {"reserving", "publishing"}
  BY <1>1 DEF IInv, RequestInv, Awaited, Requests
<1>3. RequestInv'
  <2>1. \A p \in Queue : \A i \in DOMAIN mbox'[p] :
           /\ \E j \in DOMAIN mbox[p] : mbox'[p][i] = mbox[p][j]
           /\ mbox'[p][i] \in Letter
           /\ mbox'[p][i].op \in Requests => mbox'[p][i].txn # t
    BY <1>1, PoppedRequests
  <2>2. \A p \in Queue : \A i \in DOMAIN mbox'[p] :
           mbox'[p][i].op \in Requests => Unmoved(mbox'[p][i].txn)
    <3> SUFFICES ASSUME NEW p \in Queue, NEW i \in DOMAIN mbox'[p], mbox'[p][i].op \in Requests
                 PROVE  Unmoved(mbox'[p][i].txn)
      BY Zenon
    <3>1. mbox'[p][i].txn \in Txn /\ mbox'[p][i].txn # t
      BY ZenonT(30), <2>1, Fields
    <3> QED
      BY Zenon, <3>1
  <2>3. \A p \in Queue : \A j \in DOMAIN mbox[p] :
           Unmoved(mbox[p][j].txn) =>
               /\ mbox[p][j].op = "Reserve" => pc'[mbox[p][j].txn] = "reserving"
               /\ mbox[p][j].op = "PublishReserved" =>
                     /\ pc'[mbox[p][j].txn] = "publishing"
                     /\ mbox[p][j].n = applied'[mbox[p][j].txn] + 1
    BY DEF IInv, RequestInv, Awaited, Unmoved
  <2>4. Awaited'
    <3> SUFFICES ASSUME NEW p \in Queue, NEW i \in DOMAIN mbox'[p]
                 PROVE  /\ mbox'[p][i].op = "Reserve" => pc'[mbox'[p][i].txn] = "reserving"
                        /\ mbox'[p][i].op = "PublishReserved" =>
                              /\ pc'[mbox'[p][i].txn] = "publishing"
                              /\ mbox'[p][i].n = applied'[mbox'[p][i].txn] + 1
      BY Zenon DEF Awaited
    <3> PICK j \in DOMAIN mbox[p] : mbox'[p][i] = mbox[p][j]
      BY Zenon, <2>1
    <3> PICK r : r = mbox[p][j]
      BY Zenon
    <3>1. r.op \in Requests => Unmoved(r.txn)
      BY Zenon, <2>2
    <3>2. Unmoved(r.txn) =>
             /\ r.op = "Reserve" => pc'[r.txn] = "reserving"
             /\ r.op = "PublishReserved" =>
                   pc'[r.txn] = "publishing" /\ r.n = applied'[r.txn] + 1
      BY Zenon, <2>3
    <3> QED
      BY Zenon, <3>1, <3>2 DEF Requests
  <2>5. Alone'
    BY Zenon, PoppedRequests
  <2> QED
    BY Zenon, <2>4, <2>5 DEF RequestInv
<1>4. Committed \subseteq Committed'
  <2>1. t \notin Committed /\ Committed \subseteq Txn
    BY Zenon, <1>2 DEF Committed
  <2> QED
    BY Zenon, <2>1, StageUnmoved DEF IInv, StageInv
<1>5. SettleInv'
  <2>1. AcksCommitted' /\ \A m \in Msg : SettlePending(m) => SettlePending(m)'
    BY Zenon, <1>4, PoppedSettles DEF Requests
  <2>2. AckedCommitted /\ UnsentOwn /\ SettleAhead
    BY Zenon DEF IInv, SettleInv
  <2>3. AckedCommitted'
    BY Zenon, <1>4, <2>2 DEF AckedCommitted
  <2>4. UnsentOwn'
    BY Zenon, <2>2 DEF UnsentOwn, Unmoved
  <2>5. SettleAhead'
    BY Zenon, <2>1, <2>2 DEF SettleAhead
  <2> QED
    BY Zenon, <2>1, <2>3, <2>4, <2>5 DEF SettleInv
<1> QED
  BY Zenon, <1>1, <1>3, <1>5

LEMMA StepRecvReserve ==
    ASSUME IInv, NEW q \in Queue, RecvReserve(q)
    PROVE  IInv'
<1> USE DEF RecvReserve, Goto, plan
<1> DEFINE msg == Head(mbox[q])
<1>1. /\ Takes(q, "Reserve") /\ msg = mbox[q][1] /\ 1 \in DOMAIN mbox[q]
      /\ msg \in Letter /\ msg.op = "Reserve"
  BY SMTT(30), Popped DEF IInv, Types
<1>2. PICK t \in Txn : t = msg.txn /\ msg.n \in Int
  BY Zenon, <1>1, Fields DEF Requests
<1>3. pc[t] = "reserving"
  BY Zenon, <1>1, <1>2 DEF IInv, RequestInv, Awaited
<1>4. /\ pc' \in [Txn -> {"staged", "reserve", "reserving", "publish",
                          "publishing", "settle", "abort", "done"}]
      /\ pc'[t] \in {"abort", "publish", "reserve"}
      /\ \A u \in Txn : u # t => pc'[u] = pc[u]
  BY ZenonT(30), <1>2 DEF IInv, Types
<1>5. remaining' \in [Txn -> [Queue -> Int]]
  BY SMTT(30), <1>2 DEF IInv, Types
<1>6. UNCHANGED <<publishes, staged_by, mode, applied, unsent, outcome, alive, owner, landed>>
  BY Zenon
<1> HIDE DEF RecvReserve, msg
<1>7. \A u \in Txn : u # t => Unmoved(u)
  BY Zenon, <1>4, <1>6 DEF Unmoved
<1>8. /\ mbox' \in [Queue -> Seq(Letter)]
      /\ RequestInv' /\ SettleInv'
  BY ZenonT(30), <1>1, <1>2, <1>4, <1>6, <1>7, RequestTaken DEF Requests, msg
<1>9. Types'
  BY ZenonT(30), <1>4, <1>5, <1>6, <1>8 DEF IInv, Types
<1>10. /\ mode[t] = "commit" /\ applied[t] = 0 /\ outcome[t] = "none"
       /\ applied[t] < Len(publishes[t]) /\ LandedIs(t, applied[t])'
  BY Zenon, <1>2, <1>3, <1>6 DEF IInv, Types, StageInv, Stage, LandedIs
<1>11. Stage(t)' /\ Answer(t)'
  BY Zenon, <1>4, <1>6, <1>10 DEF Stage, Answer, FailedAt
<1>12. StageInv'
  BY Zenon, <1>7, <1>11, StageUnmoved DEF IInv, StageInv
<1> QED
  BY ZenonT(30), <1>8, <1>9, <1>12 DEF IInv

LEMMA StepRecvPublish ==
    ASSUME IInv, NEW q \in Queue, RecvPublish(q)
    PROVE  IInv'
<1> USE DEF RecvPublish, Goto, Stored, plan
<1> DEFINE msg == Head(mbox[q])
<1>1. /\ Takes(q, "PublishReserved") /\ msg = mbox[q][1] /\ 1 \in DOMAIN mbox[q]
      /\ msg \in Letter /\ msg.op = "PublishReserved"
  BY SMTT(30), Popped DEF IInv, Types
<1>2. PICK t \in Txn, k \in Int : t = msg.txn /\ k = msg.n
  BY ZenonT(30), <1>1, Fields DEF Requests
<1>3. pc[t] = "publishing" /\ k = applied[t] + 1
  BY <1>1, <1>2, SMTT(30) DEF IInv, RequestInv, Awaited
<1>4. \/ /\ landed' = landed \cup {<<t, k>>}
         /\ applied' = [applied EXCEPT ![t] = k]
         /\ pc' = [pc EXCEPT ![t] = IF k = Len(publishes[t]) THEN "settle" ELSE "publish"]
      \/ landed' = landed /\ applied' = applied /\ pc' = [pc EXCEPT ![t] = "abort"]
      \/ /\ "unconfirmed" \in Failures
         /\ landed' = landed \cup {<<t, k>>}
         /\ applied' = applied
         /\ pc' = [pc EXCEPT ![t] = "abort"]
  BY ZenonT(30), <1>2
<1>5. UNCHANGED <<publishes, staged_by, mode, remaining, unsent, outcome, alive, owner>>
  BY Zenon
<1> HIDE DEF RecvPublish, msg
<1>6. /\ mode[t] = "commit" /\ outcome[t] = "none" /\ applied[t] \in Nat
      /\ applied[t] < Len(publishes[t]) /\ LandedIs(t, applied[t])
      /\ Len(publishes[t]) \in Nat
  <2>1. publishes[t] \in Seq(Queue)
    BY Zenon, <1>2 DEF IInv, Types
  <2> QED
    BY <1>2, <1>3, <2>1, SMTT(30) DEF IInv, Types, StageInv, Stage
<1>7. k \in Nat \ {0}
  BY <1>3, <1>6
<1>8. /\ pc' \in [Txn -> {"staged", "reserve", "reserving", "publish",
                          "publishing", "settle", "abort", "done"}]
      /\ pc'[t] # "done" /\ applied' \in [Txn -> Nat]
      /\ \A u \in Txn : u # t => pc'[u] = pc[u] /\ applied'[u] = applied[u]
  <2>1. pc \in [Txn -> {"staged", "reserve", "reserving", "publish",
                        "publishing", "settle", "abort", "done"}]
    BY Zenon DEF IInv, Types
  <2>2. applied \in [Txn -> Nat] /\ k \in Nat
    BY Zenon, <1>7 DEF IInv, Types
  <2>3. PICK label \in {"settle", "publish", "abort"} : pc' = [pc EXCEPT ![t] = label]
    BY Zenon, <1>4
  <2>4. applied' = applied \/ applied' = [applied EXCEPT ![t] = k]
    BY Zenon, <1>4
  <2>5. applied' \in [Txn -> Nat] /\ \A u \in Txn : u # t => applied'[u] = applied[u]
    BY Zenon, <2>2, <2>4
  <2>6. pc'[t] = label /\ \A u \in Txn : u # t => pc'[u] = pc[u]
    BY Zenon, <2>1, <2>3
  <2>7. pc' \in [Txn -> {"staged", "reserve", "reserving", "publish",
                         "publishing", "settle", "abort", "done"}]
    BY <2>1, <2>3, Zenon
  <2> QED
    BY Zenon, <2>5, <2>6, <2>7
<1>9. \A u \in Txn : u # t => Unmoved(u)
  BY SMTT(30), <1>4, <1>5, <1>8 DEF Unmoved
<1>10. /\ mbox' \in [Queue -> Seq(Letter)]
       /\ RequestInv' /\ SettleInv'
  BY ZenonT(30), <1>1, <1>2, <1>5, <1>8, <1>9, RequestTaken DEF Requests, msg
<1>11. Types'
  BY ZenonT(30), <1>5, <1>8, <1>10 DEF IInv, Types
<1>12. Stage(t)' /\ Answer(t)'
  <2>1. outcome'[t] = "none" /\ mode'[t] = "commit" /\ publishes' = publishes
    BY ZenonT(30), <1>5, <1>6
  <2>2. CASE /\ landed' = landed \cup {<<t, k>>}
             /\ applied' = [applied EXCEPT ![t] = k]
             /\ pc' = [pc EXCEPT ![t] = IF k = Len(publishes[t]) THEN "settle" ELSE "publish"]
    <3>1. applied'[t] = k /\ pc'[t] = IF k = Len(publishes[t]) THEN "settle" ELSE "publish"
      BY ZenonT(30), <1>2, <2>2 DEF IInv, Types
    <3>2. \A n \in Nat \ {0} : <<t, n>> \in landed' <=> n <= k
      BY SMTT(30), <1>3, <1>6, <1>7, <2>2 DEF LandedIs
    <3>3. pc'[t] = "publish" => applied'[t] < Len(publishes[t]) /\ LandedIs(t, applied[t])'
      BY SMTT(30), <1>3, <1>6, <3>1, <3>2 DEF LandedIs
    <3>4. pc'[t] = "settle" => LandedIs(t, Len(publishes[t]))'
      BY Zenon, <2>1, <3>1, <3>2 DEF LandedIs
    <3> QED
      BY SMTT(30), <2>1, <3>1, <3>3, <3>4 DEF Stage, Answer, Whole
  <2>3. CASE landed' = landed /\ applied' = applied /\ pc' = [pc EXCEPT ![t] = "abort"]
    <3>1. pc'[t] = "abort" /\ LandedIs(t, applied[t])'
      BY ZenonT(30), <1>2, <1>6, <2>3 DEF IInv, Types, LandedIs
    <3> QED
      BY ZenonT(30), <1>6, <2>1, <2>3, <3>1 DEF Stage, Answer, FailedAt
  <2>4. CASE /\ "unconfirmed" \in Failures
             /\ landed' = landed \cup {<<t, k>>}
             /\ applied' = applied
             /\ pc' = [pc EXCEPT ![t] = "abort"]
    <3>1. pc'[t] = "abort"
      BY ZenonT(30), <1>2, <2>4 DEF IInv, Types
    <3>2. \A n \in Nat \ {0} : <<t, n>> \in landed' <=> n <= k
      BY SMTT(30), <1>3, <1>6, <1>7, <2>4 DEF LandedIs
    <3>3. LandedIs(t, applied[t] + 1)'
      BY Zenon, <1>3, <2>4, <3>2 DEF LandedIs
    <3> QED
      BY SMTT(30), <1>6, <2>1, <2>4, <3>1, <3>3 DEF Stage, Answer, FailedAt
  <2> QED
    BY SMTT(30), <1>4, <2>2, <2>3, <2>4
<1>13. StageInv'
  BY Zenon, <1>9, <1>12, StageUnmoved DEF IInv, StageInv
<1> QED
  BY ZenonT(30), <1>10, <1>11, <1>13 DEF IInv

LEMMA StepStops ==
    ASSUME IInv, NEW q \in Queue, Stops(q)
    PROVE  IInv'
<1> USE DEF Stops, plan
<1>1. mbox'[q] = <<>> /\ \A p \in Queue : p # q => mbox'[p] = mbox[p]
  BY Zenon DEF IInv, Types
<1>2. mbox' \in [Queue -> Seq(Letter)]
  <2>1. <<>> \in Seq(Letter) /\ mbox \in [Queue -> Seq(Letter)]
    BY DEF IInv, Types
  <2> QED
    BY Zenon, <2>1
<1>3. Types'
  BY Zenon, <1>2 DEF IInv, Types
<1>4. \A t \in Txn : WaitsFor(t, q) => pc[t] \in {"reserving", "publishing"}
  BY Zenon DEF WaitsFor, IInv, RequestInv, Awaited
<1>5. \A t \in Txn : ~WaitsFor(t, q) => Unmoved(t)
  BY Zenon DEF Unmoved
<1>6. \A t \in Txn : WaitsFor(t, q) => Stage(t)' /\ Answer(t)'
  <2> SUFFICES ASSUME NEW t \in Txn, WaitsFor(t, q)
               PROVE  Stage(t)' /\ Answer(t)'
    BY Zenon
  <2>1. /\ mode'[t] = "commit" /\ applied'[t] = applied[t] /\ outcome'[t] = "none"
        /\ publishes' = publishes /\ applied[t] < Len(publishes[t])
        /\ LandedIs(t, applied[t])' /\ pc'[t] = "abort"
    BY Zenon, <1>4 DEF IInv, StageInv, Stage, LandedIs
  <2> QED
    BY Zenon, <2>1 DEF Stage, Answer, FailedAt
<1>7. StageInv'
  BY ZenonT(30), <1>5, <1>6, StageUnmoved DEF IInv, StageInv
<1>8. \A p \in Queue : DOMAIN mbox'[p] # {} => p # q /\ mbox'[p] = mbox[p]
  BY <1>1
<1>9. RequestInv'
  <2>1. \A p \in Queue : \A i \in DOMAIN mbox'[p] :
           mbox'[p][i].op \in Requests =>
               mbox'[p][i].txn \in Txn /\ ~WaitsFor(mbox'[p][i].txn, q)
    <3> SUFFICES ASSUME NEW p \in Queue, NEW i \in DOMAIN mbox[p], p # q,
                        mbox[p][i].op \in Requests
                 PROVE  mbox[p][i].txn \in Txn /\ ~WaitsFor(mbox[p][i].txn, q)
      BY Zenon, <1>8
    <3>1. mbox[p] \in Seq(Letter)
      BY Zenon DEF IInv, Types
    <3>2. mbox[p][i] \in Letter
      BY SMTT(30), <3>1
    <3>3. ~WaitsFor(mbox[p][i].txn, q)
      BY Zenon DEF WaitsFor, IInv, RequestInv, Alone, Requests
    <3> QED
      BY Zenon, <3>2, <3>3, Fields
  <2>2. \A p \in Queue : \A i \in DOMAIN mbox'[p] :
           mbox'[p][i].op \in Requests => pc'[mbox'[p][i].txn] = pc[mbox'[p][i].txn]
    BY Zenon, <2>1
  <2>3. Awaited /\ Alone
    BY ZenonT(30) DEF IInv, RequestInv
  <2>4. Awaited'
    BY SMTT(30), <1>8, <2>2, <2>3 DEF Awaited, Requests
  <2>5. Alone'
    BY SMTT(30), <1>8, <2>3 DEF Alone
  <2> QED
    BY Zenon, <2>4, <2>5 DEF RequestInv
<1>10. Committed \subseteq Committed'
  <2>1. \A t \in Committed : t \in Txn /\ ~WaitsFor(t, q)
    BY Zenon, <1>4 DEF Committed
  <2> QED
    BY Zenon, <1>5, <2>1, StageUnmoved DEF IInv, StageInv
<1>11. SettleInv'
  <2>1. AcksCommitted /\ AckedCommitted /\ UnsentOwn /\ SettleAhead
    BY ZenonT(30) DEF IInv, SettleInv
  <2>2. AcksCommitted'
    BY SMTT(30), <1>8, <1>10, <2>1 DEF AcksCommitted
  <2>3. AckedCommitted'
    BY Zenon, <1>10, <2>1 DEF AckedCommitted
  <2>4. UnsentOwn'
    BY ZenonT(30), <2>1 DEF UnsentOwn
  <2>5. \A m \in Msg : alive'[home[m]] =>
           alive[home[m]] /\ (SettlePending(m)' <=> SettlePending(m))
    <3> SUFFICES ASSUME NEW m \in Msg, alive'[home[m]]
                 PROVE  alive[home[m]] /\ (SettlePending(m)' <=> SettlePending(m))
      BY Zenon
    <3>1. home[m] \in Queue
      BY Zenon, CommitAssumption DEF CommitAssumption
    <3>2. home[m] # q /\ alive[home[m]]
      BY Zenon, <3>1 DEF IInv, Types
    <3> QED
      BY SMTT(30), <1>1, <3>1, <3>2 DEF SettlePending
  <2>6. SettleAhead'
    BY Zenon, <2>1, <2>5 DEF SettleAhead
  <2> QED
    BY Zenon, <2>2, <2>3, <2>4, <2>6 DEF SettleInv
<1> QED
  BY Zenon, <1>3, <1>7, <1>9, <1>11 DEF IInv

-----------------------------------------------------------------------------
(* The other clients *)

\* A step that changes at most who owns a message.
LEMMA OwnersOnly ==
    ASSUME IInv, UNCHANGED <<plan, task, mbox, alive, landed>>,
           owner' \in [Msg -> {"consumer", "ready", "other", "acked"}],
           \A m \in Msg : owner'[m] \in {"consumer", "acked"} => owner'[m] = owner[m]
    PROVE  IInv'
<1> USE DEF plan, task
<1>1. Types'
  BY Zenon DEF IInv, Types
<1>2. \A u \in Txn : Unmoved(u)
  BY Zenon DEF Unmoved
<1>3. StageInv'
  BY ZenonT(30), <1>2, StageUnmoved DEF IInv, StageInv
<1>4. RequestInv'
  BY DEF IInv, RequestInv, Awaited, Alone
<1>5. Committed \subseteq Committed'
  BY ZenonT(30), <1>2, StageUnmoved DEF IInv, StageInv, Committed
<1>6. SettleInv'
  BY <1>5 DEF IInv, SettleInv, AcksCommitted, AckedCommitted, UnsentOwn, SettleAhead,
     SettlePending
<1> QED
  BY Zenon, <1>1, <1>3, <1>4, <1>6 DEF IInv

-----------------------------------------------------------------------------
LEMMA StepIInv == IInv /\ [Next]_vars => IInv'
<1> SUFFICES ASSUME IInv, [Next]_vars PROVE IInv'
  BY Zenon
<1>0. owner \in [Msg -> {"consumer", "ready", "other", "acked"}]
  BY Zenon DEF IInv, Types
<1>1. CASE UNCHANGED vars
  BY Zenon, <1>0, <1>1, OwnersOnly DEF vars, queues
<1>2. ASSUME NEW t \in Txn, NEW how \in {"commit", "rollback", "rollback_only"},
             Discharge(t, how)
      PROVE  IInv'
  BY Zenon, <1>2, StepDischarge
<1>3. ASSUME NEW t \in Txn, TaskStep(t) PROVE IInv'
  BY SMTT(30), <1>3, StepSendReserve, StepSendUnreserve, StepSendPublish, StepSendSettle,
     StepFinish DEF TaskStep
<1>4. ASSUME NEW q \in Queue, Recv(q) PROVE IInv'
  BY ZenonT(30), <1>4, StepRecvReserve, StepRecvUnreserve, StepRecvPublish, StepRecvSettle,
     StepRecvUnsubscribe DEF Recv
<1>5. ASSUME NEW q \in Queue, Stops(q) PROVE IInv'
  BY Zenon, <1>5, StepStops
<1>6. ASSUME NEW q \in Queue, ConsumerDetaches(q) PROVE IInv'
  BY Zenon, <1>6, StepConsumerDetaches
<1>7. ASSUME NEW q \in Queue, OthersPublish(q) \/ OthersConsume(q) PROVE IInv'
  BY Zenon, <1>0, <1>7, OwnersOnly DEF OthersPublish, OthersConsume
<1>8. ASSUME NEW m \in Msg, Redelivered(m) PROVE IInv'
  BY Zenon, <1>0, <1>8, OwnersOnly DEF Redelivered
<1> QED
  BY ZenonT(30), <1>1, <1>2, <1>3, <1>4, <1>5, <1>6, <1>7, <1>8 DEF Next

LEMMA IInvHolds == Spec => []IInv
  BY InitIInv, StepIInv, PTL DEF Spec

-----------------------------------------------------------------------------
\* What has landed, as a set of places in the list of staged enqueues.
LEMMA LandedSet ==
    ASSUME NEW t \in Txn, NEW n \in Nat, n <= Len(publishes[t]),
           publishes[t] \in Seq(Queue), LandedIs(t, n)
    PROVE  Landed(t) = 1..n
<1>1. Len(publishes[t]) \in Nat
  OBVIOUS
<1>2. \A k \in 1..Len(publishes[t]) : k \in Nat \ {0}
  BY <1>1
<1> QED
  BY SMTT(30), <1>1, <1>2 DEF Landed, LandedIs

(***************************************************************************)
(* The answer of execute_commit and execute_rollback is honest: Complete,  *)
(* Partial and RolledBack say which staged enqueues are stored, but for    *)
(* the one whose confirmation was lost.                                    *)
(***************************************************************************)
THEOREM AnswersHonest == Spec => []HonestOutcome
<1>1. IInv => HonestOutcome
  <2> SUFFICES ASSUME IInv, NEW t \in Txn
               PROVE  /\ outcome[t] = "Complete" =>
                            Landed(t) = IF mode[t] = "commit" THEN DOMAIN publishes[t] ELSE {}
                      /\ outcome[t] = "RolledBack" =>
                            /\ applied[t] = 0
                            /\ Confirmed(t) \/ ConfirmationLost(t)
                      /\ outcome[t] = "Partial" =>
                            /\ applied[t] \in 1..Len(publishes[t]) - 1
                            /\ Confirmed(t) \/ ConfirmationLost(t)
    BY Zenon DEF HonestOutcome
  <2>1. /\ publishes[t] \in Seq(Queue) /\ Len(publishes[t]) \in Nat
        /\ DOMAIN publishes[t] = 1..Len(publishes[t]) /\ applied[t] \in Nat
    BY DEF IInv, Types
  <2>2. Answer(t)
    BY ZenonT(30) DEF IInv, StageInv
  <2>3. LandedIs(t, 0) => Landed(t) = {}
    BY SMTT(30), <2>1, LandedSet
  <2>4. Whole(t) => Landed(t) = DOMAIN publishes[t]
    BY <2>1, LandedSet DEF Whole
  <2>5. FailedAt(t) => Confirmed(t) \/ ConfirmationLost(t)
    <3>1. CASE mode[t] = "commit"
      BY SMTT(30), <2>1, <3>1, LandedSet DEF FailedAt, Confirmed, ConfirmationLost
    <3>2. CASE mode[t] # "commit"
      BY SMTT(30), <2>1, <3>2, LandedSet DEF FailedAt, Confirmed
    <3> QED
      BY ZenonT(30), <3>1, <3>2
  <2>6. FailedAt(t) /\ applied[t] > 0 => applied[t] \in 1..Len(publishes[t]) - 1
    BY <2>1 DEF FailedAt
  <2> QED
    BY ZenonT(30), <2>2, <2>3, <2>4, <2>5, <2>6 DEF Answer, Whole
<1> QED
  BY <1>1, IInvHolds, PTL

(***************************************************************************)
(* A staged settlement is applied only when every enqueue of its commit    *)
(* landed, and no message is left in flight by a discharge that is over.   *)
(***************************************************************************)
THEOREM SettlementsFollow == Spec => []SettledByOutcome
<1>1. IInv => AckedOnlyByCommit
  <2> SUFFICES ASSUME IInv, NEW m \in Msg, owner[m] = "acked"
               PROVE  /\ mode[staged_by[m]] = "commit"
                      /\ Landed(staged_by[m]) = DOMAIN publishes[staged_by[m]]
    BY Zenon DEF AckedOnlyByCommit
  <2>1. PICK t \in Txn : t = staged_by[m] /\ t \in Committed
    BY Zenon DEF IInv, SettleInv, AckedCommitted, Committed
  <2>2. mode[t] = "commit" /\ LandedIs(t, Len(publishes[t]))
    BY Zenon, <2>1 DEF Committed, Whole
  <2>3. /\ publishes[t] \in Seq(Queue) /\ Len(publishes[t]) \in Nat
        /\ DOMAIN publishes[t] = 1..Len(publishes[t])
    BY DEF IInv, Types
  <2> QED
    BY SMTT(30), <2>1, <2>2, <2>3, LandedSet
<1>2. IInv => NoneLeftInFlight
  <2> SUFFICES ASSUME IInv, NEW m \in Msg, pc[staged_by[m]] = "done",
                      ~SettlePending(m), alive[home[m]]
               PROVE  owner[m] # "consumer"
    BY Zenon DEF NoneLeftInFlight
  <2>1. staged_by[m] \in Txn
    BY Zenon DEF IInv, Types
  <2> QED
    BY Zenon, <2>1 DEF IInv, SettleInv, UnsentOwn, SettleAhead
<1> QED
  BY <1>1, <1>2, IInvHolds, PTL DEF SettledByOutcome
=============================================================================
