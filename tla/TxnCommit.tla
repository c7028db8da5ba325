----------------------------- MODULE TxnCommit -----------------------------
(***************************************************************************)
(* Executing discharged transactions: txn.rs, execute_commit and           *)
(* execute_rollback, with the part of the queue actors they talk to.       *)
(*                                                                         *)
(* A discharge runs as a task of its own beside the other discharges, the  *)
(* queue actors and the consumers.  It sends to the queues' bounded        *)
(* mailboxes, waits there when one is full, and waits for the answer to    *)
(* each Reserve and each PublishReserved.  An answer is read by nobody     *)
(* else, so a queue's step hands it to the waiting task at once.           *)
(*                                                                         *)
(* A queue is its mailbox, the number of messages it holds, its reserved   *)
(* slots and, for the messages whose settlement a transaction staged, who  *)
(* owns them.  All queues are reject-publish queues: a drop-head queue     *)
(* grants every reservation and holds no slots.                            *)
(***************************************************************************)
EXTENDS Integers, Sequences, FiniteSets

CONSTANTS
    Queue, Txn,
    Msg,            \* messages with a staged settlement
    home,           \* the queue of each of them
    max_len,        \* EffectivePolicy.max_len, of every queue
    Mailbox,        \* capacity of a queue mailbox
    MaxPublishes,   \* bound: enqueues staged by one transaction
    Big,            \* bound: the transactions that stage more than one
    Mortal,         \* queues whose actor may stop
    Failures        \* how a reserved publish may fail: see RecvPublish

ASSUME CommitAssumption ==
    /\ IsFiniteSet(Queue) /\ IsFiniteSet(Txn) /\ IsFiniteSet(Msg)
    /\ home \in [Msg -> Queue]
    /\ max_len \in Nat /\ Mailbox \in Nat \ {0} /\ MaxPublishes \in Nat
    /\ Big \subseteq Txn /\ Mortal \subseteq Queue
    /\ Failures \subseteq {"refused", "unconfirmed"}

VARIABLES
    publishes,      \* Txn.publishes: the target of each staged enqueue
    staged_by,      \* the transaction holding each message's settlement
    mode,           \* how the transaction was discharged
    pc,             \* where the discharge task is
    asked,          \* the groups Reserve was sent for
    remaining,      \* execute_commit's remaining: slots held, per queue
    applied,        \* staged enqueues confirmed so far
    unsent,         \* staged settlements not sent to their queue yet
    outcome,        \* DischargeOutcome
    mbox,           \* the queues' mailboxes
    alive,          \* queues whose actor runs
    depth,          \* messages a queue holds, ready or in flight
    reserved,       \* slots a queue holds for transactions
    owner,          \* of a message with a staged settlement
    landed          \* history: <<t, k>>, the k-th enqueue of t is stored

plan == <<publishes, staged_by>>
task == <<mode, pc, asked, remaining, applied, unsent, outcome>>
queues == <<mbox, alive, depth, reserved, owner, landed>>
vars == <<plan, task, queues>>

SatSub(a, b) == IF b <= a THEN a - b ELSE 0

(***************************************************************************)
(* groups: the staged enqueues by target queue, in order of appearance.    *)
(***************************************************************************)
Count(t, q) == Cardinality({k \in DOMAIN publishes[t] : publishes[t][k] = q})

NextGroup(t, q) ==
    /\ q \notin asked[t]
    /\ \E k \in DOMAIN publishes[t] :
          /\ publishes[t][k] = q
          /\ \A j \in 1..k - 1 : publishes[t][j] \in asked[t]

AllAsked(t) == \A k \in DOMAIN publishes[t] : publishes[t][k] \in asked[t]

Init ==
    /\ publishes \in [Txn -> UNION {[1..n -> Queue] : n \in 0..MaxPublishes}]
    /\ \A t \in Txn \ Big : DOMAIN publishes[t] \subseteq {1}
    /\ staged_by \in [Msg -> Txn]
    /\ mode = [t \in Txn |-> "none"]
    /\ pc = [t \in Txn |-> "staged"]
    /\ asked = [t \in Txn |-> {}]
    /\ remaining = [t \in Txn |-> [q \in Queue |-> 0]]
    /\ applied = [t \in Txn |-> 0]
    /\ unsent = [t \in Txn |-> {m \in Msg : staged_by[m] = t}]
    /\ outcome = [t \in Txn |-> "none"]
    /\ mbox = [q \in Queue |-> <<>>]
    /\ alive = [q \in Queue |-> TRUE]
    /\ depth = [q \in Queue |-> Cardinality({m \in Msg : home[m] = q})]
    /\ reserved = [q \in Queue |-> 0]
    /\ owner = [m \in Msg |-> "consumer"]
    /\ landed = {}

-----------------------------------------------------------------------------
(***************************************************************************)
(* The discharge task.  To a dead queue a send fails at once.              *)
(***************************************************************************)
Send(q, msg) ==
    IF alive[q]
    THEN /\ Len(mbox[q]) < Mailbox
         /\ mbox' = [mbox EXCEPT ![q] = Append(@, msg)]
    ELSE UNCHANGED mbox

Goto(t, label) == pc' = [pc EXCEPT ![t] = label]

(***************************************************************************)
(* A rollback, asked for or forced by rollback_only, only requeues.  A     *)
(* commit without enqueues goes straight to the settlements.               *)
(***************************************************************************)
Discharge(t, how) ==
    /\ pc[t] = "staged"
    /\ mode' = [mode EXCEPT ![t] = how]
    /\ Goto(t, IF how # "commit" THEN "abort"
               ELSE IF publishes[t] = <<>> THEN "settle" ELSE "reserve")
    /\ UNCHANGED <<plan, asked, remaining, applied, unsent, outcome, queues>>

SendReserve(t, q) ==
    /\ pc[t] = "reserve" /\ NextGroup(t, q)
    /\ Send(q, [op |-> "Reserve", txn |-> t, n |-> Count(t, q)])
    /\ asked' = [asked EXCEPT ![t] = @ \cup {q}]
    /\ Goto(t, IF alive[q] THEN "reserving" ELSE "abort")
    /\ UNCHANGED <<plan, mode, remaining, applied, unsent, outcome, alive,
                   depth, reserved, owner, landed>>

SendPublish(t) ==
    LET k == applied[t] + 1
        q == publishes[t][k]
    IN  /\ pc[t] = "publish"
        /\ Send(q, [op |-> "PublishReserved", txn |-> t, n |-> k])
        /\ remaining' = [remaining EXCEPT ![t][q] = @ - 1]
        /\ Goto(t, IF alive[q] THEN "publishing" ELSE "abort")
        /\ UNCHANGED <<plan, mode, asked, applied, unsent, outcome, alive,
                       depth, reserved, owner, landed>>

(***************************************************************************)
(* Giving up: release the slots still held, queue after queue.             *)
(***************************************************************************)
SendUnreserve(t, q) ==
    /\ pc[t] = "abort" /\ remaining[t][q] > 0
    /\ Send(q, [op |-> "Unreserve", txn |-> t, n |-> remaining[t][q]])
    /\ remaining' = [remaining EXCEPT ![t][q] = 0]
    /\ UNCHANGED <<plan, mode, pc, asked, applied, unsent, outcome, alive,
                   depth, reserved, owner, landed>>

\* Variant: a refused reservation does not release the earlier ones.
ReleasedIfSomeApplied(t) == applied[t] = 0 \/ \A q \in Queue : remaining[t][q] = 0
Released(t) == \A q \in Queue : remaining[t][q] = 0

(***************************************************************************)
(* The staged settlements: applied after the last enqueue, else requeued.  *)
(***************************************************************************)
Settling(t) == pc[t] = "settle" \/ (pc[t] = "abort" /\ Released(t))

\* Variant: a failed commit applies the settlements all the same.
AlwaysAck(t) == "Ack"
settle_outcome(t) == IF pc[t] = "settle" THEN "Ack" ELSE "Requeue"

SendSettle(t, m) ==
    /\ Settling(t) /\ m \in unsent[t]
    /\ Send(home[m], [op |-> "Settle", txn |-> t, msg |-> m,
                      outcome |-> settle_outcome(t)])
    /\ unsent' = [unsent EXCEPT ![t] = @ \ {m}]
    /\ UNCHANGED <<plan, mode, pc, asked, remaining, applied, outcome, alive,
                   depth, reserved, owner, landed>>

\* Variant: any failure is reported as a roll back.
NeverPartial(t) ==
    IF pc[t] = "settle" \/ mode[t] = "rollback" THEN "Complete" ELSE "RolledBack"

discharge_outcome(t) ==
    IF pc[t] = "settle" \/ mode[t] = "rollback" THEN "Complete"
    ELSE IF applied[t] = 0 THEN "RolledBack" ELSE "Partial"

AllSent(t) == Settling(t) /\ unsent[t] = {}

Finish(t) ==
    /\ AllSent(t)
    /\ outcome' = [outcome EXCEPT ![t] = discharge_outcome(t)]
    /\ Goto(t, "done")
    /\ UNCHANGED <<plan, mode, asked, remaining, applied, unsent, queues>>

-----------------------------------------------------------------------------
(***************************************************************************)
(* The queue actor takes the next message from its mailbox.                *)
(***************************************************************************)
Takes(q, op) == /\ alive[q] /\ mbox[q] # <<>> /\ Head(mbox[q]).op = op
                /\ mbox' = [mbox EXCEPT ![q] = Tail(@)]

Fits(q, n) == depth[q] + reserved[q] + n <= max_len

RecvReserve(q) ==
    LET msg == Head(mbox[q])
        t == msg.txn
        ok == Fits(q, msg.n)
    IN  /\ Takes(q, "Reserve")
        /\ reserved' = [reserved EXCEPT ![q] = IF ok THEN @ + msg.n ELSE @]
        /\ remaining' = [remaining EXCEPT ![t][q] = IF ok THEN msg.n ELSE 0]
        /\ Goto(t, IF ~ok THEN "abort"
                   ELSE IF AllAsked(t) THEN "publish" ELSE "reserve")
        /\ UNCHANGED <<plan, mode, asked, applied, unsent, outcome, alive,
                       depth, owner, landed>>

RecvUnreserve(q) ==
    /\ Takes(q, "Unreserve")
    /\ reserved' = [reserved EXCEPT ![q] = SatSub(@, Head(mbox[q]).n)]
    /\ UNCHANGED <<plan, task, alive, depth, owner, landed>>

(***************************************************************************)
(* A reserved publish gives up its slot and is stored, unless the fsync or *)
(* the Raft proposal fails: "refused" before it is stored, "unconfirmed"   *)
(* when it is stored but the confirmation is lost with the leadership.     *)
(***************************************************************************)
Stored(q, t, k) ==
    /\ depth' = [depth EXCEPT ![q] = @ + 1]
    /\ landed' = landed \cup {<<t, k>>}

RecvPublish(q) ==
    LET t == Head(mbox[q]).txn
        k == Head(mbox[q]).n
    IN  /\ Takes(q, "PublishReserved")
        /\ reserved' = [reserved EXCEPT ![q] = SatSub(@, 1)]
        /\ \/ /\ Stored(q, t, k)
              /\ applied' = [applied EXCEPT ![t] = k]
              /\ Goto(t, IF k = Len(publishes[t]) THEN "settle" ELSE "publish")
           \/ /\ "refused" \in Failures
              /\ Goto(t, "abort")
              /\ UNCHANGED <<applied, depth, landed>>
           \/ /\ "unconfirmed" \in Failures
              /\ Stored(q, t, k)
              /\ Goto(t, "abort")
              /\ UNCHANGED applied
        /\ UNCHANGED <<plan, mode, asked, remaining, unsent, outcome, alive, owner>>

RecvSettle(q) ==
    LET msg == Head(mbox[q])
        m == msg.msg
        mine == owner[m] = "consumer"
    IN  /\ Takes(q, "Settle")
        /\ owner' = IF ~mine THEN owner
                    ELSE [owner EXCEPT ![m] =
                             IF msg.outcome = "Ack" THEN "acked" ELSE "ready"]
        /\ depth' = IF mine /\ msg.outcome = "Ack"
                    THEN [depth EXCEPT ![q] = @ - 1] ELSE depth
        /\ UNCHANGED <<plan, task, alive, reserved, landed>>

RecvUnsubscribe(q) ==
    /\ Takes(q, "Unsubscribe")
    /\ owner' = [m \in Msg |->
                    IF home[m] = q /\ owner[m] = "consumer" THEN "ready" ELSE owner[m]]
    /\ UNCHANGED <<plan, task, alive, depth, reserved, landed>>

(***************************************************************************)
(* The actor stops: what is in its mailbox is dropped, and with it the     *)
(* answers that discharge tasks wait for.                                  *)
(***************************************************************************)
\* Variant: nobody learns that the actor stopped.
NobodyWaits(t, q) == FALSE

WaitsFor(t, q) == \E i \in DOMAIN mbox[q] :
    mbox[q][i].op \in {"Reserve", "PublishReserved"} /\ mbox[q][i].txn = t

Stops(q) ==
    /\ q \in Mortal /\ alive[q]
    /\ alive' = [alive EXCEPT ![q] = FALSE]
    /\ mbox' = [mbox EXCEPT ![q] = <<>>]
    /\ pc' = [t \in Txn |-> IF WaitsFor(t, q) THEN "abort" ELSE pc[t]]
    /\ UNCHANGED <<plan, mode, asked, remaining, applied, unsent, outcome,
                   depth, reserved, owner, landed>>

-----------------------------------------------------------------------------
(***************************************************************************)
(* The other clients of a queue.  The consumer whose settlements are       *)
(* staged may detach before the discharge, and what is ready is delivered  *)
(* to someone else, who settles it.                                        *)
(***************************************************************************)
ConsumerDetaches(q) ==
    /\ alive[q]
    /\ \E m \in Msg : home[m] = q /\ owner[m] = "consumer"
    /\ \A i \in DOMAIN mbox[q] : mbox[q][i].op # "Unsubscribe"
    /\ Send(q, [op |-> "Unsubscribe"])
    /\ UNCHANGED <<plan, task, alive, depth, reserved, owner, landed>>

Redelivered(m) ==
    /\ owner[m] = "ready" /\ alive[home[m]]
    /\ owner' = [owner EXCEPT ![m] = "other"]
    /\ UNCHANGED <<plan, task, mbox, alive, depth, reserved, landed>>

OthersPublish(q) ==
    /\ alive[q] /\ Fits(q, 1)
    /\ depth' = [depth EXCEPT ![q] = @ + 1]
    /\ UNCHANGED <<plan, task, mbox, alive, reserved, owner, landed>>

OthersConsume(q) ==
    /\ alive[q]
    /\ depth[q] > Cardinality({m \in Msg : home[m] = q /\ owner[m] # "acked"})
    /\ depth' = [depth EXCEPT ![q] = @ - 1]
    /\ UNCHANGED <<plan, task, mbox, alive, reserved, owner, landed>>

-----------------------------------------------------------------------------
TaskStep(t) ==
    \/ \E q \in Queue : SendReserve(t, q) \/ SendUnreserve(t, q)
    \/ SendPublish(t)
    \/ \E m \in Msg : SendSettle(t, m)
    \/ Finish(t)

Recv(q) ==
    \/ RecvReserve(q) \/ RecvUnreserve(q) \/ RecvPublish(q)
    \/ RecvSettle(q) \/ RecvUnsubscribe(q)

Next ==
    \/ \E t \in Txn :
          \/ \E how \in {"commit", "rollback", "rollback_only"} : Discharge(t, how)
          \/ TaskStep(t)
    \/ \E q \in Queue :
          \/ Recv(q) \/ Stops(q) \/ ConsumerDetaches(q)
          \/ OthersPublish(q) \/ OthersConsume(q)
    \/ \E m \in Msg : Redelivered(m)

Spec == Init /\ [][Next]_vars

(***************************************************************************)
(* Discharge tasks and queue actors are tokio tasks: while one of them can *)
(* run, the runtime runs one.  (It is fair to each of them, but no more is *)
(* needed here.)  Nothing is assumed of the clients or of failures.        *)
(***************************************************************************)
Running == (\E t \in Txn : TaskStep(t)) \/ (\E q \in Queue : Recv(q))

FairSpec == Spec /\ WF_vars(Running)

-----------------------------------------------------------------------------
(***************************************************************************)
(* Every variable keeps its type.                                          *)
(***************************************************************************)
TypeOK ==
    /\ pc \in [Txn -> {"staged", "reserve", "reserving", "publish",
                       "publishing", "settle", "abort", "done"}]
    /\ remaining \in [Txn -> [Queue -> Nat]]
    /\ applied \in [Txn -> Nat]
    /\ outcome \in [Txn -> {"none", "Complete", "RolledBack", "Partial"}]
    /\ \A q \in Queue : Len(mbox[q]) <= Mailbox
    /\ depth \in [Queue -> Nat] /\ reserved \in [Queue -> Nat]
    /\ owner \in [Msg -> {"consumer", "ready", "other", "acked"}]

(***************************************************************************)
(* A slot a discharge task holds is there when its publish arrives: queues *)
(* never hold more than max_len messages and slots, whatever the           *)
(* transactions, the other producers and the failures do, so a reserved    *)
(* publish can be stored without looking at the depth.                     *)
(***************************************************************************)
SlotsFit == \A q \in Queue : alive[q] => depth[q] + reserved[q] <= max_len

(***************************************************************************)
(* The answer to a discharge tells the truth: after Complete every enqueue *)
(* of a commit is stored and none of a rollback; after Partial exactly the *)
(* confirmed ones are, and after RolledBack none is, except that on a      *)
(* replicated queue the one enqueue whose confirmation was lost may be     *)
(* stored as well.  It is never a later one, and never a second one.       *)
(***************************************************************************)
Landed(t) == {k \in 1..Len(publishes[t]) : <<t, k>> \in landed}

Confirmed(t) == Landed(t) = 1..applied[t]
ConfirmationLost(t) ==
    "unconfirmed" \in Failures /\ Landed(t) = 1..applied[t] + 1

HonestOutcome ==
    \A t \in Txn :
        /\ outcome[t] = "Complete" =>
              Landed(t) = IF mode[t] = "commit" THEN DOMAIN publishes[t] ELSE {}
        /\ outcome[t] = "RolledBack" =>
              /\ applied[t] = 0
              /\ Confirmed(t) \/ ConfirmationLost(t)
        /\ outcome[t] = "Partial" =>
              /\ applied[t] \in 1..Len(publishes[t]) - 1
              /\ Confirmed(t) \/ ConfirmationLost(t)

(***************************************************************************)
(* A staged settlement is applied only in a transaction whose enqueues all *)
(* landed (execute_commit: "Staged settlements apply their outcomes only   *)
(* when every enqueue landed").                                            *)
(***************************************************************************)
AckedOnlyByCommit ==
    \A m \in Msg : owner[m] = "acked" =>
        /\ mode[staged_by[m]] = "commit"
        /\ Landed(staged_by[m]) = DOMAIN publishes[staged_by[m]]

(***************************************************************************)
(* No message is left in flight by its transaction: when a discharge is    *)
(* over and its settlements have been taken from the mailbox, the consumer *)
(* no longer owns the messages it settled, whether the discharge           *)
(* committed, rolled back or failed half way.                              *)
(***************************************************************************)
SettlePending(m) == \E i \in DOMAIN mbox[home[m]] :
    mbox[home[m]][i].op = "Settle" /\ mbox[home[m]][i].msg = m

NoneLeftInFlight ==
    \A m \in Msg :
        pc[staged_by[m]] = "done" /\ ~SettlePending(m) /\ alive[home[m]] =>
            owner[m] # "consumer"

(***************************************************************************)
(* A staged settlement has the fate its transaction's outcome says: the    *)
(* message is acknowledged only by a commit whose enqueues all landed, and *)
(* otherwise goes back to its queue; it is never left in flight.           *)
(***************************************************************************)
SettledByOutcome == AckedOnlyByCommit /\ NoneLeftInFlight

(***************************************************************************)
(* Every discharge is answered: tasks that reserve slots on the same       *)
(* queues in different orders, with mailboxes full, never wait for each    *)
(* other, and a queue that stops wakes the tasks waiting for it.  (A       *)
(* discharge never goes back, so it is enough that in the end none is      *)
(* under way.)                                                             *)
(***************************************************************************)
DischargeAnswered == <>[](\A t \in Txn : pc[t] \in {"staged", "done"})
=============================================================================
