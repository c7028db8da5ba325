---------------------------- MODULE DurableQueue ----------------------------
(***************************************************************************)
(* The durable queue actor (durable.rs), the group-commit writer of the    *)
(* store it works over (store.rs) and the dead-letter router (policy.rs),  *)
(* with batch aborts, and crashes followed by a recovery scan.             *)
(*                                                                         *)
(* The actor is the single writer of its volatile state: pc is "select"    *)
(* while it waits for a mailbox message or a finished commit, "expire" and *)
(* "dispatch" inside dispatch().  The store is a channel of operations     *)
(* (chan) that the writer thread applies in batches, and the table on disk *)
(* (disk).  A dead letter rides to the router's channel (dlx), from there  *)
(* into the dead-letter queue, taken to be durable on the same store, and  *)
(* a detached task (deferred) removes the source copy once its fate is     *)
(* known.                                                                  *)
(*                                                                         *)
(* A body is its publish number p; len[p] is its length.  Ids are the      *)
(* actor's and are reused after a restart, so operations carry the body    *)
(* they were meant for as a history value.                                 *)
(***************************************************************************)
EXTENDS Dispatch, FiniteSetsExt, SequencesExt

CONSTANTS
    Policies,       \* the EffectivePolicy values examined, each with a bound
                    \* max_slots on the slots reserved at a time
    None,
    len,            \* body lengths, by publish number
    MaxMsgs,        \* bound: bodies published
    MaxSubs,        \* bound: subscriptions opened per incarnation
    MaxDemand,      \* bound: outstanding demand of one subscriber
    MaxFailures,    \* bound: failed deliveries
    MaxTime,        \* bound: the clock
    MaxAborts,      \* bound: batches that fail to commit
    MaxCrashes      \* bound: crashes

Body == 1..MaxMsgs
MsgId == 1..MaxMsgs
SubId == 1..MaxSubs
NoSub == 0

VARIABLES
    policy,         \* the queue's EffectivePolicy
    pc, ready, owner, failures, next_msg_id, bytes, pending, reserved,
    subs, rr, next_sub_id,
    body,           \* history: the body the actor means by an id
    chan,           \* StoreOps submitted and not yet taken by the writer
    disk,           \* MESSAGES: [p, failures] by id, or None
    dead,           \* bodies in the dead-letter queue's part of MESSAGES
    dlx,            \* the dead-letter router's channel
    deferred,       \* dead_letter_then_remove tasks
    enqueued_ms, now,
    closed,         \* subscribers whose connection dropped its receiver
    slots,          \* slots committing transactions believe they hold
    unremoved,      \* history: ids whose remove was in an aborted batch
    published, answer, fate, failed, aborts, crashes

actor == <<pc, ready, owner, failures, next_msg_id, bytes, pending, reserved,
           body, slots>>
consumers == <<subs, rr, next_sub_id, closed>>
store == <<disk, dead, unremoved, aborts>>
router == <<dlx, deferred>>
clock == <<enqueued_ms, now>>
history == <<published, answer, fate, failed>>
vars == <<policy, actor, consumers, chan, store, router, clock, history, crashes>>

Held(s) == {m \in MsgId : owner[m] = s}
Inflight == {m \in MsgId : owner[m] # NoSub}
Bytes(S) == MapThenSumSet(LAMBDA m : len[body[m]], S)
Depth == Cardinality(ready) + Cardinality(Inflight) + Cardinality(pending)
ById(S) == SetToSortSeq(S, <)
Op(kind, m) == [op |-> kind, id |-> m, p |-> body[m]]
Ops(kind, S) == [i \in 1..Cardinality(S) |-> Op(kind, ById(S)[i])]
IsHead(S) == S \subseteq ready /\ \A m \in S, n \in ready \ S : m < n
OnDisk == {m \in MsgId : disk[m] # None}

HeldBy(s) == Held(s)

\* Variant: ids start again from one.
RecoveredNone == 0
RecoveredMax == Max(OnDisk \cup {0})

\* run() seeded by scan()
Recovered ==
    /\ pc' = "expire"
    /\ ready' = OnDisk
    /\ owner' = [m \in MsgId |-> NoSub]
    /\ failures' = [m \in MsgId |-> IF m \in OnDisk THEN disk[m].failures ELSE 0]
    /\ next_msg_id' = RecoveredMax
    /\ body' = [m \in MsgId |-> IF m \in OnDisk THEN disk[m].p ELSE None]
    /\ bytes' = MapThenSumSet(LAMBDA m : len[disk[m].p], OnDisk)
    /\ pending' = {} /\ reserved' = 0 /\ slots' = 0
    /\ subs' = <<>> /\ rr' = 0 /\ next_sub_id' = 0 /\ closed' = {}

Init ==
    /\ policy \in Policies
    /\ pc = "select" /\ ready = {} /\ owner = [m \in MsgId |-> NoSub]
    /\ failures = [m \in MsgId |-> 0]
    /\ next_msg_id = 0 /\ bytes = 0 /\ pending = {} /\ reserved = 0
    /\ subs = <<>> /\ rr = 0 /\ next_sub_id = 0 /\ closed = {}
    /\ body = [m \in MsgId |-> None]
    /\ chan = <<>> /\ disk = [m \in MsgId |-> None] /\ dead = {} /\ unremoved = {}
    /\ dlx = <<>> /\ deferred = {}
    /\ enqueued_ms = [p \in Body |-> 0] /\ now = 0
    /\ slots = 0 /\ published = 0
    /\ answer = [p \in Body |-> "none"] /\ fate = [p \in Body |-> "none"]
    /\ failed = 0 /\ aborts = 0 /\ crashes = 0

-----------------------------------------------------------------------------
(***************************************************************************)
(* Dead-letter the set S, oldest first: with a target the copies go to the *)
(* router and the removes wait for it, without one the removes are         *)
(* submitted at once.  extra follows them into the writer's channel.       *)
(***************************************************************************)
\* Variant: the source copy is removed without waiting for the router.
RemoveThenDeadLetter(S, extra) ==
    /\ chan' = chan \o Ops("remove", S) \o extra
    /\ dlx' = IF policy.dead_letter THEN dlx \o Ops("copy", S) ELSE dlx
    /\ UNCHANGED deferred

dead_letter_then_remove(S, extra) ==
    IF policy.dead_letter
    THEN /\ dlx' = dlx \o Ops("copy", S)
         /\ deferred' = deferred \cup {[id |-> m, p |-> body[m], resolved |-> FALSE] : m \in S}
         /\ chan' = chan \o extra
    ELSE /\ chan' = chan \o Ops("remove", S) \o extra
         /\ UNCHANGED router

Fated(S, why) ==
    fate' = [p \in Body |-> IF \E m \in S : body[m] = p THEN why ELSE fate[p]]

\* dispatch() runs when a handler ends without `continue`
ThenDispatch == pc' = "expire"

Freed(S) == SatSub(bytes, Bytes(S))

Counted == Depth

Over(S, p, res) ==
    \/ Counted - Cardinality(S) + res >= policy.max_len
    \/ Freed(S) + len[p] > policy.max_bytes

\* what the drop-head loop pops: heads until nothing is over, or all
Evicts(S, p, res) ==
    IF policy.drop_head
    THEN /\ IsHead(S)
         /\ \A T \in SUBSET S : IsHead(T) /\ T # S => Over(T, p, res)
         /\ Over(S, p, res) => S = ready
    ELSE S = {}

-----------------------------------------------------------------------------
(***************************************************************************)
(* The mailbox handlers.  A refused publish and a stale settle `continue`  *)
(* past dispatch().                                                        *)
(***************************************************************************)
Publish(from_reserved) ==
    LET p == published + 1
        res == IF from_reserved THEN SatSub(reserved, 1) ELSE reserved
    IN
    /\ pc = "select" /\ published < MaxMsgs
    /\ from_reserved => slots > 0
    /\ published' = p
    /\ reserved' = res
    /\ slots' = IF from_reserved THEN slots - 1 ELSE slots
    /\ \E S \in SUBSET ready :
        /\ Evicts(S, p, res)
        /\ ready' = ready \ S
        /\ Fated(S, "maxlen")
        /\ IF Over(S, p, res) /\ ~from_reserved
           THEN /\ answer' = [answer EXCEPT ![p] = "refused"]
                /\ bytes' = Freed(S)
                /\ failures' = [m \in MsgId |-> IF m \in S THEN 0 ELSE failures[m]]
                /\ dead_letter_then_remove(S, <<>>)
                /\ UNCHANGED <<pc, next_msg_id, pending, body, enqueued_ms>>
           ELSE LET m == next_msg_id + 1 IN
                /\ next_msg_id' = m
                /\ body' = [body EXCEPT ![m] = p]
                /\ failures' = [n \in MsgId |-> IF n \in S THEN 0 ELSE failures[n]]
                /\ pending' = pending \cup {[id |-> m, p |-> p, done |-> "wait"]}
                /\ bytes' = Freed(S) + len[p]
                /\ enqueued_ms' = [enqueued_ms EXCEPT ![p] = now]
                /\ answer' = [answer EXCEPT ![p] = "wait"]
                /\ dead_letter_then_remove(S, <<[op |-> "insert", id |-> m, p |-> p]>>)
                /\ ThenDispatch
    /\ UNCHANGED <<policy, owner, consumers, store, now, failed, crashes>>

Reserve(n) ==
    LET ok == policy.drop_head \/ Depth + reserved + n <= policy.max_len IN
    /\ pc = "select" /\ slots + n <= policy.max_slots
    /\ reserved' = IF ok /\ ~policy.drop_head THEN reserved + n ELSE reserved
    /\ slots' = IF ok THEN slots + n ELSE slots
    /\ ThenDispatch
    /\ UNCHANGED <<policy, ready, owner, failures, next_msg_id, bytes, pending,
                   body, consumers, chan, store, router, clock, history, crashes>>

Unreserve(n) ==
    /\ pc = "select" /\ n <= slots
    /\ reserved' = SatSub(reserved, n)
    /\ slots' = slots - n
    /\ ThenDispatch
    /\ UNCHANGED <<policy, ready, owner, failures, next_msg_id, bytes, pending,
                   body, consumers, chan, store, router, clock, history, crashes>>

Subscribe ==
    /\ pc = "select" /\ next_sub_id < MaxSubs
    /\ next_sub_id' = next_sub_id + 1
    /\ subs' = Append(subs, NewSubscriber(next_sub_id'))
    /\ ThenDispatch
    /\ UNCHANGED <<policy, ready, owner, failures, next_msg_id, bytes, pending,
                   reserved, slots, body, rr, closed, chan, store, router, clock,
                   history, crashes>>

Demand(s, credit, drain) ==
    /\ pc = "select" /\ s <= next_sub_id
    /\ \A i \in DOMAIN subs : subs[i].id = s => subs[i].demand + credit <= MaxDemand
    /\ subs' = grant(subs, s, credit, drain)
    /\ ThenDispatch
    /\ UNCHANGED <<policy, ready, owner, failures, next_msg_id, bytes, pending,
                   reserved, slots, body, rr, next_sub_id, closed, chan, store,
                   router, clock, history, crashes>>

Settle(s, m, outcome) ==
    LET n == failures[m] + 1
        exhausted == attempts_exhausted(policy.max_attempts, n)
        gone == outcome = "ack" \/ (outcome = "failed" /\ exhausted)
    IN
    /\ pc = "select" /\ owner[m] = s
    /\ outcome = "failed" => failed < MaxFailures
    /\ failed' = IF outcome = "failed" THEN failed + 1 ELSE failed
    /\ owner' = [owner EXCEPT ![m] = NoSub]
    /\ ready' = IF gone THEN ready ELSE ready \cup {m}
    /\ bytes' = IF gone THEN Freed({m}) ELSE bytes
    /\ failures' = [failures EXCEPT ![m] =
                       IF gone THEN 0 ELSE IF outcome = "failed" THEN n ELSE @]
    /\ \/ /\ outcome = "ack"
          /\ chan' = Append(chan, Op("remove", m))
          /\ Fated({m}, "acked")
          /\ UNCHANGED router
       \/ outcome = "requeue" /\ UNCHANGED <<chan, router, fate>>
       \/ /\ outcome = "failed" /\ exhausted
          /\ dead_letter_then_remove({m}, <<>>)
          /\ Fated({m}, "limit")
       \/ /\ outcome = "failed" /\ ~exhausted
          /\ chan' = Append(chan, Op("fail", m))
          /\ UNCHANGED <<router, fate>>
    /\ ThenDispatch
    /\ UNCHANGED <<policy, next_msg_id, pending, reserved, slots, body, consumers,
                   store, clock, published, answer, crashes>>

\* the settling subscriber is not the owner: nothing happens, no dispatch
StaleSettle(s, m) ==
    /\ pc = "select" /\ s <= next_sub_id /\ owner[m] # s
    /\ UNCHANGED vars

Unsubscribe(s) ==
    /\ pc = "select" /\ HasSub(subs, s)
    /\ subs' = Without(subs, s)
    /\ ready' = ready \cup HeldBy(s)
    /\ owner' = [m \in MsgId |-> IF owner[m] = s THEN NoSub ELSE owner[m]]
    /\ ThenDispatch
    /\ UNCHANGED <<policy, failures, next_msg_id, bytes, pending, reserved, slots,
                   body, rr, next_sub_id, closed, chan, store, router, clock,
                   history, crashes>>

\* one finished publish, in any order: FuturesUnordered
CommitDone(c) ==
    /\ pc = "select" /\ c \in pending /\ c.done # "wait"
    /\ pending' = pending \ {c}
    /\ ready' = IF c.done = "yes" THEN ready \cup {c.id} ELSE ready
    /\ bytes' = IF c.done = "yes" THEN bytes ELSE Freed({c.id})
    /\ answer' = [answer EXCEPT ![c.p] = IF c.done = "yes" THEN "accepted" ELSE "refused"]
    /\ ThenDispatch
    /\ UNCHANGED <<policy, owner, failures, next_msg_id, reserved, slots, body,
                   consumers, chan, store, router, clock, published, fate,
                   failed, crashes>>

-----------------------------------------------------------------------------
(***************************************************************************)
(* dispatch(): expire from the head, then deliver while there is a message *)
(* and a subscriber that wants it, then complete the drains.               *)
(***************************************************************************)
Expire ==
    /\ pc = "expire"
    /\ pc' = "dispatch"
    /\ \E S \in SUBSET ready :
        LET old(m) == policy.ttl_ms # None
                      /\ expired(policy.ttl_ms, enqueued_ms[body[m]], now)
        IN
        /\ IsHead(S) /\ \A m \in S : old(m)
        /\ ready # S => ~old(First(ready \ S))
        /\ ready' = ready \ S
        /\ failures' = [m \in MsgId |-> IF m \in S THEN 0 ELSE failures[m]]
        /\ bytes' = Freed(S)
        /\ Fated(S, "expired")
        /\ dead_letter_then_remove(S, <<>>)
    /\ UNCHANGED <<policy, owner, next_msg_id, pending, reserved, slots, body,
                   consumers, store, clock, published, answer, failed, crashes>>

Deliver(i) ==
    LET m == First(ready)
        s == subs[i].id
    IN
    /\ pc = "dispatch" /\ ready # {} /\ pick_ready(subs, rr, i)
    /\ rr' = IF disk[m] = None THEN rr ELSE i % Len(subs)
    /\ IF disk[m] = None
       THEN /\ ready' = ready \ {m}
            /\ UNCHANGED <<owner, subs>>
       ELSE IF s \notin closed
       THEN /\ ready' = ready \ {m}
            /\ owner' = [owner EXCEPT ![m] = s]
            /\ subs' = Served(subs, i)
       ELSE /\ ready' = ready \cup HeldBy(s)
            /\ owner' = [n \in MsgId |-> IF owner[n] = s THEN NoSub ELSE owner[n]]
            /\ subs' = Without(subs, s)
    /\ UNCHANGED <<policy, pc, failures, next_msg_id, bytes, pending, reserved,
                   slots, body, next_sub_id, closed, chan, store, router, clock,
                   history, crashes>>

EndDispatch ==
    /\ pc = "dispatch" /\ pc' = "select"
    /\ \/ ready = {} /\ subs' = complete_drains(subs)
       \/ ready # {} /\ NoDemand(subs) /\ UNCHANGED subs
    /\ UNCHANGED <<policy, ready, owner, failures, next_msg_id, bytes, pending,
                   reserved, slots, body, rr, next_sub_id, closed, chan, store,
                   router, clock, history, crashes>>

-----------------------------------------------------------------------------
(***************************************************************************)
(* writer_loop and apply_batch: a batch is what the channel holds when the *)
(* writer drains it (any prefix), applied in order in one transaction.     *)
(* The inserts of an aborted batch are answered false, its removes and     *)
(* failure counts are lost.                                                *)
(***************************************************************************)
Applied(table, o) ==
    CASE o.op = "insert" -> [table EXCEPT ![o.id] = [p |-> o.p, failures |-> 0]]
      [] o.op = "remove" -> [table EXCEPT ![o.id] = None]
      [] o.op = "fail" /\ table[o.id] # None
           -> [table EXCEPT ![o.id].failures = @ + 1]
      [] OTHER -> table

writer_loop(k, ok) ==
    LET batch == SubSeq(chan, 1, k)
        copies == {batch[i].p : i \in {j \in 1..k : batch[j].op = "copy"}}
        removes == {batch[i].id : i \in {j \in 1..k : batch[j].op = "remove"}}
    IN
    /\ chan' = SubSeq(chan, k + 1, Len(chan))
    /\ pending' = {IF Contains(batch, [op |-> "insert", id |-> c.id, p |-> c.p])
                   THEN [c EXCEPT !.done = IF ok THEN "yes" ELSE "no"] ELSE c : c \in pending}
    /\ deferred' = {IF d.p \in copies THEN [d EXCEPT !.resolved = TRUE] ELSE d : d \in deferred}
    /\ IF ok
       THEN /\ disk' = FoldLeft(Applied, disk, batch)
            /\ dead' = dead \cup copies
            /\ UNCHANGED <<fate, unremoved, aborts>>
       ELSE /\ aborts < MaxAborts /\ aborts' = aborts + 1
            /\ fate' = [p \in Body |-> IF p \in copies THEN "refused" ELSE fate[p]]
            /\ unremoved' = unremoved \cup removes
            /\ UNCHANGED <<disk, dead>>
    /\ UNCHANGED <<policy, pc, ready, owner, failures, next_msg_id, bytes, reserved,
                   body, slots, consumers, dlx, clock, published, answer, failed,
                   crashes>>

-----------------------------------------------------------------------------
(***************************************************************************)
(* spawn_dlx_router: the next dead letter either reaches the dead-letter   *)
(* queue, whose insert joins the writer's channel and whose confirm waits  *)
(* for it, or is dropped (no such target, its actor gone, or refused       *)
(* there); dropping it resolves the confirm too.                           *)
(***************************************************************************)
\* Variant: only a stored copy resolves the confirm.
LeftWaiting(p) == deferred
Resolved(p) == {IF d.p = p THEN [d EXCEPT !.resolved = TRUE] ELSE d : d \in deferred}

RouteDeadLetter ==
    /\ dlx # <<>>
    /\ dlx' = Tail(dlx)
    /\ \/ chan' = Append(chan, Head(dlx)) /\ UNCHANGED <<deferred, fate>>
       \/ /\ deferred' = Resolved(Head(dlx).p)
          /\ fate' = [fate EXCEPT ![Head(dlx).p] = "refused"]
          /\ UNCHANGED chan
    /\ UNCHANGED <<policy, actor, consumers, store, clock, published, answer,
                   failed, crashes>>

\* the task dead_letter_then_remove spawned
DeferredRemove(d) ==
    /\ d \in deferred /\ d.resolved
    /\ deferred' = deferred \ {d}
    /\ chan' = Append(chan, [op |-> "remove", id |-> d.id, p |-> d.p])
    /\ UNCHANGED <<policy, actor, consumers, store, dlx, clock, history, crashes>>

Tick ==
    /\ policy.ttl_ms # None     \* nothing else reads the clock
    /\ now < MaxTime /\ now' = now + 1
    /\ UNCHANGED <<policy, actor, consumers, chan, store, router, enqueued_ms,
                   history, crashes>>

ConnectionDropped(s) ==
    /\ HasSub(subs, s) /\ s \notin closed
    /\ closed' = closed \cup {s}
    /\ UNCHANGED <<policy, actor, subs, rr, next_sub_id, chan, store, router,
                   clock, history, crashes>>

\* the process dies between any two steps, and a new one recovers
Crash ==
    /\ crashes < MaxCrashes /\ crashes' = crashes + 1
    /\ Recovered
    /\ chan' = <<>> /\ dlx' = <<>> /\ deferred' = {} /\ unremoved' = {}
    /\ answer' = [p \in Body |-> IF answer[p] = "wait" THEN "lost" ELSE answer[p]]
    /\ UNCHANGED <<policy, disk, dead, aborts, clock, published, fate, failed>>

Handler ==
    \/ \E r \in BOOLEAN : Publish(r)
    \/ \E n \in 1..policy.max_slots : Reserve(n) \/ Unreserve(n)
    \/ Subscribe
    \/ \E s \in SubId, credit \in 0..MaxDemand, drain \in BOOLEAN :
          Demand(s, credit, drain)
    \/ \E s \in SubId, m \in MsgId :
          \/ \E o \in {"ack", "requeue", "failed"} : Settle(s, m, o)
          \/ StaleSettle(s, m)
    \/ \E s \in SubId : Unsubscribe(s)

Commits == \E c \in pending : CommitDone(c)

Loop ==
    \/ Expire
    \/ \E i \in DOMAIN subs : Deliver(i)
    \/ EndDispatch

Writer == \E k \in 1..Len(chan), ok \in BOOLEAN : writer_loop(k, ok)
Deferred == \E d \in deferred : DeferredRemove(d)

Next ==
    \/ Handler
    \/ Commits
    \/ Loop
    \/ Writer
    \/ RouteDeadLetter
    \/ Deferred
    \/ Tick
    \/ \E s \in SubId : ConnectionDropped(s)
    \/ Crash

Spec == Init /\ [][Next]_vars

(***************************************************************************)
(* The runtime polls the actor's loop, the router and the spawned tasks    *)
(* whenever they can run, and the writer has a thread of its own.  The     *)
(* actor's select! polls its branches in random order, so a commit that is *)
(* ready again and again is not passed over for ever (strong fairness).    *)
(***************************************************************************)
FairSpec ==
    /\ Spec
    /\ SF_vars(Commits)
    /\ WF_vars(Loop)
    /\ WF_vars(Writer)
    /\ WF_vars(RouteDeadLetter)
    /\ WF_vars(Deferred)

-----------------------------------------------------------------------------
OpRec == [op : {"insert", "remove", "fail", "copy"}, id : MsgId, p : Body]

\* The type invariant: ids, subscribers and operations stay in their domains.
TypeOK ==
    /\ policy \in Policies
    /\ pc \in {"select", "expire", "dispatch"}
    /\ ready \subseteq MsgId
    /\ owner \in [MsgId -> 0..MaxSubs]
    /\ failures \in [MsgId -> 0..MaxFailures]
    /\ next_msg_id \in 0..MaxMsgs /\ bytes \in Nat
    /\ pending \subseteq [id : MsgId, p : Body, done : {"wait", "yes", "no"}]
    /\ reserved \in 0..policy.max_slots /\ slots \in 0..policy.max_slots
    /\ \A i \in DOMAIN subs : subs[i] \in [id : SubId, demand : 0..MaxDemand, drain : BOOLEAN]
    /\ rr \in 0..MaxSubs /\ next_sub_id \in 0..MaxSubs /\ closed \subseteq SubId
    /\ chan \in Seq(OpRec) /\ dlx \in Seq(OpRec)
    /\ \A m \in MsgId : disk[m] = None \/ disk[m] \in [p : Body, failures : 0..MaxFailures]
    /\ dead \subseteq Body /\ unremoved \subseteq MsgId
    /\ deferred \subseteq [id : MsgId, p : Body, resolved : BOOLEAN]

(***************************************************************************)
(* A publish that was confirmed is never silently lost: its body is on the *)
(* queue's disk, or on the dead-letter queue's, or a consumer acknowledged *)
(* it, or the router resolved it as undeliverable, or it died under a      *)
(* policy without a dead-letter target.  Crashes and aborted batches may   *)
(* fall between any two steps (durable.rs, dead_letter_then_remove).       *)
(***************************************************************************)
ConfirmedSurvives ==
    \A p \in Body : answer[p] = "accepted" =>
        \/ \E m \in OnDisk : disk[m].p = p
        \/ p \in dead
        \/ fate[p] \in {"acked", "refused"}
        \/ ~policy.dead_letter /\ fate[p] \in {"maxlen", "expired", "limit"}

(***************************************************************************)
(* Whatever the actor holds is on disk under the id it knows, with the     *)
(* body it means and no fewer failures counted than were persisted: ids    *)
(* handed out after a recovery collide with nothing, and the stale-id      *)
(* branch of dispatch() needs a read error to run.                         *)
(***************************************************************************)
HeldOnDisk ==
    \A m \in ready \cup Inflight \cup {c.id : c \in {d \in pending : d.done = "yes"}} :
        m \in OnDisk /\ disk[m].p = body[m] /\ disk[m].failures <= failures[m]

(***************************************************************************)
(* Nothing on disk is stranded while the actor lives: every stored message *)
(* is ready, in flight, a publish about to be confirmed, or on its way out *)
(* (its remove queued or deferred), unless its remove was in an aborted    *)
(* batch, which only a restart brings back.                                *)
(***************************************************************************)
NoneStranded ==
    \A m \in OnDisk :
        \/ m \in ready \cup Inflight \cup unremoved
        \/ \E c \in pending : c.id = m
        \/ \E d \in deferred : d.id = m
        \/ \E i \in DOMAIN chan : chan[i].op = "remove" /\ chan[i].id = m

\* The byte budget counts exactly the bodies ready, in flight or being stored.
BytesExact == bytes = Bytes(ready \cup Inflight \cup {c.id : c \in pending})

(***************************************************************************)
(* Memory and disk agree, also after a recovery: what the actor holds is   *)
(* stored, what is stored is held or leaving, and the byte budget counts   *)
(* exactly that.  (And the state is well typed.)                           *)
(***************************************************************************)
MemoryMatchesDisk == TypeOK /\ HeldOnDisk /\ NoneStranded /\ BytesExact

(***************************************************************************)
(* Once the producers pause, every admitted publish is answered and every  *)
(* dead-lettered message's remove is handed to the writer, whatever became *)
(* of the insert or of the copy: no task waits for a confirm that nobody   *)
(* will send.                                                              *)
(***************************************************************************)
Resolves == (published = MaxMsgs) ~> (pending = {} /\ deferred = {})
=============================================================================
