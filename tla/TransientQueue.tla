--------------------------- MODULE TransientQueue ---------------------------
(***************************************************************************)
(* The transient (in-memory) queue actor of ramqp-broker: queue.rs, the    *)
(* dispatch primitives of dispatch.rs and the policy checks of policy.rs.  *)
(*                                                                         *)
(* The actor takes one mailbox message at a time and then dispatches.  The *)
(* program counter pc follows that: "recv" waits for a message, "publish"  *)
(* is inside the publish handler, "expire" is the lazy TTL loop at the top *)
(* of dispatch() and "dispatch" its delivery loop.  Only in "recv" can a   *)
(* new message be taken, so a handler and its dispatch are one unit to the *)
(* senders; what does run beside the loops is a subscriber's connection,   *)
(* whose receiver may be dropped between any two deliveries.               *)
(*                                                                         *)
(* Bodies are abstracted to their length, and a message is its id.         *)
(***************************************************************************)
EXTENDS Integers, Sequences, FiniteSets

CONSTANTS
    max_len,        \* EffectivePolicy.max_len
    max_bytes,      \* EffectivePolicy.max_bytes
    drop_head,      \* EffectivePolicy.drop_head
    ttl_ms,         \* EffectivePolicy.ttl_ms, or None
    max_attempts,   \* EffectivePolicy.max_attempts, or None
    None,
    BodySizes,      \* the body lengths producers publish
    MaxMsgs,        \* bound: messages admitted
    MaxSubs,        \* bound: subscriptions opened
    MaxDemand,      \* bound: outstanding demand of one subscriber
    MaxSlots,       \* bound: slots reserved at a time
    MaxFailures,    \* bound: failed deliveries of one message
    MaxTime         \* bound: the clock

ASSUME BoundsAssumption ==
    /\ MaxMsgs \in Nat /\ MaxSubs \in Nat /\ MaxDemand \in Nat
    /\ MaxSlots \in Nat /\ MaxFailures \in Nat /\ MaxTime \in Nat

ASSUME PolicyAssumption ==
    /\ max_len \in Nat /\ max_bytes \in Nat
    /\ drop_head \in BOOLEAN
    /\ BodySizes \subseteq Nat
    /\ ttl_ms # None => ttl_ms \in Nat
    /\ max_attempts # None => max_attempts \in Nat

MsgId == 1..MaxMsgs
SubId == 1..MaxSubs
NoSub == 0

VARIABLES
    pc,             \* where the actor task is
    cur,            \* the message in the publish handler
    ready,          \* ids waiting for a subscriber, front first
    owner,          \* unacked: the subscriber a message is in flight to
    size,           \* Stored.body.len()
    failures,       \* Stored.failures
    enqueued_ms,    \* Stored.enqueued_ms
    subs,           \* subscriber ids in subscription order
    demand,         \* Subscriber.demand
    drain_pending,  \* Subscriber.drain_pending
    reserved,       \* slots held for transaction commits
    bytes,          \* the actor's byte counter
    next_msg_id,
    next_sub_id,
    rr,             \* round-robin position (0-based, as in the code)
    now,            \* now_ms()
    closed,         \* subscribers whose connection dropped its receiver
    slots,          \* slots that committing transactions believe they hold
    fate,           \* history: what became of each message
    handed,         \* history: <<subscriber, message>> pairs delivered
    bypassed        \* history: deliveries to others while this one waited

store == <<size, failures, enqueued_ms>>
consumers == <<subs, demand, drain_pending, next_sub_id, rr, closed, bypassed>>
txns == <<reserved, slots>>
vars == <<pc, cur, ready, owner, store, consumers, txns, bytes, next_msg_id,
          now, fate, handed>>

Fates == {"new", "held", "acked", "dropped", "maxlen", "expired", "limit"}
NoMsg == [size |-> 0, from_reserved |-> FALSE]

SatSub(a, b) == IF b <= a THEN a - b ELSE 0
Unacked == {m \in MsgId : owner[m] # NoSub}

Held(s) == {m \in MsgId : owner[m] = s}

IsReady(m) == \E i \in 1..Len(ready) : ready[i] = m
Subscribed(s) == \E i \in 1..Len(subs) : subs[i] = s

\* Variant: a body's bytes are not given back.
FreedNothing(m) == bytes
Freed(m) == SatSub(bytes, size[m])

\* Variant: a message stays in unacked.
StillLeased(m) == owner
Unleased(m) == [owner EXCEPT ![m] = NoSub]

PushedBack(m) == Append(ready, m)

\* Variant: the handler goes back to recv() without dispatching.
ThenRecv == pc' = "recv"
ThenDispatch == pc' = "expire"

(***************************************************************************)
(* The ways to list a set of ids oldest first (there is exactly one).      *)
(***************************************************************************)
OldestFirst(S) ==
    {q \in UNION {[1..n -> S] : n \in 0..MaxMsgs} :
        /\ \A i, j \in DOMAIN q : i < j => q[i] < q[j]
        /\ \A m \in S : \E i \in DOMAIN q : q[i] = m}

Init ==
    /\ pc = "recv" /\ cur = NoMsg
    /\ ready = <<>>
    /\ owner = [m \in MsgId |-> NoSub]
    /\ size = [m \in MsgId |-> 0]
    /\ failures = [m \in MsgId |-> 0]
    /\ enqueued_ms = [m \in MsgId |-> 0]
    /\ subs = <<>>
    /\ demand = [s \in SubId |-> 0]
    /\ drain_pending = [s \in SubId |-> FALSE]
    /\ reserved = 0 /\ bytes = 0 /\ rr = 0
    /\ next_msg_id = 0 /\ next_sub_id = 0
    /\ now = 0 /\ closed = {} /\ slots = 0
    /\ fate = [m \in MsgId |-> "new"]
    /\ handed = {}
    /\ bypassed = [s \in SubId |-> 0]

-----------------------------------------------------------------------------
(***************************************************************************)
(* Publish and PublishReserved.  The handler gives up the reserved slot,   *)
(* evicts heads while it is over a bound (drop-head queues), and admits or *)
(* refuses.  A refusal skips dispatch.                                     *)
(***************************************************************************)
Publish(sz, from_reserved) ==
    /\ pc = "recv"
    /\ next_msg_id < MaxMsgs
    /\ from_reserved => slots > 0
    /\ cur' = [size |-> sz, from_reserved |-> from_reserved]
    /\ reserved' = IF from_reserved THEN SatSub(reserved, 1) ELSE reserved
    /\ slots' = IF from_reserved THEN slots - 1 ELSE slots
    /\ pc' = "publish"
    /\ UNCHANGED <<ready, owner, store, consumers, bytes, next_msg_id, now,
                   fate, handed>>

\* Variant: the slots held for transactions are not counted.
OverIgnoringReserved == \/ Len(ready) + Cardinality(Unacked) >= max_len
                        \/ bytes + cur.size > max_bytes

Over == \/ Len(ready) + Cardinality(Unacked) + reserved >= max_len
        \/ bytes + cur.size > max_bytes

CanEvict == Over /\ drop_head /\ ready # <<>>

EvictHead ==
    /\ pc = "publish" /\ CanEvict
    /\ ready' = Tail(ready)
    /\ bytes' = Freed(Head(ready))
    /\ fate' = [fate EXCEPT ![Head(ready)] = "maxlen"]
    /\ UNCHANGED <<pc, cur, owner, store, consumers, txns, next_msg_id, now,
                   handed>>

Admit ==
    /\ pc = "publish" /\ ~CanEvict
    /\ Over => cur.from_reserved
    /\ next_msg_id' = next_msg_id + 1
    /\ ready' = PushedBack(next_msg_id')
    /\ size' = [size EXCEPT ![next_msg_id'] = cur.size]
    /\ enqueued_ms' = [enqueued_ms EXCEPT ![next_msg_id'] = now]
    /\ bytes' = bytes + cur.size
    /\ fate' = [fate EXCEPT ![next_msg_id'] = "held"]
    /\ cur' = NoMsg
    /\ ThenDispatch
    /\ UNCHANGED <<owner, failures, consumers, txns, now, handed>>

Refuse ==
    /\ pc = "publish" /\ ~CanEvict
    /\ Over /\ ~cur.from_reserved
    /\ cur' = NoMsg
    /\ pc' = "recv"
    /\ UNCHANGED <<ready, owner, store, consumers, txns, bytes, next_msg_id,
                   now, fate, handed>>

-----------------------------------------------------------------------------
(***************************************************************************)
(* Reserve and Unreserve, as a transaction commit sends them (txn.rs): a   *)
(* granted reservation is later given back or spent slot by slot.          *)
(***************************************************************************)
Reserve(count) ==
    /\ pc = "recv"
    /\ slots + count <= MaxSlots
    /\ LET ok == \/ drop_head
                 \/ Len(ready) + Cardinality(Unacked) + reserved + count <= max_len
       IN  /\ reserved' = IF ok /\ ~drop_head THEN reserved + count ELSE reserved
           /\ slots' = IF ok THEN slots + count ELSE slots
    /\ ThenDispatch
    /\ UNCHANGED <<cur, ready, owner, store, consumers, bytes, next_msg_id,
                   now, fate, handed>>

Unreserve(count) ==
    /\ pc = "recv"
    /\ count <= slots
    /\ reserved' = SatSub(reserved, count)
    /\ slots' = slots - count
    /\ ThenDispatch
    /\ UNCHANGED <<cur, ready, owner, store, consumers, bytes, next_msg_id,
                   now, fate, handed>>

-----------------------------------------------------------------------------
(***************************************************************************)
(* Subscribe, Demand, Unsubscribe.                                         *)
(***************************************************************************)
Subscribe ==
    /\ pc = "recv"
    /\ next_sub_id < MaxSubs
    /\ next_sub_id' = next_sub_id + 1
    /\ subs' = Append(subs, next_sub_id')
    /\ ThenDispatch
    /\ UNCHANGED <<cur, ready, owner, store, demand, drain_pending, rr, closed,
                   bypassed, txns, bytes, next_msg_id, now, fate, handed>>

Demand(s, credit, drain) ==
    /\ pc = "recv"
    /\ credit > 0 \/ drain
    /\ IF Subscribed(s)
       THEN /\ demand[s] + credit <= MaxDemand
            /\ demand' = [demand EXCEPT ![s] = @ + credit]
            /\ drain_pending' = [drain_pending EXCEPT ![s] = drain]
       ELSE UNCHANGED <<demand, drain_pending>>
    /\ ThenDispatch
    /\ UNCHANGED <<cur, ready, owner, store, subs, next_sub_id, rr, closed,
                   bypassed, txns, bytes, next_msg_id, now, fate, handed>>

\* Variant: the subscriber stays in the list, with its demand.
RemoveHeldOnly(s) ==
    /\ \E orphaned \in OldestFirst(Held(s)) : ready' = orphaned \o ready
    /\ owner' = [m \in MsgId |-> IF m \in Held(s) THEN NoSub ELSE owner[m]]
    /\ UNCHANGED <<subs, demand, drain_pending, bypassed>>

(***************************************************************************)
(* Subscriber s leaves the list, if it is there, and whatever it held in   *)
(* flight goes back to the front, oldest first.                            *)
(***************************************************************************)
Remove(s) ==
    /\ \/ \E i \in 1..Len(subs) :
             /\ subs[i] = s
             /\ subs' = [j \in 1..Len(subs) - 1 |->
                             IF j < i THEN subs[j] ELSE subs[j + 1]]
       \/ ~Subscribed(s) /\ subs' = subs
    /\ \E orphaned \in OldestFirst(Held(s)) : ready' = orphaned \o ready
    /\ owner' = [m \in MsgId |-> IF m \in Held(s) THEN NoSub ELSE owner[m]]
    /\ demand' = [demand EXCEPT ![s] = 0]
    /\ drain_pending' = [drain_pending EXCEPT ![s] = FALSE]
    /\ bypassed' = [t \in SubId |-> IF Subscribed(s) THEN 0 ELSE bypassed[t]]

Unsubscribe(s) ==
    /\ pc = "recv"
    /\ Remove(s)
    /\ ThenDispatch
    /\ UNCHANGED <<cur, store, next_sub_id, rr, closed, txns, bytes,
                   next_msg_id, now, fate, handed>>

-----------------------------------------------------------------------------
(***************************************************************************)
(* Settle.  A connection settles what was delivered to it, possibly late:  *)
(* only the current owner's settlement has an effect, any other skips      *)
(* dispatch and leaves everything alone.                                   *)
(***************************************************************************)
\* Variant: off by one.
ExhaustedLate(n) == max_attempts # None /\ n > max_attempts

attempts_exhausted(n) == max_attempts # None /\ n >= max_attempts

\* Variant: a former owner may settle.
WasOwner(s, m) == <<s, m>> \in handed
IsOwner(s, m) == owner[m] = s

SettleFinal(s, m, outcome) ==
    /\ pc = "recv" /\ IsOwner(s, m)
    /\ owner' = Unleased(m)
    /\ bytes' = Freed(m)
    /\ fate' = [fate EXCEPT ![m] = outcome]
    /\ ThenDispatch
    /\ UNCHANGED <<cur, ready, store, consumers, txns, next_msg_id, now, handed>>

SettleRequeue(s, m) ==
    /\ pc = "recv" /\ IsOwner(s, m)
    /\ owner' = Unleased(m)
    /\ ready' = <<m>> \o ready
    /\ ThenDispatch
    /\ UNCHANGED <<cur, store, consumers, txns, bytes, next_msg_id, now, fate,
                   handed>>

SettleRequeueFailed(s, m) ==
    /\ pc = "recv" /\ IsOwner(s, m)
    /\ failures[m] < MaxFailures
    /\ owner' = Unleased(m)
    /\ failures' = [failures EXCEPT ![m] = @ + 1]
    /\ IF attempts_exhausted(failures[m] + 1)
       THEN /\ bytes' = Freed(m)
            /\ fate' = [fate EXCEPT ![m] = "limit"]
            /\ UNCHANGED ready
       ELSE /\ ready' = <<m>> \o ready
            /\ UNCHANGED <<bytes, fate>>
    /\ ThenDispatch
    /\ UNCHANGED <<cur, size, enqueued_ms, consumers, txns, next_msg_id, now,
                   handed>>

SettleStale(s, m) ==
    /\ pc = "recv" /\ <<s, m>> \in handed
    /\ ~IsOwner(s, m)
    /\ UNCHANGED vars

Settle(s, m) ==
    \/ \E outcome \in {"acked", "dropped"} : SettleFinal(s, m, outcome)
    \/ SettleRequeue(s, m)
    \/ SettleRequeueFailed(s, m)
    \/ SettleStale(s, m)

(***************************************************************************)
(* Stats only reads, but the dispatch after it may expire the head.        *)
(***************************************************************************)
Stats ==
    /\ pc = "recv"
    /\ ThenDispatch
    /\ UNCHANGED <<cur, ready, owner, store, consumers, txns, bytes,
                   next_msg_id, now, fate, handed>>

-----------------------------------------------------------------------------
(***************************************************************************)
(* dispatch(): expire from the head, then deliver round-robin while there  *)
(* is a ready message and a subscriber that wants one.                     *)
(***************************************************************************)
expired(m) == ttl_ms # None /\ SatSub(now, enqueued_ms[m]) >= ttl_ms

HeadExpired == ready # <<>> /\ expired(Head(ready))

ExpireHead ==
    /\ pc = "expire" /\ HeadExpired
    /\ ready' = Tail(ready)
    /\ bytes' = Freed(Head(ready))
    /\ fate' = [fate EXCEPT ![Head(ready)] = "expired"]
    /\ UNCHANGED <<pc, cur, owner, store, consumers, txns, next_msg_id, now,
                   handed>>

BeginDispatch ==
    /\ pc = "expire" /\ ~HeadExpired
    /\ pc' = "dispatch"
    /\ UNCHANGED <<cur, ready, owner, store, consumers, txns, bytes,
                   next_msg_id, now, fate, handed>>

\* Variant: the scan always starts at the front.
PickFirst(i) == /\ demand[subs[i]] > 0
                /\ \A j \in 1..i - 1 : demand[subs[j]] = 0

(***************************************************************************)
(* Position i of subs is the one pick_ready finds: it has demand, and no   *)
(* position met before it when scanning from rr does.                      *)
(***************************************************************************)
pick_ready(i) ==
    LET n == Len(subs)
        at(k) == ((rr + k) % n) + 1
    IN  \E k \in 0..n - 1 :
          /\ i = at(k)
          /\ demand[subs[i]] > 0
          /\ \A j \in 0..k - 1 : demand[subs[at(j)]] = 0

NoDemand == \A i \in 1..Len(subs) : demand[subs[i]] = 0

Deliver(i) ==
    /\ pc = "dispatch" /\ ready # <<>> /\ pick_ready(i)
    /\ subs[i] \notin closed
    /\ rr' = i % Len(subs)
    /\ demand' = [demand EXCEPT ![subs[i]] = @ - 1]
    /\ ready' = Tail(ready)
    /\ owner' = [owner EXCEPT ![Head(ready)] = subs[i]]
    /\ handed' = handed \cup {<<subs[i], Head(ready)>>}
    /\ bypassed' = [t \in SubId |->
                       IF t # subs[i] /\ demand[t] > 0 THEN bypassed[t] + 1 ELSE 0]
    /\ UNCHANGED <<pc, cur, store, subs, drain_pending, next_sub_id, closed,
                   txns, bytes, next_msg_id, now, fate>>

(***************************************************************************)
(* The subscriber's connection is gone: the message stays at the front and *)
(* everything else the subscriber held goes before it.                     *)
(***************************************************************************)
DeliverFailed(i) ==
    /\ pc = "dispatch" /\ ready # <<>> /\ pick_ready(i)
    /\ subs[i] \in closed
    /\ rr' = i % Len(subs)
    /\ Remove(subs[i])
    /\ UNCHANGED <<pc, cur, store, next_sub_id, closed, txns, bytes,
                   next_msg_id, now, fate, handed>>

(***************************************************************************)
(* The loop ends: with nothing ready the pending drains complete, with no  *)
(* demand left it returns early.                                           *)
(***************************************************************************)
complete_drains ==
    /\ demand' = [s \in SubId |-> IF drain_pending[s] THEN 0 ELSE demand[s]]
    /\ drain_pending' = [s \in SubId |-> FALSE]
    /\ bypassed' = [s \in SubId |-> IF drain_pending[s] THEN 0 ELSE bypassed[s]]

EndDispatch ==
    /\ pc = "dispatch"
    /\ \/ ready = <<>> /\ complete_drains
       \/ ready # <<>> /\ NoDemand /\ UNCHANGED <<demand, drain_pending, bypassed>>
    /\ pc' = "recv"
    /\ UNCHANGED <<cur, ready, owner, store, subs, next_sub_id, rr, closed,
                   txns, bytes, next_msg_id, now, fate, handed>>

-----------------------------------------------------------------------------
(***************************************************************************)
(* The environment: a connection task ends, dropping its receiver, and the *)
(* clock moves on.  dispatch() reads the clock once, so it stands still    *)
(* from the end of a handler to the end of its dispatch.                   *)
(***************************************************************************)
ConnClosed(s) ==
    /\ Subscribed(s) /\ s \notin closed
    /\ closed' = closed \cup {s}
    /\ UNCHANGED <<pc, cur, ready, owner, store, subs, demand, drain_pending,
                   next_sub_id, rr, bypassed, txns, bytes, next_msg_id, now,
                   fate, handed>>

Tick ==
    /\ pc \in {"recv", "publish"} /\ now < MaxTime
    /\ now' = now + 1
    /\ UNCHANGED <<pc, cur, ready, owner, store, consumers, txns, bytes,
                   next_msg_id, fate, handed>>

Dispatching ==
    \/ EvictHead \/ Admit \/ Refuse
    \/ ExpireHead \/ BeginDispatch
    \/ \E i \in 1..Len(subs) : Deliver(i) \/ DeliverFailed(i)
    \/ EndDispatch

Next ==
    \/ Dispatching
    \/ \E sz \in BodySizes, r \in BOOLEAN : Publish(sz, r)
    \/ \E count \in 1..MaxSlots : Reserve(count) \/ Unreserve(count)
    \/ Subscribe \/ Stats
    \/ \E s \in 1..next_sub_id :
          \/ \E credit \in 0..MaxDemand, drain \in BOOLEAN : Demand(s, credit, drain)
          \/ Unsubscribe(s)
          \/ \E m \in MsgId : Settle(s, m)
          \/ ConnClosed(s)
    \/ Tick

Spec == Init /\ [][Next]_vars

(***************************************************************************)
(* The actor task keeps running: once a message is taken, its handler and  *)
(* the dispatch after it go on until the next recv().                      *)
(***************************************************************************)
FairSpec == Spec /\ WF_vars(Dispatching)

-----------------------------------------------------------------------------
(***************************************************************************)
(* Every variable keeps its type: the messages, the subscribers, and the   *)
(* rest of the actor.                                                      *)
(***************************************************************************)
MsgTypeOK ==
    /\ ready \in Seq(MsgId)
    /\ owner \in [MsgId -> {NoSub} \cup SubId]
    /\ size \in [MsgId -> Nat]
    /\ failures \in [MsgId -> Nat]
    /\ enqueued_ms \in [MsgId -> Nat]
    /\ next_msg_id \in 0..MaxMsgs
    /\ pc = "publish" => next_msg_id < MaxMsgs
    /\ fate \in [MsgId -> Fates]
    /\ handed \subseteq SubId \X MsgId

SubTypeOK ==
    /\ subs \in Seq(SubId)
    /\ demand \in [SubId -> Nat]
    /\ drain_pending \in [SubId -> BOOLEAN]
    /\ next_sub_id \in 0..MaxSubs
    /\ rr \in Nat
    /\ closed \subseteq SubId
    /\ bypassed \in [SubId -> Nat]

ActorTypeOK ==
    /\ pc \in {"recv", "publish", "expire", "dispatch"}
    /\ cur \in [size : Nat, from_reserved : BOOLEAN]
    /\ reserved \in Nat /\ slots \in Nat /\ bytes \in Nat
    /\ now \in 0..MaxTime

TypeOK == MsgTypeOK /\ SubTypeOK /\ ActorTypeOK

(***************************************************************************)
(* No message is lost or duplicated: an admitted message that has not been *)
(* settled or dead-lettered is in exactly one place, once in ready or in   *)
(* flight, and a message that has left is in neither.                      *)
(***************************************************************************)
ReadyOnce == \A i, j \in 1..Len(ready) : i # j => ready[i] # ready[j]

Conservation ==
    /\ ReadyOnce
    /\ \A m \in MsgId :
          /\ (fate[m] = "held") <=> (IsReady(m) \/ owner[m] # NoSub)
          /\ ~(IsReady(m) /\ owner[m] # NoSub)
          /\ (fate[m] = "new") <=> (m > next_msg_id)

(***************************************************************************)
(* No in-flight message is stranded with a subscriber that has left,       *)
(* however it left: detach, session end, or a dropped connection that      *)
(* dispatch() finds when it sends.                                         *)
(***************************************************************************)
OwnerLive == \A m \in MsgId : owner[m] # NoSub => Subscribed(owner[m])

(***************************************************************************)
(* A reject-publish queue never holds more than max_len messages, with the *)
(* slots promised to transactions and the reserved publish being handled   *)
(* counted: a reserved publish skips the depth check and is still safe.    *)
(***************************************************************************)
Depth == Len(ready) + Cardinality(Unacked) + reserved
             + (IF cur.from_reserved THEN 1 ELSE 0)

DepthBound == ~drop_head => Depth <= max_len

(***************************************************************************)
(* When the actor waits for its next message, no message is ready while a  *)
(* subscriber has demand, although a refused publish and a stale           *)
(* settlement skip dispatch.                                               *)
(***************************************************************************)
NoStranded == pc = "recv" => ready = <<>> \/ NoDemand

(***************************************************************************)
(* "Then stop": when the actor is idle, a draining subscriber has no       *)
(* demand left, although dispatch() returns early without completing the   *)
(* drains when nobody has demand.                                          *)
(***************************************************************************)
DrainHonored ==
    pc = "recv" => \A s \in SubId : drain_pending[s] => demand[s] = 0

(***************************************************************************)
(* The queue serves all of its subscribers: what is in flight is with one  *)
(* that is there, and when the actor is idle no message waits for one with *)
(* demand and no drain is unfinished.                                      *)
(***************************************************************************)
ServesAll == OwnerLive /\ NoStranded /\ DrainHonored

(***************************************************************************)
(* First deliveries are in publish order: a message that was never         *)
(* delivered has everything older than itself before it in ready, and no   *)
(* newer one was delivered first, whatever was requeued in between.        *)
(***************************************************************************)
Fresh(m) == \A s \in SubId : <<s, m>> \notin handed

FirstDeliveryOrder ==
    \A j \in 1..Len(ready) : Fresh(ready[j]) =>
        /\ \A i \in 1..j - 1 : ready[i] < ready[j]
        /\ \A m \in MsgId : ~Fresh(m) => m < ready[j]

(***************************************************************************)
(* Round-robin is fair: while a subscriber waits with demand, each other   *)
(* subscriber is served at most once before it, wherever rr points after   *)
(* the subscriber list has grown or shrunk.                                *)
(***************************************************************************)
BoundedBypass ==
    \A i \in 1..Len(subs) : bypassed[subs[i]] < Len(subs)

(***************************************************************************)
(* A message out of delivery attempts never goes back to ready: it leaves  *)
(* as "delivery-limit" with exactly the allowed number of failures.        *)
(***************************************************************************)
AttemptsHonored ==
    max_attempts # None =>
        \A m \in MsgId :
            /\ fate[m] = "held" /\ failures[m] > 0 => failures[m] < max_attempts
            /\ fate[m] = "limit" => failures[m] >= max_attempts

(***************************************************************************)
(* The actor implements LeaseQueue: it never hands a message to a second   *)
(* subscriber while the first still owns it, never delivers again what was *)
(* settled, expired, evicted or dead-lettered, and first delivers in       *)
(* publish order.                                                          *)
(***************************************************************************)
status == [m \in MsgId |->
              CASE fate[m] = "new"  -> "new"
                [] fate[m] = "held" -> IF owner[m] = NoSub THEN "available" ELSE "leased"
                [] OTHER            -> "gone"]

Lease == INSTANCE LeaseQueue
    WITH Msg <- MsgId, Consumer <- SubId, Nobody <- NoSub,
         holder <- owner, seen <- {m \in MsgId : ~Fresh(m)}

ImplementsLeaseQueue == Lease!Spec

(***************************************************************************)
(* A handler and its dispatch come to an end, so the actor takes its next  *)
(* mailbox message: evictions, expiries, deliveries and failed deliveries, *)
(* which put messages back, cannot go on for ever.                         *)
(***************************************************************************)
ActorReturns == (pc # "recv") ~> (pc = "recv")
=============================================================================
