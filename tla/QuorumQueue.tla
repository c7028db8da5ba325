----------------------------- MODULE QuorumQueue -----------------------------
(***************************************************************************)
(* The quorum queue actor (quorum.rs) over the replicated state machine of *)
(* its Raft group (queue_group.rs), with the leadership changes that make  *)
(* actors exit on one node and start on another (node.rs, leader_actor).   *)
(*                                                                         *)
(* Raft itself is the openraft library, seen through what the code uses: a *)
(* log whose committed prefix no election loses, applied in order on every *)
(* node; client_write, answered when the entry is applied on the node that *)
(* proposed it, or with an error when that node finds it is not leading;   *)
(* and a metrics watch that may skip intermediate values.                  *)
(*                                                                         *)
(* A body is its publish number.  enqueued_ms is stamped by whichever node *)
(* proposed the entry, so which bodies have outlived the TTL is any set.   *)
(***************************************************************************)
EXTENDS Dispatch, FiniteSetsExt, SequencesExt

CONSTANTS
    Node,           \* the group's members
    Policies,       \* the EffectivePolicy values examined, each with bounds on
                    \* publishes, elections, reserved slots and settlements
                    \* that write to the log
    None,
    MaxMsgs,        \* bound: publishes under any policy
    MaxSubs,        \* bound: subscriptions per actor
    MaxDemand       \* bound: outstanding demand of one subscriber

Body == 1..MaxMsgs
MsgId == 1..MaxMsgs
NoSub == 0

VARIABLES
    policy,
    log, commit,    \* the group's log, and how much of it is committed
    term, leader,   \* the latest election
    applied, sm,    \* per node: entries applied, and the resulting QueueState
    view,           \* per node: [leader, term] as its metrics watch shows it
    a,              \* per node: the actor, or NoActor
    aged,           \* bodies past their TTL
    published, settles, answer, fate

raft == <<log, commit, term, leader, applied, sm, view>>
history == <<published, settles, answer, fate>>
vars == <<policy, raft, a, aged, history>>

EmptyState == [next_msg_id |-> 0, messages |-> [m \in MsgId |-> None]]
NoActor == [st |-> "none"]
Fresh(n) ==
    [st |-> "select", initial_term |-> view[n].term, ready |-> {},
     inflight |-> [m \in MsgId |-> NoSub], failures |-> [m \in MsgId |-> None],
     commits |-> {}, reserved |-> 0, subs |-> <<>>, rr |-> 0, next_sub_id |-> 0]

Stored(n) == {m \in MsgId : sm[n].messages[m] # None}
Held(r, s) == {m \in MsgId : r.inflight[m] = s}
Inflight(r) == {m \in MsgId : r.inflight[m] # NoSub}
Publishes(r) == {c \in r.commits : c.kind = "publish"}
Depth(r) == Cardinality(r.ready) + Cardinality(Inflight(r)) + Cardinality(Publishes(r))

Does(n, r) == a' = [a EXCEPT ![n] = r]

Init ==
    /\ policy \in Policies
    /\ log = <<>> /\ commit = 0 /\ term = 1
    /\ leader = CHOOSE n \in Node : TRUE
    /\ applied = [n \in Node |-> 0] /\ sm = [n \in Node |-> EmptyState]
    /\ view = [n \in Node |-> [leader |-> leader, term |-> 1]]
    /\ a = [n \in Node |-> NoActor]
    /\ aged = {} /\ published = 0 /\ settles = 0
    /\ answer = [p \in Body |-> "none"] /\ fate = [p \in Body |-> "none"]

-----------------------------------------------------------------------------
(***************************************************************************)
(* QueueState::apply                                                       *)
(***************************************************************************)
apply(s, e) ==
    IF e.op = "enqueue"
    THEN LET m == s.next_msg_id + 1 IN
         [next_msg_id |-> m,
          messages |-> [s.messages EXCEPT ![m] = [p |-> e.p, failures |-> 0]]]
    ELSE IF s.messages[e.id] = None THEN s
    ELSE IF e.op = "requeue"
    THEN [s EXCEPT !.messages[e.id].failures = @ + 1]
    ELSE [s EXCEPT !.messages[e.id] = None]

Committed(k) == FoldLeft(apply, EmptyState, SubSeq(log, 1, k))
BodiesIn(s) == {s.messages[m].p : m \in {i \in MsgId : s.messages[i] # None}}

(***************************************************************************)
(* What openraft does: the log grows by client_write on the leader, a      *)
(* majority commits it, nodes apply it, and an election keeps everything   *)
(* committed and any part of the rest.  The new leader's own metrics show  *)
(* it at once; another node sees only the latest state when it looks.      *)
(***************************************************************************)
Commit ==
    /\ commit < Len(log) /\ applied[leader] = commit
    /\ commit' = commit + 1
    /\ applied' = [applied EXCEPT ![leader] = commit + 1]
    /\ sm' = [sm EXCEPT ![leader] = apply(@, log[commit + 1])]
    /\ UNCHANGED <<policy, log, term, leader, view, a, aged, history>>

\* any number of committed entries at a time
Apply(n) ==
    /\ applied[n] < commit
    /\ applied' = [applied EXCEPT ![n] = commit]
    /\ sm' = [sm EXCEPT ![n] = FoldLeft(apply, @, SubSeq(log, applied[n] + 1, commit))]
    /\ UNCHANGED <<policy, log, commit, term, leader, view, a, aged, history>>

Elect(n) ==
    /\ term < policy.max_term /\ n # leader
    /\ term' = term + 1 /\ leader' = n
    /\ \E k \in commit..Len(log) : log' = SubSeq(log, 1, k)
    /\ view' = [view EXCEPT ![n] = [leader |-> n, term |-> term + 1]]
    /\ UNCHANGED <<policy, commit, applied, sm, a, aged, history>>

LearnLeader(n) ==
    /\ view[n] # [leader |-> leader, term |-> term]
    /\ view' = [view EXCEPT ![n] = [leader |-> leader, term |-> term]]
    /\ UNCHANGED <<policy, log, commit, term, leader, applied, sm, a, aged, history>>

\* client_write: appended on the leader; a node that has been deposed waits
\* for an answer it will not get
Entry(n, op, m, p) == [op |-> op, id |-> m, p |-> p, term |-> view[n].term]
Written(n, es) == IF leader = n THEN log \o es ELSE log
Proposal(n, kind, m, p, k) ==
    [kind |-> kind, id |-> m, p |-> p, term |-> view[n].term,
     at |-> IF leader = n THEN Len(log) + k ELSE 0]

InLog(c) == c.at \in 1..Len(log) /\ log[c.at].term = c.term
Outcomes(n, c) ==
    (IF InLog(c) /\ c.at <= applied[n] THEN {"ok"} ELSE {})
    \cup (IF view[n] # [leader |-> n, term |-> c.term] THEN {"err"} ELSE {})

-----------------------------------------------------------------------------
(***************************************************************************)
(* leader_actor spawns an actor on a node that sees itself leading.  The   *)
(* actor waits until the log is replayed, gives up after a while, or seeds *)
(* its ready set from the applied state.  It exits when it notices another *)
(* leader or another term.                                                 *)
(***************************************************************************)
Replayed(n) == leader = n => applied[n] = Len(log)

\* Variant: only another leader makes the actor exit.
LedByAnother(n) == view[n].leader # n
Deposed(n) == view[n].leader # n \/ view[n].term # a[n].initial_term

Spawn(n) ==
    /\ a[n] = NoActor /\ view[n].leader = n
    /\ Does(n, [st |-> "replay"])
    /\ UNCHANGED <<policy, raft, aged, history>>

Seed(n) ==
    /\ a[n].st = "replay" /\ Replayed(n)
    /\ Does(n, [Fresh(n) EXCEPT !.ready = Stored(n)])
    /\ UNCHANGED <<policy, raft, aged, history>>

ReplayTimeout(n) ==
    /\ a[n].st = "replay" /\ ~Replayed(n)
    /\ Does(n, NoActor)
    /\ UNCHANGED <<policy, raft, aged, history>>

\* dropping the commit futures drops the producers' acks: the proxy retries
Exit(n) ==
    /\ a[n].st = "select" /\ Deposed(n)
    /\ Does(n, NoActor)
    /\ answer' = [p \in Body |-> IF \E c \in Publishes(a[n]) : c.p = p
                                 THEN "unknown" ELSE answer[p]]
    /\ UNCHANGED <<policy, raft, aged, published, settles, fate>>

-----------------------------------------------------------------------------
(***************************************************************************)
(* handle_msg.  A publish at the depth bound evicts one head (drop-head)   *)
(* or is refused, then meets the byte bound: applied bodies and proposals  *)
(* in flight, each of length one here.                                     *)
(***************************************************************************)
Bodies(n, S) == {sm[n].messages[m].p : m \in S \cap Stored(n)}
Fated(n, S, why) ==
    fate' = [p \in Body |-> IF p \in Bodies(n, S) THEN why ELSE fate[p]]
Removal(n, m, k) == Proposal(n, "dead", m, 0, k)
RemoveEntries(n, S) ==
    [i \in 1..Cardinality(S) |-> Entry(n, "settle", SetToSortSeq(S, <)[i], 0)]
Removals(n, S) ==
    {Removal(n, SetToSortSeq(S, <)[i], i) : i \in 1..Cardinality(S)}

Publish(n, from_reserved) ==
    LET r == [a[n] EXCEPT !.reserved = IF from_reserved THEN SatSub(@, 1) ELSE @]
        p == published + 1
        full == Depth(r) + r.reserved >= policy.max_len
        evicted == IF full /\ policy.drop_head /\ r.ready # {} THEN {First(r.ready)} ELSE {}
        over == Cardinality(Stored(n)) + Cardinality(Publishes(r)) + 1 > policy.max_bytes
        refused == ~from_reserved /\ ((full /\ evicted = {}) \/ over)
        k == Cardinality(evicted) + 1
        rest == [r EXCEPT !.st = "expire", !.ready = @ \ evicted,
                          !.commits = @ \cup Removals(n, evicted)]
    IN
    /\ a[n].st = "select" /\ published < policy.max_msgs /\ published' = p
    /\ from_reserved => a[n].reserved > 0
    /\ Fated(n, evicted, "dead")
    /\ IF refused
       THEN /\ Does(n, rest)
            /\ log' = Written(n, RemoveEntries(n, evicted))
            /\ answer' = [answer EXCEPT ![p] = "refused"]
       ELSE /\ Does(n, [rest EXCEPT !.commits = @ \cup {Proposal(n, "publish", 0, p, k)}])
            /\ log' = Written(n, RemoveEntries(n, evicted) \o <<Entry(n, "enqueue", 0, p)>>)
            /\ answer' = [answer EXCEPT ![p] = "wait"]
    /\ UNCHANGED <<policy, commit, term, leader, applied, sm, view, aged, settles>>

Reserve(n, count) ==
    LET r == a[n]
        ok == policy.drop_head \/ Depth(r) + r.reserved + count <= policy.max_len
    IN
    /\ r.st = "select" /\ r.reserved + count <= policy.max_slots
    /\ Does(n, [r EXCEPT !.st = "expire",
                         !.reserved = IF ok /\ ~policy.drop_head THEN @ + count ELSE @])
    /\ UNCHANGED <<policy, raft, aged, history>>

Unreserve(n, count) ==
    /\ a[n].st = "select"
    /\ Does(n, [a[n] EXCEPT !.st = "expire", !.reserved = SatSub(@, count)])
    /\ UNCHANGED <<policy, raft, aged, history>>

Subscribe(n) ==
    LET s == a[n].next_sub_id + 1 IN
    /\ a[n].st = "select" /\ s <= MaxSubs
    /\ Does(n, [a[n] EXCEPT !.st = "expire", !.next_sub_id = s,
                            !.subs = Append(@, NewSubscriber(s))])
    /\ UNCHANGED <<policy, raft, aged, history>>

Demand(n, s, credit, drain) ==
    /\ a[n].st = "select" /\ HasSub(a[n].subs, s)
    /\ \A i \in DOMAIN a[n].subs :
          a[n].subs[i].id = s => a[n].subs[i].demand + credit <= MaxDemand
    /\ Does(n, [a[n] EXCEPT !.st = "expire", !.subs = grant(@, s, credit, drain)])
    /\ UNCHANGED <<policy, raft, aged, history>>

CountedSoFar(n, m) ==
    IF a[n].failures[m] # None THEN a[n].failures[m]
    ELSE IF m \in Stored(n) THEN sm[n].messages[m].failures ELSE 0

Released(r, m) == [r EXCEPT !.inflight[m] = NoSub]

Settle(n, s, m, outcome) ==
    LET r == Released([a[n] EXCEPT !.st = "expire"], m)
        count == CountedSoFar(n, m) + 1
        exhausted == attempts_exhausted(policy.max_attempts, count)
    IN
    /\ a[n].st = "select" /\ s # NoSub /\ a[n].inflight[m] = s
    /\ outcome # "requeue" => settles < policy.max_settles
    /\ settles' = IF outcome # "requeue" THEN settles + 1 ELSE settles
    /\ \/ /\ outcome = "ack"
          /\ Does(n, [r EXCEPT !.failures[m] = None,
                               !.commits = @ \cup {Proposal(n, "ack", m, 0, 1)}])
          /\ log' = Written(n, <<Entry(n, "settle", m, 0)>>)
          /\ Fated(n, {m}, "acked")
       \/ /\ outcome = "requeue"
          /\ Does(n, [r EXCEPT !.ready = @ \cup {m}])
          /\ UNCHANGED <<log, fate>>
       \/ /\ outcome = "failed" /\ exhausted
          /\ Does(n, [r EXCEPT !.failures[m] = None,
                               !.commits = @ \cup {Removal(n, m, 1)}])
          /\ log' = Written(n, <<Entry(n, "settle", m, 0)>>)
          /\ Fated(n, {m}, "dead")
       \/ /\ outcome = "failed" /\ ~exhausted
          /\ Does(n, [r EXCEPT !.failures[m] = count, !.ready = @ \cup {m},
                               !.commits = @ \cup {Proposal(n, "count", m, 0, 1)}])
          /\ log' = Written(n, <<Entry(n, "requeue", m, 0)>>)
          /\ UNCHANGED fate
    /\ UNCHANGED <<policy, commit, term, leader, applied, sm, view, aged,
                   published, answer>>

Unsubscribe(n, s) ==
    /\ a[n].st = "select" /\ HasSub(a[n].subs, s)
    /\ Does(n, [a[n] EXCEPT !.st = "expire", !.subs = Without(@, s),
                            !.ready = @ \cup Held(a[n], s),
                            !.inflight = [m \in MsgId |-> IF @[m] = s THEN NoSub ELSE @[m]]])
    /\ UNCHANGED <<policy, raft, aged, history>>

\* a finished proposal: Committed::Publish, ::Remove or ::CountFailure
\* Variant: an enqueue is confirmed whatever its proposal came to.
AlwaysCommitted(o) == TRUE
IsCommitted(o) == o = "ok"

readd_on_failure(c) == c.kind = "ack"

IdOf(c) == CHOOSE m \in MsgId :
    Committed(c.at).next_msg_id = m

CommitDone(n, c) ==
    /\ a[n].st = "select" /\ c \in a[n].commits
    /\ \E o \in Outcomes(n, c) :
        LET r == [a[n] EXCEPT !.st = "expire", !.commits = @ \ {c}] IN
        IF c.kind = "publish"
        THEN /\ Does(n, IF o = "ok" THEN [r EXCEPT !.ready = @ \cup {IdOf(c)}] ELSE r)
             /\ answer' = [answer EXCEPT ![c.p] =
                             IF IsCommitted(o) THEN "accepted" ELSE "refused"]
        ELSE /\ Does(n, IF o = "err" /\ readd_on_failure(c)
                        THEN [r EXCEPT !.ready = @ \cup {c.id}] ELSE r)
             /\ UNCHANGED answer
    /\ UNCHANGED <<policy, raft, aged, published, settles, fate>>

-----------------------------------------------------------------------------
(***************************************************************************)
(* expire_head and dispatch, after every message and every commit.         *)
(***************************************************************************)
Old(n, m) == m \in Stored(n) => sm[n].messages[m].p \in aged

Expire(n) ==
    /\ a[n].st = "expire"
    /\ \E S \in SUBSET a[n].ready :
        /\ \A m \in S, k \in a[n].ready \ S : m < k
        /\ IF policy.ttl
           THEN /\ \A m \in S : Old(n, m)
                /\ S # a[n].ready => ~Old(n, First(a[n].ready \ S))
           ELSE S = {}
        /\ Does(n, [a[n] EXCEPT !.st = "dispatch", !.ready = @ \ S,
                                !.commits = @ \cup Removals(n, S)])
        /\ log' = Written(n, RemoveEntries(n, S))
        /\ Fated(n, S, "dead")
    /\ UNCHANGED <<policy, commit, term, leader, applied, sm, view, aged,
                   published, settles, answer>>

\* sent \in BOOLEAN: whether the subscriber's connection still takes it
Deliver(n, i, sent) ==
    LET r == a[n]
        m == First(r.ready)
        s == r.subs[i].id
        rr == i % Len(r.subs)
    IN
    /\ r.st = "dispatch" /\ r.ready # {} /\ pick_ready(r.subs, r.rr, i)
    /\ IF m \notin Stored(n)
       THEN Does(n, [r EXCEPT !.ready = @ \ {m}])
       ELSE IF sent
       THEN Does(n, [r EXCEPT !.ready = @ \ {m}, !.rr = rr, !.inflight[m] = s,
                              !.subs = Served(@, i)])
       ELSE Does(n, [r EXCEPT !.ready = @ \cup Held(r, s), !.rr = rr,
                              !.inflight = [k \in MsgId |-> IF @[k] = s THEN NoSub ELSE @[k]],
                              !.subs = Without(@, s)])
    /\ UNCHANGED <<policy, raft, aged, history>>

EndDispatch(n) ==
    LET r == a[n] IN
    /\ r.st = "dispatch"
    /\ \/ r.ready = {} /\ Does(n, [r EXCEPT !.st = "select", !.subs = complete_drains(@)])
       \/ r.ready # {} /\ NoDemand(r.subs) /\ Does(n, [r EXCEPT !.st = "select"])
    /\ UNCHANGED <<policy, raft, aged, history>>

Age(p) ==
    /\ policy.ttl /\ p <= published /\ p \notin aged
    /\ aged' = aged \cup {p}
    /\ UNCHANGED <<policy, raft, a, history>>

-----------------------------------------------------------------------------
Raft == Commit \/ \E n \in Node : Apply(n) \/ Elect(n) \/ LearnLeader(n)

Handler(n) ==
    \/ \E r \in BOOLEAN : Publish(n, r)
    \/ \E count \in 1..policy.max_slots : Reserve(n, count) \/ Unreserve(n, count)
    \/ Subscribe(n)
    \/ \E s \in 1..MaxSubs :
          \/ \E credit \in 0..MaxDemand, drain \in BOOLEAN : Demand(n, s, credit, drain)
          \/ \E m \in MsgId, o \in {"ack", "requeue", "failed"} : Settle(n, s, m, o)
          \/ Unsubscribe(n, s)

Lifecycle(n) ==
    \/ Spawn(n) \/ Seed(n) \/ ReplayTimeout(n) \/ Exit(n)
    \/ a[n].st = "select" /\ \E c \in a[n].commits : CommitDone(n, c)

Dispatching(n) ==
    \/ Expire(n) \/ EndDispatch(n)
    \/ /\ a[n].st = "dispatch"
       /\ \E i \in DOMAIN a[n].subs, sent \in BOOLEAN : Deliver(n, i, sent)

\* handling a message, expire_head and dispatch are one synchronous piece of
\* code: nothing else is scheduled inside it
Quiet == \A n \in Node : a[n].st \notin {"expire", "dispatch"}

Next ==
    \/ Quiet /\ Raft
    \/ Quiet /\ \E n \in Node : Handler(n) \/ Lifecycle(n)
    \/ \E n \in Node : Dispatching(n)
    \/ Quiet /\ \E p \in Body : Age(p)

Spec == Init /\ [][Next]_vars

-----------------------------------------------------------------------------
\* n leads, and its actor has no reason to exit
Leads(n) ==
    /\ a[n].st \in {"select", "expire", "dispatch"}
    /\ leader = n /\ ~Deposed(n)

\* The type invariant: log positions, ids and subscribers stay in range.
TypeOK ==
    /\ commit \in 0..Len(log) /\ term \in 1..policy.max_term /\ leader \in Node
    /\ \A n \in Node :
        /\ applied[n] \in 0..commit
        /\ view[n] \in [leader : Node, term : 1..term]
        /\ a[n] # NoActor /\ a[n].st # "replay" =>
            /\ a[n].ready \subseteq MsgId
            /\ a[n].inflight \in [MsgId -> 0..MaxSubs]
            /\ a[n].reserved \in 0..policy.max_slots
            /\ \A i \in DOMAIN a[n].subs : a[n].subs[i].demand \in 0..MaxDemand
            /\ \A c \in a[n].commits : c.at \in 0..3 * MaxMsgs + policy.max_settles

(***************************************************************************)
(* A publish that was confirmed is committed to the group's log, and its   *)
(* message stays in the replicated state until a settlement or a policy    *)
(* removes it, whatever elections, exits and failed proposals lie between. *)
(***************************************************************************)
ConfirmedReplicated ==
    \A p \in Body : answer[p] = "accepted" =>
        p \in BodiesIn(Committed(commit)) \/ fate[p] \in {"acked", "dead"}

(***************************************************************************)
(* The leading node's actor strands no message: every message in its       *)
(* applied state is ready, in flight to a subscriber, the result of a      *)
(* publish it is about to see, or being removed.                           *)
(***************************************************************************)
NoneStranded ==
    \A n \in Node : Leads(n) =>
        \A m \in Stored(n) :
            \/ m \in a[n].ready \cup Inflight(a[n])
            \/ \E c \in a[n].commits :
                  \/ c.kind \in {"ack", "dead"} /\ c.id = m
                  \/ c.kind = "publish" /\ c.p = sm[n].messages[m].p

(***************************************************************************)
(* What the leading actor offers or has handed out is in the applied       *)
(* state: a message whose removal is proposed is never offered again.      *)
(***************************************************************************)
HeldStored ==
    \A n \in Node : Leads(n) =>
        /\ a[n].ready \cup Inflight(a[n]) \subseteq Stored(n)
        /\ \A c \in a[n].commits : c.kind \in {"ack", "dead"} =>
              c.id \notin a[n].ready \cup Inflight(a[n])

(***************************************************************************)
(* The leading actor's count of failed deliveries is exact: what is        *)
(* applied plus what it has proposed.                                      *)
(***************************************************************************)
FailuresExact ==
    \A n \in Node : Leads(n) =>
        \A m \in Stored(n) : a[n].failures[m] # None =>
            a[n].failures[m] = sm[n].messages[m].failures
              + Cardinality({c \in a[n].commits :
                                c.kind = "count" /\ c.id = m /\ c.at > applied[n]})

(***************************************************************************)
(* The leading actor's view is exact: its ready and in-flight messages are *)
(* those of the applied state, but for proposals on their way, and its     *)
(* failure counts are right, also after a demotion and a new election.     *)
(* (And the state is well typed.)                                          *)
(***************************************************************************)
ViewExact == TypeOK /\ NoneStranded /\ HeldStored /\ FailuresExact
=============================================================================
