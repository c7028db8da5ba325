----------------------------- MODULE QueueProxy -----------------------------
(***************************************************************************)
(* The proxy of a quorum queue (proxy.rs) on one node, the fabric          *)
(* connection to the peer that may lead the queue (cluster/fabric.rs), and *)
(* the leader side of that connection (cluster/node.rs handle_conn,        *)
(* open_leader_sub, queue_forwarder).                                      *)
(*                                                                         *)
(* The queue actor at the leader is the one of QuorumQueue, here only its  *)
(* subscriptions, what they hold and what is committed.  A leader-local    *)
(* actor's mailbox is FIFO and only this proxy writes to it: a message to  *)
(* it is handled as it is sent.  So is what the leader's reader passes to  *)
(* its ordered forwarder.  Deliveries travel asynchronously in both modes. *)
(***************************************************************************)
EXTENDS Integers, Sequences, FiniteSets, SequencesExt

CONSTANTS
    None,
    Consumers,         \* the consumers that may attach
    Publishes,         \* the publishes producers may send
    PublishAttempts,   \* PUBLISH_ATTEMPTS
    Scenarios          \* bounds: how often what may happen, who attaches

ASSUME ScenariosAssumption ==
    PublishAttempts \in Nat \ {0} /\ \A s \in Scenarios : s.elections \in Nat

VARIABLES
    bound,       \* what is left of the scenario's bounds
    leader,      \* the node that leads: "here", "peer", or None
    stored,      \* committed and not settled, and
    committed,   \* ever committed (external: the group's state)
    actor,       \* the leader's actor: [subs : route -> [demand, inflight], pend]
    conn,        \* fabric connections to the peer, in the order they are dialled
    px,          \* the proxy's control state
    events,      \* what waits in local_events or remote_events
    sub,         \* ProxSub per consumer, None when not subscribed
    pub,         \* each publish: [pc, attempt, epoch, answer]
    granted, got,    \* credit a consumer gave, deliveries it was handed
    held, gone       \* deliveries it has not settled, its connection closed

vars == <<bound, leader, stored, committed, actor, conn, px, events, sub, pub,
          granted, got, held, gone>>
consumers == <<granted, got, held, gone>>

Put(f, k, v) == [x \in DOMAIN f \cup {k} |-> IF x = k THEN v ELSE f[x]]
Cut(f, ks) == [x \in DOMAIN f \ ks |-> f[x]]

Used(n) == IF n = 0 THEN 0 ELSE n - 1

\* Variant: a publish whose leader went away is taken to be stored.
AssumedStored == "accepted"

Unconfirmed == "retry"

\* Where a leader-side subscription leads: a channel of a connection, or a
\* subscription of the proxy under one of its local bindings.
Chan(c, ch) == [conn |-> c, chan |-> ch]
Here(epoch, k) == [conn |-> 0, epoch |-> epoch, key |-> k]

NewActor(term) == [term |-> term, subs |-> <<>>, pend |-> {}]
NewConn == [alive |-> TRUE, serving |-> TRUE, up |-> <<>>, down |-> <<>>,
            open |-> {}, map |-> {}, opening |-> {}, subscribed |-> {}, next |-> 1]
NoCont == [then |-> "loop", pub |-> None]

Init ==
    /\ bound \in Scenarios
    /\ leader \in {"here", "peer"}
    /\ stored = {} /\ committed = {}
    /\ actor = NewActor(1)
    /\ conn = <<>>
    /\ px = [pc |-> "resolve", down |-> None, epoch |-> 1, todo |-> {},
             opened |-> {}, wait |-> None, conn |-> 0, term |-> 0,
             mode |-> "all", cont |-> NoCont]
    /\ events = <<>>
    /\ sub = [k \in Consumers |-> None]
    /\ pub = [p \in Publishes |-> [pc |-> "new", attempt |-> 0, epoch |-> 0,
                                   conn |-> 0, answer |-> None]]
    /\ granted = [k \in Consumers |-> 0]
    /\ got = [k \in Consumers |-> 0]
    /\ held = [k \in Consumers |-> {}]
    /\ gone = [k \in Consumers |-> FALSE]

Subscribed == {k \in Consumers : sub[k] # None}
Idle == px.pc = "idle"
Spend(what) == bound[what] > 0 /\ bound' = [bound EXCEPT ![what] = @ - 1]

-----------------------------------------------------------------------------
(* Frames.  Sending on a connection that is gone does nothing.             *)

Sent(cs, c, frames) ==
    IF cs[c].alive THEN [cs EXCEPT ![c].up = @ \o frames] ELSE cs

\* close_sub: forget the channel here and tell the leader.
close_sub(cs, c, chans) ==
    [Sent(cs, c, SetToSeq({[t |-> "close", ch |-> ch] : ch \in chans}))
        EXCEPT ![c].open = @ \ chans]

BoundChans(c) == {sub[k].down.chan : k \in {j \in Subscribed :
                     sub[j].down # None /\ sub[j].down.conn = c}}
BoundHere == {sub[k].down : k \in {j \in Subscribed :
                 sub[j].down # None /\ sub[j].down.conn = 0}}

Unsubscribed(a, routes) == [a EXCEPT !.subs = Cut(@, routes)]
Granted(a, r, n) ==
    IF r \in DOMAIN a.subs THEN [a EXCEPT !.subs[r].demand = @ + n] ELSE a

teardown_downstream(cs) ==
    [actor |-> IF px.down = "here" THEN Unsubscribed(actor, BoundHere) ELSE actor,
     conn |-> IF px.down = "peer" THEN close_sub(cs, px.conn, BoundChans(px.conn))
              ELSE cs]

\* rebind up to its loop: the old binding is torn down, nothing is bound.
Rebind(cs, subs, cont) ==
    /\ actor' = teardown_downstream(cs).actor
    /\ conn' = teardown_downstream(cs).conn
    /\ px' = [px EXCEPT !.pc = "resolve", !.down = None, !.epoch = @ + 1,
                        !.todo = {}, !.opened = {}, !.wait = None,
                        !.mode = "all", !.cont = cont]
    /\ events' = <<>>
    /\ sub' = [k \in Consumers |-> IF subs[k] = None THEN None
                                   ELSE [subs[k] EXCEPT !.down = None]]

-----------------------------------------------------------------------------
(* try_bind.                                                               *)

\* publish: forward attempt n of publish q to where the proxy p is bound.
publish(p, cs, a, q, n) ==
    LET dead == IF p.down = "peer" THEN ~cs[p.conn].alive
                ELSE p.term # a.term
        at(pc) == [pub EXCEPT ![q] = [pc |-> pc, attempt |-> n, epoch |-> p.epoch,
                      conn |-> IF p.down = "peer" THEN p.conn ELSE 0,
                      answer |-> IF pc = "done" THEN "rejected" ELSE None]]
    IN  CASE p.down = None -> [px |-> p, conn |-> cs, actor |-> a, pub |-> at("done")]
          [] dead -> [px |-> p, conn |-> cs, actor |-> a, pub |-> at("retry")]
          [] p.down = "peer" /\ ~dead ->
               [px |-> p, actor |-> a, pub |-> at("sent"),
                conn |-> Sent(cs, p.conn, <<[t |-> "pub", p |-> q, n |-> n]>>)]
          [] OTHER ->
               [px |-> p, conn |-> cs, pub |-> at("sent"),
                actor |-> [a EXCEPT !.pend = @ \cup {[p |-> q, n |-> n, conn |-> 0]}]]

\* The proxy is bound: a publish that waited for it is sent again.
Finish(p, cs, a) ==
    LET bnd == [p EXCEPT !.pc = "idle", !.cont = NoCont]
        r == IF p.cont.then = "publish"
             THEN publish(bnd, cs, a, p.cont.pub, pub[p.cont.pub].attempt + 1)
             ELSE [px |-> bnd, conn |-> cs, actor |-> a, pub |-> pub]
    IN  px' = r.px /\ conn' = r.conn /\ actor' = r.actor /\ pub' = r.pub

\* Variant: the outstanding demand is not granted again.
NotRearmed(k) == 0

Outstanding(k) == sub[k].outstanding

BindLocal ==
    /\ px.pc = "resolve" /\ leader = "here"
    /\ sub' = [k \in Consumers |-> IF k \notin Subscribed THEN None
                  ELSE [sub[k] EXCEPT !.down = Here(px.epoch, k)]]
    /\ LET routes == {Here(px.epoch, k) : k \in Subscribed}
           subs == [r \in DOMAIN actor.subs \cup routes |->
                       IF r \in routes
                       THEN [demand |-> Outstanding(r.key), inflight |-> {}]
                       ELSE actor.subs[r]]
       IN  Finish([px EXCEPT !.down = "here", !.term = actor.term], conn, [actor EXCEPT !.subs = subs])
    /\ UNCHANGED <<bound, leader, stored, committed, events>>
    /\ UNCHANGED consumers

\* The resolution may be stale: the peer need not lead.  PeerClient::conn
\* reuses a live connection and dials otherwise.
BindPeer ==
    /\ px.pc = "resolve"
    /\ IF leader = "peer" THEN UNCHANGED bound ELSE Spend("stale")
    /\ LET live == {c \in DOMAIN conn : conn[c].alive}
           c == IF live # {} THEN Max(live) ELSE Len(conn) + 1
       IN  /\ c <= bound.conns
           /\ conn' = IF live # {} THEN conn ELSE Append(conn, NewConn)
           /\ px' = [px EXCEPT !.pc = "opening", !.conn = c, !.todo = Subscribed]
    /\ UNCHANGED <<leader, stored, committed, actor, events, sub, pub>>
    /\ UNCHANGED consumers

\* open_sub: register the channel, then call.  A call on a connection that
\* died fails at once (is_closed is read after registering).
OpenSub ==
    /\ px.pc = "opening" /\ px.wait = None /\ px.todo # {}
    /\ conn[px.conn].alive
    /\ LET k == CHOOSE j \in px.todo : TRUE
           ch == conn[px.conn].next
       IN  /\ conn' = [Sent(conn, px.conn, <<[t |-> "open", ch |-> ch]>>)
                          EXCEPT ![px.conn].next = @ + 1,
                                 ![px.conn].open = @ \cup {ch}]
           /\ px' = [px EXCEPT !.wait = [key |-> k, ch |-> ch]]
    /\ UNCHANGED <<bound, leader, stored, committed, actor, events, sub, pub>>
    /\ UNCHANGED consumers

Opened ==
    /\ px.pc = "opening" /\ px.todo = {}
    /\ Finish([px EXCEPT !.down = "peer"], conn, actor)
    /\ UNCHANGED <<bound, leader, stored, committed, events, sub>>
    /\ UNCHANGED consumers

\* Variant: the channels this attempt opened stay open.
LeftOpen(cs) == cs

CloseOpened(cs) == close_sub(cs, px.conn, px.opened)

\* open_sub failed: close what this attempt opened and try again; a single
\* new subscriber that cannot be bound makes the proxy rebind everything.
OpenFailed(cs) ==
    IF px.mode = "all"
    THEN /\ conn' = CloseOpened(cs)
         /\ px' = [px EXCEPT !.pc = "resolve", !.todo = {}, !.opened = {},
                             !.wait = None]
         /\ events' = <<>>
         /\ UNCHANGED <<actor, sub>>
    ELSE Rebind(cs, sub, NoCont)

\* The connection was gone before the call, or died under it.
OpenLost ==
    /\ px.pc = "opening" /\ ~conn[px.conn].alive /\ px.todo # {}
    /\ OpenFailed(conn)
    /\ UNCHANGED <<bound, leader, stored, committed, pub>>
    /\ UNCHANGED consumers

\* CALL_TIMEOUT: the channel is forgotten here; the leader is not told.
OpenTimeout ==
    /\ px.pc = "opening" /\ px.wait # None
    /\ Spend("timeouts")
    /\ OpenFailed([conn EXCEPT ![px.conn].open = @ \ {px.wait.ch}])
    /\ UNCHANGED <<leader, stored, committed, pub>>
    /\ UNCHANGED consumers

\* REBIND_DEADLINE passed without a leader.  After a publish's rebind the
\* publish is refused and the proxy goes on; otherwise it closes.
GiveUp ==
    /\ px.pc = "resolve" /\ Spend("giveups")
    /\ IF px.cont.then = "publish"
       THEN /\ pub' = [pub EXCEPT ![px.cont.pub].pc = "done",
                                  ![px.cont.pub].answer = "rejected"]
            /\ px' = [px EXCEPT !.pc = "idle", !.cont = NoCont]
       ELSE px' = [px EXCEPT !.pc = "closed"] /\ UNCHANGED pub
    /\ UNCHANGED <<leader, stored, committed, actor, conn, events, sub>>
    /\ UNCHANGED consumers

-----------------------------------------------------------------------------
(* The connection's reader at this node: ConnState::route and shatter.     *)

\* The reply to open_sub, when the call still waits for it.
RouteOpened(c, f, cs) ==
    /\ f.t = "opened"
    /\ IF px.pc = "opening" /\ px.conn = c /\ px.wait # None /\ px.wait.ch = f.ch
       THEN IF f.ok
            THEN LET k == px.wait.key
                     n == Outstanding(k)
                 IN  /\ sub' = [sub EXCEPT ![k].down = Chan(c, f.ch)]
                     /\ conn' = IF n = 0 THEN cs
                                ELSE Sent(cs, c, <<[t |-> "demand", ch |-> f.ch,
                                                    n |-> n, drain |-> FALSE]>>)
                     /\ px' = [px EXCEPT !.todo = @ \ {k}, !.wait = None,
                                         !.opened = @ \cup {f.ch}]
                     /\ UNCHANGED <<actor, events>>
            ELSE OpenFailed([cs EXCEPT ![c].open = @ \ {f.ch}])
       ELSE conn' = cs /\ UNCHANGED <<actor, px, events, sub>>
    /\ UNCHANGED pub

RouteDeliver(c, f, cs) ==
    /\ f.t = "deliver"
    /\ conn' = cs
    /\ events' = IF f.ch \in conn[c].open
                 THEN Append(events, [t |-> "deliver", ch |-> f.ch, m |-> f.m])
                 ELSE events
    /\ UNCHANGED <<actor, px, sub, pub>>

RouteClosed(c, f, cs) ==
    /\ f.t = "closed"
    /\ conn' = [cs EXCEPT ![c].open = @ \ {f.ch}]
    /\ events' = IF f.ch \in conn[c].open
                 THEN Append(events, [t |-> "closed", ch |-> f.ch]) ELSE events
    /\ UNCHANGED <<actor, px, sub, pub>>

Awaits(c, p, n) == pub[p].pc = "sent" /\ pub[p].conn = c /\ pub[p].attempt = n

RoutePublished(c, f, cs) ==
    /\ f.t = "pub"
    /\ conn' = cs
    /\ pub' = IF Awaits(c, f.p, f.n) THEN [pub EXCEPT ![f.p].pc = f.status] ELSE pub
    /\ UNCHANGED <<actor, px, events, sub>>

Route(c) ==
    /\ conn[c].alive /\ conn[c].down # <<>>
    /\ LET f == Head(conn[c].down)
           cs == [conn EXCEPT ![c].down = Tail(@)]
       IN  \/ RouteOpened(c, f, cs) \/ RouteDeliver(c, f, cs)
           \/ RouteClosed(c, f, cs) \/ RoutePublished(c, f, cs)
    /\ UNCHANGED <<bound, leader, stored, committed>>
    /\ UNCHANGED consumers

\* The connection is lost: calls fail, open subscriptions are closed.
Shatter(c) ==
    /\ conn[c].alive /\ Spend("losses")
    /\ conn' = [conn EXCEPT ![c].alive = FALSE, ![c].down = <<>>, ![c].open = {}]
    /\ events' = events \o SetToSeq({[t |-> "closed", ch |-> ch] : ch \in conn[c].open})
    /\ pub' = [p \in Publishes |-> IF pub[p].pc = "sent" /\ pub[p].conn = c
                                   THEN [pub[p] EXCEPT !.pc = "retry"] ELSE pub[p]]
    /\ UNCHANGED <<leader, stored, committed, actor, px, sub>>
    /\ UNCHANGED consumers

PublishTimeout(p) ==
    /\ pub[p].pc = "sent" /\ pub[p].conn # 0 /\ Spend("timeouts")
    /\ pub' = [pub EXCEPT ![p].pc = "retry"]
    /\ UNCHANGED <<leader, stored, committed, actor, conn, px, events, sub>>
    /\ UNCHANGED consumers

-----------------------------------------------------------------------------
(* The leader side: handle_conn, handle_request, open_leader_sub.          *)

Held(a) == UNION {a.subs[r].inflight : r \in DOMAIN a.subs}
Ready(a) == stored \ Held(a)

Answer(cs, c, f) == [cs EXCEPT ![c].down = IF cs[c].alive THEN Append(@, f) ELSE @]
Served(c) == [conn EXCEPT ![c].up = Tail(@)]

Delivered(r, m) == [t |-> "deliver", ch |-> r.chan, m |-> m]

\* What a drain is served before the rest of its demand is given back.
DrainTakes(r, n) ==
    LET want == actor.subs[r].demand + n
        can == Cardinality(Ready(actor))
    IN  CHOOSE S \in SUBSET Ready(actor) :
            Cardinality(S) = IF want < can THEN want ELSE can

Drained(r, S) == [actor EXCEPT !.subs[r] = [demand |-> 0, inflight |-> @.inflight \cup S]]

SettledBy(r, m) ==
    IF r \in DOMAIN actor.subs
    THEN [actor EXCEPT !.subs[r].inflight = @ \ {m}] ELSE actor
Accepts(r, m) == r \in DOMAIN actor.subs /\ m \in actor.subs[r].inflight

Serve(c) ==
    /\ conn[c].serving /\ conn[c].up # <<>>
    /\ LET f == Head(conn[c].up)
           cs == Served(c)
       IN  \/ /\ f.t = "open"
              /\ conn' = [cs EXCEPT ![c].opening = @ \cup {f.ch}]
              /\ UNCHANGED <<actor, stored>>
           \/ /\ f.t = "demand"
              /\ LET r == Chan(c, f.ch)
                 IN  IF f.ch \in conn[c].map /\ f.drain /\ r \in DOMAIN actor.subs
                     THEN LET S == DrainTakes(r, f.n)
                          IN  /\ actor' = Drained(r, S)
                              /\ conn' = [cs EXCEPT ![c].down =
                                   @ \o SetToSeq({Delivered(r, m) : m \in S})]
                     ELSE /\ conn' = cs
                          /\ actor' = IF f.ch \in conn[c].map
                                      THEN Granted(actor, r, f.n) ELSE actor
              /\ UNCHANGED stored
           \/ /\ f.t = "settle"
              /\ conn' = cs
              /\ LET r == Chan(c, f.ch)
                 IN  IF f.ch \in conn[c].map
                     THEN /\ actor' = SettledBy(r, f.m)
                          /\ stored' = IF f.accept /\ Accepts(r, f.m)
                                       THEN stored \ {f.m} ELSE stored
                     ELSE UNCHANGED <<actor, stored>>
           \/ /\ f.t = "close"
              /\ conn' = [cs EXCEPT ![c].map = @ \ {f.ch}]
              /\ actor' = IF f.ch \in conn[c].map
                          THEN Unsubscribed(actor, {Chan(c, f.ch)}) ELSE actor
              /\ UNCHANGED stored
           \/ /\ f.t = "pub"
              /\ IF leader = "peer"
                 THEN /\ actor' = [actor EXCEPT !.pend =
                                     @ \cup {[p |-> f.p, n |-> f.n, conn |-> c]}]
                      /\ conn' = cs
                 ELSE /\ conn' = Answer(cs, c, [t |-> "pub", p |-> f.p, n |-> f.n,
                                                status |-> "retry"])
                      /\ UNCHANGED actor
              /\ UNCHANGED stored
    /\ UNCHANGED <<bound, leader, committed, px, events, sub, pub>>
    /\ UNCHANGED consumers

\* open_leader_sub: subscribe to the actor if this node leads ...
LeaderSubscribe(c, ch) ==
    /\ ch \in conn[c].opening
    /\ IF leader = "peer"
       THEN /\ actor' = [actor EXCEPT !.subs =
                           Put(@, Chan(c, ch), [demand |-> 0, inflight |-> {}])]
            /\ conn' = [conn EXCEPT ![c].opening = @ \ {ch},
                                    ![c].subscribed = @ \cup {ch}]
       ELSE /\ conn' = Answer([conn EXCEPT ![c].opening = @ \ {ch}], c,
                              [t |-> "opened", ch |-> ch, ok |-> FALSE])
            /\ UNCHANGED actor
    /\ UNCHANGED <<bound, leader, stored, committed, px, events, sub, pub>>
    /\ UNCHANGED consumers

MayInsert(c) == conn[c].serving

\* ... then record it, unless the connection was torn down meanwhile.  The
\* pump of a subscription whose actor died already says it is closed.
LeaderInsert(c, ch) ==
    /\ ch \in conn[c].subscribed
    /\ LET cs == [conn EXCEPT ![c].subscribed = @ \ {ch}]
           ok == [t |-> "opened", ch |-> ch, ok |-> TRUE]
           closed == [t |-> "closed", ch |-> ch]
       IN  IF ~MayInsert(c)
           THEN conn' = cs /\ actor' = Unsubscribed(actor, {Chan(c, ch)})
           ELSE /\ IF Chan(c, ch) \in DOMAIN actor.subs
                   THEN conn' = Answer([cs EXCEPT ![c].map = @ \cup {ch}], c, ok)
                   ELSE \/ conn' = Answer(Answer(cs, c, ok), c, closed)
                        \/ conn' = Answer(Answer(cs, c, closed), c, ok)
                /\ UNCHANGED actor
    /\ UNCHANGED <<bound, leader, stored, committed, px, events, sub, pub>>
    /\ UNCHANGED consumers

\* The reader ended: every subscription of the connection is given up.
LeaderTeardown(c) ==
    /\ conn[c].serving /\ ~conn[c].alive
    /\ conn' = [conn EXCEPT ![c].serving = FALSE, ![c].map = {}, ![c].up = <<>>]
    /\ actor' = Unsubscribed(actor, {Chan(c, ch) : ch \in conn[c].map})
    /\ UNCHANGED <<bound, leader, stored, committed, px, events, sub, pub>>
    /\ UNCHANGED consumers

-----------------------------------------------------------------------------
(* The group and its leader's actor (external: QuorumQueue has them).      *)

\* A delivery to r: over the fabric, or on the proxy's local channel.
Dispatch(r, m) ==
    /\ actor.subs[r].demand > 0 /\ m \in Ready(actor)
    /\ actor' = [actor EXCEPT !.subs[r].demand = @ - 1,
                              !.subs[r].inflight = @ \cup {m}]
    /\ IF r.conn = 0
       THEN /\ events' = Append(events, [t |-> "local", key |-> r.key, m |-> m])
            /\ UNCHANGED conn
       ELSE /\ conn' = Answer(conn, r.conn, Delivered(r, m))
            /\ UNCHANGED events
    /\ UNCHANGED <<bound, leader, stored, committed, px, sub, pub>>
    /\ UNCHANGED consumers

\* A publish commits, or the actor's policy refuses it; it is answered.
Confirm(x, accepted) ==
    /\ x \in actor.pend
    /\ IF accepted THEN UNCHANGED bound ELSE Spend("refusals")
    /\ LET status == IF accepted THEN "accepted" ELSE "rejected"
           m == <<x.p, x.n>>
       IN  /\ stored' = IF accepted THEN stored \cup {m} ELSE stored
           /\ committed' = IF accepted THEN committed \cup {m} ELSE committed
           /\ IF x.conn = 0
              THEN /\ pub' = IF Awaits(0, x.p, x.n)
                             THEN [pub EXCEPT ![x.p].pc = status] ELSE pub
                   /\ UNCHANGED conn
              ELSE /\ conn' = Answer(conn, x.conn, [t |-> "pub", p |-> x.p,
                                        n |-> x.n, status |-> status])
                   /\ UNCHANGED pub
    /\ actor' = [actor EXCEPT !.pend = @ \ {x}]
    /\ UNCHANGED <<leader, px, events, sub>>
    /\ UNCHANGED consumers

\* Leadership moves: the old actor exits, its subscribers are told, and what
\* it had not confirmed may or may not be in the log.
Elect(n) ==
    /\ n # leader /\ Spend("elections")
    /\ leader' = n
    /\ actor' = NewActor(actor.term + 1)
    /\ \E kept \in SUBSET actor.pend :
         /\ stored' = stored \cup {<<x.p, x.n>> : x \in kept}
         /\ committed' = committed \cup {<<x.p, x.n>> : x \in kept}
    /\ conn' = [c \in DOMAIN conn |->
         IF ~conn[c].serving THEN conn[c]
         ELSE [conn[c] EXCEPT !.map = {},
                 !.down = IF ~conn[c].alive THEN @
                     ELSE @ \o SetToSeq({[t |-> "closed", ch |-> ch] : ch \in conn[c].map})
                            \o SetToSeq({[t |-> "pub", p |-> x.p, n |-> x.n,
                                          status |-> Unconfirmed] :
                                           x \in {y \in actor.pend : y.conn = c}})]]
    /\ pub' = [p \in Publishes |->
         IF \E x \in actor.pend : x.p = p /\ x.conn = 0 /\ Awaits(0, p, x.n)
         THEN [pub[p] EXCEPT !.pc = Unconfirmed] ELSE pub[p]]
    /\ UNCHANGED <<px, events, sub>>
    /\ UNCHANGED consumers

-----------------------------------------------------------------------------
(* The proxy's loop: handle_msg, handle_pub_done, the events.              *)

LocalAlive == px.down = "here" /\ px.term = actor.term
NewSub == [outstanding |-> 0, down |-> None]

\* Subscribe and bind_sub.
Subscribe(k) ==
    /\ Idle /\ k \in bound.consumers /\ sub[k] = None /\ ~gone[k] /\ held[k] = {} /\ granted[k] = 0
    /\ LET with == [sub EXCEPT ![k] = NewSub]
       IN  CASE LocalAlive ->
                 /\ sub' = [sub EXCEPT ![k] = [NewSub EXCEPT !.down = Here(px.epoch, k)]]
                 /\ actor' = [actor EXCEPT !.subs =
                       Put(@, Here(px.epoch, k), [demand |-> 0, inflight |-> {}])]
                 /\ UNCHANGED <<conn, px, events>>
             [] px.down = "peer" ->
                 /\ sub' = with
                 /\ px' = [px EXCEPT !.pc = "opening", !.mode = "one", !.todo = {k},
                                     !.opened = {}, !.wait = None]
                 /\ UNCHANGED <<actor, conn, events>>
             [] OTHER -> Rebind(conn, with, NoCont)
    /\ UNCHANGED <<bound, leader, stored, committed, pub>>
    /\ UNCHANGED consumers

Demand(k, drain) ==
    /\ Idle /\ ~gone[k] /\ sub[k] # None
    /\ Spend(IF drain THEN "drains" ELSE "demands")
    /\ granted' = [granted EXCEPT ![k] = @ + 1]
    /\ sub' = [sub EXCEPT ![k].outstanding = IF drain THEN 0 ELSE @ + 1]
    /\ LET r == sub[k].down
           S == DrainTakes(r, 1)
       IN  CASE r # None /\ LocalAlive /\ drain ->
                 /\ actor' = Drained(r, S)
                 /\ events' = events \o SetToSeq({[t |-> "local", key |-> k, m |-> m]
                                                    : m \in S})
                 /\ UNCHANGED conn
             [] r # None /\ LocalAlive /\ ~drain ->
                 /\ actor' = Granted(actor, r, 1)
                 /\ UNCHANGED <<conn, events>>
             [] r # None /\ px.down = "peer" ->
                 /\ conn' = Sent(conn, r.conn, <<[t |-> "demand", ch |-> r.chan,
                                                  n |-> 1, drain |-> drain]>>)
                 /\ UNCHANGED <<actor, events>>
             [] OTHER -> UNCHANGED <<actor, conn, events>>
    /\ UNCHANGED <<leader, stored, committed, px, pub, got, held, gone>>

Settle(k, m, accept) ==
    /\ Idle /\ m \in held[k] /\ sub[k] # None
    /\ IF accept THEN UNCHANGED bound ELSE Spend("requeues")
    /\ held' = [held EXCEPT ![k] = @ \ {m}]
    /\ LET r == sub[k].down
       IN  CASE r # None /\ LocalAlive ->
                 /\ actor' = SettledBy(r, m)
                 /\ stored' = IF accept /\ Accepts(r, m) THEN stored \ {m} ELSE stored
                 /\ UNCHANGED conn
             [] r # None /\ px.down = "peer" ->
                 /\ conn' = Sent(conn, r.conn, <<[t |-> "settle", ch |-> r.chan,
                                                  m |-> m, accept |-> accept]>>)
                 /\ UNCHANGED <<actor, stored>>
             [] OTHER -> UNCHANGED <<actor, stored, conn>>
    /\ UNCHANGED <<leader, committed, px, events, sub, pub, granted, got, gone>>

\* Give a subscription up downstream.
LetGo(k) ==
    LET r == sub[k].down
    IN  [actor |-> IF r # None /\ LocalAlive THEN Unsubscribed(actor, {r}) ELSE actor,
         conn |-> IF r # None /\ px.down = "peer" THEN close_sub(conn, r.conn, {r.chan})
                  ELSE conn]

Unsubscribe(k) ==
    /\ Idle /\ sub[k] # None /\ gone[k]
    /\ sub' = [sub EXCEPT ![k] = None]
    /\ actor' = LetGo(k).actor /\ conn' = LetGo(k).conn
    /\ UNCHANGED <<bound, leader, stored, committed, px, events, pub>>
    /\ UNCHANGED consumers

\* The consumer's connection ends; its Unsubscribe follows.
ConsumerGone(k) ==
    /\ sub[k] # None /\ ~gone[k] /\ Spend("leaves")
    /\ gone' = [gone EXCEPT ![k] = TRUE]
    /\ held' = [held EXCEPT ![k] = {}]
    /\ UNCHANGED <<leader, stored, committed, actor, conn, px, events, sub, pub,
                   granted, got>>

Publish(p) ==
    /\ Idle /\ pub[p].pc = "new"
    /\ LET r == publish(px, conn, actor, p, 0)
       IN  conn' = r.conn /\ actor' = r.actor /\ pub' = r.pub
    /\ UNCHANGED <<bound, leader, stored, committed, px, events, sub>>
    /\ UNCHANGED consumers

Exhausted(p) == pub[p].attempt + 1 >= PublishAttempts

\* handle_pub_done: a publish worth a retry rebinds only when the binding it
\* failed under is still the current one.
PublishDone(p) ==
    /\ Idle /\ pub[p].pc \in {"accepted", "rejected", "retry"}
    /\ CASE pub[p].pc # "retry" \/ Exhausted(p) ->
              /\ pub' = [pub EXCEPT ![p].pc = "done", ![p].answer =
                            IF pub[p].pc = "accepted" THEN "accepted" ELSE "rejected"]
              /\ UNCHANGED <<actor, conn, px, events, sub>>
         [] OTHER ->
              IF pub[p].epoch = px.epoch
              THEN /\ Rebind(conn, sub, [then |-> "publish", pub |-> p])
                   /\ pub' = [pub EXCEPT ![p].pc = "held"]
              ELSE /\ LET r == publish(px, conn, actor, p, pub[p].attempt + 1)
                      IN  conn' = r.conn /\ actor' = r.actor /\ pub' = r.pub
                   /\ UNCHANGED <<px, events, sub>>
    /\ UNCHANGED <<bound, leader, stored, committed>>
    /\ UNCHANGED consumers

\* forward_delivery to consumer k.
Forward(k, m) ==
    IF sub[k] = None THEN UNCHANGED <<actor, conn, sub, got, held>>
    ELSE IF gone[k]
    THEN /\ sub' = [sub EXCEPT ![k] = None]
         /\ actor' = LetGo(k).actor
         /\ conn' = LetGo(k).conn
         /\ UNCHANGED <<got, held>>
    ELSE /\ sub' = [sub EXCEPT ![k].outstanding = Used(@)]
         /\ got' = [got EXCEPT ![k] = @ + 1]
         /\ held' = [held EXCEPT ![k] = @ \cup {m}]
         /\ UNCHANGED <<actor, conn>>

Owner(ch) == {k \in Subscribed : sub[k].down # None /\ sub[k].down.conn # 0
                                    /\ sub[k].down.chan = ch}

Event ==
    /\ Idle /\ events # <<>>
    /\ LET e == Head(events)
       IN  IF e.t = "closed"
           THEN Rebind(conn, sub, NoCont) /\ UNCHANGED <<got, held>>
           ELSE /\ events' = Tail(events)
                /\ IF e.t = "local" THEN Forward(e.key, e.m)
                   ELSE IF Owner(e.ch) = {}
                   THEN UNCHANGED <<actor, conn, sub, got, held>>
                   ELSE Forward(CHOOSE k \in Owner(e.ch) : TRUE, e.m)
                /\ UNCHANGED px
    /\ UNCHANGED <<bound, leader, stored, committed, pub, granted, gone>>

\* local_actor_closed
LocalClosed ==
    /\ Idle /\ px.down = "here" /\ px.term # actor.term
    /\ Rebind(conn, sub, NoCont)
    /\ UNCHANGED <<bound, leader, stored, committed, pub>>
    /\ UNCHANGED consumers

Next ==
    \/ BindLocal \/ BindPeer \/ OpenSub \/ Opened \/ OpenLost \/ OpenTimeout \/ GiveUp
    \/ Event \/ LocalClosed
    \/ \E c \in DOMAIN conn :
         \/ Route(c) \/ Shatter(c) \/ Serve(c) \/ LeaderTeardown(c)
         \/ \E ch \in conn[c].opening : LeaderSubscribe(c, ch)
         \/ \E ch \in conn[c].subscribed : LeaderInsert(c, ch)
    \/ \E r \in DOMAIN actor.subs, m \in stored : Dispatch(r, m)
    \/ \E x \in actor.pend, ok \in BOOLEAN : Confirm(x, ok)
    \/ \E n \in {"here", "peer", None} : Elect(n)
    \/ \E k \in Consumers :
         \/ Subscribe(k) \/ Unsubscribe(k) \/ ConsumerGone(k)
         \/ \E drain \in BOOLEAN : Demand(k, drain)
         \/ \E m \in held[k], ok \in BOOLEAN : Settle(k, m, ok)
    \/ \E p \in Publishes : Publish(p) \/ PublishDone(p) \/ PublishTimeout(p)

Spec == Init /\ [][Next]_vars
-----------------------------------------------------------------------------
Frames(c, t, ch) == {i \in DOMAIN conn[c].up :
                        conn[c].up[i].t = t /\ conn[c].up[i].ch = ch}

\* The variables keep their types; a channel registered at this node was
\* opened on its connection, and a local binding is of the current epoch.
TypeOK ==
    /\ leader \in {"here", "peer", None}
    /\ stored \subseteq committed
    /\ committed \subseteq Publishes \X (0 .. PublishAttempts - 1)
    /\ px.pc \in {"resolve", "opening", "idle", "closed"}
    /\ px.down \in {None, "here", "peer"}
    /\ \A c \in DOMAIN conn : /\ conn[c].open \subseteq 1 .. conn[c].next - 1
                              /\ conn[c].map \subseteq 1 .. conn[c].next - 1
    /\ \A k \in Subscribed : /\ sub[k].outstanding \in Nat
                             /\ sub[k].down # None /\ sub[k].down.conn = 0
                                    => sub[k].down.epoch = px.epoch
    /\ \A p \in Publishes : pub[p].attempt \in 0 .. PublishAttempts - 1

\* A producer is told accepted only for a message the group committed, however
\* often the publish was forwarded and wherever the answer came from
\* (proxy.rs: "a publish confirmed accepted is committed").
AcceptedCommitted ==
    \A p \in Publishes : pub[p].answer = "accepted" =>
        \E n \in 0 .. PublishAttempts - 1 : <<p, n>> \in committed

\* Across rebinds and failovers a consumer is never handed more deliveries
\* than it gave credit for (proxy.rs re-arms only what is outstanding).
CreditRespected == \A k \in Consumers : got[k] <= granted[k]

\* A leader-side subscription that can draw messages or holds some belongs to
\* a consumer of the proxy, or its end is on the way: a CloseSub frame, or
\* the teardown of a lost connection.  Messages are never left in flight
\* under a subscriber nobody owns (proxy.rs rebind, try_bind; node.rs
\* open_leader_sub).  A subscription over a connection whose serving end is
\* gone is one an opening task is about to take back.
NoOrphans ==
    \A r \in DOMAIN actor.subs :
      /\ r.conn # 0 /\ ~conn[r.conn].serving => r.chan \in conn[r.conn].subscribed
      /\ actor.subs[r].demand > 0 \/ actor.subs[r].inflight # {} =>
            \/ \E k \in Subscribed : sub[k].down = r
            \/ r.conn # 0 /\ Frames(r.conn, "close", r.chan) # {}
            \/ r.conn # 0 /\ ~conn[r.conn].alive /\ conn[r.conn].serving

Sum(S, f(_)) == FoldLeft(LAMBDA n, i : n + f(i), 0, SetToSeq(S))

OnTheWay(k, r) ==
    IF r.conn = 0
    THEN Cardinality({i \in DOMAIN events : events[i].t = "local" /\ events[i].key = k})
    ELSE LET up == conn[r.conn].up
             down == conn[r.conn].down
             demand(i) == up[i].n
         IN  Sum(Frames(r.conn, "demand", r.chan), demand)
             + Cardinality({i \in DOMAIN down : down[i].t = "deliver" /\ down[i].ch = r.chan})
             + Cardinality({i \in DOMAIN events :
                    events[i].t = "deliver" /\ events[i].ch = r.chan})

\* The credit a bound consumer has outstanding is exactly what the leader may
\* still send it: demand at the leader, demand and deliveries on the way.
\* So a failover neither loses credit nor grants it twice.  (Without drains:
\* a drain clears the proxy's count while its deliveries are on the way.)
DemandConserved ==
    bound.drainless /\ Idle =>
        \A k \in Subscribed :
            LET r == sub[k].down
            IN  r # None /\ r \in DOMAIN actor.subs
                    /\ (r.conn # 0 => conn[r.conn].alive)
                => sub[k].outstanding = actor.subs[r].demand + OnTheWay(k, r)

\* Credit is conserved across rebinds and failovers: a consumer gets what it
\* granted and no more, and what it has outstanding is still to come.  (And
\* the state is well typed.)
CreditConserved == TypeOK /\ CreditRespected /\ DemandConserved
=============================================================================
