------------------------------- MODULE Links -------------------------------
(***************************************************************************)
(* Links over one session: the client's Producer and Consumer handles and  *)
(* their driver (ramqp api/ and connection/driver.rs), the broker          *)
(* connection with its bindings (ramqp-broker connection.rs), and the      *)
(* queues behind it, reduced to what the connection sees of them.          *)
(*                                                                         *)
(*   ses[e]     the session endpoint e runs (SessionState)                 *)
(*   net[e]     the frames on their way to endpoint e, in order            *)
(*   app[k]     the handle the application holds for link k                *)
(*   sends[m]   what the application was told about its send of m          *)
(*   bind[h]    the broker's binding of its link handle h                  *)
(*   gen        the next binding generation (next_gen)                     *)
(*   cmds       queue -> connection commands (cmd_rx)                      *)
(*   resolved   dispatches with an outcome, not yet forwarded (settlements)*)
(*   mbox[q]    connection -> queue messages                               *)
(*   queue[q]   the queue: ready messages, held ones and subscribers       *)
(*                                                                         *)
(* A handle method queues a command and the driver handles it; both are    *)
(* taken as one step, at the moment the driver handles it.                 *)
(***************************************************************************)
EXTENDS SessionState

CONSTANTS Scenarios, Queues, Messages, Slack

VARIABLES scen, ses, net, app, sends, bind, gen, cmds, resolved, mbox, queue, taken

vars == <<scen, ses, net, app, sends, bind, gen, cmds, resolved, mbox, queue, taken>>
client == <<app, sends, taken>>
broker == <<bind, gen, cmds, resolved, mbox>>

Ends == {"client", "broker"}
Peer(e) == IF e = "client" THEN "broker" ELSE "client"
Links == DOMAIN scen.link
Consumers == {k \in Links : scen.link[k].role = "receiver"}
MaxGen == Cardinality(Links)

ASSUME ScenariosAssumption ==
    \A s \in Scenarios : s.window \in 1..W - 1 /\ s.broker_window \in 1..W - 1 /\ s.base \in 0..W - 1

NoHandle == [st |-> "none", h |-> None, ch |-> <<>>, consumed |-> 0, first |-> None,
             got |-> <<>>]

\* the client's end of link k, as the handle's attach asks for it
ClientLink(k) ==
    IF scen.link[k].role = "sender" THEN SenderLink(k)
    ELSE ReceiverLink(k, scen.link[k].second, scen.link[k].window, scen.cap)

Init ==
    /\ scen \in Scenarios
    /\ ses = [e \in Ends |-> IF e = "client"
                             THEN NewSession(scen.window, scen.broker_window, scen.base)
                             ELSE NewSession(scen.broker_window, scen.window, scen.base)]
    /\ net = [e \in Ends |-> <<>>]
    /\ app = [k \in Links |-> NoHandle]
    /\ sends = [m \in Messages |-> None]
    /\ bind = [h \in Handles |-> None]
    /\ gen = 0 /\ cmds = <<>> /\ resolved = {}
    /\ mbox = [q \in Queues |-> <<>>]
    /\ queue = [q \in Queues |-> [ready |-> scen.ready[q], held |-> {}, acked |-> {},
                                  dead |-> {}, subs |-> <<>>]]
    /\ taken = {}

\* endpoint e goes on with s: its frames leave, its events are consumed
Went(e, s, rest) ==
    /\ ses' = [ses EXCEPT ![e] = [s EXCEPT !.tx = <<>>, !.ev = <<>>]]
    /\ net' = [net EXCEPT ![e] = rest, ![Peer(e)] = @ \o s.tx]

Spend(what) ==
    /\ scen[what] > 0
    /\ scen' = [scen EXCEPT ![what] = @ - 1]

-----------------------------------------------------------------------------
(* The client *)

\* hand the events of one driver step to the handles they are for
Heard(a, e) ==
    CASE e.e = "attached" -> [a EXCEPT ![e.k].st = "open", ![e.k].h = e.h]
      [] e.e = "refused" -> [a EXCEPT ![e.k].st = "failed"]
      [] e.e \in {"delivery", "detached"} -> [a EXCEPT ![e.k].ch = Append(@, e)]
      [] OTHER -> a

Outcomes(s) == {e \in ToSet(s.ev) : e.e = "reply"}

ClientWent(s, rest, a) ==
    /\ Went("client", s, rest)
    /\ app' = FoldLeft(Heard, a, s.ev)
    /\ sends' = [m \in Messages |->
          LET mine == {e \in Outcomes(s) : e.ref.m = m}
          IN  IF mine = {} THEN sends[m] ELSE (CHOOSE e \in mine : TRUE).state]

Commanded(s, a) == ClientWent(s, net["client"], a)

\* Session::create_producer / create_consumer
Create(k) ==
    /\ app[k].st = "none"
    /\ Commanded(attach_link(ses["client"], ClientLink(k)), [app EXCEPT ![k].st = "attaching"])
    /\ UNCHANGED <<scen, taken, broker, queue>>

\* the delivery channel holds the credit window and some slack
Capacity(k) == scen.link[k].window + Slack

\* a link performative at either endpoint
handle_link_frame(s, f) ==
    CASE f.type = "transfer" -> on_transfer(s, f)
      [] f.type = "flow" -> on_flow(s, f)
      [] f.type = "disposition" -> on_disposition(s, f)
      [] f.type = "detach" -> on_peer_detach(s, f)
      [] OTHER -> on_peer_attach(s, f)

\* the driver waits while the channel of the delivery's consumer is full
Deliverable(s) ==
    \A i \in DOMAIN s.ev :
        s.ev[i].e = "delivery" => Len(app[s.ev[i].k].ch) < Capacity(s.ev[i].k)

ClientFrame ==
    LET s == handle_link_frame(ses["client"], Head(net["client"]))
    IN  /\ net["client"] # <<>>
        /\ Deliverable(s)
        /\ ClientWent(s, Tail(net["client"]), app)
        /\ UNCHANGED <<scen, taken, broker, queue>>

Attached(s, k) == \E h \in Handles : s.link[h] # None /\ s.link[h].k = k
LinkGone(k) == ~Attached(ses["client"], k)

ConsumedReset(n) == 0

\* one more delivery consumed; top up once replenish_every are
after_consume(k) ==
    LET l == scen.link[k]
        n == app[k].consumed + 1
        every == IF l.window > l.low THEN l.window - l.low ELSE 1
    IN  IF l.window = 0 THEN [grant |-> 0, consumed |-> 0]
        ELSE IF n >= every THEN [grant |-> n, consumed |-> ConsumedReset(n)]
        ELSE [grant |-> 0, consumed |-> n]

Recv(k) ==
    /\ app[k].st = "open" /\ k \in Consumers
    /\ IF app[k].ch = <<>> \/ Head(app[k].ch).e = "detached"
       THEN /\ app[k].ch # <<>> \/ LinkGone(k)
            /\ app' = [app EXCEPT ![k].st = "ended", ![k].ch = <<>>]
            /\ UNCHANGED <<ses, net, sends>>
       ELSE LET d == Head(app[k].ch)
                c == after_consume(k)
                a == [app EXCEPT ![k].ch = Tail(@), ![k].consumed = c.consumed,
                                 ![k].first = IF @ = None THEN d.id ELSE @,
                                 ![k].got = IF d.settled THEN @ ELSE Append(@, d)]
            IN  Commanded(IF c.grant = 0 THEN ses["client"]
                          ELSE grant_credit(ses["client"], app[k].h, c.grant), a)
    /\ UNCHANGED <<scen, taken, broker, queue>>

Took(k, ds, state) == taken' = taken \cup {[k |-> k, m |-> d.m, state |-> state] : d \in ds}

\* accept, reject or release one delivery
Dispose(k, state) ==
    \E i \in DOMAIN app[k].got :
        LET d == app[k].got[i]
        IN  /\ app[k].st \in {"open", "ended"}
            /\ IF state = "released" THEN Spend("releases") ELSE UNCHANGED scen
            /\ Commanded(send_disposition(ses["client"], app[k].h, d.id, d.id, state),
                         [app EXCEPT ![k].got = RemoveAt(@, i)])
            /\ Took(k, {d}, state)
            /\ UNCHANGED <<broker, queue>>

\* accept everything from the oldest pending delivery to this one, as a range
accept_through(k) ==
    \E i \in DOMAIN app[k].got :
        LET d == app[k].got[i]
            first == IF app[k].first = None THEN d.id ELSE app[k].first
        IN  /\ scen.through /\ app[k].st = "open"
            /\ Commanded(send_disposition(ses["client"], app[k].h, first, d.id, "accepted"),
                         [app EXCEPT ![k].got = SubSeq(@, i + 1, Len(@)), ![k].first = None])
            /\ Took(k, {app[k].got[j] : j \in 1..i}, "accepted")
            /\ UNCHANGED <<scen, broker, queue>>

\* Consumer::credit (manual mode), or a flow built by the application
Credit(k) ==
    \E n \in 1..scen.manual, drain \in scen.drains, echo \in scen.echoes :
        /\ app[k].st = "open" /\ scen.link[k].role = "receiver" /\ scen.link[k].window = 0
        /\ Spend("flows")
        /\ Commanded(send_flow(ses["client"], app[k].h, n, drain, echo), app)
        /\ UNCHANGED <<taken, broker, queue>>

\* detach, or drop: a DetachLink for the handle number the object holds
DropHandle(k) ==
    /\ app[k].st \in {"open", "ended"}
    /\ Spend("drops")
    /\ Commanded(detach_link(ses["client"], app[k].h), [app EXCEPT ![k].st = "dropped"])
    /\ UNCHANGED <<taken, broker, queue>>

\* Producer::send and send_settled
Send(k, m) ==
    /\ app[k].st = "open" /\ scen.link[k].role = "sender"
    /\ sends[m] = None
    /\ \E settled \in scen.settled :
        LET s == send_transfer(ses["client"], app[k].h,
                               [ref |-> [k |-> k, m |-> m], settled |-> settled])
        IN  /\ m \in scen.link[k].sends
            /\ Went("client", s, net["client"])
            /\ app' = FoldLeft(Heard, app, s.ev)
            /\ sends' = [sends EXCEPT ![m] =
                  IF \E e \in Outcomes(s) : e.ref.m = m
                  THEN (CHOOSE e \in Outcomes(s) : e.ref.m = m).state ELSE "waiting"]
    /\ UNCHANGED <<scen, taken, broker, queue>>

-----------------------------------------------------------------------------
(* The broker connection *)

Consumer(q, e) == [kind |-> "consumer", q |-> q, epoch |-> e, granted |-> 0]
Producer(q, e) == [kind |-> "producer", q |-> q, epoch |-> e, acked |-> 0]

IsConsumer(h) == bind[h] # None /\ bind[h].kind = "consumer"

\* one more publish answered; half the window of them is granted back
replenish_producer_credit(c, h) ==
    LET threshold == IF scen.initial_credit > 1 THEN scen.initial_credit \div 2 ELSE 1
        n == c.bind[h].acked + 1
    IN  IF c.bind[h] = None \/ c.bind[h].kind # "producer" THEN c
        ELSE IF n >= threshold
        THEN [c EXCEPT !.bind[h].acked = 0, !.s = grant_credit(@, h, n)]
        ELSE [c EXCEPT !.bind[h].acked = n]

Mailed(c, q, msg) == [c EXCEPT !.mbox[q] = Append(@, msg)]

Delta(credit, granted) == SatSub(credit, granted)

CreditEvent(c, e) ==
    LET b == c.bind[e.h]
        delta == Delta(e.credit, b.granted)
        kept == IF e.drain THEN 0 ELSE IF e.credit > b.granted THEN e.credit ELSE b.granted
        seen == [c EXCEPT !.bind[e.h].granted = kept]
    IN  IF b = None \/ b.kind # "consumer" THEN c
        ELSE IF delta > 0 \/ e.drain
        THEN Mailed(seen, b.q, [type |-> "demand", sub |-> b.epoch, n |-> delta,
                                drain |-> e.drain])
        ELSE seen

DeliveryEvent(c, e) ==
    LET b == c.bind[e.h]
        sent == Mailed(c, b.q, [type |-> "publish", m |-> e.m,
                                ack |-> IF e.settled THEN None
                                        ELSE [h |-> e.h, epoch |-> b.epoch, id |-> e.id]])
    IN  IF b = None \/ b.kind # "producer" THEN c
        ELSE IF e.settled THEN replenish_producer_credit(sent, e.h) ELSE sent

\* Variant: the binding is removed and the queue is not told.
DetachedQuietly(c, e) == [c EXCEPT !.bind[e.h] = None]

DetachedEvent(c, e) ==
    LET b == c.bind[e.h]
        gone == [c EXCEPT !.bind[e.h] = None]
    IN  IF b # None /\ b.kind = "consumer"
        THEN Mailed(gone, b.q, [type |-> "unsubscribe", sub |-> b.epoch]) ELSE gone

\* drain_link_events: what one session call emitted, in order
Routed(c, e) ==
    CASE e.e = "delivery" -> DeliveryEvent(c, e)
      [] e.e = "credit" -> CreditEvent(c, e)
      [] e.e = "detached" -> DetachedEvent(c, e)
      [] OTHER -> c

\* a dispatch whose reply arrived (or was dropped: requeue) is resolved
Outcome(state) == IF state \in {"accepted", "rejected"} THEN state ELSE "requeued"
Resolutions(s) == {[q |-> e.ref.q, sub |-> e.ref.sub, m |-> e.ref.m,
                    outcome |-> Outcome(e.state)] : e \in Outcomes(s)}

Context(s) == [s |-> [s EXCEPT !.ev = <<>>], bind |-> bind, mbox |-> mbox]

BrokerWent(s, rest) ==
    LET c == FoldLeft(Routed, Context(s), s.ev)
    IN  /\ Went("broker", c.s, rest)
        /\ bind' = c.bind /\ mbox' = c.mbox
        /\ resolved' = resolved \cup Resolutions(s)

BrokerFrame ==
    /\ net["broker"] # <<>>
    /\ Head(net["broker"]).type # "attach"
    /\ BrokerWent(handle_link_frame(ses["broker"], Head(net["broker"])), Tail(net["broker"]))
    /\ UNCHANGED <<scen, client, gen, cmds, queue>>

\* the mirror of the peer's link
Mirror(f, l) ==
    IF f.role = "sender" THEN ReceiverLink(f.k, l.second, scen.initial_credit, scen.cap)
    ELSE SenderLink(f.k)

\* accept_attach; a consumer's subscription is awaited
AcceptAttach ==
    LET f == Head(net["broker"])
        l == scen.link[f.k]
        h == NextHandle(ses["broker"])
        role == IF f.role = "sender" THEN "receiver" ELSE "sender"
    IN  /\ net["broker"] # <<>> /\ f.type = "attach"
        /\ IF l.q = None
           THEN /\ Went("broker", refuse_peer_attach(ses["broker"], f, role), Tail(net["broker"]))
                /\ UNCHANGED <<bind, gen, queue>>
           ELSE /\ mbox[l.q] = <<>> \/ f.role = "sender"
                /\ Went("broker", accept_peer_attach(ses["broker"], f, Mirror(f, l)),
                        Tail(net["broker"]))
                /\ bind' = [bind EXCEPT ![h] = IF f.role = "sender" THEN Producer(l.q, gen)
                                               ELSE Consumer(l.q, gen)]
                /\ gen' = gen + 1
                /\ queue' = IF f.role = "sender" THEN queue
                            ELSE [queue EXCEPT ![l.q].subs =
                                    Append(@, NewSubscriber([id |-> gen, h |-> h]))]
        /\ UNCHANGED <<scen, client, cmds, resolved, mbox>>

\* Variant: the handle alone identifies the binding of a command.
AnyEpoch(h, epoch) == bind[h] # None

Live(h, epoch) == bind[h] # None /\ bind[h].epoch = epoch

\* handle_cmd: Deliver
DeliverCmd ==
    LET c == Head(cmds)
        b == bind[c.h]
        p == [ref |-> [q |-> b.q, sub |-> b.epoch, m |-> c.m], settled |-> FALSE]
        s == send_transfer(ses["broker"], c.h, p)
    IN  /\ cmds # <<>> /\ c.type = "deliver"
        /\ cmds' = Tail(cmds)
        /\ IF IsConsumer(c.h) /\ Live(c.h, c.epoch)
           THEN /\ Went("broker", s, net["broker"])
                /\ bind' = [bind EXCEPT ![c.h].granted = SatSub(@, 1)]
                /\ resolved' = resolved \cup Resolutions(s)
           ELSE UNCHANGED <<ses, net, bind, resolved>>
        /\ UNCHANGED <<scen, client, gen, mbox, queue>>

Verdict(accepted) == IF accepted THEN "accepted" ELSE "rejected"

\* handle_cmd: SettleIncoming
SettleCmd ==
    LET c == Head(cmds)
        told == send_disposition(ses["broker"], c.h, c.id, c.id, Verdict(c.accepted))
        r == replenish_producer_credit(Context(told), c.h)
    IN  /\ cmds # <<>> /\ c.type = "settle"
        /\ cmds' = Tail(cmds)
        /\ IF Live(c.h, c.epoch) /\ ~IsConsumer(c.h)
           THEN Went("broker", r.s, net["broker"]) /\ bind' = r.bind
           ELSE UNCHANGED <<ses, net, bind>>
        /\ UNCHANGED <<scen, client, gen, resolved, mbox, queue>>

\* forward_settlement
ForwardSettlement ==
    \E r \in resolved :
        /\ resolved' = resolved \ {r}
        /\ mbox' = [mbox EXCEPT ![r.q] = Append(@, [type |-> "settle", sub |-> r.sub,
                                                    m |-> r.m, outcome |-> r.outcome])]
        /\ UNCHANGED <<scen, ses, net, client, bind, gen, cmds, queue>>

-----------------------------------------------------------------------------
(* A queue, as the connection sees it (modelled in TransientQueue)         *)

Subs(q) == queue[q].subs
Dispatchable(q) == queue[q].ready # <<>> /\ ~NoDemand(Subs(q))

\* a dispatch round that is over completes the drains
Rounded(u) ==
    IF u.ready # <<>> /\ ~NoDemand(u.subs) THEN u
    ELSE [u EXCEPT !.subs = complete_drains(@)]

QueueDispatch(q) ==
    LET m == Head(queue[q].ready)
    IN  /\ queue[q].ready # <<>>
        /\ \E i \in DOMAIN Subs(q) :
             /\ Subs(q)[i].demand > 0
             /\ queue' = [queue EXCEPT ![q] = Rounded(
                    [@ EXCEPT !.ready = Tail(@), !.subs = Served(@, i),
                              !.held = @ \cup {[m |-> m, sub |-> Subs(q)[i].id.id]}])]
             /\ cmds' = Append(cmds, [type |-> "deliver", h |-> Subs(q)[i].id.h,
                                      epoch |-> Subs(q)[i].id.id, m |-> m])
        /\ UNCHANGED <<scen, ses, net, client, bind, gen, resolved, mbox>>

Back(ready, ms) == SetToSeq(ms) \o ready

\* one mailbox message; the dispatch round it allows follows
QueueHandle(q, msg) ==
    LET u == queue[q]
        mine == {x \in u.held : x.sub = msg.sub}
        one == {x \in mine : x.m = msg.m}
    IN  CASE msg.type = "demand" ->
               [u EXCEPT !.subs = [i \in DOMAIN @ |->
                   IF @[i].id.id # msg.sub THEN @[i]
                   ELSE [@[i] EXCEPT !.demand = @ + msg.n, !.drain = msg.drain]]]
          [] msg.type = "unsubscribe" ->
               [u EXCEPT !.subs = SelectSeq(@, LAMBDA x : x.id.id # msg.sub),
                         !.held = @ \ mine, !.ready = Back(@, {x.m : x \in mine})]
          [] msg.type = "settle" ->
               IF one = {} THEN u
               ELSE CASE msg.outcome = "accepted" ->
                           [u EXCEPT !.held = @ \ one, !.acked = @ \cup {msg.m}]
                      [] msg.outcome = "rejected" ->
                           [u EXCEPT !.held = @ \ one, !.dead = @ \cup {msg.m}]
                      [] OTHER ->
                           [u EXCEPT !.held = @ \ one, !.ready = Back(@, {msg.m})]
          [] OTHER ->
               IF Len(u.ready) < scen.max_len THEN [u EXCEPT !.ready = Append(@, msg.m)]
               ELSE u

QueueRecv(q) ==
    LET msg == Head(mbox[q])
    IN  /\ mbox[q] # <<>> /\ ~Dispatchable(q)
        /\ mbox' = [mbox EXCEPT ![q] = Tail(@)]
        /\ queue' = [queue EXCEPT ![q] = Rounded(QueueHandle(q, msg))]
        /\ cmds' = IF msg.type = "publish" /\ msg.ack # None
                   THEN Append(cmds, [type |-> "settle", h |-> msg.ack.h, epoch |-> msg.ack.epoch,
                                      id |-> msg.ack.id,
                                      accepted |-> Len(queue[q].ready) < scen.max_len])
                   ELSE cmds
        /\ UNCHANGED <<scen, ses, net, client, bind, gen, resolved>>

Next ==
    \/ \E k \in Links : Create(k) \/ Recv(k) \/ Credit(k) \/ DropHandle(k) \/ accept_through(k)
    \/ \E k \in Links : \E st \in scen.outcomes : Dispose(k, st)
    \/ \E k \in Links : \E m \in Messages : Send(k, m)
    \/ ClientFrame \/ BrokerFrame \/ AcceptAttach \/ DeliverCmd \/ SettleCmd \/ ForwardSettlement
    \/ \E q \in Queues : QueueDispatch(q) \/ QueueRecv(q)

Spec == Init /\ [][Next]_vars

-----------------------------------------------------------------------------
(* Properties *)

Held(q) == {x.m : x \in queue[q].held}
InQueue(q) == ToSet(queue[q].ready) \cup Held(q) \cup queue[q].acked \cup queue[q].dead
Count(seq, Test(_)) == Len(SelectSeq(seq, Test))
Transfers(e) == Count(net[e], LAMBDA f : f.type = "transfer")
\* the handle the broker uses for link k, while k is attached at both ends
BrokerHandles(k) ==
    {h \in Handles : /\ HasLink(ses["broker"], h, "sender") /\ ses["broker"].link[h].k = k
                     /\ ses["client"].rm[h] # None
                     /\ ses["client"].link[ses["client"].rm[h]].k = k}
\* deliveries of link k on the wire (their last frames)
OnTheWire(k) ==
    Count(net["client"], LAMBDA f : /\ f.type = "transfer" /\ ~f.more
                                    /\ f.h \in BrokerHandles(k))

\* Every piece of state keeps its type; no credit or window leaves the range
\* of a counter that has not wrapped below zero.
TypeOK ==
    /\ \A e \in Ends : /\ ses[e].out \in 0..W - 1 /\ ses[e].nin \in 0..W - 1
                       /\ ses[e].riw \in 0..scen.window + scen.broker_window
                       /\ ses[e].tx = <<>> /\ ses[e].ev = <<>>
    /\ \A k \in Links : /\ app[k].st \in {"none", "attaching", "open", "ended", "dropped", "failed"}
                        /\ app[k].h \in Handles \cup {None}
    /\ \A h \in Handles : \A e \in Ends :
          ses[e].link[h] # None => ses[e].link[h].lc \in 0..W \div 2
    /\ gen \in 0..MaxGen

\* A session never has more transfers in flight than the receiving end still
\* accepts: record_incoming never finds its incoming-window already spent.
WindowHonored == \A e \in Ends : Transfers(e) <= ses[e].iw

\* The broker can never push more than the handle can buffer: what waits in a
\* consumer's delivery channel, with what is on its way there and what the
\* application took without topping up, is within its credit window, so the
\* driver never blocks on a slow consumer.
ChannelFits ==
    \A k \in Consumers :
        scen.link[k].window > 0 =>
            Count(app[k].ch, LAMBDA d : d.e = "delivery") + OnTheWire(k) + app[k].consumed
                <= scen.link[k].window

\* A command for a binding that was replaced is dropped: what a consumer
\* receives comes from the queue it attached to, however its handle number
\* was used before.
RightQueue ==
    \A k \in Consumers :
        \A d \in ToSet(app[k].ch) \cup ToSet(app[k].got) :
            d.e = "delivery" => d.m \in ToSet(scen.ready[scen.link[k].q])

\* A message leaves its queue as accepted only when a consumer of that queue
\* accepted it.
AckedByConsumer ==
    \A q \in Queues : \A m \in queue[q].acked :
        \E t \in taken : t.m = m /\ t.state = "accepted" /\ scen.link[t.k].q = q

Carried(q, x) ==
    \/ \E i \in DOMAIN cmds : cmds[i].type = "deliver" /\ cmds[i].m = x.m
                              /\ cmds[i].epoch = x.sub
    \/ \E h \in SenderLinks(ses["broker"]) :
          LET l == ses["broker"].link[h]
          IN  \/ \E i \in DOMAIN l.box : l.box[i].ref = [q |-> q, sub |-> x.sub, m |-> x.m]
              \/ \E p \in l.pend : p.ref = [q |-> q, sub |-> x.sub, m |-> x.m]
    \/ \E r \in resolved : r.m = x.m /\ r.sub = x.sub
    \/ \E i \in DOMAIN mbox[q] :
          \/ mbox[q][i].type = "settle" /\ mbox[q][i].m = x.m /\ mbox[q][i].sub = x.sub
          \/ mbox[q][i].type = "unsubscribe" /\ mbox[q][i].sub = x.sub

\* A message the queue counts as in flight is always on its way somewhere: as
\* a command, in the sender's outbox, sent and unsettled, or as an outcome or
\* an unsubscribe coming back.  None is invisible with no redelivery path.
HeldCarried == \A q \in Queues : \A x \in queue[q].held : Carried(q, x)

\* A send reported accepted is in the queue the producer was attached to.
AcceptedStored ==
    \A k \in Links \ Consumers : \A m \in scen.link[k].sends :
        sends[m] = "accepted" => m \in InQueue(scen.link[k].q)

\* The queue -> connection backlog of a producer is bounded by its credit:
\* publishes in the mailbox and acks not yet sent stay within initial_credit.
BacklogBounded ==
    \A h \in Handles :
        (bind[h] # None /\ bind[h].kind = "producer") =>
            Count(mbox[bind[h].q], LAMBDA x : x.type = "publish" /\ x.ack # None
                                              /\ x.ack.epoch = bind[h].epoch)
              + Count(cmds, LAMBDA c : c.type = "settle" /\ c.epoch = bind[h].epoch)
              + bind[h].acked <= scen.initial_credit

\* nothing is left to do but for the application
Quiet ==
    /\ net = [e \in Ends |-> <<>>] /\ cmds = <<>> /\ resolved = {}
    /\ \A q \in Queues : mbox[q] = <<>> /\ ~Dispatchable(q)

Parked == \E e \in Ends : \E h \in SenderLinks(ses[e]) : ses[e].link[h].box # <<>>

\* Where every message takes one frame, no link is detached from this side,
\* the session window covers the credit and fewer messages than
\* MAX_UNSETTLED are sent, no message is left parked, and the queue's demand,
\* the sender's credit and the receiver's credit agree.
CreditAgrees ==
    (scen.roomy /\ Quiet) =>
        /\ ~Parked
        /\ \A k \in Consumers : \A h \in BrokerHandles(k) :
              LET b == ses["broker"].link[h]
                  subs == {s \in ToSet(Subs(bind[h].q)) : s.id.id = bind[h].epoch}
              IN  /\ b.lc = ses["client"].link[b.rh].lc
                  /\ \A s \in subs : s.demand = b.lc

\* Flow control holds at every level: the session windows, the credit window
\* of a consumer's channel, a producer's credit at the broker.  (And the
\* counters stay in their ranges across the wrap.)
FlowHonored == TypeOK /\ WindowHonored /\ ChannelFits /\ BacklogBounded

\* Nothing goes astray between the links of a session that reuse each other's
\* handles: deliveries, outcomes and publishes belong to the link's own queue.
NothingAstray == RightQueue /\ AckedByConsumer /\ AcceptedStored
=============================================================================
