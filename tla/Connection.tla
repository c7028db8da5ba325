---------------------------- MODULE Connection ----------------------------
(***************************************************************************)
(* One connection between the client (ramqp api/connection.rs, sasl/mod.rs *)
(* and connection/driver.rs) and the broker (ramqp-broker connection.rs):  *)
(* the header, SASL and open handshake, sessions on multiplexed channels,  *)
(* keepalive time-outs, and every way the connection ends.                 *)
(*                                                                         *)
(*   cl, br     the two endpoints: phase, result, channel allocator,       *)
(*              sessions by local channel, remote-channel map              *)
(*   net[e]     the frames on their way to endpoint e, in order            *)
(*   dark       the network has stopped carrying frames, in silence        *)
(*   cmds       the commands the driver has not handled yet                *)
(*   call[s]    what the application knows of session object s             *)
(*   msg[s]     the one delivery made on session s, as its queue sees it   *)
(*   hist       the deliveries whose disposition the broker has read, the  *)
(*              sessions it has ended and whether it verified credentials  *)
(*   left       what is left of the scenario's budgets                     *)
(*                                                                         *)
(* Link frames are reduced to an attach and the disposition of one         *)
(* delivery (Links models them in full); every frame carries the session   *)
(* object it was sent for, which the code does not have and only the       *)
(* properties read.                                                        *)
(***************************************************************************)
EXTENDS Integers, Sequences, Functions

CONSTANTS Scenarios, Sessions

VARIABLES scen, cl, br, net, dark, cmds, call, msg, hist, left

vars == <<scen, cl, br, net, dark, cmds, call, msg, hist, left>>

None == "none"
Nobody == 0
Handshake == {"header", "mechs", "init", "outcome", "response", "header2", "open"}

\* Variant: each endpoint keeps the channel-max it asked for
OwnMax(mine, theirs) == mine

\* reconcile: the channel-max both endpoints use
ChannelMax(mine, theirs) == IF mine < theirs THEN mine ELSE theirs

ASSUME ScenariosAssumption ==
    /\ Sessions \subseteq Nat \ {0}
    /\ \A s \in Scenarios : s.cmax \in Nat /\ s.bmax \in Nat /\ s.mechs # {}

---------------------------------------------------------------------------
(* ChannelAllocator and the maps *)

NewAllocator == [next |-> 0, free |-> <<>>]

CanAllocate(a, max) == a.free # <<>> \/ a.next <= max

\* the channel allocate() returns: the one freed last, or a new one
Allocated(a) == IF a.free # <<>> THEN a.free[Len(a.free)] ELSE a.next

allocate(a) ==
    IF a.free # <<>> THEN [a EXCEPT !.free = SubSeq(@, 1, Len(@) - 1)]
    ELSE [a EXCEPT !.next = @ + 1]

release(a, ch) == [a EXCEPT !.free = Append(@, ch)]

Bind(f, k, v) == [x \in DOMAIN f \cup {k} |-> IF x = k THEN v ELSE f[x]]
Unbind(f, k) == Restrict(f, DOMAIN f \ {k})
Empty == [x \in {} |-> None]

NewEnd(phase) ==
    [phase |-> phase, result |-> None, max |-> 0, alloc |-> NewAllocator,
     sess |-> Empty, remote |-> Empty, discarding |-> {}, open |-> TRUE]

Init ==
    /\ scen \in Scenarios
    /\ cl = NewEnd("header")
    /\ br = NewEnd("header")
    /\ net = [cl |-> <<>>, br |-> <<[k |-> "header", id |-> "SASL"]>>]
    /\ dark = FALSE
    /\ cmds = <<>>
    /\ call = [s \in Sessions |-> [st |-> None, ch |-> 0]]
    /\ msg = [s \in Sessions |-> None]
    /\ hist = [acked |-> {}, ended |-> {}, verified |-> None]
    /\ left = scen.budget

---------------------------------------------------------------------------
(* Sending, receiving and ending *)

ToBroker(fs) == IF dark THEN net.br ELSE net.br \o fs
ToClient(fs) == IF dark THEN net.cl ELSE net.cl \o fs

\* a frame is at hand for the endpoint
Arrives(e) == ~dark /\ net[e] # <<>>

\* the peer dropped its socket and every byte it sent has been read
EndOfStream(e, peer) == ~dark /\ net[e] = <<>> /\ ~peer.open

\* the calls the driver's end cancels: their replies are dropped with it
Cancelled(c) ==
    [s \in Sessions |-> IF c[s].st \in {"begin", "end"} THEN [c[s] EXCEPT !.st = "cancelled"] ELSE c[s]]

\* the driver's task returns: socket, sessions and queued commands are dropped
ClientDone(result) ==
    /\ cl' = [cl EXCEPT !.phase = "done", !.result = result, !.open = FALSE]
    /\ cmds' = <<>>
    /\ call' = Cancelled(call)

\* a delivery whose disposition the broker has not read yet
InFlight == {"sent", "got", "acking"}

\* Variant: the settlements that have resolved are dropped with the connection
DroppedUnforwarded(m) == IF m \in InFlight \cup {"resolved"} THEN "requeued" ELSE m

\* what becomes of a delivery when the connection ends: cleanup forwards the
\* outcomes that have resolved, then unsubscribes every consumer
AtCleanup(m) ==
    IF m = "resolved" THEN "settled" ELSE IF m \in InFlight THEN "requeued" ELSE m

\* ... and when only its session ends: release_session_bindings unsubscribes
\* at once, so an outcome that has resolved but was not forwarded is too late
AtSessionEnd(m) == IF m \in InFlight \cup {"resolved"} THEN "requeued" ELSE m

\* serve returns: cleanup, and the socket is dropped
BrokerDone(result) ==
    /\ br' = [br EXCEPT !.phase = "done", !.result = result, !.open = FALSE]
    /\ msg' = [s \in Sessions |-> AtCleanup(msg[s])]

---------------------------------------------------------------------------
(* The client's handshake *)

ClientFails(kind) ==
    /\ ClientDone(kind)
    /\ net' = [net EXCEPT !.cl = Tail(@)]
    /\ UNCHANGED <<scen, br, dark, msg, hist, left>>

ClientSends(phase, fs) ==
    /\ cl' = [cl EXCEPT !.phase = phase]
    /\ net' = [net EXCEPT !.cl = Tail(@), !.br = ToBroker(fs)]
    /\ UNCHANGED <<scen, br, dark, cmds, call, msg, hist, left>>

\* ProtocolHeader::negotiate, for the SASL layer and then for AMQP
ClientHeader ==
    /\ cl.phase \in {"header", "header2"} /\ Arrives("cl")
    /\ LET f == Head(net.cl)
           wanted == IF cl.phase = "header" THEN "SASL" ELSE "AMQP"
       IN IF f.k = "header" /\ f.id = wanted
          THEN IF cl.phase = "header" THEN ClientSends("mechs", <<>>)
               ELSE ClientSends("open", <<[k |-> "open", good |-> scen.copen, max |-> scen.cmax]>>)
          ELSE ClientFails("protocol")

Offered(f) == f.k = "mechanisms" /\ scen.profile \in f.set

ClientMechanisms ==
    /\ cl.phase = "mechs" /\ Arrives("cl")
    /\ IF Offered(Head(net.cl))
       THEN ClientSends("outcome", <<[k |-> "init", mech |-> scen.profile, good |-> scen.good]>>)
       ELSE ClientFails("sasl")

\* only a SCRAM exchange answers a challenge, and only it checks the outcome
\* for the server's signature
ClientOutcome ==
    /\ cl.phase = "outcome" /\ Arrives("cl")
    /\ LET f == Head(net.cl) IN
       CASE f.k = "challenge" /\ scen.profile = "SCRAM" ->
                ClientSends("outcome", <<[k |-> "response", good |-> scen.good]>>)
         [] f.k = "outcome" /\ f.ok /\ (scen.profile = "SCRAM" => f.signed) ->
                ClientSends("header2", <<[k |-> "header", id |-> "AMQP"]>>)
         [] OTHER -> ClientFails("sasl")

\* Driver::open: a bad open, or any other frame, is fatal
ClientOpen ==
    /\ cl.phase = "open" /\ Arrives("cl")
    /\ LET f == Head(net.cl) IN
       CASE f.k = "open" /\ f.good ->
              /\ cl' = [cl EXCEPT !.phase = "run", !.max = ChannelMax(scen.cmax, f.max)]
              /\ net' = [net EXCEPT !.cl = Tail(@)]
              /\ UNCHANGED <<scen, br, dark, cmds, call, msg, hist, left>>
         [] OTHER -> ClientFails("protocol")

---------------------------------------------------------------------------
(* The broker's handshake *)

Outcome(ok, signed) == [k |-> "outcome", ok |-> ok, signed |-> signed]

BrokerSends(phase, fs) ==
    /\ br' = [br EXCEPT !.phase = phase]
    /\ net' = [net EXCEPT !.br = Tail(@), !.cl = ToClient(fs)]
    /\ UNCHANGED <<scen, cl, dark, cmds, call, msg, hist, left>>

BrokerAuthenticates(mech, signed) ==
    /\ br' = [br EXCEPT !.phase = "header2"]
    /\ net' = [net EXCEPT !.br = Tail(@), !.cl = ToClient(<<Outcome(TRUE, signed)>>)]
    /\ hist' = [hist EXCEPT !.verified = mech]
    /\ UNCHANGED <<scen, cl, dark, cmds, call, msg, left>>

\* the handshake's errors return before there is a connection to close
BrokerRefuses(kind, fs) ==
    /\ BrokerDone(kind)
    /\ net' = [net EXCEPT !.br = Tail(@), !.cl = ToClient(fs)]
    /\ UNCHANGED <<scen, cl, dark, cmds, call, hist, left>>

\* accept_header: echo a header we support, or answer with ours and fail;
\* server_sasl starts by advertising the mechanisms
BrokerHeader ==
    /\ br.phase \in {"header", "header2"} /\ Arrives("br")
    /\ LET f == Head(net.br)
           wanted == IF br.phase = "header" THEN "SASL" ELSE "AMQP"
           echo == <<[k |-> "header", id |-> wanted]>>
       IN IF f.k = "header" /\ f.id = wanted
          THEN IF br.phase = "header"
               THEN BrokerSends("init", echo \o <<[k |-> "mechanisms", set |-> scen.mechs]>>)
               ELSE BrokerSends("open", echo)
          ELSE BrokerRefuses("protocol", echo)

Verified(f) == f.mech \in scen.mechs /\ f.good

\* server_sasl: an offered SCRAM mechanism is challenged whoever asks, so that
\* an unknown user fails only at its final message
BrokerInit ==
    /\ br.phase = "init" /\ Arrives("br")
    /\ LET f == Head(net.br) IN
       CASE f.k = "init" /\ f.mech = "SCRAM" /\ f.mech \in scen.mechs ->
                BrokerSends("response", <<[k |-> "challenge"]>>)
         [] f.k = "init" /\ Verified(f) -> BrokerAuthenticates(f.mech, FALSE)
         [] f.k = "init" /\ ~Verified(f) -> BrokerRefuses("sasl", <<Outcome(FALSE, FALSE)>>)
         [] OTHER -> BrokerRefuses("sasl", <<>>)

\* server_scram: the proof is verified, and answered with the signature
BrokerResponse ==
    /\ br.phase = "response" /\ Arrives("br")
    /\ LET f == Head(net.br) IN
       CASE f.k = "response" /\ f.good -> BrokerAuthenticates("SCRAM", TRUE)
         [] f.k = "response" /\ ~f.good -> BrokerRefuses("sasl", <<Outcome(FALSE, FALSE)>>)
         [] OTHER -> BrokerRefuses("sasl", <<>>)

\* the open exchange: the peer's frame size and vhost are validated before our
\* own open goes out
BrokerOpen ==
    /\ br.phase = "open" /\ Arrives("br")
    /\ LET f == Head(net.br) IN
       CASE f.k = "open" /\ f.good ->
              /\ br' = [br EXCEPT !.phase = "run", !.max = ChannelMax(scen.bmax, f.max)]
              /\ net' = [net EXCEPT !.br = Tail(@),
                           !.cl = ToClient(<<[k |-> "open", good |-> scen.bopen, max |-> scen.bmax]>>)]
              /\ UNCHANGED <<scen, cl, dark, cmds, call, msg, hist, left>>
         [] OTHER -> BrokerRefuses("protocol", <<>>)

---------------------------------------------------------------------------
(* The application: commands are queued for the driver and their replies   *)
(* awaited; another task may act meanwhile                                 *)

Issue(c, cs) ==
    /\ cl.phase = "run" /\ Len(cmds) < scen.queue
    /\ cmds' = Append(cmds, c)
    /\ call' = cs
    /\ UNCHANGED <<scen, cl, br, net, dark, hist>>

\* the handle names a channel, not a session: the application does not use it
\* once another session may have taken the channel over
StillOwns(s) ==
    /\ \A ch \in DOMAIN cl.sess : ch = call[s].ch => cl.sess[ch].id = s
    /\ \A i \in DOMAIN cmds : cmds[i].k # "begin"

AppBegin ==
    \E s \in Sessions :
        /\ s <= scen.sessions /\ call[s].st = None
        /\ \A t \in Sessions : t < s => call[t].st # None
        /\ Issue([k |-> "begin", s |-> s], [call EXCEPT ![s].st = "begin"])
        /\ UNCHANGED <<msg, left>>

AppEnd(s) ==
    /\ call[s].st = "open" /\ StillOwns(s)
    /\ Issue([k |-> "end", s |-> s, ch |-> call[s].ch], [call EXCEPT ![s].st = "end"])
    /\ UNCHANGED <<msg, left>>

LinkUsable(s) == call[s].st = "open" \/ (scen.late /\ call[s].st = "end")

AppAttach(s) ==
    /\ LinkUsable(s) /\ StillOwns(s) /\ left.attach > 0
    /\ Issue([k |-> "attach", s |-> s, ch |-> call[s].ch], call)
    /\ left' = [left EXCEPT !.attach = @ - 1]
    /\ UNCHANGED msg

AppAck(s) ==
    /\ LinkUsable(s) /\ StillOwns(s) /\ msg[s] = "got"
    /\ Issue([k |-> "ack", s |-> s, ch |-> call[s].ch], call)
    /\ msg' = [msg EXCEPT ![s] = "acking"]
    /\ UNCHANGED left

\* Connection::close, or the last handle dropped
AppClose ==
    /\ left.close > 0
    /\ Issue([k |-> "close"], call)
    /\ left' = [left EXCEPT !.close = @ - 1]
    /\ UNCHANGED msg

---------------------------------------------------------------------------
(* The driver *)

Handled(c, fs, cs) ==
    /\ cl' = c
    /\ cmds' = Tail(cmds)
    /\ call' = cs
    /\ net' = [net EXCEPT !.br = ToBroker(fs)]
    /\ UNCHANGED <<scen, br, dark, msg, hist, left>>

BeginSession(c) ==
    IF CanAllocate(cl.alloc, cl.max)
    THEN LET ch == Allocated(cl.alloc) IN
         Handled([cl EXCEPT !.alloc = allocate(@),
                            !.sess = Bind(@, ch, [id |-> c.s, phase |-> "BeginSent", ender |-> Nobody])],
                 <<[k |-> "begin", ch |-> ch, id |-> c.s]>>, call)
    ELSE Handled(cl, <<>>, [call EXCEPT ![c.s].st = "failed"])

\* Variant: the channel is free as soon as our end is sent
FreedWhenSent(a, ch) == release(a, ch)

\* the channel stays ours until the peer's end has been read
KeptUntilEnded(a, ch) == a

\* the command names a channel: whichever session is on it now is ended
EndSession(c) ==
    IF c.ch \in DOMAIN cl.sess
    THEN Handled([cl EXCEPT !.alloc = KeptUntilEnded(@, c.ch), !.sess[c.ch].phase = "EndSent", !.sess[c.ch].ender = c.s],
                 <<[k |-> "end", ch |-> c.ch, id |-> c.s, error |-> FALSE]>>, call)
    ELSE Handled(cl, <<>>, [call EXCEPT ![c.s].st = "failed"])

\* link commands go out in any phase of the session
LinkCommand(c) ==
    Handled(cl, IF c.ch \in DOMAIN cl.sess THEN <<[k |-> c.k, ch |-> c.ch, id |-> c.s]>> ELSE <<>>,
            call)

HandleCommand ==
    /\ cl.phase = "run" /\ cmds # <<>>
    /\ LET c == Head(cmds) IN
       CASE c.k = "begin" -> BeginSession(c)
         [] c.k = "end" -> EndSession(c)
         [] c.k = "close" ->
              Handled([cl EXCEPT !.phase = "closing"], <<[k |-> "close", error |-> FALSE]>>, call)
         [] OTHER -> LinkCommand(c)

\* a frame is consumed, with no other effect than those named
Consumed(c, fs, cs, m) ==
    /\ cl' = c
    /\ call' = cs
    /\ msg' = m
    /\ net' = [net EXCEPT !.cl = Tail(@), !.br = ToBroker(fs)]
    /\ UNCHANGED <<scen, br, dark, cmds, hist, left>>

\* the peer's close is answered, and its error is the driver's result
PeerCloses(f) ==
    /\ ClientDone(IF f.error THEN "peer_error" ELSE "ok")
    /\ net' = [net EXCEPT !.cl = Tail(@), !.br = ToBroker(<<[k |-> "close", error |-> FALSE]>>)]
    /\ UNCHANGED <<scen, br, dark, msg, hist, left>>

\* a begin must answer a session that awaits it
PeerBegins(f) ==
    IF f.remote \in DOMAIN cl.sess /\ cl.sess[f.remote].phase = "BeginSent"
    THEN Consumed([cl EXCEPT !.remote = Bind(@, f.ch, f.remote), !.sess[f.remote].phase = "Mapped"],
                  <<>>, [call EXCEPT ![cl.sess[f.remote].id] = [st |-> "open", ch |-> f.remote]], msg)
    ELSE ClientFails("protocol")

\* an end that answers ours is not answered again
Echoes(s) == s.phase # "EndSent"

PeerEnds(f) ==
    IF f.ch \notin DOMAIN cl.remote THEN Consumed(cl, <<>>, call, msg)
    ELSE LET local == cl.remote[f.ch]
             s == cl.sess[local]
         IN Consumed([cl EXCEPT !.sess = Unbind(@, local), !.remote = Unbind(@, f.ch),
                                !.alloc = release(@, local)],
                     IF Echoes(s) THEN <<[k |-> "end", ch |-> local, id |-> s.id, error |-> FALSE]>>
                     ELSE <<>>,
                     IF s.ender = Nobody THEN call
                     ELSE [call EXCEPT ![s.ender].st = IF f.error THEN "failed" ELSE "ended"],
                     msg)

PeerLinkFrame(f) ==
    IF f.ch \in DOMAIN cl.remote
    THEN Consumed(cl, <<>>, call,
                  IF f.k = "deliver" /\ msg[f.id] = "sent" THEN [msg EXCEPT ![f.id] = "got"] ELSE msg)
    ELSE ClientFails("protocol")

ClientFrame ==
    /\ cl.phase = "run" /\ Arrives("cl")
    /\ LET f == Head(net.cl) IN
       CASE f.k = "close" -> PeerCloses(f)
         [] f.k # "close" /\ f.ch > cl.max -> ClientFails("protocol")
         [] f.k = "begin" /\ f.ch <= cl.max -> PeerBegins(f)
         [] f.k = "end" /\ f.ch <= cl.max -> PeerEnds(f)
         [] OTHER -> PeerLinkFrame(f)

\* await_peer_close: everything before the peer's close is skipped
ClientClosing ==
    /\ cl.phase = "closing" /\ Arrives("cl")
    /\ LET f == Head(net.cl) IN
       IF f.k = "close"
       THEN /\ ClientDone(IF f.error THEN "peer_error" ELSE "ok")
            /\ net' = [net EXCEPT !.cl = Tail(@)]
            /\ UNCHANGED <<scen, br, dark, msg, hist, left>>
       ELSE Consumed(cl, <<>>, call, msg)

\* the peer dropped the socket: fine once we have closed, else an error
ClientEof ==
    /\ cl.phase # "done" /\ EndOfStream("cl", br)
    /\ ClientDone(IF cl.phase = "closing" THEN "ok" ELSE "peer_closed")
    /\ UNCHANGED <<scen, br, net, dark, msg, hist, left>>

\* connect_timeout around the handshake, the heartbeat once running; nothing
\* bounds await_peer_close
ClientTimesOut ==
    /\ cl.phase \in Handshake \cup {"run"}
    /\ dark \/ left.slow > 0
    /\ ClientDone("timeout")
    /\ left' = IF dark THEN left ELSE [left EXCEPT !.slow = @ - 1]
    /\ UNCHANGED <<scen, br, net, dark, msg, hist>>

\* a write to a socket the broker has dropped may fail before its last frames
\* have been read
ClientWriteFails ==
    /\ cl.phase = "run" /\ cmds # <<>> /\ ~dark /\ ~br.open
    /\ ClientDone("io")
    /\ UNCHANGED <<scen, br, net, dark, msg, hist, left>>

---------------------------------------------------------------------------
(* The broker's connection loop *)

ServedSpending(b, fs, m, h, l) ==
    /\ br' = b
    /\ msg' = m
    /\ hist' = h
    /\ net' = [net EXCEPT !.br = Tail(@), !.cl = ToClient(fs)]
    /\ left' = l
    /\ UNCHANGED <<scen, cl, dark, cmds, call>>

Served(b, fs, m, h) == ServedSpending(b, fs, m, h, left)

Ignored == Served(br, <<>>, msg, hist)

\* serve: run failed, so the peer is told why before cleanup
BrokerFails(kind) == BrokerRefuses(kind, <<[k |-> "close", error |-> TRUE]>>)

\* accept_begin
PeerBegin(f) ==
    IF f.ch \in DOMAIN br.remote THEN BrokerFails("protocol")
    ELSE IF ~CanAllocate(br.alloc, br.max) THEN BrokerFails("capacity")
    ELSE LET local == Allocated(br.alloc) IN
         Served([br EXCEPT !.alloc = allocate(@), !.remote = Bind(@, f.ch, local),
                           !.discarding = @ \ {f.ch},
                           !.sess = Bind(@, local, [id |-> f.id, attached |-> FALSE])],
                <<[k |-> "begin", ch |-> local, remote |-> f.ch, id |-> f.id]>>, msg, hist)

\* the session leaves every table, its consumers are unsubscribed, and an end
\* goes out; `marked` are the remote channels to discard from then on
SessionEnds(f, marked, error, l) ==
    LET local == br.remote[f.ch]
        id == br.sess[local].id
    IN ServedSpending(
           [br EXCEPT !.sess = Unbind(@, local), !.remote = Unbind(@, f.ch),
                      !.alloc = release(@, local), !.discarding = @ \cup marked],
           <<[k |-> "end", ch |-> local, id |-> id, error |-> error]>>,
           [msg EXCEPT ![id] = AtSessionEnd(@)],
           [hist EXCEPT !.ended = @ \cup {id}], l)

\* handle_end: the echo of our own end, the end of a session already gone, or
\* one to acknowledge
PeerEnd(f) ==
    IF f.ch \in br.discarding THEN Served([br EXCEPT !.discarding = @ \ {f.ch}], <<>>, msg, hist)
    ELSE IF f.ch \notin DOMAIN br.remote THEN Ignored
    ELSE SessionEnds(f, {}, FALSE, left)

Marked(ch) == {ch}

\* accept_attach: refused by ending the session (a link the session rejects, a
\* queue whose actor is gone), or bound and answered
PeerAttach(f) ==
    LET local == br.remote[f.ch] IN
    \/ Served([br EXCEPT !.sess[local].attached = TRUE],
              <<[k |-> "attached", ch |-> local, id |-> br.sess[local].id]>>, msg, hist)
    \/ /\ left.refuse > 0
       /\ SessionEnds(f, Marked(f.ch), TRUE, [left EXCEPT !.refuse = @ - 1])

\* the disposition resolves the delivery's outcome, if it is still awaited
PeerAck(f) ==
    LET id == br.sess[br.remote[f.ch]].id IN
    IF msg[id] \in InFlight
    THEN Served(br, <<>>, [msg EXCEPT ![id] = "resolved"], [hist EXCEPT !.acked = @ \cup {id}])
    ELSE Ignored

BrokerFrame ==
    /\ br.phase = "run" /\ Arrives("br")
    /\ LET f == Head(net.br)
           active == f.k \in {"attach", "ack"} /\ f.ch \in DOMAIN br.remote
       IN \/ /\ f.k = "close"
             /\ BrokerRefuses("ok", <<[k |-> "close", error |-> FALSE]>>)
          \/ f.k = "begin" /\ PeerBegin(f)
          \/ f.k = "end" /\ PeerEnd(f)
          \/ active /\ f.k = "attach" /\ PeerAttach(f)
          \/ active /\ f.k = "ack" /\ PeerAck(f)
          \* resolve_active: behind our own end, or on a channel never mapped
          \/ f.k \in {"attach", "ack"} /\ ~active /\ f.ch \in br.discarding /\ Ignored
          \/ f.k \in {"attach", "ack"} /\ ~active /\ f.ch \notin br.discarding
             /\ BrokerFails("protocol")

\* handle_cmd: the queue's delivery goes out on the consumer's session
Deliver ==
    \E local \in DOMAIN br.sess :
        LET s == br.sess[local] IN
        /\ br.phase = "run" /\ s.attached /\ msg[s.id] = None
        /\ msg' = [msg EXCEPT ![s.id] = "sent"]
        /\ net' = [net EXCEPT !.cl = ToClient(<<[k |-> "deliver", ch |-> local, id |-> s.id]>>)]
        /\ UNCHANGED <<scen, cl, br, dark, cmds, call, hist, left>>

\* forward_settlement, for everything that has resolved
Forward ==
    /\ br.phase = "run" /\ \E s \in Sessions : msg[s] = "resolved"
    /\ msg' = [s \in Sessions |-> IF msg[s] = "resolved" THEN "settled" ELSE msg[s]]
    /\ UNCHANGED <<scen, cl, br, net, dark, cmds, call, hist, left>>

\* the server shuts down
Shutdown ==
    /\ br.phase = "run" /\ left.shutdown > 0
    /\ br' = [br EXCEPT !.phase = "closing"]
    /\ net' = [net EXCEPT !.cl = ToClient(<<[k |-> "close", error |-> FALSE]>>)]
    /\ left' = [left EXCEPT !.shutdown = @ - 1]
    /\ UNCHANGED <<scen, cl, dark, cmds, call, msg, hist>>

\* await_peer_close
BrokerClosing ==
    /\ br.phase = "closing" /\ Arrives("br")
    /\ IF Head(net.br).k = "close" THEN BrokerRefuses("ok", <<>>) ELSE Ignored

BrokerEof ==
    /\ br.phase # "done" /\ EndOfStream("br", cl)
    /\ BrokerDone(IF br.phase = "closing" THEN "ok" ELSE "peer_closed")
    /\ UNCHANGED <<scen, cl, net, dark, cmds, call, hist, left>>

\* Variant: nothing bounds the inbound handshake
BoundedOnceOpen(phase) == phase \in {"run", "closing"}

\* the handshake's bound, the heartbeat, or the five seconds for a close
Bounded(phase) == phase # "done"

BrokerTimesOut ==
    /\ Bounded(br.phase)
    /\ dark \/ left.slow > 0
    /\ BrokerDone(IF br.phase = "closing" THEN "ok" ELSE "timeout")
    /\ net' = IF br.phase = "run" THEN [net EXCEPT !.cl = ToClient(<<[k |-> "close", error |-> TRUE]>>)]
              ELSE net
    /\ left' = IF dark THEN left ELSE [left EXCEPT !.slow = @ - 1]
    /\ UNCHANGED <<scen, cl, dark, cmds, call, hist>>

\* the network stops carrying anything, and nobody is told
GoDark ==
    /\ ~dark /\ left.dark > 0 /\ (cl.open \/ br.open)
    /\ dark' = TRUE
    /\ left' = [left EXCEPT !.dark = @ - 1]
    /\ UNCHANGED <<scen, cl, br, net, cmds, call, msg, hist>>

ClientHandshake == ClientHeader \/ ClientMechanisms \/ ClientOutcome \/ ClientOpen
BrokerHandshake == BrokerHeader \/ BrokerInit \/ BrokerResponse \/ BrokerOpen

App ==
    \/ AppBegin
    \/ \E s \in Sessions : AppEnd(s) \/ AppAttach(s) \/ AppAck(s)
    \/ AppClose

ClientReads == ClientHandshake \/ ClientFrame \/ ClientClosing \/ ClientEof
BrokerReads == BrokerHandshake \/ BrokerFrame \/ BrokerClosing \/ BrokerEof

Next ==
    \/ App \/ HandleCommand \/ ClientReads \/ ClientTimesOut \/ ClientWriteFails
    \/ BrokerReads \/ Deliver \/ Forward \/ Shutdown \/ BrokerTimesOut
    \/ GoDark

Spec == Init /\ [][Next]_vars

\* both tasks are scheduled whenever a frame, a command or an end of stream is
\* at hand, and a timer fires on a network that stays dark
FairSpec ==
    /\ Spec
    /\ WF_vars(HandleCommand) /\ WF_vars(ClientReads) /\ WF_vars(dark /\ ClientTimesOut)
    /\ WF_vars(BrokerReads) /\ WF_vars(Forward) /\ WF_vars(dark /\ BrokerTimesOut)

---------------------------------------------------------------------------
(* Properties *)

Results == {None, "ok", "sasl", "protocol", "capacity", "peer_closed", "peer_error", "timeout", "io"}

\* Types, and the tables of an endpoint agree: channels that are allocated and
\* not free are exactly the sessions, and the remote map is one-to-one onto
\* sessions of the endpoint.
TypeOK ==
    \A e \in {cl, br} :
        /\ e.phase \in Handshake \cup {"run", "closing", "done"} /\ e.result \in Results
        /\ e.result = None <=> e.phase # "done"
        /\ DOMAIN e.sess = (0 .. e.alloc.next - 1) \ Range(e.alloc.free)
        /\ IsInjective(e.alloc.free)
        /\ e.alloc.next <= e.max + 1
        /\ Range(e.remote) \subseteq DOMAIN e.sess
        /\ IsInjective(e.remote)

\* A client that has opened the connection talks to a broker that verified its
\* credentials with a mechanism the broker offers, and both use one channel-max.
EstablishedAgree ==
    cl.phase \in {"run", "closing"} =>
        /\ scen.good /\ scen.bopen /\ scen.copen
        /\ hist.verified = scen.profile /\ scen.profile \in scen.mechs
        /\ br.max = cl.max /\ br.phase \notin Handshake

\* However begins, ends, refused attaches and deliveries cross, neither
\* endpoint takes a frame of the other for a protocol violation or runs out of
\* channels: each side's channel is free before the other side can reuse it.
\* (An application that uses a link of a session it is ending is excluded: the
\* driver sends the frame behind its end, and the broker fails the connection.)
NoProtocolError ==
    hist.verified # None /\ scen.copen /\ scen.bopen /\ ~scen.late =>
        /\ {cl.result, br.result} \cap {"protocol", "capacity"} = {}
        /\ (cl.result = "peer_error" => br.result = "timeout")

\* A frame that is about to be read resolves to the session it was sent for,
\* although channels are reused and each end has its own numbering.
RightSession ==
    /\ cl.phase = "run" /\ net.cl # <<>> /\ Head(net.cl).k \in {"end", "attached", "deliver"} =>
          LET f == Head(net.cl) IN
          f.ch \in DOMAIN cl.remote /\ cl.sess[cl.remote[f.ch]].id = f.id
    /\ br.phase = "run" /\ net.br # <<>> /\ Head(net.br).k \in {"end", "attach", "ack"} =>
          LET f == Head(net.br) IN
          f.ch \in DOMAIN br.remote => br.sess[br.remote[f.ch]].id = f.id

\* Frames find their session: both ends' channel tables are coherent, every
\* frame resolves to the session it was sent for, and none is refused.
FramesFindSession == TypeOK /\ RightSession /\ NoProtocolError

\* A disposition the broker has read reaches the queue however the connection
\* ends, unless the session was ended before: cleanup forwards what has
\* resolved before it unsubscribes.
AckedSurvivesClose ==
    br.phase = "done" => \A s \in hist.acked \ hist.ended : msg[s] = "settled"

\* Once an endpoint has stopped, nothing is left waiting: no handshake, no
\* begin or end call, no half-open peer. The one exception is a client that
\* closes on a dark network, whose await_peer_close nothing bounds.
Waiting ==
    /\ ~(dark /\ cl.phase = "closing")
    /\ \/ cl.phase \in Handshake \cup {"closing"}
       \/ br.phase \in Handshake \cup {"closing"}
       \/ cl.open # br.open
       \/ \E s \in Sessions : call[s].st \in {"begin", "end"}
       \/ hist.acked # {} /\ \E s \in hist.acked : msg[s] = "resolved"

Settles == <>[]~Waiting
===========================================================================
