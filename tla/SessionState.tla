---------------------------- MODULE SessionState ----------------------------
(***************************************************************************)
(* One endpoint of a session (ramqp-core session/ and link/): its windows, *)
(* its link handles and the sender and receiver state of its links.  The   *)
(* client driver and the broker connection run this same code, so every    *)
(* method of Session is an operator from a session record to a session     *)
(* record; `tx` collects the frames it queues on the transport and `ev`    *)
(* the link events and replies it emits, both emptied by the caller.       *)
(*                                                                         *)
(* Counters are u32 in the code and wrap at W here.  A body is abstracted  *)
(* to the number of frames it takes (Frames(m)); a delivery's reply        *)
(* channel is the reference `ref` the caller sent it with.                 *)
(***************************************************************************)
EXTENDS Integers, Sequences, SequencesExt, FiniteSets, Dispatch

CONSTANTS None, W, HandleMax, MaxUnsettled, Frames(_)

Handles == 0..HandleMax

NewSession(window, peer_window, base) ==
    [out |-> base, riw |-> peer_window, iw |-> window, full |-> window, nin |-> base,
     next |-> 0, free |-> <<>>,
     link |-> [h \in Handles |-> None], rm |-> [h \in Handles |-> None],
     tx |-> <<>>, ev |-> <<>>]

Queued(s, f) == [s EXCEPT !.tx = Append(@, f)]
Emitted(s, e) == [s EXCEPT !.ev = Append(@, e)]

HasLink(s, h, role) == h \in Handles /\ s.link[h] # None /\ s.link[h].role = role
SenderLinks(s) == {h \in Handles : HasLink(s, h, "sender")}

-----------------------------------------------------------------------------
(* Flow-control windows (session/window.rs) *)

record_outgoing(s, n) == [s EXCEPT !.out = (@ + n) % W, !.riw = SatSub(@, n)]

record_incoming(s) == [s EXCEPT !.nin = (@ + 1) % W, !.iw = SatSub(@, 1)]

replenish_incoming(s) == [s EXCEPT !.iw = IF s.full > 0 THEN s.full ELSE 1]

\* the peer's next-incoming-id + its incoming-window - our next-outgoing-id
remote_window(s, f) == ((IF f.nin = None THEN 0 ELSE f.nin) + f.iw - s.out) % W

on_peer_flow(s, f) ==
    [s EXCEPT !.riw = remote_window(s, f), !.nin = IF f.nout > @ THEN f.nout ELSE @]

build_flow(s) ==
    [type |-> "flow", nin |-> s.nin, iw |-> s.iw, nout |-> s.out, h |-> None,
     dc |-> None, lc |-> None, drain |-> FALSE, echo |-> FALSE]

link_flow(s, h) ==
    [build_flow(s) EXCEPT !.h = h, !.dc = s.link[h].dc, !.lc = s.link[h].lc,
                          !.drain = s.link[h].drain]

-----------------------------------------------------------------------------
(* Link credit (link/credit.rs): the sender and the receiver of a link     *)
(* consume one credit for each delivery                                    *)

Consumed(l) == [l EXCEPT !.dc = (@ + 1) % W, !.lc = SatSub(@, 1)]

set_credit(l, credit) == [l EXCEPT !.lc = credit, !.drain = FALSE]

apply_flow_as_sender(l, f) ==
    LET peer_dc == IF f.dc = None THEN l.dc ELSE f.dc
    IN  [l EXCEPT !.lc = IF f.lc = None THEN @ ELSE (peer_dc + f.lc - l.dc) % W,
                  !.drain = f.drain]

-----------------------------------------------------------------------------
(* Handles and links (session/registry.rs, link/sender.rs, receiver.rs)    *)

\* lowest free handle first: the last one released, else a new one
NextHandle(s) ==
    IF s.free # <<>> THEN s.free[Len(s.free)]
    ELSE IF s.next <= HandleMax THEN s.next ELSE None

allocate(s) ==
    IF s.free # <<>> THEN [s EXCEPT !.free = SubSeq(@, 1, Len(@) - 1)]
    ELSE [s EXCEPT !.next = @ + 1]

release(s, h) == [s EXCEPT !.free = Append(@, h)]

SenderLink(k) ==
    [role |-> "sender", k |-> k, rh |-> None, dc |-> 0, lc |-> 0, drain |-> FALSE,
     uns |-> {}, pend |-> {}, box |-> <<>>]

ReceiverLink(k, second, initial, cap) ==
    [role |-> "receiver", k |-> k, rh |-> None, dc |-> 0, lc |-> 0, drain |-> FALSE,
     uns |-> {}, part |-> None, second |-> second, initial |-> initial, cap |-> cap]

Attach(s, k, h, role) == [type |-> "attach", k |-> k, h |-> h, role |-> role]
Detach(h) == [type |-> "detach", h |-> h]

Reply(ref, state) == [e |-> "reply", ref |-> ref, state |-> state]

\* every reply the link still holds is dropped with it
Dropped(l) ==
    IF l.role = "receiver" THEN <<>>
    ELSE [i \in DOMAIN l.box |-> Reply(l.box[i].ref, "dropped")]
         \o SetToSeq({Reply(p.ref, "dropped") : p \in l.pend})

forget_link(s, h) ==
    release([s EXCEPT !.ev = @ \o Dropped(s.link[h]), !.link[h] = None], h)

Unbound(s, remote) == IF remote = None THEN s ELSE [s EXCEPT !.rm[remote] = None]

\* a link we initiate; its reply is held until the peer's attach
attach_link(s, l) ==
    LET h == NextHandle(s)
    IN  IF h = None THEN Emitted(s, [e |-> "refused", k |-> l.k])
        ELSE Queued([allocate(s) EXCEPT !.link[h] = l], Attach(s, l.k, h, l.role))

on_peer_attach(s, f) ==
    LET mine == {h \in Handles : s.link[h] # None /\ s.link[h].k = f.k
                                 /\ s.link[h].rh = None}
    IN  IF mine = {} THEN s
        ELSE LET h == CHOOSE h \in mine : TRUE
                 l == [s.link[h] EXCEPT !.rh = f.h]
                 bound == Emitted([s EXCEPT !.rm[f.h] = h, !.link[h] = l],
                                  [e |-> "attached", k |-> f.k, h |-> h])
                 granted == [bound EXCEPT !.link[h] = set_credit(@, l.initial)]
             IN  IF l.role = "receiver" /\ l.initial > 0
                 THEN Queued(granted, link_flow(granted, h)) ELSE bound

\* mirror a link the peer initiates (l.initial credits when we receive)
accept_peer_attach(s, f, l) ==
    LET h == NextHandle(s)
        ready == IF l.role = "receiver" THEN set_credit(l, l.initial) ELSE l
        bound == [allocate(s) EXCEPT !.link[h] = [ready EXCEPT !.rh = f.h], !.rm[f.h] = h]
        answered == Queued(bound, Attach(s, f.k, h, l.role))
    IN  IF l.role = "receiver" /\ l.initial > 0
        THEN Queued(answered, link_flow(bound, h)) ELSE answered

\* attach with a null terminus, then detach; no link is kept
refuse_peer_attach(s, f, role) ==
    LET h == IF NextHandle(s) = None THEN 0 ELSE NextHandle(s)
        told == Queued(Queued(s, Attach(s, f.k, h, role)), Detach(h))
    IN  IF NextHandle(s) = None THEN told ELSE release(allocate(told), h)

detach_link(s, h) ==
    IF s.link[h] = None THEN s
    ELSE forget_link(Unbound(Queued(s, Detach(h)), s.link[h].rh), h)

detach_with_error(s, h) ==
    forget_link(Unbound(Emitted(Queued(s, Detach(h)),
                                [e |-> "detached", k |-> s.link[h].k, h |-> h]),
                        s.link[h].rh), h)

on_peer_detach(s, f) ==
    LET h == s.rm[f.h]
    IN  IF h = None THEN s
        ELSE forget_link(
               Unbound(Queued(Emitted(s, [e |-> "detached", k |-> s.link[h].k, h |-> h]),
                              Detach(h)), f.h), h)

-----------------------------------------------------------------------------
(* Sending (Session::send_transfer, flush_sender, send_message_frames)     *)

\* Variant: a message is started when the window covers its first frame.
CoversFirst(s, p) == s.riw > 0

CoversAll(s, p) == s.riw >= Frames(p.ref.m)

can_send(l) == l.lc > 0

Sendable(s, h) ==
    LET l == s.link[h]
    IN  /\ l.box # <<>> /\ l.rh # None /\ can_send(l)
        /\ Head(l.box).settled \/ Cardinality(l.uns) < MaxUnsettled
        /\ CoversAll(s, Head(l.box))

\* the transfer frames of one message: the first one carries its id
message_frames(s, h, p) ==
    [i \in 1..Frames(p.ref.m) |->
        [type |-> "transfer", h |-> h, id |-> IF i = 1 THEN s.out ELSE None,
         m |-> p.ref.m, settled |-> p.settled, more |-> i < Frames(p.ref.m)]]

SendHead(s, h) ==
    LET p == Head(s.link[h].box)
        l == Consumed([s.link[h] EXCEPT !.box = Tail(@)])
        sent == record_outgoing([s EXCEPT !.tx = @ \o message_frames(s, h, p)],
                                Frames(p.ref.m))
    IN  IF p.settled
        THEN Emitted([sent EXCEPT !.link[h] = l], Reply(p.ref, "written"))
        ELSE [sent EXCEPT !.link[h] = [l EXCEPT !.uns = @ \cup {s.out},
                                       !.pend = @ \cup {[id |-> s.out, ref |-> p.ref]}]]

\* with nothing left to send, a drain uses up the credit and reports it
DrainDone(s, h) ==
    LET l == s.link[h]
        used == [s EXCEPT !.link[h].dc = (@ + l.lc) % W, !.link[h].lc = 0]
    IN  IF l.drain /\ l.box = <<>> /\ l.lc > 0
        THEN [Queued(used, link_flow(used, h)) EXCEPT !.link[h].drain = FALSE]
        ELSE s

flush_sender(s, h) ==
    DrainDone(FoldLeft(LAMBDA r, p : IF Sendable(r, h) THEN SendHead(r, h) ELSE r,
                       s, s.link[h].box), h)

send_transfer(s, h, p) ==
    IF HasLink(s, h, "sender")
    THEN flush_sender([s EXCEPT !.link[h].box = Append(@, p)], h)
    ELSE Emitted(s, Reply(p.ref, "detached"))

-----------------------------------------------------------------------------
(* Receiving (Session::on_transfer)                                        *)

Assembled(l, f) ==
    IF l.part = None THEN [id |-> f.id, m |-> f.m, settled |-> f.settled, n |-> 1]
    ELSE [l.part EXCEPT !.n = @ + 1]

Delivered(s, h, d) ==
    LET l == Consumed([s.link[h] EXCEPT !.part = None])
    IN  Emitted([s EXCEPT !.link[h] = IF d.settled THEN l
                                      ELSE [l EXCEPT !.uns = @ \cup {d.id}]],
                [e |-> "delivery", k |-> l.k, h |-> h, id |-> d.id, m |-> d.m,
                 settled |-> d.settled])

NeedsFlow(s, f) == s.iw = 0

on_transfer(s, f) ==
    LET h == s.rm[f.h]
        counted == record_incoming(s)
        l == s.link[h]
        d == Assembled(l, f)
        over == l.role = "receiver" /\ d.n > l.cap
        taken == IF l.role # "receiver" THEN counted
                 ELSE IF over THEN [counted EXCEPT !.link[h].part = None]
                 ELSE IF f.more THEN [counted EXCEPT !.link[h].part = d]
                 ELSE Delivered(counted, h, d)
        reopened == replenish_incoming(taken)
        flowed == IF NeedsFlow(counted, f) THEN Queued(reopened, build_flow(reopened))
                  ELSE taken
    IN  IF h = None THEN s
        ELSE IF over THEN detach_with_error(flowed, h) ELSE flowed

-----------------------------------------------------------------------------
(* Settling (Session::send_disposition, on_disposition, settlement.rs)     *)

InRange(ids, first, last) == {i \in ids : first <= i /\ i <= last}

\* a receiver in mode second proposes the outcome and keeps the delivery
send_disposition(s, h, first, last, state) ==
    LET mine == HasLink(s, h, "receiver")
        settled == ~(mine /\ s.link[h].second)
        told == Queued(s, [type |-> "disposition", first |-> first, last |-> last,
                           state |-> state, settled |-> settled])
    IN  IF mine /\ settled
        THEN [told EXCEPT !.link[h].uns = @ \ InRange(@, first, last)] ELSE told

\* the peer settles what we sent, on whichever of our links it was sent
on_disposition(s, f) ==
    LET Hit(h) == InRange(s.link[h].uns, f.first, f.last)
        Told(h) == {p \in s.link[h].pend : p.id \in Hit(h)}
        replies == UNION {{Reply(p.ref, f.state) : p \in Told(h)} : h \in SenderLinks(s)}
    IN  [s EXCEPT !.ev = @ \o SetToSeq(replies),
                  !.link = [h \in Handles |->
                     IF h \notin SenderLinks(s) THEN @[h]
                     ELSE [@[h] EXCEPT !.pend = @ \ Told(h),
                                       !.uns = IF f.settled THEN @ \ Hit(h) ELSE @]]]

-----------------------------------------------------------------------------
(* Credit (Session::grant_credit, send_flow, on_flow)                      *)

grant_credit(s, h, credit) ==
    IF ~HasLink(s, h, "receiver") THEN s
    ELSE LET r == [s EXCEPT !.link[h].lc = @ + credit, !.link[h].drain = FALSE]
         IN  Queued(r, link_flow(r, h))

\* a flow the application builds itself: no delivery-count, current windows
send_flow(s, h, credit, drain, echo) ==
    LET r == IF HasLink(s, h, "receiver")
             THEN [s EXCEPT !.link[h] = set_credit(@, credit)] ELSE s
    IN  Queued(r, [build_flow(r) EXCEPT !.h = h, !.lc = credit, !.drain = drain,
                                        !.echo = echo])

\* Variant: only the link the flow names is flushed.
OnlyNamed(s, h) == {g \in SenderLinks(s) : g = h /\ s.link[g].box # <<>>}

\* every sender with queued work is flushed: the window is shared
Stalled(s, h) == {g \in SenderLinks(s) : s.link[g].box # <<>>}

EchoFlow(s, h) ==
    IF h = None \/ s.link[h] = None THEN build_flow(s)
    ELSE [link_flow(s, h) EXCEPT !.drain = FALSE]

on_flow(s, f) ==
    LET h == IF f.h = None THEN None ELSE s.rm[f.h]
        opened == on_peer_flow(s, f)
        credited == [opened EXCEPT !.link[h] = apply_flow_as_sender(@, f)]
        named == IF h # None /\ HasLink(s, h, "sender")
                 THEN Emitted(credited, [e |-> "credit", h |-> h,
                                         credit |-> credited.link[h].lc, drain |-> f.drain])
                 ELSE opened
        flushed == FoldLeft(flush_sender, named, SetToSeq(Stalled(named, h)))
    IN  IF f.echo THEN Queued(flushed, EchoFlow(flushed, h)) ELSE flushed
=============================================================================
