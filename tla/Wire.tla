-------------------------------- MODULE Wire --------------------------------
(***************************************************************************)
(* One direction of a connection at the level of bytes: a FramedTransport  *)
(* that queues and flushes frames (ramqp-core transport/frame.rs), the     *)
(* byte stream below it, the peer's FramedTransport that reads them back   *)
(* in pieces of any size, and the receiving session's assembly of          *)
(* multi-frame deliveries (session/state.rs).                              *)
(*                                                                         *)
(* What is sent is a plan chosen in the initial state: a sequence of items *)
(*   <<"amqp", channel, performative, payload>>  queue_amqp                *)
(*   <<"sasl", frame>>, <<"empty", channel>>     queue_sasl, queue_empty   *)
(*   <<"message", channel, id, message, state, settled>>                   *)
(*                                 send_message_frames, on the link HANDLE *)
(*   <<"foreign", channel, performative>>   a frame of another             *)
(*                                 implementation, in its compact encoding *)
(*   <<"invalid", kind>>           a frame that breaks the framing rules   *)
(* `cuts` lets the stream break, `eager` lets it flush early.  The body    *)
(* threshold of the gathered write is a constant, scaled down.             *)
(***************************************************************************)
EXTENDS AmqpTypes

CONSTANTS Plans, BODY_SEGMENT_THRESHOLD, ReadSizes

ASSUME PlansAssumption ==
    /\ \A p \in Plans : p.max_frame_size >= 512 /\ p.vectored \in BOOLEAN /\ p.cuts \in BOOLEAN
    /\ BODY_SEGMENT_THRESHOLD \in Nat /\ ReadSizes \subseteq Nat \ {0}

VARIABLES
    plan,       \* what is sent, and over what kind of stream
    done,       \* how many items of it are queued
    write_buf,  \* the writer's buffer
    out_bodies, \* <<offset, body>>: bodies held out of it for a gathered write
    sock,       \* bytes written and not yet read
    eof,        \* whether the stream ends behind them
    sent,       \* <<frame, size>> of the frames queued (history)
    messages,   \* <<item, size>> of the messages queued (history)
    arrived,    \* how many bytes have been read from it (history)
    read_buf,   \* the reader's buffer
    got,        \* the frames decoded
    partial,    \* the delivery being assembled, or <<>>
    linked,     \* whether the receiver link still exists
    delivered,  \* the deliveries emitted, their bodies decoded as messages
    reader      \* "open", or how read_frame failed

writer == <<done, write_buf, out_bodies, sent, messages>>
received == <<got, partial, linked, delivered>>
vars == <<plan, writer, sock, eof, arrived, read_buf, received, reader>>

HANDLE == 1
FRAME_HEADER_LEN == 8
FRAME_TYPE_AMQP == 0
FRAME_TYPE_SASL == 1
TRANSFER_PERF_BOUND == 72

---------------------------------------------------------------------------
(* Frames *)

\* size, doff, type, channel and performative; the payload is counted but not
\* included
encode_header(ftype, channel, bs, trailing) ==
    Word(FRAME_HEADER_LEN + Len(bs) + trailing, 4) \o <<2, ftype>> \o Word(channel, 2) \o bs

encode_amqp_header(channel, performative, trailing) ==
    encode_header(FRAME_TYPE_AMQP, channel, encode("Performative", performative), trailing)

encode_amqp_frame(channel, performative, payload) ==
    encode_amqp_header(channel, performative, Len(payload)) \o payload

encode_sasl_frame(frame) == encode_header(FRAME_TYPE_SASL, 0, encode("SaslFrame", frame), 0)

encode_empty_frame(channel) == encode_header(FRAME_TYPE_AMQP, channel, <<>>, 0)

Invalid == <<"invalid">>

decode_amqp_body(bs) ==
    IF bs = <<>> THEN <<"Empty">>
    ELSE LET r == decode("Performative", bs) IN
         IF r = Err THEN Invalid ELSE <<"Amqp", r[1], r[2]>>

decode_sasl_body(bs) ==
    LET r == decode("SaslFrame", bs) IN IF r = Err THEN Invalid ELSE <<"Sasl", r[1]>>

\* whether decode_frame can say more than that it needs more bytes
BadSize(size, max_frame_size) == size < FRAME_HEADER_LEN \/ size > max_frame_size

Whole(src, max_frame_size) ==
    /\ Len(src) >= FRAME_HEADER_LEN
    /\ LET size == Unsigned(Take(src, 4)) IN BadSize(size, max_frame_size) \/ Len(src) >= size

\* then it is <<frame, bytes consumed>> or Invalid; a frame is <<channel, body>>
decode_body_at(ftype, bs) ==
    CASE ftype = FRAME_TYPE_AMQP -> decode_amqp_body(bs)
      [] ftype = FRAME_TYPE_SASL -> decode_sasl_body(bs)
      [] OTHER -> Invalid

Framed(channel, body, size) == IF body = Invalid THEN Invalid ELSE <<<<channel, body>>, size>>

decode_frame(src, max_frame_size) ==
    LET size == Unsigned(Take(src, 4))
        header_len == 4 * src[5]
    IN IF BadSize(size, max_frame_size) \/ header_len < FRAME_HEADER_LEN \/ header_len > size THEN Invalid
       ELSE Framed(Unsigned(SubSeq(src, 7, 8)),
                   decode_body_at(src[6], SubSeq(src, header_len + 1, size)), size)

---------------------------------------------------------------------------
(* The writer *)

\* queue_transfer: a large body is held out of the buffer
queue_transfer(w, channel, performative, body) ==
    IF plan.vectored /\ Len(body) >= BODY_SEGMENT_THRESHOLD
    THEN LET head == w.buf \o encode_amqp_header(channel, performative, Len(body))
         IN [buf |-> head, bodies |-> Append(w.bodies, <<Len(head), body>>)]
    ELSE [w EXCEPT !.buf = @ \o encode_amqp_frame(channel, performative, body)]

transfer(id, tag, settled, more, state) ==
    <<"Transfer", <<<<HANDLE>>, id, tag, IF id = <<>> THEN <<>> ELSE <<0>>, settled, <<more>>, <<>>, state,
                    <<FALSE>>, <<FALSE>>, <<FALSE>>>>>>

max_payload_per_frame(max_frame_size) == max_frame_size - (FRAME_HEADER_LEN + TRANSFER_PERF_BOUND)

\* the payloads of a message's transfers
Chunks(body, max) ==
    LET n == IF body = <<>> THEN 1 ELSE (Len(body) + max - 1) \div max IN
    [i \in 1..n |-> SubSeq(body, (i - 1) * max + 1, IF i = n THEN Len(body) ELSE i * max)]

\* Variant: every transfer says that another follows
MoreAlways(i, n) == n > 1

More(i, n) == i < n

\* the performatives send_message_frames gives them: only the first carries
\* the delivery's metadata
Transfers(item, chunks) ==
    LET n == Len(chunks)
        tag == Word(item[3], 8)
    IN [i \in 1..n |-> IF i = 1 THEN transfer(<<item[3]>>, <<tag>>, <<item[6]>>, More(i, n), item[5])
                       ELSE transfer(<<>>, <<>>, <<>>, More(i, n), <<>>)]

MessageChunks(item) == Chunks(encode_message(item[4]), max_payload_per_frame(plan.max_frame_size))

queue_transfers(w, channel, ts, chunks) ==
    FoldLeft(LAMBDA v, i : queue_transfer(v, channel, ts[i], chunks[i]), w, [i \in DOMAIN chunks |-> i])

send_message_frames(w, item, chunks) == queue_transfers(w, item[2], Transfers(item, chunks), chunks)

\* (external) another implementation: list8 or list0, and null for a field
\* that has its default
ForeignField(decl, f) ==
    IF decl[1] \in {"req", "req_symbols"} \/ f # Absent(decl)
    THEN encode_field(decl[1], decl[2], f) ELSE <<NULL>>

ForeignList(count, bs) ==
    IF count = 0 THEN <<LIST_0>>
    ELSE IF Len(bs) > 254 THEN encode_compound(LIST32, count, bs)
    ELSE <<Compound["List"][1], Len(bs) + 1, count>> \o bs

ForeignKept(kept) == ForeignList(Len(kept), FlattenSeq(kept))

ForeignFrame(channel, perf, decl) ==
    encode_header(FRAME_TYPE_AMQP, channel,
                  Described(Composite[perf[1]][1],
                            ForeignKept(Elided([i \in DOMAIN decl |-> ForeignField(decl[i], perf[2][i])]))), 0)

\* (external) frames decode_frame must refuse: a size below the header's or
\* above the limit, a wrong data offset, an unknown type, a body without its
\* mandatory fields
InvalidFrame(kind) ==
    CASE kind = "small" -> Word(FRAME_HEADER_LEN - 1, 4) \o <<2, FRAME_TYPE_AMQP, 0, 0>>
      [] kind = "large" -> Word(plan.max_frame_size + 1, 4) \o <<2, FRAME_TYPE_AMQP, 0, 0>>
      [] kind = "doff_small" -> Word(FRAME_HEADER_LEN, 4) \o <<1, FRAME_TYPE_AMQP, 0, 0>>
      [] kind = "doff_large" -> Word(FRAME_HEADER_LEN, 4) \o <<3, FRAME_TYPE_AMQP, 0, 0>>
      [] kind = "type" -> Word(FRAME_HEADER_LEN, 4) \o <<2, 2, 0, 0>>
      [] kind = "missing" ->
             encode_header(FRAME_TYPE_AMQP, 0, Described(Composite["Begin"][1], <<LIST_0>>), 0)
      [] kind = "sasl" ->
             encode_header(FRAME_TYPE_SASL, 0, Described(Composite["Begin"][1], <<LIST_0>>), 0)

Queued(w, item) ==
    CASE item[1] = "amqp" -> [w EXCEPT !.buf = @ \o encode_amqp_frame(item[2], item[3], item[4])]
      [] item[1] = "sasl" -> [w EXCEPT !.buf = @ \o encode_sasl_frame(item[2])]
      [] item[1] = "empty" -> [w EXCEPT !.buf = @ \o encode_empty_frame(item[2])]
      [] item[1] = "foreign" -> [w EXCEPT !.buf = @ \o ForeignFrame(item[2], item[3], Composite[item[3][1]][2])]
      [] item[1] = "invalid" -> [w EXCEPT !.buf = @ \o InvalidFrame(item[2])]
      [] item[1] = "message" -> send_message_frames(w, item, MessageChunks(item))

\* (history) the frames an item stands for, as values with their sizes; nothing
\* is recorded behind an invalid frame, which ends the reading
MessageFrames(channel, ts, chunks) ==
    [i \in DOMAIN chunks |-> <<<<channel, <<"Amqp", ts[i], chunks[i]>>>>,
                               Len(encode_amqp_header(channel, ts[i], 0)) + Len(chunks[i])>>]

FramesOf(item, chunks, bytes) ==
    CASE item[1] = "amqp" -> <<<<<<item[2], <<"Amqp", item[3], item[4]>>>>, bytes>>>>
      [] item[1] = "sasl" -> <<<<<<0, <<"Sasl", item[2]>>>>, bytes>>>>
      [] item[1] = "empty" -> <<<<<<item[2], <<"Empty">>>>, bytes>>>>
      [] item[1] = "foreign" -> <<<<<<item[2], <<"Amqp", item[3], <<>>>>>>, bytes>>>>
      [] item[1] = "invalid" -> <<>>
      [] item[1] = "message" -> MessageFrames(item[2], Transfers(item, chunks), chunks)

Refused == \E i \in 1..done : plan.items[i][1] = "invalid"

Enqueue(item, w) ==
    /\ write_buf' = w.buf /\ out_bodies' = w.bodies
    /\ sent' = IF Refused THEN sent
               ELSE sent \o FramesOf(item, MessageChunks(item), Len(w.buf) - Len(write_buf))
    /\ messages' = IF item[1] # "message" THEN messages
                   ELSE Append(messages, <<item, Len(encode_message(item[4]))>>)

\* queue_amqp, queue_transfer, queue_sasl, queue_empty
Queue ==
    /\ ~eof /\ done < Len(plan.items)
    /\ Enqueue(plan.items[done + 1], Queued([buf |-> write_buf, bodies |-> out_bodies], plan.items[done + 1]))
    /\ done' = done + 1
    /\ UNCHANGED <<plan, sock, eof, arrived, read_buf, received, reader>>

\* flush_gathered: each body goes where its frame's header ends
Gathered(buf, bodies) ==
    LET from(i) == IF i = 1 THEN 0 ELSE bodies[i - 1][1]
        n == Len(bodies)
    IN FlattenSeq([i \in DOMAIN bodies |-> SubSeq(buf, from(i) + 1, bodies[i][1]) \o bodies[i][2]])
           \o Drop(buf, IF n = 0 THEN 0 ELSE bodies[n][1])

Cleared(bodies) == <<>>

flush ==
    /\ ~eof /\ write_buf # <<>>
    /\ plan.eager \/ done = Len(plan.items)
    /\ sock' = sock \o Gathered(write_buf, out_bodies)
    /\ write_buf' = <<>>
    /\ out_bodies' = Cleared(out_bodies)
    /\ UNCHANGED <<plan, done, sent, messages, eof, arrived, read_buf, received, reader>>

\* (external) the writer closes the stream behind its last byte
Shut ==
    /\ ~eof /\ done = Len(plan.items) /\ write_buf = <<>>
    /\ eof' = TRUE
    /\ UNCHANGED <<plan, writer, sock, arrived, read_buf, received, reader>>

\* (external) the stream breaks, at any byte not yet read
Cut ==
    /\ plan.cuts /\ ~eof
    /\ eof' = TRUE
    /\ \E k \in 0 .. Len(sock) : sock' = Take(sock, k)
    /\ UNCHANGED <<plan, writer, arrived, read_buf, received, reader>>

---------------------------------------------------------------------------
(* The reader *)

\* `PartialDelivery` and the delivery it becomes:
\* <<id, tag, settled, state, body>>
Started(t, payload) ==
    <<IF t[2] = <<>> THEN 0 ELSE t[2][1], IF t[3] = <<>> THEN <<>> ELSE t[3][1],
      IF t[5] = <<>> THEN FALSE ELSE t[5][1], t[8], payload>>

Assembled(t, payload) ==
    IF partial = <<>> THEN Started(t, payload) ELSE [partial EXCEPT ![5] = @ \o payload]

Fits(d) == Len(d[5]) <= plan.max_message_size

\* on_transfer, for the frames of the one attached link: a delivery beyond the
\* size cap detaches the link
Emitted(d) == [d EXCEPT ![5] = decode_message(@)]

Assemble(d, more) ==
    /\ linked' = Fits(d)
    /\ partial' = IF Fits(d) /\ more THEN d ELSE <<>>
    /\ delivered' = IF Fits(d) /\ ~more THEN Append(delivered, Emitted(d)) ELSE delivered

on_transfer(t, payload) == Assemble(Assembled(t, payload), t[6][1])

IsTransfer(frame) ==
    /\ frame[2][1] = "Amqp"
    /\ frame[2][2][1] = "Transfer"
    /\ frame[2][2][2][1] = <<HANDLE>>

\* read_frame decodes before it reads
Ready == Whole(read_buf, plan.max_frame_size)

Decoded(frame, consumed) ==
    /\ got' = Append(got, frame)
    /\ IF IsTransfer(frame) /\ linked THEN on_transfer(frame[2][2][2], frame[2][3])
       ELSE UNCHANGED <<partial, linked, delivered>>
    /\ read_buf' = Drop(read_buf, consumed)
    /\ UNCHANGED reader

Refuses == reader' = "protocol" /\ UNCHANGED <<read_buf, received>>

Answer(r) == IF r = Invalid THEN Refuses ELSE Decoded(r[1], r[2])

ReadFrame ==
    /\ reader = "open" /\ Ready
    /\ Answer(decode_frame(read_buf, plan.max_frame_size))
    /\ UNCHANGED <<plan, writer, sock, eof, arrived>>

\* a read returns any number of the bytes there are
ReadBytes ==
    /\ reader = "open" /\ ~Ready /\ sock # <<>>
    /\ \E n \in {k \in ReadSizes : k <= Len(sock)} \cup {Len(sock)} :
           /\ read_buf' = read_buf \o Take(sock, n)
           /\ sock' = Drop(sock, n)
           /\ arrived' = arrived + n
    /\ UNCHANGED <<plan, writer, eof, received, reader>>

EndOfStream(buf) == IF buf = <<>> THEN "closed" ELSE "midframe"

ReadEof ==
    /\ reader = "open" /\ ~Ready /\ sock = <<>> /\ eof
    /\ reader' = EndOfStream(read_buf)
    /\ UNCHANGED <<plan, writer, sock, eof, arrived, read_buf, received>>

---------------------------------------------------------------------------
Init ==
    /\ plan \in Plans
    /\ done = 0 /\ write_buf = <<>> /\ out_bodies = <<>>
    /\ sock = <<>> /\ eof = FALSE /\ arrived = 0 /\ sent = <<>> /\ messages = <<>>
    /\ read_buf = <<>> /\ got = <<>> /\ partial = <<>> /\ linked = TRUE /\ delivered = <<>>
    /\ reader = "open"

Next ==
    \/ Queue \/ flush \/ Shut \/ Cut
    \/ ReadFrame \/ ReadBytes \/ ReadEof

Spec == Init /\ [][Next]_vars

---------------------------------------------------------------------------
(* Properties *)

QueuedFrames == [i \in DOMAIN sent |-> sent[i][1]]

Drained ==
    /\ write_buf = <<>> /\ ~plan.cuts
    /\ reader = "protocol" \/ (sock = <<>> /\ ~Ready)

\* The buffers hold bytes, and a held body belongs to a place in the write
\* buffer, in wire order: a flush leaves none behind (out_bodies).
TypeOK ==
    /\ plan \in Plans /\ done \in 0 .. Len(plan.items)
    /\ \A buf \in {write_buf, sock, read_buf} : \A i \in DOMAIN buf : buf[i] \in 0..255
    /\ \A i \in DOMAIN out_bodies :
           /\ out_bodies[i][1] \in 1 .. Len(write_buf)
           /\ i > 1 => out_bodies[i - 1][1] < out_bodies[i][1]
    /\ eof \in BOOLEAN /\ linked \in BOOLEAN /\ arrived \in Nat
    /\ reader \in {"open", "closed", "midframe", "protocol"}

\* However the stream is cut into reads, and wherever it breaks, the frames
\* read are the frames queued, in order and equal in every field, and once the
\* stream is drained all of them: elided, null and defaulted fields, compact
\* and wide encodings and gathered bodies all come back as they were.  Reading
\* fails only at a frame that breaks the framing rules, behind all before it.
FramesExact ==
    /\ IsPrefix(got, QueuedFrames)
    /\ Drained => got = QueuedFrames
    /\ reader = "protocol" => Refused /\ got = QueuedFrames

\* Every delivery emitted is the next message sent, whole, with the id, tag,
\* settled flag and state its first frame carried, and decodes to that message;
\* a message beyond the link's size cap ends the link and nothing of it, nor of
\* what follows, is delivered.
MessagesExact ==
    LET oversize == {i \in DOMAIN messages : messages[i][2] > plan.max_message_size}
        expected == Take(messages, IF oversize = {} THEN Len(messages) ELSE Min(oversize) - 1)
        as_delivered(item) == <<item[3], Word(item[3], 8), item[6], item[5], <<item[4], <<>>>>>>
    IN /\ IsPrefix(delivered, [i \in DOMAIN expected |-> as_delivered(expected[i][1])])
       /\ Drained => Len(delivered) = Len(expected)

\* The end of the stream is reported as the peer's close only when it falls
\* between two frames; a frame cut short is an error (read_frame).
LossReported ==
    reader = "closed" => arrived = FoldLeft(LAMBDA n, f : n + f[2], 0, Take(sent, Len(got)))

\* No frame of a message is larger than the negotiated max-frame-size: the
\* bound the split uses for a transfer performative (TRANSFER_PERF_BOUND) holds
\* for a plain and for a transactional delivery.
FramesFit == \A i \in DOMAIN sent : sent[i][2] <= plan.max_frame_size

\* The stream is exact: what is read is what was queued, a loss is reported as
\* one, and no frame is larger than negotiated.  (And the state is well typed.)
StreamExact == TypeOK /\ FramesExact /\ LossReported /\ FramesFit
===========================================================================
