----------------------------- MODULE AmqpTypes -----------------------------
(***************************************************************************)
(* The composite types of AMQP 1.0 over the codec (ramqp-core types/ and   *)
(* txn/): performatives, SASL bodies, delivery states, addressing, message *)
(* sections and transaction types.  Composite gives each one's descriptor  *)
(* and its fields in wire order, as amqp_composite! declares them; encode  *)
(* and decode are the code that macro expands to.                          *)
(*                                                                         *)
(*   a composite value is <<name, fields>>; a field that is None is <<>>,  *)
(*   any other is <<x>>                                                    *)
(***************************************************************************)
EXTENDS Codec

\* a field: its kind, its type and, of a default() field, the default
req(ty) == <<"req", ty>>
opt(ty) == <<"opt", ty>>
default(ty, x) == <<"default", ty, x>>
symbols == <<"symbols", "Symbol">>
req_symbols == <<"req_symbols", "Symbol">>

SessionEndPolicy == <<115, 101>>

Transport ==
    [Open |-> <<16, <<req("String"), opt("String"), default("Uint", Huge), default("Ushort", 65535),
                      opt("Uint"), symbols, symbols, symbols, symbols, opt("Fields")>>>>,
     Begin |-> <<17, <<opt("Ushort"), req("Uint"), req("Uint"), req("Uint"), default("Uint", Huge),
                       symbols, symbols, opt("Fields")>>>>,
     Attach |-> <<18, <<req("String"), req("Uint"), req("Role"), default("SenderSettleMode", "Mixed"),
                        default("ReceiverSettleMode", "First"), opt("Source"), opt("TargetArchetype"),
                        opt("Unsettled"), default("Bool", FALSE), opt("Uint"), opt("Ulong"),
                        symbols, symbols, opt("Fields")>>>>,
     Flow |-> <<19, <<opt("Uint"), req("Uint"), req("Uint"), req("Uint"), opt("Uint"), opt("Uint"),
                      opt("Uint"), opt("Uint"), default("Bool", FALSE), default("Bool", FALSE),
                      opt("Fields")>>>>,
     Transfer |-> <<20, <<req("Uint"), opt("Uint"), opt("Binary"), opt("Uint"), opt("Bool"),
                          default("Bool", FALSE), opt("ReceiverSettleMode"), opt("DeliveryState"),
                          default("Bool", FALSE), default("Bool", FALSE), default("Bool", FALSE)>>>>,
     Disposition |-> <<21, <<req("Role"), req("Uint"), opt("Uint"), default("Bool", FALSE),
                             opt("DeliveryState"), default("Bool", FALSE)>>>>,
     Detach |-> <<22, <<req("Uint"), default("Bool", FALSE), opt("Error")>>>>,
     End |-> <<23, <<opt("Error")>>>>,
     Close |-> <<24, <<opt("Error")>>>>]

Definitions ==
    [Error |-> <<29, <<req("ErrorCondition"), opt("String"), opt("Fields")>>>>]

DeliveryStates ==
    [Received |-> <<35, <<req("Uint"), req("Ulong")>>>>,
     Accepted |-> <<36, <<>>>>,
     Rejected |-> <<37, <<opt("Error")>>>>,
     Released |-> <<38, <<>>>>,
     Modified |-> <<39, <<opt("Bool"), opt("Bool"), opt("Fields")>>>>]

Addressing ==
    [Source |-> <<40, <<opt("String"), default("Uint", 0), default("Symbol", SessionEndPolicy),
                        default("Uint", 0), default("Bool", FALSE), opt("Fields"), opt("Symbol"),
                        opt("Fields"), opt("Outcome"), symbols, symbols>>>>,
     Target |-> <<41, <<opt("String"), default("Uint", 0), default("Symbol", SessionEndPolicy),
                        default("Uint", 0), default("Bool", FALSE), opt("Fields"), symbols>>>>,
     Coordinator |-> <<48, <<symbols>>>>]

Transactions ==
    [Declare |-> <<49, <<opt("Binary")>>>>,
     Discharge |-> <<50, <<req("Binary"), default("Bool", FALSE)>>>>,
     Declared |-> <<51, <<req("Binary")>>>>,
     TransactionalState |-> <<52, <<req("Binary"), opt("Outcome")>>>>]

Sasl ==
    [SaslMechanisms |-> <<64, <<req_symbols>>>>,
     SaslInit |-> <<65, <<req("Symbol"), opt("Binary"), opt("String")>>>>,
     SaslChallenge |-> <<66, <<req("Binary")>>>>,
     SaslResponse |-> <<67, <<req("Binary")>>>>,
     SaslOutcome |-> <<68, <<req("SaslCode"), opt("Binary")>>>>]

Sections ==
    [Header |-> <<112, <<default("Bool", FALSE), default("Ubyte", 4), opt("Uint"),
                         default("Bool", FALSE), default("Uint", 0)>>>>,
     Properties |-> <<115, <<opt("MessageId"), opt("Binary"), opt("String"), opt("String"),
                             opt("String"), opt("MessageId"), opt("Symbol"), opt("Symbol"),
                             opt("Timestamp"), opt("Timestamp"), opt("String"), opt("Uint"),
                             opt("String")>>>>]

Composite ==
    Transport @@ Definitions @@ DeliveryStates @@ Addressing @@ Transactions @@ Sasl @@ Sections

\* the enums that choose among composites by descriptor
Union ==
    [Performative |-> DOMAIN Transport,
     SaslFrame |-> DOMAIN Sasl,
     Outcome |-> {"Accepted", "Rejected", "Released", "Modified"},
     DeliveryState |-> DOMAIN DeliveryStates,
     TargetArchetype |-> {"Target", "Coordinator"}]

\* the enums that are a ubyte, in order of their codes
Enum ==
    [SenderSettleMode |-> <<"Unsettled", "Settled", "Mixed">>,
     ReceiverSettleMode |-> <<"First", "Second">>,
     SaslCode |-> <<"Ok", "Auth", "Sys", "SysPerm", "SysTemp">>]

\* the maps: the types of their keys and of their values
MapType ==
    [Fields |-> <<"Symbol", "Value">>,
     Unsettled |-> <<"Binary", "DeliveryState">>,
     ApplicationProperties |-> <<"String", "Value">>]

MessageIdTypes == {"Ulong", "Uuid", "Binary", "String"}

\* The error conditions by domain; the symbol of the i-th one is cut to <<i>>
Conditions ==
    <<"internal-error", "not-found", "unauthorized-access", "decode-error", "resource-limit-exceeded",
      "not-allowed", "invalid-field", "not-implemented", "resource-locked", "precondition-failed",
      "resource-deleted", "illegal-state", "frame-size-too-small",
      "connection:forced", "connection:framing-error", "connection:redirect",
      "session:window-violation", "session:errant-link", "session:handle-in-use",
      "session:unattached-handle",
      "link:detach-forced", "link:transfer-limit-exceeded", "link:message-size-exceeded",
      "link:redirect", "link:stolen",
      "transaction:unknown-id", "transaction:rollback", "transaction:timeout">>

condition_symbol(c) ==
    IF c[1] = "Custom" THEN c[2] ELSE <<CHOOSE i \in DOMAIN Conditions : Conditions[i] = c[2]>>

condition_from(sym) ==
    IF Len(sym) = 1 /\ sym[1] \in DOMAIN Conditions THEN <<"Known", Conditions[sym[1]]>>
    ELSE <<"Custom", sym>>

---------------------------------------------------------------------------
(* Encoding *)

RECURSIVE encode(_, _)

encode_map_entries(ty, entries) ==
    encode_compound(MAP32, 2 * Len(entries),
        FlattenSeq([i \in DOMAIN entries |-> encode(MapType[ty][1], entries[i][1])
                                                 \o encode(MapType[ty][2], entries[i][2])]))

\* FieldWriter
encode_field(kind, ty, f) ==
    CASE kind = "symbols" -> IF f[1] = <<>> THEN <<NULL>> ELSE encode_symbol_array(f[1])
      [] kind = "req_symbols" -> encode_symbol_array(f[1])
      [] kind \in {"req", "opt", "default"} -> IF f = <<>> THEN <<NULL>> ELSE encode(ty, f[1])

\* Variant: a null field is elided wherever it stands
ElidedAny(fields) == SelectSeq(fields, LAMBDA bs : bs # <<NULL>>)

\* the trailing fields that are a single null byte are left out
Elided(fields) ==
    LET count == CHOOSE n \in 0 .. Len(fields) :
                     /\ \A i \in n + 1 .. Len(fields) : fields[i] = <<NULL>>
                     /\ n > 0 => fields[n] # <<NULL>>
    IN Take(fields, count)

encode_described_list(descriptor, fields) ==
    LET kept == Elided(fields) IN
    <<DESCRIBED>> \o encode_descriptor(descriptor) \o encode_compound(LIST32, Len(kept), FlattenSeq(kept))

encode_composite(name, fs) ==
    LET decl == Composite[name][2] IN
    encode_described_list(Composite[name][1],
                          [i \in DOMAIN decl |-> encode_field(decl[i][1], decl[i][2], fs[i])])

encode(ty, x) ==
    CASE ty \in Primitive -> encode_primitive(ty, x)
      [] ty = "Value" -> encode_value(x)
      [] ty = "Role" -> encode_primitive("Bool", x = "Receiver")
      [] ty \in DOMAIN Enum -> encode_primitive("Ubyte", (CHOOSE i \in DOMAIN Enum[ty] : Enum[ty][i] = x) - 1)
      [] ty = "ErrorCondition" -> encode_primitive("Symbol", condition_symbol(x))
      [] ty = "MessageId" -> encode_primitive(x[1], x[2])
      [] ty \in DOMAIN MapType -> encode_map_entries(ty, x)
      [] ty \in DOMAIN Composite -> encode_composite(ty, x[2])
      [] ty = "DeliveryState" /\ x[1] = "Other" -> encode_value(x[2])
      [] ty \in DOMAIN Union -> encode_composite(x[1], x[2])

---------------------------------------------------------------------------
(* Decoding *)

\* peek_descriptor: the numeric descriptor ahead, or Symbolic, or an error
Symbolic == -1

decode_descriptor(buf) ==
    IF Starts(buf, CodesOf("Ulong")) THEN decode_primitive("Ulong", buf)
    ELSE Map1(decode_primitive("Symbol", buf), LAMBDA s : Symbolic)

peek_descriptor(buf) == IF Starts(buf, {DESCRIBED}) THEN decode_descriptor(Tail(buf)) ELSE Err

\* expect_descriptor: what is behind the expected one
expect_descriptor(buf, descriptor) == Checked(peek_descriptor(buf), LAMBDA d : d = descriptor)

RECURSIVE decode(_, _), decode_entries(_, _, _), decode_fields(_, _, _, _), decode_symbols(_, _, _)

decode_entries(ty, count, buf) ==
    IF count = 0 THEN <<<<>>, buf>>
    ELSE Then(decode(MapType[ty][1], buf),
              LAMBDA k, r1 : Then(decode(MapType[ty][2], r1),
                  LAMBDA v, r2 : Map1(decode_entries(ty, count - 2, r2), LAMBDA es : <<<<k, v>>>> \o es)))

decode_ordered_map(ty, buf) ==
    Then(Checked(decode_compound("Map", buf), LAMBDA h : h[1] % 2 = 0),
         LAMBDA h, rest : Then(decode_entries(ty, h[1], h[2]), LAMBDA es, r : <<es, rest>>))

\* decode_symbol_array, behind the array's constructor
decode_symbols(buf, ctor, count) ==
    IF count = 0 THEN <<<<>>, buf>>
    ELSE IF ctor \notin CodesOf("Symbol") THEN Err
    ELSE Then(read_variable("Symbol", ctor, buf),
              LAMBDA s, rest : Map1(decode_symbols(rest, ctor, count - 1), LAMBDA ss : <<s>> \o ss))

decode_symbol_array(count, body) ==
    IF count = 0 THEN <<<<>>, body>>
    ELSE IF body = <<>> THEN Err ELSE decode_symbols(Tail(body), Head(body), count)

\* an array of symbols, or one symbol
decode_multiple(body) ==
    IF Starts(body, ToSet(Compound["Array"]))
    THEN Then(decode_compound("Array", body),
              LAMBDA h, rest : Then(decode_symbol_array(h[1], h[2]), LAMBDA ss, r : <<ss, rest>>))
    ELSE Map1(decode_primitive("Symbol", body), LAMBDA s : <<s>>)

\* what a field is when it is elided or null
Absent(decl) ==
    CASE decl[1] = "opt" -> <<>>
      [] decl[1] = "default" -> <<decl[3]>>
      [] decl[1] = "symbols" -> <<<<>>>>

\* ListDecoder: one field, `remaining` being what is left of the count
decode_field(decl, remaining, body) ==
    IF remaining = 0 \/ Starts(body, {NULL})
    THEN IF decl[1] \in {"req", "req_symbols"} THEN Err
         ELSE <<Absent(decl), IF remaining = 0 THEN body ELSE Tail(body)>>
    ELSE Map1(IF decl[1] \in {"symbols", "req_symbols"} THEN decode_multiple(body) ELSE decode(decl[2], body),
              LAMBDA x : <<x>>)

decode_fields(decls, i, remaining, body) ==
    IF i > Len(decls) THEN <<<<>>, body>>
    ELSE Then(decode_field(decls[i], remaining, body),
              LAMBDA f, rest : Map1(decode_fields(decls, i + 1, IF remaining = 0 THEN 0 ELSE remaining - 1, rest),
                                    LAMBDA fs : <<f>> \o fs))

\* the fields behind the last declared one are ignored
decode_composite(name, buf) ==
    Then(Then(expect_descriptor(buf, Composite[name][1]), LAMBDA d, rest : decode_compound("List", rest)),
         LAMBDA l, rest : Then(decode_fields(Composite[name][2], 1, l[1], l[2]),
                               LAMBDA fs, r : <<<<name, fs>>, rest>>))

decode_member(ty, d, buf) ==
    LET members == {n \in Union[ty] : Composite[n][1] = d} IN
    IF members # {} THEN decode_composite(CHOOSE n \in members : TRUE, buf)
    ELSE IF ty = "DeliveryState" THEN Map1(decode_value(buf, 0), LAMBDA v : <<"Other", v>>)
    ELSE Err

decode_union(ty, buf) == Then(peek_descriptor(buf), LAMBDA d, rest : decode_member(ty, d, buf))

decode_enum(ty, buf) ==
    Map1(Checked(decode_primitive("Ubyte", buf), LAMBDA n : n < Len(Enum[ty])), LAMBDA n : Enum[ty][n + 1])

decode_message_id(buf) ==
    LET ty == IF buf = <<>> THEN "none" ELSE TypeOfCode[Head(buf)] IN
    IF ty \in MessageIdTypes THEN Map1(decode_primitive(ty, buf), LAMBDA x : <<ty, x>>) ELSE Err

decode(ty, buf) ==
    CASE ty \in Primitive -> decode_primitive(ty, buf)
      [] ty = "Value" -> decode_value(buf, 0)
      [] ty = "Role" -> Map1(decode_primitive("Bool", buf), LAMBDA b : IF b THEN "Receiver" ELSE "Sender")
      [] ty \in DOMAIN Enum -> decode_enum(ty, buf)
      [] ty = "ErrorCondition" -> Map1(decode_primitive("Symbol", buf), condition_from)
      [] ty = "MessageId" -> decode_message_id(buf)
      [] ty \in DOMAIN MapType -> decode_ordered_map(ty, buf)
      [] ty \in DOMAIN Composite -> decode_composite(ty, buf)
      [] ty \in DOMAIN Union -> decode_union(ty, buf)

---------------------------------------------------------------------------
(* Messages: <<header, delivery_annotations, message_annotations,          *)
(* properties, application_properties, body, footer>>, each section a      *)
(* field as above, the body <<"Empty">>, <<"Value", v>>, <<"Data", parts>> *)
(* or <<"Sequence", parts>>                                                *)

\* the sections by rank, with their descriptors and content
SectionOf ==
    <<<<112, "Header">>, <<113, "Fields">>, <<114, "Fields">>, <<115, "Properties">>,
      <<116, "ApplicationProperties">>>>
BODY_RANK == 6
DATA == 117
AMQP_SEQUENCE == 118
AMQP_VALUE == 119
FOOTER == 120

section_rank(code) ==
    CASE \E i \in DOMAIN SectionOf : SectionOf[i][1] = code ->
             CHOOSE i \in DOMAIN SectionOf : SectionOf[i][1] = code
      [] code \in {DATA, AMQP_SEQUENCE, AMQP_VALUE} -> BODY_RANK
      [] code = FOOTER -> BODY_RANK + 1
      [] OTHER -> 0

Described(code, bs) == <<DESCRIBED>> \o encode_descriptor(code) \o bs

encode_section(code, ty, f) ==
    IF f = <<>> THEN <<>>
    ELSE IF ty \in DOMAIN Composite THEN encode(ty, f[1])
    ELSE Described(code, encode(ty, f[1]))

encode_body(body) ==
    CASE body[1] = "Empty" -> <<>>
      [] body[1] = "Value" -> Described(AMQP_VALUE, encode_value(body[2]))
      [] body[1] = "Data" ->
             FlattenSeq([i \in DOMAIN body[2] |-> Described(DATA, encode_primitive("Binary", body[2][i]))])
      [] body[1] = "Sequence" ->
             FlattenSeq([i \in DOMAIN body[2] |-> Described(AMQP_SEQUENCE, encode_value(<<"List", body[2][i]>>))])

encode_message(m) ==
    FlattenSeq([i \in DOMAIN SectionOf |-> encode_section(SectionOf[i][1], SectionOf[i][2], m[i])])
        \o encode_body(m[6]) \o encode_section(FOOTER, "Fields", m[7])

EmptyMessage == <<<<>>, <<>>, <<>>, <<>>, <<>>, <<"Empty", <<>>>>, <<>>>>

\* a body section joins the parts read so far, unless it would mix the kinds
joined(body, kind, part) ==
    CASE kind = "Value" -> <<kind, part>>
      [] kind = "Data" -> <<kind, Append(body[2], part)>>
      [] kind = "Sequence" -> <<kind, Append(body[2], part[2])>>

BodyKind == [c \in {DATA, AMQP_SEQUENCE, AMQP_VALUE} |->
                CASE c = DATA -> "Data" [] c = AMQP_SEQUENCE -> "Sequence" [] OTHER -> "Value"]

decode_body(m, kind, buf) ==
    IF m[6][1] \notin {"Empty", kind} \ {"Value"} THEN Err
    ELSE Map1(Checked(IF kind = "Data" THEN decode_primitive("Binary", buf) ELSE decode_value(buf, 0),
                      LAMBDA part : kind = "Sequence" => part[1] = "List"),
              LAMBDA part : [m EXCEPT ![6] = joined(m[6], kind, part)])

\* a described map that is null is an empty one
decode_map_section(m, at, ty, buf) ==
    Map1(IF Starts(buf, {NULL}) THEN <<<<>>, Tail(buf)>> ELSE decode(ty, buf),
         LAMBDA v : [m EXCEPT ![at] = <<v>>])

decode_section(m, rank, code, buf, content) ==
    CASE rank = BODY_RANK -> decode_body(m, BodyKind[code], content)
      [] rank = BODY_RANK + 1 -> decode_map_section(m, 7, "Fields", content)
      [] rank < BODY_RANK /\ SectionOf[rank][2] \in DOMAIN Composite ->
             Map1(decode(SectionOf[rank][2], buf), LAMBDA v : [m EXCEPT ![rank] = <<v>>])
      [] OTHER -> decode_map_section(m, rank, SectionOf[rank][2], content)

InOrder(rank, max_rank) == rank > max_rank \/ (rank = max_rank /\ rank = BODY_RANK)

peek_rank(buf) == Map1(peek_descriptor(buf), LAMBDA code : <<code, section_rank(code)>>)

RECURSIVE decode_sections(_, _, _)

decode_ranked(m, code, rank, max_rank, buf, content) ==
    IF rank = 0 THEN <<m, buf>>
    ELSE IF ~InOrder(rank, max_rank) THEN Err
    ELSE Then(decode_section(m, rank, code, buf, content),
              LAMBDA m2, rest : decode_sections(m2, rank, rest))

\* parsing stops at the first thing that is not a known section
decode_sections(m, max_rank, buf) ==
    IF peek_descriptor(buf) = Err THEN <<m, buf>>
    ELSE Then(peek_rank(buf), LAMBDA cr, content : decode_ranked(m, cr[1], cr[2], max_rank, buf, content))

decode_message(buf) == decode_sections(EmptyMessage, 0, buf)

---------------------------------------------------------------------------
(* Transactions *)

\* control_message: an amqp-value section around a declare or discharge
control_message(content) == Described(AMQP_VALUE, encode(content[1], content))

\* transactional_state and declared_state: the composite as a raw Value
RawState(composite) == <<"Other", decode_value(encode(composite[1], composite), 0)[1]>>

\* txn_state and declared_txn_id: a raw state read back as a composite, or None
read_state(ty, state) ==
    IF state[1] # "Other" THEN <<>>
    ELSE Then(decode(ty, encode_value(state[2])), LAMBDA x, rest : <<x>>)
===========================================================================
