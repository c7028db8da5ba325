------------------------------- MODULE Codec -------------------------------
(***************************************************************************)
(* The AMQP 1.0 type system and wire codec (ramqp-core codec/, types/ and  *)
(* txn/): primitive values, the dynamic Value, described lists with their  *)
(* elided trailing nulls, and the message sections, as byte sequences.     *)
(*                                                                         *)
(*   a Value is <<variant, content>>; a composite is <<type, fields>>, and *)
(*   a field is <<>> when it is None and <<x>> when it is x                *)
(*   Decode... returns <<>> for an error and <<x, rest>> for a value and   *)
(*   the bytes behind it                                                   *)
(*                                                                         *)
(* Text is a sequence of bytes, the well-known condition names being cut   *)
(* to one byte each; an integer is smaller than 2^15 in magnitude, or Huge *)
(* for u32::MAX.                                                           *)
(***************************************************************************)
EXTENDS Integers, Sequences, FiniteSets, SequencesExt

Huge == 2^24

Err == <<>>

---------------------------------------------------------------------------
(* Bytes *)

\* put_uN / put_iN: big-endian, two's complement
Word(x, n) ==
    [i \in 1..n |-> IF x = Huge THEN 255
                    ELSE IF i = n THEN x % 256
                    ELSE IF i = n - 1 THEN (x \div 256) % 256
                    ELSE IF x < 0 THEN 255 ELSE 0]

Unsigned(bs) ==
    LET n == Len(bs) IN
    IF \E i \in 1 .. n - 3 : bs[i] # 0 THEN Huge
    ELSE (IF n >= 3 THEN bs[n - 2] * 65536 ELSE 0) + (IF n >= 2 THEN bs[n - 1] * 256 ELSE 0) + bs[n]

Signed(bs) ==
    IF bs[1] < 128 THEN Unsigned(bs)
    ELSE (IF Len(bs) >= 2 THEN bs[Len(bs) - 1] - 255 ELSE 0) * 256 + bs[Len(bs)] - 256

Take(bs, n) == SubSeq(bs, 1, n)
Drop(bs, n) == SubSeq(bs, n + 1, Len(bs))

\* read_uN and read_bytes
read_unsigned(buf, n) == IF Len(buf) < n THEN Err ELSE <<Unsigned(Take(buf, n)), Drop(buf, n)>>
read_signed(buf, n) == IF Len(buf) < n THEN Err ELSE <<Signed(Take(buf, n)), Drop(buf, n)>>
read_bytes(buf, n) == IF Len(buf) < n THEN Err ELSE <<Take(buf, n), Drop(buf, n)>>

\* what a successful read is turned into, is followed by, or must satisfy
Map1(r, Op(_)) == IF r = Err THEN Err ELSE <<Op(r[1]), r[2]>>
Then(r, Op(_, _)) == IF r = Err THEN Err ELSE Op(r[1], r[2])
Checked(r, Op(_)) == IF r = Err THEN Err ELSE IF Op(r[1]) THEN r ELSE Err

---------------------------------------------------------------------------
(* Format codes *)

DESCRIBED == 0
NULL == 64
BOOL_TRUE == 65
BOOL_FALSE == 66
UINT_0 == 67
ULONG_0 == 68
LIST_0 == 69
BOOL == 86
SMALL_ULONG == 83
ULONG == 128
LIST32 == 208
MAP32 == 209
ARRAY32 == 240
SYM32 == 179

\* per fixed-width type: its full code and width, and the code of its one-byte
\* form (0 where there is none)
Fixed ==
    [Ubyte |-> <<80, 1, 0>>, Ushort |-> <<96, 2, 0>>, Uint |-> <<112, 4, 82>>, Ulong |-> <<ULONG, 8, SMALL_ULONG>>,
     Byte |-> <<81, 1, 0>>, Short |-> <<97, 2, 0>>, Int |-> <<113, 4, 84>>, Long |-> <<129, 8, 85>>,
     Timestamp |-> <<131, 8, 0>>, Char |-> <<115, 4, 0>>]

SignedTypes == {"Byte", "Short", "Int", "Long", "Timestamp"}

\* per type that is a run of bytes of a fixed length: its code and length
Opaque ==
    [Float |-> <<114, 4>>, Double |-> <<130, 8>>, Decimal32 |-> <<116, 4>>, Decimal64 |-> <<132, 8>>,
     Decimal128 |-> <<148, 16>>, Uuid |-> <<152, 16>>]

\* per variable-width type: its codes with a one- and a four-byte length
Variable ==
    [Binary |-> <<160, 176>>, String |-> <<161, 177>>, Symbol |-> <<163, 179>>]

\* per compound type: the same
Compound ==
    [List |-> <<192, LIST32>>, Map |-> <<193, MAP32>>, Array |-> <<224, ARRAY32>>]

ZeroWidth == {NULL, BOOL_TRUE, BOOL_FALSE, UINT_0, ULONG_0, LIST_0}

\* The bytes that are UTF-8 (only the one-byte code points are modelled)
utf8(bs) == \A i \in DOMAIN bs : bs[i] < 128

\* char::from_u32: a code point that is not a surrogate
IsChar(x) == ~(x \in 55296 .. 57343) /\ x < Huge

---------------------------------------------------------------------------
(* Encoding primitives *)

encode_var(codes, bs) ==
    IF Len(bs) <= 255 THEN <<codes[1], Len(bs)>> \o bs ELSE <<codes[2]>> \o Word(Len(bs), 4) \o bs

\* the compact forms: zero, one byte, or the full width
encode_fixed(ty, x) ==
    LET f == Fixed[ty] IN
    IF ty = "Uint" /\ x = 0 THEN <<UINT_0>>
    ELSE IF ty = "Ulong" /\ x = 0 THEN <<ULONG_0>>
    ELSE IF f[3] # 0 /\ (IF ty \in SignedTypes THEN x \in -128 .. 127 ELSE x <= 255)
    THEN <<f[3]>> \o Word(x, 1)
    ELSE <<f[1]>> \o Word(x, f[2])

encode_primitive(ty, x) ==
    CASE ty = "Null" -> <<NULL>>
      [] ty = "Bool" -> <<IF x THEN BOOL_TRUE ELSE BOOL_FALSE>>
      [] ty \in DOMAIN Fixed -> encode_fixed(ty, x)
      [] ty \in DOMAIN Opaque -> <<Opaque[ty][1]>> \o x
      [] ty \in DOMAIN Variable -> encode_var(Variable[ty], x)

\* open_compound and close_compound: the size counts the four count bytes
encode_compound(code, count, body) ==
    <<code>> \o Word(Len(body) + 4, 4) \o Word(count, 4) \o body

encode_descriptor(code) ==
    IF code <= 255 THEN <<SMALL_ULONG, code>> ELSE <<ULONG>> \o Word(code, 8)

encode_symbol_array(syms) ==
    encode_compound(ARRAY32, Len(syms),
                    <<SYM32>> \o FlattenSeq([i \in DOMAIN syms |-> Word(Len(syms[i]), 4) \o syms[i]]))

---------------------------------------------------------------------------
(* Encoding a Value *)

\* an array element behind the shared constructor, in its widest form
encode_element(v) ==
    LET ty == v[1] IN
    CASE ty = "Null" -> <<>>
      [] ty = "Bool" -> <<IF v[2] THEN 1 ELSE 0>>
      [] ty \in DOMAIN Fixed -> Word(v[2], Fixed[ty][2])
      [] ty \in DOMAIN Opaque -> v[2]
      [] ty \in DOMAIN Variable -> Word(Len(v[2]), 4) \o v[2]

element_code(ty) ==
    CASE ty = "Null" -> NULL
      [] ty = "Bool" -> BOOL
      [] ty \in DOMAIN Fixed -> Fixed[ty][1]
      [] ty \in DOMAIN Opaque -> Opaque[ty][1]
      [] ty \in DOMAIN Variable -> Variable[ty][2]

RECURSIVE encode_value(_)

encode_all(vs) == FlattenSeq([i \in DOMAIN vs |-> encode_value(vs[i])])

\* the first element's constructor is shared: compound elements are always
\* list32, map32 or array32
encode_compound_array(items) ==
    encode_compound(ARRAY32, Len(items),
        <<encode_value(items[1])[1]>>
            \o FlattenSeq([i \in DOMAIN items |-> Tail(encode_value(items[i]))]))

\* ... and so are the first element's descriptor and value constructor, which
\* may be one of the compact forms
encode_described_array(items) ==
    encode_compound(ARRAY32, Len(items),
        <<DESCRIBED>> \o encode_value(items[1][2][1]) \o <<encode_value(items[1][2][2])[1]>>
            \o FlattenSeq([i \in DOMAIN items |-> Tail(encode_value(items[i][2][2]))]))

encode_value_array(items) ==
    IF items = <<>> THEN encode_compound(ARRAY32, 0, <<NULL>>)
    ELSE LET ty == items[1][1] IN
         CASE ty \in DOMAIN Compound -> encode_compound_array(items)
           [] ty = "Described" -> encode_described_array(items)
           [] OTHER -> encode_compound(ARRAY32, Len(items),
                           <<element_code(ty)>>
                               \o FlattenSeq([i \in DOMAIN items |-> encode_element(items[i])]))

encode_value(v) ==
    CASE v[1] = "List" -> encode_compound(LIST32, Len(v[2]), encode_all(v[2]))
      [] v[1] = "Map" -> encode_compound(MAP32, 2 * Len(v[2]), encode_all(FlattenSeq(v[2])))
      [] v[1] = "Array" -> encode_value_array(v[2])
      [] v[1] = "Described" -> <<DESCRIBED>> \o encode_value(v[2][1]) \o encode_value(v[2][2])
      [] OTHER -> encode_primitive(v[1], v[2])

---------------------------------------------------------------------------
(* Decoding primitives *)

Primitive == {"Null", "Bool"} \cup DOMAIN Fixed \cup DOMAIN Opaque \cup DOMAIN Variable

CodesOf(ty) ==
    CASE ty = "Null" -> {NULL}
      [] ty = "Bool" -> {BOOL_TRUE, BOOL_FALSE, BOOL}
      [] ty \in DOMAIN Fixed ->
             ({Fixed[ty][1], Fixed[ty][3]} \ {0})
                 \cup (CASE ty = "Uint" -> {UINT_0} [] ty = "Ulong" -> {ULONG_0} [] OTHER -> {})
      [] ty \in DOMAIN Opaque -> {Opaque[ty][1]}
      [] ty \in DOMAIN Variable -> ToSet(Variable[ty])

TypeOfCode ==
    [c \in 0..255 |-> IF \E ty \in Primitive : c \in CodesOf(ty)
                      THEN CHOOSE ty \in Primitive : c \in CodesOf(ty) ELSE "none"]

CompoundOfCode ==
    [c \in 0..255 |-> IF \E ty \in DOMAIN Compound : c \in ToSet(Compound[ty])
                      THEN CHOOSE ty \in DOMAIN Compound : c \in ToSet(Compound[ty]) ELSE "none"]

\* the content of a primitive whose constructor has been read
read_fixed(ty, code, buf) ==
    LET width == IF code = Fixed[ty][1] THEN Fixed[ty][2] ELSE 1 IN
    IF code \in {UINT_0, ULONG_0} THEN <<0, buf>>
    ELSE IF ty \in SignedTypes THEN read_signed(buf, width)
    ELSE Checked(read_unsigned(buf, width), LAMBDA x : ty = "Char" => IsChar(x))

read_variable(ty, code, buf) ==
    Checked(Then(read_unsigned(buf, IF code = Variable[ty][1] THEN 1 ELSE 4),
                 LAMBDA n, rest : read_bytes(rest, n)),
            LAMBDA bs : ty # "Binary" => utf8(bs))

read_bool(code, buf) ==
    CASE code = BOOL_TRUE -> <<TRUE, buf>>
      [] code = BOOL_FALSE -> <<FALSE, buf>>
      [] code = BOOL -> Map1(Checked(read_unsigned(buf, 1), LAMBDA x : x <= 1), LAMBDA x : x = 1)

read_primitive(ty, code, buf) ==
    CASE ty = "Null" -> <<<<>>, buf>>
      [] ty = "Bool" -> read_bool(code, buf)
      [] ty \in DOMAIN Fixed -> read_fixed(ty, code, buf)
      [] ty \in DOMAIN Opaque -> read_bytes(buf, Opaque[ty][2])
      [] ty \in DOMAIN Variable -> read_variable(ty, code, buf)

Starts(buf, codes) == Len(buf) > 0 /\ Head(buf) \in codes

decode_primitive(ty, buf) ==
    IF Starts(buf, CodesOf(ty)) THEN read_primitive(ty, Head(buf), Tail(buf)) ELSE Err

\* read_list_header and its kin: <<count, body>> and what follows
read_compound(ty, code, buf) ==
    LET width == IF code = Compound[ty][1] THEN 1 ELSE 4 IN
    Then(Then(read_unsigned(buf, width), LAMBDA size, rest : read_bytes(rest, size)),
         LAMBDA bs, rest : Then(read_unsigned(bs, width), LAMBDA count, body : <<<<count, body>>, rest>>))

decode_compound(ty, buf) ==
    IF ty = "List" /\ Starts(buf, {LIST_0}) THEN <<<<0, <<>>>>, Tail(buf)>>
    ELSE IF Starts(buf, ToSet(Compound[ty])) THEN read_compound(ty, Head(buf), Tail(buf))
    ELSE Err

---------------------------------------------------------------------------
(* Decoding a Value *)

MAX_DEPTH == 64
MAX_ZERO_WIDTH_ARRAY == 1024

\* an array's count is bounded by the bytes there are, or by a constant when
\* its elements take none
check_array_count(count, ctor, remaining) ==
    count <= IF ctor \in ZeroWidth THEN MAX_ZERO_WIDTH_ARRAY ELSE remaining

RECURSIVE decode_value_body(_, _, _), decode_n(_, _, _), decode_elements(_, _, _, _)

decode_value(buf, depth) ==
    IF buf = <<>> THEN Err ELSE decode_value_body(Tail(buf), Head(buf), depth)

decode_n(buf, count, depth) ==
    IF count = 0 THEN <<<<>>, buf>>
    ELSE Then(decode_value(buf, depth),
              LAMBDA v, rest : Map1(decode_n(rest, count - 1, depth), LAMBDA vs : <<v>> \o vs))

decode_elements(buf, ctor, count, depth) ==
    IF count = 0 THEN <<<<>>, buf>>
    ELSE Then(decode_value_body(buf, ctor, depth),
              LAMBDA v, rest : Map1(decode_elements(rest, ctor, count - 1, depth), LAMBDA vs : <<v>> \o vs))

decode_pairs(vs) == [i \in 1 .. Len(vs) \div 2 |-> <<vs[2 * i - 1], vs[2 * i]>>]

decode_map(body, count, depth) ==
    IF count % 2 # 0 THEN Err ELSE Map1(decode_n(body, count, depth), decode_pairs)

\* the elements behind their shared constructor
decode_homogeneous(body, count, depth) ==
    IF body # <<>> /\ check_array_count(count, Head(body), Len(body) - 1)
    THEN decode_elements(Tail(body), Head(body), count, depth) ELSE Err

\* a described array shares one descriptor too
decode_array(body, count, depth) ==
    IF ~Starts(body, {DESCRIBED}) THEN decode_homogeneous(body, count, depth)
    ELSE Then(decode_value(Tail(body), depth),
              LAMBDA d, rest : Map1(decode_homogeneous(rest, count, depth),
                                    LAMBDA vs : [i \in DOMAIN vs |-> <<"Described", <<d, vs[i]>>>>]))

decode_items(ty, body, count, depth) ==
    CASE ty = "List" -> decode_n(body, count, depth)
      [] ty = "Map" -> decode_map(body, count, depth)
      [] ty = "Array" -> decode_array(body, count, depth)

decode_value_compound(ty, code, buf, depth) ==
    Then(read_compound(ty, code, buf),
         LAMBDA h, rest : Then(decode_items(ty, h[2], h[1], depth + 1), LAMBDA vs, r : <<<<ty, vs>>, rest>>))

decode_value_described(buf, depth) ==
    Then(decode_value(buf, depth + 1),
         LAMBDA d, rest : Map1(decode_value(rest, depth + 1), LAMBDA v : <<"Described", <<d, v>>>>))

decode_value_body(buf, code, depth) ==
    IF depth > MAX_DEPTH THEN Err
    ELSE IF TypeOfCode[code] # "none"
    THEN Map1(read_primitive(TypeOfCode[code], code, buf), LAMBDA x : <<TypeOfCode[code], x>>)
    ELSE CASE code = LIST_0 -> <<<<"List", <<>>>>, buf>>
           [] code = DESCRIBED -> decode_value_described(buf, depth)
           [] CompoundOfCode[code] # "none" -> decode_value_compound(CompoundOfCode[code], code, buf, depth)
           [] OTHER -> Err
===========================================================================
