------------------------------- MODULE MCWire -------------------------------
(***************************************************************************)
(* Model of Wire: plans that between them send every composite type with   *)
(* its optional fields all absent, each one alone and all present, every   *)
(* kind of Value, messages of one and of several frames, and streams that  *)
(* break at any byte.                                                      *)
(***************************************************************************)
EXTENDS Wire

Text(n) == [i \in 1..n |-> 65 + (i % 26)]

RECURSIVE Nested(_)
Nested(n) == IF n = 0 THEN <<"List", <<>>>> ELSE <<"List", <<Nested(n - 1)>>>>

\* one of each variant of Value, at the edges of its encodings
Scalars ==
    <<<<"Null", <<>>>>, <<"Bool", TRUE>>, <<"Bool", FALSE>>, <<"Ubyte", 255>>, <<"Ushort", 300>>,
      <<"Uint", 0>>, <<"Uint", 255>>, <<"Uint", 256>>, <<"Uint", Huge>>, <<"Ulong", 0>>,
      <<"Ulong", 255>>, <<"Ulong", 256>>, <<"Byte", -128>>, <<"Short", -300>>, <<"Int", -128>>,
      <<"Int", -129>>, <<"Int", 127>>, <<"Int", 128>>, <<"Long", -128>>, <<"Long", -129>>,
      <<"Long", 128>>, <<"Timestamp", -2>>, <<"Char", 65>>, <<"Float", Text(4)>>, <<"Double", Text(8)>>,
      <<"Decimal32", Text(4)>>, <<"Decimal64", Text(8)>>, <<"Decimal128", Text(16)>>,
      <<"Uuid", Text(16)>>, <<"Binary", <<0, 255>>>>, <<"String", <<>>>>, <<"Symbol", Text(3)>>>>

Compounds ==
    <<<<"List", <<>>>>, <<"List", <<Scalars[1], Scalars[6], <<"List", <<Scalars[2]>>>>>>>>,
      <<"Map", <<<<Scalars[32], Scalars[1]>>, <<Scalars[5], <<"Map", <<>>>>>>>>>>,
      <<"Array", <<>>>>, <<"Array", <<Scalars[2], Scalars[3]>>>>, <<"Array", <<Scalars[6], Scalars[8]>>>>,
      <<"Array", <<Scalars[16], Scalars[17]>>>>, <<"Array", <<Scalars[31], <<"String", Text(2)>>>>>>,
      <<"Array", <<Scalars[1], Scalars[1]>>>>, <<"Array", <<Scalars[29]>>>>,
      <<"Array", <<<<"List", <<>>>>, <<"List", <<Scalars[6]>>>>>>>>,
      <<"Array", <<<<"Array", <<Scalars[8]>>>>, <<"Array", <<>>>>>>>>,
      <<"Described", <<Scalars[32], Scalars[9]>>>>,
      <<"Described", <<Scalars[12], <<"Described", <<Scalars[11], Scalars[1]>>>>>>>>>>

Long == <<<<"Binary", Text(256)>>, <<"String", Text(255)>>, Nested(4)>>

At(s, k) == s[1 + (k % Len(s))]

\* the k-th sample of a type; with_opts says which optional fields it has
RECURSIVE Sample(_, _), Filled(_, _, _)

FieldSample(decl, present, k) ==
    IF ~present /\ decl[1] \in {"opt", "symbols", "default"} THEN Absent(decl)
    ELSE IF decl[1] \in {"symbols", "req_symbols"} THEN <<At(<<<<Text(2)>>, <<Text(1), Text(3)>>>>, k)>>
    ELSE <<Sample(decl[2], k)>>

Filled(name, S, k) ==
    LET decl == Composite[name][2] IN
    <<name, [i \in DOMAIN decl |-> FieldSample(decl[i], i \in S, k + i)]>>

All(name) == DOMAIN Composite[name][2]

Fills(name, k) == At(<<Filled(name, All(name), k), Filled(name, {}, k)>>, k)

UnionOrder ==
    [Outcome |-> <<"Accepted", "Rejected", "Released", "Modified">>,
     DeliveryState |-> <<"Received", "Accepted", "Rejected", "Released", "Modified">>,
     TargetArchetype |-> <<"Target", "Coordinator">>]

Sample(ty, k) ==
    CASE ty = "Bool" -> TRUE
      [] ty = "Ubyte" -> At(<<9, 0>>, k)
      [] ty = "Ushort" -> At(<<7, 256>>, k)
      [] ty \in {"Uint", "Ulong"} -> At(<<300, 5, 0>>, k)
      [] ty = "Timestamp" -> At(<<-1, 1000>>, k)
      [] ty \in {"Binary", "String", "Symbol"} -> Text(k % 3)
      [] ty = "Role" -> At(<<"Sender", "Receiver">>, k)
      [] ty \in DOMAIN Enum -> At(Enum[ty], k)
      [] ty = "ErrorCondition" -> At([i \in DOMAIN Conditions |-> <<"Known", Conditions[i]>>]
                                         \o <<<<"Custom", Text(2)>>>>, 5 * k)
      [] ty = "MessageId" -> At(<<Scalars[11], Scalars[29], Scalars[30], Scalars[31]>>, k)
      [] ty = "Unsettled" -> At(<<<<>>, <<<<Text(1), Sample("DeliveryState", k)>>>>>>, k)
      [] ty \in DOMAIN MapType -> At(<<<<>>, <<<<Text(1), At(Scalars, k)>>>>>>, k)
      [] ty \in DOMAIN Composite -> Fills(ty, k)
      [] ty \in DOMAIN Union -> Fills(At(UnionOrder[ty], k), k \div 2)

\* the samples of one composite: none, each, all of its fields
Samples(name) ==
    <<Filled(name, {}, 0), Filled(name, All(name), 0), Filled(name, All(name), 1)>>
        \o [i \in DOMAIN Composite[name][2] |-> Filled(name, {i}, i + 1)]

TransferState(outcome) == <<RawState(<<"TransactionalState", <<<<Text(8)>>, outcome>>>>)>>

Plan(items) ==
    [items |-> items, max_frame_size |-> 512, max_message_size |-> 1024, vectored |-> FALSE,
     cuts |-> FALSE, eager |-> FALSE]

Frames(name) ==
    [i \in DOMAIN Samples(name) |-> IF name \in DOMAIN Sasl THEN <<"sasl", Samples(name)[i]>>
                                    ELSE <<"amqp", i, Samples(name)[i], <<>>>>]

Foreign(name) == [i \in DOMAIN Samples(name) |-> <<"foreign", 300 + i, Samples(name)[i]>>]

Bodied(v) == [EmptyMessage EXCEPT ![6] = <<"Value", v>>]

Messages(ms, state) ==
    [i \in DOMAIN ms |-> <<"message", i % 2, i - 1, ms[i], state, i % 2 = 0>>]

SectionSamples ==
    [i \in 1..8 |-> <<IF i % 2 = 0 THEN <<Fills("Header", i \div 2)>> ELSE <<>>,
                      IF i % 3 = 0 THEN <<Sample("Fields", i)>> ELSE <<>>,
                      IF i % 4 = 1 THEN <<Sample("Fields", i + 1)>> ELSE <<>>,
                      IF i % 2 = 1 THEN <<At(Samples("Properties"), 3 * i)>> ELSE <<>>,
                      IF i % 3 = 1 THEN <<Sample("ApplicationProperties", i)>> ELSE <<>>,
                      At(<<<<"Empty", <<>>>>, <<"Data", <<Text(3)>>>>, <<"Data", <<<<>>, Text(2)>>>>,
                           <<"Sequence", <<<<>>, <<Scalars[2]>>>>>>>>, i),
                      IF i % 2 = 0 THEN <<Sample("Fields", i + 1)>> ELSE <<>>>>]

BigMessages == <<[EmptyMessage EXCEPT ![6] = <<"Data", <<Text(450)>>>>], EmptyMessage,
                 [EmptyMessage EXCEPT ![6] = <<"Data", <<Text(425), Text(430)>>>>], Bodied(Scalars[5])>>

\* a message that fills its frame exactly, and one byte more
FullMessages == [i \in 1..3 |-> [EmptyMessage EXCEPT ![6] = <<"Data", <<Text(422 + i)>>>>]]

Performatives == <<"Open", "Begin", "Attach", "Flow", "Transfer", "Disposition", "Detach", "End", "Close">>
SaslFrames == <<"SaslMechanisms", "SaslInit", "SaslChallenge", "SaslResponse", "SaslOutcome">>

PlanList ==
    [i \in DOMAIN Performatives |-> Plan(Frames(Performatives[i]))]
    \o [i \in DOMAIN SaslFrames |-> Plan(Frames(SaslFrames[i]))]
    \o [i \in DOMAIN Performatives |-> Plan(Foreign(Performatives[i]))]
    \o <<Plan(Messages([i \in DOMAIN Scalars |-> Bodied(Scalars[i])], <<>>)),
         Plan(Messages([i \in DOMAIN Compounds |-> Bodied(Compounds[i])], <<>>)),
         Plan(Messages([i \in DOMAIN Long |-> Bodied(Long[i])], <<>>)),
         Plan(Messages(SectionSamples, <<Filled("Accepted", {}, 0)>>)),
         Plan(Messages(FullMessages, TransferState(<<>>))),
         [Plan(<<<<"empty", 3>>, <<"amqp", 0, Filled("End", {}, 0), <<>>>>,
                 <<"message", 0, 0, Bodied(<<"Binary", Text(70)>>), <<>>, FALSE>>, <<"empty", 0>>>>)
             EXCEPT !.cuts = TRUE, !.eager = TRUE, !.vectored = TRUE]>>
    \o [i \in 1..3 |-> [Plan(Messages(BigMessages, TransferState(<<Filled("Accepted", {}, 0)>>)))
                           EXCEPT !.vectored = TRUE, !.max_message_size = <<16, 500, 1024>>[i]]]
    \o LET kinds == <<"small", "large", "doff_small", "doff_large", "type", "missing", "sasl">> IN
       [i \in DOMAIN kinds |-> Plan(<<<<"empty", 0>>, <<"invalid", kinds[i]>>, <<"empty", 1>>>>)]

AllPlans == ToSet(PlanList)
===========================================================================
