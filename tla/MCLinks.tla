------------------------------- MODULE MCLinks -------------------------------
(***************************************************************************)
(* Links for a few sessions: one consumer across the wrap of the counters, *)
(* two consumers whose handles are reused, a refused attach, a producer    *)
(* against a full queue, an oversized message, manual credit.              *)
(***************************************************************************)
EXTENDS Links

\* x1, x2 take two frames, y1 takes three, the others one
FramesOf(m) == CASE m \in {"x1", "x2"} -> 2 [] m = "y1" -> 3 [] OTHER -> 1

Reader(q, window, low) ==
    [role |-> "receiver", q |-> q, window |-> window, low |-> low, second |-> FALSE, sends |-> {}]
Writer(q, ms) ==
    [role |-> "sender", q |-> q, window |-> 0, low |-> 0, second |-> FALSE, sends |-> ms]
One(k, l) == [j \in {k} |-> l]
Two(k, l, k2, l2) == [j \in {k, k2} |-> IF j = k THEN l ELSE l2]
On(a, b) == [q \in Queues |-> IF q = "a" THEN a ELSE b]

Base == [window |-> 2, broker_window |-> 2, base |-> 0, cap |-> 2, max_len |-> 2,
         initial_credit |-> 2, link |-> One("c1", Reader("a", 2, 1)), ready |-> On(<<>>, <<>>),
         outcomes |-> {"accepted"}, through |-> FALSE, manual |-> 0, drains |-> {FALSE},
         echoes |-> {FALSE}, flows |-> 0, drops |-> 0, releases |-> 1, settled |-> {FALSE}, roomy |-> FALSE]

Wrapping == [Base EXCEPT !.base = 14, !.ready = On(<<"m1", "m2", "m3">>, <<>>), !.roomy = TRUE,
                         !.outcomes = {"accepted", "released"}]
Ranged == [Base EXCEPT !.ready = On(<<"m1", "m2", "m3", "m4">>, <<>>), !.through = TRUE]
Sharing == [Base EXCEPT !.link = Two("c1", Reader("a", 1, 0), "c2", Reader("b", 2, 0)),
                        !.ready = On(<<"m1">>, <<"m2", "m3">>), !.drops = 1]
Refused == [Base EXCEPT !.link = Two("c1", Reader(None, 1, 0), "c2", Reader("b", 1, 0)),
                        !.ready = On(<<>>, <<"m2", "m3">>), !.drops = 2]
Publishing == [Base EXCEPT !.link = One("p1", Writer("a", {"m1", "m2", "m3", "m4"})), !.roomy = TRUE]
Oversized == [Base EXCEPT !.link = Two("p1", Writer("a", {"x1", "y1"}), "p2", Writer("a", {"m2"})),
                          !.broker_window = 4, !.settled = {TRUE, FALSE}, !.drops = 1]
Manual == [Base EXCEPT !.link = One("c1", Reader("a", 0, 0)), !.ready = On(<<"m1", "m2">>, <<>>),
                       !.manual = 2, !.flows = 2, !.drains = {TRUE, FALSE}, !.echoes = {TRUE, FALSE}]
SomeScenarios == {Wrapping, Ranged, Sharing, Refused, Publishing, Oversized, Manual}
==============================================================================
