---------------------------- MODULE MCQueueProxy ----------------------------
(***************************************************************************)
(* QueueProxy with a producer and up to two consumers: leadership moving   *)
(* between the nodes, a lost connection, calls that time out, drains.      *)
(***************************************************************************)
EXTENDS QueueProxy

Still == [elections |-> 0, losses |-> 0, timeouts |-> 0, giveups |-> 0, conns |-> 1,
          demands |-> 0, drains |-> 0, requeues |-> 0, refusals |-> 0, leaves |-> 0,
          stale |-> 0, drainless |-> TRUE, consumers |-> {"k1"}]
Failover == [Still EXCEPT !.elections = 2, !.demands = 2, !.requeues = 1, !.stale = 1]
Losing == [Still EXCEPT !.losses = 1, !.conns = 2, !.timeouts = 1, !.demands = 2]
Draining == [Still EXCEPT !.elections = 1, !.demands = 1, !.drains = 1, !.refusals = 1,
                          !.giveups = 1, !.leaves = 1, !.drainless = FALSE]
Two == [Still EXCEPT !.consumers = {"k1", "k2"}, !.timeouts = 2, !.demands = 1]
SomeScenarios == {Failover, Losing, Draining, Two}
=============================================================================
