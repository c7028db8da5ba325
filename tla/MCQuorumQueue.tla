---------------------------- MODULE MCQuorumQueue ----------------------------
(***************************************************************************)
(* QuorumQueue on two nodes: with a delivery limit that is reached, with a *)
(* leader that is deposed and elected again, and with a queue that drops   *)
(* its head and expires messages.                                          *)
(***************************************************************************)
EXTENDS QuorumQueue

Limited ==
    [max_len |-> 2, max_bytes |-> 2, drop_head |-> FALSE, ttl |-> FALSE,
     max_attempts |-> 2, max_msgs |-> 1, max_term |-> 2, max_settles |-> 2,
     max_slots |-> 1]
Reelected == [Limited EXCEPT !.max_term = 3, !.max_settles = 1,
                               !.max_slots = 0]
DropHead ==
    [max_len |-> 1, max_bytes |-> 3, drop_head |-> TRUE, ttl |-> TRUE,
     max_attempts |-> 1, max_msgs |-> 2, max_term |-> 2, max_settles |-> 0,
     max_slots |-> 0]
SomePolicies == {Limited, Reelected, DropHead}
=============================================================================
