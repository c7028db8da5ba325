--------------------------- MODULE MCDurableQueue ---------------------------
(***************************************************************************)
(* DurableQueue on small instances, one per way a message can die: at the  *)
(* delivery limit, evicted from a queue that drops its head and has no     *)
(* dead-letter target, and expired.  The second body is the larger one.    *)
(***************************************************************************)
EXTENDS DurableQueue

Lengths == [p \in 1..MaxMsgs |-> IF p = 2 THEN 2 ELSE 1]
Limited ==
    [max_len |-> 2, max_bytes |-> 4, drop_head |-> FALSE, ttl_ms |-> None,
     max_attempts |-> 1, dead_letter |-> TRUE, max_slots |-> 1]
DropHead == [Limited EXCEPT !.drop_head = TRUE, !.max_attempts = 2, !.max_bytes = 2,
                            !.dead_letter = FALSE]
Expiring == [Limited EXCEPT !.max_len = 1, !.max_attempts = 2, !.ttl_ms = 1, !.max_slots = 0]
SomePolicies == {Limited, DropHead, Expiring}
=============================================================================
