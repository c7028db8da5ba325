----------------------------- MODULE LeaseQueue -----------------------------
(***************************************************************************)
(* What a queue promises its connections, whatever its storage: a message  *)
(* is available, leased to one consumer, or gone.  A lease goes back to    *)
(* the queue before anyone else gets the message, what is gone never comes *)
(* back, and messages are leased for the first time in the order in which  *)
(* they came.  The queue actors implement it.                              *)
(***************************************************************************)
EXTENDS Naturals

CONSTANTS Msg,          \* message ids, in the order of admission
          Consumer,
          Nobody

VARIABLES status,       \* "new", "available", "leased" or "gone"
          holder,       \* the consumer a message is leased to, or Nobody
          seen          \* messages that have been leased at least once

vars == <<status, holder, seen>>

Init ==
    /\ status = [m \in Msg |-> "new"]
    /\ holder = [m \in Msg |-> Nobody]
    /\ seen = {}

(***************************************************************************)
(* The oldest id not used yet is admitted.                                 *)
(***************************************************************************)
Enqueue(m) ==
    /\ status[m] = "new"
    /\ \A k \in Msg : k < m => status[k] # "new"
    /\ status' = [status EXCEPT ![m] = "available"]
    /\ UNCHANGED <<holder, seen>>

(***************************************************************************)
(* A first lease never overtakes an older message still waiting for its    *)
(* own.                                                                    *)
(***************************************************************************)
Lease(m, c) ==
    /\ status[m] = "available"
    /\ m \notin seen => \A k \in Msg : k < m /\ status[k] = "available" => k \in seen
    /\ status' = [status EXCEPT ![m] = "leased"]
    /\ holder' = [holder EXCEPT ![m] = c]
    /\ seen' = seen \cup {m}

(***************************************************************************)
(* One consumer's leases end, one (a settlement) or all (it left).         *)
(***************************************************************************)
Release(c, S) ==
    /\ \A m \in S : holder[m] = c
    /\ status' = [m \in Msg |-> IF m \in S THEN "available" ELSE status[m]]
    /\ holder' = [m \in Msg |-> IF m \in S THEN Nobody ELSE holder[m]]
    /\ UNCHANGED seen

(***************************************************************************)
(* A message leaves: settled by its consumer, expired, evicted, or out of  *)
(* delivery attempts.                                                      *)
(***************************************************************************)
Discard(m) ==
    /\ status[m] \in {"available", "leased"}
    /\ status' = [status EXCEPT ![m] = "gone"]
    /\ holder' = [holder EXCEPT ![m] = Nobody]
    /\ UNCHANGED seen

Next ==
    \/ \E m \in Msg : Enqueue(m) \/ Discard(m)
    \/ \E m \in Msg, c \in Consumer : Lease(m, c)
    \/ \E c \in Consumer, S \in SUBSET Msg : Release(c, S)

Spec == Init /\ [][Next]_vars
=============================================================================
