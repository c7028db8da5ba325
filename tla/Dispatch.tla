------------------------------ MODULE Dispatch ------------------------------
(***************************************************************************)
(* The dispatch primitives shared by the queue actors (dispatch.rs) and    *)
(* the policy checks they make (policy.rs), as operators on a sequence of  *)
(* subscribers [id, demand, drain].                                        *)
(***************************************************************************)
EXTENDS Integers, Sequences, FiniteSets

SatSub(a, b) == IF b <= a THEN a - b ELSE 0

NewSubscriber(s) == [id |-> s, demand |-> 0, drain |-> FALSE]

grant(subs, s, credit, drain) ==
    [i \in DOMAIN subs |->
        IF subs[i].id = s
        THEN [subs[i] EXCEPT !.demand = @ + credit, !.drain = drain]
        ELSE subs[i]]

\* i is the first position with demand when scanning from rr (0-based)
pick_ready(subs, rr, i) ==
    LET at(k) == ((rr + k) % Len(subs)) + 1
    IN  \E k \in 0..Len(subs) - 1 :
          /\ i = at(k)
          /\ subs[i].demand > 0
          /\ \A j \in 0..k - 1 : subs[at(j)].demand = 0

NoDemand(subs) == \A i \in DOMAIN subs : subs[i].demand = 0

Served(subs, i) == [subs EXCEPT ![i].demand = @ - 1]

complete_drains(subs) ==
    [i \in DOMAIN subs |->
        IF subs[i].drain THEN [subs[i] EXCEPT !.demand = 0, !.drain = FALSE]
        ELSE subs[i]]

Without(subs, s) == SelectSeq(subs, LAMBDA x : x.id # s)

HasSub(subs, s) == \E i \in DOMAIN subs : subs[i].id = s

expired(ttl_ms, enqueued_ms, now_ms) == SatSub(now_ms, enqueued_ms) >= ttl_ms

attempts_exhausted(max_attempts, n) == n >= max_attempts

\* what pop_first finds in a map ordered by id
First(S) == CHOOSE m \in S : \A n \in S : m <= n
=============================================================================
