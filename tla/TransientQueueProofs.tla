------------------------ MODULE TransientQueueProofs ------------------------
(***************************************************************************)
(* Theorems about TransientQueue, for every policy and every bound: type   *)
(* correctness, safety, then the order of service.  The safety argument:   *)
(* whatever a step does to the messages is one of six effects (MsgStep),   *)
(* and each effect preserves MsgInv and is a step of LeaseQueue or none.   *)
(***************************************************************************)
EXTENDS TransientQueue, TLAPS

USE DEF NoSub, Freed, Unleased, PushedBack, ThenDispatch, IsOwner

-----------------------------------------------------------------------------
(* Sequences of ids: membership, and occurring once.                       *)

Occurs(q, m) == \E i \in 1..Len(q) : q[i] = m
Once(q) == \A i, j \in 1..Len(q) : i # j => q[i] # q[j]

(***************************************************************************)
(* pop_front removes exactly the first id.                                 *)
(***************************************************************************)
LEMMA PopFront ==
    ASSUME NEW S, NEW q \in Seq(S), q # <<>>
    PROVE  /\ Head(q) \in S /\ Head(q) = q[1] /\ Len(q) \in Nat /\ Len(q) >= 1
           /\ Tail(q) \in Seq(S)
           /\ Len(Tail(q)) = Len(q) - 1
           /\ \A i \in 1..Len(q) - 1 : Tail(q)[i] = q[i + 1]
           /\ Once(q) => Once(Tail(q))
           /\ Once(q) => \A m : Occurs(Tail(q), m) <=> Occurs(q, m) /\ m # Head(q)
<1>1. /\ Head(q) \in S /\ Head(q) = q[1] /\ Len(q) \in Nat /\ Len(q) >= 1
      /\ Tail(q) \in Seq(S)
      /\ Len(Tail(q)) = Len(q) - 1
      /\ \A i \in 1..Len(q) - 1 : Tail(q)[i] = q[i + 1]
  OBVIOUS
<1>2. ASSUME Once(q) PROVE Once(Tail(q))
  BY <1>1, <1>2 DEF Once
<1>3. ASSUME Once(q), NEW m, Occurs(Tail(q), m) PROVE Occurs(q, m) /\ m # Head(q)
  <2>1. PICK i \in 1..Len(q) - 1 : Tail(q)[i] = m
    BY Zenon, <1>1, <1>3 DEF Occurs
  <2>2. i + 1 \in 1..Len(q) /\ q[i + 1] = m /\ i + 1 # 1 /\ 1 \in 1..Len(q)
    BY <1>1, <2>1
  <2> QED
    BY Zenon, <1>1, <1>3, <2>2 DEF Occurs, Once
<1>4. ASSUME Once(q), NEW m, Occurs(q, m), m # Head(q) PROVE Occurs(Tail(q), m)
  <2>1. PICK i \in 1..Len(q) : q[i] = m
    BY Zenon, <1>4 DEF Occurs
  <2>2. i - 1 \in 1..Len(q) - 1 /\ Tail(q)[i - 1] = q[i - 1 + 1]
    BY <1>1, <1>4, <2>1
  <2> QED
    BY <1>1, <2>1, <2>2 DEF Occurs
<1> QED
  BY Zenon, <1>1, <1>2, <1>3, <1>4

(***************************************************************************)
(* push_back adds exactly one id, at the end.                              *)
(***************************************************************************)
LEMMA PushBack ==
    ASSUME NEW S, NEW q \in Seq(S), NEW e \in S
    PROVE  /\ Append(q, e) \in Seq(S) /\ Len(q) \in Nat
           /\ Len(Append(q, e)) = Len(q) + 1
           /\ \A i \in 1..Len(q) : Append(q, e)[i] = q[i]
           /\ Append(q, e)[Len(q) + 1] = e
           /\ Once(q) /\ ~Occurs(q, e) => Once(Append(q, e))
           /\ \A m : Occurs(Append(q, e), m) <=> Occurs(q, m) \/ m = e
<1>1. /\ Append(q, e) \in Seq(S) /\ Len(q) \in Nat
      /\ Len(Append(q, e)) = Len(q) + 1
      /\ \A i \in 1..Len(q) : Append(q, e)[i] = q[i]
      /\ Append(q, e)[Len(q) + 1] = e
  OBVIOUS
<1>2. \A i \in 1..Len(q) + 1 : i \in 1..Len(q) \/ i = Len(q) + 1
  BY <1>1
<1>3. Once(q) /\ ~Occurs(q, e) => Once(Append(q, e))
  BY Zenon, <1>1, <1>2 DEF Once, Occurs
<1>4. \A m : Occurs(Append(q, e), m) <=> Occurs(q, m) \/ m = e
  BY <1>1, <1>2 DEF Occurs
<1> QED
  BY Zenon, <1>1, <1>3, <1>4

(***************************************************************************)
(* Requeueing p at the front of q keeps both, and keeps ids unique when    *)
(* the two have none in common.                                            *)
(***************************************************************************)
LEMMA PushFront ==
    ASSUME NEW S, NEW p \in Seq(S), NEW q \in Seq(S)
    PROVE  /\ p \o q \in Seq(S) /\ Len(p) \in Nat /\ Len(q) \in Nat
           /\ Len(p \o q) = Len(p) + Len(q)
           /\ \A i \in 1..Len(p) : (p \o q)[i] = p[i]
           /\ \A i \in 1..Len(p) + Len(q) :
                 i > Len(p) => (p \o q)[i] = q[i - Len(p)]
           /\ Once(p) /\ Once(q) /\ (\A m : ~(Occurs(p, m) /\ Occurs(q, m)))
                 => Once(p \o q)
           /\ \A m : Occurs(p \o q, m) <=> Occurs(p, m) \/ Occurs(q, m)
<1>1. /\ p \o q \in Seq(S) /\ Len(p) \in Nat /\ Len(q) \in Nat
      /\ Len(p \o q) = Len(p) + Len(q)
      /\ \A i \in 1..Len(p) : (p \o q)[i] = p[i]
      /\ \A i \in 1..Len(p) + Len(q) :
            i > Len(p) => (p \o q)[i] = q[i - Len(p)]
  OBVIOUS
<1>2. \A i \in 1..Len(p) + Len(q) :
         \/ i \in 1..Len(p)
         \/ i > Len(p) /\ i - Len(p) \in 1..Len(q)
  BY <1>1
<1>3. \A i \in 1..Len(q) : /\ Len(p) + i \in 1..Len(p) + Len(q)
                           /\ Len(p) + i > Len(p)
                           /\ Len(p) + i - Len(p) = i
  BY <1>1
<1>4. \A m : Occurs(p \o q, m) <=> Occurs(p, m) \/ Occurs(q, m)
  <2>1. ASSUME NEW m, Occurs(p, m) PROVE Occurs(p \o q, m)
    <3>1. PICK i \in 1..Len(p) : p[i] = m
      BY Zenon, <2>1 DEF Occurs
    <3>2. i \in 1..Len(p) + Len(q)
      BY <1>1
    <3> QED BY Zenon, <1>1, <3>1, <3>2 DEF Occurs
  <2>2. ASSUME NEW m, Occurs(q, m) PROVE Occurs(p \o q, m)
    BY <1>1, <1>3, <2>2 DEF Occurs
  <2>3. ASSUME NEW m, Occurs(p \o q, m) PROVE Occurs(p, m) \/ Occurs(q, m)
    BY Zenon, <1>1, <1>2, <2>3 DEF Occurs
  <2> QED BY Zenon, <2>1, <2>2, <2>3
<1>5. ASSUME Once(p), Once(q), \A m : ~(Occurs(p, m) /\ Occurs(q, m))
      PROVE  Once(p \o q)
  <2> SUFFICES ASSUME NEW i \in 1..Len(p) + Len(q), NEW j \in 1..Len(p) + Len(q),
                      i # j
               PROVE  (p \o q)[i] # (p \o q)[j]
    BY Zenon, <1>1 DEF Once
  <2>1. CASE i \in 1..Len(p) /\ j \in 1..Len(p)
    BY Zenon, <1>1, <1>5, <2>1 DEF Once
  <2>2. CASE i > Len(p) /\ j > Len(p)
    <3>1. i - Len(p) \in 1..Len(q) /\ j - Len(p) \in 1..Len(q) /\ i - Len(p) # j - Len(p)
      BY <1>1, <2>2
    <3> QED BY SMTT(30), <1>1, <1>5, <2>2, <3>1 DEF Once
  <2>3. CASE i \in 1..Len(p) /\ j > Len(p)
    <3>1. Occurs(p, (p \o q)[i]) /\ Occurs(q, (p \o q)[j])
      BY <1>1, <1>2, <2>3 DEF Occurs
    <3> QED BY Zenon, <1>5, <3>1
  <2>4. CASE i > Len(p) /\ j \in 1..Len(p)
    <3>1. Occurs(p, (p \o q)[j]) /\ Occurs(q, (p \o q)[i])
      BY <1>1, <1>2, <2>4 DEF Occurs
    <3> QED BY Zenon, <1>5, <3>1
  <2> QED BY Zenon, <1>2, <2>1, <2>2, <2>3, <2>4
<1> QED
  BY Zenon, <1>1, <1>4, <1>5

(***************************************************************************)
(* Listing a finite set of ids oldest first loses and repeats nothing.     *)
(***************************************************************************)
LEMMA OldestFirstLists ==
    ASSUME NEW S \in SUBSET MsgId, NEW q \in OldestFirst(S)
    PROVE  /\ q \in Seq(MsgId) /\ q \in [1..Len(q) -> S]
           /\ Once(q) /\ \A m : Occurs(q, m) <=> m \in S
<1>1. PICK n \in 0..MaxMsgs : q \in [1..n -> S]
  BY Zenon DEF OldestFirst
<1>2. n \in Nat
  BY BoundsAssumption
<1>3. q \in Seq(MsgId) /\ Len(q) = n /\ DOMAIN q = 1..n
  BY <1>1, <1>2
<1>4. \A i, j \in 1..n : i < j => q[i] < q[j]
  BY Zenon, <1>3 DEF OldestFirst
<1>5. \A i \in 1..n : q[i] \in Int
  <2>1. \A m \in S : m \in Int
    BY BoundsAssumption DEF MsgId
  <2> QED BY Zenon, <1>1, <2>1
<1>6. Once(q)
  BY <1>2, <1>3, <1>4, <1>5 DEF Once
<1>7. \A m : Occurs(q, m) <=> m \in S
  BY Zenon, <1>1, <1>3 DEF Occurs, OldestFirst
<1> QED
  BY Zenon, <1>1, <1>3, <1>6, <1>7

-----------------------------------------------------------------------------
(* Type correctness.                                                       *)

LEMMA SatSubType ==
    ASSUME NEW a \in Nat, NEW b \in Nat
    PROVE  SatSub(a, b) \in Nat
BY DEF SatSub

(***************************************************************************)
(* Removing a subscriber keeps the types of what it writes.                *)
(***************************************************************************)
LEMMA RemoveType ==
    ASSUME TypeOK, NEW s \in SubId, Remove(s)
    PROVE  /\ subs' \in Seq(SubId) /\ ready' \in Seq(MsgId)
           /\ owner' \in [MsgId -> {NoSub} \cup SubId]
           /\ demand' \in [SubId -> Nat]
           /\ drain_pending' \in [SubId -> BOOLEAN]
           /\ bypassed' \in [SubId -> Nat]
<1>2. subs \in Seq(SubId) /\ Len(subs) \in Nat
  BY DEF TypeOK, SubTypeOK
<1>4. ASSUME NEW i \in 1..Len(subs),
             subs' = [j \in 1..Len(subs) - 1 |-> IF j < i THEN subs[j] ELSE subs[j + 1]]
      PROVE  subs' \in Seq(SubId)
  <2>1. Len(subs) - 1 \in Nat
    BY <1>2
  <2>2. \A j \in 1..Len(subs) - 1 :
           (IF j < i THEN subs[j] ELSE subs[j + 1]) \in SubId
    BY <1>2
  <2> QED BY <1>4, <2>1, <2>2
<1>5. subs' \in Seq(SubId)
  BY Zenon, <1>2, <1>4 DEF Remove
<1>6. PICK orphaned \in OldestFirst(Held(s)) : ready' = orphaned \o ready
  BY ZenonT(30) DEF Remove
<1>7. orphaned \in Seq(MsgId)
  BY Zenon, OldestFirstLists DEF Held
<1>8. ready' \in Seq(MsgId)
  BY Zenon, <1>6, <1>7, PushFront DEF TypeOK, MsgTypeOK
<1>9. owner' \in [MsgId -> {NoSub} \cup SubId]
  BY Zenon DEF Remove, TypeOK, MsgTypeOK
<1> QED
  BY Zenon, <1>5, <1>8, <1>9 DEF Remove, TypeOK, SubTypeOK

LEMMA TypeInit == Init => TypeOK
BY BoundsAssumption DEF Init, TypeOK, MsgTypeOK, SubTypeOK, ActorTypeOK, NoMsg,
   Fates

(***************************************************************************)
(* The position after the one served is a natural number.                  *)
(***************************************************************************)
LEMMA NextRR ==
    ASSUME SubTypeOK, NEW i \in 1..Len(subs)
    PROVE  subs[i] \in SubId /\ i % Len(subs) \in Nat
<1>1. Len(subs) \in Nat /\ subs[i] \in SubId
  BY DEF SubTypeOK
<1>2. i \in Nat /\ Len(subs) > 0
  BY <1>1
<1>3. \A a, b \in Nat : b > 0 => a % b \in Nat
  OBVIOUS
<1> QED
  BY Zenon, <1>1, <1>2, <1>3

LEMMA PickHasDemand ==
    ASSUME NEW i, pick_ready(i)
    PROVE  demand[subs[i]] > 0
BY Zenon DEF pick_ready

LEMMA TypeStep == TypeOK /\ [Next]_vars => TypeOK'
<1> SUFFICES ASSUME TypeOK, [Next]_vars PROVE TypeOK'
  BY Zenon
<1> USE DEF TypeOK
<1>1. CASE EvictHead
  <2>1. Head(ready) \in MsgId /\ Tail(ready) \in Seq(MsgId)
    BY Zenon, <1>1, PopFront DEF EvictHead, CanEvict, MsgTypeOK
  <2>2. SatSub(bytes, size[Head(ready)]) \in Nat
    BY ZenonT(30), <2>1, SatSubType DEF MsgTypeOK, ActorTypeOK
  <2>3. MsgTypeOK'
    BY ZenonT(30), <1>1, <2>1 DEF EvictHead, MsgTypeOK, store, Fates
  <2>4. SubTypeOK'
    BY Zenon, <1>1 DEF EvictHead, SubTypeOK, consumers
  <2>5. ActorTypeOK'
    BY Zenon, <1>1, <2>2 DEF EvictHead, ActorTypeOK, txns
  <2> QED BY Zenon, <2>3, <2>4, <2>5
<1>2. CASE Admit
  <2>1. next_msg_id' \in MsgId /\ next_msg_id' = next_msg_id + 1
    BY <1>2, BoundsAssumption DEF Admit, MsgTypeOK, MsgId
  <2>2. ready' \in Seq(MsgId)
    BY Zenon, <1>2, <2>1, PushBack DEF Admit, MsgTypeOK
  <2>3. MsgTypeOK'
    <3>1. size' \in [MsgId -> Nat] /\ enqueued_ms' \in [MsgId -> Nat]
      BY SMTT(30), <1>2, <2>1, BoundsAssumption DEF Admit, MsgTypeOK, ActorTypeOK
    <3>2. fate' \in [MsgId -> Fates]
      BY Zenon, <1>2, <2>1 DEF Admit, MsgTypeOK, Fates
    <3>3. next_msg_id' \in 0..MaxMsgs
      BY <2>1 DEF MsgId
    <3> QED BY Zenon, <1>2, <2>2, <3>1, <3>2, <3>3 DEF Admit, MsgTypeOK
  <2>4. SubTypeOK'
    BY Zenon, <1>2 DEF Admit, SubTypeOK, consumers
  <2>5. ActorTypeOK'
    BY <1>2 DEF Admit, ActorTypeOK, txns, NoMsg
  <2> QED BY Zenon, <2>3, <2>4, <2>5
<1>3. CASE Refuse
  <2>1. MsgTypeOK'
    BY Zenon, <1>3 DEF Refuse, MsgTypeOK, store
  <2>2. SubTypeOK'
    BY Zenon, <1>3 DEF Refuse, SubTypeOK, consumers
  <2>3. ActorTypeOK'
    BY Zenon, <1>3 DEF Refuse, ActorTypeOK, txns, NoMsg
  <2> QED BY Zenon, <2>1, <2>2, <2>3
<1>4. CASE ExpireHead
  <2>1. Head(ready) \in MsgId /\ Tail(ready) \in Seq(MsgId)
    BY Zenon, <1>4, PopFront DEF ExpireHead, HeadExpired, MsgTypeOK
  <2>2. SatSub(bytes, size[Head(ready)]) \in Nat
    <3>1. bytes \in Nat /\ size[Head(ready)] \in Nat
      BY Zenon, <2>1 DEF MsgTypeOK, ActorTypeOK
    <3> QED BY Zenon, <3>1, SatSubType
  <2>3. MsgTypeOK'
    BY ZenonT(30), <1>4, <2>1 DEF ExpireHead, MsgTypeOK, store, Fates
  <2>4. SubTypeOK'
    BY Zenon, <1>4 DEF ExpireHead, SubTypeOK, consumers
  <2>5. ActorTypeOK'
    BY <1>4, <2>2 DEF ExpireHead, ActorTypeOK, txns
  <2> QED BY Zenon, <2>3, <2>4, <2>5
<1>5. CASE BeginDispatch
  <2>1. MsgTypeOK'
    BY Zenon, <1>5 DEF BeginDispatch, MsgTypeOK, store
  <2>2. SubTypeOK'
    BY Zenon, <1>5 DEF BeginDispatch, SubTypeOK, consumers
  <2>3. ActorTypeOK'
    BY Zenon, <1>5 DEF BeginDispatch, ActorTypeOK, txns
  <2> QED BY Zenon, <2>1, <2>2, <2>3
<1>6. ASSUME NEW i \in 1..Len(subs), Deliver(i) PROVE TypeOK'
  <2>1. Head(ready) \in MsgId /\ Tail(ready) \in Seq(MsgId)
    BY Zenon, <1>6, PopFront DEF Deliver, MsgTypeOK
  <2>2. subs[i] \in SubId /\ i % Len(subs) \in Nat
    BY Zenon, NextRR
  <2>3. demand[subs[i]] - 1 \in Nat
    BY SMTT(30), <1>6, <2>2, PickHasDemand DEF Deliver, SubTypeOK
  <2>4. MsgTypeOK'
    <3>1. handed' \subseteq SubId \X MsgId
      <4>1. handed' = handed \cup {<<subs[i], Head(ready)>>}
        BY Zenon, <1>6 DEF Deliver
      <4>2. <<subs[i], Head(ready)>> \in SubId \X MsgId
        BY Zenon, <2>1, <2>2
      <4> QED BY Zenon, <4>1, <4>2 DEF MsgTypeOK
    <3>2. owner' \in [MsgId -> {NoSub} \cup SubId]
      BY Zenon, <1>6, <2>1, <2>2 DEF Deliver, MsgTypeOK
    <3> QED BY Zenon, <1>6, <2>1, <3>1, <3>2 DEF Deliver, MsgTypeOK, store
  <2>5. SubTypeOK'
    <3>1. demand' \in [SubId -> Nat]
      BY Zenon, <1>6, <2>2, <2>3 DEF Deliver, SubTypeOK
    <3>2. bypassed' \in [SubId -> Nat]
      BY SMTT(30), <1>6, <2>2 DEF Deliver, SubTypeOK
    <3> QED BY Zenon, <1>6, <2>2, <3>1, <3>2 DEF Deliver, SubTypeOK
  <2>6. ActorTypeOK'
    BY Zenon, <1>6 DEF Deliver, ActorTypeOK, txns
  <2> QED BY Zenon, <2>4, <2>5, <2>6
<1>7. ASSUME NEW i \in 1..Len(subs), DeliverFailed(i) PROVE TypeOK'
  <2>1. subs[i] \in SubId /\ i % Len(subs) \in Nat
    BY Zenon, NextRR
  <2>2. MsgTypeOK'
    BY ZenonT(30), <1>7, <2>1, RemoveType DEF DeliverFailed, MsgTypeOK, store
  <2>3. SubTypeOK'
    BY ZenonT(30), <1>7, <2>1, RemoveType DEF DeliverFailed, SubTypeOK
  <2>4. ActorTypeOK'
    BY Zenon, <1>7 DEF DeliverFailed, ActorTypeOK, txns
  <2> QED BY Zenon, <2>2, <2>3, <2>4
<1>8. CASE EndDispatch
  <2>1. MsgTypeOK'
    BY Zenon, <1>8 DEF EndDispatch, MsgTypeOK, store
  <2>2. SubTypeOK'
    <3>1. demand' \in [SubId -> Nat] /\ bypassed' \in [SubId -> Nat]
      <4>1. 0 \in Nat
        BY Zenon
      <4>2. complete_drains => demand' \in [SubId -> Nat] /\ bypassed' \in [SubId -> Nat]
        BY <4>1, Zenon DEF complete_drains, SubTypeOK
      <4> QED BY <1>8, <4>2, Zenon DEF EndDispatch, SubTypeOK
    <3>2. drain_pending' \in [SubId -> BOOLEAN]
      <4>1. \/ drain_pending' = [s \in SubId |-> FALSE]
            \/ drain_pending' = drain_pending
        BY <1>8, Zenon DEF EndDispatch, complete_drains
      <4> QED BY <4>1, Zenon DEF SubTypeOK
    <3> QED BY Zenon, <1>8, <3>1, <3>2 DEF EndDispatch, SubTypeOK
  <2>3. ActorTypeOK'
    BY Zenon, <1>8 DEF EndDispatch, ActorTypeOK, txns
  <2> QED BY Zenon, <2>1, <2>2, <2>3
<1>9. ASSUME NEW sz \in BodySizes, NEW r \in BOOLEAN, Publish(sz, r) PROVE TypeOK'
  <2>1. SatSub(reserved, 1) \in Nat
    BY ZenonT(30), SatSubType DEF ActorTypeOK
  <2>2. MsgTypeOK'
    BY Zenon, <1>9 DEF Publish, MsgTypeOK, store
  <2>3. SubTypeOK'
    BY Zenon, <1>9 DEF Publish, SubTypeOK, consumers
  <2>4. ActorTypeOK'
    BY <1>9, PolicyAssumption, <2>1 DEF Publish, ActorTypeOK
  <2> QED BY Zenon, <2>2, <2>3, <2>4
<1>10. ASSUME NEW n \in 1..MaxSlots, Reserve(n) PROVE TypeOK'
  <2>1. MsgTypeOK'
    BY Zenon, <1>10 DEF Reserve, MsgTypeOK, store
  <2>2. SubTypeOK'
    BY Zenon, <1>10 DEF Reserve, SubTypeOK, consumers
  <2>3. ActorTypeOK'
    BY <1>10, BoundsAssumption DEF Reserve, ActorTypeOK
  <2> QED BY Zenon, <2>1, <2>2, <2>3
<1>11. ASSUME NEW n \in 1..MaxSlots, Unreserve(n) PROVE TypeOK'
  <2>1. SatSub(reserved, n) \in Nat
    <3>1. n \in Nat /\ reserved \in Nat
      BY BoundsAssumption DEF ActorTypeOK
    <3> QED BY Zenon, <3>1, SatSubType
  <2>2. MsgTypeOK'
    BY Zenon, <1>11 DEF Unreserve, MsgTypeOK, store
  <2>3. SubTypeOK'
    BY Zenon, <1>11 DEF Unreserve, SubTypeOK, consumers
  <2>4. ActorTypeOK'
    BY <1>11, BoundsAssumption, <2>1 DEF Unreserve, ActorTypeOK
  <2> QED BY Zenon, <2>2, <2>3, <2>4
<1>12. CASE Subscribe
  <2>1. next_sub_id' \in SubId
    BY <1>12, BoundsAssumption DEF Subscribe, SubTypeOK, SubId
  <2>2. subs' \in Seq(SubId)
    BY Zenon, <1>12, <2>1, PushBack DEF Subscribe, SubTypeOK
  <2>3. MsgTypeOK'
    BY Zenon, <1>12 DEF Subscribe, MsgTypeOK, store
  <2>4. SubTypeOK'
    <3>1. next_sub_id' \in 0..MaxSubs
      BY <2>1, BoundsAssumption DEF SubId
    <3> QED BY Zenon, <1>12, <2>2, <3>1 DEF Subscribe, SubTypeOK
  <2>5. ActorTypeOK'
    BY Zenon, <1>12 DEF Subscribe, ActorTypeOK, txns
  <2> QED BY Zenon, <2>3, <2>4, <2>5
<1>13. CASE Stats
  <2>1. MsgTypeOK'
    BY Zenon, <1>13 DEF Stats, MsgTypeOK, store
  <2>2. SubTypeOK'
    BY Zenon, <1>13 DEF Stats, SubTypeOK, consumers
  <2>3. ActorTypeOK'
    BY Zenon, <1>13 DEF Stats, ActorTypeOK, txns
  <2> QED BY Zenon, <2>1, <2>2, <2>3
<1>14. ASSUME NEW s \in SubId, NEW n \in 0..MaxDemand, NEW d \in BOOLEAN,
             Demand(s, n, d)
      PROVE  TypeOK'
  <2>1. MsgTypeOK'
    BY Zenon, <1>14 DEF Demand, MsgTypeOK, store
  <2>2. SubTypeOK'
    <3>1. demand' \in [SubId -> Nat]
      <4>1. demand[s] + n \in Nat
        BY BoundsAssumption DEF SubTypeOK
      <4>2. \/ demand' = [demand EXCEPT ![s] = demand[s] + n]
            \/ demand' = demand
        BY <1>14, Zenon DEF Demand
      <4> QED BY <4>1, <4>2, Zenon DEF SubTypeOK
    <3>2. drain_pending' \in [SubId -> BOOLEAN]
      <4>1. \/ drain_pending' = [drain_pending EXCEPT ![s] = d]
            \/ drain_pending' = drain_pending
        BY <1>14, Zenon DEF Demand
      <4> QED BY <4>1, Zenon DEF SubTypeOK
    <3> QED BY Zenon, <1>14, <3>1, <3>2 DEF Demand, SubTypeOK
  <2>3. ActorTypeOK'
    BY Zenon, <1>14 DEF Demand, ActorTypeOK, txns
  <2> QED BY Zenon, <2>1, <2>2, <2>3
<1>15. ASSUME NEW s \in SubId, Unsubscribe(s) PROVE TypeOK'
  <2>1. MsgTypeOK'
    BY ZenonT(30), <1>15, RemoveType DEF Unsubscribe, MsgTypeOK, store
  <2>2. SubTypeOK'
    BY Zenon, <1>15, RemoveType DEF Unsubscribe, SubTypeOK
  <2>3. ActorTypeOK'
    BY Zenon, <1>15 DEF Unsubscribe, ActorTypeOK, txns
  <2> QED BY <2>1, <2>2, <2>3
<1>16. ASSUME NEW s \in SubId, NEW m \in MsgId, NEW o \in {"acked", "dropped"},
             SettleFinal(s, m, o)
      PROVE  TypeOK'
  <2>1. SatSub(bytes, size[m]) \in Nat
    BY ZenonT(30), SatSubType DEF MsgTypeOK, ActorTypeOK
  <2>2. MsgTypeOK'
    BY Zenon, <1>16 DEF SettleFinal, MsgTypeOK, store, Fates
  <2>3. SubTypeOK'
    BY Zenon, <1>16 DEF SettleFinal, SubTypeOK, consumers
  <2>4. ActorTypeOK'
    BY Zenon, <1>16, <2>1 DEF SettleFinal, ActorTypeOK, txns
  <2> QED BY <2>2, <2>3, <2>4
<1>17. ASSUME NEW s \in SubId, NEW m \in MsgId, SettleRequeue(s, m) PROVE TypeOK'
  <2>1. <<m>> \o ready \in Seq(MsgId)
    BY PushFront, <<m>> \in Seq(MsgId) DEF MsgTypeOK
  <2>2. MsgTypeOK'
    BY ZenonT(30), <1>17, <2>1 DEF SettleRequeue, MsgTypeOK, store
  <2>3. SubTypeOK'
    BY Zenon, <1>17 DEF SettleRequeue, SubTypeOK, consumers
  <2>4. ActorTypeOK'
    BY <1>17 DEF SettleRequeue, ActorTypeOK, txns
  <2> QED BY Zenon, <2>2, <2>3, <2>4
<1>18. ASSUME NEW s \in SubId, NEW m \in MsgId, SettleRequeueFailed(s, m) PROVE TypeOK'
  <2>1. <<m>> \o ready \in Seq(MsgId)
    BY PushFront, <<m>> \in Seq(MsgId) DEF MsgTypeOK
  <2>2. SatSub(bytes, size[m]) \in Nat
    BY ZenonT(30), SatSubType DEF MsgTypeOK, ActorTypeOK
  <2>3. MsgTypeOK'
    <3>1. failures' \in [MsgId -> Nat] /\ owner' \in [MsgId -> {NoSub} \cup SubId]
      BY <1>18 DEF SettleRequeueFailed, MsgTypeOK
    <3>2. ready' \in Seq(MsgId) /\ fate' \in [MsgId -> Fates]
      BY ZenonT(30), <1>18, <2>1 DEF SettleRequeueFailed, MsgTypeOK, Fates
    <3> QED BY Zenon, <1>18, <3>1, <3>2 DEF SettleRequeueFailed, MsgTypeOK
  <2>4. SubTypeOK'
    BY Zenon, <1>18 DEF SettleRequeueFailed, SubTypeOK, consumers
  <2>5. ActorTypeOK'
    BY <1>18, <2>2 DEF SettleRequeueFailed, ActorTypeOK, txns
  <2> QED BY Zenon, <2>3, <2>4, <2>5
<1>19. ASSUME NEW s \in SubId, ConnClosed(s) PROVE TypeOK'
  <2>1. MsgTypeOK'
    BY Zenon, <1>19 DEF ConnClosed, MsgTypeOK, store
  <2>2. SubTypeOK'
    BY Zenon, <1>19 DEF ConnClosed, SubTypeOK
  <2>3. ActorTypeOK'
    BY <1>19 DEF ConnClosed, ActorTypeOK, txns
  <2> QED BY Zenon, <2>1, <2>2, <2>3
<1>20. CASE Tick
  <2>1. MsgTypeOK'
    BY <1>20 DEF Tick, MsgTypeOK, store
  <2>2. SubTypeOK'
    BY <1>20 DEF Tick, SubTypeOK, consumers
  <2>3. ActorTypeOK'
    BY <1>20, BoundsAssumption DEF Tick, ActorTypeOK, txns
  <2> QED BY Zenon, <2>1, <2>2, <2>3
<1>21. CASE UNCHANGED vars
  <2>1. MsgTypeOK'
    BY <1>21 DEF vars, MsgTypeOK, store
  <2>2. SubTypeOK'
    BY <1>21 DEF vars, SubTypeOK, consumers
  <2>3. ActorTypeOK'
    BY <1>21 DEF vars, ActorTypeOK, txns
  <2> QED BY Zenon, <2>1, <2>2, <2>3
<1>22. 1..next_sub_id \subseteq SubId
  BY BoundsAssumption DEF SubTypeOK, SubId
<1> QED
  BY ZenonT(30), <1>1, <1>2, <1>3, <1>4, <1>5, <1>6, <1>7, <1>8, <1>9, <1>10, <1>11, <1>12,
     <1>13, <1>14, <1>15, <1>16, <1>17, <1>18, <1>19, <1>20, <1>21, <1>22
  DEF Next, Dispatching, Settle, SettleStale

(***************************************************************************)
(* Every variable keeps its type, whatever the policy and the load.        *)
(***************************************************************************)
THEOREM TypeCorrect == Spec => []TypeOK
BY TypeInit, TypeStep, PTL DEF Spec

-----------------------------------------------------------------------------
(* The six effects on messages.                                            *)

Departed == {"acked", "dropped", "maxlen", "expired", "limit"}

Untouched == UNCHANGED <<ready, owner, fate, next_msg_id, handed>>

HeadLeaves ==
    /\ ready # <<>> /\ ready' = Tail(ready)
    /\ \E f \in Departed : fate' = [fate EXCEPT ![Head(ready)] = f]
    /\ UNCHANGED <<owner, next_msg_id, handed>>

Admitted ==
    /\ next_msg_id' \in MsgId /\ next_msg_id' = next_msg_id + 1
    /\ ready' = Append(ready, next_msg_id')
    /\ fate' = [fate EXCEPT ![next_msg_id'] = "held"]
    /\ UNCHANGED <<owner, handed>>

Delivered ==
    /\ ready # <<>> /\ ready' = Tail(ready)
    /\ \E s \in SubId : /\ owner' = [owner EXCEPT ![Head(ready)] = s]
                        /\ handed' = handed \cup {<<s, Head(ready)>>}
    /\ UNCHANGED <<fate, next_msg_id>>

Finished ==
    \E m \in MsgId, f \in Departed :
        /\ owner[m] # NoSub
        /\ owner' = [owner EXCEPT ![m] = NoSub]
        /\ fate' = [fate EXCEPT ![m] = f]
        /\ UNCHANGED <<ready, next_msg_id, handed>>

Requeued ==
    \E s \in SubId, S \in SUBSET MsgId :
        /\ \A m \in S : owner[m] = s
        /\ \E q \in OldestFirst(S) : ready' = q \o ready
        /\ owner' = [m \in MsgId |-> IF m \in S THEN NoSub ELSE owner[m]]
        /\ UNCHANGED <<fate, next_msg_id, handed>>

MsgStep == Untouched \/ HeadLeaves \/ Admitted \/ Delivered \/ Finished \/ Requeued

(***************************************************************************)
(* One message alone is listed as itself.                                  *)
(***************************************************************************)
LEMMA OldestFirstOne ==
    ASSUME NEW m \in MsgId
    PROVE  <<m>> \in OldestFirst({m})
<1>1. 1 \in 0..MaxMsgs
  BY BoundsAssumption DEF MsgId
<1>2. <<m>> \in [1..1 -> {m}] /\ DOMAIN <<m>> = 1..1
  OBVIOUS
<1>3. \A i, j \in 1..1 : ~(i < j)
  OBVIOUS
<1>4. \A k \in {m} : \E i \in 1..1 : <<m>>[i] = k
  <2>1. 1 \in 1..1 /\ <<m>>[1] = m
    OBVIOUS
  <2> QED BY <2>1
<1> QED
  BY <1>1, <1>2, <1>3, <1>4 DEF OldestFirst

LEMMA RequeueOne ==
    ASSUME TypeOK, NEW s \in SubId, NEW m \in MsgId, owner[m] = s,
           owner' = [owner EXCEPT ![m] = NoSub],
           ready' = <<m>> \o ready,
           UNCHANGED <<fate, next_msg_id, handed>>
    PROVE  Requeued
<1>1. owner' = [k \in MsgId |-> IF k \in {m} THEN NoSub ELSE owner[k]]
  BY ZenonT(30) DEF TypeOK, MsgTypeOK
<1>2. {m} \in SUBSET MsgId /\ \A k \in {m} : owner[k] = s
  BY Zenon
<1>3. \E q \in OldestFirst({m}) : ready' = q \o ready
  BY ZenonT(30), OldestFirstOne
<1> QED
  BY ZenonT(30), <1>1, <1>2, <1>3 DEF Requeued

(***************************************************************************)
(* Every step has one of the six effects.                                  *)
(***************************************************************************)
LEMMA Effects ==
    ASSUME TypeOK, [Next]_vars
    PROVE  MsgStep
<1>1. CASE EvictHead
  BY Zenon, <1>1 DEF EvictHead, CanEvict, HeadLeaves, Departed, MsgStep
<1>2. CASE Admit
  <2>1. next_msg_id' \in MsgId
    BY <1>2, BoundsAssumption DEF Admit, TypeOK, MsgTypeOK, MsgId
  <2> QED BY <1>2, <2>1 DEF Admit, Admitted, MsgStep
<1>3. CASE ExpireHead
  BY SMTT(30), <1>3 DEF ExpireHead, HeadExpired, HeadLeaves, Departed, MsgStep
<1>4. ASSUME NEW i \in 1..Len(subs), Deliver(i) PROVE MsgStep
  BY ZenonT(30), <1>4, NextRR DEF Deliver, Delivered, MsgStep, TypeOK
<1>5. ASSUME NEW s \in SubId, Remove(s), UNCHANGED <<fate, next_msg_id, handed>>
      PROVE  MsgStep
  <2>1. /\ Held(s) \in SUBSET MsgId /\ \A m \in Held(s) : owner[m] = s
        /\ \E q \in OldestFirst(Held(s)) : ready' = q \o ready
        /\ owner' = [m \in MsgId |-> IF m \in Held(s) THEN NoSub ELSE owner[m]]
    BY ZenonT(30), <1>5 DEF Remove, Held
  <2>2. Requeued
    BY ZenonT(30), <1>5, <2>1 DEF Requeued
  <2> QED BY <2>2 DEF MsgStep
<1>6. ASSUME NEW i \in 1..Len(subs), DeliverFailed(i) PROVE MsgStep
  BY <1>5, <1>6, NextRR DEF DeliverFailed, TypeOK
<1>7. ASSUME NEW s \in SubId, Unsubscribe(s) PROVE MsgStep
  BY <1>5, <1>7 DEF Unsubscribe
<1>8. ASSUME NEW s \in SubId, NEW m \in MsgId, NEW o \in {"acked", "dropped"},
             SettleFinal(s, m, o)
      PROVE  MsgStep
  <2>1. owner[m] # NoSub
    BY <1>8, BoundsAssumption DEF SettleFinal, SubId
  <2> QED BY Zenon, <1>8, <2>1 DEF SettleFinal, Finished, Departed, MsgStep
<1>9. ASSUME NEW s \in SubId, NEW m \in MsgId, SettleRequeue(s, m) PROVE MsgStep
  BY ZenonT(30), <1>9, RequeueOne DEF SettleRequeue, MsgStep
<1>10. ASSUME NEW s \in SubId, NEW m \in MsgId, SettleRequeueFailed(s, m) PROVE MsgStep
  <2>1. owner[m] # NoSub
    BY <1>10, BoundsAssumption DEF SettleRequeueFailed, SubId
  <2>2. CASE attempts_exhausted(failures[m] + 1)
    BY ZenonT(30), <1>10, <2>1, <2>2 DEF SettleRequeueFailed, Finished, Departed, MsgStep
  <2>3. CASE ~attempts_exhausted(failures[m] + 1)
    BY ZenonT(30), <1>10, <2>3, RequeueOne DEF SettleRequeueFailed, MsgStep
  <2> QED BY <2>2, <2>3
<1>11. CASE \/ Refuse \/ BeginDispatch \/ EndDispatch \/ Subscribe \/ Stats \/ Tick
            \/ UNCHANGED vars
  BY <1>11 DEF Refuse, BeginDispatch, EndDispatch, Subscribe, Stats, Tick, vars,
     Untouched, MsgStep
<1>12. ASSUME NEW sz, NEW r, Publish(sz, r) PROVE MsgStep
  BY <1>12 DEF Publish, Untouched, MsgStep
<1>13. ASSUME NEW n, Reserve(n) \/ Unreserve(n) PROVE MsgStep
  BY <1>13 DEF Reserve, Unreserve, Untouched, MsgStep
<1>14. ASSUME NEW s, NEW n, NEW d, Demand(s, n, d) PROVE MsgStep
  BY <1>14 DEF Demand, Untouched, MsgStep
<1>15. ASSUME NEW s, ConnClosed(s) PROVE MsgStep
  BY <1>15 DEF ConnClosed, Untouched, MsgStep
<1>16. 1..next_sub_id \subseteq SubId
  BY BoundsAssumption DEF TypeOK, SubTypeOK, SubId
<1> QED
  BY ZenonT(30), <1>1, <1>2, <1>3, <1>4, <1>6, <1>7, <1>8, <1>9, <1>10, <1>11, <1>12, <1>13,
     <1>14, <1>15, <1>16
  DEF Next, Dispatching, Settle, SettleStale

-----------------------------------------------------------------------------
(* The inductive invariant on messages.                                    *)

(***************************************************************************)
(* What strengthens Conservation and FirstDeliveryOrder: a message in      *)
(* flight was delivered, and only admitted messages are.                   *)
(***************************************************************************)
Seen(m) == ~Fresh(m)

HandedOK ==
    \A m \in MsgId : /\ owner[m] # NoSub => Seen(m)
                     /\ Seen(m) => m <= next_msg_id

MsgInv == Conservation /\ FirstDeliveryOrder /\ HandedOK

LEMMA MsgInit == Init => MsgInv
BY BoundsAssumption
   DEF Init, MsgInv, Conservation, ReadyOnce, IsReady, FirstDeliveryOrder, HandedOK,
       Seen, Fresh, MsgId

LEMMA ReadyFacts ==
    /\ ReadyOnce <=> Once(ready)
    /\ \A m : IsReady(m) <=> Occurs(ready, m)
BY Zenon DEF ReadyOnce, Once, IsReady, Occurs

(***************************************************************************)
(* Each effect preserves Conservation.                                     *)
(***************************************************************************)
LEMMA ConservationStep ==
    ASSUME TypeOK, Conservation, MsgStep
    PROVE  Conservation'
<1> DEFINE In(m) == Occurs(ready, m)
<1>0. /\ Once(ready)
      /\ \A m \in MsgId : /\ (fate[m] = "held") <=> (In(m) \/ owner[m] # NoSub)
                          /\ ~(In(m) /\ owner[m] # NoSub)
                          /\ (fate[m] = "new") <=> (m > next_msg_id)
  BY Zenon, ReadyFacts DEF Conservation
<1> SUFFICES /\ Once(ready')
             /\ \A m \in MsgId :
                   /\ (fate'[m] = "held") <=> (Occurs(ready', m) \/ owner'[m] # NoSub)
                   /\ ~(Occurs(ready', m) /\ owner'[m] # NoSub)
                   /\ (fate'[m] = "new") <=> (m > next_msg_id')
  BY Zenon DEF Conservation, ReadyOnce, IsReady, Once, Occurs
<1>a. /\ ready \in Seq(MsgId) /\ owner \in [MsgId -> {NoSub} \cup SubId]
      /\ fate \in [MsgId -> Fates] /\ next_msg_id \in 0..MaxMsgs
  BY Zenon DEF TypeOK, MsgTypeOK
<1>1. CASE Untouched
  BY Zenon, <1>0, <1>1 DEF Untouched
<1>2. CASE HeadLeaves
  <2>1. /\ Once(ready') /\ Head(ready) \in MsgId /\ In(Head(ready))
        /\ \A m : Occurs(ready', m) <=> In(m) /\ m # Head(ready)
    <3>1. /\ Once(ready') /\ Head(ready) \in MsgId /\ Head(ready) = ready[1]
          /\ Len(ready) \in Nat /\ Len(ready) >= 1
          /\ \A m : Occurs(ready', m) <=> In(m) /\ m # Head(ready)
      BY SMTT(30), <1>0, <1>a, <1>2, PopFront DEF HeadLeaves
    <3>2. In(Head(ready))
      BY <3>1 DEF Occurs
    <3> QED BY <3>1, <3>2
  <2>2. PICK f \in Departed : fate' = [fate EXCEPT ![Head(ready)] = f]
    BY ZenonT(30), <1>2 DEF HeadLeaves
  <2>3. f # "held" /\ f # "new"
    BY Zenon DEF Departed
  <2>4. owner' = owner /\ next_msg_id' = next_msg_id
    BY Zenon, <1>2 DEF HeadLeaves
  <2> HIDE DEF In
  <2> QED BY <1>0, <1>a, <2>1, <2>2, <2>3, <2>4
<1>3. CASE Admitted
  <2>1. ~In(next_msg_id') /\ owner[next_msg_id'] = NoSub
    <3>1. next_msg_id' \in MsgId /\ next_msg_id' > next_msg_id
      BY <1>3, <1>a DEF Admitted
    <3>2. fate[next_msg_id'] = "new"
      BY <1>0, <3>1
    <3> HIDE DEF In
    <3> QED BY <1>0, <3>1, <3>2
  <2>2. /\ Once(ready')
        /\ \A m : Occurs(ready', m) <=> In(m) \/ m = next_msg_id'
    BY <1>0, <1>a, <1>3, <2>1, PushBack DEF Admitted
  <2>3. \A m \in MsgId : m > next_msg_id' <=> m > next_msg_id /\ m # next_msg_id'
    BY <1>a, <1>3, BoundsAssumption DEF Admitted, MsgId
  <2>4. /\ next_msg_id' \in MsgId /\ owner' = owner
        /\ fate' = [fate EXCEPT ![next_msg_id'] = "held"]
    BY Zenon, <1>3 DEF Admitted
  <2> HIDE DEF In
  <2> QED BY <1>0, <1>a, <2>1, <2>2, <2>3, <2>4
<1>4. CASE Delivered
  <2>1. /\ Once(ready') /\ Head(ready) \in MsgId /\ In(Head(ready))
        /\ \A m : Occurs(ready', m) <=> In(m) /\ m # Head(ready)
    <3>1. /\ Once(ready') /\ Head(ready) \in MsgId /\ Head(ready) = ready[1]
          /\ Len(ready) \in Nat /\ Len(ready) >= 1
          /\ \A m : Occurs(ready', m) <=> In(m) /\ m # Head(ready)
      BY <1>0, <1>a, <1>4, PopFront DEF Delivered
    <3>2. In(Head(ready))
      BY <3>1 DEF Occurs
    <3> QED BY Zenon, <3>1, <3>2
  <2>2. PICK s \in SubId : owner' = [owner EXCEPT ![Head(ready)] = s]
    BY ZenonT(30), <1>4 DEF Delivered
  <2>3. s # NoSub
    BY BoundsAssumption DEF SubId
  <2>4. fate' = fate /\ next_msg_id' = next_msg_id
    BY <1>4 DEF Delivered
  <2> HIDE DEF In
  <2> QED BY <1>0, <1>a, <2>1, <2>2, <2>3, <2>4
<1>5. CASE Finished
  <2>1. PICK m \in MsgId, f \in Departed :
           /\ owner[m] # NoSub
           /\ owner' = [owner EXCEPT ![m] = NoSub]
           /\ fate' = [fate EXCEPT ![m] = f]
           /\ UNCHANGED <<ready, next_msg_id, handed>>
    BY ZenonT(30), <1>5 DEF Finished
  <2>2. f # "held" /\ f # "new"
    BY Zenon DEF Departed
  <2> HIDE DEF In
  <2>3. fate[m] # "new"
    BY <1>0, <2>1
  <2>4. ready' = ready /\ \A k : Occurs(ready', k) <=> In(k)
    BY <2>1 DEF In
  <2> QED BY <1>0, <1>a, <2>1, <2>2, <2>3, <2>4
<1>6. CASE Requeued
  <2>1. PICK s \in SubId, S \in SUBSET MsgId :
           /\ \A m \in S : owner[m] = s
           /\ \E q \in OldestFirst(S) : ready' = q \o ready
           /\ owner' = [m \in MsgId |-> IF m \in S THEN NoSub ELSE owner[m]]
           /\ UNCHANGED <<fate, next_msg_id, handed>>
    BY ZenonT(30), <1>6 DEF Requeued
  <2>2. PICK q \in OldestFirst(S) : ready' = q \o ready
    BY SMTT(30), <2>1
  <2>3. q \in Seq(MsgId) /\ Once(q) /\ \A m : Occurs(q, m) <=> m \in S
    BY OldestFirstLists
  <2>4. s # NoSub
    BY BoundsAssumption DEF SubId
  <2>5. \A m : ~(Occurs(q, m) /\ In(m))
    <3> HIDE DEF In
    <3> QED BY <1>0, <2>1, <2>3, <2>4
  <2>6. Once(ready') /\ \A m : Occurs(ready', m) <=> m \in S \/ In(m)
    BY <1>0, <1>a, <2>2, <2>3, <2>5, PushFront
  <2> HIDE DEF In
  <2> QED BY <1>0, <1>a, <2>1, <2>4, <2>6
<1> QED
  BY <1>1, <1>2, <1>3, <1>4, <1>5, <1>6 DEF MsgStep

(***************************************************************************)
(* Who has been seen after a step: a delivery adds the head, nothing else  *)
(* changes it.                                                             *)
(***************************************************************************)
LEMMA SeenStep ==
    ASSUME TypeOK, MsgStep
    PROVE  \/ Delivered /\ \A m \in MsgId : Seen(m)' <=> Seen(m) \/ m = Head(ready)
           \/ ~Delivered /\ \A m \in MsgId : Seen(m)' <=> Seen(m)
<1>1. CASE Delivered
  <2>1. PICK s \in SubId : handed' = handed \cup {<<s, Head(ready)>>}
    BY <1>1 DEF Delivered
  <2> QED BY Zenon, <1>1, <2>1 DEF Seen, Fresh
<1>2. CASE ~Delivered
  <2>1. handed' = handed
    BY <1>2 DEF MsgStep, Untouched, HeadLeaves, Admitted, Finished, Requeued
  <2> QED BY <1>2, <2>1 DEF Seen, Fresh
<1> QED BY <1>1, <1>2

(***************************************************************************)
(* Each effect preserves HandedOK and FirstDeliveryOrder.                  *)
(***************************************************************************)
LEMMA HandedStep ==
    ASSUME TypeOK, MsgInv, MsgStep
    PROVE  HandedOK'
<1> USE DEF MsgInv, HandedOK
<1>a. /\ ready \in Seq(MsgId) /\ owner \in [MsgId -> {NoSub} \cup SubId]
      /\ next_msg_id \in 0..MaxMsgs
  BY DEF TypeOK, MsgTypeOK
<1>1. CASE Delivered
  <2>1. Head(ready) \in MsgId /\ IsReady(Head(ready))
    <3>1. Head(ready) \in MsgId /\ Head(ready) = ready[1] /\ 1 \in 1..Len(ready)
      BY <1>a, <1>1, PopFront DEF Delivered
    <3> QED BY <3>1 DEF IsReady
  <2>2. fate[Head(ready)] # "new"
    BY <2>1 DEF Conservation
  <2>3. Head(ready) <= next_msg_id
    BY <1>a, <2>1, <2>2, BoundsAssumption DEF Conservation, MsgId
  <2>4. \A m \in MsgId : Seen(m)' <=> Seen(m) \/ m = Head(ready)
    BY <1>1, SeenStep
  <2>5. \A m \in MsgId : owner'[m] # NoSub => owner[m] # NoSub \/ m = Head(ready)
    BY <1>1, <1>a DEF Delivered
  <2>6. next_msg_id' = next_msg_id
    BY <1>1 DEF Delivered
  <2> QED BY <2>1, <2>3, <2>4, <2>5, <2>6
<1>2. CASE ~Delivered
  <2>1. \A m \in MsgId : Seen(m)' <=> Seen(m)
    BY SMTT(30), <1>2, SeenStep
  <2>2. \A m \in MsgId : owner'[m] # NoSub => owner[m] # NoSub
    BY <1>2, <1>a DEF MsgStep, Untouched, HeadLeaves, Admitted, Finished, Requeued
  <2>3. next_msg_id' = next_msg_id \/ next_msg_id' = next_msg_id + 1
    BY Zenon, <1>2 DEF MsgStep, Untouched, HeadLeaves, Admitted, Finished, Requeued
  <2>4. \A m \in MsgId : m <= next_msg_id => m <= next_msg_id'
    BY <1>a, <2>3, BoundsAssumption DEF MsgId
  <2> QED BY <2>1, <2>2, <2>4
<1> QED BY <1>1, <1>2

LEMMA OrderStep ==
    ASSUME TypeOK, MsgInv, MsgStep
    PROVE  FirstDeliveryOrder'
<1>a. /\ ready \in Seq(MsgId) /\ Len(ready) \in Nat
      /\ next_msg_id \in 0..MaxMsgs
  BY DEF TypeOK, MsgTypeOK
<1>b. ASSUME NEW j \in 1..Len(ready), ~Seen(ready[j])
      PROVE  /\ \A i \in 1..j - 1 : ready[i] < ready[j]
             /\ \A m \in MsgId : Seen(m) => m < ready[j]
  BY Zenon, <1>b DEF MsgInv, FirstDeliveryOrder, Seen
<1> SUFFICES ASSUME NEW j \in 1..Len(ready'), NEW e, e = ready'[j], ~Seen(e)'
             PROVE  /\ \A i \in 1..j - 1 : ready'[i] < e
                    /\ \A m \in MsgId : Seen(m)' => m < e
  BY DEF FirstDeliveryOrder, Seen, Fresh
<1>1. CASE Untouched \/ Finished
  <2>1. ready' = ready /\ handed' = handed
    BY <1>1 DEF Untouched, Finished
  <2>2. \A m : Seen(m)' <=> Seen(m)
    BY <2>1 DEF Seen, Fresh
  <2> QED BY <1>b, <2>1, <2>2
<1>2. CASE HeadLeaves \/ Delivered
  <2>1. ready # <<>> /\ ready' = Tail(ready)
    BY <1>2 DEF HeadLeaves, Delivered
  <2>2. /\ Len(ready') = Len(ready) - 1 /\ Head(ready) = ready[1] /\ Head(ready) \in MsgId
        /\ \A i \in 1..Len(ready) - 1 : ready'[i] = ready[i + 1]
    BY <1>a, <2>1, PopFront
  <2>3. /\ j + 1 \in 1..Len(ready) /\ e = ready[j + 1]
        /\ e \in MsgId
    BY <1>a, <2>2
  <2>4. /\ \A m \in MsgId : Seen(m) => Seen(m)'
        /\ \A m \in MsgId : Seen(m)' => Seen(m) \/ m = Head(ready)
    BY SeenStep
  <2>5. /\ \A i \in 1..j + 1 - 1 : ready[i] < e
        /\ \A m \in MsgId : Seen(m) => m < e
    BY <1>b, <2>3, <2>4
  <2>6. ready[1] < e
    BY SMTT(30), <1>a, <2>2, <2>5
  <2>7. \A i \in 1..j - 1 : ready'[i] = ready[i + 1] /\ i + 1 \in 1..j + 1 - 1
    BY <1>a, <2>2, <2>3
  <2> QED BY <2>2, <2>3, <2>4, <2>5, <2>6, <2>7
<1>3. CASE Admitted
  <2>1. /\ next_msg_id' \in MsgId /\ next_msg_id' = next_msg_id + 1
        /\ ready' = Append(ready, next_msg_id') /\ handed' = handed
    BY <1>3 DEF Admitted
  <2>2. /\ Len(ready') = Len(ready) + 1
        /\ \A i \in 1..Len(ready) : ready'[i] = ready[i]
        /\ ready'[Len(ready) + 1] = next_msg_id'
    <3>1. PICK n \in MsgId : n = next_msg_id'
      BY <2>1
    <3>2. /\ Len(Append(ready, n)) = Len(ready) + 1
          /\ \A i \in 1..Len(ready) : Append(ready, n)[i] = ready[i]
          /\ Append(ready, n)[Len(ready) + 1] = n
      BY <1>a
    <3> QED BY <2>1, <3>1, <3>2, Zenon
  <2>3. \A m : Seen(m)' <=> Seen(m)
    BY <2>1 DEF Seen, Fresh
  <2>4. CASE j \in 1..Len(ready)
    <3>1. \A i \in 1..j - 1 : ready'[i] = ready[i]
      BY <1>a, <2>2, <2>4
    <3> QED BY SMTT(30), <1>b, <2>2, <2>3, <2>4, <3>1
  <2>5. CASE j = Len(ready) + 1
    <3>1. \A i \in 1..Len(ready) : ready[i] \in MsgId /\ IsReady(ready[i])
      BY <1>a DEF IsReady
    <3>2. \A i \in 1..Len(ready) : fate[ready[i]] # "new"
      BY <3>1 DEF MsgInv, Conservation
    <3>3. \A i \in 1..Len(ready) : ready[i] < next_msg_id'
      <4>1. \A m \in MsgId : fate[m] # "new" => ~(m > next_msg_id)
        BY Zenon DEF MsgInv, Conservation
      <4>2. next_msg_id \in Nat /\ \A m \in MsgId : m \in Nat
        BY BoundsAssumption DEF TypeOK, MsgTypeOK, MsgId
      <4>3. \A m \in MsgId : fate[m] # "new" => m < next_msg_id + 1
        BY <4>1, <4>2
      <4> QED BY <2>1, <3>1, <3>2, <4>3, Zenon
    <3>4. \A m \in MsgId : Seen(m) => m < next_msg_id'
      BY <1>a, <2>1, BoundsAssumption DEF MsgInv, HandedOK, MsgId
    <3>5. \A i \in 1..j - 1 : i \in 1..Len(ready) /\ ready'[i] = ready[i]
      BY <1>a, <2>2, <2>5
    <3> QED BY <2>2, <2>3, <2>5, <3>3, <3>4, <3>5
  <2> QED BY <1>a, <2>2, <2>4, <2>5
<1>4. CASE Requeued
  <2>1. PICK s \in SubId, S \in SUBSET MsgId :
           /\ \A m \in S : owner[m] = s
           /\ \E q \in OldestFirst(S) : ready' = q \o ready
           /\ UNCHANGED <<fate, next_msg_id, handed>>
    BY ZenonT(30), <1>4 DEF Requeued
  <2>2. PICK q \in OldestFirst(S) : ready' = q \o ready
    BY Zenon, <2>1
  <2>3. q \in Seq(MsgId) /\ \A m : Occurs(q, m) <=> m \in S
    BY Zenon, OldestFirstLists
  <2>4. /\ Len(q) \in Nat /\ Len(ready') = Len(q) + Len(ready)
        /\ \A i \in 1..Len(q) : ready'[i] = q[i]
        /\ \A i \in 1..Len(q) + Len(ready) :
              i > Len(q) => ready'[i] = ready[i - Len(q)]
    BY <1>a, <2>2, <2>3, PushFront
  <2>5. \A m : Seen(m)' <=> Seen(m)
    BY Zenon, <2>1 DEF Seen, Fresh
  <2>6. s # NoSub
    BY BoundsAssumption DEF SubId
  <2>7. \A i \in 1..Len(q) : ready'[i] \in MsgId /\ Seen(ready'[i])
    <3>1. \A i \in 1..Len(q) : q[i] \in S
      BY <2>3 DEF Occurs
    <3> QED BY Zenon, <2>1, <2>4, <2>6, <3>1 DEF MsgInv, HandedOK
  <2>8. /\ j > Len(q) /\ j - Len(q) \in 1..Len(ready)
        /\ e = ready[j - Len(q)]
    <3>1. ~(j \in 1..Len(q))
      BY SMTT(30), <2>5, <2>7, e = ready'[j]
    <3>2. j > Len(q) /\ j \in 1..Len(q) + Len(ready) /\ j - Len(q) \in 1..Len(ready)
      BY SMTT(30), <1>a, <2>4, <3>1
    <3> QED BY <2>4, <3>2
  <2>9. /\ \A i \in 1..j - Len(q) - 1 : ready[i] < e
        /\ \A m \in MsgId : Seen(m) => m < e
    BY <1>b, <2>5, <2>8
  <2>10. ASSUME NEW i \in 1..j - 1 PROVE ready'[i] < e
    <3>1. CASE i \in 1..Len(q)
      BY <2>7, <2>8, <2>9, <3>1
    <3>2. CASE i > Len(q)
      <4>1. i - Len(q) \in 1..j - Len(q) - 1 /\ i \in 1..Len(q) + Len(ready)
        BY <1>a, <2>4, <2>8, <3>2
      <4> QED BY SMTT(30), <2>4, <2>8, <2>9, <3>2, <4>1
    <3> QED BY <2>4, <3>1, <3>2
  <2> QED BY <2>5, <2>8, <2>9, <2>10
<1> QED
  BY <1>1, <1>2, <1>3, <1>4 DEF MsgStep

LEMMA MsgInvStep == TypeOK /\ MsgInv /\ [Next]_vars => MsgInv'
BY Effects, ConservationStep, HandedStep, OrderStep DEF MsgInv

LEMMA MsgInvariant == Spec => []MsgInv
BY MsgInit, MsgInvStep, TypeCorrect, PTL DEF Spec

(***************************************************************************)
(* No message is lost or duplicated, for every policy and every            *)
(* interleaving of publishes, settlements, unsubscriptions and connection  *)
(* failures.                                                               *)
(***************************************************************************)
THEOREM NothingLostOrDuplicated == Spec => []Conservation
BY MsgInvariant, PTL DEF MsgInv

(***************************************************************************)
(* First deliveries are in publish order, whatever is requeued.            *)
(***************************************************************************)
THEOREM FirstDeliveriesInOrder == Spec => []FirstDeliveryOrder
BY MsgInvariant, PTL DEF MsgInv

-----------------------------------------------------------------------------
(* The actor implements LeaseQueue.                                        *)

SeenSet == {m \in MsgId : ~Fresh(m)}

LEMMA StatusIs ==
    ASSUME NEW m \in MsgId
    PROVE  /\ (status[m] = "new") <=> (fate[m] = "new")
           /\ (status[m] = "available") <=> (fate[m] = "held" /\ owner[m] = NoSub)
           /\ (status[m] = "leased") <=> (fate[m] = "held" /\ owner[m] # NoSub)
           /\ (status[m] = "gone") <=> (fate[m] # "new" /\ fate[m] # "held")
BY Zenon DEF status

LEMMA LeaseInit == Init => Lease!Init
BY DEF Init, Lease!Init, status, Fresh

LEMMA LeaseStep ==
    ASSUME TypeOK, MsgInv, MsgStep
    PROVE  [Lease!Next]_(Lease!vars)
<1>a. /\ ready \in Seq(MsgId) /\ owner \in [MsgId -> {NoSub} \cup SubId]
      /\ fate \in [MsgId -> Fates] /\ next_msg_id \in 0..MaxMsgs
      /\ status = [m \in MsgId |-> status[m]] /\ DOMAIN status' = MsgId
  BY Zenon DEF TypeOK, MsgTypeOK, status
<1>s. (\A m \in MsgId : Seen(m)' <=> Seen(m)) => SeenSet' = SeenSet
  BY Zenon DEF SeenSet, Seen, Fresh
<1>h. ASSUME ready # <<>>
      PROVE  /\ Head(ready) \in MsgId /\ IsReady(Head(ready))
             /\ fate[Head(ready)] = "held" /\ owner[Head(ready)] = NoSub
  <2>1. Head(ready) \in MsgId /\ Head(ready) = ready[1] /\ 1 \in 1..Len(ready)
    BY <1>a, <1>h, PopFront
  <2>2. IsReady(Head(ready))
    BY Zenon, <2>1 DEF IsReady
  <2> QED BY Zenon, <2>1, <2>2 DEF MsgInv, Conservation
<1>1. CASE Untouched
  BY <1>1 DEF Untouched, Lease!vars, status, Fresh
<1>2. CASE HeadLeaves
  <2>1. PICK f \in Departed : fate' = [fate EXCEPT ![Head(ready)] = f]
    BY ZenonT(30), <1>2 DEF HeadLeaves
  <2>2. /\ Head(ready) \in MsgId /\ fate[Head(ready)] = "held"
        /\ owner[Head(ready)] = NoSub /\ owner' = owner /\ handed' = handed
    BY <1>2, <1>h DEF HeadLeaves
  <2>3. status' = [status EXCEPT ![Head(ready)] = "gone"]
    BY ZenonT(30), <1>a, <2>1, <2>2 DEF status, Departed
  <2>4. owner' = [owner EXCEPT ![Head(ready)] = NoSub]
    BY <1>a, <2>2
  <2>5. UNCHANGED SeenSet
    BY <2>2 DEF SeenSet, Fresh
  <2>6. Lease!Discard(Head(ready))
    BY ZenonT(30), <2>2, <2>3, <2>4, <2>5, StatusIs DEF Lease!Discard, SeenSet
  <2> QED BY <2>2, <2>6 DEF Lease!Next
<1>3. CASE Admitted
  <2>1. /\ next_msg_id' \in MsgId /\ next_msg_id' = next_msg_id + 1
        /\ fate' = [fate EXCEPT ![next_msg_id'] = "held"]
        /\ owner' = owner /\ handed' = handed
    BY Zenon, <1>3 DEF Admitted
  <2> DEFINE n == next_msg_id'
  <2>2. /\ n > next_msg_id
        /\ \A k \in MsgId : k < n => ~(k > next_msg_id)
    BY SMTT(30), <1>a, <2>1, BoundsAssumption DEF MsgId
  <2>3. fate[n] = "new" /\ \A k \in MsgId : k < n => fate[k] # "new"
    BY <2>1, <2>2 DEF MsgInv, Conservation
  <2>4. owner[n] = NoSub
    BY <2>1, <2>3 DEF MsgInv, Conservation
  <2>5. status' = [status EXCEPT ![n] = "available"]
    BY ZenonT(30), <1>a, <2>1, <2>4 DEF status
  <2>6. UNCHANGED SeenSet
    BY <2>1 DEF SeenSet, Fresh
  <2>7. \E m \in MsgId : Lease!Enqueue(m)
    <3>1. n \in MsgId
      BY <2>1
    <3> HIDE DEF n
    <3> QED BY Zenon, <2>1, <2>3, <2>5, <2>6, <3>1, StatusIs DEF Lease!Enqueue, SeenSet
  <2> QED BY Zenon, <2>7 DEF Lease!Next
<1>4. CASE Delivered
  <2>1. PICK s \in SubId : /\ owner' = [owner EXCEPT ![Head(ready)] = s]
                           /\ handed' = handed \cup {<<s, Head(ready)>>}
    BY ZenonT(30), <1>4 DEF Delivered
  <2>2. /\ ready # <<>> /\ fate' = fate
        /\ Head(ready) \in MsgId /\ fate[Head(ready)] = "held" /\ owner[Head(ready)] = NoSub
    BY <1>4, <1>h DEF Delivered
  <2>3. s # NoSub
    BY BoundsAssumption DEF SubId
  <2>4. status' = [status EXCEPT ![Head(ready)] = "leased"]
    BY ZenonT(30), <1>a, <2>1, <2>2, <2>3 DEF status
  <2>5. SeenSet' = SeenSet \cup {Head(ready)}
    BY <1>4, <2>2, SeenStep DEF SeenSet, Seen
  <2>6. ASSUME Head(ready) \notin SeenSet, NEW k \in MsgId, k < Head(ready),
               status[k] = "available"
        PROVE  k \in SeenSet
    <3>1. IsReady(k)
      BY <2>6, StatusIs DEF MsgInv, Conservation
    <3>2. PICK i \in 1..Len(ready) : ready[i] = k
      BY <3>1 DEF IsReady
    <3>3. Head(ready) = ready[1] /\ Len(ready) \in Nat
      BY <1>a, <2>2, PopFront
    <3>4. i # 1 /\ 1 \in 1..i - 1
      BY SMTT(30), <2>2, <2>6, <3>2, <3>3, BoundsAssumption DEF MsgId
    <3>5. ASSUME Fresh(k) PROVE FALSE
      <4>1. ready[1] < k
        BY SMTT(30), <3>2, <3>4, <3>5 DEF MsgInv, FirstDeliveryOrder
      <4> QED BY <2>2, <2>6, <3>3, <4>1, BoundsAssumption DEF MsgId
    <3> QED BY <3>5 DEF SeenSet
  <2>7. Lease!Lease(Head(ready), s)
    BY <2>1, <2>2, <2>4, <2>5, <2>6, StatusIs DEF Lease!Lease, SeenSet
  <2> QED BY <2>2, <2>7 DEF Lease!Next
<1>5. CASE Finished
  <2>1. PICK m \in MsgId, f \in Departed :
           /\ owner[m] # NoSub
           /\ owner' = [owner EXCEPT ![m] = NoSub]
           /\ fate' = [fate EXCEPT ![m] = f]
           /\ UNCHANGED <<ready, next_msg_id, handed>>
    BY ZenonT(30), <1>5 DEF Finished
  <2>2. fate[m] = "held"
    BY <2>1 DEF MsgInv, Conservation
  <2>3. status' = [status EXCEPT ![m] = "gone"]
    BY ZenonT(30), <1>a, <2>1 DEF status, Departed
  <2>4. UNCHANGED SeenSet
    BY Zenon, <2>1 DEF SeenSet, Fresh
  <2>5. Lease!Discard(m)
    BY <2>1, <2>2, <2>3, <2>4, StatusIs DEF Lease!Discard, SeenSet
  <2> QED BY Zenon, <2>5 DEF Lease!Next
<1>6. CASE Requeued
  <2>1. PICK s \in SubId, S \in SUBSET MsgId :
           /\ \A m \in S : owner[m] = s
           /\ owner' = [m \in MsgId |-> IF m \in S THEN NoSub ELSE owner[m]]
           /\ UNCHANGED <<fate, next_msg_id, handed>>
    BY SMTT(30), <1>6 DEF Requeued
  <2>2. s # NoSub
    BY BoundsAssumption DEF SubId
  <2>3. \A m \in S : fate[m] = "held"
    BY <2>1, <2>2 DEF MsgInv, Conservation
  <2>4. status' = [m \in MsgId |-> IF m \in S THEN "available" ELSE status[m]]
    BY <1>a, <2>1, <2>3 DEF status
  <2>5. UNCHANGED SeenSet
    BY Zenon, <2>1 DEF SeenSet, Fresh
  <2>6. Lease!Release(s, S)
    BY <2>1, <2>4, <2>5 DEF Lease!Release, SeenSet
  <2> QED BY Zenon, <2>6 DEF Lease!Next
<1> QED
  BY Zenon, <1>1, <1>2, <1>3, <1>4, <1>5, <1>6 DEF MsgStep

(***************************************************************************)
(* The transient queue actor implements LeaseQueue: every behaviour of the *)
(* actor is one the abstract queue allows.                                 *)
(***************************************************************************)
THEOREM ActorImplementsLeaseQueue == Spec => ImplementsLeaseQueue
<1>1. TypeOK /\ MsgInv /\ [Next]_vars => [Lease!Next]_(Lease!vars)
  BY Zenon, Effects, LeaseStep
<1> QED
  BY <1>1, LeaseInit, TypeCorrect, MsgInvariant, PTL DEF Spec, ImplementsLeaseQueue, Lease!Spec

-----------------------------------------------------------------------------
(* No lease is stranded with a subscriber that left.                       *)

(***************************************************************************)
(* Only Remove(s) takes a subscriber off the list, and it takes s only.    *)
(***************************************************************************)
LEMMA RemoveKeeps ==
    ASSUME TypeOK, NEW s, Remove(s), NEW t, t # s, Subscribed(t)
    PROVE  Subscribed(t)'
<1>0. CASE subs' = subs
  BY Zenon, <1>0 DEF Subscribed
<1> SUFFICES ASSUME subs' # subs PROVE Subscribed(t)'
  BY Zenon, <1>0
<1>1. PICK i \in 1..Len(subs) :
         /\ subs[i] = s
         /\ subs' = [j \in 1..Len(subs) - 1 |-> IF j < i THEN subs[j] ELSE subs[j + 1]]
  BY Zenon DEF Remove
<1>2. Len(subs) \in Nat
  BY DEF TypeOK, SubTypeOK
<1>3. Len(subs') = Len(subs) - 1
  BY <1>1, <1>2
<1>4. PICK k \in 1..Len(subs) : subs[k] = t
  BY Zenon DEF Subscribed
<1>5. CASE k < i
  <2>1. k \in 1..Len(subs) - 1 /\ subs'[k] = t
    BY <1>1, <1>2, <1>4, <1>5
  <2> QED BY Zenon, <1>3, <2>1 DEF Subscribed
<1>6. CASE k > i
  <2>1. k - 1 \in 1..Len(subs) - 1 /\ ~(k - 1 < i) /\ k - 1 + 1 = k
    BY <1>2, <1>6
  <2>2. subs'[k - 1] = t
    BY Zenon, <1>1, <1>4, <2>1
  <2> QED BY Zenon, <1>3, <2>1, <2>2 DEF Subscribed
<1> QED BY <1>1, <1>4, <1>5, <1>6

LEMMA SubscribeKeeps ==
    ASSUME TypeOK, Subscribe, NEW t, Subscribed(t)
    PROVE  Subscribed(t)'
<1>1. PICK k \in 1..Len(subs) : subs[k] = t
  BY Zenon DEF Subscribed
<1>2. next_sub_id' \in SubId
  BY SMTT(30), BoundsAssumption DEF Subscribe, TypeOK, SubTypeOK, SubId
<1>3. Len(subs) \in Nat /\ Len(subs') = Len(subs) + 1 /\ subs'[k] = subs[k]
  BY <1>2, PushBack DEF Subscribe, TypeOK, SubTypeOK
<1>4. k \in 1..Len(subs')
  BY <1>3
<1> QED BY Zenon, <1>1, <1>3, <1>4 DEF Subscribed

(***************************************************************************)
(* What each step does to the subscriber list and the leases.              *)
(***************************************************************************)
LEMMA LeaseChanges ==
    ASSUME TypeOK, [Next]_vars
    PROVE  \/ /\ subs' = subs
              /\ \A m \in MsgId : \/ owner'[m] = owner[m] \/ owner'[m] = NoSub
                                  \/ Subscribed(owner'[m])
           \/ Subscribe /\ owner' = owner
           \/ \E s \in SubId : Remove(s)
<1> USE DEF TypeOK, MsgTypeOK
<1>1. ASSUME NEW i \in 1..Len(subs), Deliver(i)
      PROVE  subs' = subs /\ \A m \in MsgId : owner'[m] = owner[m] \/ Subscribed(owner'[m])
  <2>1. Subscribed(subs[i])
    BY Zenon DEF Subscribed
  <2>2. Head(ready) \in MsgId
    BY Zenon, <1>1, PopFront DEF Deliver
  <2> QED BY Zenon, <1>1, <2>1, <2>2 DEF Deliver
<1>2. ASSUME NEW i \in 1..Len(subs), DeliverFailed(i) PROVE \E s \in SubId : Remove(s)
  BY Zenon, <1>2, NextRR DEF DeliverFailed
<1>3. ASSUME NEW s \in SubId, Unsubscribe(s)
      PROVE  Remove(s)
  BY Zenon, <1>3 DEF Unsubscribe
<1>4. ASSUME NEW s, NEW m, Settle(s, m)
      PROVE  /\ subs' = subs
             /\ \A k \in MsgId : owner'[k] = owner[k] \/ owner'[k] = NoSub
  BY Zenon, <1>4 DEF Settle, SettleFinal, SettleRequeue, SettleRequeueFailed, SettleStale,
     vars, consumers
<1>5. CASE Subscribe
  BY Zenon, <1>5 DEF Subscribe
<1>6. CASE \/ EvictHead \/ Admit \/ Refuse \/ ExpireHead \/ BeginDispatch \/ EndDispatch
           \/ Stats \/ Tick \/ UNCHANGED vars
  BY Zenon, <1>6 DEF EvictHead, Admit, Refuse, ExpireHead, BeginDispatch, EndDispatch, Stats,
     Tick, vars, consumers
<1>7. ASSUME NEW n, \/ \E sz \in BodySizes, b \in BOOLEAN : Publish(sz, b)
                    \/ Reserve(n) \/ Unreserve(n)
      PROVE  subs' = subs /\ owner' = owner
  BY Zenon, <1>7 DEF Publish, Reserve, Unreserve, consumers
<1>8. ASSUME NEW s, \/ \E n \in 0..MaxDemand, d \in BOOLEAN : Demand(s, n, d)
                    \/ ConnClosed(s)
      PROVE  subs' = subs /\ owner' = owner
  BY Zenon, <1>8 DEF Demand, ConnClosed
<1>9. 1..next_sub_id \subseteq SubId
  BY BoundsAssumption DEF SubTypeOK, SubId
<1> QED
  BY ZenonT(30), <1>1, <1>2, <1>3, <1>4, <1>5, <1>6, <1>7, <1>8, <1>9 DEF Next, Dispatching

LEMMA OwnerStep ==
    ASSUME TypeOK, TypeOK', OwnerLive, [Next]_vars
    PROVE  OwnerLive'
<1> SUFFICES ASSUME NEW m \in MsgId, NEW t, t = owner'[m], t # NoSub
             PROVE  Subscribed(t)'
  BY Zenon DEF OwnerLive, Subscribed
<1>1. CASE subs' = subs /\ \A k \in MsgId : \/ owner'[k] = owner[k] \/ owner'[k] = NoSub
                                            \/ Subscribed(owner'[k])
  <2>1. Subscribed(t)
    BY Zenon, <1>1 DEF OwnerLive
  <2> QED BY Zenon, <1>1, <2>1 DEF Subscribed
<1>2. CASE Subscribe /\ owner' = owner
  BY Zenon, <1>2, SubscribeKeeps DEF OwnerLive
<1>3. ASSUME NEW s \in SubId, Remove(s) PROVE Subscribed(t)'
  <2>1. owner' = [k \in MsgId |-> IF owner[k] = s THEN NoSub ELSE owner[k]]
    BY Zenon, <1>3 DEF Remove, Held
  <2>2. owner[m] = t /\ t # s
    BY Zenon, <2>1
  <2> QED BY Zenon, <1>3, <2>2, RemoveKeeps DEF OwnerLive
<1> QED BY Zenon, <1>1, <1>2, <1>3, LeaseChanges

(***************************************************************************)
(* Every message in flight is owned by a subscriber on the list, so every  *)
(* lease can still be settled or taken back.                               *)
(***************************************************************************)
THEOREM NoLeaseStranded == Spec => []OwnerLive
<1>1. Init => OwnerLive
  BY DEF Init, OwnerLive
<1>2. TypeOK /\ TypeOK' /\ OwnerLive /\ [Next]_vars => OwnerLive'
  BY Zenon, OwnerStep
<1> QED
  BY <1>1, <1>2, TypeCorrect, PTL DEF Spec

-----------------------------------------------------------------------------
(* Nothing is left undone when the actor goes back to its mailbox.         *)

(***************************************************************************)
(* NoStranded and DrainHonored hold from the end of one dispatch to the    *)
(* start of the next, through the publish handler, and a subscriber that   *)
(* left has no demand.                                                     *)
(***************************************************************************)
Idle == pc \in {"recv", "publish"}

ServiceInv ==
    /\ Idle => ready = <<>> \/ NoDemand
    /\ Idle => \A s \in SubId : drain_pending[s] => demand[s] = 0
    /\ \A s \in SubId : ~Subscribed(s) => demand[s] = 0

LEMMA ServiceInit == Init => ServiceInv
BY Zenon DEF Init, ServiceInv, Subscribed, NoDemand

LEMMA AbsentStep ==
    ASSUME TypeOK, [Next]_vars, \A s \in SubId : ~Subscribed(s) => demand[s] = 0
    PROVE  (\A s \in SubId : ~Subscribed(s) => demand[s] = 0)'
<1> DEFINE Absent == \A s \in SubId : ~Subscribed(s) => demand[s] = 0
<1> SUFFICES Absent'
  BY Zenon
<1>0. demand \in [SubId -> Nat] /\ drain_pending \in [SubId -> BOOLEAN]
  BY Zenon DEF TypeOK, SubTypeOK
<1>1. ASSUME subs' = subs, \A s \in SubId : demand'[s] = demand[s] \/ Subscribed(s)
      PROVE  Absent'
  BY Zenon, <1>1 DEF Subscribed
<1>2. ASSUME NEW i \in 1..Len(subs), Deliver(i) PROVE Absent'
  <2>1. subs' = subs /\ Subscribed(subs[i])
    BY Zenon, <1>2 DEF Deliver, Subscribed
  <2>2. \A s \in SubId : s # subs[i] => demand'[s] = demand[s]
    BY Zenon, <1>0, <1>2 DEF Deliver
  <2> QED BY Zenon, <1>1, <2>1, <2>2
<1>3. ASSUME NEW s \in SubId, Remove(s) PROVE Absent'
  <2>1. demand' = [demand EXCEPT ![s] = 0]
    BY Zenon, <1>3 DEF Remove
  <2>2. \A t \in SubId : t # s /\ Subscribed(t) => Subscribed(t)'
    BY Zenon, <1>3, RemoveKeeps
  <2> QED BY Zenon, <1>0, <2>1, <2>2
<1>4. CASE EndDispatch
  <2>1. subs' = subs /\ (demand' = demand \/ complete_drains)
    BY Zenon, <1>4 DEF EndDispatch
  <2>2. \A s \in SubId : demand[s] = 0 => demand'[s] = 0
    BY Zenon, <1>0, <2>1 DEF complete_drains
  <2> QED BY Zenon, <2>1, <2>2 DEF Subscribed
<1>5. CASE Subscribe
  BY Zenon, <1>5, SubscribeKeeps DEF Subscribe
<1>6. ASSUME NEW s \in SubId, NEW n, NEW d, Demand(s, n, d) PROVE Absent'
  <2>1. subs' = subs
    BY Zenon, <1>6 DEF Demand
  <2>2. \A t \in SubId : demand'[t] = demand[t] \/ Subscribed(t)
    BY Zenon, <1>0, <1>6 DEF Demand
  <2> QED BY Zenon, <1>1, <2>1, <2>2
<1>7. ASSUME NEW i \in 1..Len(subs), DeliverFailed(i) PROVE Absent'
  BY Zenon, <1>3, <1>7, NextRR DEF DeliverFailed, TypeOK
<1>8. ASSUME NEW s \in SubId, Unsubscribe(s) PROVE Absent'
  BY Zenon, <1>3, <1>8 DEF Unsubscribe
<1>9. ASSUME NEW s, NEW m, Settle(s, m) PROVE subs' = subs /\ demand' = demand
  BY Zenon, <1>9 DEF Settle, SettleFinal, SettleRequeue, SettleRequeueFailed, SettleStale,
     vars, consumers
<1>10. ASSUME \/ EvictHead \/ Admit \/ Refuse \/ ExpireHead \/ BeginDispatch
              \/ Stats \/ Tick \/ UNCHANGED vars
       PROVE  subs' = subs /\ demand' = demand
  BY Zenon, <1>10 DEF EvictHead, Admit, Refuse, ExpireHead, BeginDispatch, Stats, Tick, vars,
     consumers
<1>11. ASSUME NEW n, \/ \E sz \in BodySizes, b \in BOOLEAN : Publish(sz, b)
                     \/ Reserve(n) \/ Unreserve(n) \/ ConnClosed(n)
       PROVE  subs' = subs /\ demand' = demand
  BY Zenon, <1>11 DEF Publish, Reserve, Unreserve, ConnClosed, consumers
<1>12. 1..next_sub_id \subseteq SubId
  BY BoundsAssumption DEF TypeOK, SubTypeOK, SubId
<1> HIDE DEF Absent
<1> QED
  BY Zenon, <1>1, <1>2, <1>4, <1>5, <1>6, <1>7, <1>8, <1>9, <1>10, <1>11, <1>12
  DEF Next, Dispatching

(***************************************************************************)
(* The steps after which the actor is idle: an eviction, a refusal, the    *)
(* end of a dispatch, the start of a publish, or one that changes none of  *)
(* the variables concerned.                                                *)
(***************************************************************************)
LEMMA IdleSteps ==
    ASSUME TypeOK, [Next]_vars, Idle'
    PROVE  \/ Idle /\ UNCHANGED <<ready, subs, demand, drain_pending>>
           \/ EvictHead \/ EndDispatch
<1>1. ASSUME NEW s, NEW m, Settle(s, m) PROVE UNCHANGED vars
  BY ZenonT(30), <1>1 DEF Settle, SettleFinal, SettleRequeue, SettleRequeueFailed, SettleStale, Idle
<1>2. ASSUME NEW i, Deliver(i) \/ DeliverFailed(i) PROVE FALSE
  BY ZenonT(30), <1>2 DEF Deliver, DeliverFailed, Idle
<1>3. ASSUME NEW s, NEW n, NEW d, Demand(s, n, d) \/ Unsubscribe(s) PROVE FALSE
  BY Zenon, <1>3 DEF Demand, Unsubscribe, Idle
<1>4. ASSUME NEW n, Reserve(n) \/ Unreserve(n) \/ Subscribe \/ Stats \/ Admit
                    \/ ExpireHead \/ BeginDispatch
      PROVE  FALSE
  BY Zenon, <1>4 DEF Reserve, Unreserve, Subscribe, Stats, Admit, ExpireHead, BeginDispatch, Idle
<1>5. ASSUME NEW sz, NEW b, Publish(sz, b)
      PROVE  Idle /\ UNCHANGED <<ready, subs, demand, drain_pending>>
  BY Zenon, <1>5 DEF Publish, Idle, consumers
<1>6. ASSUME NEW s, Refuse \/ Tick \/ ConnClosed(s)
      PROVE  Idle /\ UNCHANGED <<ready, subs, demand, drain_pending>>
  BY Zenon, <1>6 DEF Refuse, Tick, ConnClosed, Idle, consumers
<1>7. CASE UNCHANGED vars
  BY Zenon, <1>7 DEF vars, consumers, Idle
<1> QED
  BY Zenon, <1>1, <1>2, <1>3, <1>4, <1>5, <1>6, <1>7 DEF Next, Dispatching

LEMMA ServiceStep ==
    ASSUME TypeOK, ServiceInv, [Next]_vars
    PROVE  ServiceInv'
<1>1. (\A s \in SubId : ~Subscribed(s) => demand[s] = 0)'
  BY Zenon, AbsentStep DEF ServiceInv
<1>2. ASSUME Idle'
      PROVE  /\ ready' = <<>> \/ NoDemand'
             /\ \A s \in SubId : drain_pending'[s] => demand'[s] = 0
  <2>1. CASE Idle /\ UNCHANGED <<ready, subs, demand, drain_pending>>
    BY Zenon, <2>1 DEF ServiceInv, NoDemand
  <2>2. CASE EvictHead
    <3>1. Idle /\ ready # <<>> /\ UNCHANGED <<subs, demand, drain_pending>>
      BY Zenon, <2>2 DEF EvictHead, CanEvict, Idle, consumers
    <3> QED BY Zenon, <3>1 DEF ServiceInv, NoDemand
  <2>3. CASE EndDispatch
    <3>1. CASE ready = <<>> /\ complete_drains
      BY Zenon, <2>3, <3>1 DEF EndDispatch, complete_drains
    <3>2. CASE NoDemand /\ UNCHANGED <<demand, drain_pending>>
      <4>1. NoDemand' /\ demand' = demand
        BY Zenon, <2>3, <3>2 DEF EndDispatch, NoDemand
      <4>2. \A s \in SubId : demand[s] = 0
        BY Zenon, <3>2 DEF NoDemand, ServiceInv, Subscribed
      <4> QED BY Zenon, <4>1, <4>2
    <3> QED BY Zenon, <2>3, <3>1, <3>2 DEF EndDispatch
  <2> QED BY Zenon, <1>2, <2>1, <2>2, <2>3, IdleSteps
<1> QED
  BY Zenon, <1>1, <1>2 DEF ServiceInv

LEMMA ServiceInvariant == Spec => []ServiceInv
<1>1. TypeOK /\ ServiceInv /\ [Next]_vars => ServiceInv'
  BY Zenon, ServiceStep
<1> QED
  BY <1>1, ServiceInit, TypeCorrect, PTL DEF Spec

(***************************************************************************)
(* Whenever the actor waits for mail, no message is ready while someone    *)
(* has demand.                                                             *)
(***************************************************************************)
THEOREM NothingStranded == Spec => []NoStranded
<1>1. ServiceInv => NoStranded
  BY Zenon DEF ServiceInv, NoStranded, Idle
<1> QED
  BY <1>1, ServiceInvariant, PTL

(***************************************************************************)
(* Whenever the actor waits for mail, no draining subscriber has demand.   *)
(***************************************************************************)
THEOREM DrainsCompleted == Spec => []DrainHonored
<1>1. ServiceInv => DrainHonored
  BY Zenon DEF ServiceInv, DrainHonored, Idle
<1> QED
  BY <1>1, ServiceInvariant, PTL

(***************************************************************************)
(* The actor serves all of its subscribers: the three results together.    *)
(***************************************************************************)
THEOREM EverybodyServed == Spec => []ServesAll
<1>1. OwnerLive /\ NoStranded /\ DrainHonored => ServesAll
  BY ZenonT(30) DEF ServesAll
<1> QED
  BY <1>1, NoLeaseStranded, NothingStranded, DrainsCompleted, PTL

-----------------------------------------------------------------------------
(* Delivery attempts.                                                      *)

(***************************************************************************)
(* Only a failed delivery counts a failure or makes a message leave for    *)
(* its number of attempts; what else changes a fate is an admission, which *)
(* finds a message nobody has seen, or a message leaving otherwise.        *)
(***************************************************************************)
Counted(s, m) == s \in SubId /\ m \in MsgId /\ SettleRequeueFailed(s, m)

Uncounted ==
    /\ failures' = failures
    /\ \A m \in MsgId : \/ fate'[m] = fate[m]
                        \/ fate'[m] \in Departed \ {"limit"}
                        \/ m > next_msg_id /\ fate'[m] = "held"

LEMMA FailureChanges ==
    ASSUME TypeOK, [Next]_vars
    PROVE  Uncounted \/ \E s, m : Counted(s, m)
<1>0. /\ fate \in [MsgId -> Fates] /\ next_msg_id \in Nat
      /\ ready \in Seq(MsgId)
  BY BoundsAssumption DEF TypeOK, MsgTypeOK
<1>1. ASSUME EvictHead \/ ExpireHead PROVE Uncounted
  <2>1. Head(ready) \in MsgId
    BY Zenon, <1>0, <1>1, PopFront DEF EvictHead, CanEvict, ExpireHead, HeadExpired
  <2>2. \E f \in {"maxlen", "expired"} : fate' = [fate EXCEPT ![Head(ready)] = f]
    BY Zenon, <1>1 DEF EvictHead, ExpireHead
  <2> QED BY Zenon, <1>0, <1>1, <2>1, <2>2 DEF EvictHead, ExpireHead, store, Uncounted, Departed
<1>2. CASE Admit
  <2>1. /\ fate' = [fate EXCEPT ![next_msg_id + 1] = "held"] /\ failures' = failures
    BY Zenon, <1>2 DEF Admit
  <2>2. next_msg_id + 1 > next_msg_id
    BY <1>0
  <2> QED BY Zenon, <1>0, <2>1, <2>2 DEF Uncounted
<1>3. ASSUME NEW s \in SubId, NEW m \in MsgId, NEW o \in {"acked", "dropped"},
             SettleFinal(s, m, o)
      PROVE  Uncounted
  BY Zenon, <1>0, <1>3 DEF SettleFinal, store, Uncounted, Departed
<1>4. ASSUME fate' = fate, failures' = failures PROVE Uncounted
  BY Zenon, <1>4 DEF Uncounted
<1>5. ASSUME NEW s, NEW m, SettleRequeue(s, m) \/ SettleStale(s, m) PROVE Uncounted
  BY Zenon, <1>4, <1>5 DEF SettleRequeue, SettleStale, store, vars
<1>6. ASSUME NEW i, Deliver(i) \/ DeliverFailed(i) \/ Unsubscribe(i) PROVE Uncounted
  BY Zenon, <1>4, <1>6 DEF Deliver, DeliverFailed, Unsubscribe, store
<1>7. CASE \/ Refuse \/ BeginDispatch \/ EndDispatch \/ Subscribe \/ Stats \/ Tick
           \/ UNCHANGED vars
  BY Zenon, <1>4, <1>7 DEF Refuse, BeginDispatch, EndDispatch, Subscribe, Stats, Tick, vars, store
<1>8. ASSUME NEW n, NEW k, NEW d, \/ Publish(n, k) \/ Reserve(n) \/ Unreserve(n)
                                  \/ Demand(n, k, d) \/ ConnClosed(n)
      PROVE  Uncounted
  BY Zenon, <1>4, <1>8 DEF Publish, Reserve, Unreserve, Demand, ConnClosed, store
<1>9. 1..next_sub_id \subseteq SubId
  BY BoundsAssumption DEF TypeOK, SubTypeOK, SubId
<1> QED
  BY SMTT(30), <1>1, <1>2, <1>3, <1>5, <1>6, <1>7, <1>8, <1>9
  DEF Next, Dispatching, Settle, Counted

(***************************************************************************)
(* With AttemptsHonored: a message not yet admitted has no failures.       *)
(***************************************************************************)
AttemptsInv ==
    /\ AttemptsHonored
    /\ \A m \in MsgId : fate[m] = "new" => failures[m] = 0

LEMMA AttemptsStep ==
    ASSUME TypeOK, MsgInv, AttemptsInv, [Next]_vars
    PROVE  AttemptsInv'
<1>0. /\ fate \in [MsgId -> Fates] /\ failures \in [MsgId -> Nat]
      /\ owner \in [MsgId -> {NoSub} \cup SubId]
  BY Zenon DEF TypeOK, MsgTypeOK
<1>1. CASE Uncounted
  <2>1. \A m \in MsgId : m > next_msg_id => fate[m] = "new"
    BY Zenon DEF MsgInv, Conservation
  <2> QED BY <1>0, <1>1, <2>1 DEF Uncounted, AttemptsInv, AttemptsHonored, Departed
<1>2. ASSUME NEW s, NEW m, Counted(s, m) PROVE AttemptsInv'
  <2>1. m \in MsgId /\ failures' = [failures EXCEPT ![m] = failures[m] + 1]
    BY Zenon, <1>2 DEF Counted, SettleRequeueFailed
  <2>2. fate[m] = "held"
    BY <1>2, BoundsAssumption DEF Counted, SettleRequeueFailed, MsgInv, Conservation, SubId
  <2>3. CASE attempts_exhausted(failures[m] + 1)
    <3>1. fate' = [fate EXCEPT ![m] = "limit"]
      BY Zenon, <1>2, <2>3 DEF Counted, SettleRequeueFailed
    <3> QED BY Zenon, <1>0, <2>1, <2>3, <3>1 DEF attempts_exhausted, AttemptsInv, AttemptsHonored
  <2>4. CASE ~attempts_exhausted(failures[m] + 1)
    <3>1. fate' = fate
      BY Zenon, <1>2, <2>4 DEF Counted, SettleRequeueFailed
    <3>2. max_attempts # None => failures[m] + 1 < max_attempts
      BY <1>0, <2>1, <2>4, PolicyAssumption DEF attempts_exhausted
    <3> QED BY Zenon, <1>0, <2>1, <2>2, <3>1, <3>2 DEF AttemptsInv, AttemptsHonored
  <2> QED BY Zenon, <2>3, <2>4
<1> QED BY Zenon, <1>1, <1>2, FailureChanges

(***************************************************************************)
(* However deliveries fail, are requeued or are taken back, a message goes *)
(* back to ready only while it has attempts left, and "delivery-limit" is  *)
(* only ever said of one that has none.                                    *)
(***************************************************************************)
THEOREM AttemptsCounted == Spec => []AttemptsHonored
<1>1. Init => AttemptsInv
  BY Zenon DEF Init, AttemptsInv, AttemptsHonored
<1>2. TypeOK /\ MsgInv /\ AttemptsInv /\ [Next]_vars => AttemptsInv'
  BY Zenon, AttemptsStep
<1>3. AttemptsInv => AttemptsHonored
  BY Zenon DEF AttemptsInv
<1> QED
  BY <1>1, <1>2, <1>3, TypeCorrect, MsgInvariant, PTL DEF Spec

-----------------------------------------------------------------------------
(* Round-robin is fair.                                                    *)

(***************************************************************************)
(* How many positions the scan from rr meets before position p.  While     *)
(* anybody is bypassed, rr points into the list (a removal, which may      *)
(* leave it beyond the end, starts all counts anew), and each bypass has   *)
(* taken the scan one position nearer.                                     *)
(***************************************************************************)
Ahead(r, n, p) == IF p > r THEN p - 1 - r ELSE p - 1 - r + n

Waits == /\ rr < Len(subs)
         /\ \A p \in 1..Len(subs) : bypassed[subs[p]] + Ahead(rr, Len(subs), p) < Len(subs)

Unbypassed == \A s \in SubId : bypassed[s] = 0

BypassInv ==
    /\ Unbypassed \/ Waits
    /\ \A s \in SubId : demand[s] = 0 => bypassed[s] = 0
    /\ \A p \in 1..Len(subs) : subs[p] <= next_sub_id

(***************************************************************************)
(* The arithmetic of pick_ready and advance.                               *)
(***************************************************************************)
LEMMA Wraps ==
    ASSUME NEW n \in Nat, n > 0, NEW x \in 0..2 * n - 1
    PROVE  x % n = IF x < n THEN x ELSE x - n
<1>1. CASE x < n
  BY <1>1
<1>2. CASE x >= n
  BY <1>2
<1> QED BY <1>1, <1>2

LEMMA Advances ==
    ASSUME NEW n \in Nat, NEW i \in 1..n, NEW r, r = i % n
    PROVE  /\ r \in 0..n - 1
           /\ \A p \in 1..n : /\ Ahead(r, n, p) \in 0..n - 1
                              /\ p # i => Ahead(r, n, p) + 1 < n
<1>1. r = IF i < n THEN i ELSE 0
  BY Wraps
<1> QED BY <1>1 DEF Ahead

(***************************************************************************)
(* The scan picks position i only if nobody nearer has demand: a           *)
(* subscriber with demand at another position gets i + 1 positions nearer. *)
(***************************************************************************)
LEMMA Nearer ==
    ASSUME TypeOK, rr < Len(subs), NEW i \in 1..Len(subs), pick_ready(i),
           NEW p \in 1..Len(subs), p # i, demand[subs[p]] > 0
    PROVE  Ahead(i % Len(subs), Len(subs), p) + 1 <= Ahead(rr, Len(subs), p)
<1> DEFINE n == Len(subs)
<1>1. n \in Nat /\ rr \in 0..n - 1 /\ n > 0 /\ p \in 1..n /\ i \in 1..n
  BY SMTT(30) DEF TypeOK, SubTypeOK
<1>2. PICK k \in 0..n - 1 :
          /\ i = ((rr + k) % n) + 1
          /\ \A j \in 0..k - 1 : demand[subs[((rr + j) % n) + 1]] = 0
  BY Zenon DEF pick_ready
<1>3. \A j \in 0..n - 1 : (rr + j) % n = IF rr + j < n THEN rr + j ELSE rr + j - n
  <2> SUFFICES ASSUME NEW j \in 0..n - 1
               PROVE  (rr + j) % n = IF rr + j < n THEN rr + j ELSE rr + j - n
    BY Zenon
  <2>1. rr + j \in 0..2 * n - 1
    BY SMTT(30), <1>1
  <2> HIDE DEF n
  <2> QED BY <1>1, <2>1, Wraps
<1> HIDE DEF n
<1>4. PICK a : a = Ahead(rr, n, p) /\ a \in 0..n - 1 /\ p = ((rr + a) % n) + 1
  <2>1. PICK a : a = Ahead(rr, n, p)
    BY Zenon
  <2>2. a = IF p > rr THEN p - 1 - rr ELSE p - 1 - rr + n
    BY Zenon, <2>1 DEF Ahead
  <2>3. a \in 0..n - 1 /\ p - 1 = IF rr + a < n THEN rr + a ELSE rr + a - n
    <3>1. CASE p > rr
      BY SMTT(30), <1>1, <2>2, <3>1
    <3>2. CASE ~(p > rr)
      BY <1>1, <2>2, <3>2
    <3> QED BY Zenon, <3>1, <3>2
  <2>4. (rr + a) % n = p - 1
    BY Zenon, <1>3, <2>3
  <2> QED BY <1>1, <2>1, <2>3, <2>4
<1>5. a > k
  <2>1. ~(a \in 0..k - 1)
    BY SMTT(30), <1>2, <1>4 DEF n
  <2>2. a # k
    BY Zenon, <1>2, <1>4
  <2> QED BY SMTT(30), <1>4, <2>1, <2>2
<1>6. i % n = IF i < n THEN i ELSE 0
  BY <1>1, Wraps
<1>7. i = IF rr + k < n THEN rr + k + 1 ELSE rr + k - n + 1
  BY ZenonT(30), <1>1, <1>2, <1>3
<1>8. Ahead(i % n, n, p) + 1 <= a
  BY <1>1, <1>4, <1>5, <1>6, <1>7 DEF Ahead
<1> QED BY Zenon, <1>4, <1>8 DEF n

LEMMA DeliverBypasses ==
    ASSUME TypeOK, TypeOK', BypassInv, NEW i \in 1..Len(subs), Deliver(i)
    PROVE  BypassInv'
<1> DEFINE n == Len(subs)
<1>1. /\ n \in Nat /\ subs' = subs /\ next_sub_id' = next_sub_id /\ rr' = i % n
      /\ \A p \in 1..n : subs[p] \in SubId
      /\ demand \in [SubId -> Nat] /\ bypassed \in [SubId -> Nat] /\ pick_ready(i)
  <2>1. /\ n \in Nat /\ \A p \in 1..n : subs[p] \in SubId
        /\ demand \in [SubId -> Nat] /\ bypassed \in [SubId -> Nat]
    BY SMTT(30) DEF TypeOK, SubTypeOK
  <2>2. /\ subs' = subs /\ next_sub_id' = next_sub_id /\ rr' = i % n /\ pick_ready(i)
    BY Zenon DEF Deliver
  <2> QED BY Zenon, <2>1, <2>2
<1>2. /\ demand' = [demand EXCEPT ![subs[i]] = demand[subs[i]] - 1]
      /\ bypassed' = [t \in SubId |->
                         IF t # subs[i] /\ demand[t] > 0 THEN bypassed[t] + 1 ELSE 0]
  BY Zenon DEF Deliver
<1>3. \A s \in SubId : demand'[s] = 0 => bypassed'[s] = 0
  BY SMTT(30), <1>1, <1>2
<1>4. rr' < n
  BY <1>1, Advances
<1>5. ASSUME NEW p \in 1..n PROVE bypassed'[subs[p]] + Ahead(rr', n, p) < n
  <2>1. CASE subs[p] = subs[i] \/ ~(demand[subs[p]] > 0)
    <3>1. bypassed'[subs[p]] = 0
      BY <1>1, <1>2, <2>1
    <3>2. Ahead(rr', n, p) \in 0..n - 1
      BY ZenonT(30), <1>1, Advances
    <3> QED BY SMTT(30), <1>1, <3>1, <3>2
  <2>2. CASE subs[p] # subs[i] /\ demand[subs[p]] > 0
    <3>1. p # i /\ bypassed'[subs[p]] = bypassed[subs[p]] + 1 /\ bypassed[subs[p]] \in Nat
      BY Zenon, <1>1, <1>2, <2>2
    <3>2. CASE Unbypassed
      <4>1. Ahead(rr', n, p) \in 0..n - 1 /\ Ahead(rr', n, p) + 1 < n
        BY ZenonT(30), <1>1, <3>1, Advances
      <4>2. bypassed[subs[p]] = 0
        BY ZenonT(30), <1>1, <3>2 DEF Unbypassed
      <4> QED BY <1>1, <3>1, <4>1, <4>2
    <3>3. CASE Waits
      <4>1. Ahead(rr', n, p) + 1 <= Ahead(rr, n, p)
        BY <1>1, <2>2, <3>1, <3>3, Nearer DEF Waits
      <4>2. bypassed[subs[p]] + Ahead(rr, n, p) < n
        BY Zenon, <3>3 DEF Waits
      <4>3. Ahead(rr', n, p) \in Int
        BY <1>1, Advances
      <4>4. Ahead(rr, n, p) \in Int
        <5>1. rr \in Nat
          BY Zenon DEF TypeOK, SubTypeOK
        <5> QED BY <1>1, <5>1 DEF Ahead
      <4> QED BY SMTT(30), <1>1, <3>1, <4>1, <4>2, <4>3, <4>4
    <3> QED BY Zenon, <3>2, <3>3 DEF BypassInv
  <2> QED BY Zenon, <2>1, <2>2
<1>6. Waits'
  BY <1>1, <1>4, <1>5 DEF Waits
<1> QED BY Zenon, <1>1, <1>3, <1>6 DEF BypassInv

LEMMA RemoveBypasses ==
    ASSUME TypeOK, ServiceInv, BypassInv, NEW s \in SubId, Remove(s),
           next_sub_id' = next_sub_id, Subscribed(s) \/ rr' = rr
    PROVE  BypassInv'
<1>1. /\ demand \in [SubId -> Nat] /\ bypassed \in [SubId -> Nat] /\ Len(subs) \in Nat
      /\ demand' = [demand EXCEPT ![s] = 0]
      /\ bypassed' = [t \in SubId |-> IF Subscribed(s) THEN 0 ELSE bypassed[t]]
  BY SMTT(30) DEF Remove, TypeOK, SubTypeOK
<1>2. CASE Subscribed(s)
  <2>1. Unbypassed'
    BY Zenon, <1>1, <1>2 DEF Unbypassed
  <2>2. PICK i \in 1..Len(subs) :
            subs' = [j \in 1..Len(subs) - 1 |-> IF j < i THEN subs[j] ELSE subs[j + 1]]
    BY Zenon, <1>2 DEF Remove
  <2>3. Len(subs') = Len(subs) - 1
    BY <1>1, <2>2
  <2>4. \A p \in 1..Len(subs') : subs'[p] <= next_sub_id
    BY <1>1, <2>2, <2>3 DEF BypassInv
  <2> QED BY Zenon, <1>1, <2>1, <2>4 DEF BypassInv, Unbypassed
<1>3. CASE ~Subscribed(s)
  <2>1. bypassed' = bypassed /\ subs' = subs /\ rr' = rr
    BY Zenon, <1>1, <1>3 DEF Remove, Subscribed
  <2>2. demand[s] = 0
    BY Zenon, <1>3 DEF ServiceInv
  <2>3. demand' = demand
    BY Zenon, <1>1, <2>2
  <2> QED BY Zenon, <2>1, <2>3 DEF BypassInv, Unbypassed, Waits
<1> QED BY SMTT(30), <1>2, <1>3

LEMMA SubscribeBypasses ==
    ASSUME TypeOK, ServiceInv, BypassInv, Subscribe
    PROVE  BypassInv'
<1> DEFINE n == Len(subs)
           new == next_sub_id + 1
<1>1. /\ n \in Nat /\ rr \in Nat /\ next_sub_id \in Nat /\ new \in SubId
      /\ bypassed \in [SubId -> Nat]
      /\ UNCHANGED <<demand, bypassed, rr>> /\ next_sub_id' = new /\ subs' = Append(subs, new)
  BY SMTT(30), BoundsAssumption DEF Subscribe, TypeOK, SubTypeOK, SubId
<1>2. /\ Len(subs') = n + 1 /\ subs'[n + 1] = new
      /\ \A p \in 1..n : subs'[p] = subs[p] /\ subs[p] \in SubId
  BY <1>1, PushBack DEF TypeOK, SubTypeOK
<1>3. bypassed[new] = 0
  <2>1. ~Subscribed(new)
    BY <1>1 DEF Subscribed, BypassInv
  <2> QED BY Zenon, <1>1, <2>1 DEF ServiceInv, BypassInv
<1>4. \A p \in 1..n + 1 : subs'[p] <= new
  <2>1. \A p \in 1..n : subs'[p] <= new
    BY <1>1, <1>2 DEF BypassInv, SubId
  <2> QED BY <1>1, <1>2, <2>1
<1>5. ASSUME Waits PROVE Waits'
  <2>1. ASSUME NEW p \in 1..n PROVE bypassed[subs'[p]] + Ahead(rr, n + 1, p) < n + 1
    <3>1. bypassed[subs[p]] + Ahead(rr, n, p) < n
      BY <1>5 DEF Waits
    <3>2. Ahead(rr, n + 1, p) <= Ahead(rr, n, p) + 1 /\ Ahead(rr, n + 1, p) \in Int
          /\ Ahead(rr, n, p) \in Int
      BY <1>1 DEF Ahead
    <3>3. subs'[p] = subs[p] /\ bypassed[subs[p]] \in Nat
      BY Zenon, <1>1, <1>2
    <3> QED BY SMTT(30), <1>1, <3>1, <3>2, <3>3
  <2>2. bypassed[subs'[n + 1]] + Ahead(rr, n + 1, n + 1) < n + 1
    BY <1>1, <1>2, <1>3, <1>5 DEF Waits, Ahead
  <2>3. \A p \in 1..n + 1 : bypassed[subs'[p]] + Ahead(rr, n + 1, p) < n + 1
    BY <1>1, <2>1, <2>2
  <2>4. rr < n + 1
    BY SMTT(30), <1>1, <1>5 DEF Waits
  <2> QED BY Zenon, <1>1, <1>2, <2>3, <2>4 DEF Waits
<1> HIDE DEF n, new
<1> QED BY ZenonT(30), <1>1, <1>2, <1>4, <1>5 DEF BypassInv, Unbypassed

LEMMA BypassStep ==
    ASSUME TypeOK, TypeOK', ServiceInv, BypassInv, [Next]_vars
    PROVE  BypassInv'
<1>0. demand \in [SubId -> Nat] /\ bypassed \in [SubId -> Nat]
  BY Zenon DEF TypeOK, SubTypeOK
<1>1. ASSUME UNCHANGED <<subs, rr, bypassed, next_sub_id>>,
             \A s \in SubId : demand'[s] = 0 => demand[s] = 0
      PROVE  BypassInv'
  BY <1>1 DEF BypassInv, Unbypassed, Waits
<1>2. ASSUME NEW i \in 1..Len(subs), Deliver(i) PROVE BypassInv'
  BY SMTT(30), <1>2, DeliverBypasses
<1>3. ASSUME NEW i \in 1..Len(subs), DeliverFailed(i) PROVE BypassInv'
  <2>1. subs[i] \in SubId /\ Subscribed(subs[i])
    BY NextRR DEF Subscribed, TypeOK
  <2> QED BY <1>3, <2>1, RemoveBypasses DEF DeliverFailed
<1>4. ASSUME NEW s \in SubId, Unsubscribe(s) PROVE BypassInv'
  BY <1>4, RemoveBypasses DEF Unsubscribe
<1>5. CASE Subscribe
  BY SMTT(30), <1>5, SubscribeBypasses
<1>6. CASE EndDispatch
  <2>1. CASE complete_drains
    <3>1. /\ UNCHANGED <<subs, rr, next_sub_id>>
          /\ demand' = [s \in SubId |-> IF drain_pending[s] THEN 0 ELSE demand[s]]
          /\ bypassed' = [s \in SubId |-> IF drain_pending[s] THEN 0 ELSE bypassed[s]]
      BY Zenon, <1>6, <2>1 DEF EndDispatch, complete_drains
    <3>2. \A s \in SubId : bypassed'[s] = 0 \/ bypassed'[s] = bypassed[s]
      BY Zenon, <3>1
    <3>3. \A s \in SubId : demand'[s] = 0 => bypassed'[s] = 0
      BY Zenon, <1>0, <3>1 DEF BypassInv
    <3>4. ASSUME Waits PROVE Waits'
      <4>1. ASSUME NEW p \in 1..Len(subs)
            PROVE  bypassed'[subs[p]] + Ahead(rr, Len(subs), p) < Len(subs)
        <5>0. Len(subs) \in Nat /\ rr \in Nat /\ subs[p] \in SubId
          BY SMTT(30) DEF TypeOK, SubTypeOK
        <5>1. bypassed[subs[p]] + Ahead(rr, Len(subs), p) < Len(subs)
          BY Zenon, <3>4 DEF Waits
        <5>2. /\ Ahead(rr, Len(subs), p) \in Int /\ bypassed[subs[p]] \in Nat
              /\ bypassed'[subs[p]] = 0 \/ bypassed'[subs[p]] = bypassed[subs[p]]
          BY SMTT(30), <1>0, <3>2, <5>0 DEF Ahead
        <5> QED BY SMTT(30), <5>0, <5>1, <5>2
      <4> QED BY SMTT(30), <3>1, <3>4, <4>1 DEF Waits
    <3> QED BY <3>1, <3>2, <3>3, <3>4 DEF BypassInv, Unbypassed
  <2>2. CASE UNCHANGED <<demand, drain_pending, bypassed>>
    BY SMTT(30), <1>1, <1>6, <2>2 DEF EndDispatch
  <2> QED BY SMTT(30), <1>6, <2>1, <2>2 DEF EndDispatch
<1>7. ASSUME NEW s \in SubId, NEW c \in 0..MaxDemand, NEW d, Demand(s, c, d) PROVE BypassInv'
  <2>1. UNCHANGED <<subs, rr, bypassed, next_sub_id>>
    BY SMTT(30), <1>7 DEF Demand
  <2>2. demand' = demand \/ demand' = [demand EXCEPT ![s] = demand[s] + c]
    BY <1>7 DEF Demand
  <2>3. \A t \in SubId : demand'[t] = 0 => demand[t] = 0
    BY <1>0, <2>2, BoundsAssumption
  <2> QED BY SMTT(30), <1>1, <2>1, <2>3
<1>8. ASSUME UNCHANGED <<subs, rr, bypassed, next_sub_id, demand>> PROVE BypassInv'
  BY Zenon, <1>1, <1>8
<1>9. ASSUME NEW s, NEW m, Settle(s, m) PROVE BypassInv'
  BY ZenonT(30), <1>8, <1>9 DEF Settle, SettleFinal, SettleRequeue, SettleRequeueFailed, SettleStale,
     vars, consumers
<1>10. CASE \/ EvictHead \/ Admit \/ Refuse \/ ExpireHead \/ BeginDispatch \/ Stats \/ Tick
            \/ UNCHANGED vars
  BY ZenonT(30), <1>8, <1>10 DEF EvictHead, Admit, Refuse, ExpireHead, BeginDispatch, Stats, Tick,
     vars, consumers
<1>11. ASSUME NEW n, NEW k, \/ Publish(n, k) \/ Reserve(n) \/ Unreserve(n) \/ ConnClosed(n)
       PROVE  BypassInv'
  BY SMTT(30), <1>8, <1>11 DEF Publish, Reserve, Unreserve, ConnClosed, consumers
<1>12. 1..next_sub_id \subseteq SubId
  BY BoundsAssumption DEF TypeOK, SubTypeOK, SubId
<1> QED
  BY SMTT(30), <1>2, <1>3, <1>4, <1>5, <1>6, <1>7, <1>9, <1>10, <1>11, <1>12 DEF Next, Dispatching

(***************************************************************************)
(* While a subscriber waits with demand, every other one on the list is    *)
(* served at most once before it, however often the list grows, shrinks or *)
(* leaves rr behind.                                                       *)
(***************************************************************************)
THEOREM RoundRobinFair == Spec => []BoundedBypass
<1>1. Init => BypassInv
  BY DEF Init, BypassInv, Unbypassed
<1>2. TypeOK /\ TypeOK' /\ ServiceInv /\ BypassInv /\ [Next]_vars => BypassInv'
  BY Zenon, BypassStep
<1>3. TypeOK /\ BypassInv => BoundedBypass
  <2> SUFFICES ASSUME TypeOK, BypassInv, NEW p \in 1..Len(subs)
               PROVE  bypassed[subs[p]] < Len(subs)
    BY Zenon DEF BoundedBypass
  <2>1. /\ Len(subs) \in Nat /\ rr \in Nat /\ subs[p] \in SubId
        /\ bypassed \in [SubId -> Nat]
    BY DEF TypeOK, SubTypeOK
  <2>2. CASE Unbypassed
    BY SMTT(30), <2>1, <2>2 DEF Unbypassed
  <2>3. CASE Waits
    <3>1. /\ bypassed[subs[p]] + Ahead(rr, Len(subs), p) < Len(subs)
          /\ rr < Len(subs)
      BY SMTT(30), <2>3 DEF Waits
    <3>2. Ahead(rr, Len(subs), p) \in Nat /\ bypassed[subs[p]] \in Nat
      BY <2>1, <3>1 DEF Ahead
    <3> QED BY SMTT(30), <2>1, <3>1, <3>2
  <2> QED BY <2>2, <2>3 DEF BypassInv
<1> QED
  BY <1>1, <1>2, <1>3, TypeCorrect, ServiceInvariant, PTL DEF Spec
=============================================================================
