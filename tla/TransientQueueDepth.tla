------------------------ MODULE TransientQueueDepth -------------------------
(***************************************************************************)
(* The depth bound of TransientQueue.                                      *)
(***************************************************************************)
EXTENDS TransientQueueProofs, FiniteSetTheorems

USE DEF NoSub, Freed, Unleased, PushedBack, ThenDispatch, IsOwner

-----------------------------------------------------------------------------
(***************************************************************************)
(* There are finitely many ids.                                            *)
(***************************************************************************)
LEMMA MsgIdFinite == IsFiniteSet(MsgId)
<1>1. 1 \in Int /\ MaxMsgs \in Int
  BY BoundsAssumption
<1> QED
  BY Zenon, <1>1, FS_Interval DEF MsgId

(***************************************************************************)
(* A list that names each member of a set once is as long as the set is    *)
(* large.                                                                  *)
(***************************************************************************)
LEMMA ListsAll ==
    ASSUME NEW S, NEW n \in Nat, NEW q \in [1..n -> S],
           \A i, j \in 1..n : i # j => q[i] # q[j],
           \A m \in S : \E i \in 1..n : q[i] = m
    PROVE  Cardinality(S) = n
<1>1. q \in Bijection(1..n, S)
  BY Zenon DEF Bijection, Injection, IsInjective, Surjection
<1>2. ExistsBijection(1..n, S)
  BY Zenon, <1>1 DEF ExistsBijection
<1> QED
  BY Zenon, <1>2, FS_CountingElements

Load == Len(ready) + Cardinality(Unacked)

LEMMA UnackedFinite == IsFiniteSet(Unacked) /\ Cardinality(Unacked) \in Nat
BY Zenon, MsgIdFinite, FS_Subset, FS_CardinalityType DEF Unacked

(***************************************************************************)
(* Only an admission raises the number of messages held: a delivery and a  *)
(* requeue move messages between ready and unacked.                        *)
(***************************************************************************)
LEMMA LoadStep ==
    ASSUME TypeOK, TypeOK', MsgInv, MsgStep
    PROVE  /\ Load \in Nat /\ Load' \in Nat
           /\ \/ next_msg_id' = next_msg_id + 1 /\ Load' = Load + 1
              \/ next_msg_id' = next_msg_id /\ Load' <= Load
<1>a. /\ ready \in Seq(MsgId) /\ Len(ready) \in Nat
      /\ ready' \in Seq(MsgId) /\ Len(ready') \in Nat
      /\ owner \in [MsgId -> {NoSub} \cup SubId]
  BY DEF TypeOK, MsgTypeOK
<1>b. /\ IsFiniteSet(Unacked) /\ Cardinality(Unacked) \in Nat
      /\ IsFiniteSet(Unacked') /\ Cardinality(Unacked') \in Nat
  <2>1. IsFiniteSet(Unacked')
    BY Zenon, MsgIdFinite, FS_Subset DEF Unacked
  <2> QED BY Zenon, <2>1, UnackedFinite, FS_CardinalityType
<1>0. /\ Load = Len(ready) + Cardinality(Unacked)
      /\ Load' = Len(ready') + Cardinality(Unacked')
  BY Zenon DEF Load
<1>1. CASE Untouched
  <2>1. Unacked' = Unacked /\ ready' = ready /\ next_msg_id' = next_msg_id
    BY Zenon, <1>1 DEF Untouched, Unacked
  <2> QED BY SMTT(30), <1>a, <1>b, <1>0, <2>1
<1>2. CASE HeadLeaves
  <2>1. Unacked' = Unacked /\ next_msg_id' = next_msg_id
    BY Zenon, <1>2 DEF HeadLeaves, Unacked
  <2>2. Len(ready') = Len(ready) - 1
    BY <1>a, <1>2, PopFront DEF HeadLeaves
  <2> QED BY SMTT(30), <1>a, <1>b, <1>0, <2>1, <2>2
<1>3. CASE Admitted
  <2>1. Unacked' = Unacked /\ next_msg_id' = next_msg_id + 1
    BY Zenon, <1>3 DEF Admitted, Unacked
  <2>2. Len(ready') = Len(ready) + 1
    BY <1>a, <1>3, PushBack DEF Admitted
  <2> QED BY SMTT(30), <1>a, <1>b, <1>0, <2>1, <2>2
<1>4. CASE Delivered
  <2>1. PICK s \in SubId : owner' = [owner EXCEPT ![Head(ready)] = s]
    BY ZenonT(30), <1>4 DEF Delivered
  <2>2. /\ Head(ready) \in MsgId /\ Head(ready) = ready[1] /\ 1 \in 1..Len(ready)
        /\ Len(ready') = Len(ready) - 1
    BY SMTT(30), <1>a, <1>4, PopFront DEF Delivered
  <2>3. owner[Head(ready)] = NoSub
    BY <2>2 DEF MsgInv, Conservation, IsReady
  <2>4. s # NoSub
    BY BoundsAssumption DEF SubId
  <2>5. Unacked' = Unacked \cup {Head(ready)} /\ Head(ready) \notin Unacked
    BY SMTT(30), <1>a, <2>1, <2>2, <2>3, <2>4 DEF Unacked
  <2>6. Cardinality(Unacked') = Cardinality(Unacked) + 1
    BY SMTT(30), <1>b, <2>5, FS_AddElement
  <2> QED BY SMTT(30), <1>a, <1>b, <1>0, <1>4, <2>2, <2>6 DEF Delivered
<1>5. CASE Finished
  <2>1. PICK m \in MsgId :
           /\ owner[m] # NoSub
           /\ owner' = [owner EXCEPT ![m] = NoSub]
           /\ UNCHANGED <<ready, next_msg_id, handed>>
    BY ZenonT(30), <1>5 DEF Finished
  <2>2. Unacked' = Unacked \ {m} /\ m \in Unacked
    BY Zenon, <1>a, <2>1 DEF Unacked
  <2>3. Cardinality(Unacked') = Cardinality(Unacked) - 1
    BY Zenon, <1>b, <2>2, FS_RemoveElement
  <2> QED BY SMTT(30), <1>a, <1>b, <1>0, <2>1, <2>3
<1>6. CASE Requeued
  <2>1. PICK s \in SubId, S \in SUBSET MsgId :
           /\ \A m \in S : owner[m] = s
           /\ \E q \in OldestFirst(S) : ready' = q \o ready
           /\ owner' = [m \in MsgId |-> IF m \in S THEN NoSub ELSE owner[m]]
           /\ UNCHANGED <<fate, next_msg_id, handed>>
    BY ZenonT(30), <1>6 DEF Requeued
  <2>2. PICK q \in OldestFirst(S) : ready' = q \o ready
    BY ZenonT(30), <2>1
  <2>3. q \in Seq(MsgId) /\ Len(q) = Cardinality(S)
    <3>1. /\ q \in Seq(MsgId) /\ q \in [1..Len(q) -> S]
          /\ Once(q) /\ \A m : Occurs(q, m) <=> m \in S
      BY Zenon, OldestFirstLists
    <3>2. Len(q) \in Nat
      BY <3>1
    <3> QED BY SMTT(30), <3>1, <3>2, ListsAll DEF Once, Occurs
  <2>9. Len(ready') = Cardinality(S) + Len(ready)
    BY ZenonT(30), <1>a, <2>2, <2>3, PushFront
  <2>4. s # NoSub
    BY BoundsAssumption DEF SubId
  <2>5. Unacked' = Unacked \ S /\ S \subseteq Unacked
    BY SMTT(30), <1>a, <2>1, <2>4 DEF Unacked
  <2>6. IsFiniteSet(S) /\ Cardinality(S) \in Nat
    BY SMTT(30), <1>b, <2>5, FS_Subset, FS_CardinalityType
  <2>7. Unacked \cap S = S
    BY Zenon, <2>5
  <2>8. Cardinality(Unacked') = Cardinality(Unacked) - Cardinality(S)
    <3>1. Cardinality(Unacked \ S) = Cardinality(Unacked) - Cardinality(Unacked \cap S)
      BY ZenonT(30), <1>b, <2>6, FS_Difference
    <3> QED BY <2>5, <2>7, <3>1
  <2>10. next_msg_id' = next_msg_id
    BY Zenon, <2>1
  <2>11. Load' = Load /\ Load \in Nat
    BY SMTT(30), <1>a, <1>b, <1>0, <2>6, <2>8, <2>9
  <2> QED BY SMTT(30), <2>10, <2>11
<1> QED
  BY SMTT(30), <1>1, <1>2, <1>3, <1>4, <1>5, <1>6 DEF MsgStep

(***************************************************************************)
(* The strengthening of DepthBound: every slot a transaction holds is      *)
(* counted in reserved, and only the publish handler holds a message.      *)
(***************************************************************************)
InHand == IF cur.from_reserved THEN 1 ELSE 0

DepthInv ==
    /\ pc # "publish" => InHand = 0
    /\ ~drop_head => reserved = slots
    /\ DepthBound

LEMMA DepthInit == Init => DepthInv
<1> SUFFICES ASSUME Init PROVE DepthInv
  BY Zenon
<1>1. reserved = slots /\ ready = <<>> /\ reserved = 0 /\ InHand = 0
  BY Zenon DEF Init, InHand, NoMsg
<1>2. Unacked = {}
  BY Zenon DEF Init, Unacked
<1>3. Cardinality(Unacked) = 0 /\ Len(ready) = 0
  BY Zenon, <1>1, <1>2, FS_EmptySet
<1>4. Depth = Len(ready) + Cardinality(Unacked) + reserved + InHand
  BY Zenon DEF Depth, InHand
<1> QED
  BY SMTT(30), <1>1, <1>3, <1>4, PolicyAssumption DEF DepthInv, DepthBound

(***************************************************************************)
(* What each step does to the slots and to the message in hand.            *)
(***************************************************************************)
LEMMA SlotsStep ==
    ASSUME TypeOK, DepthInv, [Next]_vars
    PROVE  \/ UNCHANGED <<reserved, slots, InHand, pc, next_msg_id>>
           \/ pc # "publish" /\ pc' # "publish"
              /\ UNCHANGED <<reserved, slots, InHand, next_msg_id>>
           \/ Admit /\ InHand' = 0 /\ pc' # "publish" /\ UNCHANGED <<reserved, slots>>
           \/ InHand' = 0 /\ pc' # "publish" /\ UNCHANGED <<reserved, slots, next_msg_id>>
           \/ pc # "publish" /\ pc' = "publish" /\ UNCHANGED next_msg_id
              /\ \/ InHand' = 0 /\ UNCHANGED <<reserved, slots>>
                 \/ InHand' = 1 /\ slots > 0 /\ slots' = slots - 1
                    /\ reserved' = SatSub(reserved, 1)
           \/ pc # "publish" /\ pc' # "publish" /\ UNCHANGED next_msg_id
              /\ InHand' = InHand
              /\ \E n \in 1..MaxSlots : Reserve(n) \/ Unreserve(n)
<1>1. CASE Admit
  BY Zenon, <1>1 DEF Admit, InHand, NoMsg, txns
<1>2. CASE Refuse
  BY Zenon, <1>2 DEF Refuse, InHand, NoMsg, txns
<1>3. CASE EvictHead
  <2>1. cur'.from_reserved = cur.from_reserved
    BY Zenon, <1>3 DEF EvictHead, TypeOK, ActorTypeOK
  <2> QED BY Zenon, <1>3, <2>1 DEF EvictHead, InHand, txns
<1>4. ASSUME NEW sz \in BodySizes, Publish(sz, TRUE)
      PROVE  /\ pc # "publish" /\ pc' = "publish" /\ UNCHANGED next_msg_id
             /\ InHand' = 1 /\ slots > 0 /\ slots' = slots - 1
             /\ reserved' = SatSub(reserved, 1)
  BY Zenon, <1>4 DEF Publish, InHand
<1>5. ASSUME NEW sz \in BodySizes, Publish(sz, FALSE)
      PROVE  /\ pc # "publish" /\ pc' = "publish" /\ UNCHANGED next_msg_id
             /\ InHand' = 0 /\ UNCHANGED <<reserved, slots>>
  BY Zenon, <1>5 DEF Publish, InHand
<1>6. ASSUME NEW n \in 1..MaxSlots, Reserve(n) \/ Unreserve(n)
      PROVE  /\ pc # "publish" /\ pc' # "publish" /\ UNCHANGED next_msg_id
             /\ InHand' = InHand
  BY Zenon, <1>6 DEF Reserve, Unreserve, InHand
<1> DEFINE Quiet == /\ pc # "publish" /\ pc' # "publish"
                    /\ UNCHANGED <<reserved, slots, InHand, next_msg_id>>
<1>7. ASSUME NEW s, NEW m, Settle(s, m) PROVE Quiet \/ UNCHANGED vars
  BY Zenon, <1>7 DEF Settle, SettleFinal, SettleRequeue, SettleRequeueFailed, SettleStale,
     txns, InHand
<1>8. ASSUME NEW i, Deliver(i) \/ DeliverFailed(i) PROVE Quiet
  BY <1>8 DEF Deliver, DeliverFailed, txns, InHand
<1>9. ASSUME NEW s, NEW n, NEW d, Demand(s, n, d) PROVE Quiet
  BY Zenon, <1>9 DEF Demand, txns, InHand
<1>10. ASSUME NEW s, Unsubscribe(s) PROVE Quiet
  BY Zenon, <1>10 DEF Unsubscribe, txns, InHand
<1>11. ASSUME \/ ExpireHead \/ BeginDispatch \/ EndDispatch \/ Subscribe \/ Stats
       PROVE  Quiet
  BY <1>11 DEF ExpireHead, BeginDispatch, EndDispatch, Subscribe, Stats, txns, InHand
<1>12. ASSUME NEW s, ConnClosed(s) PROVE UNCHANGED <<reserved, slots, InHand, pc, next_msg_id>>
  BY Zenon, <1>12 DEF ConnClosed, txns, InHand
<1>13. ASSUME Tick \/ UNCHANGED vars
       PROVE  UNCHANGED <<reserved, slots, InHand, pc, next_msg_id>>
  BY Zenon, <1>13 DEF Tick, vars, txns, InHand
<1> HIDE DEF Quiet
<1>14. Quiet => pc # "publish" /\ pc' # "publish"
                /\ UNCHANGED <<reserved, slots, InHand, next_msg_id>>
  BY Zenon DEF Quiet
<1>15. ASSUME NEW sz \in BodySizes, NEW b \in BOOLEAN, Publish(sz, b)
       PROVE  Publish(sz, TRUE) \/ Publish(sz, FALSE)
  BY ZenonT(30), <1>15
<1> QED
  BY ZenonT(30), <1>1, <1>2, <1>3, <1>4, <1>5, <1>6, <1>7, <1>8, <1>9, <1>10, <1>11, <1>12, <1>13,
     <1>14, <1>15, Zenon
  DEF Next, Dispatching

LEMMA DepthStep ==
    ASSUME TypeOK, TypeOK', MsgInv, DepthInv, [Next]_vars
    PROVE  DepthInv'
<1>a. PICK L \in Nat, L2 \in Nat :
         /\ L = Load /\ L2 = Load'
         /\ \/ next_msg_id' = next_msg_id + 1 /\ L2 = L + 1
            \/ next_msg_id' = next_msg_id /\ L2 <= L
  BY Zenon, LoadStep, Effects
<1>b. /\ reserved \in Nat /\ reserved' \in Nat /\ slots \in Nat /\ slots' \in Nat
      /\ max_len \in Nat /\ next_msg_id \in Nat
  BY PolicyAssumption DEF TypeOK, MsgTypeOK, ActorTypeOK
<1>c. PICK h \in Nat, h2 \in Nat : h = InHand /\ h2 = InHand' /\ h <= 1 /\ h2 <= 1
  <2>1. /\ InHand \in Nat /\ InHand <= 1
        /\ InHand' \in Nat /\ InHand' <= 1
    BY DEF InHand
  <2> QED BY Zenon, <2>1
<1>e. /\ h <= 1 /\ h2 <= 1
      /\ \/ next_msg_id' = next_msg_id + 1 /\ L2 = L + 1
         \/ next_msg_id' = next_msg_id /\ L2 <= L
  BY <1>a, <1>c
<1>d. pc # "publish" => h = 0
  BY <1>c DEF DepthInv
<1>1. pc' # "publish" => h2 = 0
  BY SMTT(30), <1>c, <1>d, SlotsStep
<1>2. ASSUME ~drop_head
      PROVE  reserved' = slots' /\ L2 + reserved' + h2 <= max_len
  <2>1. reserved = slots /\ L + reserved + h <= max_len
    BY Zenon, <1>2, <1>a, <1>c DEF DepthInv, DepthBound, Depth, Load, InHand
  <2>2. CASE h2 = h /\ UNCHANGED <<reserved, slots, next_msg_id>>
    BY SMTT(30), <1>b, <1>e, <2>1, <2>2
  <2>3. CASE Admit /\ h2 = 0 /\ UNCHANGED <<reserved, slots>>
    <3>1. CASE h = 1
      BY SMTT(30), <1>b, <1>e, <2>1, <2>3, <3>1
    <3>2. CASE h = 0
      <4>1. ~Over
        BY SMTT(30), <1>c, <2>3, <3>2 DEF Admit, InHand
      <4>2. L + reserved < max_len
        BY SMTT(30), <1>a, <1>b, <4>1 DEF Over, Load
      <4> QED BY SMTT(30), <1>b, <1>e, <2>1, <2>3, <4>2
    <3> QED BY SMTT(30), <1>e, <3>1, <3>2
  <2>4. CASE h2 = 0 /\ UNCHANGED <<reserved, slots, next_msg_id>>
    BY SMTT(30), <1>b, <1>e, <2>1, <2>4
  <2>5. CASE /\ pc # "publish" /\ h2 = 1 /\ slots > 0 /\ slots' = slots - 1
             /\ reserved' = SatSub(reserved, 1) /\ UNCHANGED next_msg_id
    BY SMTT(30), <1>b, <1>d, <1>e, <2>1, <2>5 DEF SatSub
  <2>6. ASSUME NEW n \in 1..MaxSlots, Reserve(n), h = 0, h2 = 0
        PROVE  reserved' = slots' /\ L2 + reserved' + h2 <= max_len
    <3>1. L2 = L
      BY SMTT(30), <1>a, <2>6 DEF Reserve, Load, Unacked
    <3>2. \/ reserved' = reserved + n /\ slots' = slots + n /\ L + reserved + n <= max_len
          \/ reserved' = reserved /\ slots' = slots
      BY SMTT(30), <1>2, <1>a, <2>6 DEF Reserve, Load
    <3>3. n \in Nat
      BY BoundsAssumption
    <3>4. h = 0 /\ h2 = 0
      BY Zenon, <2>6
    <3>5. CASE reserved' = reserved /\ slots' = slots
      BY SMTT(30), <1>b, <2>1, <3>1, <3>4, <3>5
    <3>6. CASE /\ reserved' = reserved + n /\ slots' = slots + n
               /\ L + reserved + n <= max_len
      BY SMTT(30), <1>b, <2>1, <3>1, <3>3, <3>4, <3>6
    <3> QED BY SMTT(30), <3>2, <3>5, <3>6
  <2>7. ASSUME NEW n \in 1..MaxSlots, Unreserve(n), h = 0, h2 = 0
        PROVE  reserved' = slots' /\ L2 + reserved' + h2 <= max_len
    <3>1. L2 = L
      BY SMTT(30), <1>a, <2>7 DEF Unreserve, Load, Unacked
    <3>2. n <= slots /\ reserved' = SatSub(reserved, n) /\ slots' = slots - n
      BY Zenon, <2>7 DEF Unreserve
    <3> QED BY SMTT(30), <1>b, <2>1, <2>7, <3>1, <3>2 DEF SatSub
  <2> QED BY SMTT(30), <1>c, <1>d, <2>2, <2>3, <2>4, <2>5, <2>6, <2>7, SlotsStep
<1>3. DepthBound' <=> (~drop_head => L2 + reserved' + h2 <= max_len)
  BY SMTT(30), <1>a, <1>c DEF DepthBound, Depth, Load, InHand
<1> QED
  BY SMTT(30), <1>1, <1>2, <1>3, <1>c DEF DepthInv

(***************************************************************************)
(* A reject-publish queue never exceeds max_len, for every max_len and     *)
(* however transactions reserve, spend and give back their slots.          *)
(***************************************************************************)
THEOREM DepthNeverExceeded == Spec => []DepthBound
<1>1. TypeOK /\ TypeOK' /\ MsgInv /\ DepthInv /\ [Next]_vars => DepthInv'
  BY Zenon, DepthStep
<1>2. DepthInv => DepthBound
  BY Zenon DEF DepthInv
<1> QED
  BY <1>1, <1>2, DepthInit, TypeCorrect, MsgInvariant, PTL DEF Spec

=============================================================================
