------------------------- MODULE TransparentProofs --------------------------
(***************************************************************************)
(* Theorems about Transparent, for any number of links, sends, retries and *)
(* connections.                                                            *)
(***************************************************************************)
EXTENDS Transparent, TLAPS

-----------------------------------------------------------------------------
(* The inductive invariant.                                                *)

\* a member of V is in the queue; at most one is
Has(q, V) == \E i \in 1..Len(q) : q[i] \in V
Single(q, V) == \A i, j \in 1..Len(q) : q[i] \in V /\ q[j] \in V => i = j

Reopening == pc \in {"open", "opening"} /\ ~Attaching

(***************************************************************************)
(* Where the supervisor is in its command or its reconnect.                *)
(***************************************************************************)
Phases ==
    /\ pc \in {"select", "reconnect"} => cur = NoCmd
    /\ pc = "handle" => cur \in Cmd
    /\ pc \in {"open", "opening"} => cur.op \in {"none", "attach"}
    /\ pc \in {"closing", "stopped"} => cur.op \in {"none", "close"}
    /\ pc \in {"open", "opening"} <=> todo # <<>>
    /\ todo # <<>> /\ Attaching => todo = <<cur.l>>
    /\ \A i, j \in 1..Len(todo) : i # j => todo[i] # todo[j]
    /\ opened # None => pc = "opening"

(***************************************************************************)
(* The supervisor asks for one opening at a time and sends nothing after   *)
(* it; no send is with a driver that has ended or is being opened again.   *)
(***************************************************************************)
OneOpening ==
    \A i \in 1..Len(inbox) : inbox[i].op \in {"begin", "attach"} =>
        /\ i = Len(inbox) /\ pc = "opening" /\ opened = None
        /\ inbox[i].op = "begin" => todo[1] = TheSession
        /\ inbox[i].op = "attach" => todo[1] = inbox[i].l

Quiet ==
    driver # "up" \/ pc = "reconnect" \/ Reopening =>
        pending = {} /\ \A i \in 1..Len(inbox) : inbox[i].op # "send"

Mailbox == OneOpening /\ Quiet

(***************************************************************************)
(* The driver's handles: those in use and those freed make up an initial   *)
(* segment, and no two are in use for one link.                            *)
(***************************************************************************)
Taken(h) == table[h] # None \/ \E i \in 1..Len(free) : free[i] = h

Handles ==
    /\ \A g, h \in RealHandle : table[g] # None /\ table[g] = table[h] => g = h
    /\ \A i, j \in 1..Len(free) : i # j => free[i] # free[j]
    /\ \A i \in 1..Len(free) : table[free[i]] = None
    /\ \A h \in RealHandle : Taken(h) => \A g \in 0..h : Taken(g)
    /\ ~session => table = EmptyTable /\ free = <<>>

(***************************************************************************)
(* A link is attached once: one still to be attached is in no table.       *)
(***************************************************************************)
AttachCmd(l) == [op |-> "attach", l |-> l]
BeingAttached(l) == pc \in {"open", "opening"} /\ Attaching /\ cur.l = l

AttachOnce(l) ==
    /\ Single(cmds, {AttachCmd(l)})
    /\ Has(cmds, {AttachCmd(l)}) => producer[l] = "attaching" /\ cur # AttachCmd(l)
    /\ cur = AttachCmd(l) => producer[l] = "attaching"

NotYet(l) ==
    producer[l] \in {"none", "attaching"} /\ ~BeingAttached(l) =>
        l \notin links /\ \A h \in RealHandle : table[h] # l

StillToOpen ==
    \A i \in 1..Len(todo) :
        /\ todo[i] \in links \/ (i = 1 /\ todo[i] = TheSession)
        /\ \A h \in RealHandle : table[h] = todo[i] => i = 1 /\ opened \in RealHandle

Attaches == (\A l \in Link : AttachOnce(l) /\ NotYet(l)) /\ StillToOpen

(***************************************************************************)
(* Where a send is.                                                        *)
(***************************************************************************)
SendCmd(s) == [op |-> "send", s |-> s]
SendMail(s) == [op : {"send"}, h : RealHandle, s : {s}]
InPending(s) == \E p \in pending : p.s = s
Waiting(s) == s \in issued /\ answer[s] = "none"

At(s, w) ==
    /\ Has(cmds, {SendCmd(s)}) <=> w = "cmds"
    /\ Has(replays, {s}) <=> w = "replays"
    /\ Has(inbox, SendMail(s)) <=> w = "inbox"
    /\ InPending(s) <=> w = "pending"
    /\ s \in lost <=> w = "lost"
    /\ cur = SendCmd(s) <=> w = "cur"
    /\ Waiting(s) <=> w # "none"

Area == {"cmds", "replays", "inbox", "pending", "lost", "cur", "none"}

InOnePlace(s) ==
    /\ \E w \in Area : At(s, w)
    /\ Single(cmds, {SendCmd(s)}) /\ Single(replays, {s}) /\ Single(inbox, SendMail(s))
    /\ s \notin issued => answer[s] = "none"

Located == \A s \in Sends : InOnePlace(s)

Pending ==
    /\ \A p, q \in pending : p.s = q.s => p = q
    /\ \A p \in pending : /\ table[p.h] # None
                          /\ p.at = "stored" => \E l \in Link : <<p.s, l>> \in stored
    /\ OkMeansStored

(***************************************************************************)
(* While the broker has detached nothing, mail is about the link that the  *)
(* handle had when it was sent, and a link is attached where the           *)
(* supervisor says, unless it is still to be opened.                       *)
(***************************************************************************)
ToOpen(l) == \E i \in 1..Len(todo) : todo[i] = l
AttachedAt(l) == real_handle[l] \in RealHandle /\ table[real_handle[l]] = l

CopiesHome == \A x \in stored \cup stray : x[2] = link_of[x[1]]

PendingHome == \A p \in pending : table[p.h] = link_of[p.s]

Mapped == session /\ driver # "none" => \A l \in links : ToOpen(l) \/ AttachedAt(l)

MailHome(m) ==
    /\ m.op = "detach" => table[m.h] \notin links
    /\ m.op = "send" => table[m.h] \in {None, link_of[m.s]}

InboxHome == session => \A i \in 1..Len(inbox) : MailHome(inbox[i])

ReplaysLinks == todo # <<>> /\ todo[1] = TheSession => \A l \in links : ToOpen(l)

OpenedAt == session /\ opened \in RealHandle /\ todo[1] # TheSession => table[opened] = todo[1]

Topology ==
    cut = {} => CopiesHome /\ PendingHome /\ Mapped /\ InboxHome /\ ReplaysLinks /\ OpenedAt

Inv == TypeOK /\ Phases /\ Mailbox /\ Handles /\ Attaches /\ Located /\ Pending /\ Topology

-----------------------------------------------------------------------------
(* Queues: what appending and taking the first do to Has and Single.       *)

(***************************************************************************)
(* An empty channel holds nothing.                                         *)
(***************************************************************************)
LEMMA EmptyQueue == ASSUME NEW V PROVE ~Has(<<>>, V) /\ Single(<<>>, V)
BY DEF Has, Single

(***************************************************************************)
(* What a queue holds after push_back.                                     *)
(***************************************************************************)
LEMMA AppendQueue ==
    ASSUME NEW S, NEW q \in Seq(S), NEW x \in S
    PROVE  /\ Append(q, x) \in Seq(S) /\ Append(q, x) # <<>>
           /\ Len(Append(q, x)) = Len(q) + 1 /\ Append(q, x)[Len(q) + 1] = x
           /\ \A i \in 1..Len(q) : Append(q, x)[i] = q[i]
           /\ \A V : Has(Append(q, x), V) <=> Has(q, V) \/ x \in V
           /\ \A V : Single(q, V) /\ ~(Has(q, V) /\ x \in V) => Single(Append(q, x), V)
<1>1. /\ Append(q, x) \in Seq(S) /\ Append(q, x) # <<>> /\ Len(q) \in Nat
      /\ Len(Append(q, x)) = Len(q) + 1 /\ Append(q, x)[Len(q) + 1] = x
      /\ \A i \in 1..Len(q) : Append(q, x)[i] = q[i]
  OBVIOUS
<1>2. ASSUME NEW V PROVE Has(Append(q, x), V) <=> Has(q, V) \/ x \in V
  BY <1>1 DEF Has
<1>3. ASSUME NEW V, Single(q, V), ~(Has(q, V) /\ x \in V) PROVE Single(Append(q, x), V)
  BY <1>1, <1>3 DEF Has, Single
<1> QED BY Zenon, <1>1, <1>2, <1>3

(***************************************************************************)
(* Pushing the first of its kind: it is there, and once.                   *)
(***************************************************************************)
LEMMA Appended ==
    ASSUME NEW S, NEW q \in Seq(S), NEW x \in S, NEW V, x \in V, ~Has(q, V), Single(q, V),
           NEW r, r = Append(q, x)
    PROVE  Has(r, V) /\ Single(r, V)
BY AppendQueue

(***************************************************************************)
(* What a queue holds after pop_front.                                     *)
(***************************************************************************)
LEMMA TailQueue ==
    ASSUME NEW S, NEW q \in Seq(S), q # <<>>
    PROVE  /\ Head(q) \in S /\ Head(q) = q[1] /\ Tail(q) \in Seq(S)
           /\ Len(q) \in Nat /\ Len(q) >= 1 /\ Len(Tail(q)) = Len(q) - 1
           /\ \A i \in 1..Len(q) - 1 : Tail(q)[i] = q[i + 1]
           /\ \A V : Head(q) \in V => Has(q, V)
           /\ \A V : Head(q) \notin V => (Has(Tail(q), V) <=> Has(q, V))
           /\ \A V : Single(q, V) => Single(Tail(q), V)
           /\ \A V : Single(q, V) /\ Head(q) \in V => ~Has(Tail(q), V)
<1>1. /\ Head(q) \in S /\ Head(q) = q[1] /\ Tail(q) \in Seq(S)
      /\ Len(q) \in Nat /\ Len(q) >= 1 /\ Len(Tail(q)) = Len(q) - 1
      /\ \A i \in 1..Len(q) - 1 : Tail(q)[i] = q[i + 1]
  OBVIOUS
<1>2. ASSUME NEW V, Head(q) \in V PROVE Has(q, V)
  BY <1>1, <1>2 DEF Has
<1>3. ASSUME NEW V, Head(q) \notin V PROVE Has(Tail(q), V) <=> Has(q, V)
  <2>1. ASSUME NEW i \in 1..Len(q), q[i] \in V PROVE Has(Tail(q), V)
    <3>1. i - 1 \in 1..Len(q) - 1 /\ Tail(q)[i - 1] = q[i]
      BY <1>1, <1>3, <2>1
    <3> QED BY Zenon, <1>1, <2>1, <3>1 DEF Has
  <2>2. ASSUME NEW i \in 1..Len(q) - 1, Tail(q)[i] \in V PROVE Has(q, V)
    BY <1>1, <2>2 DEF Has
  <2> QED BY Zenon, <1>1, <2>1, <2>2 DEF Has
<1>4. ASSUME NEW V, Single(q, V) PROVE Single(Tail(q), V)
  BY <1>1, <1>4 DEF Single
<1>5. ASSUME NEW V, Single(q, V), Head(q) \in V PROVE ~Has(Tail(q), V)
  BY <1>1, <1>5 DEF Single, Has
<1> QED BY Zenon, <1>1, <1>2, <1>3, <1>4, <1>5

(***************************************************************************)
(* The free list after a handle is taken from its end.                     *)
(***************************************************************************)
LEMMA FrontQueue ==
    ASSUME NEW S, NEW q \in Seq(S), q # <<>>
    PROVE  LET r == SubSeq(q, 1, Len(q) - 1) IN
           r \in Seq(S) /\ Len(r) = Len(q) - 1 /\ \A i \in 1..Len(q) - 1 : r[i] = q[i]
OBVIOUS

-----------------------------------------------------------------------------
(* The driver's handles.                                                   *)

UsedHandles == {h \in RealHandle : table[h] # None}

\* as long as some link is in no table entry, there is a next unused handle
HandleLeft ==
    (\E l \in Link : \A h \in RealHandle : table[h] # l) /\ free = <<>> =>
        LET c == Cardinality(UsedHandles) IN
        c \in RealHandle /\ table[c] = None /\ \A g \in 0..c - 1 : table[g] # None

(***************************************************************************)
(* HandleAllocator gives out a handle that is not in use.                  *)
(***************************************************************************)
LEMMA Allocates ==
    ASSUME DriverTypeOK, Handles, HandleLeft, session, session', NEW l \in Link,
           \A h \in RealHandle : table[h] # l,
           table' = [table EXCEPT ![allocate] = l],
           free' = IF free # <<>> THEN SubSeq(free, 1, Len(free) - 1) ELSE free
    PROVE  /\ allocate \in RealHandle /\ table[allocate] = None
           /\ table' \in [RealHandle -> Link \cup {None}] /\ free' \in Seq(RealHandle)
           /\ Handles'
<1>0. /\ table \in [RealHandle -> Link \cup {None}] /\ free \in Seq(RealHandle)
      /\ Len(free) \in Nat /\ None \notin Link
  BY ConstantsAssumption DEF DriverTypeOK, Link
<1>1. CASE free = <<>>
  <2>1. allocate = Cardinality(UsedHandles) /\ free' = <<>>
    BY Zenon, <1>1 DEF allocate, UsedHandles
  <2>2. /\ allocate \in RealHandle /\ table[allocate] = None
        /\ \A g \in 0..allocate - 1 : table[g] # None
    BY Zenon, <1>1, <2>1 DEF HandleLeft
  <2> DEFINE c == allocate
  <2> HIDE DEF c
  <2>3. /\ c \in RealHandle /\ table[c] = None /\ table' = [table EXCEPT ![c] = l]
        /\ \A g \in 0..c - 1 : table[g] # None
    BY Zenon, <2>2 DEF c
  <2>4. \A g, h \in RealHandle : table'[g] # None /\ table'[g] = table'[h] => g = h
    BY <1>0, <2>3 DEF Handles
  <2>5. ASSUME NEW h \in RealHandle, Taken(h)', NEW g \in 0..h PROVE Taken(g)'
    <3>1. g \in RealHandle
      BY ConstantsAssumption DEF RealHandle
    <3>2. CASE h = c
      BY <1>0, <2>3, <3>1, <3>2 DEF Taken, RealHandle
    <3>3. CASE h # c
      <4>1. Taken(h)
        BY Zenon, <1>0, <1>1, <2>1, <2>3, <2>5, <3>3 DEF Taken
      <4>2. Taken(g)
        BY Zenon, <4>1 DEF Handles
      <4>3. table[g] # None
        BY <1>1, <4>2 DEF Taken
      <4> QED BY Zenon, <1>0, <2>3, <3>1, <4>3 DEF Taken
    <3> QED BY Zenon, <3>2, <3>3
  <2>6. Handles'
    BY <2>1, <2>4, <2>5 DEF Handles
  <2>7. table' \in [RealHandle -> Link \cup {None}]
    BY Zenon, <1>0, <2>3
  <2>8. free' \in Seq(RealHandle)
    BY Zenon, <1>0, <1>1, <2>1
  <2> QED BY Zenon, <2>2, <2>6, <2>7, <2>8
<1>2. CASE free # <<>>
  <2> DEFINE n == Len(free)
             c == free[n]
  <2>1. allocate = c /\ n \in Nat /\ n >= 1
    BY <1>0, <1>2 DEF allocate
  <2>2. /\ free' \in Seq(RealHandle) /\ Len(free') = n - 1
        /\ \A i \in 1..n - 1 : free'[i] = free[i]
    BY Zenon, <1>0, <1>2, <2>1, FrontQueue
  <2>3. c \in RealHandle /\ table[c] = None /\ table' = [table EXCEPT ![c] = l]
    BY <1>0, <2>1 DEF Handles
  <2> HIDE DEF c, n
  <2>4. \A g, h \in RealHandle : table'[g] # None /\ table'[g] = table'[h] => g = h
    BY <1>0, <2>3 DEF Handles
  <2>5. \A i, j \in 1..Len(free') : i # j => free'[i] # free'[j]
    <3> SUFFICES ASSUME NEW i \in 1..n - 1, NEW j \in 1..n - 1, i # j
                 PROVE  free'[i] # free'[j]
      BY SMTT(30), <2>2
    <3>1. i \in 1..Len(free) /\ j \in 1..Len(free) /\ free'[i] = free[i] /\ free'[j] = free[j]
      BY <2>1, <2>2 DEF n
    <3> QED BY Zenon, <3>1 DEF Handles
  <2>6. \A i \in 1..Len(free') : table'[free'[i]] = None
    <3> SUFFICES ASSUME NEW i \in 1..n - 1 PROVE table'[free'[i]] = None
      BY Zenon, <2>2
    <3>0. i \in 1..n /\ i # n /\ n \in 1..n
      BY <2>1
    <3>1. free'[i] = free[i] /\ free[i] # c /\ table[free[i]] = None
      BY Zenon, <2>1, <2>2, <3>0 DEF Handles, c, n
    <3>2. free[i] \in RealHandle
      BY <1>0, <2>1 DEF n
    <3> QED BY Zenon, <1>0, <2>3, <3>1, <3>2
  <2>7. \A h \in RealHandle : Taken(h)' <=> Taken(h)
    <3> SUFFICES ASSUME NEW h \in RealHandle PROVE Taken(h)' <=> Taken(h)
      BY Zenon
    <3>1. CASE h = c
      BY <1>0, <2>1, <2>3, <3>1 DEF Taken, c, n
    <3>2. CASE h # c
      <4>1. table'[h] = table[h]
        BY Zenon, <1>0, <2>3, <3>2
      <4>2. ASSUME NEW i \in 1..n, free[i] = h PROVE i \in 1..n - 1 /\ free'[i] = h
        BY <2>1, <2>2, <3>2, <4>2 DEF c
      <4>3. ASSUME NEW i \in 1..n - 1, free'[i] = h PROVE i \in 1..n /\ free[i] = h
        BY <2>1, <2>2, <4>3
      <4> QED BY Zenon, <2>1, <2>2, <4>1, <4>2, <4>3 DEF Taken, n
    <3> QED BY Zenon, <3>1, <3>2
  <2>8. \A h \in RealHandle : \A g \in 0..h : g \in RealHandle
    BY ConstantsAssumption DEF RealHandle
  <2>9. Handles'
    BY Zenon, <2>4, <2>5, <2>6, <2>7, <2>8 DEF Handles
  <2>10. table' \in [RealHandle -> Link \cup {None}]
    BY Zenon, <1>0, <2>3
  <2> QED BY Zenon, <2>1, <2>2, <2>3, <2>9, <2>10
<1> QED BY Zenon, <1>1, <1>2

(***************************************************************************)
(* forget_link frees exactly the handle of the link.                       *)
(***************************************************************************)
LEMMA Forgets ==
    ASSUME DriverTypeOK, Handles, session, session',
           NEW k \in RealHandle, table[k] # None,
           table' = [table EXCEPT ![k] = None], free' = Append(free, k)
    PROVE  /\ table' \in [RealHandle -> Link \cup {None}] /\ free' \in Seq(RealHandle)
           /\ Handles'
<1>0. table \in [RealHandle -> Link \cup {None}] /\ free \in Seq(RealHandle) /\ Len(free) \in Nat
  BY DEF DriverTypeOK
<1>1. /\ free' \in Seq(RealHandle) /\ Len(free') = Len(free) + 1 /\ free'[Len(free) + 1] = k
      /\ \A i \in 1..Len(free) : free'[i] = free[i]
  BY <1>0, AppendQueue
<1>2. table' \in [RealHandle -> Link \cup {None}]
  BY Zenon, <1>0
<1>3. \A g, h \in RealHandle : table'[g] # None /\ table'[g] = table'[h] => g = h
  BY Zenon, <1>0 DEF Handles
<1>4. \A i \in 1..Len(free) : free[i] # k /\ free[i] \in RealHandle
  BY <1>0 DEF Handles
<1>5. \A i, j \in 1..Len(free') : i # j => free'[i] # free'[j]
  BY <1>0, <1>1, <1>4 DEF Handles
<1>6. \A i \in 1..Len(free') : table'[free'[i]] = None
  <2>1. \A i \in 1..Len(free) : table'[free'[i]] = None
    BY Zenon, <1>0, <1>1, <1>4 DEF Handles
  <2> QED BY <1>0, <1>1, <2>1
<1>7. \A h \in RealHandle : Taken(h)' <=> Taken(h)
  <2> SUFFICES ASSUME NEW h \in RealHandle PROVE Taken(h)' <=> Taken(h)
    BY Zenon
  <2>1. CASE h = k
    BY <1>0, <1>1, <2>1 DEF Taken
  <2>2. CASE h # k
    <3>1. table'[h] = table[h]
      BY Zenon, <1>0, <2>2
    <3>2. ASSUME NEW i \in 1..Len(free'), free'[i] = h PROVE i \in 1..Len(free) /\ free[i] = h
      BY <1>0, <1>1, <2>2, <3>2
    <3>3. ASSUME NEW i \in 1..Len(free), free[i] = h PROVE i \in 1..Len(free') /\ free'[i] = h
      BY <1>0, <1>1, <3>3
    <3> QED BY Zenon, <3>1, <3>2, <3>3 DEF Taken
  <2> QED BY Zenon, <2>1, <2>2
<1>8. \A h \in RealHandle : \A g \in 0..h : g \in RealHandle
  BY ConstantsAssumption DEF RealHandle
<1> QED BY Zenon, <1>1, <1>2, <1>3, <1>5, <1>6, <1>7, <1>8 DEF Handles

(***************************************************************************)
(* What is dropped with its link or its driver.                            *)
(***************************************************************************)
LEMMA Drops ==
    ASSUME DriverTypeOK, Pending, NEW P \in SUBSET pending, NEW Q \in SUBSET Sends,
           Dropped(P, Q)
    PROVE  /\ pending' = pending \ P /\ pending' \subseteq Unsettled
           /\ lost' = lost \cup {p.s : p \in P} \cup Q /\ lost' \subseteq Sends
           /\ \A x \in stray' : \/ x \in stray
                                \/ \E p \in P : x = <<p.s, table[p.h]>>
           /\ \A p \in P : <<p.s, table[p.h]>> \in Sends \X Link
<1>1. pending' = pending \ P /\ lost' = lost \cup {p.s : p \in P} \cup Q
  BY Zenon DEF Dropped
<1>2. PICK W \in SUBSET {p \in P : p.at = "wire"} :
          stray' = stray \cup {<<p.s, table[p.h]>> : p \in W}
  BY Zenon DEF Dropped
<1>3. \A p \in P : p.s \in Sends /\ p.h \in RealHandle
  BY Zenon DEF DriverTypeOK, Unsettled
<1>4. \A p \in P : table[p.h] \in Link
  BY Zenon, <1>3 DEF DriverTypeOK, Pending
<1> QED BY Zenon, <1>1, <1>2, <1>3, <1>4 DEF DriverTypeOK
-----------------------------------------------------------------------------
(* Type correctness.                                                       *)

USE DEF supervisor, channels, logical, conn, app, broker

(***************************************************************************)
(* A reply leaves every caller with no, an Ok or an error answer.          *)
(***************************************************************************)
LEMMA AnsweredType ==
    ASSUME LinkTypeOK, NEW S, NEW a \in {"ok", "err"}
    PROVE  /\ Answered(S, a) \in [Sends -> {"none", "ok", "err"}]
           /\ \A s \in Sends : Answered(S, a)[s] = IF s \in S THEN a ELSE answer[s]
BY Zenon DEF Answered, LinkTypeOK

(***************************************************************************)
(* The session, a failed open and no link at all are told apart from any   *)
(* link or handle.                                                         *)
(***************************************************************************)
LEMMA ConstantsApart ==
    /\ None \notin Link /\ None \notin RealHandle /\ None # Failed /\ None # TheSession
    /\ TheSession \notin Link /\ Failed \notin RealHandle
    /\ Link = RealHandle /\ 0 \in RealHandle
BY ConstantsAssumption DEF Link, RealHandle, TheSession, Failed

(***************************************************************************)
(* The links replayed are listed, each once.                               *)
(***************************************************************************)
LEMMA AscendingLists ==
    ASSUME NEW S \in SUBSET Link, NEW q \in Ascending(S)
    PROVE  /\ q \in Seq(Link) /\ \A i \in 1..Len(q) : q[i] \in S
           /\ \A i, j \in 1..Len(q) : i # j => q[i] # q[j]
           /\ \A l \in S : \E i \in 1..Len(q) : q[i] = l
<1>1. PICK n \in 0..MaxLinks : q \in [1..n -> S]
  BY Zenon DEF Ascending
<1>2. n \in Nat
  BY ConstantsAssumption
<1>3. q \in Seq(Link) /\ Len(q) = n /\ DOMAIN q = 1..n
  BY <1>1, <1>2
<1>4. \A i \in 1..n : q[i] \in S /\ q[i] \in Int
  <2>1. \A l \in S : l \in Int
    BY ConstantsAssumption DEF Link
  <2> QED BY Zenon, <1>1, <2>1
<1>5. \A i, j \in 1..n : i < j => q[i] < q[j]
  BY Zenon, <1>3 DEF Ascending
<1>6. \A i, j \in 1..n : i # j => q[i] # q[j]
  BY <1>2, <1>4, <1>5
<1>7. \A l \in S : \E i \in 1..n : q[i] = l
  BY Zenon, <1>3 DEF Ascending
<1> QED BY Zenon, <1>3, <1>4, <1>6, <1>7

(***************************************************************************)
(* replay_topology opens the session first and then every link once.       *)
(***************************************************************************)
LEMMA ReplaysAll ==
    ASSUME links \subseteq Link, NEW t \in replay_topology
    PROVE  /\ t \in Seq(Link \cup {TheSession}) /\ t # <<>> /\ t[1] = TheSession
           /\ \A i, j \in 1..Len(t) : i # j => t[i] # t[j]
           /\ \A l \in links : \E i \in 1..Len(t) : t[i] = l
           /\ \A i \in 1..Len(t) : i = 1 \/ t[i] \in links
<1>1. PICK q \in Ascending(links) : t = <<TheSession>> \o q
  BY Zenon DEF replay_topology
<1>2. /\ q \in Seq(Link) /\ Len(q) \in Nat
      /\ \A i, j \in 1..Len(q) : i # j => q[i] # q[j]
      /\ \A l \in links : \E i \in 1..Len(q) : q[i] = l
      /\ \A i \in 1..Len(q) : q[i] \in links
  BY AscendingLists
<1>3. /\ t \in Seq(Link \cup {TheSession}) /\ t[1] = TheSession /\ Len(t) = Len(q) + 1
      /\ \A i \in 1..Len(q) : t[i + 1] = q[i]
  BY <1>1, <1>2
<1>4. \A i \in 2..Len(t) : i - 1 \in 1..Len(q) /\ t[i] = q[i - 1] /\ t[i] \in Link
  BY <1>2, <1>3
<1>5. \A i, j \in 1..Len(t) : i # j => t[i] # t[j]
  <2>1. ASSUME NEW i \in 1..Len(t), NEW j \in 1..Len(t), i # j, t[i] = t[j] PROVE FALSE
    <3>1. CASE i = 1 \/ j = 1
      BY <1>2, <1>3, <1>4, <2>1, <3>1, ConstantsApart
    <3>2. CASE i # 1 /\ j # 1
      <4>1. i \in 2..Len(t) /\ j \in 2..Len(t) /\ i - 1 # j - 1
        BY <1>2, <1>3, <2>1, <3>2
      <4>2. i - 1 \in 1..Len(q) /\ j - 1 \in 1..Len(q) /\ q[i - 1] = q[j - 1]
        BY Zenon, <1>4, <2>1, <4>1
      <4> QED BY Zenon, <1>2, <4>1, <4>2
    <3> QED BY Zenon, <3>1, <3>2
  <2> QED BY Zenon, <2>1
<1>6. \A l \in links : \E i \in 1..Len(t) : t[i] = l
  <2> SUFFICES ASSUME NEW l \in links PROVE \E i \in 1..Len(t) : t[i] = l
    BY Zenon
  <2>1. PICK i \in 1..Len(q) : q[i] = l
    BY Zenon, <1>2
  <2>2. i + 1 \in 1..Len(t) /\ t[i + 1] = l
    BY <1>2, <1>3, <2>1
  <2> QED BY Zenon, <2>2
<1>7. t # <<>> /\ \A i \in 1..Len(t) : i = 1 \/ i \in 2..Len(t)
  BY <1>2, <1>3
<1>8. \A i \in 2..Len(t) : t[i] \in links
  BY Zenon, <1>2, <1>4
<1> QED BY Zenon, <1>3, <1>5, <1>6, <1>7, <1>8

(***************************************************************************)
(* Every step leaves the supervisor's state well typed.                    *)
(***************************************************************************)
LEMMA SupervisorTypeStep ==
    ASSUME SupervisorTypeOK, links \subseteq Link, Phases, [Next]_vars
    PROVE  SupervisorTypeOK'
<1>0. NoCmd \in Cmd \cup {NoCmd} /\ <<>> \in Seq(Cmd) /\ <<>> \in Seq(Sends)
      /\ <<>> \in Seq(Link \cup {TheSession})
  OBVIOUS
<1>1. ASSUME NEW x \in Cmd, cmds' = Append(cmds, x) \/ cmds' = cmds,
             UNCHANGED <<supervisor, replays>>
      PROVE  SupervisorTypeOK'
  <2>1. cmds \in Seq(Cmd)
    BY Zenon DEF SupervisorTypeOK
  <2>2. cmds' \in Seq(Cmd)
    BY <1>1, <2>1
  <2> QED BY Zenon, <1>1, <2>2 DEF SupervisorTypeOK
<1>2. /\ \A s \in Sends : [op |-> "send", s |-> s] \in Cmd
      /\ \A l \in Link : [op |-> "attach", l |-> l] \in Cmd /\ [op |-> "detach", l |-> l] \in Cmd
      /\ [op |-> "close"] \in Cmd
  BY Zenon DEF Cmd
<1>3. CASE Application
  <2>1. ASSUME NEW s \in Sends, send_bytes(s) PROVE SupervisorTypeOK'
    BY Zenon, <1>1, <1>2, <2>1 DEF send_bytes
  <2>2. ASSUME NEW l \in Link, create_producer(l) \/ detach_on_drop(l) PROVE SupervisorTypeOK'
    BY Zenon, <1>1, <1>2, <2>2 DEF create_producer, detach_on_drop
  <2>3. CASE close
    BY Zenon, <1>1, <1>2, <2>3 DEF close
  <2> QED BY Zenon, <1>3, <2>1, <2>2, <2>3 DEF Application
<1>4. CASE DriverDied
  BY <1>4, ConstantsAssumption DEF DriverDied, SupervisorTypeOK
<1>5. CASE Command
  BY Zenon, <1>5, TailQueue DEF Command, SupervisorTypeOK
<1>6. CASE Replay
  <2>1. Head(replays) \in Sends /\ Tail(replays) \in Seq(Sends)
    BY Zenon, <1>6, TailQueue DEF Replay, ReplaysDue, SupervisorTypeOK
  <2> QED BY Zenon, <1>2, <1>6, <2>1 DEF Replay, SupervisorTypeOK
<1>7. CASE send_transfer \/ DetachLink \/ CloseConnection \/ Retry
  BY <1>0, <1>7, ConstantsAssumption DEF send_transfer, NotConnected, DetachLink, CloseConnection, Retry, next_delay,
     Select, SupervisorTypeOK
<1>8. CASE AttachLink
  <2>1. cur.l \in Link
    BY <1>8 DEF AttachLink, SupervisorTypeOK, Cmd, NoCmd
  <2> QED BY <1>8, <2>1 DEF AttachLink, SupervisorTypeOK
<1>9. CASE Closed \/ give_up
  BY Zenon, <1>0, <1>9 DEF Closed, give_up, Stop, SupervisorTypeOK
<1>10. CASE Open \/ OpenFailed
  BY Zenon, <1>0, <1>10 DEF Open, OpenFailed, OpenFails, Select, SupervisorTypeOK
<1>11. CASE Opened
  <2>1. todo' = Tail(todo) /\ todo # <<>>
    BY Zenon, <1>11 DEF Opened, Phases
  <2>2. todo' \in Seq(Link \cup {TheSession})
    BY <2>1 DEF SupervisorTypeOK
  <2>3. cur' \in {cur, NoCmd} /\ pc' \in {"select", "open"} /\ UNCHANGED <<attempt, channels>>
    BY Zenon, <1>11 DEF Opened, Select
  <2> QED BY Zenon, <1>0, <2>2, <2>3 DEF SupervisorTypeOK
<1>12. CASE Established
  BY Zenon, <1>12, ReplaysAll DEF Established, SupervisorTypeOK
<1>13. ASSUME NEW s \in Sends, ReplyDropped(s) PROVE SupervisorTypeOK'
  <2>1. /\ replays' = replays \/ replays' = Append(replays, s)
        /\ UNCHANGED <<supervisor, cmds>>
    BY Zenon, <1>13 DEF ReplyDropped, NoReply
  <2>2. replays' \in Seq(Sends)
    BY SMTT(30), <2>1 DEF SupervisorTypeOK
  <2> QED BY Zenon, <2>1, <2>2 DEF SupervisorTypeOK
<1>14. ASSUME UNCHANGED <<supervisor, channels>> PROVE SupervisorTypeOK'
  BY Zenon, <1>14 DEF SupervisorTypeOK
<1>15. CASE Driver
  BY Zenon, <1>14, <1>15 DEF Driver, session_send_transfer, begin_session, attach_link, detach_link,
     do_close, Ends
<1>16. CASE Peer
  BY Zenon, <1>14, <1>16 DEF Peer, ConnectionLost, on_peer_end, on_peer_detach, Ends
<1>17. CASE Delivery \/ UNCHANGED vars \/ \E x \in stray : BrokerStoresStray(x)
  BY Zenon, <1>14, <1>17 DEF Delivery, flush_sender, BrokerStores, on_disposition, BrokerStoresStray, vars
<1> QED
  BY Zenon, <1>3, <1>4, <1>5, <1>6, <1>7, <1>8, <1>9, <1>10, <1>11, <1>12, <1>13, <1>15, <1>16, <1>17
  DEF Next, Supervisor, Watcher

(***************************************************************************)
(* Every step leaves the logical links and the callers' state well typed.  *)
(***************************************************************************)
LEMMA LinkTypeStep ==
    ASSUME TypeOK, [Next]_vars
    PROVE  LinkTypeOK'
<1> USE DEF TypeOK
<1>1. ASSUME NEW S, NEW a \in {"ok", "err"}, answer' = Answered(S, a) \/ answer' = answer,
             issued' \subseteq Sends, UNCHANGED <<logical, producer>>
      PROVE  LinkTypeOK'
  BY <1>1, AnsweredType DEF LinkTypeOK
<1>2. ASSUME NEW s \in Sends, send_bytes(s) \/ ReplyDropped(s) PROVE LinkTypeOK'
  <2>1. answer' = Answered({s}, "err") \/ answer' = answer
    BY Zenon, <1>2 DEF send_bytes, ReplyDropped, NoReply
  <2>2. issued' \subseteq Sends /\ UNCHANGED <<logical, producer>>
    BY Zenon, <1>2 DEF send_bytes, ReplyDropped, LinkTypeOK
  <2> QED BY Zenon, <1>1, <2>1, <2>2
<1>3. ASSUME NEW l \in Link, create_producer(l) \/ detach_on_drop(l) PROVE LinkTypeOK'
  BY Zenon, <1>3 DEF create_producer, detach_on_drop, LinkTypeOK
<1>4. CASE send_transfer
  BY Zenon, <1>1, <1>4 DEF send_transfer, NotConnected, LinkTypeOK
<1>5. CASE AttachLink
  <2>1. cur.l \in Link
    BY <1>5 DEF AttachLink, SupervisorTypeOK, Cmd, NoCmd
  <2> QED BY Zenon, <1>5, <2>1 DEF AttachLink, LinkTypeOK
<1>6. CASE DetachLink
  BY Zenon, <1>6 DEF DetachLink, LinkTypeOK
<1>7. CASE Closed \/ give_up
  BY Zenon, <1>1, <1>7 DEF Closed, give_up, Stop, LinkTypeOK
<1>8. CASE Open \/ OpenFailed
  BY Zenon, <1>8 DEF Open, OpenFailed, OpenFails, LinkTypeOK
<1>9. CASE Opened
  BY Zenon, <1>9 DEF Opened, LinkTypeOK
<1>10. CASE session_send_transfer
  BY Zenon, <1>1, <1>10 DEF session_send_transfer, LinkTypeOK
<1>11. ASSUME NEW p \in pending, on_disposition(p) PROVE LinkTypeOK'
  BY Zenon, <1>1, <1>11 DEF on_disposition, LinkTypeOK
<1>12. ASSUME UNCHANGED <<logical, app>> PROVE LinkTypeOK'
  BY Zenon, <1>12 DEF LinkTypeOK
<1>13. CASE \/ close \/ DriverDied \/ Command \/ Replay \/ CloseConnection \/ Established \/ Retry
            \/ UNCHANGED vars
  BY Zenon, <1>12, <1>13 DEF close, DriverDied, Command, Replay, CloseConnection, Established, Retry, vars
<1>14. CASE begin_session \/ attach_link \/ detach_link \/ do_close \/ Peer
  BY Zenon, <1>12, <1>14 DEF begin_session, attach_link, detach_link, do_close, Ends, Peer,
     ConnectionLost, on_peer_end, on_peer_detach
<1>15. ASSUME NEW p, flush_sender(p) \/ BrokerStores(p) \/ BrokerStoresStray(p) PROVE LinkTypeOK'
  BY Zenon, <1>12, <1>15 DEF flush_sender, BrokerStores, BrokerStoresStray
<1> QED
  BY Zenon, <1>2, <1>3, <1>4, <1>5, <1>6, <1>7, <1>8, <1>9, <1>10, <1>11, <1>13, <1>14, <1>15
  DEF Next, Application, Supervisor, Driver, Watcher, Delivery

(***************************************************************************)
(* The commands the driver takes, by kind.                                 *)
(***************************************************************************)
LEMMA InnerMail ==
    /\ \A h \in RealHandle : [op |-> "detach", h |-> h] \in Inner
    /\ \A h \in RealHandle, s \in Sends : [op |-> "send", h |-> h, s |-> s] \in Inner
    /\ [op |-> "begin"] \in Inner /\ [op |-> "close"] \in Inner
    /\ \A l \in Link : [op |-> "attach", l |-> l] \in Inner
    /\ \A m \in Inner : /\ m.op = "send" => m.h \in RealHandle /\ m.s \in Sends
                        /\ m.op = "attach" => m.l \in Link
                        /\ m.op = "detach" => m.h \in RealHandle
BY Zenon DEF Inner

(***************************************************************************)
(* The driver takes the oldest command.                                    *)
(***************************************************************************)
LEMMA HeadMail ==
    ASSUME TypeOK, inbox # <<>>
    PROVE  Mail \in Inner /\ Mail = inbox[1] /\ Tail(inbox) \in Seq(Inner)
BY DEF TypeOK, DriverTypeOK, Mail

(***************************************************************************)
(* The driver's next mail.  An opening is the only mail there is, and the  *)
(* one that the supervisor waits for.                                      *)
(***************************************************************************)
LEMMA OpeningMail ==
    ASSUME TypeOK, Phases, Mailbox, Received("begin") \/ Received("attach")
    PROVE  /\ Tail(inbox) = <<>> /\ opened = None /\ pc = "opening"
           /\ todo # <<>> /\ 1 \in 1..Len(todo)
           /\ Mail.op = "begin" => todo[1] = TheSession
           /\ Mail.op = "attach" => todo[1] = Mail.l
<1>1. Mail \in Inner /\ Mail.op \in {"begin", "attach"} /\ inbox # <<>> /\ Mail = inbox[1]
  BY Zenon, HeadMail DEF Received
<1>2. 1 \in 1..Len(inbox) /\ inbox \in Seq(Inner)
  BY <1>1 DEF TypeOK, DriverTypeOK
<1>3. 1 = Len(inbox)
  BY Zenon, <1>1, <1>2 DEF Mailbox, OneOpening
<1>4. Tail(inbox) = <<>>
  <2>1. Tail(inbox) \in Seq(Inner) /\ Len(Tail(inbox)) = Len(inbox) - 1
    BY Zenon, <1>1, <1>2, TailQueue
  <2>2. Len(Tail(inbox)) = 0
    BY <1>3, <2>1
  <2>3. ASSUME NEW n, n = 0 PROVE ~(n >= 1)
    BY <2>3
  <2>4. ~(Len(Tail(inbox)) >= 1)
    BY Zenon, <2>2, <2>3
  <2> QED BY Zenon, <2>1, <2>4, TailQueue
<1>5. /\ opened = None /\ pc = "opening" /\ todo # <<>>
      /\ Mail.op = "begin" => todo[1] = TheSession
      /\ Mail.op = "attach" => todo[1] = Mail.l
  BY Zenon, <1>1, <1>2 DEF Mailbox, OneOpening, Phases
<1>6. 1 \in 1..Len(todo)
  BY <1>5 DEF TypeOK, SupervisorTypeOK
<1> QED BY Zenon, <1>4, <1>5, <1>6

(***************************************************************************)
(* The link that the driver attaches is in no table entry yet.             *)
(***************************************************************************)
LEMMA AttachMail ==
    ASSUME TypeOK, Phases, Mailbox, Attaches, Received("attach")
    PROVE  Mail.l \in Link /\ \A h \in RealHandle : table[h] # Mail.l
<1>1. Mail \in Inner /\ Mail.op = "attach"
  BY Zenon, HeadMail DEF Received
<1>2. Mail.l \in Link
  BY Zenon, <1>1, InnerMail
<1>3. 1 \in 1..Len(todo) /\ todo[1] = Mail.l /\ opened = None
  BY Zenon, <1>1, OpeningMail
<1> QED BY Zenon, <1>2, <1>3, ConstantsApart DEF Attaches, StillToOpen

(***************************************************************************)
(* Every step leaves the driver and its session well typed.                *)
(***************************************************************************)
LEMMA DriverTypeStep ==
    ASSUME TypeOK, Phases, Mailbox, Handles, HandleLeft, Attaches, Pending, [Next]_vars
    PROVE  DriverTypeOK'
<1> USE DEF TypeOK
<1>1. ASSUME NEW x \in Inner, inbox' = Append(inbox, x) \/ inbox' = inbox,
             UNCHANGED <<driver, opened, session, table, free, pending, lost>>
      PROVE  DriverTypeOK'
  <2>1. inbox' \in Seq(Inner)
    BY SMTT(30), <1>1 DEF DriverTypeOK
  <2> QED BY Zenon, <1>1, <2>1 DEF DriverTypeOK
<1>2. CASE send_transfer
  <2> DEFINE h == real_ids(link_of[cur.s])
  <2>1. cur.s \in Sends
    BY <1>2 DEF send_transfer, SupervisorTypeOK, Cmd, NoCmd
  <2>2. h \in RealHandle \cup {None}
    BY Zenon DEF real_ids, LinkTypeOK
  <2>3. UNCHANGED <<driver, opened, session, table, free, pending, lost>>
    BY Zenon, <1>2 DEF send_transfer
  <2>4. \/ h # None /\ inbox' = Append(inbox, [op |-> "send", h |-> h, s |-> cur.s])
        \/ inbox' = inbox
    BY Zenon, <1>2 DEF send_transfer, ToDriver
  <2> HIDE DEF h
  <2> QED BY Zenon, <1>1, <2>1, <2>2, <2>3, <2>4, InnerMail
<1>3. CASE DetachLink
  <2> DEFINE h == real_ids(cur.l)
  <2>2. h \in RealHandle \cup {None}
    BY Zenon DEF real_ids, LinkTypeOK
  <2>3. UNCHANGED <<driver, opened, session, table, free, pending, lost>>
    BY Zenon, <1>3 DEF DetachLink
  <2>4. \/ h # None /\ inbox' = Append(inbox, [op |-> "detach", h |-> h])
        \/ inbox' = inbox
    BY Zenon, <1>3 DEF DetachLink, ToDriver
  <2> HIDE DEF h
  <2> QED BY Zenon, <1>1, <2>2, <2>3, <2>4, InnerMail
<1>4. CASE CloseConnection
  BY Zenon, <1>1, <1>4, InnerMail DEF CloseConnection, ToDriver
<1>5. ASSUME driver' \in {driver, "none"}, opened' \in {opened, None},
             UNCHANGED <<inbox, session, table, free, pending, lost>>
      PROVE  DriverTypeOK'
  BY Zenon, <1>5 DEF DriverTypeOK
<1>6. CASE Open
  <2>1. CASE ToDriver(IF Head(todo) = TheSession THEN [op |-> "begin"]
                      ELSE [op |-> "attach", l |-> Head(todo)])
    <3>1. todo # <<>>
      BY Zenon, <1>6 DEF Open, Phases
    <3>2. Head(todo) \in Link \cup {TheSession}
      BY Zenon, <3>1, TailQueue DEF SupervisorTypeOK
    <3>3. (IF Head(todo) = TheSession THEN [op |-> "begin"]
           ELSE [op |-> "attach", l |-> Head(todo)]) \in Inner
      BY Zenon, <3>2, InnerMail
    <3>4. UNCHANGED <<driver, opened, session, table, free, pending, lost>>
      BY Zenon, <1>6, <2>1 DEF Open, ToDriver
    <3> QED BY Zenon, <1>1, <2>1, <3>3, <3>4 DEF ToDriver
  <2>2. CASE OpenFails /\ UNCHANGED inbox
    BY Zenon, <1>5, <1>6, <2>2 DEF Open, OpenFails
  <2> QED BY Zenon, <1>6, <2>1, <2>2 DEF Open
<1>7. CASE DriverDied \/ Opened \/ OpenFailed
  BY Zenon, <1>5, <1>7 DEF DriverDied, Opened, OpenFailed, OpenFails
<1>8. CASE Established
  BY <1>8, ConstantsApart DEF Established, EmptyTable, DriverTypeOK
<1>9. CASE session_send_transfer
  <2>1. Mail \in Inner /\ Tail(inbox) \in Seq(Inner)
    BY Zenon, <1>9, HeadMail DEF session_send_transfer, Received
  <2>2. [s |-> Mail.s, h |-> Mail.h, at |-> "outbox"] \in Unsettled
    BY Zenon, <1>9, <2>1, InnerMail DEF session_send_transfer, Received, Unsettled
  <2>3. pending' \subseteq Unsettled
    BY Zenon, <1>9, <2>2 DEF session_send_transfer, DriverTypeOK
  <2> QED BY Zenon, <1>9, <2>1, <2>3 DEF session_send_transfer, DriverTypeOK
<1>10. CASE begin_session
  <2>1. Tail(inbox) \in Seq(Inner)
    BY Zenon, <1>10, HeadMail DEF begin_session, Received
  <2> QED BY Zenon, <1>10, <2>1, ConstantsApart DEF begin_session, DriverTypeOK
<1>11. CASE attach_link
  <2>1. Tail(inbox) \in Seq(Inner)
    BY Zenon, <1>11, HeadMail DEF attach_link, Received
  <2>2. Mail.l \in Link /\ \A h \in RealHandle : table[h] # Mail.l
    BY Zenon, <1>11, AttachMail DEF attach_link
  <2>5. CASE session
    <3>1. /\ opened' = allocate /\ table' = [table EXCEPT ![allocate] = Mail.l] /\ session'
          /\ free' = IF free # <<>> THEN SubSeq(free, 1, Len(free) - 1) ELSE free
      BY Zenon, <1>11, <2>5 DEF attach_link
    <3>2. /\ allocate \in RealHandle
          /\ table' \in [RealHandle -> Link \cup {None}] /\ free' \in Seq(RealHandle)
      BY Zenon, <2>2, <2>5, <3>1, Allocates
    <3> QED BY Zenon, <1>11, <2>1, <3>1, <3>2 DEF attach_link, DriverTypeOK
  <2>6. CASE ~session
    BY Zenon, <1>11, <2>1, <2>6 DEF attach_link, DriverTypeOK
  <2> QED BY Zenon, <2>5, <2>6
<1>12. ASSUME NEW k \in RealHandle, session, table[k] # None, forget_link(k), session' = session,
              inbox' \in Seq(Inner), UNCHANGED <<driver, opened>>
       PROVE  DriverTypeOK'
  <2>1. OfLink(k) \in SUBSET pending /\ {} \in SUBSET Sends
    BY Zenon DEF OfLink
  <2>2. pending' \subseteq Unsettled /\ lost' \subseteq Sends
    BY Zenon, <1>12, <2>1, Drops DEF forget_link
  <2>3. table' \in [RealHandle -> Link \cup {None}] /\ free' \in Seq(RealHandle)
    BY Zenon, <1>12, Forgets DEF forget_link
  <2> QED BY Zenon, <1>12, <2>2, <2>3 DEF DriverTypeOK
<1>13. CASE detach_link
  <2>1. Mail \in Inner /\ Tail(inbox) \in Seq(Inner) /\ Mail.op = "detach"
    BY Zenon, <1>13, HeadMail DEF detach_link, Received
  <2>2. Mail.h \in RealHandle
    BY Zenon, <2>1, InnerMail
  <2> QED BY Zenon, <1>12, <1>13, <2>1, <2>2 DEF detach_link, DriverTypeOK
<1>14. ASSUME NEW k \in RealHandle, on_peer_detach(k) PROVE DriverTypeOK'
  BY Zenon, <1>12, <1>14 DEF on_peer_detach, DriverTypeOK
<1>15. CASE do_close \/ ConnectionLost
  <2> DEFINE Q == {inbox[i].s : i \in {j \in DOMAIN inbox : inbox[j].op = "send"}}
  <2>1. Ends
    BY Zenon, <1>15 DEF do_close, ConnectionLost
  <2>2. Q \in SUBSET Sends
    BY InnerMail DEF DriverTypeOK
  <2>3. pending \in SUBSET pending
    BY Zenon
  <2>4. pending' \subseteq Unsettled /\ lost' \subseteq Sends
    BY Zenon, <2>1, <2>2, <2>3, Drops DEF Ends
  <2> QED BY <2>1, <2>4 DEF Ends, DriverTypeOK
<1>16. CASE on_peer_end
  <2>1. pending \in SUBSET pending /\ {} \in SUBSET Sends
    BY Zenon
  <2>2. pending' \subseteq Unsettled /\ lost' \subseteq Sends
    BY Zenon, <1>16, <2>1, Drops DEF on_peer_end
  <2>3. /\ table' = EmptyTable /\ free' = <<>> /\ session' = FALSE
        /\ UNCHANGED <<driver, inbox, opened>>
    BY Zenon, <1>16 DEF on_peer_end
  <2>4. table' \in [RealHandle -> Link \cup {None}] /\ free' \in Seq(RealHandle)
    BY <2>3 DEF EmptyTable
  <2> QED BY Zenon, <2>2, <2>3, <2>4 DEF DriverTypeOK
<1>17. ASSUME NEW p \in pending, flush_sender(p) \/ BrokerStores(p) \/ on_disposition(p)
       PROVE  DriverTypeOK'
  <2>1. [p EXCEPT !.at = "wire"] \in Unsettled /\ [p EXCEPT !.at = "stored"] \in Unsettled
    BY Zenon DEF DriverTypeOK, Unsettled
  <2>2. pending' \subseteq Unsettled
    BY Zenon, <1>17, <2>1 DEF flush_sender, BrokerStores, on_disposition, Moved, DriverTypeOK
  <2>3. UNCHANGED <<driver, inbox, opened, session, table, free, lost>>
    BY Zenon, <1>17 DEF flush_sender, BrokerStores, on_disposition
  <2> QED BY Zenon, <2>2, <2>3 DEF DriverTypeOK
<1>18. ASSUME NEW s \in Sends, ReplyDropped(s) PROVE DriverTypeOK'
  BY Zenon, <1>18 DEF ReplyDropped, DriverTypeOK
<1>19. ASSUME UNCHANGED <<conn, lost>> PROVE DriverTypeOK'
  BY Zenon, <1>19 DEF DriverTypeOK
<1>20. CASE Application \/ UNCHANGED vars
  BY Zenon, <1>19, <1>20 DEF Application, send_bytes, create_producer, detach_on_drop, close, vars
<1>21. CASE Command \/ Replay \/ AttachLink \/ Closed \/ Retry \/ give_up
  BY Zenon, <1>19, <1>21 DEF Command, Replay, AttachLink, Closed, Retry, give_up
<1>22. ASSUME NEW x, BrokerStoresStray(x) PROVE DriverTypeOK'
  BY Zenon, <1>19, <1>22 DEF BrokerStoresStray
<1> QED
  BY ZenonT(30), <1>2, <1>3, <1>4, <1>6, <1>7, <1>8, <1>9, <1>10, <1>11, <1>13, <1>14, <1>15, <1>16, <1>17,
     <1>18, <1>20, <1>21, <1>22
  DEF Next, Supervisor, Driver, Peer, Watcher, Delivery

(***************************************************************************)
(* Every step leaves the broker's side well typed.                         *)
(***************************************************************************)
LEMMA HistoryTypeStep ==
    ASSUME TypeOK, Pending, [Next]_vars
    PROVE  HistoryTypeOK'
<1> USE DEF TypeOK
<1>1. CASE Established
  BY <1>1, ConstantsAssumption DEF Established, HistoryTypeOK
<1>2. ASSUME NEW P \in SUBSET pending, NEW Q \in SUBSET Sends, Dropped(P, Q),
             cut' \subseteq Link, UNCHANGED <<epoch, stored>>
      PROVE  HistoryTypeOK'
  <2>1. stray' \subseteq Sends \X Link
    <3>1. /\ \A x \in stray' : x \in stray \/ \E p \in P : x = <<p.s, table[p.h]>>
          /\ \A p \in P : <<p.s, table[p.h]>> \in Sends \X Link
      BY Zenon, <1>2, Drops
    <3> QED BY Zenon, <3>1 DEF HistoryTypeOK
  <2> QED BY Zenon, <1>2, <2>1 DEF HistoryTypeOK
<1>3. ASSUME NEW k, forget_link(k), cut' \subseteq Link, UNCHANGED <<epoch, stored>>
      PROVE  HistoryTypeOK'
  <2>1. OfLink(k) \in SUBSET pending /\ {} \in SUBSET Sends
    BY Zenon DEF OfLink
  <2> QED BY Zenon, <1>2, <1>3, <2>1 DEF forget_link
<1>4. CASE detach_link
  BY Zenon, <1>3, <1>4 DEF detach_link, HistoryTypeOK
<1>5. ASSUME NEW k \in RealHandle, on_peer_detach(k) PROVE HistoryTypeOK'
  <2>1. table[k] \in Link /\ cut' = cut \cup {table[k]}
    BY Zenon, <1>5 DEF on_peer_detach, DriverTypeOK
  <2>2. forget_link(k) /\ UNCHANGED <<epoch, stored>>
    BY Zenon, <1>5 DEF on_peer_detach
  <2>3. cut' \subseteq Link
    BY Zenon, <2>1 DEF HistoryTypeOK
  <2> QED BY Zenon, <1>3, <2>2, <2>3
<1>6. CASE do_close \/ ConnectionLost
  <2> DEFINE Q == {inbox[i].s : i \in {j \in DOMAIN inbox : inbox[j].op = "send"}}
  <2>1. Ends
    BY Zenon, <1>6 DEF do_close, ConnectionLost
  <2>2. Q \in SUBSET Sends /\ pending \in SUBSET pending
    BY InnerMail DEF DriverTypeOK
  <2>3. Dropped(pending, Q) /\ UNCHANGED <<epoch, stored, cut>>
    BY Zenon, <2>1 DEF Ends
  <2> QED BY Zenon, <1>2, <2>2, <2>3 DEF HistoryTypeOK
<1>7. CASE on_peer_end
  <2>1. pending \in SUBSET pending /\ {} \in SUBSET Sends
    BY Zenon
  <2>2. Dropped(pending, {}) /\ UNCHANGED <<epoch, stored, cut>>
    BY ZenonT(30), <1>7 DEF on_peer_end
  <2> QED BY Zenon, <1>2, <2>1, <2>2 DEF HistoryTypeOK
<1>8. ASSUME NEW p \in pending, BrokerStores(p) PROVE HistoryTypeOK'
  <2>1. p.s \in Sends /\ p.h \in RealHandle
    BY Zenon DEF DriverTypeOK, Unsettled
  <2>2. table[p.h] \in Link
    BY Zenon, <2>1 DEF Pending, DriverTypeOK
  <2> QED BY <1>8, <2>1, <2>2 DEF BrokerStores, HistoryTypeOK
<1>9. ASSUME NEW x \in stray, BrokerStoresStray(x) PROVE HistoryTypeOK'
  BY Zenon, <1>9 DEF BrokerStoresStray, HistoryTypeOK
<1>10. ASSUME UNCHANGED <<epoch, broker>> PROVE HistoryTypeOK'
  BY Zenon, <1>10 DEF HistoryTypeOK
<1>11. CASE Application \/ Watcher \/ UNCHANGED vars
  BY Zenon, <1>10, <1>11 DEF Application, send_bytes, create_producer, detach_on_drop, close, Watcher,
     ReplyDropped, vars
<1>12. CASE \/ DriverDied \/ Command \/ Replay \/ send_transfer \/ AttachLink \/ DetachLink
            \/ CloseConnection
  BY Zenon, <1>10, <1>12 DEF DriverDied, Command, Replay, send_transfer, AttachLink, DetachLink,
     CloseConnection
<1>13. CASE Closed \/ Open \/ Opened \/ OpenFailed \/ Retry \/ give_up
  BY Zenon, <1>10, <1>13 DEF Closed, Open, Opened, OpenFailed, Retry, give_up
<1>14. CASE session_send_transfer \/ begin_session \/ attach_link
  BY Zenon, <1>10, <1>14 DEF session_send_transfer, begin_session, attach_link
<1>15. ASSUME NEW p \in pending, flush_sender(p) \/ on_disposition(p) PROVE HistoryTypeOK'
  BY Zenon, <1>10, <1>15 DEF flush_sender, on_disposition
<1> QED
  BY Zenon, <1>1, <1>4, <1>5, <1>6, <1>7, <1>8, <1>9, <1>11, <1>12, <1>13, <1>14, <1>15
  DEF Next, Supervisor, Driver, Peer, Delivery

(***************************************************************************)
(* Every step leaves the state well typed.                                 *)
(***************************************************************************)
LEMMA TypeStep ==
    ASSUME TypeOK, Phases, Mailbox, Handles, HandleLeft, Attaches, Pending, [Next]_vars
    PROVE  TypeOK'
<1>1. SupervisorTypeOK'
  BY Zenon, SupervisorTypeStep DEF TypeOK, LinkTypeOK
<1> QED BY Zenon, <1>1, DriverTypeStep, LinkTypeStep, HistoryTypeStep DEF TypeOK

-----------------------------------------------------------------------------
(* The supervisor's phases.                                                *)

(***************************************************************************)
(* A supervisor's command runs through its phases, whatever the driver     *)
(* does meanwhile.                                                         *)
(***************************************************************************)
LEMMA PhasesStep ==
    ASSUME TypeOK, Phases, Mailbox, [Next]_vars
    PROVE  Phases'
<1>0. /\ todo \in Seq(Link \cup {TheSession}) /\ links \subseteq Link
      /\ cur \in Cmd \cup {NoCmd} /\ NoCmd.op = "none" /\ cmds \in Seq(Cmd)
      /\ replays \in Seq(Sends)
  BY Zenon DEF TypeOK, SupervisorTypeOK, LinkTypeOK, NoCmd
<1>1. ASSUME UNCHANGED <<pc, cur, todo>>, opened' # None => pc = "opening" PROVE Phases'
  BY <1>1 DEF Phases, Attaching
<1>2. ASSUME pc' \in {"select", "handle", "reconnect"}, todo' = <<>>, opened' = None,
             pc' = "handle" => cur' \in Cmd, pc' # "handle" => cur' = NoCmd
      PROVE  Phases'
  BY <1>2 DEF Phases
<1>3. CASE DriverDied
  BY Zenon, <1>2, <1>3 DEF DriverDied, Phases
<1>4. CASE Command
  <2>1. Head(cmds) \in Cmd
    BY <1>0, <1>4 DEF Command
  <2> QED BY Zenon, <1>2, <1>4, <2>1 DEF Command, Phases
<1>5. CASE Replay
  <2>1. Head(replays) \in Sends
    BY <1>0, <1>5 DEF Replay, ReplaysDue
  <2>2. [op |-> "send", s |-> Head(replays)] \in Cmd
    BY Zenon, <2>1 DEF Cmd
  <2> QED BY Zenon, <1>2, <1>5, <2>2 DEF Replay, Phases
<1>6. CASE send_transfer \/ DetachLink
  BY Zenon, <1>2, <1>6 DEF send_transfer, DetachLink, Select, Phases
<1>7. CASE AttachLink
  <2>1. /\ pc' = "open" /\ todo' = <<cur.l>> /\ cur' = cur /\ cur.op = "attach" /\ opened' = None
    BY Zenon, <1>7 DEF AttachLink, Phases
  <2> QED BY <2>1 DEF Phases, Attaching
<1>8. CASE CloseConnection
  BY <1>8 DEF CloseConnection, Phases
<1>9. CASE Closed \/ give_up
  BY Zenon, <1>0, <1>9 DEF Closed, give_up, Stop, Phases
<1>10. ASSUME pc \in {"open", "opening"}, OpenFails PROVE Phases'
  <2>1. CASE Attaching
    BY Zenon, <1>2, <1>10, <2>1 DEF OpenFails, Select
  <2>2. CASE ~Attaching
    <3>1. cur = NoCmd
      BY Zenon, <1>0, <1>10, <2>2 DEF Phases, Attaching, Cmd
    <3> QED BY Zenon, <1>2, <1>10, <2>2, <3>1 DEF OpenFails
  <2> QED BY Zenon, <2>1, <2>2
<1>11. CASE Open
  <2>1. CASE pc' = "opening" /\ UNCHANGED <<cur, todo, opened>>
    BY <1>11, <2>1 DEF Open, Phases, Attaching
  <2> QED BY Zenon, <1>10, <1>11, <2>1 DEF Open
<1>12. CASE OpenFailed
  BY Zenon, <1>10, <1>12 DEF OpenFailed
<1>13. CASE Opened
  <2>1. /\ todo' = Tail(todo) /\ opened' = None /\ todo # <<>> /\ pc = "opening"
        /\ todo' = <<>> => pc' = "select" /\ cur' = NoCmd
        /\ todo' # <<>> => pc' = "open" /\ cur' = cur
    BY Zenon, <1>13 DEF Opened, Select, Phases
  <2>2. CASE todo' = <<>>
    BY Zenon, <1>2, <2>1, <2>2
  <2>3. CASE todo' # <<>>
    <3>1. ~Attaching
      BY <1>0, <2>1, <2>3 DEF Phases
    <3>2. \A i, j \in 1..Len(todo') : i # j => todo'[i] # todo'[j]
      BY <1>0, <2>1, TailQueue DEF Phases
    <3> QED BY Zenon, <2>1, <2>3, <3>1, <3>2 DEF Phases, Attaching
  <2> QED BY Zenon, <2>2, <2>3
<1>14. CASE Established
  <2>1. /\ pc' = "open" /\ cur' = NoCmd /\ opened' = None /\ todo' \in replay_topology
    BY Zenon, <1>14 DEF Established, Phases
  <2>2. todo' # <<>> /\ \A i, j \in 1..Len(todo') : i # j => todo'[i] # todo'[j]
    BY Zenon, <1>0, <2>1, ReplaysAll
  <2> QED BY Zenon, <1>0, <2>1, <2>2 DEF Phases, Attaching
<1>15. CASE Application \/ Watcher \/ Retry \/ UNCHANGED vars
  BY Zenon, <1>1, <1>15 DEF Application, send_bytes, create_producer, detach_on_drop, close, Watcher,
     ReplyDropped, Retry, vars, Phases
<1>16. CASE begin_session \/ attach_link
  <2>1. UNCHANGED <<pc, cur, todo>>
    BY Zenon, <1>16 DEF begin_session, attach_link
  <2>2. pc = "opening"
    BY Zenon, <1>16, OpeningMail DEF begin_session, attach_link
  <2> QED BY Zenon, <1>1, <2>1, <2>2
<1>17. CASE session_send_transfer \/ detach_link
  BY Zenon, <1>1, <1>17 DEF session_send_transfer, detach_link, Phases
<1>18. CASE do_close \/ Peer
  BY Zenon, <1>1, <1>18 DEF do_close, Peer, ConnectionLost, on_peer_end, on_peer_detach, Ends, Phases
<1>19. CASE Delivery \/ \E x \in stray : BrokerStoresStray(x)
  BY Zenon, <1>1, <1>19 DEF Delivery, flush_sender, BrokerStores, on_disposition, BrokerStoresStray, Phases
<1> QED
  BY Zenon, <1>3, <1>4, <1>5, <1>6, <1>7, <1>8, <1>9, <1>11, <1>12, <1>13, <1>14, <1>15, <1>16, <1>17,
     <1>18, <1>19
  DEF Next, Supervisor, Driver

-----------------------------------------------------------------------------
(* The driver's mailbox.                                                   *)

\* mail that opens nothing
Plain == {m \in Inner : m.op \in {"send", "detach", "close"}}

\* nothing in the mailbox opens anything
AllPlain == \A i \in 1..Len(inbox) : inbox[i].op \notin {"begin", "attach"}

(***************************************************************************)
(* The supervisor waits for one opening at a time.                         *)
(***************************************************************************)
LEMMA OpeningStep ==
    ASSUME TypeOK, Phases, Mailbox, [Next]_vars
    PROVE  OneOpening'
<1> USE DEF Mailbox
<1>0. inbox \in Seq(Inner) /\ Len(inbox) \in Nat /\ todo \in Seq(Link \cup {TheSession})
  BY DEF TypeOK, DriverTypeOK, SupervisorTypeOK
<1>1. pc # "opening" \/ opened # None => AllPlain
  BY Zenon DEF OneOpening, AllPlain
<1>2. ASSUME AllPlain, inbox' = inbox PROVE OneOpening'
  BY Zenon, <1>2 DEF AllPlain, OneOpening
<1>3. ASSUME AllPlain, NEW x \in Plain, inbox' = Append(inbox, x) PROVE OneOpening'
  <2>1. /\ Len(inbox') = Len(inbox) + 1 /\ inbox'[Len(inbox) + 1] = x
        /\ \A i \in 1..Len(inbox) : inbox'[i] = inbox[i]
    BY <1>0, <1>3, AppendQueue DEF Plain
  <2>2. \A i \in 1..Len(inbox') : inbox'[i].op \notin {"begin", "attach"}
    BY <1>0, <1>3, <2>1 DEF AllPlain, Plain
  <2> QED BY Zenon, <2>2 DEF OneOpening
<1>4. ASSUME UNCHANGED <<inbox, pc, opened, todo>> PROVE OneOpening'
  BY Zenon, <1>4 DEF OneOpening
<1>5. ASSUME inbox' = <<>> PROVE OneOpening'
  BY <1>5 DEF OneOpening
<1>6. ASSUME inbox # <<>>, inbox' = Tail(inbox), UNCHANGED <<pc, opened, todo>>
      PROVE  OneOpening'
  <2>1. /\ Len(inbox') = Len(inbox) - 1
        /\ \A i \in 1..Len(inbox') : i + 1 \in 1..Len(inbox) /\ inbox'[i] = inbox[i + 1]
    BY <1>0, <1>6
  <2>2. ASSUME NEW i \in 1..Len(inbox'), inbox'[i].op \in {"begin", "attach"}
        PROVE  /\ i = Len(inbox') /\ pc' = "opening" /\ opened' = None
               /\ inbox'[i].op = "begin" => todo'[1] = TheSession
               /\ inbox'[i].op = "attach" => todo'[1] = inbox'[i].l
    <3> DEFINE j == i + 1
    <3>1. j \in 1..Len(inbox) /\ inbox'[i] = inbox[j]
      BY <2>1
    <3>2. j = Len(inbox) => i = Len(inbox')
      BY <1>0, <2>1
    <3> HIDE DEF j
    <3> QED BY Zenon, <1>6, <2>2, <3>1, <3>2 DEF OneOpening
  <2> QED BY Zenon, <2>2 DEF OneOpening
<1>7. \A h \in RealHandle, s \in Sends : [op |-> "send", h |-> h, s |-> s] \in Plain
  BY DEF Plain, Inner
<1>8. [op |-> "close"] \in Plain /\ \A h \in RealHandle : [op |-> "detach", h |-> h] \in Plain
  BY DEF Plain, Inner
<1>9. \A l : real_ids(l) \in RealHandle \cup {None}
  BY DEF real_ids, TypeOK, LinkTypeOK
<1>10. CASE send_transfer
  <2>1. cur.s \in Sends /\ pc # "opening"
    BY <1>10 DEF send_transfer, TypeOK, SupervisorTypeOK, Cmd, NoCmd
  <2>2. \/ inbox' = inbox
        \/ \E h \in RealHandle : inbox' = Append(inbox, [op |-> "send", h |-> h, s |-> cur.s])
    BY Zenon, <1>9, <1>10 DEF send_transfer, ToDriver
  <2> QED BY Zenon, <1>1, <1>2, <1>3, <1>7, <2>1, <2>2
<1>11. CASE DetachLink
  <2>1. pc # "opening"
    BY <1>11 DEF DetachLink
  <2>2. inbox' = inbox \/ \E h \in RealHandle : inbox' = Append(inbox, [op |-> "detach", h |-> h])
    BY Zenon, <1>9, <1>11 DEF DetachLink, ToDriver
  <2> QED BY Zenon, <1>1, <1>2, <1>3, <1>8, <2>1, <2>2
<1>12. CASE CloseConnection
  BY <1>1, <1>2, <1>3, <1>8, <1>12 DEF CloseConnection, ToDriver
<1>13. CASE Open
  <2> DEFINE x == IF Head(todo) = TheSession THEN [op |-> "begin"]
                  ELSE [op |-> "attach", l |-> Head(todo)]
  <2>1. AllPlain /\ todo # <<>> /\ opened = None
    BY <1>1, <1>13 DEF Open, Phases
  <2>2. CASE driver # "up" /\ UNCHANGED inbox
    BY <1>2, <2>1, <2>2
  <2>3. CASE inbox' = Append(inbox, x) /\ pc' = "opening" /\ UNCHANGED <<todo, opened>>
    <3>1. /\ x.op = "begin" => todo[1] = TheSession
          /\ x.op = "attach" => todo[1] = x.l
      BY <1>0, <2>1
    <3>2. x \in Inner
      BY <1>0, <2>1, InnerMail
    <3> HIDE DEF x
    <3>3. /\ Len(inbox') = Len(inbox) + 1 /\ inbox'[Len(inbox) + 1] = x
          /\ \A i \in 1..Len(inbox) : inbox'[i] = inbox[i]
      BY <1>0, <2>3, <3>2, AppendQueue
    <3>4. \A i \in 1..Len(inbox') : inbox'[i].op \in {"begin", "attach"} =>
              i = Len(inbox') /\ inbox'[i] = x
      BY <1>0, <2>1, <3>3 DEF AllPlain
    <3> QED BY Zenon, <2>1, <2>3, <3>1, <3>4 DEF OneOpening
  <2> QED BY <1>13, <2>2, <2>3 DEF Open, ToDriver
<1>14. CASE Opened \/ OpenFailed
  <2>1. opened # None /\ inbox' = inbox
    BY <1>14, ConstantsApart DEF Opened, OpenFailed
  <2> QED BY Zenon, <1>1, <1>2, <2>1
<1>15. CASE DriverDied \/ Command \/ Replay \/ AttachLink \/ Closed \/ give_up
  <2>1. pc # "opening" /\ inbox' = inbox
    BY <1>15 DEF DriverDied, Command, Replay, AttachLink, Closed, give_up
  <2> QED BY Zenon, <1>1, <1>2, <2>1
<1>16. CASE Established
  BY Zenon, <1>5, <1>16 DEF Established
<1>17. CASE session_send_transfer \/ detach_link
  BY Zenon, <1>6, <1>17 DEF session_send_transfer, detach_link, Received
<1>18. CASE begin_session \/ attach_link
  BY Zenon, <1>5, <1>18, OpeningMail DEF begin_session, attach_link
<1>19. CASE do_close \/ ConnectionLost
  BY Zenon, <1>5, <1>19 DEF do_close, ConnectionLost, Ends
<1>20. CASE on_peer_end \/ \E h \in RealHandle : on_peer_detach(h)
  BY Zenon, <1>4, <1>20 DEF on_peer_end, on_peer_detach
<1>21. CASE Application \/ Watcher \/ Retry \/ UNCHANGED vars
  BY Zenon, <1>4, <1>21 DEF Application, send_bytes, create_producer, detach_on_drop, close, Watcher,
     ReplyDropped, Retry, vars
<1>22. CASE Delivery \/ \E x \in stray : BrokerStoresStray(x)
  BY Zenon, <1>4, <1>22 DEF Delivery, flush_sender, BrokerStores, on_disposition, BrokerStoresStray
<1> QED
  BY Zenon, <1>10, <1>11, <1>12, <1>13, <1>14, <1>15, <1>16, <1>17, <1>18, <1>19, <1>20, <1>21, <1>22
  DEF Next, Supervisor, Driver, Peer

(***************************************************************************)
(* A driver that ended, or is being set up again, has no send.             *)
(***************************************************************************)
LEMMA QuietStep ==
    ASSUME TypeOK, Phases, Mailbox, [Next]_vars
    PROVE  Quiet'
<1> USE DEF Mailbox
<1> DEFINE Idle == driver # "up" \/ pc = "reconnect" \/ Reopening
           NoSends == pending = {} /\ \A i \in 1..Len(inbox) : inbox[i].op # "send"
<1>0. inbox \in Seq(Inner) /\ todo \in Seq(Link \cup {TheSession}) /\ (Idle => NoSends)
  BY Zenon DEF TypeOK, DriverTypeOK, SupervisorTypeOK, Quiet
<1>1. ASSUME inbox' = inbox, pending' \subseteq pending, Idle' => Idle PROVE Quiet'
  BY Zenon, <1>0, <1>1 DEF Quiet
<1>2. ASSUME ~Idle' PROVE Quiet'
  BY Zenon, <1>2 DEF Quiet
<1>3. ASSUME Idle, NEW x \in Inner, x.op # "send", inbox' = Append(inbox, x), pending' = pending
      PROVE  Quiet'
  <2>1. /\ Len(inbox') = Len(inbox) + 1 /\ inbox'[Len(inbox) + 1] = x /\ Len(inbox) \in Nat
        /\ \A i \in 1..Len(inbox) : inbox'[i] = inbox[i]
    BY SMTT(30), <1>0, <1>3, AppendQueue
  <2>2. \A i \in 1..Len(inbox') : inbox'[i].op # "send"
    BY <1>0, <1>3, <2>1
  <2> QED BY ZenonT(30), <1>0, <1>3, <2>2 DEF Quiet
<1>4. ASSUME inbox # <<>>, inbox' = Tail(inbox), pending' \subseteq pending, Idle' => Idle
      PROVE  Quiet'
  <2>1. \A i \in 1..Len(inbox') : i + 1 \in 1..Len(inbox) /\ inbox'[i] = inbox[i + 1]
    BY <1>0, <1>4
  <2> QED BY Zenon, <1>0, <1>4, <2>1 DEF Quiet
<1>5. ASSUME inbox' = <<>>, pending' = {} PROVE Quiet'
  BY <1>5 DEF Quiet
<1> HIDE DEF Idle, NoSends
<1>6. (UNCHANGED <<driver, pc, cur>>) => (Idle' <=> Idle)
  BY Zenon DEF Idle, Reopening, Attaching
<1>7. ASSUME driver' = driver, pc' \in {"select", "handle", "closing"} PROVE Idle' => Idle
  BY Zenon, <1>7 DEF Idle, Reopening
<1>8. CASE DriverDied
  BY Zenon, <1>1, <1>8 DEF DriverDied, Idle
<1>9. CASE Command \/ Replay
  BY Zenon, <1>1, <1>7, <1>9 DEF Command, Replay
<1>10. CASE send_transfer \/ DetachLink \/ CloseConnection
  <2>1. /\ driver' = driver /\ pending' = pending /\ pc' \in {"select", "closing"}
        /\ driver # "up" => inbox' = inbox
    BY Zenon, <1>10 DEF send_transfer, DetachLink, CloseConnection, ToDriver, Select
  <2>2. driver = "up" => ~Idle'
    BY Zenon, <2>1 DEF Idle, Reopening
  <2> QED BY Zenon, <1>1, <1>2, <1>7, <2>1, <2>2
<1>11. CASE AttachLink
  BY Zenon, <1>1, <1>11 DEF AttachLink, Idle, Reopening, Attaching
<1>12. CASE Closed \/ give_up
  BY Zenon, <1>1, <1>12 DEF Closed, give_up, Idle
<1>13. CASE Open
  <2> DEFINE x == IF Head(todo) = TheSession THEN [op |-> "begin"]
                  ELSE [op |-> "attach", l |-> Head(todo)]
  <2>1. CASE driver # "up" /\ UNCHANGED <<inbox, pending>>
    BY Zenon, <1>1, <2>1 DEF Idle
  <2>2. CASE inbox' = Append(inbox, x) /\ driver = "up" /\ pc' = "opening"
             /\ UNCHANGED <<cur, driver, pending>>
    <3>1. todo # <<>>
      BY Zenon, <1>13 DEF Open, Phases
    <3>2. Head(todo) \in Link \cup {TheSession}
      BY Zenon, <1>0, <3>1, TailQueue
    <3>3. x \in Inner
      BY Zenon, <3>2, InnerMail
    <3>4. x.op # "send"
      BY Zenon
    <3>5. Idle' => Idle
      BY Zenon, <1>13, <2>2 DEF Idle, Reopening, Attaching, Open
    <3> HIDE DEF x
    <3> QED BY Zenon, <1>2, <1>3, <2>2, <3>3, <3>4, <3>5
  <2> QED BY Zenon, <1>13, <2>1, <2>2 DEF Open, ToDriver
<1>14. CASE Opened
  <2>1. UNCHANGED <<driver, inbox, pending>> /\ pc = "opening" /\
        (pc' = "select" \/ (pc' = "open" /\ cur' = cur))
    BY Zenon, <1>14 DEF Opened, Select
  <2> QED BY Zenon, <1>1, <2>1 DEF Idle, Reopening, Attaching
<1>15. CASE OpenFailed
  <2>1. UNCHANGED <<inbox, pending>> /\ pc = "opening" /\
        (Attaching => pc' = "select" /\ driver' = driver)
    BY Zenon, <1>15 DEF OpenFailed, OpenFails, Select
  <2> QED BY Zenon, <1>1, <2>1 DEF Idle, Reopening
<1>16. CASE Established
  <2>1. inbox' = <<>> /\ pending' = pending /\ pc = "reconnect"
    BY Zenon, <1>16 DEF Established
  <2> QED BY Zenon, <1>0, <1>5, <2>1 DEF Idle, NoSends
<1>17. CASE session_send_transfer
  <2>1. inbox # <<>> /\ Mail.op = "send" /\ Mail = inbox[1] /\ UNCHANGED <<driver, pc, cur>>
    BY Zenon, <1>17, HeadMail DEF session_send_transfer, Received
  <2>2. 1 \in 1..Len(inbox)
    BY <1>0, <2>1
  <2> QED BY Zenon, <1>0, <1>2, <1>6, <2>1, <2>2 DEF NoSends
<1>18. CASE begin_session \/ attach_link
  BY Zenon, <1>4, <1>6, <1>18 DEF begin_session, attach_link, Received
<1>19. CASE detach_link
  <2>1. inbox # <<>> /\ inbox' = Tail(inbox) /\ UNCHANGED <<driver, pc, cur>>
    BY Zenon, <1>19 DEF detach_link, Received
  <2>2. pending' \subseteq pending
    BY Zenon, <1>19 DEF detach_link, forget_link, Dropped
  <2> QED BY Zenon, <1>4, <1>6, <2>1, <2>2
<1>20. CASE do_close \/ ConnectionLost
  <2>1. inbox' = <<>> /\ pending' = pending \ pending
    BY Zenon, <1>20 DEF do_close, ConnectionLost, Ends, Dropped
  <2> QED BY Zenon, <1>5, <2>1
<1>21. CASE on_peer_end \/ \E h \in RealHandle : on_peer_detach(h)
  <2>1. inbox' = inbox /\ UNCHANGED <<driver, pc, cur>>
    BY Zenon, <1>21 DEF on_peer_end, on_peer_detach
  <2>2. pending' \subseteq pending
    BY Zenon, <1>21 DEF on_peer_end, on_peer_detach, forget_link, Dropped
  <2> QED BY Zenon, <1>1, <1>6, <2>1, <2>2
<1>22. CASE Delivery
  <2>1. pending # {} /\ UNCHANGED <<driver, pc, cur>>
    BY Zenon, <1>22 DEF Delivery, flush_sender, BrokerStores, on_disposition
  <2> QED BY Zenon, <1>0, <1>2, <1>6, <2>1 DEF NoSends
<1>23. ASSUME UNCHANGED <<conn, pc, cur>> PROVE Quiet'
  BY Zenon, <1>1, <1>6, <1>23
<1>24. CASE Application \/ Watcher \/ Retry \/ UNCHANGED vars
  BY Zenon, <1>23, <1>24 DEF Application, send_bytes, create_producer, detach_on_drop, close, Watcher,
     ReplyDropped, Retry, vars
<1>25. CASE \E x \in stray : BrokerStoresStray(x)
  BY Zenon, <1>23, <1>25 DEF BrokerStoresStray
<1> QED
  BY Zenon, <1>8, <1>9, <1>10, <1>11, <1>12, <1>13, <1>14, <1>15, <1>16, <1>17, <1>18, <1>19, <1>20,
     <1>21, <1>22, <1>24, <1>25
  DEF Next, Supervisor, Driver, Peer

(***************************************************************************)
(* Both facts about the driver's mailbox are kept.                         *)
(***************************************************************************)
LEMMA MailboxStep ==
    ASSUME TypeOK, Phases, Mailbox, [Next]_vars
    PROVE  Mailbox'
BY Zenon, OpeningStep, QuietStep DEF Mailbox

(***************************************************************************)
(* Attaching, detaching and a new session keep the handles in order.       *)
(***************************************************************************)
LEMMA HandlesStep ==
    ASSUME TypeOK, Phases, Mailbox, Handles, HandleLeft, Attaches, [Next]_vars
    PROVE  Handles'
<1>1. ASSUME UNCHANGED <<table, free>>, session' \/ session' = session PROVE Handles'
  <2>1. \A h : Taken(h)' <=> Taken(h)
    BY Zenon, <1>1 DEF Taken
  <2>2. ~session' => ~session
    BY Zenon, <1>1
  <2> QED BY <1>1, <2>1, <2>2 DEF Handles, EmptyTable
<1>2. ASSUME table' = EmptyTable, free' = <<>> PROVE Handles'
  <2>1. \A h \in RealHandle : table'[h] = None
    BY Zenon, <1>2 DEF EmptyTable
  <2>2. \A i \in 1..Len(free') : FALSE
    BY <1>2
  <2> QED BY Zenon, <1>2, <2>1, <2>2 DEF Handles, Taken
<1>3. CASE Established \/ on_peer_end
  BY Zenon, <1>2, <1>3 DEF Established, on_peer_end
<1>4. CASE begin_session
  BY Zenon, <1>1, <1>4 DEF begin_session
<1>5. CASE attach_link
  <2>1. CASE session
    <3>1. Mail.l \in Link /\ \A h \in RealHandle : table[h] # Mail.l
      BY Zenon, <1>5, AttachMail DEF attach_link
    <3>2. /\ table' = [table EXCEPT ![allocate] = Mail.l] /\ session'
          /\ free' = IF free # <<>> THEN SubSeq(free, 1, Len(free) - 1) ELSE free
      BY Zenon, <1>5, <2>1 DEF attach_link
    <3> QED BY Zenon, <2>1, <3>1, <3>2, Allocates DEF TypeOK
  <2>2. CASE ~session
    BY Zenon, <1>1, <1>5, <2>2 DEF attach_link
  <2> QED BY Zenon, <2>1, <2>2
<1>6. CASE detach_link
  <2>1. CASE session /\ table[Mail.h] # None
    <3>1. Mail.h \in RealHandle
      BY Zenon, <1>6, HeadMail, InnerMail DEF detach_link, Received
    <3>2. forget_link(Mail.h) /\ session'
      BY Zenon, <1>6, <2>1 DEF detach_link
    <3> QED BY Zenon, <2>1, <3>1, <3>2, Forgets DEF TypeOK, forget_link
  <2>2. CASE ~(session /\ table[Mail.h] # None)
    BY Zenon, <1>1, <1>6, <2>2 DEF detach_link
  <2> QED BY Zenon, <2>1, <2>2
<1>7. ASSUME NEW k \in RealHandle, on_peer_detach(k) PROVE Handles'
  <2>1. session /\ session' /\ table[k] # None /\ forget_link(k)
    BY Zenon, <1>7 DEF on_peer_detach
  <2> QED BY Zenon, <2>1, Forgets DEF TypeOK, forget_link
<1>8. ASSUME UNCHANGED <<session, table, free>> PROVE Handles'
  BY Zenon, <1>1, <1>8
<1>9. CASE do_close \/ ConnectionLost
  BY Zenon, <1>8, <1>9 DEF do_close, ConnectionLost, Ends
<1>10. CASE session_send_transfer \/ Delivery
  BY Zenon, <1>8, <1>10 DEF session_send_transfer, Delivery, flush_sender, BrokerStores, on_disposition
<1>11. CASE DriverDied \/ Command \/ Replay \/ send_transfer \/ AttachLink \/ DetachLink
            \/ CloseConnection
  BY Zenon, <1>8, <1>11 DEF DriverDied, Command, Replay, send_transfer, AttachLink, DetachLink,
     CloseConnection
<1>12. CASE Closed \/ Open \/ Opened \/ OpenFailed \/ Retry \/ give_up
  BY Zenon, <1>8, <1>12 DEF Closed, Open, Opened, OpenFailed, Retry, give_up
<1>13. CASE Application \/ Watcher \/ UNCHANGED vars
  BY Zenon, <1>8, <1>13 DEF Application, send_bytes, create_producer, detach_on_drop, close, Watcher,
     ReplyDropped, vars
<1>14. CASE \E x \in stray : BrokerStoresStray(x)
  BY Zenon, <1>8, <1>14 DEF BrokerStoresStray
<1> QED
  BY Zenon, <1>3, <1>4, <1>5, <1>6, <1>7, <1>9, <1>10, <1>11, <1>12, <1>13, <1>14
  DEF Next, Supervisor, Driver, Peer

-----------------------------------------------------------------------------
(* Attaching links.                                                        *)

(***************************************************************************)
(* The commands, by kind.                                                  *)
(***************************************************************************)
LEMMA Commands ==
    /\ \A l : AttachCmd(l).op = "attach" /\ AttachCmd(l).l = l
    /\ \A s : SendCmd(s).op = "send" /\ SendCmd(s).s = s
    /\ NoCmd.op = "none"
    /\ \A c \in Cmd : c.op = "attach" => c.l \in Link /\ c = AttachCmd(c.l)
    /\ \A c \in Cmd : c.op = "send" => c.s \in Sends /\ c = SendCmd(c.s)
    /\ \A l \in Link : AttachCmd(l) \in Cmd
    /\ \A s \in Sends : SendCmd(s) \in Cmd
BY DEF AttachCmd, SendCmd, NoCmd, Cmd

(***************************************************************************)
(* A link's attach command is sent once and handled once.                  *)
(***************************************************************************)
LEMMA AttachOnceStep ==
    ASSUME TypeOK, Phases, \A l \in Link : AttachOnce(l), [Next]_vars, NEW l \in Link
    PROVE  AttachOnce(l)'
<1> DEFINE C == {AttachCmd(l)}
<1>0. /\ cmds \in Seq(Cmd) /\ cur \in Cmd \cup {NoCmd} /\ AttachOnce(l)
      /\ producer \in [Link -> {"none", "attaching", "open", "failed", "dropped"}]
  BY Zenon DEF TypeOK, SupervisorTypeOK, LinkTypeOK
<1>1. ASSUME Single(cmds', C), Has(cmds', C) => Has(cmds, C),
             cur' = AttachCmd(l) => cur = AttachCmd(l),
             (Has(cmds, C) \/ cur = AttachCmd(l)) /\ producer[l] = "attaching" =>
                producer'[l] = "attaching" \/ ~(Has(cmds', C) \/ cur' = AttachCmd(l))
      PROVE  AttachOnce(l)'
  <2>1. /\ Has(cmds, C) => producer[l] = "attaching" /\ cur # AttachCmd(l)
        /\ cur = AttachCmd(l) => producer[l] = "attaching"
    BY Zenon DEF AttachOnce, C
  <2>2. Has(cmds', C) => producer'[l] = "attaching" /\ cur' # AttachCmd(l)
    BY Zenon, <1>1, <2>1
  <2>3. cur' = AttachCmd(l) => producer'[l] = "attaching"
    BY Zenon, <1>1, <2>1
  <2> QED BY Zenon, <1>1, <2>2, <2>3 DEF AttachOnce, C
<1>2. ASSUME UNCHANGED <<cmds, producer>>, cur' = cur \/ cur'.op # "attach" PROVE AttachOnce(l)'
  BY ZenonT(30), <1>0, <1>1, <1>2, Commands DEF AttachOnce
<1>3. ASSUME NEW x \in Cmd, x.op # "attach", cmds' = Append(cmds, x), cur' = cur,
             producer[l] = "attaching" => producer'[l] = "attaching"
      PROVE  AttachOnce(l)'
  <2>1. x \notin C
    BY Zenon, <1>3, Commands
  <2>2. (Has(cmds', C) <=> Has(cmds, C)) /\ Single(cmds', C)
    BY <1>0, <1>3, <2>1, AppendQueue DEF AttachOnce
  <2> QED BY Zenon, <1>1, <1>3, <2>2
<1>4. ASSUME NEW s \in Sends, send_bytes(s) PROVE AttachOnce(l)'
  <2>1. SendCmd(s) \in Cmd /\ SendCmd(s).op # "attach"
    BY Zenon, Commands
  <2>2. (cmds' = cmds \/ cmds' = Append(cmds, SendCmd(s))) /\ UNCHANGED <<cur, producer>>
    BY Zenon, <1>4 DEF send_bytes, SendCmd
  <2> QED BY Zenon, <1>2, <1>3, <2>1, <2>2
<1>5. ASSUME NEW k \in Link, create_producer(k) PROVE AttachOnce(l)'
  <2>1. /\ cmds' = Append(cmds, AttachCmd(k)) /\ cur' = cur /\ producer[k] = "none"
        /\ producer' = [producer EXCEPT ![k] = "attaching"]
    BY Zenon, <1>5 DEF create_producer, AttachCmd
  <2>2. AttachCmd(k) \in Cmd /\ (AttachCmd(k) \in C <=> k = l)
    BY SMTT(30), Commands
  <2>3. /\ Has(cmds', C) <=> Has(cmds, C) \/ k = l
        /\ Single(cmds, C) /\ ~(Has(cmds, C) /\ k = l) => Single(cmds', C)
    BY <1>0, <2>1, <2>2, AppendQueue
  <2>4. producer'[l] = IF k = l THEN "attaching" ELSE producer[l]
    BY Zenon, <1>0, <2>1
  <2> QED BY Zenon, <1>0, <2>1, <2>3, <2>4 DEF AttachOnce
<1>6. ASSUME NEW k \in Link, detach_on_drop(k) PROVE AttachOnce(l)'
  <2>1. [op |-> "detach", l |-> k] \in Cmd
    BY Zenon DEF Cmd
  <2>2. /\ cmds' = Append(cmds, [op |-> "detach", l |-> k]) /\ cur' = cur
        /\ producer[k] = "open" /\ producer' = [producer EXCEPT ![k] = "dropped"]
    BY Zenon, <1>6 DEF detach_on_drop
  <2>3. producer[l] = "attaching" => producer'[l] = "attaching"
    BY Zenon, <1>0, <2>2
  <2> QED BY Zenon, <1>3, <2>1, <2>2, <2>3
<1>7. CASE close
  <2>1. [op |-> "close"] \in Cmd
    BY Zenon DEF Cmd
  <2> QED BY Zenon, <1>3, <1>7, <2>1 DEF close
<1>8. CASE Command
  <2>1. cmds # <<>> /\ cur' = Head(cmds) /\ cmds' = Tail(cmds) /\ producer' = producer
    BY Zenon, <1>8 DEF Command
  <2>2. /\ Head(cmds) \in C => Has(cmds, C)
        /\ Head(cmds) \notin C => (Has(cmds', C) <=> Has(cmds, C))
        /\ Single(cmds, C) => Single(cmds', C)
        /\ Single(cmds, C) /\ Head(cmds) \in C => ~Has(cmds', C)
    BY Zenon, <1>0, <2>1, TailQueue
  <2> QED BY Zenon, <1>0, <2>1, <2>2 DEF AttachOnce
<1>9. CASE Replay \/ send_transfer \/ DetachLink
  <2>1. UNCHANGED <<cmds, producer>> /\ (cur' = NoCmd \/ cur' = SendCmd(Head(replays)))
    BY Zenon, <1>9 DEF Replay, send_transfer, DetachLink, Select, SendCmd
  <2>2. cur'.op # "attach"
    BY Zenon, <2>1, Commands
  <2> QED BY Zenon, <1>2, <2>1, <2>2
<1>10. CASE Closed \/ give_up
  <2>1. cmds' = <<>> /\ UNCHANGED <<cur, producer>>
    BY Zenon, <1>10 DEF Closed, give_up, Stop
  <2> QED BY Zenon, <1>1, <2>1, EmptyQueue
<1>11. ASSUME Attaching, NEW v, producer' = [producer EXCEPT ![cur.l] = v], cur' = NoCmd, cmds' = cmds
       PROVE  AttachOnce(l)'
  <2>1. cur = AttachCmd(cur.l) /\ cur.l \in Link
    BY Zenon, <1>0, <1>11, Commands DEF Attaching
  <2>2. ~Has(cmds, {AttachCmd(cur.l)})
    BY Zenon, <2>1 DEF AttachOnce
  <2>3. l # cur.l => producer'[l] = producer[l]
    BY Zenon, <1>0, <1>11
  <2>4. cur' # AttachCmd(l)
    BY Zenon, <1>11, Commands
  <2> QED BY Zenon, <1>0, <1>11, <2>2, <2>3, <2>4 DEF AttachOnce
<1>12. ASSUME OpenFails, cmds' = cmds PROVE AttachOnce(l)'
  BY Zenon, <1>2, <1>11, <1>12 DEF OpenFails, Select
<1>13. CASE Open \/ OpenFailed
  BY Zenon, <1>2, <1>12, <1>13 DEF Open, OpenFailed
<1>14. CASE Opened
  <2>1. CASE Attaching
    <3>1. todo # <<>> /\ todo = <<cur.l>>
      BY Zenon, <1>14, <2>1 DEF Opened, Phases
    <3>2. todo' = <<>>
      BY <1>14, <3>1 DEF Opened
    <3> QED BY Zenon, <1>11, <1>14, <2>1, <3>2 DEF Opened, Select
  <2>2. CASE ~Attaching
    <3>1. UNCHANGED <<cmds, producer>> /\ (cur' = cur \/ cur' = NoCmd)
      BY Zenon, <1>14, <2>2 DEF Opened, Select
    <3> QED BY Zenon, <1>2, <3>1, Commands
  <2> QED BY Zenon, <2>1, <2>2
<1>15. ASSUME UNCHANGED <<cmds, cur, producer>> PROVE AttachOnce(l)'
  BY Zenon, <1>2, <1>15
<1>16. CASE DriverDied \/ AttachLink \/ CloseConnection \/ Established \/ Retry \/ UNCHANGED vars
  BY Zenon, <1>15, <1>16 DEF DriverDied, AttachLink, CloseConnection, Established, Retry, vars
<1>17. CASE Driver
  BY Zenon, <1>15, <1>17 DEF Driver, session_send_transfer, begin_session, attach_link, detach_link,
     do_close, Ends
<1>18. CASE Peer \/ Watcher
  BY Zenon, <1>15, <1>18 DEF Peer, ConnectionLost, Ends, on_peer_end, on_peer_detach, Watcher, ReplyDropped
<1>19. CASE Delivery \/ \E x \in stray : BrokerStoresStray(x)
  BY Zenon, <1>15, <1>19 DEF Delivery, flush_sender, BrokerStores, on_disposition, BrokerStoresStray
<1> QED
  BY Zenon, <1>4, <1>5, <1>6, <1>7, <1>8, <1>9, <1>10, <1>13, <1>14, <1>16, <1>17, <1>18, <1>19
  DEF Next, Application, Supervisor

\* a step leaves no more links in the driver's table than there were
TableShrinks == \A h \in RealHandle : table'[h] # None => \E g \in RealHandle : table[g] = table'[h]

(***************************************************************************)
(* Only attach_link puts a link into the table.                            *)
(***************************************************************************)
LEMMA TableSteps ==
    ASSUME TypeOK, Phases, Mailbox, Handles, HandleLeft, Attaches, [Next]_vars
    PROVE  \/ TableShrinks
           \/ /\ attach_link /\ session
              /\ allocate \in RealHandle /\ table[allocate] = None /\ opened' = allocate
              /\ table' = [table EXCEPT ![allocate] = Mail.l]
<1>0. table \in [RealHandle -> Link \cup {None}]
  BY Zenon DEF TypeOK, DriverTypeOK
<1>1. ASSUME table' = table PROVE TableShrinks
  BY Zenon, <1>1 DEF TableShrinks
<1>2. CASE Established \/ on_peer_end
  <2>1. table' = EmptyTable
    BY Zenon, <1>2 DEF Established, on_peer_end
  <2> QED BY Zenon, <2>1 DEF TableShrinks, EmptyTable
<1>3. ASSUME NEW k, forget_link(k) PROVE TableShrinks
  <2>1. \A h \in RealHandle : table'[h] \in {table[h], None}
    BY Zenon, <1>0, <1>3 DEF forget_link
  <2> QED BY Zenon, <2>1 DEF TableShrinks
<1>4. CASE detach_link
  BY Zenon, <1>1, <1>3, <1>4 DEF detach_link
<1>5. CASE \E h \in RealHandle : on_peer_detach(h)
  BY Zenon, <1>3, <1>5 DEF on_peer_detach
<1>6. CASE attach_link /\ ~session
  BY Zenon, <1>1, <1>6 DEF attach_link
<1>7. CASE attach_link /\ session
  <2>1. Mail.l \in Link /\ \A h \in RealHandle : table[h] # Mail.l
    BY Zenon, <1>7, AttachMail DEF attach_link
  <2>2. /\ table' = [table EXCEPT ![allocate] = Mail.l] /\ session' /\ opened' = allocate
        /\ free' = IF free # <<>> THEN SubSeq(free, 1, Len(free) - 1) ELSE free
    BY Zenon, <1>7 DEF attach_link
  <2>3. allocate \in RealHandle /\ table[allocate] = None
    BY Zenon, <1>7, <2>1, <2>2, Allocates DEF TypeOK
  <2> QED BY Zenon, <1>7, <2>2, <2>3
<1>8. CASE do_close \/ ConnectionLost
  BY Zenon, <1>1, <1>8 DEF do_close, ConnectionLost, Ends
<1>9. CASE session_send_transfer \/ begin_session \/ Delivery
  BY Zenon, <1>1, <1>9 DEF session_send_transfer, begin_session, Delivery, flush_sender, BrokerStores,
     on_disposition
<1>10. CASE DriverDied \/ Command \/ Replay \/ send_transfer \/ AttachLink \/ DetachLink
            \/ CloseConnection
  BY Zenon, <1>1, <1>10 DEF DriverDied, Command, Replay, send_transfer, AttachLink, DetachLink,
     CloseConnection
<1>11. CASE Closed \/ Open \/ Opened \/ OpenFailed \/ Retry \/ give_up
  BY Zenon, <1>1, <1>11 DEF Closed, Open, Opened, OpenFailed, Retry, give_up
<1>12. CASE Application \/ Watcher \/ UNCHANGED vars
  BY Zenon, <1>1, <1>12 DEF Application, send_bytes, create_producer, detach_on_drop, close, Watcher,
     ReplyDropped, vars
<1>13. CASE \E x \in stray : BrokerStoresStray(x)
  BY Zenon, <1>1, <1>13 DEF BrokerStoresStray
<1> QED
  BY Zenon, <1>2, <1>4, <1>5, <1>6, <1>7, <1>8, <1>9, <1>10, <1>11, <1>12, <1>13
  DEF Next, Supervisor, Driver, Peer

(***************************************************************************)
(* A link whose attach command is still to be handled is nowhere attached. *)
(***************************************************************************)
LEMMA NotYetStep ==
    ASSUME TypeOK, Phases, Mailbox, Handles, HandleLeft, Attaches, [Next]_vars, NEW l \in Link
    PROVE  NotYet(l)'
<1> DEFINE Early == producer[l] \in {"none", "attaching"}
           InTable == \E h \in RealHandle : table[h] = l
<1>0. /\ producer \in [Link -> {"none", "attaching", "open", "failed", "dropped"}]
      /\ cur \in Cmd \cup {NoCmd} /\ (Early /\ ~BeingAttached(l) => l \notin links /\ ~InTable)
  BY Zenon DEF TypeOK, SupervisorTypeOK, LinkTypeOK, Attaches, NotYet
<1>1. ASSUME Early' => Early, Early' /\ BeingAttached(l) => BeingAttached(l)',
             l \in links' /\ ~BeingAttached(l)' => l \in links, InTable' => InTable
      PROVE  NotYet(l)'
  BY Zenon, <1>0, <1>1 DEF NotYet
<1>2. TableShrinks => (InTable' => InTable)
  BY Zenon, ConstantsApart DEF TableShrinks
<1> HIDE DEF Early, InTable
<1>3. (UNCHANGED <<pc, cur>>) => (BeingAttached(l)' <=> BeingAttached(l))
  BY Zenon DEF BeingAttached, Attaching
<1>4. producer' = producer => (Early' <=> Early)
  BY Zenon DEF Early
<1>5. pc \notin {"open", "opening"} => ~BeingAttached(l)
  BY Zenon DEF BeingAttached
<1>6. table' = table => (InTable' <=> InTable)
  BY Zenon DEF InTable
<1>7. ASSUME UNCHANGED <<producer, links, pc, cur>>, TableShrinks PROVE NotYet(l)'
  BY Zenon, <1>1, <1>2, <1>3, <1>4, <1>7
<1>8. ASSUME NEW k \in Link, create_producer(k) \/ detach_on_drop(k) PROVE NotYet(l)'
  <2>1. /\ UNCHANGED <<pc, cur, links, table>>
        /\ \/ producer[k] = "none" /\ producer' = [producer EXCEPT ![k] = "attaching"]
           \/ producer' = [producer EXCEPT ![k] = "dropped"]
    BY Zenon, <1>8 DEF create_producer, detach_on_drop
  <2>2. Early' => Early
    BY Zenon, <1>0, <2>1 DEF Early
  <2> QED BY Zenon, <1>1, <1>3, <1>6, <2>1, <2>2
<1>9. ASSUME UNCHANGED <<producer, table>>, links' \subseteq links, pc \notin {"open", "opening"}
      PROVE  NotYet(l)'
  BY Zenon, <1>1, <1>4, <1>5, <1>6, <1>9
<1>10. CASE DriverDied \/ Command \/ Replay \/ CloseConnection
  BY Zenon, <1>9, <1>10 DEF DriverDied, Command, Replay, CloseConnection
<1>11. CASE send_transfer \/ DetachLink \/ Closed \/ give_up
  BY Zenon, <1>9, <1>11 DEF send_transfer, DetachLink, Closed, give_up
<1>12. CASE AttachLink
  <2>1. /\ UNCHANGED <<producer, table, cur>> /\ links' = links \cup {cur.l}
        /\ pc' = "open" /\ Attaching /\ pc = "handle"
    BY Zenon, <1>12 DEF AttachLink, Attaching
  <2>2. BeingAttached(l)' <=> cur.l = l
    BY Zenon, <2>1 DEF BeingAttached, Attaching
  <2> QED BY Zenon, <1>1, <1>4, <1>5, <1>6, <2>1, <2>2
<1>13. CASE Established
  <2>1. UNCHANGED <<producer, links>> /\ pc = "reconnect" /\ table' = EmptyTable
    BY Zenon, <1>13 DEF Established
  <2>2. ~InTable'
    BY Zenon, <2>1, ConstantsApart DEF InTable, EmptyTable
  <2> QED BY Zenon, <1>1, <1>4, <1>5, <2>1, <2>2
<1>14. ASSUME pc \in {"open", "opening"}, Attaching, NEW v \in {"open", "failed"},
              producer' = [producer EXCEPT ![cur.l] = v], links' \subseteq links, table' = table
       PROVE  NotYet(l)'
  <2>1. BeingAttached(l) <=> l = cur.l
    BY Zenon, <1>14 DEF BeingAttached
  <2>2. l = cur.l => ~Early'
    BY Zenon, <1>0, <1>14 DEF Early
  <2>3. l # cur.l => (Early' <=> Early)
    BY Zenon, <1>0, <1>14 DEF Early
  <2> QED BY Zenon, <1>1, <1>6, <1>14, <2>1, <2>2, <2>3
<1>15. ASSUME ~Attaching, UNCHANGED <<producer, links, table>> PROVE NotYet(l)'
  <2>1. ~BeingAttached(l)
    BY Zenon, <1>15 DEF BeingAttached
  <2> QED BY Zenon, <1>1, <1>4, <1>6, <1>15, <2>1
<1>16. ASSUME pc \in {"open", "opening"}, OpenFails, table' = table PROVE NotYet(l)'
  <2>1. CASE Attaching
    BY Zenon, <1>14, <1>16, <2>1 DEF OpenFails
  <2> QED BY Zenon, <1>15, <1>16, <2>1 DEF OpenFails
<1>17. CASE Open
  <2>1. CASE pc' = "opening" /\ UNCHANGED <<cur, links, producer, table>>
    <3>1. BeingAttached(l)' <=> BeingAttached(l)
      BY Zenon, <1>17, <2>1 DEF BeingAttached, Attaching, Open
    <3> QED BY Zenon, <1>1, <1>4, <1>6, <2>1, <3>1
  <2> QED BY Zenon, <1>16, <1>17, <2>1 DEF Open
<1>18. CASE OpenFailed
  BY Zenon, <1>16, <1>18 DEF OpenFailed
<1>19. CASE Opened
  <2>1. CASE Attaching
    BY Zenon, <1>14, <1>19, <2>1 DEF Opened
  <2> QED BY Zenon, <1>15, <1>19, <2>1 DEF Opened
<1>20. CASE attach_link /\ ~TableShrinks
  <2>1. /\ UNCHANGED <<producer, links, pc, cur>> /\ allocate \in RealHandle
        /\ table' = [table EXCEPT ![allocate] = Mail.l]
    BY Zenon, <1>20, TableSteps DEF attach_link
  <2>2. InTable' => InTable \/ l = Mail.l
    BY Zenon, <2>1 DEF InTable, TypeOK, DriverTypeOK
  <2>3. CASE l # Mail.l
    BY Zenon, <1>1, <1>3, <1>4, <2>1, <2>2, <2>3
  <2>4. CASE l = Mail.l
    <3>1. 1 \in 1..Len(todo) /\ todo[1] = l
      BY Zenon, <1>20, <2>4, OpeningMail DEF attach_link, Received
    <3>2. l \in links
      BY Zenon, <3>1, ConstantsApart DEF Attaches, StillToOpen
    <3> QED BY Zenon, <1>0, <1>3, <1>4, <2>1, <3>2 DEF NotYet, Early
  <2> QED BY Zenon, <2>3, <2>4
<1>21. CASE (Driver \/ Peer) /\ TableShrinks
  <2>1. UNCHANGED <<producer, links, pc, cur>>
    BY Zenon, <1>21 DEF Driver, Peer, session_send_transfer, begin_session, attach_link, detach_link,
       do_close, Ends, ConnectionLost, on_peer_end, on_peer_detach
  <2> QED BY Zenon, <1>7, <1>21, <2>1
<1>22. (Driver \/ Peer) /\ ~TableShrinks => attach_link
  BY Zenon, TableSteps
<1>23. ASSUME UNCHANGED <<producer, links, pc, cur, table>> PROVE NotYet(l)'
  BY Zenon, <1>1, <1>3, <1>4, <1>6, <1>23
<1>24. CASE (\E s \in Sends : send_bytes(s)) \/ close \/ Watcher \/ Retry \/ UNCHANGED vars
  BY Zenon, <1>23, <1>24 DEF send_bytes, close, Watcher, ReplyDropped, Retry, vars
<1>25. CASE Delivery \/ \E x \in stray : BrokerStoresStray(x)
  BY Zenon, <1>23, <1>25 DEF Delivery, flush_sender, BrokerStores, on_disposition, BrokerStoresStray
<1> QED
  BY Zenon, <1>8, <1>10, <1>11, <1>12, <1>13, <1>17, <1>18, <1>19, <1>20, <1>21, <1>22, <1>24, <1>25
  DEF Next, Application, Supervisor

(***************************************************************************)
(* What is still to be opened is a logical link that no handle has, until  *)
(* the driver's reply arrives.                                             *)
(***************************************************************************)
LEMMA StillToOpenStep ==
    ASSUME TypeOK, Phases, Mailbox, Handles, HandleLeft, Attaches, [Next]_vars
    PROVE  StillToOpen'
<1>0. /\ todo \in Seq(Link \cup {TheSession}) /\ StillToOpen
      /\ table \in [RealHandle -> Link \cup {None}]
      /\ \A i \in 1..Len(todo) : todo[i] # None
  <2>1. todo \in Seq(Link \cup {TheSession}) /\ table \in [RealHandle -> Link \cup {None}]
    BY Zenon DEF TypeOK, SupervisorTypeOK, DriverTypeOK
  <2>2. \A i \in 1..Len(todo) : todo[i] \in Link \cup {TheSession}
    BY <2>1
  <2> QED BY Zenon, <2>1, <2>2, ConstantsApart DEF Attaches
<1>1. ASSUME todo' = <<>> PROVE StillToOpen'
  BY <1>1 DEF StillToOpen
<1>2. ASSUME UNCHANGED <<todo, links>>, TableShrinks, opened \in RealHandle => opened' \in RealHandle
      PROVE  StillToOpen'
  <2>1. ASSUME NEW i \in 1..Len(todo), NEW h \in RealHandle, table'[h] = todo[i]
        PROVE  i = 1 /\ opened' \in RealHandle
    <3>1. PICK g \in RealHandle : table[g] = todo[i]
      BY Zenon, <1>0, <1>2, <2>1 DEF TableShrinks
    <3> QED BY Zenon, <1>0, <1>2, <3>1 DEF StillToOpen
  <2> QED BY Zenon, <1>0, <1>2, <2>1 DEF StillToOpen
<1>3. ASSUME pc \notin {"open", "opening"}, todo' = todo PROVE StillToOpen'
  BY Zenon, <1>1, <1>3 DEF Phases
<1>4. CASE DriverDied \/ Command \/ Replay \/ CloseConnection
  BY Zenon, <1>3, <1>4 DEF DriverDied, Command, Replay, CloseConnection
<1>5. CASE send_transfer \/ DetachLink \/ Closed \/ give_up \/ Retry
  BY Zenon, <1>3, <1>5 DEF send_transfer, DetachLink, Closed, give_up, Retry
<1>6. CASE AttachLink
  <2>1. /\ todo' = <<cur.l>> /\ links' = links \cup {cur.l} /\ UNCHANGED table
        /\ cur.op = "attach" /\ pc = "handle"
    BY Zenon, <1>6 DEF AttachLink
  <2>2. cur = AttachCmd(cur.l) /\ cur.l \in Link
    BY Zenon, <2>1, Commands DEF TypeOK, SupervisorTypeOK, Phases
  <2>3. \A h \in RealHandle : table[h] # cur.l
    BY Zenon, <2>1, <2>2 DEF Attaches, AttachOnce, NotYet, BeingAttached
  <2> QED BY <2>1, <2>3 DEF StillToOpen
<1>7. CASE Open \/ OpenFailed
  <2>1. CASE UNCHANGED <<todo, links, table, opened>>
    BY Zenon, <1>2, <2>1 DEF TableShrinks
  <2> QED BY Zenon, <1>1, <1>7, <2>1 DEF Open, OpenFailed, OpenFails
<1>8. CASE Opened
  <2>1. todo' = Tail(todo) /\ todo # <<>> /\ UNCHANGED <<links, table>>
    BY Zenon, <1>8 DEF Opened, Phases
  <2>2. \A i \in 1..Len(todo') : i + 1 \in 1..Len(todo) /\ todo'[i] = todo[i + 1] /\ i + 1 # 1
    BY <1>0, <2>1
  <2>3. ASSUME NEW i \in 1..Len(todo')
        PROVE  todo'[i] \in links /\ \A h \in RealHandle : table[h] # todo'[i]
    <3>1. PICK j \in 1..Len(todo) : todo'[i] = todo[j] /\ j # 1
      BY Zenon, <2>2
    <3> QED BY Zenon, <1>0, <3>1 DEF StillToOpen
  <2> QED BY Zenon, <2>1, <2>3 DEF StillToOpen
<1>9. CASE Established
  <2>1. todo' \in replay_topology /\ links' = links /\ table' = EmptyTable
    BY Zenon, <1>9 DEF Established
  <2>2. /\ todo'[1] = TheSession /\ \A i \in 1..Len(todo') : i = 1 \/ todo'[i] \in links
        /\ todo' \in Seq(Link \cup {TheSession})
    BY Zenon, <2>1, ReplaysAll DEF TypeOK, LinkTypeOK
  <2>3. \A i \in 1..Len(todo') : todo'[i] # None
    BY Zenon, <2>2, ConstantsApart DEF TypeOK, LinkTypeOK
  <2> QED BY Zenon, <2>1, <2>2, <2>3 DEF StillToOpen, EmptyTable
<1>10. CASE attach_link
  <2>1. /\ Mail.l = todo[1] /\ 1 \in 1..Len(todo) /\ opened = None /\ UNCHANGED <<todo, links>>
    BY Zenon, <1>10, OpeningMail DEF attach_link, Received
  <2>2. CASE TableShrinks
    BY Zenon, <1>2, <2>1, <2>2, ConstantsApart
  <2>3. CASE ~TableShrinks
    <3>1. /\ allocate \in RealHandle /\ opened' = allocate
          /\ table' = [table EXCEPT ![allocate] = Mail.l]
      BY Zenon, <2>3, TableSteps
    <3>2. ASSUME NEW i \in 1..Len(todo), NEW h \in RealHandle, table'[h] = todo[i] PROVE i = 1
      <4>1. todo[i] = todo[1] \/ table[h] = todo[i]
        BY Zenon, <1>0, <2>1, <3>1, <3>2
      <4> QED BY Zenon, <1>0, <2>1, <4>1 DEF StillToOpen, Phases
    <3> QED BY Zenon, <1>0, <2>1, <3>1, <3>2 DEF StillToOpen
  <2> QED BY Zenon, <2>2, <2>3
<1>11. CASE begin_session
  BY Zenon, <1>2, <1>11, ConstantsApart DEF begin_session, TableShrinks
<1>12. CASE session_send_transfer \/ detach_link \/ do_close \/ Peer
  <2>1. ~attach_link => TableShrinks
    BY Zenon, TableSteps
  <2>2. UNCHANGED <<todo, links>>
    BY Zenon, <1>12 DEF session_send_transfer, detach_link, do_close, Peer, ConnectionLost, Ends,
       on_peer_end, on_peer_detach
  <2>3. opened \in RealHandle => opened' \in RealHandle
    BY Zenon, <1>12, ConstantsApart DEF session_send_transfer, detach_link, do_close, Peer,
       ConnectionLost, Ends, on_peer_end, on_peer_detach
  <2> QED BY Zenon, <1>2, <1>10, <2>1, <2>2, <2>3
<1>13. ASSUME UNCHANGED <<todo, links, table, opened>> PROVE StillToOpen'
  BY Zenon, <1>2, <1>13 DEF TableShrinks
<1>14. CASE Application \/ Watcher \/ UNCHANGED vars
  BY Zenon, <1>13, <1>14 DEF Application, send_bytes, create_producer, detach_on_drop, close, Watcher,
     ReplyDropped, vars
<1>15. CASE Delivery \/ \E x \in stray : BrokerStoresStray(x)
  BY Zenon, <1>13, <1>15 DEF Delivery, flush_sender, BrokerStores, on_disposition, BrokerStoresStray
<1> QED
  BY Zenon, <1>4, <1>5, <1>6, <1>7, <1>8, <1>9, <1>10, <1>11, <1>12, <1>14, <1>15
  DEF Next, Supervisor, Driver

(***************************************************************************)
(* The three facts about attaching links are kept.                         *)
(***************************************************************************)
LEMMA AttachesStep ==
    ASSUME TypeOK, Phases, Mailbox, Handles, HandleLeft, Attaches, [Next]_vars
    PROVE  Attaches'
<1>1. \A l \in Link : AttachOnce(l)'
  BY Zenon, AttachOnceStep DEF Attaches
<1> QED BY Zenon, <1>1, NotYetStep, StillToOpenStep DEF Attaches

-----------------------------------------------------------------------------
(* Where a send is.                                                        *)

\* as far as V goes, nothing is added to a queue or taken from it
Same(r, q, V) == (Has(r, V) <=> Has(q, V)) /\ (Single(q, V) => Single(r, V))

(***************************************************************************)
(* Pushing or popping something else changes nothing for a send.           *)
(***************************************************************************)
LEMMA SameQueue ==
    ASSUME NEW S, NEW q \in Seq(S), NEW V
    PROVE  /\ \A x \in S : x \notin V => Same(Append(q, x), q, V)
           /\ q # <<>> /\ Head(q) \notin V => Same(Tail(q), q, V)
           /\ ~Has(q, V) => Same(<<>>, q, V)
           /\ Same(q, q, V)
<1>1. ASSUME NEW x \in S, x \notin V PROVE Same(Append(q, x), q, V)
  BY <1>1, AppendQueue DEF Same
<1>2. ASSUME q # <<>>, Head(q) \notin V PROVE Same(Tail(q), q, V)
  BY <1>2, TailQueue DEF Same
<1>3. ~Has(q, V) => Same(<<>>, q, V)
  BY Zenon, EmptyQueue DEF Same
<1> QED BY Zenon, <1>1, <1>2, <1>3 DEF Same

(***************************************************************************)
(* A send is in one area only, so it is in none of the others.             *)
(***************************************************************************)
LEMMA Whereabouts ==
    ASSUME NEW s \in Sends, InOnePlace(s)
    PROVE  /\ Has(cmds, {SendCmd(s)}) => At(s, "cmds")
           /\ Has(replays, {s}) => At(s, "replays")
           /\ Has(inbox, SendMail(s)) => At(s, "inbox")
           /\ InPending(s) => At(s, "pending")
           /\ s \in lost => At(s, "lost")
           /\ cur = SendCmd(s) => At(s, "cur")
           /\ ~Waiting(s) => At(s, "none")
           /\ Single(cmds, {SendCmd(s)}) /\ Single(replays, {s}) /\ Single(inbox, SendMail(s))
<1>1. PICK w \in Area : At(s, w)
  BY Zenon DEF InOnePlace
<1>2. w = "cmds" \/ w = "replays" \/ w = "inbox" \/ w = "pending" \/ w = "lost" \/ w = "cur" \/ w = "none"
  BY Zenon DEF Area
<1>3. Single(cmds, {SendCmd(s)}) /\ Single(replays, {s}) /\ Single(inbox, SendMail(s))
  BY Zenon DEF InOnePlace
<1>4. CASE w = "cmds"
  BY Zenon, <1>1, <1>3, <1>4 DEF At
<1>5. CASE w = "replays"
  BY Zenon, <1>1, <1>3, <1>5 DEF At
<1>6. CASE w = "inbox"
  BY Zenon, <1>1, <1>3, <1>6 DEF At
<1>7. CASE w = "pending"
  BY Zenon, <1>1, <1>3, <1>7 DEF At
<1>8. CASE w = "lost"
  BY Zenon, <1>1, <1>3, <1>8 DEF At
<1>9. CASE w = "cur"
  BY Zenon, <1>1, <1>3, <1>9 DEF At
<1>10. CASE w = "none"
  BY Zenon, <1>1, <1>3, <1>10 DEF At
<1> QED BY Zenon, <1>2, <1>4, <1>5, <1>6, <1>7, <1>8, <1>9, <1>10

(***************************************************************************)
(* A step that has nothing to do with s.                                   *)
(***************************************************************************)
Ignored(s) ==
    /\ Same(cmds', cmds, {SendCmd(s)}) /\ Same(replays', replays, {s})
    /\ Same(inbox', inbox, SendMail(s)) /\ (InPending(s)' <=> InPending(s))
    /\ (s \in lost' <=> s \in lost) /\ (cur' = SendCmd(s) <=> cur = SendCmd(s))
    /\ (s \in issued' <=> s \in issued) /\ answer'[s] = answer[s]

(***************************************************************************)
(* A step that does not touch a send leaves it where it is.                *)
(***************************************************************************)
LEMMA IgnoredStays ==
    ASSUME NEW s \in Sends, InOnePlace(s), Ignored(s)
    PROVE  InOnePlace(s)'
<1>1. PICK w \in Area : At(s, w)
  BY Zenon DEF InOnePlace
<1>2. Single(cmds, {SendCmd(s)})' /\ Single(replays, {s})' /\ Single(inbox, SendMail(s))'
  BY Zenon DEF InOnePlace, Ignored, Same
<1>3. At(s, w)'
  <2>1. Waiting(s)' <=> Waiting(s)
    BY Zenon DEF Waiting, Ignored
  <2>2. /\ Has(cmds, {SendCmd(s)})' <=> Has(cmds, {SendCmd(s)})
        /\ Has(replays, {s})' <=> Has(replays, {s})
        /\ Has(inbox, SendMail(s))' <=> Has(inbox, SendMail(s))
    BY Zenon DEF Ignored, Same
  <2> QED BY Zenon, <1>1, <2>1, <2>2 DEF At, Ignored
<1> QED BY Zenon, <1>2, <1>3 DEF InOnePlace, Ignored

(***************************************************************************)
(* A send that is in one area after the step, and there once, is in one    *)
(* place.                                                                  *)
(***************************************************************************)
LEMMA Arrives ==
    ASSUME NEW s \in Sends, NEW w \in Area, At(s, w)', s \in issued',
           Single(cmds', {SendCmd(s)}), Single(replays', {s}), Single(inbox', SendMail(s))
    PROVE  InOnePlace(s)'
BY Zenon DEF InOnePlace

(***************************************************************************)
(* Every step that takes a send out of an area puts it into exactly one    *)
(* other, or answers its caller.                                           *)
(***************************************************************************)
LEMMA LocatedStep ==
    ASSUME TypeOK, Phases, Mailbox, Located, Pending, [Next]_vars, NEW s \in Sends
    PROVE  InOnePlace(s)'
<1> DEFINE C == {SendCmd(s)}
           R == {s}
           M == SendMail(s)
<1>0. /\ cmds \in Seq(Cmd) /\ replays \in Seq(Sends) /\ inbox \in Seq(Inner)
      /\ cur \in Cmd \cup {NoCmd} /\ pending \subseteq Unsettled /\ InOnePlace(s)
  BY Zenon DEF TypeOK, SupervisorTypeOK, DriverTypeOK, Located
<1>1. \A x \in Inner : x \in M <=> x.op = "send" /\ x.s = s
  BY DEF SendMail, Inner
<1>2. /\ Same(cmds, cmds, C) /\ Same(replays, replays, R) /\ Same(inbox, inbox, M)
      /\ \A x \in Cmd : x # SendCmd(s) => Same(Append(cmds, x), cmds, C)
      /\ \A x \in Sends : x # s => Same(Append(replays, x), replays, R)
      /\ \A x \in Inner : x \notin M => Same(Append(inbox, x), inbox, M)
  BY Zenon, <1>0, SameQueue
<1>3. /\ cmds # <<>> /\ Head(cmds) # SendCmd(s) => Same(Tail(cmds), cmds, C)
      /\ replays # <<>> /\ Head(replays) # s => Same(Tail(replays), replays, R)
      /\ inbox # <<>> /\ Mail \notin M => Same(Tail(inbox), inbox, M)
  BY Zenon, <1>0, SameQueue DEF Mail
<1>4. /\ Has(cmds, C) => At(s, "cmds")
      /\ Has(replays, R) => At(s, "replays")
      /\ Has(inbox, M) => At(s, "inbox")
      /\ InPending(s) => At(s, "pending")
      /\ s \in lost => At(s, "lost")
      /\ cur = SendCmd(s) => At(s, "cur")
      /\ ~Waiting(s) => At(s, "none")
      /\ Single(cmds, C) /\ Single(replays, R) /\ Single(inbox, M)
  BY Zenon, <1>0, Whereabouts
<1>5. \A S, a : answer' = Answered(S, a) =>
          (s \in S => answer'[s] = a) /\ (s \notin S => answer'[s] = answer[s])
  BY Zenon DEF Answered
<1>6. \A w \in Area : At(s, w) /\ w # "none" => s \in issued
  BY Zenon DEF At, Waiting
<1>7. Area = {"cmds", "replays", "inbox", "pending", "lost", "cur", "none"}
  BY Zenon DEF Area
<1>8. /\ \A x \in Sends : SendCmd(x) \in Cmd
      /\ SendCmd(s).op = "send" /\ SendCmd(s).s = s /\ NoCmd # SendCmd(s)
  BY Zenon, Commands
<1>9. /\ \A x : x # s => SendCmd(x) # SendCmd(s)
      /\ \A x : x.op # "send" => x # SendCmd(s) /\ x \notin M
  BY Commands DEF SendMail
<1>10. ASSUME Same(cmds', cmds, C), Same(replays', replays, R), Same(inbox', inbox, M),
              cur' = SendCmd(s) <=> cur = SendCmd(s), UNCHANGED <<pending, lost, issued, answer>>
       PROVE  InOnePlace(s)'
  <2>1. InPending(s)' <=> InPending(s)
    BY Zenon, <1>10 DEF InPending
  <2> QED BY Zenon, <1>0, <1>10, <2>1, IgnoredStays DEF Ignored
<1> HIDE DEF C, R, M
<1>11. ASSUME NEW t \in Sends, send_bytes(t) PROVE InOnePlace(s)'
  <2>1. /\ issued' = issued \cup {t} /\ t \notin issued
        /\ \/ answer' = Answered({t}, "err") /\ cmds' = cmds
           \/ cmds' = Append(cmds, SendCmd(t)) /\ answer' = answer
        /\ UNCHANGED <<replays, inbox, pending, lost, cur>>
    BY Zenon, <1>11 DEF send_bytes, SendCmd
  <2>2. InPending(s)' <=> InPending(s)
    BY Zenon, <2>1 DEF InPending
  <2>3. CASE t # s
    <3>0. s \notin {t}
      BY Zenon, <2>3
    <3>1. answer'[s] = answer[s]
      BY Zenon, <1>5, <2>1, <3>0
    <3>2. Same(cmds', cmds, C)
      BY Zenon, <1>2, <1>8, <1>9, <2>1, <2>3
    <3>3. Ignored(s)
      BY Zenon, <1>2, <2>1, <2>2, <2>3, <3>1, <3>2 DEF Ignored, C, R, M
    <3> QED BY Zenon, <1>0, <3>3, IgnoredStays
  <2>4. CASE t = s
    <3>1. At(s, "none") /\ answer[s] = "none" /\ ~Has(cmds, C)
      BY Zenon, <1>0, <1>4, <2>1, <2>4 DEF Waiting, At, InOnePlace, C
    <3>2. CASE answer' = Answered({t}, "err") /\ cmds' = cmds
      <4>1. answer'[s] = "err"
        BY Zenon, <1>5, <2>4, <3>2
      <4>2. At(s, "none")'
        BY Zenon, <2>1, <2>2, <3>1, <3>2, <4>1 DEF At, Waiting
      <4> QED BY Zenon, <1>4, <1>7, <2>1, <2>4, <3>2, <4>2, Arrives DEF C, R, M
    <3>3. CASE cmds' = Append(cmds, SendCmd(t)) /\ answer' = answer
      <4>0. ~Has(cmds, C) /\ SendCmd(t) \in C /\ SendCmd(t) \in Cmd
        BY Zenon, <2>4, <3>1, Commands DEF At, C
      <4>1. Has(cmds', C) /\ Single(cmds', C)
        BY Zenon, <1>0, <1>4, <3>3, <4>0, Appended
      <4>2. At(s, "cmds")'
        BY Zenon, <2>1, <2>2, <2>4, <3>1, <3>3, <4>1 DEF At, Waiting, C
      <4> QED BY Zenon, <1>4, <1>7, <2>1, <2>4, <4>1, <4>2, Arrives DEF C, R, M
    <3> QED BY Zenon, <2>1, <3>2, <3>3
  <2> QED BY Zenon, <2>3, <2>4
<1>12. ASSUME NEW x \in Cmd, x.op # "send", cmds' = Append(cmds, x),
              UNCHANGED <<replays, inbox, cur, pending, lost, issued, answer>>
       PROVE  InOnePlace(s)'
  BY Zenon, <1>2, <1>9, <1>10, <1>12
<1>13. CASE close \/ \E l \in Link : create_producer(l) \/ detach_on_drop(l)
  <2>1. [op |-> "close"] \in Cmd /\ \A l \in Link : /\ [op |-> "attach", l |-> l] \in Cmd
                                                    /\ [op |-> "detach", l |-> l] \in Cmd
    BY Zenon DEF Cmd
  <2> QED BY Zenon, <1>12, <1>13, <2>1 DEF close, create_producer, detach_on_drop
<1>14. CASE Command
  <2>1. /\ cmds # <<>> /\ cur' = Head(cmds) /\ cmds' = Tail(cmds) /\ cur = NoCmd
        /\ UNCHANGED <<replays, inbox, pending, lost, issued, answer>>
    BY Zenon, <1>14 DEF Command, Phases
  <2>2. CASE Head(cmds) # SendCmd(s)
    BY Zenon, <1>2, <1>3, <1>8, <1>10, <2>1, <2>2
  <2>3. CASE Head(cmds) = SendCmd(s)
    <3>1. Has(cmds, C) /\ Single(cmds', C) /\ ~Has(cmds', C)
      BY <1>0, <1>4, <2>1, <2>3, TailQueue DEF C
    <3>2. At(s, "cmds")
      BY Zenon, <1>4, <3>1
    <3>3. At(s, "cur")'
      BY Zenon, <2>1, <2>3, <3>1, <3>2 DEF At, Waiting, InPending, C
    <3> QED BY Zenon, <1>4, <1>6, <1>7, <2>1, <3>1, <3>2, <3>3, Arrives DEF C, R, M
  <2> QED BY Zenon, <2>2, <2>3
<1>15. CASE Replay
  <2>1. /\ replays # <<>> /\ cur' = SendCmd(Head(replays)) /\ replays' = Tail(replays)
        /\ cur = NoCmd /\ UNCHANGED <<cmds, inbox, pending, lost, issued, answer>>
    BY Zenon, <1>15 DEF Replay, ReplaysDue, Phases, SendCmd
  <2>2. CASE Head(replays) # s
    BY Zenon, <1>2, <1>3, <1>8, <1>9, <1>10, <2>1, <2>2
  <2>3. CASE Head(replays) = s
    <3>1. Has(replays, R) /\ Single(replays', R) /\ ~Has(replays', R)
      BY <1>0, <1>4, <2>1, <2>3, TailQueue DEF R
    <3>2. At(s, "replays")
      BY Zenon, <1>4, <3>1
    <3>3. At(s, "cur")'
      BY Zenon, <2>1, <2>3, <3>1, <3>2 DEF At, Waiting, InPending, R
    <3> QED BY Zenon, <1>4, <1>6, <1>7, <2>1, <3>1, <3>2, <3>3, Arrives DEF C, R, M
  <2> QED BY Zenon, <2>2, <2>3
<1>16. CASE send_transfer
  <2>1. cur = SendCmd(cur.s) /\ cur.s \in Sends
    BY Zenon, <1>0, <1>16, Commands DEF send_transfer
  <2>2. /\ cur' = NoCmd /\ UNCHANGED <<cmds, pending, lost, issued>>
        /\ \/ /\ \E h \in RealHandle : inbox' = Append(inbox, [op |-> "send", h |-> h, s |-> cur.s])
              /\ answer' = answer /\ replays' = replays
           \/ answer' = Answered({cur.s}, "err") /\ UNCHANGED <<replays, inbox>>
    <3>1. real_ids(link_of[cur.s]) \in RealHandle \cup {None}
      BY Zenon DEF real_ids, TypeOK, LinkTypeOK
    <3> QED BY Zenon, <1>16, <3>1 DEF send_transfer, ToDriver, NotConnected, Select
  <2>3. InPending(s)' <=> InPending(s)
    BY Zenon, <2>2 DEF InPending
  <2>4. CASE cur.s # s
    <3>0. s \notin {cur.s}
      BY Zenon, <2>4
    <3>1. answer'[s] = answer[s]
      BY Zenon, <1>5, <2>2, <3>0
    <3>2. Same(inbox', inbox, M)
      BY Zenon, <1>1, <1>2, <2>1, <2>2, <2>4, InnerMail
    <3>3. cur # SendCmd(s) /\ cur' # SendCmd(s)
      BY Zenon, <1>8, <1>9, <2>1, <2>2, <2>4
    <3>4. Ignored(s)
      BY Zenon, <1>2, <2>2, <2>3, <3>1, <3>2, <3>3 DEF Ignored, C, R, M
    <3> QED BY Zenon, <1>0, <3>4, IgnoredStays
  <2>5. CASE cur.s = s
    <3>1. At(s, "cur") /\ s \in issued
      BY Zenon, <1>4, <1>6, <1>7, <2>1, <2>5
    <3>2. CASE answer' = Answered({cur.s}, "err") /\ UNCHANGED <<replays, inbox>>
      <4>1. answer'[s] = "err"
        BY Zenon, <1>5, <2>5, <3>2
      <4>2. At(s, "none")'
        BY Zenon, <1>8, <2>2, <2>3, <3>1, <3>2, <4>1 DEF At, Waiting
      <4> QED BY Zenon, <1>4, <1>7, <2>2, <3>1, <3>2, <4>2, Arrives DEF C, R, M
    <3>3. ASSUME NEW h \in RealHandle, inbox' = Append(inbox, [op |-> "send", h |-> h, s |-> cur.s]),
                 answer' = answer, replays' = replays
          PROVE  InOnePlace(s)'
      <4>1. [op |-> "send", h |-> h, s |-> cur.s] \in M /\ [op |-> "send", h |-> h, s |-> cur.s] \in Inner
        BY Zenon, <2>5, InnerMail DEF M, SendMail
      <4>2. ~Has(inbox, M)
        BY Zenon, <3>1 DEF At, M
      <4>3. Has(inbox', M) /\ Single(inbox', M)
        BY Zenon, <1>0, <1>4, <3>3, <4>1, <4>2, Appended
      <4>4. At(s, "inbox")'
        BY Zenon, <1>8, <2>2, <2>3, <3>1, <3>3, <4>3 DEF At, Waiting, M
      <4> QED BY Zenon, <1>4, <1>7, <2>2, <3>1, <3>3, <4>3, <4>4, Arrives DEF C, R, M
    <3> QED BY Zenon, <2>2, <3>2, <3>3
  <2> QED BY Zenon, <2>4, <2>5
<1>17. ASSUME NEW x \in Inner, x.op # "send", inbox' = Append(inbox, x) \/ inbox' = inbox,
              cur' = cur \/ (cur.op # "send" /\ cur' = NoCmd),
              UNCHANGED <<channels, pending, lost, issued, answer>>
       PROVE  InOnePlace(s)'
  <2>1. Same(inbox', inbox, M)
    BY Zenon, <1>2, <1>9, <1>17
  <2>2. cur' = SendCmd(s) <=> cur = SendCmd(s)
    BY Zenon, <1>8, <1>9, <1>17
  <2> QED BY Zenon, <1>2, <1>10, <1>17, <2>1, <2>2
<1>18. CASE DetachLink
  <2>1. real_ids(cur.l) \in RealHandle \cup {None}
    BY Zenon DEF real_ids, TypeOK, LinkTypeOK
  <2> QED BY Zenon, <1>17, <1>18, <2>1, InnerMail DEF DetachLink, ToDriver, Select
<1>19. CASE CloseConnection
  BY Zenon, <1>17, <1>19, InnerMail DEF CloseConnection, ToDriver
<1>20. ASSUME cur' = cur \/ (cur.op # "send" /\ cur' = NoCmd),
              UNCHANGED <<channels, inbox, pending, lost, issued, answer>>
       PROVE  InOnePlace(s)'
  BY Zenon, <1>17, <1>20, InnerMail
<1>21. CASE Open
  <2>1. todo # <<>> /\ cur.op # "send"
    BY Zenon, <1>21 DEF Open, Phases
  <2>2. Head(todo) \in Link \cup {TheSession}
    BY Zenon, <2>1, TailQueue DEF TypeOK, SupervisorTypeOK
  <2>3. (IF Head(todo) = TheSession THEN [op |-> "begin"]
         ELSE [op |-> "attach", l |-> Head(todo)]) \in {m \in Inner : m.op # "send"}
    BY Zenon, <2>2, InnerMail
  <2>4. UNCHANGED <<channels, pending, lost, issued, answer>>
    BY Zenon, <1>21 DEF Open
  <2> QED BY Zenon, <1>17, <1>20, <1>21, <2>1, <2>3, <2>4 DEF Open, ToDriver, OpenFails, Select
<1>22. CASE Opened \/ OpenFailed
  <2>1. cur.op # "send"
    BY Zenon, <1>22 DEF Opened, OpenFailed, Phases
  <2> QED BY Zenon, <1>20, <1>22, <2>1 DEF Opened, OpenFailed, OpenFails, Select
<1>23. CASE Closed \/ give_up
  <2> DEFINE S == {t \in Sends : \/ \E i \in DOMAIN cmds : cmds[i] = [op |-> "send", s |-> t]
                                 \/ \E i \in DOMAIN replays : replays[i] = t}
  <2>1. /\ answer' = Answered(S, "err") /\ cmds' = <<>> /\ replays' = <<>>
        /\ UNCHANGED <<cur, inbox, pending, lost, issued>>
    BY Zenon, <1>23 DEF Closed, give_up, Stop
  <2>2. s \in S <=> Has(cmds, C) \/ Has(replays, R)
    <3>1. DOMAIN cmds = 1..Len(cmds) /\ DOMAIN replays = 1..Len(replays)
      BY <1>0
    <3> QED BY Zenon, <3>1 DEF Has, C, R, SendCmd
  <2> HIDE DEF S
  <2>3. ~Has(cmds', C) /\ Single(cmds', C) /\ ~Has(replays', R) /\ Single(replays', R)
    BY Zenon, <2>1, EmptyQueue
  <2>4. InPending(s)' <=> InPending(s)
    BY Zenon, <2>1 DEF InPending
  <2>5. CASE s \in S
    <3>1. answer'[s] = "err"
      BY Zenon, <1>5, <2>1, <2>5
    <3>2. At(s, "cmds") \/ At(s, "replays")
      BY Zenon, <1>4, <2>2, <2>5
    <3>3. At(s, "none")' /\ s \in issued'
      BY Zenon, <2>1, <2>3, <2>4, <3>1, <3>2 DEF At, Waiting, C, R
    <3> QED BY Zenon, <1>4, <1>7, <2>1, <2>3, <3>3, Arrives DEF C, R, M
  <2>6. CASE s \notin S
    <3>1. answer'[s] = answer[s]
      BY Zenon, <1>5, <2>1, <2>6
    <3>2. Same(cmds', cmds, C) /\ Same(replays', replays, R)
      BY Zenon, <2>2, <2>3, <2>6 DEF Same
    <3>3. Ignored(s)
      BY Zenon, <1>2, <2>1, <2>4, <3>1, <3>2 DEF Ignored, C, R, M
    <3> QED BY Zenon, <1>0, <3>3, IgnoredStays
  <2> QED BY Zenon, <2>5, <2>6
<1>24. CASE Established
  <2>1. inbox' = <<>> /\ pc = "reconnect" /\ UNCHANGED <<channels, cur, pending, lost, issued, answer>>
    BY Zenon, <1>24 DEF Established
  <2>2. \A i \in 1..Len(inbox) : inbox[i].op # "send"
    BY Zenon, <2>1 DEF Mailbox, Quiet
  <2>3. ~Has(inbox, M)
    BY Zenon, <1>9, <2>2 DEF Has
  <2>4. Same(inbox', inbox, M)
    BY Zenon, <2>1, <2>3, EmptyQueue DEF Same
  <2> QED BY Zenon, <1>2, <1>10, <2>1, <2>4
<1>25. ASSUME NEW P \in SUBSET pending, NEW Q, pending' = pending \ P,
              lost' = lost \cup {p.s : p \in P} \cup Q, s \notin Q,
              Same(inbox', inbox, M), UNCHANGED <<channels, cur, issued, answer>>
       PROVE  InOnePlace(s)'
  <2>1. CASE \E p \in P : p.s = s
    <3>1. InPending(s) /\ s \in lost'
      BY Zenon, <1>25, <2>1 DEF InPending
    <3>2. ~InPending(s)'
      BY Zenon, <1>25, <2>1 DEF InPending, Pending
    <3>3. At(s, "pending")
      BY Zenon, <1>4, <3>1
    <3>4. ~Has(inbox', M) /\ Single(inbox', M)
      BY Zenon, <1>4, <1>25, <3>3 DEF Same, At, M
    <3>5. At(s, "lost")'
      BY Zenon, <1>25, <3>1, <3>2, <3>3, <3>4 DEF At, Waiting, M
    <3> QED BY Zenon, <1>4, <1>6, <1>7, <1>25, <3>3, <3>4, <3>5, Arrives DEF C, R, M
  <2>2. CASE ~\E p \in P : p.s = s
    <3>1. (InPending(s)' <=> InPending(s)) /\ (s \in lost' <=> s \in lost)
      BY Zenon, <1>25, <2>2 DEF InPending
    <3>2. Ignored(s)
      BY Zenon, <1>2, <1>25, <3>1 DEF Ignored, C, R, M
    <3> QED BY Zenon, <1>0, <3>2, IgnoredStays
  <2> QED BY Zenon, <2>1, <2>2
<1>26. ASSUME NEW k, forget_link(k), Same(inbox', inbox, M), UNCHANGED <<channels, cur, issued, answer>>
       PROVE  InOnePlace(s)'
  <2>1. OfLink(k) \in SUBSET pending /\ s \notin {}
    BY Zenon DEF OfLink
  <2> QED BY Zenon, <1>25, <1>26, <2>1 DEF forget_link, Dropped
<1>27. CASE session_send_transfer
  <2>1. /\ inbox # <<>> /\ inbox' = Tail(inbox) /\ Mail \in Inner /\ Mail.op = "send"
        /\ UNCHANGED <<channels, cur, lost, issued>>
        /\ \/ /\ pending' = pending \cup {[s |-> Mail.s, h |-> Mail.h, at |-> "outbox"]}
              /\ answer' = answer
           \/ answer' = Answered({Mail.s}, "err") /\ pending' = pending
    BY Zenon, <1>27, HeadMail DEF session_send_transfer, Received
  <2>0. [s |-> Mail.s, h |-> Mail.h, at |-> "outbox"].s = Mail.s
    BY Zenon
  <2>2. CASE Mail.s # s
    <3>1. s \notin {Mail.s} /\ Mail \notin M
      BY Zenon, <1>1, <2>1, <2>2
    <3>2. answer'[s] = answer[s]
      BY Zenon, <1>5, <2>1, <3>1
    <3>3. InPending(s)' <=> InPending(s)
      BY Zenon, <2>0, <2>1, <2>2 DEF InPending
    <3>4. Ignored(s)
      BY Zenon, <1>2, <1>3, <2>1, <3>1, <3>2, <3>3 DEF Ignored, C, R, M
    <3> QED BY Zenon, <1>0, <3>4, IgnoredStays
  <2>3. CASE Mail.s = s
    <3>1. Mail \in M
      BY ZenonT(30), <1>1, <2>1, <2>3
    <3>2. Has(inbox, M) /\ Single(inbox', M) /\ ~Has(inbox', M)
      BY <1>0, <1>4, <2>1, <3>1, TailQueue DEF Mail
    <3>3. At(s, "inbox") /\ s \in issued
      BY Zenon, <1>4, <1>6, <1>7, <3>2
    <3>4. CASE answer' = Answered({Mail.s}, "err") /\ pending' = pending
      <4>1. answer'[s] = "err"
        BY Zenon, <1>5, <2>3, <3>4
      <4>2. At(s, "none")'
        BY Zenon, <2>1, <3>2, <3>3, <3>4, <4>1 DEF At, Waiting, InPending, M
      <4> QED BY Zenon, <1>4, <1>7, <2>1, <3>2, <3>3, <4>2, Arrives DEF C, R, M
    <3>5. CASE /\ pending' = pending \cup {[s |-> Mail.s, h |-> Mail.h, at |-> "outbox"]}
               /\ answer' = answer
      <4>1. InPending(s)'
        BY Zenon, <2>0, <2>3, <3>5 DEF InPending
      <4>2. At(s, "pending")'
        BY Zenon, <2>1, <3>2, <3>3, <3>5, <4>1 DEF At, Waiting, M
      <4> QED BY Zenon, <1>4, <1>7, <2>1, <3>2, <3>3, <4>2, Arrives DEF C, R, M
    <3> QED BY Zenon, <2>1, <3>4, <3>5
  <2> QED BY Zenon, <2>2, <2>3
<1>28. ASSUME inbox # <<>>, inbox' = Tail(inbox), Mail.op # "send" PROVE Same(inbox', inbox, M)
  BY Zenon, <1>3, <1>9, <1>28
<1>29. CASE begin_session \/ attach_link
  <2>1. /\ inbox # <<>> /\ inbox' = Tail(inbox) /\ Mail.op # "send"
        /\ UNCHANGED <<channels, cur, pending, lost, issued, answer>>
    BY Zenon, <1>29 DEF begin_session, attach_link, Received
  <2> QED BY Zenon, <1>2, <1>10, <1>28, <2>1
<1>30. CASE detach_link
  <2>1. /\ inbox # <<>> /\ inbox' = Tail(inbox) /\ Mail.op # "send"
        /\ UNCHANGED <<channels, cur, issued, answer>>
        /\ forget_link(Mail.h) \/ UNCHANGED <<pending, lost>>
    BY Zenon, <1>30 DEF detach_link, Received
  <2> QED BY Zenon, <1>2, <1>10, <1>26, <1>28, <2>1
<1>31. CASE do_close \/ ConnectionLost
  <2> DEFINE Q == {inbox[i].s : i \in {j \in DOMAIN inbox : inbox[j].op = "send"}}
  <2>1. /\ pending' = pending \ pending /\ lost' = lost \cup {p.s : p \in pending} \cup Q
        /\ inbox' = <<>> /\ UNCHANGED <<channels, cur, issued, answer>>
    BY Zenon, <1>31 DEF do_close, ConnectionLost, Ends, Dropped
  <2>2. s \in Q <=> Has(inbox, M)
    <3>1. DOMAIN inbox = 1..Len(inbox) /\ \A i \in 1..Len(inbox) : inbox[i] \in Inner
      BY <1>0
    <3> QED BY Zenon, <1>1, <3>1 DEF Has
  <2> HIDE DEF Q
  <2>3. ~Has(inbox', M) /\ Single(inbox', M)
    BY Zenon, <2>1, EmptyQueue
  <2>4. CASE s \in Q
    <3>1. At(s, "inbox")
      BY Zenon, <1>4, <2>2, <2>4
    <3>2. s \in lost' /\ ~InPending(s)'
      BY Zenon, <2>1, <2>4 DEF InPending
    <3>3. At(s, "lost")'
      BY Zenon, <2>1, <2>3, <3>1, <3>2 DEF At, Waiting, M
    <3> QED BY Zenon, <1>4, <1>6, <1>7, <2>1, <2>3, <3>1, <3>3, Arrives DEF C, R, M
  <2>5. CASE s \notin Q
    <3>1. Same(inbox', inbox, M) /\ pending \in SUBSET pending
      BY Zenon, <2>2, <2>3, <2>5 DEF Same
    <3> QED BY Zenon, <1>25, <2>1, <2>5, <3>1
  <2> QED BY Zenon, <2>4, <2>5
<1>32. CASE on_peer_end
  <2>1. pending \in SUBSET pending /\ s \notin {}
    BY Zenon
  <2> QED BY Zenon, <1>2, <1>25, <1>32, <2>1 DEF on_peer_end, Dropped
<1>33. ASSUME NEW h \in RealHandle, on_peer_detach(h) PROVE InOnePlace(s)'
  BY Zenon, <1>2, <1>26, <1>33 DEF on_peer_detach
<1>34. ASSUME NEW t \in Sends, ReplyDropped(t) PROVE InOnePlace(s)'
  <2>1. /\ t \in lost /\ lost' = lost \ {t}
        /\ \/ answer' = Answered({t}, "err") /\ replays' = replays
           \/ replays' = Append(replays, t) /\ answer' = answer
        /\ UNCHANGED <<cmds, inbox, pending, cur, issued>>
    BY Zenon, <1>34 DEF ReplyDropped, NoReply
  <2>2. InPending(s)' <=> InPending(s)
    BY Zenon, <2>1 DEF InPending
  <2>3. CASE t # s
    <3>1. s \notin {t} /\ (s \in lost' <=> s \in lost)
      BY Zenon, <2>1, <2>3
    <3>2. answer'[s] = answer[s]
      BY Zenon, <1>5, <2>1, <3>1
    <3>3. Same(replays', replays, R)
      BY Zenon, <1>2, <2>1, <2>3
    <3>4. Ignored(s)
      BY Zenon, <1>2, <2>1, <2>2, <3>1, <3>2, <3>3 DEF Ignored, C, R, M
    <3> QED BY Zenon, <1>0, <3>4, IgnoredStays
  <2>4. CASE t = s
    <3>1. At(s, "lost") /\ s \in issued /\ s \notin lost'
      BY Zenon, <1>4, <1>6, <1>7, <2>1, <2>4
    <3>2. CASE answer' = Answered({t}, "err") /\ replays' = replays
      <4>1. answer'[s] = "err"
        BY Zenon, <1>5, <2>4, <3>2
      <4>2. At(s, "none")'
        BY Zenon, <2>1, <2>2, <3>1, <3>2, <4>1 DEF At, Waiting
      <4> QED BY Zenon, <1>4, <1>7, <2>1, <3>1, <3>2, <4>2, Arrives DEF C, R, M
    <3>3. CASE replays' = Append(replays, t) /\ answer' = answer
      <4>1. ~Has(replays, R) /\ t \in R
        BY Zenon, <2>4, <3>1 DEF At, R
      <4>2. Has(replays', R) /\ Single(replays', R)
        BY Zenon, <1>0, <1>4, <3>3, <4>1, Appended
      <4>3. At(s, "replays")'
        BY Zenon, <2>1, <2>2, <3>1, <3>3, <4>2 DEF At, Waiting, R
      <4> QED BY Zenon, <1>4, <1>7, <2>1, <3>1, <4>2, <4>3, Arrives DEF C, R, M
    <3> QED BY Zenon, <2>1, <3>2, <3>3
  <2> QED BY Zenon, <2>3, <2>4
<1>35. ASSUME NEW p \in pending, flush_sender(p) \/ BrokerStores(p) PROVE InOnePlace(s)'
  <2>1. /\ \E a : pending' = (pending \ {p}) \cup {[p EXCEPT !.at = a]}
        /\ UNCHANGED <<channels, inbox, cur, lost, issued, answer>>
    BY Zenon, <1>35 DEF flush_sender, BrokerStores, Moved
  <2>2. \A a : [p EXCEPT !.at = a].s = p.s
    BY <1>0 DEF Unsettled
  <2>3. InPending(s)' <=> InPending(s)
    BY Zenon, <2>1, <2>2 DEF InPending
  <2>4. Ignored(s)
    BY Zenon, <1>2, <2>1, <2>3 DEF Ignored, C, R, M
  <2> QED BY Zenon, <1>0, <2>4, IgnoredStays
<1>36. ASSUME NEW p \in pending, on_disposition(p) PROVE InOnePlace(s)'
  <2>1. /\ pending' = pending \ {p} /\ answer' = Answered({p.s}, "ok")
        /\ UNCHANGED <<channels, inbox, cur, lost, issued>>
    BY Zenon, <1>36 DEF on_disposition
  <2>2. CASE p.s # s
    <3>1. s \notin {p.s} /\ (InPending(s)' <=> InPending(s))
      BY Zenon, <2>1, <2>2 DEF InPending
    <3>2. answer'[s] = answer[s]
      BY Zenon, <1>5, <2>1, <3>1
    <3>3. Ignored(s)
      BY Zenon, <1>2, <2>1, <3>1, <3>2 DEF Ignored, C, R, M
    <3> QED BY Zenon, <1>0, <3>3, IgnoredStays
  <2>3. CASE p.s = s
    <3>1. InPending(s) /\ ~InPending(s)' /\ s \in {p.s}
      BY Zenon, <2>1, <2>3 DEF InPending, Pending
    <3>2. answer'[s] = "ok"
      BY Zenon, <1>5, <2>1, <3>1
    <3>3. At(s, "pending") /\ s \in issued
      BY Zenon, <1>4, <1>6, <1>7, <3>1
    <3>4. At(s, "none")'
      BY Zenon, <2>1, <3>1, <3>2, <3>3 DEF At, Waiting
    <3> QED BY Zenon, <1>4, <1>7, <2>1, <3>3, <3>4, Arrives DEF C, R, M
  <2> QED BY Zenon, <2>2, <2>3
<1>37. CASE DriverDied \/ AttachLink \/ Retry \/ UNCHANGED vars
  BY Zenon, <1>20, <1>37 DEF DriverDied, AttachLink, Retry, vars
<1>38. CASE \E x \in stray : BrokerStoresStray(x)
  BY Zenon, <1>20, <1>38 DEF BrokerStoresStray
<1> QED
  BY ZenonT(30), <1>11, <1>13, <1>14, <1>15, <1>16, <1>18, <1>19, <1>21, <1>22, <1>23, <1>24, <1>27, <1>29,
     <1>30, <1>31, <1>32, <1>33, <1>34, <1>35, <1>36, <1>37, <1>38
  DEF Next, Application, Supervisor, Driver, Peer, Watcher, Delivery

-----------------------------------------------------------------------------
(* Sends that await a disposition.                                         *)

(***************************************************************************)
(* An unsettled send has a live handle, and its disposition comes after    *)
(* the broker has stored it.                                               *)
(***************************************************************************)
LEMMA PendingStep ==
    ASSUME TypeOK, Phases, Mailbox, Handles, HandleLeft, Attaches, Located, Pending, [Next]_vars
    PROVE  Pending'
<1>0. /\ pending \subseteq Unsettled /\ table \in [RealHandle -> Link \cup {None}]
      /\ \A p \in pending : p.s \in Sends /\ p.h \in RealHandle
  BY Zenon DEF TypeOK, DriverTypeOK, Unsettled
<1>1. ASSUME pending' \subseteq pending, stored \subseteq stored',
             \A p \in pending' : table'[p.h] # None,
             \A s \in Sends : answer'[s] = "ok" =>
                 answer[s] = "ok" \/ \E l \in Link : <<s, l>> \in stored'
      PROVE  Pending'
  <2>1. OkMeansStored'
    BY Zenon, <1>1 DEF OkMeansStored, Pending
  <2> QED BY Zenon, <1>1, <2>1 DEF Pending
<1>2. ASSUME pending' \subseteq pending, \A p \in pending' : table'[p.h] # None,
             UNCHANGED stored, answer' = answer \/ \E S : answer' = Answered(S, "err")
      PROVE  Pending'
  <2>1. \A s \in Sends : answer'[s] = "ok" => answer[s] = "ok"
    BY Zenon, <1>2 DEF Answered
  <2> QED BY Zenon, <1>1, <1>2, <2>1
<1>3. ASSUME UNCHANGED <<pending, table, stored>>, answer' = answer \/ \E S : answer' = Answered(S, "err")
      PROVE  Pending'
  BY Zenon, <1>2, <1>3 DEF Pending
<1>4. ASSUME pending' = {}, UNCHANGED <<stored, answer>> PROVE Pending'
  BY Zenon, <1>2, <1>4
<1>5. CASE Established
  <2>1. pending = {} /\ UNCHANGED <<pending, stored, answer>>
    BY Zenon, <1>5 DEF Established, Mailbox, Quiet
  <2> QED BY Zenon, <1>4, <2>1
<1>6. CASE do_close \/ ConnectionLost \/ on_peer_end
  <2>1. pending' = pending \ pending /\ UNCHANGED <<stored, answer>>
    BY Zenon, <1>6 DEF do_close, ConnectionLost, on_peer_end, Ends, Dropped
  <2> QED BY Zenon, <1>4, <2>1
<1>7. ASSUME NEW k \in RealHandle, forget_link(k), UNCHANGED <<stored, answer>> PROVE Pending'
  <2>1. pending' = pending \ OfLink(k) /\ table' = [table EXCEPT ![k] = None]
    BY Zenon, <1>7 DEF forget_link, Dropped
  <2>2. \A p \in pending' : p \in pending /\ p.h # k
    BY Zenon, <2>1 DEF OfLink
  <2>3. \A p \in pending' : table'[p.h] # None
    BY Zenon, <1>0, <2>1, <2>2 DEF Pending
  <2> QED BY Zenon, <1>2, <1>7, <2>2, <2>3
<1>8. CASE detach_link
  <2>1. Mail.h \in RealHandle
    BY Zenon, <1>8, HeadMail, InnerMail DEF detach_link, Received
  <2> QED BY Zenon, <1>3, <1>7, <1>8, <2>1 DEF detach_link
<1>9. ASSUME NEW h \in RealHandle, on_peer_detach(h) PROVE Pending'
  BY Zenon, <1>7, <1>9 DEF on_peer_detach
<1>10. CASE attach_link
  <2>1. CASE ~session
    BY Zenon, <1>3, <1>10, <2>1 DEF attach_link
  <2>2. CASE session
    <3>1. Mail.l \in Link /\ \A h \in RealHandle : table[h] # Mail.l
      BY Zenon, <1>10, AttachMail DEF attach_link
    <3>2. /\ table' = [table EXCEPT ![allocate] = Mail.l] /\ session'
          /\ free' = IF free # <<>> THEN SubSeq(free, 1, Len(free) - 1) ELSE free
          /\ UNCHANGED <<pending, stored, answer>>
      BY Zenon, <1>10, <2>2 DEF attach_link
    <3>3. allocate \in RealHandle /\ table[allocate] = None
      BY Zenon, <2>2, <3>1, <3>2, Allocates DEF TypeOK
    <3>4. \A p \in pending : table'[p.h] # None
      BY Zenon, <1>0, <3>2, <3>3 DEF Pending
    <3> QED BY Zenon, <1>2, <3>2, <3>4
  <2> QED BY Zenon, <2>1, <2>2
<1>11. CASE session_send_transfer
  <2> DEFINE r == [s |-> Mail.s, h |-> Mail.h, at |-> "outbox"]
  <2>1. /\ inbox # <<>> /\ Mail \in Inner /\ Mail.op = "send" /\ UNCHANGED <<table, stored>>
        /\ \/ session /\ table[Mail.h] # None /\ pending' = pending \cup {r} /\ answer' = answer
           \/ answer' = Answered({Mail.s}, "err") /\ pending' = pending
    BY Zenon, <1>11, HeadMail DEF session_send_transfer, Received
  <2>2. r.s = Mail.s /\ r.h = Mail.h /\ r.at # "stored"
    BY ZenonT(30)
  <2>3. Mail.s \in Sends /\ Mail \in SendMail(Mail.s)
    BY ZenonT(30), <2>1, InnerMail DEF SendMail, Inner
  <2>4. Has(inbox, SendMail(Mail.s))
    BY <2>1, <2>3, TailQueue DEF Mail, TypeOK, DriverTypeOK
  <2>5. ~InPending(Mail.s)
    BY Zenon, <2>3, <2>4, Whereabouts DEF Located, At
  <2> HIDE DEF r
  <2>6. CASE table[Mail.h] # None /\ pending' = pending \cup {r} /\ answer' = answer
    <3>0. /\ \A q \in pending : q.s # r.s
          /\ \A q \in pending' : q = r \/ q \in pending
      BY Zenon, <2>2, <2>5, <2>6 DEF InPending
    <3>1. \A p, q \in pending' : p.s = q.s => p = q
      BY Zenon, <3>0 DEF Pending
    <3>2. \A p \in pending' : /\ table'[p.h] # None
                              /\ p.at = "stored" => \E l \in Link : <<p.s, l>> \in stored'
      BY Zenon, <2>1, <2>2, <2>6 DEF Pending
    <3>3. OkMeansStored'
      BY Zenon, <2>1, <2>6 DEF Pending, OkMeansStored
    <3> QED BY Zenon, <3>1, <3>2, <3>3 DEF Pending
  <2> QED BY Zenon, <1>3, <2>1, <2>6
<1>12. ASSUME NEW p \in pending, flush_sender(p) \/ BrokerStores(p) PROVE Pending'
  <2>1. PICK a : /\ pending' = (pending \ {p}) \cup {[p EXCEPT !.at = a]}
                 /\ a = "wire" \/ (a = "stored" /\ <<p.s, table[p.h]>> \in stored')
    BY Zenon, <1>12 DEF flush_sender, BrokerStores, Moved
  <2>2. stored \subseteq stored' /\ UNCHANGED <<table, answer>>
    BY Zenon, <1>12 DEF flush_sender, BrokerStores
  <2> DEFINE r == [p EXCEPT !.at = a]
  <2>3. r.s = p.s /\ r.h = p.h /\ r.at = a
    BY <1>0 DEF Unsettled
  <2>4. table[p.h] # None /\ table[p.h] \in Link
    BY Zenon, <1>0 DEF Pending
  <2> HIDE DEF r
  <2>5. \A q \in pending' : q = r \/ (q \in pending /\ q # p)
    BY Zenon, <2>1 DEF r
  <2>6. \A q1, q2 \in pending' : q1.s = q2.s => q1 = q2
    BY Zenon, <2>3, <2>5 DEF Pending
  <2>7. ASSUME NEW q \in pending'
        PROVE  table'[q.h] # None /\ (q.at = "stored" => \E l \in Link : <<q.s, l>> \in stored')
    <3>1. CASE q = r
      BY ZenonT(30), <2>1, <2>2, <2>3, <2>4, <3>1
    <3>2. CASE q \in pending
      BY Zenon, <2>2, <3>2 DEF Pending
    <3> QED BY Zenon, <2>5, <3>1, <3>2
  <2>8. OkMeansStored'
    BY Zenon, <2>2 DEF Pending, OkMeansStored
  <2> QED BY Zenon, <2>6, <2>7, <2>8 DEF Pending
<1>13. ASSUME NEW p \in pending, on_disposition(p) PROVE Pending'
  <2>1. /\ p.at = "stored" /\ pending' = pending \ {p} /\ answer' = Answered({p.s}, "ok")
        /\ UNCHANGED <<table, stored>>
    BY Zenon, <1>13 DEF on_disposition
  <2>2. \E l \in Link : <<p.s, l>> \in stored
    BY Zenon, <2>1 DEF Pending
  <2>3. \A s \in Sends : answer'[s] = "ok" => answer[s] = "ok" \/ s = p.s
    BY Zenon, <2>1 DEF Answered
  <2>4. \A s \in Sends : answer'[s] = "ok" => answer[s] = "ok" \/ \E l \in Link : <<s, l>> \in stored'
    BY Zenon, <2>1, <2>2, <2>3
  <2>5. \A q \in pending' : table'[q.h] # None
    BY Zenon, <2>1 DEF Pending
  <2> QED BY Zenon, <1>1, <2>1, <2>4, <2>5
<1>14. ASSUME NEW x, BrokerStoresStray(x) PROVE Pending'
  BY Zenon, <1>1, <1>14 DEF BrokerStoresStray, Pending
<1>15. CASE Closed \/ give_up
  BY Zenon, <1>3, <1>15 DEF Closed, give_up, Stop
<1>16. CASE send_transfer \/ Watcher \/ \E s \in Sends : send_bytes(s)
  BY Zenon, <1>3, <1>16 DEF send_transfer, NotConnected, Watcher, ReplyDropped, NoReply, send_bytes
<1>17. ASSUME UNCHANGED <<pending, table, stored, answer>> PROVE Pending'
  BY Zenon, <1>3, <1>17
<1>18. CASE DriverDied \/ Command \/ Replay \/ AttachLink \/ DetachLink \/ CloseConnection
  BY Zenon, <1>17, <1>18 DEF DriverDied, Command, Replay, AttachLink, DetachLink, CloseConnection
<1>19. CASE Open \/ Opened \/ OpenFailed \/ Retry \/ begin_session \/ UNCHANGED vars
  BY Zenon, <1>17, <1>19 DEF Open, Opened, OpenFailed, Retry, begin_session, vars
<1>20. CASE close \/ \E l \in Link : create_producer(l) \/ detach_on_drop(l)
  BY Zenon, <1>17, <1>20 DEF close, create_producer, detach_on_drop
<1> QED
  BY ZenonT(30), <1>5, <1>6, <1>8, <1>9, <1>10, <1>11, <1>12, <1>13, <1>14, <1>15, <1>16, <1>18, <1>19, <1>20
  DEF Next, Application, Supervisor, Driver, Peer, Delivery

-----------------------------------------------------------------------------
(* The topology.                                                           *)

(***************************************************************************)
(* A message that reaches the broker, late or not, reaches its own target. *)
(***************************************************************************)
LEMMA CopiesHomeStep ==
    ASSUME TypeOK, Pending, CopiesHome, PendingHome, [Next]_vars
    PROVE  CopiesHome'
<1>1. ASSUME UNCHANGED <<stored, stray>> PROVE CopiesHome'
  BY Zenon, <1>1 DEF CopiesHome
<1>2. ASSUME NEW P \in SUBSET pending, NEW Q \in SUBSET Sends, Dropped(P, Q), stored' = stored
      PROVE  CopiesHome'
  <2>1. \A x \in stray' : x \in stray \/ \E p \in P : x = <<p.s, table[p.h]>>
    BY Zenon, <1>2, Drops DEF TypeOK
  <2>2. \A p \in P : table[p.h] = link_of[p.s]
    BY Zenon, <1>2 DEF PendingHome
  <2>3. ASSUME NEW p \in P PROVE <<p.s, table[p.h]>>[2] = link_of[<<p.s, table[p.h]>>[1]]
    BY <2>2
  <2> QED BY Zenon, <1>2, <2>1, <2>3 DEF CopiesHome
<1>3. ASSUME NEW k, forget_link(k), stored' = stored PROVE CopiesHome'
  <2>1. OfLink(k) \in SUBSET pending /\ {} \in SUBSET Sends
    BY Zenon DEF OfLink
  <2> QED BY Zenon, <1>2, <1>3, <2>1 DEF forget_link
<1>4. CASE detach_link \/ \E h \in RealHandle : on_peer_detach(h)
  BY Zenon, <1>1, <1>3, <1>4 DEF detach_link, on_peer_detach
<1>5. CASE do_close \/ ConnectionLost
  <2> DEFINE Q == {inbox[i].s : i \in {j \in DOMAIN inbox : inbox[j].op = "send"}}
  <2>1. Q \in SUBSET Sends /\ pending \in SUBSET pending
    BY InnerMail DEF TypeOK, DriverTypeOK
  <2>2. Dropped(pending, Q) /\ stored' = stored
    BY Zenon, <1>5 DEF do_close, ConnectionLost, Ends
  <2> QED BY ZenonT(30), <1>2, <2>1, <2>2
<1>6. CASE on_peer_end
  <2>1. pending \in SUBSET pending /\ {} \in SUBSET Sends
    BY Zenon
  <2> QED BY Zenon, <1>2, <1>6, <2>1 DEF on_peer_end
<1>7. ASSUME NEW p \in pending, BrokerStores(p) PROVE CopiesHome'
  <2>1. stored' = stored \cup {<<p.s, table[p.h]>>} /\ stray' = stray
    BY ZenonT(30), <1>7 DEF BrokerStores
  <2>2. <<p.s, table[p.h]>>[2] = link_of[<<p.s, table[p.h]>>[1]]
    BY DEF PendingHome
  <2> QED BY Zenon, <2>1, <2>2 DEF CopiesHome
<1>8. ASSUME NEW x \in stray, BrokerStoresStray(x) PROVE CopiesHome'
  BY Zenon, <1>8 DEF BrokerStoresStray, CopiesHome
<1>9. CASE Application \/ Watcher \/ UNCHANGED vars
  BY Zenon, <1>1, <1>9 DEF Application, send_bytes, create_producer, detach_on_drop, close, Watcher,
     ReplyDropped, vars
<1>10. CASE \/ DriverDied \/ Command \/ Replay \/ send_transfer \/ AttachLink \/ DetachLink
            \/ CloseConnection
  BY Zenon, <1>1, <1>10 DEF DriverDied, Command, Replay, send_transfer, AttachLink, DetachLink,
     CloseConnection
<1>11. CASE Closed \/ Open \/ Opened \/ OpenFailed \/ Established \/ Retry \/ give_up
  BY Zenon, <1>1, <1>11 DEF Closed, Open, Opened, OpenFailed, Established, Retry, give_up
<1>12. CASE session_send_transfer \/ begin_session \/ attach_link
  BY Zenon, <1>1, <1>12 DEF session_send_transfer, begin_session, attach_link
<1>13. ASSUME NEW p \in pending, flush_sender(p) \/ on_disposition(p) PROVE CopiesHome'
  BY Zenon, <1>1, <1>13 DEF flush_sender, on_disposition
<1> QED
  BY ZenonT(30), <1>4, <1>5, <1>6, <1>7, <1>8, <1>9, <1>10, <1>11, <1>12, <1>13
  DEF Next, Supervisor, Driver, Peer, Delivery

(***************************************************************************)
(* What happens to an entry of the driver's table, unless the broker       *)
(* detaches the link.                                                      *)
(***************************************************************************)
LEMMA TableKeeps ==
    ASSUME TypeOK, Phases, Mailbox, Handles, HandleLeft, Attaches, [Next]_vars, cut' = {},
           NEW h \in RealHandle, table[h] # None
    PROVE  \/ table'[h] = table[h]
           \/ table' = EmptyTable /\ session' = FALSE
           \/ detach_link /\ session /\ h = Mail.h /\ table'[h] = None
<1>0. table \in [RealHandle -> Link \cup {None}]
  BY Zenon DEF TypeOK, DriverTypeOK
<1>1. CASE table' = table
  BY Zenon, <1>1
<1>2. CASE Established \/ on_peer_end
  BY Zenon, <1>2 DEF Established, on_peer_end
<1>3. CASE detach_link
  <2>1. CASE forget_link(Mail.h) /\ session
    BY Zenon, <1>0, <1>3, <2>1 DEF forget_link
  <2> QED BY Zenon, <1>1, <1>3, <2>1 DEF detach_link
<1>4. CASE attach_link
  <2>1. table' = table \/ (table' = [table EXCEPT ![allocate] = Mail.l] /\ session)
    BY Zenon, <1>4 DEF attach_link
  <2>2. CASE session
    <3>1. Mail.l \in Link /\ \A g \in RealHandle : table[g] # Mail.l
      BY Zenon, <1>4, AttachMail DEF attach_link
    <3>2. /\ table' = [table EXCEPT ![allocate] = Mail.l] /\ session'
          /\ free' = IF free # <<>> THEN SubSeq(free, 1, Len(free) - 1) ELSE free
      BY Zenon, <1>4, <2>2 DEF attach_link
    <3>3. table[allocate] = None
      BY Zenon, <2>2, <3>1, <3>2, Allocates DEF TypeOK
    <3> QED BY Zenon, <1>0, <3>2, <3>3
  <2> QED BY Zenon, <1>1, <2>1, <2>2
<1>5. ~\E k \in RealHandle : on_peer_detach(k)
  BY Zenon DEF on_peer_detach
<1>6. CASE do_close \/ ConnectionLost
  BY Zenon, <1>1, <1>6 DEF do_close, ConnectionLost, Ends
<1>7. CASE session_send_transfer \/ begin_session \/ Delivery
  BY Zenon, <1>1, <1>7 DEF session_send_transfer, begin_session, Delivery, flush_sender, BrokerStores,
     on_disposition
<1>8. CASE DriverDied \/ Command \/ Replay \/ send_transfer \/ AttachLink \/ DetachLink
            \/ CloseConnection
  BY Zenon, <1>1, <1>8 DEF DriverDied, Command, Replay, send_transfer, AttachLink, DetachLink,
     CloseConnection
<1>9. CASE Closed \/ Open \/ Opened \/ OpenFailed \/ Retry \/ give_up
  BY Zenon, <1>1, <1>9 DEF Closed, Open, Opened, OpenFailed, Retry, give_up
<1>10. CASE Application \/ Watcher \/ UNCHANGED vars
  BY Zenon, <1>1, <1>10 DEF Application, send_bytes, create_producer, detach_on_drop, close, Watcher,
     ReplyDropped, vars
<1>11. CASE \E x \in stray : BrokerStoresStray(x)
  BY Zenon, <1>1, <1>11 DEF BrokerStoresStray
<1> QED
  BY ZenonT(30), <1>2, <1>3, <1>4, <1>5, <1>6, <1>7, <1>8, <1>9, <1>10, <1>11
  DEF Next, Supervisor, Driver, Peer
=============================================================================
