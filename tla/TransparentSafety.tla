------------------------- MODULE TransparentSafety --------------------------
(***************************************************************************)
(* The invariant of TransparentProofs is inductive, and implies where a    *)
(* send is and where its message goes: the safety theorems.                *)
(***************************************************************************)
EXTENDS TransparentProofs, FiniteSetTheorems

USE DEF supervisor, channels, logical, conn, app, broker

-----------------------------------------------------------------------------
(***************************************************************************)
(* Where an unsettled send comes from.                                     *)
(***************************************************************************)
LEMMA PendingSources ==
    ASSUME TypeOK, [Next]_vars, NEW p \in pending'
    PROVE  \/ \E q \in pending : q.s = p.s /\ q.h = p.h
           \/ /\ session_send_transfer /\ session /\ table' = table
              /\ p.s = Mail.s /\ p.h = Mail.h
<1>0. pending \subseteq Unsettled
  BY Zenon DEF TypeOK, DriverTypeOK
<1>1. CASE pending' \subseteq pending
  BY Zenon, <1>1
<1>2. CASE session_send_transfer
  <2> DEFINE r == [s |-> Mail.s, h |-> Mail.h, at |-> "outbox"]
  <2>1. r.s = Mail.s /\ r.h = Mail.h
    BY Zenon
  <2>2. (session /\ pending' = pending \cup {r}) \/ pending' = pending
    BY Zenon, <1>2 DEF session_send_transfer
  <2>3. table' = table
    BY Zenon, <1>2 DEF session_send_transfer
  <2> HIDE DEF r
  <2>4. CASE pending' = pending
    BY Zenon, <1>1, <2>4
  <2>5. CASE session /\ p = r
    BY Zenon, <1>2, <2>1, <2>3, <2>5
  <2> QED BY Zenon, <2>2, <2>4, <2>5
<1>3. ASSUME NEW x \in pending, flush_sender(x) \/ BrokerStores(x)
      PROVE  \E q \in pending : q.s = p.s /\ q.h = p.h
  <2>1. PICK a : pending' = (pending \ {x}) \cup {[x EXCEPT !.at = a]}
    BY Zenon, <1>3 DEF flush_sender, BrokerStores, Moved
  <2>2. [x EXCEPT !.at = a].s = x.s /\ [x EXCEPT !.at = a].h = x.h
    BY <1>0 DEF Unsettled
  <2> QED BY Zenon, <2>1, <2>2
<1>4. ASSUME NEW x, on_disposition(x) PROVE pending' \subseteq pending
  BY Zenon, <1>4 DEF on_disposition
<1>5. CASE do_close \/ ConnectionLost \/ on_peer_end
  BY Zenon, <1>1, <1>5 DEF do_close, ConnectionLost, Ends, on_peer_end, Dropped
<1>6. CASE detach_link \/ \E h \in RealHandle : on_peer_detach(h)
  BY Zenon, <1>1, <1>6 DEF detach_link, on_peer_detach, forget_link, Dropped
<1>7. ASSUME pending' = pending PROVE \E q \in pending : q.s = p.s /\ q.h = p.h
  BY Zenon, <1>7
<1>8. CASE DriverDied \/ Command \/ Replay \/ send_transfer \/ AttachLink \/ DetachLink
            \/ CloseConnection
  BY Zenon, <1>7, <1>8 DEF DriverDied, Command, Replay, send_transfer, AttachLink, DetachLink,
     CloseConnection
<1>9. CASE Closed \/ Open \/ Opened \/ OpenFailed \/ Established \/ Retry \/ give_up
  BY Zenon, <1>7, <1>9 DEF Closed, Open, Opened, OpenFailed, Established, Retry, give_up
<1>10. CASE Application \/ Watcher \/ UNCHANGED vars
  BY Zenon, <1>7, <1>10 DEF Application, send_bytes, create_producer, detach_on_drop, close, Watcher,
     ReplyDropped, vars
<1>11. CASE begin_session \/ attach_link \/ \E x \in stray : BrokerStoresStray(x)
  BY Zenon, <1>7, <1>11 DEF begin_session, attach_link, BrokerStoresStray
<1> QED
  BY ZenonT(30), <1>1, <1>2, <1>3, <1>4, <1>5, <1>6, <1>8, <1>9, <1>10, <1>11
  DEF Next, Supervisor, Driver, Peer, Delivery

(***************************************************************************)
(* An unsettled send is on the link of its producer.                       *)
(***************************************************************************)
LEMMA PendingHomeStep ==
    ASSUME TypeOK, Phases, Mailbox, Handles, HandleLeft, Attaches, Pending, Pending',
           PendingHome, InboxHome, [Next]_vars, cut' = {}
    PROVE  PendingHome'
<1> SUFFICES ASSUME NEW p \in pending' PROVE table'[p.h] = link_of[p.s]
  BY Zenon DEF PendingHome
<1>1. table'[p.h] # None
  BY Zenon DEF Pending
<1>2. ASSUME NEW q \in pending, q.s = p.s, q.h = p.h PROVE table'[p.h] = link_of[p.s]
  <2>1. q.h \in RealHandle /\ table[q.h] # None /\ table[q.h] = link_of[q.s]
    BY Zenon DEF TypeOK, DriverTypeOK, Unsettled, Pending, PendingHome
  <2>2. table'[q.h] # EmptyTable[q.h]
    BY Zenon, <1>1, <1>2, <2>1 DEF EmptyTable
  <2>3. table'[q.h] = table[q.h]
    BY Zenon, <1>1, <1>2, <2>1, <2>2, TableKeeps
  <2> QED BY Zenon, <1>2, <2>1, <2>3
<1>3. CASE session_send_transfer /\ session /\ table' = table /\ p.s = Mail.s /\ p.h = Mail.h
  <2>1. inbox # <<>> /\ Mail.op = "send" /\ Mail = inbox[1]
    BY Zenon, <1>3, HeadMail DEF session_send_transfer, Received
  <2>2. 1 \in 1..Len(inbox)
    BY <2>1 DEF TypeOK, DriverTypeOK
  <2>3. MailHome(Mail)
    BY Zenon, <1>3, <2>1, <2>2 DEF InboxHome
  <2>4. table[Mail.h] \in {None, link_of[Mail.s]}
    BY Zenon, <2>1, <2>3 DEF MailHome
  <2> QED BY Zenon, <1>1, <1>3, <2>4
<1> QED BY Zenon, <1>2, <1>3, PendingSources

(***************************************************************************)
(* While the session is to be opened, so is every logical link.            *)
(***************************************************************************)
LEMMA ReplaysLinksStep ==
    ASSUME TypeOK, Phases, StillToOpen, ReplaysLinks, [Next]_vars
    PROVE  ReplaysLinks'
<1>0. /\ todo \in Seq(Link \cup {TheSession}) /\ links \subseteq Link
      /\ cur \in Cmd \cup {NoCmd}
  BY Zenon DEF TypeOK, SupervisorTypeOK, LinkTypeOK
<1>1. ASSUME UNCHANGED <<todo, links>> PROVE ReplaysLinks'
  BY Zenon, <1>1 DEF ReplaysLinks, ToOpen
<1>2. ASSUME todo' = <<>> PROVE ReplaysLinks'
  BY Zenon, <1>2 DEF ReplaysLinks
<1>3. CASE AttachLink
  <2>1. todo' = <<cur.l>> /\ cur.op = "attach"
    BY Zenon, <1>3 DEF AttachLink
  <2>2. cur.l \in Link
    BY ZenonT(30), <1>0, <2>1, Commands
  <2>3. todo'[1] # TheSession
    BY SMTT(30), <2>1, <2>2, ConstantsApart
  <2> QED BY Zenon, <2>3 DEF ReplaysLinks
<1>4. CASE DetachLink
  BY Zenon, <1>2, <1>4 DEF DetachLink, Phases
<1>5. CASE Open \/ OpenFailed
  BY Zenon, <1>1, <1>2, <1>5 DEF Open, OpenFailed, OpenFails
<1>6. CASE Opened
  <2>1. todo' = Tail(todo) /\ todo # <<>>
    BY Zenon, <1>6 DEF Opened, Phases
  <2>2. CASE todo' # <<>>
    <3>1. PICK i \in 1..Len(todo) : todo'[1] = todo[i] /\ i # 1
      <4>1. 2 \in 1..Len(todo) /\ todo'[1] = todo[2] /\ 2 # 1
        BY SMTT(30), <1>0, <2>1, <2>2
      <4> QED BY Zenon, <4>1
    <3>2. todo[i] \in links
      BY Zenon, <3>1 DEF StillToOpen
    <3>3. todo'[1] # TheSession
      BY Zenon, <1>0, <3>1, <3>2, ConstantsApart
    <3> QED BY Zenon, <3>3 DEF ReplaysLinks
  <2> QED BY Zenon, <1>2, <2>2
<1>7. CASE Established
  <2>1. todo' \in replay_topology /\ links' = links
    BY Zenon, <1>7 DEF Established
  <2>2. \A l \in links : \E i \in 1..Len(todo') : todo'[i] = l
    BY Zenon, <1>0, <2>1, ReplaysAll
  <2> QED BY Zenon, <2>1, <2>2 DEF ReplaysLinks, ToOpen
<1>8. CASE DriverDied \/ Command \/ Replay \/ send_transfer \/ CloseConnection \/ Closed \/ Retry \/ give_up
  BY Zenon, <1>1, <1>8 DEF DriverDied, Command, Replay, send_transfer, CloseConnection, Closed, Retry,
     give_up
<1>9. CASE Driver \/ Peer
  BY ZenonT(30), <1>1, <1>9 DEF Driver, Peer, session_send_transfer, begin_session, attach_link, detach_link,
     do_close, Ends, ConnectionLost, on_peer_end, on_peer_detach
<1>10. CASE Application \/ Watcher \/ UNCHANGED vars
  BY Zenon, <1>1, <1>10 DEF Application, send_bytes, create_producer, detach_on_drop, close, Watcher,
     ReplyDropped, vars
<1>11. CASE Delivery \/ \E x \in stray : BrokerStoresStray(x)
  BY Zenon, <1>1, <1>11 DEF Delivery, flush_sender, BrokerStores, on_disposition, BrokerStoresStray
<1> QED
  BY ZenonT(30), <1>3, <1>4, <1>5, <1>6, <1>7, <1>8, <1>9, <1>10, <1>11 DEF Next, Supervisor

(***************************************************************************)
(* A logical link stays attached where the supervisor has it, or is still  *)
(* to be opened.                                                           *)
(***************************************************************************)
LEMMA MappedStep ==
    ASSUME TypeOK, Phases, Mailbox, Handles, HandleLeft, Attaches, [Next]_vars, cut' = {},
           Mapped, InboxHome, ReplaysLinks, OpenedAt
    PROVE  Mapped'
<1> SUFFICES ASSUME session', driver' # "none", NEW l \in links'
             PROVE  ToOpen(l)' \/ AttachedAt(l)'
  BY Zenon DEF Mapped
<1>0. /\ todo \in Seq(Link \cup {TheSession}) /\ links \subseteq Link /\ cur \in Cmd \cup {NoCmd}
      /\ table \in [RealHandle -> Link \cup {None}]
      /\ real_handle \in [Link -> RealHandle \cup {None}]
      /\ (session /\ driver # "none" /\ l \in links => ToOpen(l) \/ AttachedAt(l))
  BY Zenon DEF TypeOK, SupervisorTypeOK, LinkTypeOK, DriverTypeOK, Mapped
<1>1. ASSUME links' \subseteq links, UNCHANGED <<todo, real_handle, table>>,
             session' => session, driver' # "none" => driver # "none"
      PROVE  ToOpen(l)' \/ AttachedAt(l)'
  BY Zenon, <1>0, <1>1 DEF ToOpen, AttachedAt
<1>2. CASE AttachLink
  <2>1. /\ todo = <<>> /\ todo' = <<cur.l>> /\ links' = links \cup {cur.l}
        /\ UNCHANGED <<real_handle, table, session, driver>>
    BY Zenon, <1>2 DEF AttachLink, Phases
  <2>2. CASE l = cur.l
    <3>1. 1 \in 1..Len(todo') /\ todo'[1] = l
      BY <2>1, <2>2
    <3> QED BY Zenon, <3>1 DEF ToOpen
  <2>3. CASE l # cur.l
    <3>1. ~ToOpen(l)
      BY <2>1 DEF ToOpen
    <3> QED BY Zenon, <1>0, <2>1, <2>3, <3>1 DEF AttachedAt
  <2> QED BY Zenon, <2>2, <2>3
<1>3. ASSUME pc \in {"open", "opening"}, OpenFails, UNCHANGED <<real_handle, table, session>>
      PROVE  AttachedAt(l)'
  <2>1. Attaching /\ links' = links \ {cur.l} /\ driver' = driver
    BY Zenon, <1>3 DEF OpenFails
  <2>2. todo = <<cur.l>>
    BY Zenon, <1>3, <2>1 DEF Phases
  <2>3. ToOpen(l) => l = cur.l
    BY <2>2 DEF ToOpen
  <2> QED BY ZenonT(30), <1>0, <1>3, <2>1, <2>3 DEF AttachedAt
<1>4. CASE Open \/ OpenFailed
  BY ZenonT(30), <1>1, <1>3, <1>4 DEF Open, OpenFailed
<1>5. CASE Opened
  <2>1. /\ todo # <<>> /\ todo' = Tail(todo) /\ opened \in RealHandle
        /\ real_handle' = IF Head(todo) = TheSession THEN real_handle
                          ELSE [real_handle EXCEPT ![Head(todo)] = opened]
        /\ UNCHANGED <<links, table, session, driver>>
    BY Zenon, <1>5 DEF Opened, Phases
  <2>2. /\ Head(todo) = todo[1]
        /\ \A i \in 1..Len(todo) : i = 1 \/ (i - 1 \in 1..Len(todo') /\ todo'[i - 1] = todo[i])
    BY SMTT(30), <1>0, <2>1
  <2>3. ToOpen(l) => l = Head(todo) \/ ToOpen(l)'
    BY Zenon, <2>2 DEF ToOpen
  <2>4. l \in Link /\ l # TheSession
    BY Zenon, <1>0, <2>1, ConstantsApart
  <2>5. CASE l # Head(todo)
    <3>1. real_handle'[l] = real_handle[l]
      BY Zenon, <1>0, <2>1, <2>4, <2>5
    <3> QED BY Zenon, <1>0, <2>1, <2>3, <2>5, <3>1 DEF AttachedAt
  <2>6. CASE l = Head(todo)
    <3>1. real_handle'[l] = opened
      BY ZenonT(30), <1>0, <2>1, <2>4, <2>6
    <3>2. table[opened] = l
      BY ZenonT(30), <2>1, <2>2, <2>4, <2>6 DEF OpenedAt
    <3> QED BY Zenon, <2>1, <3>1, <3>2 DEF AttachedAt
  <2> QED BY ZenonT(30), <2>5, <2>6
<1>6. CASE begin_session
  <2>1. todo # <<>> /\ todo[1] = TheSession
    BY Zenon, <1>6, OpeningMail DEF begin_session, Received
  <2>2. UNCHANGED <<links, todo>>
    BY Zenon, <1>6 DEF begin_session
  <2> QED BY Zenon, <2>1, <2>2 DEF ReplaysLinks, ToOpen
<1>7. CASE attach_link \/ detach_link
  <2>1. UNCHANGED <<links, todo, real_handle, session, driver>>
    BY Zenon, <1>7 DEF attach_link, detach_link
  <2>2. ASSUME AttachedAt(l) PROVE AttachedAt(l)'
    <3>1. real_handle[l] \in RealHandle /\ table[real_handle[l]] = l /\ l # None
      BY Zenon, <1>0, <2>1, <2>2, ConstantsApart DEF AttachedAt
    <3>2. CASE detach_link /\ real_handle[l] = Mail.h
      <4>1. inbox # <<>> /\ Mail.op = "detach" /\ Mail = inbox[1]
        BY Zenon, <3>2, HeadMail DEF detach_link, Received
      <4>2. 1 \in 1..Len(inbox)
        BY <4>1 DEF TypeOK, DriverTypeOK
      <4>3. table[Mail.h] \notin links
        BY Zenon, <2>1, <4>1, <4>2 DEF InboxHome, MailHome
      <4> QED BY Zenon, <2>1, <3>1, <3>2, <4>3
    <3>3. CASE ~(detach_link /\ real_handle[l] = Mail.h)
      <4>1. table'[real_handle[l]] = table[real_handle[l]]
        BY Zenon, <2>1, <3>1, <3>3, TableKeeps
      <4> QED BY Zenon, <2>1, <3>1, <4>1 DEF AttachedAt
    <3> QED BY Zenon, <3>2, <3>3
  <2>3. ToOpen(l)' <=> ToOpen(l)
    BY Zenon, <2>1 DEF ToOpen
  <2> QED BY ZenonT(30), <1>0, <2>1, <2>2, <2>3
<1>8. ~Established /\ ~on_peer_end /\ ~DriverDied /\ ~\E k \in RealHandle : on_peer_detach(k)
  BY Zenon DEF Established, on_peer_end, DriverDied, on_peer_detach
<1>9. CASE do_close \/ ConnectionLost
  BY Zenon, <1>1, <1>9 DEF do_close, ConnectionLost, Received, Ends
<1>10. CASE Command \/ Replay \/ send_transfer \/ DetachLink \/ CloseConnection
  BY Zenon, <1>1, <1>10 DEF Command, Replay, send_transfer, DetachLink, CloseConnection
<1>11. CASE Closed \/ Retry \/ give_up \/ session_send_transfer
  BY Zenon, <1>1, <1>11 DEF Closed, Retry, give_up, session_send_transfer
<1>12. CASE Application \/ Watcher \/ UNCHANGED vars
  <2>1. UNCHANGED <<logical, todo, conn>>
    BY Zenon, <1>12 DEF Application, send_bytes, create_producer, detach_on_drop, close, Watcher,
       ReplyDropped, vars
  <2> QED BY Zenon, <1>1, <2>1
<1>13. CASE Delivery \/ \E x \in stray : BrokerStoresStray(x)
  BY Zenon, <1>1, <1>13 DEF Delivery, flush_sender, BrokerStores, on_disposition, BrokerStoresStray
<1> QED
  BY ZenonT(30), <1>2, <1>4, <1>5, <1>6, <1>7, <1>8, <1>9, <1>10, <1>11, <1>12, <1>13
  DEF Next, Supervisor, Driver, Peer

(***************************************************************************)
(* A command in the driver's mailbox is about the link it was sent for,    *)
(* though handles are reused.                                              *)
(***************************************************************************)
LEMMA InboxHomeStep ==
    ASSUME TypeOK, TypeOK', Phases, Mailbox, Attaches, [Next]_vars, Mapped, InboxHome, cut' = {}
    PROVE  InboxHome'
<1> SUFFICES ASSUME session', NEW i \in 1..Len(inbox'), NEW m \in Inner, m = inbox'[i]
             PROVE  MailHome(m)'
  <2>1. \A i \in 1..Len(inbox') : inbox'[i] \in Inner
    <3>1. inbox' \in Seq(Inner)
      BY Zenon DEF TypeOK, DriverTypeOK
    <3> QED BY <3>1
  <2> QED BY Zenon, <2>1 DEF InboxHome, MailHome
<1>0. /\ inbox \in Seq(Inner) /\ links \subseteq Link
      /\ table \in [RealHandle -> Link \cup {None}]
      /\ real_handle \in [Link -> RealHandle \cup {None}] /\ None \notin links
  BY Zenon, ConstantsApart DEF TypeOK, DriverTypeOK, LinkTypeOK
<1>1. m.op \in {"send", "detach"} => m.h \in RealHandle
  BY Zenon, InnerMail
<1>2. ASSUME Has(inbox, {m}), session' = session, links' \subseteq links,
             \A h \in RealHandle : table'[h] = table[h] \/ table'[h] = None
      PROVE  MailHome(m)'
  <2>1. MailHome(m)
    BY Zenon, <1>2 DEF InboxHome, Has
  <2> QED BY Zenon, <1>0, <1>1, <1>2, <2>1 DEF MailHome
<1>3. inbox' = inbox => Has(inbox, {m})
  BY Zenon DEF Has
<1>4. ASSUME inbox' = inbox, links' \subseteq links, UNCHANGED <<table, session>> PROVE MailHome(m)'
  BY Zenon, <1>2, <1>3, <1>4
<1>5. ASSUME NEW x \in Inner, inbox' = Append(inbox, x), links' \subseteq links,
             UNCHANGED <<table, session>>
      PROVE  m = x \/ MailHome(m)'
  <2>1. Has(inbox', {m}) /\ (Has(inbox', {m}) <=> Has(inbox, {m}) \/ x \in {m})
    <3>1. Has(inbox', {m})
      BY Zenon DEF Has
    <3> QED BY Zenon, <1>0, <1>5, <3>1, AppendQueue
  <2> QED BY Zenon, <1>2, <1>5, <2>1
<1>6. ASSUME inbox # <<>>, inbox' = Tail(inbox) PROVE Has(inbox, {m})
  <2>1. i + 1 \in 1..Len(inbox) /\ inbox[i + 1] = m
    BY <1>0, <1>6
  <2> QED BY Zenon, <2>1 DEF Has
<1>7. inbox' # <<>>
  OBVIOUS
<1>8. ASSUME pc = "handle", driver = "up", session, NEW l \in Link, real_ids(l) # None
      PROVE  table[real_ids(l)] = l
  <2>1. l \in links /\ real_ids(l) = real_handle[l]
    BY Zenon, <1>8 DEF real_ids
  <2>2. todo = <<>>
    BY Zenon, <1>8 DEF Phases
  <2>3. ~ToOpen(l)
    BY <2>2 DEF ToOpen
  <2>4. AttachedAt(l)
    BY Zenon, <1>8, <2>1, <2>3 DEF Mapped
  <2> QED BY Zenon, <2>1, <2>4 DEF AttachedAt
<1>9. CASE send_transfer
  <2> DEFINE h == real_ids(link_of[cur.s])
             x == [op |-> "send", h |-> h, s |-> cur.s]
  <2>1. cur.s \in Sends
    BY Zenon, <1>9, Commands DEF send_transfer, TypeOK, SupervisorTypeOK
  <2>2. link_of[cur.s] \in Link
    BY Zenon, <2>1, ConstantsAssumption DEF Link
  <2>3. UNCHANGED <<links, table, session>> /\ pc = "handle"
    BY Zenon, <1>9 DEF send_transfer
  <2>4. CASE driver = "up" /\ h # None /\ inbox' = Append(inbox, x)
    <3>1. h \in RealHandle
      BY Zenon, <1>0, <2>2, <2>4 DEF real_ids
    <3>2. x \in Inner /\ x.op = "send" /\ x.h = h /\ x.s = cur.s
      BY Zenon, <2>1, <3>1, InnerMail
    <3>3. table[h] = link_of[cur.s]
      BY Zenon, <1>8, <2>2, <2>3, <2>4
    <3> HIDE DEF h, x
    <3>4. m = x => MailHome(m)'
      BY Zenon, <2>3, <3>2, <3>3 DEF MailHome
    <3> QED BY Zenon, <1>5, <2>3, <2>4, <3>2, <3>4
  <2>5. CASE inbox' = inbox
    BY Zenon, <1>4, <2>3, <2>5
  <2> QED BY Zenon, <1>9, <2>4, <2>5 DEF send_transfer, ToDriver
<1>10. CASE DetachLink
  <2> DEFINE h == real_ids(cur.l)
             x == [op |-> "detach", h |-> h]
  <2>1. cur.l \in Link
    BY <1>10 DEF DetachLink, TypeOK, SupervisorTypeOK, Cmd, NoCmd
  <2>2. UNCHANGED <<table, session>> /\ links' = links \ {cur.l} /\ pc = "handle"
    BY Zenon, <1>10 DEF DetachLink
  <2>3. CASE driver = "up" /\ h # None /\ inbox' = Append(inbox, x)
    <3>1. h \in RealHandle
      BY ZenonT(30), <1>0, <2>1, <2>3 DEF real_ids
    <3>2. x \in Inner /\ x.op = "detach" /\ x.h = h
      BY Zenon, <3>1, InnerMail
    <3>3. table[h] = cur.l
      BY Zenon, <1>8, <2>1, <2>2, <2>3
    <3> HIDE DEF h, x
    <3>4. m = x => MailHome(m)'
      BY Zenon, <2>2, <3>2, <3>3 DEF MailHome
    <3> QED BY Zenon, <1>5, <2>2, <2>3, <3>2, <3>4
  <2>4. CASE inbox' = inbox
    BY Zenon, <1>4, <2>2, <2>4
  <2> QED BY Zenon, <1>10, <2>3, <2>4 DEF DetachLink, ToDriver
<1>11. m.op \notin {"send", "detach"} => MailHome(m)'
  BY Zenon DEF MailHome
<1>12. CASE CloseConnection
  <2>1. [op |-> "close"] \in Inner /\ [op |-> "close"].op = "close"
    BY Zenon, InnerMail
  <2>2. UNCHANGED <<links, table, session>> /\ (inbox' = Append(inbox, [op |-> "close"]) \/ inbox' = inbox)
    BY Zenon, <1>12 DEF CloseConnection, ToDriver
  <2> QED BY Zenon, <1>4, <1>5, <1>11, <2>1, <2>2
<1>13. CASE Open
  <2> DEFINE x == IF Head(todo) = TheSession THEN [op |-> "begin"]
                  ELSE [op |-> "attach", l |-> Head(todo)]
  <2>1. todo # <<>>
    BY Zenon, <1>13 DEF Open, Phases
  <2>2. Head(todo) \in Link \cup {TheSession}
    BY Zenon, <2>1, TailQueue DEF TypeOK, SupervisorTypeOK
  <2>3. x \in Inner /\ x.op \notin {"send", "detach"}
    BY Zenon, <2>2, InnerMail
  <2>4. /\ UNCHANGED <<table, session>> /\ links' \subseteq links
        /\ inbox' = Append(inbox, x) \/ inbox' = inbox
    BY Zenon, <1>13 DEF Open, ToDriver, OpenFails
  <2> HIDE DEF x
  <2> QED BY Zenon, <1>4, <1>5, <1>11, <2>3, <2>4
<1>14. CASE OpenFailed
  BY Zenon, <1>4, <1>14 DEF OpenFailed, OpenFails
<1>15. CASE AttachLink
  <2>1. /\ UNCHANGED <<inbox, table, session>> /\ links' = links \cup {cur.l}
        /\ cur.op = "attach" /\ pc = "handle"
    BY Zenon, <1>15 DEF AttachLink
  <2>2. cur = AttachCmd(cur.l) /\ cur.l \in Link
    BY Zenon, <2>1, Commands DEF TypeOK, SupervisorTypeOK, Phases
  <2>3. \A h \in RealHandle : table[h] # cur.l
    BY Zenon, <2>1, <2>2 DEF Attaches, AttachOnce, NotYet, BeingAttached
  <2>4. MailHome(m)
    BY Zenon, <2>1 DEF InboxHome
  <2> QED BY Zenon, <1>1, <2>1, <2>3, <2>4 DEF MailHome
<1>16. ~begin_session /\ ~attach_link
  BY Zenon, <1>7, OpeningMail DEF begin_session, attach_link
<1>17. CASE session_send_transfer \/ detach_link
  <2>1. inbox # <<>> /\ inbox' = Tail(inbox) /\ UNCHANGED <<links, session>>
    BY Zenon, <1>17 DEF session_send_transfer, detach_link, Received
  <2>2. table' = table \/ \E k : table' = [table EXCEPT ![k] = None]
    BY Zenon, <1>17 DEF session_send_transfer, detach_link, forget_link
  <2>3. \A h \in RealHandle : table'[h] = table[h] \/ table'[h] = None
    BY Zenon, <1>0, <2>2
  <2> QED BY Zenon, <1>2, <1>6, <2>1, <2>3
<1>18. ~Established /\ ~on_peer_end /\ ~do_close /\ ~ConnectionLost
       /\ ~\E k \in RealHandle : on_peer_detach(k)
  BY Zenon, <1>7 DEF Established, on_peer_end, do_close, ConnectionLost, Ends, on_peer_detach
<1>19. CASE DriverDied \/ Command \/ Replay \/ Closed \/ Opened \/ Retry \/ give_up
  BY Zenon, <1>4, <1>19 DEF DriverDied, Command, Replay, Closed, Opened, Retry, give_up
<1>20. CASE Application \/ Watcher \/ UNCHANGED vars
  <2>1. UNCHANGED <<logical, conn>>
    BY Zenon, <1>20 DEF Application, send_bytes, create_producer, detach_on_drop, close, Watcher,
       ReplyDropped, vars
  <2> QED BY Zenon, <1>4, <2>1
<1>21. CASE Delivery \/ \E x \in stray : BrokerStoresStray(x)
  BY Zenon, <1>4, <1>21 DEF Delivery, flush_sender, BrokerStores, on_disposition, BrokerStoresStray
<1> QED
  BY ZenonT(30), <1>9, <1>10, <1>12, <1>13, <1>14, <1>15, <1>16, <1>17, <1>18, <1>19, <1>20, <1>21
  DEF Next, Supervisor, Driver, Peer

(***************************************************************************)
(* The handle in the driver's reply is the one that the link was given.    *)
(***************************************************************************)
LEMMA OpenedAtStep ==
    ASSUME TypeOK, Phases, Mailbox, Handles, HandleLeft, Attaches, [Next]_vars, cut' = {},
           InboxHome, OpenedAt
    PROVE  OpenedAt'
<1>0. /\ todo \in Seq(Link \cup {TheSession}) /\ table \in [RealHandle -> Link \cup {None}]
      /\ (opened \in RealHandle => 1 \in 1..Len(todo)) /\ links \subseteq Link
  <2>1. todo \in Seq(Link \cup {TheSession}) /\ table \in [RealHandle -> Link \cup {None}]
    BY Zenon DEF TypeOK, SupervisorTypeOK, DriverTypeOK
  <2>2. opened \in RealHandle => todo # <<>>
    BY Zenon, ConstantsApart DEF Phases
  <2>3. todo # <<>> => 1 \in 1..Len(todo)
    BY <2>1
  <2> QED BY Zenon, <2>1, <2>2, <2>3 DEF TypeOK, LinkTypeOK
<1>1. ASSUME opened' = None \/ opened' = Failed \/ session' = FALSE PROVE OpenedAt'
  BY Zenon, <1>1, ConstantsApart DEF OpenedAt
<1>2. ASSUME UNCHANGED <<todo, table, session>>, opened' = opened \/ opened' = Failed PROVE OpenedAt'
  BY Zenon, <1>2, ConstantsApart DEF OpenedAt
<1>3. CASE begin_session
  <2>1. todo' = todo /\ todo[1] = TheSession
    BY Zenon, <1>3, OpeningMail DEF begin_session, Received
  <2> QED BY Zenon, <2>1 DEF OpenedAt
<1>4. CASE attach_link
  <2>1. CASE session
    <3>1. Mail.l \in Link /\ \A g \in RealHandle : table[g] # Mail.l
      BY Zenon, <1>4, AttachMail DEF attach_link
    <3>2. /\ table' = [table EXCEPT ![allocate] = Mail.l] /\ session' /\ opened' = allocate
          /\ free' = IF free # <<>> THEN SubSeq(free, 1, Len(free) - 1) ELSE free
          /\ todo' = todo
      BY Zenon, <1>4, <2>1 DEF attach_link
    <3>3. allocate \in RealHandle
      BY Zenon, <2>1, <3>1, <3>2, Allocates DEF TypeOK
    <3>4. todo[1] = Mail.l
      BY Zenon, <1>4, OpeningMail DEF attach_link, Received
    <3> QED BY Zenon, <1>0, <3>2, <3>3, <3>4 DEF OpenedAt
  <2> QED BY Zenon, <1>1, <1>4, <2>1 DEF attach_link
<1>5. CASE detach_link
  <2> SUFFICES ASSUME session', opened' \in RealHandle, todo'[1] # TheSession
               PROVE  table'[opened'] = todo'[1]
    BY Zenon DEF OpenedAt
  <2>1. UNCHANGED <<session, opened, todo>> /\ inbox # <<>> /\ Mail.op = "detach"
    BY Zenon, <1>5 DEF detach_link, Received
  <2>2. opened \in RealHandle /\ table[opened] = todo[1] /\ todo[1] \in links /\ session
    BY Zenon, <1>0, <2>1 DEF OpenedAt, Attaches, StillToOpen
  <2>3. Mail = inbox[1] /\ 1 \in 1..Len(inbox)
    BY SMTT(30), <2>1, HeadMail DEF TypeOK, DriverTypeOK
  <2>4. table[Mail.h] \notin links
    BY Zenon, <2>1, <2>2, <2>3 DEF InboxHome, MailHome
  <2>5. table[opened] # None /\ session' # FALSE /\ opened # Mail.h
    BY Zenon, <1>0, <2>2, <2>4, ConstantsApart
  <2>6. table'[opened] = table[opened]
    BY Zenon, <2>2, <2>5, TableKeeps
  <2> QED BY Zenon, <2>1, <2>2, <2>6
<1>6. CASE Established \/ on_peer_end \/ OpenFailed \/ Opened
  BY Zenon, <1>1, <1>6 DEF Established, on_peer_end, OpenFailed, OpenFails, Opened
<1>7. CASE Open
  BY Zenon, <1>1, <1>2, <1>7 DEF Open, OpenFails
<1>8. CASE AttachLink
  <2>1. opened' = None
    BY Zenon, <1>8 DEF AttachLink, Phases
  <2> QED BY Zenon, <1>1, <2>1
<1>9. CASE do_close \/ ConnectionLost
  BY Zenon, <1>2, <1>9 DEF do_close, ConnectionLost, Ends
<1>10. CASE DriverDied \/ Command \/ Replay \/ send_transfer \/ DetachLink \/ CloseConnection
  BY Zenon, <1>2, <1>10 DEF DriverDied, Command, Replay, send_transfer, DetachLink, CloseConnection
<1>11. CASE Closed \/ Retry \/ give_up \/ session_send_transfer
  BY Zenon, <1>2, <1>11 DEF Closed, Retry, give_up, session_send_transfer
<1>12. CASE Application \/ Watcher \/ UNCHANGED vars
  BY Zenon, <1>2, <1>12 DEF Application, send_bytes, create_producer, detach_on_drop, close, Watcher,
     ReplyDropped, vars
<1>13. CASE Delivery \/ \E x \in stray : BrokerStoresStray(x)
  BY Zenon, <1>2, <1>13 DEF Delivery, flush_sender, BrokerStores, on_disposition, BrokerStoresStray
<1>14. ~\E k \in RealHandle : on_peer_detach(k)
  BY Zenon DEF on_peer_detach
<1> QED
  BY ZenonT(30), <1>3, <1>4, <1>5, <1>6, <1>7, <1>8, <1>9, <1>10, <1>11, <1>12, <1>13, <1>14
  DEF Next, Supervisor, Driver, Peer

(***************************************************************************)
(* The facts about the topology are kept while the broker detaches         *)
(* nothing.                                                                *)
(***************************************************************************)
LEMMA TopologyStep ==
    ASSUME TypeOK, TypeOK', Phases, Mailbox, Handles, HandleLeft, Attaches, Pending, Pending',
           Topology, [Next]_vars
    PROVE  Topology'
<1> SUFFICES ASSUME cut' = {}
             PROVE  (CopiesHome /\ PendingHome /\ Mapped /\ InboxHome /\ ReplaysLinks /\ OpenedAt)'
  BY Zenon DEF Topology
<1>1. cut = {}
  <2>1. cut \subseteq cut'
    <3>1. CASE Supervisor
      BY Zenon, <3>1 DEF Supervisor, DriverDied, Command, Replay, send_transfer, AttachLink, DetachLink,
         CloseConnection, Closed, Open, Opened, OpenFailed, Established, Retry, give_up
    <3>2. CASE Driver \/ Peer
      BY Zenon, <3>2 DEF Driver, Peer, session_send_transfer, begin_session, attach_link, detach_link,
         do_close, Ends, ConnectionLost, on_peer_end, on_peer_detach
    <3>3. CASE Application \/ Watcher \/ UNCHANGED vars
      BY Zenon, <3>3 DEF Application, send_bytes, create_producer, detach_on_drop, close, Watcher,
         ReplyDropped, vars
    <3>4. CASE Delivery \/ \E x \in stray : BrokerStoresStray(x)
      BY Zenon, <3>4 DEF Delivery, flush_sender, BrokerStores, on_disposition, BrokerStoresStray
    <3> QED BY Zenon, <3>1, <3>2, <3>3, <3>4 DEF Next
  <2> QED BY Zenon, <2>1
<1>2. CopiesHome /\ PendingHome /\ Mapped /\ InboxHome /\ ReplaysLinks /\ OpenedAt
  BY Zenon, <1>1 DEF Topology
<1>3. StillToOpen
  BY Zenon DEF Attaches
<1>4. CopiesHome' /\ PendingHome'
  BY Zenon, <1>2, CopiesHomeStep, PendingHomeStep
<1>5. Mapped' /\ InboxHome'
  BY Zenon, <1>2, MappedStep, InboxHomeStep
<1>6. ReplaysLinks' /\ OpenedAt'
  BY Zenon, <1>2, <1>3, ReplaysLinksStep, OpenedAtStep
<1> QED BY Zenon, <1>4, <1>5, <1>6

(***************************************************************************)
(* There are MaxLinks links, and as many handles.                          *)
(***************************************************************************)
LEMMA LinksFinite ==
    /\ IsFiniteSet(Link) /\ Cardinality(Link) = MaxLinks
    /\ \A c \in Nat : IsFiniteSet(0..c) /\ Cardinality(0..c) = c + 1
    /\ \A c \in Nat : IsFiniteSet(0..c - 1) /\ Cardinality(0..c - 1) = c
<1>1. \A c \in Int : 0 \in Int /\ (c >= 0 => IsFiniteSet(0..c) /\ Cardinality(0..c) = c + 1)
  BY FS_Interval
<1>2. \A c \in Nat : IsFiniteSet(0..c) /\ Cardinality(0..c) = c + 1
  BY <1>1
<1>3. \A c \in Nat : IsFiniteSet(0..c - 1) /\ Cardinality(0..c - 1) = c
  BY FS_Interval
<1> QED BY <1>2, <1>3, ConstantsAssumption DEF Link

(***************************************************************************)
(* A link that is in no table entry leaves a handle unused.                *)
(***************************************************************************)
LEMMA UsedFew ==
    ASSUME DriverTypeOK, Handles, NEW l \in Link, \A h \in RealHandle : table[h] # l
    PROVE  IsFiniteSet(UsedHandles) /\ Cardinality(UsedHandles) \in 0..MaxLinks - 1
<1> DEFINE f == [h \in UsedHandles |-> table[h]]
<1>1. f \in Injection(UsedHandles, Link \ {l})
  BY DEF DriverTypeOK, Handles, UsedHandles, Injection, IsInjective
<1>2. IsFiniteSet(Link \ {l}) /\ Cardinality(Link \ {l}) = MaxLinks - 1
  BY Zenon, LinksFinite, FS_RemoveElement
<1>3. IsFiniteSet(UsedHandles) /\ Cardinality(UsedHandles) <= MaxLinks - 1
  BY SMTT(30), <1>1, <1>2, FS_Injection
<1>4. Cardinality(UsedHandles) \in Nat
  BY <1>3, FS_CardinalityType
<1> QED BY SMTT(30), <1>3, <1>4, ConstantsAssumption

(***************************************************************************)
(* HandleAllocator gives out a handle that is not in use.                  *)
(***************************************************************************)
LEMMA NextUnused ==
    ASSUME DriverTypeOK, Handles, NEW l \in Link, \A h \in RealHandle : table[h] # l,
           free = <<>>
    PROVE  LET c == Cardinality(UsedHandles) IN
           c \in RealHandle /\ table[c] = None /\ \A g \in 0..c - 1 : table[g] # None
<1> DEFINE c == Cardinality(UsedHandles)
<1>1. IsFiniteSet(UsedHandles) /\ c \in 0..MaxLinks - 1
  BY UsedFew
<1>2. c \in RealHandle /\ c \in Nat
  BY SMTT(30), <1>1, ConstantsAssumption DEF RealHandle
<1>3. \A h \in UsedHandles : 0..h \subseteq UsedHandles
  BY SMTT(30), ConstantsAssumption DEF Handles, Taken, UsedHandles, RealHandle
<1>4. table[c] = None
  <2>1. ASSUME c \in UsedHandles PROVE FALSE
    <3>1. 0..c \subseteq UsedHandles
      BY SMTT(30), <1>3, <2>1
    <3>2. Cardinality(0..c) <= c
      BY SMTT(30), <1>1, <3>1, FS_Subset
    <3>3. Cardinality(0..c) = c + 1
      BY <1>2, LinksFinite
    <3> QED BY SMTT(30), <1>2, <3>2, <3>3
  <2> QED BY SMTT(30), <1>2, <2>1 DEF UsedHandles
<1>5. ASSUME NEW g \in 0..c - 1 PROVE table[g] # None
  <2>1. g \in RealHandle /\ g \in Nat
    BY <1>1, <1>2, ConstantsAssumption DEF RealHandle
  <2>2. ASSUME g \notin UsedHandles PROVE FALSE
    <3>1. UsedHandles \subseteq 0..g - 1
      <4>1. ASSUME NEW h \in UsedHandles, h >= g PROVE FALSE
        <5>1. g \in 0..h
          BY <2>1, <4>1 DEF UsedHandles, RealHandle
        <5> QED BY SMTT(30), <1>3, <2>2, <4>1, <5>1
      <4> QED BY <2>1, <4>1, ConstantsAssumption DEF UsedHandles, RealHandle
    <3>2. c <= Cardinality(0..g - 1)
      BY Zenon, <2>1, <3>1, LinksFinite, FS_Subset
    <3>3. Cardinality(0..g - 1) = g
      BY <2>1, LinksFinite
    <3> QED BY SMTT(30), <1>2, <2>1, <3>2, <3>3
  <2> QED BY <2>1, <2>2 DEF UsedHandles
<1> QED BY SMTT(30), <1>2, <1>4, <1>5

(***************************************************************************)
(* HandleAllocator has a handle for a link that is not attached.           *)
(***************************************************************************)
LEMMA UnusedLeft == ASSUME DriverTypeOK, Handles PROVE HandleLeft
<1> SUFFICES ASSUME NEW l \in Link, \A h \in RealHandle : table[h] # l, free = <<>>
             PROVE  LET c == Cardinality(UsedHandles) IN
                    c \in RealHandle /\ table[c] = None /\ \A g \in 0..c - 1 : table[g] # None
  BY Zenon DEF HandleLeft
<1> QED BY Zenon, NextUnused

-----------------------------------------------------------------------------
(* The invariant is inductive.                                             *)

(***************************************************************************)
(* An application starts with some producers attached.                     *)
(***************************************************************************)
LEMMA Initially == Init => Inv
<1> SUFFICES ASSUME Init PROVE Inv
  OBVIOUS
<1>0. None \notin Int /\ MaxLinks \in Nat \ {0} /\ Attached \in 0..MaxLinks
  BY Zenon, ConstantsAssumption
<1>1. TypeOK
  <2>1. SupervisorTypeOK
    BY ConstantsAssumption DEF Init, SupervisorTypeOK
  <2>2. DriverTypeOK
    BY <1>0 DEF Init, DriverTypeOK, RealHandle, Link
  <2>3. LinkTypeOK
    BY <1>0 DEF Init, LinkTypeOK, RealHandle, Link
  <2>4. HistoryTypeOK
    BY ConstantsAssumption DEF Init, HistoryTypeOK
  <2> QED BY Zenon, <2>1, <2>2, <2>3, <2>4 DEF TypeOK
<1>2. Phases
  BY DEF Init, Phases
<1>3. Mailbox
  BY DEF Init, Mailbox, OneOpening, Quiet, Reopening
<1>4. Handles
  BY <1>0 DEF Init, Handles, Taken, RealHandle
<1>5. Attaches
  <2>1. ASSUME NEW l \in Link PROVE AttachOnce(l)
    BY DEF Init, AttachOnce, Has, Single, NoCmd, AttachCmd
  <2>2. ASSUME NEW l \in Link PROVE NotYet(l)
    BY <1>0 DEF Init, NotYet, RealHandle, Link
  <2>3. StillToOpen
    BY DEF Init, StillToOpen
  <2> QED BY Zenon, <2>1, <2>2, <2>3 DEF Attaches
<1>6. Located
  <2> SUFFICES ASSUME NEW s \in Sends PROVE InOnePlace(s)
    BY Zenon DEF Located
  <2>1. At(s, "none")
    BY DEF Init, At, Has, InPending, Waiting, NoCmd, SendCmd
  <2>2. /\ Single(cmds, {SendCmd(s)}) /\ Single(replays, {s}) /\ Single(inbox, SendMail(s))
        /\ answer[s] = "none"
    BY DEF Init, Single
  <2> QED BY Zenon, <2>1, <2>2 DEF InOnePlace, Area
<1>7. Pending
  BY DEF Init, Pending, OkMeansStored
<1>8. Topology
  <2>1. CopiesHome /\ PendingHome /\ InboxHome /\ ReplaysLinks
    BY DEF Init, CopiesHome, PendingHome, InboxHome, ReplaysLinks
  <2>2. Mapped
    BY <1>0 DEF Init, Mapped, AttachedAt, RealHandle, Link
  <2>3. OpenedAt
    BY <1>0 DEF Init, OpenedAt, RealHandle
  <2> QED BY Zenon, <2>1, <2>2, <2>3 DEF Topology
<1> QED BY ZenonT(30), <1>1, <1>2, <1>3, <1>4, <1>5, <1>6, <1>7, <1>8 DEF Inv

(***************************************************************************)
(* Every step of the application, supervisor, driver, peer and broker      *)
(* keeps the invariant.                                                    *)
(***************************************************************************)
LEMMA Inductive == Inv /\ [Next]_vars => Inv'
<1> SUFFICES ASSUME Inv, [Next]_vars PROVE Inv'
  OBVIOUS
<1>0. TypeOK /\ Phases /\ Mailbox /\ Handles /\ Attaches /\ Located /\ Pending /\ Topology
  BY Zenon DEF Inv
<1>1. HandleLeft
  BY Zenon, <1>0, UnusedLeft DEF TypeOK
<1>2. TypeOK'
  BY Zenon, <1>0, <1>1, TypeStep
<1>3. Phases'
  BY Zenon, <1>0, PhasesStep
<1>4. Mailbox'
  BY Zenon, <1>0, MailboxStep
<1>5. Handles'
  BY Zenon, <1>0, <1>1, HandlesStep
<1>6. Attaches'
  BY ZenonT(30), <1>0, <1>1, <1>2, <1>3, <1>4, AttachesStep
<1>7. Located'
  BY Zenon, <1>0, <1>2, LocatedStep DEF Located
<1>8. Pending'
  BY Zenon, <1>0, <1>1, PendingStep
<1>9. Topology'
  BY ZenonT(30), <1>0, <1>1, <1>2, <1>8, TopologyStep
<1> QED BY ZenonT(30), <1>2, <1>3, <1>4, <1>5, <1>6, <1>7, <1>8, <1>9 DEF Inv

(***************************************************************************)
(* Whatever dies when, the state is one that Inv allows.                   *)
(***************************************************************************)
THEOREM Invariant == Spec => []Inv
BY Initially, Inductive, PTL DEF Spec

-----------------------------------------------------------------------------
(* A send that is in one area is in one place.                             *)

(***************************************************************************)
(* A send that is in one area is in one place, and an answered one in      *)
(* none.                                                                   *)
(***************************************************************************)
LEMMA OnePlace ==
    ASSUME TypeOK, Pending, NEW s \in Sends, InOnePlace(s)
    PROVE  Cardinality(Places(s)) = IF s \in issued /\ answer[s] = "none" THEN 1 ELSE 0
<1> DEFINE C == {<<"cmds", i>> : i \in {j \in DOMAIN cmds : cmds[j] = [op |-> "send", s |-> s]}}
           R == {<<"replays", i>> : i \in {j \in DOMAIN replays : replays[j] = s}}
           I == {<<"inbox", i>> :
                    i \in {j \in DOMAIN inbox : inbox[j].op = "send" /\ inbox[j].s = s}}
           P == {<<"pending", p.h>> : p \in {q \in pending : q.s = s}}
           L == IF s \in lost THEN {<<"lost", 0>>} ELSE {}
           U == IF cur = [op |-> "send", s |-> s] THEN {<<"cur", 0>>} ELSE {}
<1>1. PICK w \in Area : At(s, w)
  BY Zenon DEF InOnePlace
<1>2. /\ DOMAIN cmds = 1..Len(cmds) /\ DOMAIN replays = 1..Len(replays)
      /\ DOMAIN inbox = 1..Len(inbox)
  BY DEF TypeOK, SupervisorTypeOK, DriverTypeOK
<1>3. (Has(cmds, {SendCmd(s)}) => \E x : C = {x}) /\ (~Has(cmds, {SendCmd(s)}) => C = {})
  <2> DEFINE D == {j \in DOMAIN cmds : cmds[j] = [op |-> "send", s |-> s]}
  <2>1. \A j : j \in D <=> j \in 1..Len(cmds) /\ cmds[j] \in {SendCmd(s)}
    BY Zenon, <1>2 DEF SendCmd
  <2>2. C = {<<"cmds", i>> : i \in D}
    OBVIOUS
  <2> HIDE DEF C, D
  <2>3. (Has(cmds, {SendCmd(s)}) <=> D # {}) /\ \A i, j \in D : i = j
    BY ZenonT(30), <2>1 DEF Has, Single, InOnePlace
  <2>4. ASSUME NEW i \in D PROVE C = {<<"cmds", i>>}
    <3>1. \A j \in D : j = i
      BY Zenon, <2>3
    <3> QED BY SMTT(30), <2>2, <3>1
  <2>5. D = {} => C = {}
    BY <2>2
  <2> QED BY ZenonT(30), <2>3, <2>4, <2>5
<1>4. (Has(replays, {s}) => \E x : R = {x}) /\ (~Has(replays, {s}) => R = {})
  <2> DEFINE D == {j \in DOMAIN replays : replays[j] = s}
  <2>1. \A j : j \in D <=> j \in 1..Len(replays) /\ replays[j] \in {s}
    BY Zenon, <1>2
  <2>2. R = {<<"replays", i>> : i \in D}
    OBVIOUS
  <2> HIDE DEF R, D
  <2>3. (Has(replays, {s}) <=> D # {}) /\ \A i, j \in D : i = j
    BY Zenon, <2>1 DEF Has, Single, InOnePlace
  <2>4. ASSUME NEW i \in D PROVE R = {<<"replays", i>>}
    <3>1. \A j \in D : j = i
      BY Zenon, <2>3
    <3> QED BY SMTT(30), <2>2, <3>1
  <2>5. D = {} => R = {}
    BY SMTT(30), <2>2
  <2> QED BY ZenonT(30), <2>3, <2>4, <2>5
<1>5. (Has(inbox, SendMail(s)) => \E x : I = {x}) /\ (~Has(inbox, SendMail(s)) => I = {})
  <2> DEFINE D == {j \in DOMAIN inbox : inbox[j].op = "send" /\ inbox[j].s = s}
  <2>1. \A j \in 1..Len(inbox) : inbox[j].op = "send" /\ inbox[j].s = s <=> inbox[j] \in SendMail(s)
    <3>1. \A j \in 1..Len(inbox) : inbox[j] \in Inner
      BY DEF TypeOK, DriverTypeOK
    <3> QED BY SMTT(30), <3>1 DEF SendMail, Inner
  <2>2. \A j : j \in D <=> j \in 1..Len(inbox) /\ inbox[j] \in SendMail(s)
    BY ZenonT(30), <1>2, <2>1
  <2>3. I = {<<"inbox", i>> : i \in D}
    OBVIOUS
  <2> HIDE DEF I, D
  <2>4. (Has(inbox, SendMail(s)) <=> D # {}) /\ \A i, j \in D : i = j
    BY Zenon, <2>2 DEF Has, Single, InOnePlace
  <2>5. ASSUME NEW i \in D PROVE I = {<<"inbox", i>>}
    <3>1. \A j \in D : j = i
      BY Zenon, <2>4
    <3> QED BY SMTT(30), <2>3, <3>1
  <2>6. D = {} => I = {}
    BY <2>3
  <2> QED BY ZenonT(30), <2>4, <2>5, <2>6
<1>6. (InPending(s) => \E x : P = {x}) /\ (~InPending(s) => P = {})
  <2>1. ~InPending(s) => P = {}
    BY DEF InPending
  <2>2. ASSUME NEW p \in pending, p.s = s PROVE P = {<<"pending", p.h>>}
    <3>1. \A q \in pending : q.s = s => q = p
      BY Zenon, <2>2 DEF Pending
    <3> QED BY SMTT(30), <2>2, <3>1
  <2> HIDE DEF P
  <2> QED BY Zenon, <2>1, <2>2 DEF InPending
<1>7. (s \in lost => \E x : L = {x}) /\ (s \notin lost => L = {})
  BY Zenon
<1>8. (cur = SendCmd(s) => \E x : U = {x}) /\ (cur # SendCmd(s) => U = {})
  BY Zenon DEF SendCmd
<1>9. Places(s) = C \cup R \cup I \cup P \cup L \cup U
  BY Zenon DEF Places
<1> HIDE DEF C, R, I, P, L, U
<1>10. /\ C # {} => w = "cmds" /\ \E x : C = {x}
       /\ R # {} => w = "replays" /\ \E x : R = {x}
       /\ I # {} => w = "inbox" /\ \E x : I = {x}
       /\ P # {} => w = "pending" /\ \E x : P = {x}
       /\ L # {} => w = "lost" /\ \E x : L = {x}
       /\ U # {} => w = "cur" /\ \E x : U = {x}
       /\ w # "none" => C # {} \/ R # {} \/ I # {} \/ P # {} \/ L # {} \/ U # {}
  <2>1. \A x, X : X = {x} => X # {}
    BY Zenon
  <2> QED BY ZenonT(30), <1>1, <1>3, <1>4, <1>5, <1>6, <1>7, <1>8, <2>1 DEF At, Area
<1>11. (w = "none" => Places(s) = {}) /\ (w # "none" => \E x : Places(s) = {x})
  <2>1. CASE w = "none"
    <3>1. C = {} /\ R = {} /\ I = {} /\ P = {} /\ L = {} /\ U = {}
      BY SMTT(30), <1>10, <2>1
    <3> QED BY SMTT(30), <1>9, <2>1, <3>1
  <2>2. CASE C # {}
    <3>1. R = {} /\ I = {} /\ P = {} /\ L = {} /\ U = {} /\ w # "none"
      BY SMTT(30), <1>10, <2>2
    <3>2. Places(s) = C
      BY SMTT(30), <1>9, <3>1
    <3> QED BY ZenonT(30), <1>10, <2>2, <3>1, <3>2
  <2>3. CASE R # {}
    <3>1. C = {} /\ I = {} /\ P = {} /\ L = {} /\ U = {} /\ w # "none"
      BY SMTT(30), <1>10, <2>3
    <3>2. Places(s) = R
      BY SMTT(30), <1>9, <3>1
    <3> QED BY ZenonT(30), <1>10, <2>3, <3>1, <3>2
  <2>4. CASE I # {}
    <3>1. C = {} /\ R = {} /\ P = {} /\ L = {} /\ U = {} /\ w # "none"
      BY SMTT(30), <1>10, <2>4
    <3>2. Places(s) = I
      BY SMTT(30), <1>9, <3>1
    <3> QED BY ZenonT(30), <1>10, <2>4, <3>1, <3>2
  <2>5. CASE P # {}
    <3>1. C = {} /\ R = {} /\ I = {} /\ L = {} /\ U = {} /\ w # "none"
      BY SMTT(30), <1>10, <2>5
    <3>2. Places(s) = P
      BY SMTT(30), <1>9, <3>1
    <3> QED BY ZenonT(30), <1>10, <2>5, <3>1, <3>2
  <2>6. CASE L # {}
    <3>1. C = {} /\ R = {} /\ I = {} /\ P = {} /\ U = {} /\ w # "none"
      BY SMTT(30), <1>10, <2>6
    <3>2. Places(s) = L
      BY SMTT(30), <1>9, <3>1
    <3> QED BY ZenonT(30), <1>10, <2>6, <3>1, <3>2
  <2>7. CASE U # {}
    <3>1. C = {} /\ R = {} /\ I = {} /\ P = {} /\ L = {} /\ w # "none"
      BY SMTT(30), <1>10, <2>7
    <3>2. Places(s) = U
      BY SMTT(30), <1>9, <3>1
    <3> QED BY ZenonT(30), <1>10, <2>7, <3>1, <3>2
  <2> QED BY ZenonT(30), <1>10, <2>1, <2>2, <2>3, <2>4, <2>5, <2>6, <2>7
<1>12. Waiting(s) <=> w # "none"
  BY Zenon, <1>1 DEF At
<1>13. CASE w = "none"
  <2>1. Cardinality(Places(s)) = 0
    BY ZenonT(30), <1>11, <1>13, FS_EmptySet
  <2> QED BY ZenonT(30), <1>12, <1>13, <2>1 DEF Waiting
<1>14. CASE w # "none"
  <2>1. Cardinality(Places(s)) = 1
    BY ZenonT(30), <1>11, <1>14, FS_Singleton
  <2> QED BY ZenonT(30), <1>12, <1>14, <2>1 DEF Waiting
<1> QED BY Zenon, <1>13, <1>14

(***************************************************************************)
(* No send is forgotten and none is sent again after its caller has been   *)
(* told: a send whose caller waits is in exactly one of the supervisor's   *)
(* channels, the driver's mailbox, its session and the watchers, and one   *)
(* answered Ok is at the broker.                                           *)
(***************************************************************************)
THEOREM SendsAreAccounted == Spec => []SendsAccounted
<1>1. Inv => SendsAccounted
  <2> SUFFICES ASSUME Inv PROVE TypeOK /\ SendAccounted /\ OkMeansStored
    BY Zenon DEF SendsAccounted
  <2>1. TypeOK /\ Pending /\ \A s \in Sends : InOnePlace(s)
    BY Zenon DEF Inv, Located
  <2>2. SendAccounted
    BY ZenonT(30), <2>1, OnePlace DEF SendAccounted
  <2> QED BY Zenon, <2>1, <2>2 DEF Pending
<1> QED BY Invariant, <1>1, PTL

(***************************************************************************)
(* After a reconnect every logical link is attached where the supervisor   *)
(* sends its messages, so each message goes to the target of its own       *)
(* producer, handles reused or not, unless the broker detached a link.     *)
(***************************************************************************)
THEOREM TopologyIsRestored == Spec => []TopologyRestored
<1>1. Inv => TopologyRestored
  <2> SUFFICES ASSUME Inv, cut = {}
               PROVE  /\ pc = "select" /\ driver = "up" /\ session =>
                            \A l \in links : real_handle[l] # None /\ table[real_handle[l]] = l
                      /\ \A x \in stored : x[2] = link_of[x[1]]
    BY Zenon DEF TopologyRestored
  <2>1. Phases /\ CopiesHome /\ Mapped
    BY Zenon DEF Inv, Topology
  <2>2. ASSUME pc = "select", driver = "up", session, NEW l \in links
        PROVE  real_handle[l] # None /\ table[real_handle[l]] = l
    <3>1. todo = <<>>
      BY Zenon, <2>1, <2>2 DEF Phases
    <3>2. ~ToOpen(l)
      BY <3>1 DEF ToOpen
    <3>3. AttachedAt(l)
      BY ZenonT(30), <2>1, <2>2, <3>2 DEF Mapped
    <3>4. None \notin RealHandle
      BY ConstantsAssumption DEF RealHandle
    <3> QED BY Zenon, <3>3, <3>4 DEF AttachedAt
  <2> QED BY Zenon, <2>1, <2>2 DEF CopiesHome
<1> QED BY Invariant, <1>1, PTL
=============================================================================
