---------------------------- MODULE Transparent ----------------------------
(***************************************************************************)
(* The client's reconnect supervisor (resilience/transparent.rs) between   *)
(* the application's producers and a real connection driver, with the      *)
(* session of that driver and the broker at the other end.                 *)
(*                                                                         *)
(* One logical session with sender links.  A send is one awaited           *)
(* producer.send(); a link is its virtual handle, which is never reused,   *)
(* while the driver's handles are.                                         *)
(***************************************************************************)
EXTENDS Integers, Sequences, FiniteSets

CONSTANTS
    MaxLinks,       \* bound: links attached over the life of the session
    Attached,       \* how many are attached to begin with
    Sends,          \* the sends of the application
    link_of,        \* the producer of each send
    MaxRetries,     \* ReconnectConfig.max_retries
    MaxEpochs,      \* bound: connections established
    None

ASSUME ConstantsAssumption ==
    /\ MaxLinks \in Nat \ {0} /\ Attached \in 0..MaxLinks
    /\ link_of \in [Sends -> 0..MaxLinks - 1]
    /\ MaxRetries \in Nat /\ MaxEpochs \in Nat \ {0}
    /\ None \notin Int

VARIABLES
    pc, cur, todo,              \* the supervisor: where it is, its command, what to open
    attempt,                    \* Backoff.attempt
    cmds, replays,              \* commands_rx, replay_rx
    links, real_handle,         \* LogicalSession.links and their real handles
    driver, inbox, opened,      \* inner and driver_join: its mailbox, its reply to an open
    session, table, free,       \* the driver's session: links by handle, freed handles
    pending,                    \* sends in a link's outbox or awaiting a disposition
    lost,                       \* sends whose reply was dropped by the driver
    producer, issued, answer,   \* the application's side
    epoch, stray, stored, cut   \* history: connections, copies on the wire, broker, detached links

supervisor == <<pc, cur, todo, attempt>>
channels == <<cmds, replays>>
logical == <<links, real_handle>>
conn == <<driver, inbox, opened, session, table, free, pending>>
app == <<producer, issued, answer>>
broker == <<stray, stored, cut>>
vars == <<supervisor, channels, logical, conn, lost, app, epoch, broker>>

Link == 0..MaxLinks - 1
RealHandle == 0..MaxLinks - 1
TheSession == -1
NoCmd == [op |-> "none"]
Cmd == [op : {"send"}, s : Sends] \cup [op : {"attach", "detach"}, l : Link]
       \cup [op : {"close"}]
Inner == [op : {"send"}, h : RealHandle, s : Sends] \cup [op : {"begin", "close"}]
         \cup [op : {"attach"}, l : Link] \cup [op : {"detach"}, h : RealHandle]
Unsettled == [s : Sends, h : RealHandle, at : {"outbox", "wire", "stored"}]

\* the ways to list a set of links in ascending order: there is exactly one
Ascending(S) ==
    {q \in UNION {[1..n -> S] : n \in 0..MaxLinks} :
        /\ \A i, j \in DOMAIN q : i < j => q[i] < q[j]
        /\ \A l \in S : \E i \in DOMAIN q : q[i] = l}

EmptyTable == [h \in RealHandle |-> None]

Init ==
    /\ pc = "select" /\ cur = NoCmd /\ todo = <<>> /\ attempt = 0
    /\ cmds = <<>> /\ replays = <<>>
    /\ links = 0..Attached - 1
    /\ real_handle = [l \in Link |-> IF l < Attached THEN l ELSE None]
    /\ driver = "up" /\ inbox = <<>> /\ opened = None
    /\ session = TRUE /\ free = <<>> /\ pending = {}
    /\ table = [h \in RealHandle |-> IF h < Attached THEN h ELSE None]
    /\ lost = {}
    /\ producer = [l \in Link |-> IF l < Attached THEN "open" ELSE "none"]
    /\ issued = {} /\ answer = [s \in Sends |-> "none"]
    /\ epoch = 1 /\ stray = {} /\ stored = {} /\ cut = {}

-----------------------------------------------------------------------------
(* The application: producers and their sends.                             *)

Answered(S, a) == [s \in Sends |-> IF s \in S THEN a ELSE answer[s]]

(***************************************************************************)
(* Producer::send: a command for the supervisor, an error once it is gone. *)
(***************************************************************************)
send_bytes(s) ==
    /\ s \notin issued /\ producer[link_of[s]] = "open"
    /\ issued' = issued \cup {s}
    /\ IF pc = "stopped"
       THEN answer' = Answered({s}, "err") /\ UNCHANGED cmds
       ELSE cmds' = Append(cmds, [op |-> "send", s |-> s]) /\ UNCHANGED answer
    /\ UNCHANGED <<supervisor, replays, logical, conn, lost, producer, epoch, broker>>

create_producer(l) ==
    /\ producer[l] = "none" /\ \A k \in 0..l - 1 : producer[k] # "none"
    /\ pc # "stopped"
    /\ producer' = [producer EXCEPT ![l] = "attaching"]
    /\ cmds' = Append(cmds, [op |-> "attach", l |-> l])
    /\ UNCHANGED <<supervisor, replays, logical, conn, lost, issued, answer, epoch, broker>>

(***************************************************************************)
(* Drop for Producer, and Producer::detach.                                *)
(***************************************************************************)
detach_on_drop(l) ==
    /\ producer[l] = "open" /\ pc # "stopped"
    /\ \A s \in issued : link_of[s] = l => answer[s] # "none"
    /\ producer' = [producer EXCEPT ![l] = "dropped"]
    /\ cmds' = Append(cmds, [op |-> "detach", l |-> l])
    /\ UNCHANGED <<supervisor, replays, logical, conn, lost, issued, answer, epoch, broker>>

close ==
    /\ pc # "stopped" /\ \A i \in DOMAIN cmds : cmds[i].op # "close"
    /\ cur.op # "close"
    /\ cmds' = Append(cmds, [op |-> "close"])
    /\ UNCHANGED <<supervisor, replays, logical, conn, lost, app, epoch, broker>>

-----------------------------------------------------------------------------
(* The supervisor.                                                         *)

real_ids(l) == IF l \in links THEN real_handle[l] ELSE None

(***************************************************************************)
(* run ends: what is left in the two channels is dropped, and with it the  *)
(* replies that the callers wait for.                                      *)
(***************************************************************************)
Stop ==
    /\ pc' = "stopped"
    /\ answer' = Answered({s \in Sends :
                              \/ \E i \in DOMAIN cmds : cmds[i] = [op |-> "send", s |-> s]
                              \/ \E i \in DOMAIN replays : replays[i] = s}, "err")
    /\ cmds' = <<>> /\ replays' = <<>>

(***************************************************************************)
(* The biased select: the end of the driver before commands before         *)
(* replays.                                                                *)
(***************************************************************************)
DriverDied ==
    /\ pc = "select" /\ driver = "dead"
    /\ driver' = "none" /\ pc' = "reconnect" /\ attempt' = 0
    /\ UNCHANGED <<cur, todo, channels, logical, inbox, opened, session, table, free,
                   pending, lost, app, epoch, broker>>

Command ==
    /\ pc = "select" /\ driver = "up" /\ cmds # <<>>
    /\ cur' = Head(cmds) /\ cmds' = Tail(cmds) /\ pc' = "handle"
    /\ UNCHANGED <<todo, attempt, replays, logical, conn, lost, app, epoch, broker>>

\* Variant: replays are taken only without a driver.
ReplaysWithoutDriver == driver = "none" /\ cmds = <<>> /\ replays # <<>>
ReplaysDue == driver = "up" /\ cmds = <<>> /\ replays # <<>>

Replay ==
    /\ pc = "select" /\ ReplaysDue
    /\ cur' = [op |-> "send", s |-> Head(replays)] /\ replays' = Tail(replays)
    /\ pc' = "handle"
    /\ UNCHANGED <<todo, attempt, cmds, logical, conn, lost, app, epoch, broker>>

Select == pc' = "select" /\ cur' = NoCmd

\* inner.send: fails when the driver has ended meanwhile
ToDriver(m) == driver = "up" /\ inbox' = Append(inbox, m)

\* Variant: the caller is told, and the send is replayed as well.
NotConnectedReplayed(s) ==
    answer' = Answered({s}, "err") /\ replays' = Append(replays, s)
NotConnected(s) == answer' = Answered({s}, "err") /\ UNCHANGED replays

send_transfer ==
    /\ pc = "handle" /\ cur.op = "send"
    /\ LET h == real_ids(link_of[cur.s]) IN
       \/ /\ h # None /\ ToDriver([op |-> "send", h |-> h, s |-> cur.s])
          /\ UNCHANGED <<answer, replays>>
       \/ /\ h = None \/ driver # "up"
          /\ NotConnected(cur.s) /\ UNCHANGED inbox
    /\ Select
    /\ UNCHANGED <<todo, attempt, cmds, logical, driver, opened, session, table,
                   free, pending, lost, producer, issued, epoch, broker>>

AttachLink ==
    /\ pc = "handle" /\ cur.op = "attach"
    /\ links' = links \cup {cur.l}
    /\ pc' = "open" /\ todo' = <<cur.l>>
    /\ UNCHANGED <<cur, attempt, channels, real_handle, conn, lost, app, epoch, broker>>

DetachLink ==
    /\ pc = "handle" /\ cur.op = "detach"
    /\ LET h == real_ids(cur.l) IN
       \/ h # None /\ ToDriver([op |-> "detach", h |-> h])
       \/ (h = None \/ driver # "up") /\ UNCHANGED inbox
    /\ links' = links \ {cur.l}
    /\ Select
    /\ UNCHANGED <<todo, attempt, channels, real_handle, driver, opened, session, table,
                   free, pending, lost, app, epoch, broker>>

(***************************************************************************)
(* CloseConnection, and shutdown when every handle is gone: the driver is  *)
(* asked to close and the supervisor waits for its end.                    *)
(***************************************************************************)
CloseConnection ==
    /\ pc = "handle" /\ cur.op = "close"
    /\ \/ ToDriver([op |-> "close"])
       \/ driver # "up" /\ UNCHANGED inbox
    /\ pc' = "closing"
    /\ UNCHANGED <<cur, todo, attempt, channels, logical, driver, opened, session, table,
                   free, pending, lost, app, epoch, broker>>

Closed ==
    /\ pc = "closing" /\ driver = "dead"
    /\ Stop
    /\ UNCHANGED <<cur, todo, attempt, logical, conn, lost, producer, issued, epoch, broker>>

-----------------------------------------------------------------------------
(* Opening the session and links, for a command or on a new connection.    *)

Failed == -1
Attaching == cur.op = "attach"

(***************************************************************************)
(* A command's link is forgotten and the caller told; a new connection is  *)
(* dropped and the next one tried at once.                                 *)
(***************************************************************************)
OpenFails ==
    /\ todo' = <<>> /\ opened' = None
    /\ IF Attaching
       THEN /\ links' = links \ {cur.l}
            /\ producer' = [producer EXCEPT ![cur.l] = "failed"]
            /\ Select
            /\ UNCHANGED driver
       ELSE driver' = "none" /\ pc' = "reconnect" /\ UNCHANGED <<cur, links, producer>>

Open ==
    /\ pc = "open"
    /\ \/ /\ ToDriver(IF Head(todo) = TheSession THEN [op |-> "begin"]
                      ELSE [op |-> "attach", l |-> Head(todo)])
          /\ pc' = "opening"
          /\ UNCHANGED <<cur, todo, links, producer, driver, opened>>
       \/ driver # "up" /\ OpenFails /\ UNCHANGED inbox
    /\ UNCHANGED <<attempt, channels, real_handle, session, table, free, pending, lost,
                   issued, answer, epoch, broker>>

Opened ==
    /\ pc = "opening" /\ opened \in RealHandle
    /\ opened' = None /\ todo' = Tail(todo)
    /\ real_handle' = IF Head(todo) = TheSession THEN real_handle
                      ELSE [real_handle EXCEPT ![Head(todo)] = opened]
    /\ producer' = IF Attaching THEN [producer EXCEPT ![cur.l] = "open"] ELSE producer
    /\ IF todo' = <<>> THEN Select ELSE pc' = "open" /\ UNCHANGED cur
    /\ UNCHANGED <<attempt, channels, links, driver, inbox, session, table, free, pending,
                   lost, issued, answer, epoch, broker>>

OpenFailed ==
    /\ pc = "opening" /\ opened = Failed
    /\ OpenFails
    /\ UNCHANGED <<attempt, channels, real_handle, inbox, session, table, free, pending,
                   lost, issued, answer, epoch, broker>>

-----------------------------------------------------------------------------
(* reconnect                                                               *)

\* Variant: only the sessions are opened again.
SessionsOnly == {<<TheSession>>}
replay_topology == {<<TheSession>> \o q : q \in Ascending(links)}

Established ==
    /\ pc = "reconnect" /\ epoch < MaxEpochs
    /\ epoch' = epoch + 1
    /\ driver' = "up" /\ inbox' = <<>> /\ opened' = None
    /\ session' = FALSE /\ table' = EmptyTable /\ free' = <<>>
    /\ pc' = "open" /\ todo' \in replay_topology
    /\ UNCHANGED <<cur, attempt, channels, logical, pending, lost, app, broker>>

next_delay == attempt < MaxRetries

\* a retryable failure, while there is a delay to give
Retry ==
    /\ pc = "reconnect" /\ next_delay
    /\ attempt' = attempt + 1
    /\ UNCHANGED <<pc, cur, todo, channels, logical, conn, lost, app, epoch, broker>>

\* the budget is used up, or the failure is not retryable
give_up ==
    /\ pc = "reconnect"
    /\ Stop
    /\ UNCHANGED <<cur, todo, attempt, logical, conn, lost, producer, issued, epoch, broker>>

-----------------------------------------------------------------------------
(* The driver and its session.                                             *)

OfLink(h) == {p \in pending : p.h = h}

(***************************************************************************)
(* Sends that the driver drops: the reply channels close; a transfer that  *)
(* is already on the wire may or may not reach the broker.                 *)
(***************************************************************************)
Dropped(P, queued) ==
    /\ lost' = lost \cup {p.s : p \in P} \cup queued
    /\ pending' = pending \ P
    /\ \E W \in SUBSET {p \in P : p.at = "wire"} :
          stray' = stray \cup {<<p.s, table[p.h]>> : p \in W}

forget_link(h) ==
    /\ table' = [table EXCEPT ![h] = None]
    /\ free' = Append(free, h)
    /\ Dropped(OfLink(h), {})

\* HandleAllocator: the handle freed last, else the next unused one
allocate == IF free # <<>> THEN free[Len(free)]
            ELSE Cardinality({h \in RealHandle : table[h] # None})

Mail == Head(inbox)
Received(op) == driver = "up" /\ inbox # <<>> /\ Mail.op = op

session_send_transfer ==
    /\ Received("send") /\ inbox' = Tail(inbox)
    /\ IF session /\ table[Mail.h] # None
       THEN /\ pending' = pending \cup {[s |-> Mail.s, h |-> Mail.h, at |-> "outbox"]}
            /\ UNCHANGED answer
       ELSE answer' = Answered({Mail.s}, "err") /\ UNCHANGED pending
    /\ UNCHANGED <<supervisor, channels, logical, driver, opened, session, table, free,
                   lost, producer, issued, epoch, broker>>

begin_session ==
    /\ Received("begin") /\ inbox' = Tail(inbox)
    /\ session' = TRUE /\ opened' = 0
    /\ UNCHANGED <<supervisor, channels, logical, driver, table, free, pending, lost, app,
                   epoch, broker>>

attach_link ==
    /\ Received("attach") /\ inbox' = Tail(inbox)
    /\ IF session
       THEN /\ opened' = allocate
            /\ table' = [table EXCEPT ![allocate] = Mail.l]
            /\ free' = IF free # <<>> THEN SubSeq(free, 1, Len(free) - 1) ELSE free
       ELSE opened' = Failed /\ UNCHANGED <<table, free>>
    /\ UNCHANGED <<supervisor, channels, logical, driver, session, pending, lost, app,
                   epoch, broker>>

detach_link ==
    /\ Received("detach") /\ inbox' = Tail(inbox)
    /\ IF session /\ table[Mail.h] # None
       THEN forget_link(Mail.h)
       ELSE UNCHANGED <<table, free, lost, pending, stray>>
    /\ UNCHANGED <<supervisor, channels, logical, driver, opened, session, app, epoch,
                   stored, cut>>

(***************************************************************************)
(* The driver's task ends: its mailbox, its sessions and every reply they  *)
(* hold are dropped.                                                       *)
(***************************************************************************)
Ends ==
    /\ driver' = "dead"
    /\ opened' = IF pc = "opening" /\ opened = None THEN Failed ELSE opened
    /\ Dropped(pending, {inbox[i].s : i \in {j \in DOMAIN inbox : inbox[j].op = "send"}})
    /\ inbox' = <<>>
    /\ UNCHANGED <<supervisor, channels, logical, session, table, free, app, epoch, stored, cut>>

do_close == Received("close") /\ Ends

\* the network fails, the peer times out or closes
ConnectionLost == driver = "up" /\ epoch < MaxEpochs /\ Ends

on_peer_detach(h) ==
    /\ driver = "up" /\ session /\ table[h] # None
    /\ forget_link(h)
    /\ cut' = cut \cup {table[h]}
    /\ UNCHANGED <<supervisor, channels, logical, driver, inbox, opened, session, app,
                   epoch, stored>>

on_peer_end ==
    /\ driver = "up" /\ session /\ epoch < MaxEpochs
    /\ session' = FALSE /\ table' = EmptyTable /\ free' = <<>>
    /\ Dropped(pending, {})
    /\ UNCHANGED <<supervisor, channels, logical, driver, inbox, opened, app, epoch,
                   stored, cut>>

NoReply(s) ==
    IF pc = "stopped"
    THEN answer' = Answered({s}, "err") /\ UNCHANGED replays
    ELSE replays' = Append(replays, s) /\ UNCHANGED answer

(***************************************************************************)
(* The task that waits for the driver's reply to one send: no reply means  *)
(* that the send is replayed.                                              *)
(***************************************************************************)
ReplyDropped(s) ==
    /\ s \in lost
    /\ lost' = lost \ {s}
    /\ NoReply(s)
    /\ UNCHANGED <<supervisor, cmds, logical, conn, producer, issued, epoch, broker>>

-----------------------------------------------------------------------------
(* Credit arrives, the broker stores the message, the disposition returns. *)

Moved(p, at) == pending' = (pending \ {p}) \cup {[p EXCEPT !.at = at]}

flush_sender(p) ==
    /\ p.at = "outbox"
    /\ Moved(p, "wire")
    /\ UNCHANGED <<supervisor, channels, logical, driver, inbox, opened, session, table,
                   free, lost, app, epoch, broker>>

BrokerStores(p) ==
    /\ p.at = "wire"
    /\ Moved(p, "stored")
    /\ stored' = stored \cup {<<p.s, table[p.h]>>}
    /\ UNCHANGED <<supervisor, channels, logical, driver, inbox, opened, session, table,
                   free, lost, app, epoch, stray, cut>>

on_disposition(p) ==
    /\ p.at = "stored"
    /\ pending' = pending \ {p}
    /\ answer' = Answered({p.s}, "ok")
    /\ UNCHANGED <<supervisor, channels, logical, driver, inbox, opened, session, table,
                   free, lost, producer, issued, epoch, broker>>

BrokerStoresStray(x) ==
    /\ stray' = stray \ {x} /\ stored' = stored \cup {x}
    /\ UNCHANGED <<supervisor, channels, logical, conn, lost, app, epoch, cut>>

-----------------------------------------------------------------------------
Application ==
    \/ \E s \in Sends : send_bytes(s)
    \/ \E l \in Link : create_producer(l) \/ detach_on_drop(l)
    \/ close

Supervisor ==
    \/ DriverDied \/ Command \/ Replay
    \/ send_transfer \/ AttachLink \/ DetachLink \/ CloseConnection \/ Closed
    \/ Open \/ Opened \/ OpenFailed
    \/ Established \/ Retry \/ give_up

Driver == session_send_transfer \/ begin_session \/ attach_link \/ detach_link \/ do_close

Peer == ConnectionLost \/ on_peer_end \/ \E h \in RealHandle : on_peer_detach(h)

Watcher == \E s \in Sends : ReplyDropped(s)

Delivery == \E p \in pending : flush_sender(p) \/ BrokerStores(p) \/ on_disposition(p)

Next == Application \/ Supervisor \/ Driver \/ Peer \/ Watcher \/ Delivery
        \/ \E x \in stray : BrokerStoresStray(x)

Spec == Init /\ [][Next]_vars

(***************************************************************************)
(* The client's tasks are run by the executor, and the broker answers what *)
(* it is sent; applications, failures and stray copies may do as they like.*)
(***************************************************************************)
FairSpec == Spec /\ WF_vars(Supervisor) /\ WF_vars(Driver) /\ WF_vars(Watcher)
                 /\ WF_vars(Delivery)

-----------------------------------------------------------------------------
SupervisorTypeOK ==
    /\ pc \in {"select", "handle", "open", "opening", "reconnect", "closing", "stopped"}
    /\ cur \in Cmd \cup {NoCmd} /\ todo \in Seq(Link \cup {TheSession})
    /\ attempt \in 0..MaxRetries
    /\ cmds \in Seq(Cmd) /\ replays \in Seq(Sends)

DriverTypeOK ==
    /\ driver \in {"up", "dead", "none"} /\ inbox \in Seq(Inner)
    /\ opened \in RealHandle \cup {None, Failed}
    /\ session \in BOOLEAN /\ table \in [RealHandle -> Link \cup {None}]
    /\ free \in Seq(RealHandle) /\ pending \subseteq Unsettled /\ lost \subseteq Sends

LinkTypeOK ==
    /\ links \subseteq Link /\ real_handle \in [Link -> RealHandle \cup {None}]
    /\ producer \in [Link -> {"none", "attaching", "open", "failed", "dropped"}]
    /\ issued \subseteq Sends /\ answer \in [Sends -> {"none", "ok", "err"}]

HistoryTypeOK ==
    /\ epoch \in 1..MaxEpochs /\ cut \subseteq Link
    /\ stray \subseteq Sends \X Link /\ stored \subseteq Sends \X Link

TypeOK == SupervisorTypeOK /\ DriverTypeOK /\ LinkTypeOK /\ HistoryTypeOK

(***************************************************************************)
(* Where a send is while its caller waits.                                 *)
(***************************************************************************)
Places(s) ==
    {<<"cmds", i>> : i \in {j \in DOMAIN cmds : cmds[j] = [op |-> "send", s |-> s]}}
    \cup {<<"replays", i>> : i \in {j \in DOMAIN replays : replays[j] = s}}
    \cup {<<"inbox", i>> : i \in {j \in DOMAIN inbox : inbox[j].op = "send" /\ inbox[j].s = s}}
    \cup {<<"pending", p.h>> : p \in {q \in pending : q.s = s}}
    \cup (IF s \in lost THEN {<<"lost", 0>>} ELSE {})
    \cup (IF cur = [op |-> "send", s |-> s] THEN {<<"cur", 0>>} ELSE {})

(***************************************************************************)
(* A send whose caller waits is in exactly one place, and an answered one  *)
(* in none: whatever dies when, no send is forgotten, and none is sent     *)
(* once more after its caller has been told.                               *)
(***************************************************************************)
SendAccounted ==
    \A s \in Sends :
        Cardinality(Places(s)) = IF s \in issued /\ answer[s] = "none" THEN 1 ELSE 0

(***************************************************************************)
(* A caller that is told Ok has its message at the broker, reconnects and  *)
(* replays in between or not.                                              *)
(***************************************************************************)
OkMeansStored == \A s \in Sends : answer[s] = "ok" => \E l \in Link : <<s, l>> \in stored

(***************************************************************************)
(* Sends are accounted for: each is in one place until it is answered, and *)
(* one answered Ok is at the broker.  (And the state is well typed.)       *)
(***************************************************************************)
SendsAccounted == TypeOK /\ SendAccounted /\ OkMeansStored

(***************************************************************************)
(* The supervisor is back at its select only when every logical link is    *)
(* attached on the connection in use under the handle it is mapped to, and *)
(* so a message goes to the target of its own producer.  The broker has    *)
(* detached no link and not ended the session.                             *)
(***************************************************************************)
TopologyRestored ==
    cut = {} =>
        /\ pc = "select" /\ driver = "up" /\ session =>
              \A l \in links : real_handle[l] # None /\ table[real_handle[l]] = l
        /\ \A x \in stored : x[2] = link_of[x[1]]

(***************************************************************************)
(* Every send is answered: it waits out reconnects, and is answered with   *)
(* an error when the supervisor gives up or is closed.                     *)
(***************************************************************************)
SendsAnswered == \A s \in Sends : s \in issued ~> answer[s] # "none"
=============================================================================
