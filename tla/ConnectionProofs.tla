------------------------- MODULE ConnectionProofs -------------------------
(***************************************************************************)
(* Proofs about Connection, for any scenarios and any number of sessions:  *)
(* a client that has opened the connection and its broker agree on who the *)
(* client is and on the channels, the channel tables of both endpoints     *)
(* stay coherent whatever is reused, and a disposition the broker has read *)
(* survives every way the connection ends.                                 *)
(***************************************************************************)
EXTENDS Connection, TLAPS

\* A sequence, of whatever it holds.
IsSeq(s) == s \in Seq(Range(s))

---------------------------------------------------------------------------
(* The inductive invariant *)

\* The channel tables of one endpoint: what is allocated and not free is bound
\* to a session, no channel is free twice, and remote channels name sessions.
Coherent(a, sess, remote, max) ==
    /\ a \in [next : Nat, free : Seq(Nat)]
    /\ max \in Nat /\ a.next <= max + 1
    /\ IsInjective(a.free) /\ Range(a.free) \subseteq 0 .. a.next - 1
    /\ DOMAIN sess = (0 .. a.next - 1) \ Range(a.free)
    /\ Range(remote) \subseteq DOMAIN sess /\ IsInjective(remote)

EndFields == {"phase", "result", "max", "alloc", "sess", "remote", "discarding", "open"}

\* An endpoint: no channel is allocated before the opens are exchanged, so
\* that the channel-max they settle bounds every allocation.
End(e) ==
    /\ DOMAIN e = EndFields
    /\ e.phase \in Handshake \cup {"run", "closing", "done"} /\ e.result \in Results
    /\ e.result = None <=> e.phase # "done"
    /\ Coherent(e.alloc, e.sess, e.remote, e.max)
    /\ e.phase \in Handshake => e.alloc.next = 0

\* The driver's sessions: one that awaits its begin has no remote channel yet.
ClientSessions(e) ==
    /\ \A l \in DOMAIN e.sess : DOMAIN e.sess[l] = {"id", "phase", "ender"}
    /\ \A l \in Range(e.remote) : e.sess[l].phase # "BeginSent"

\* The broker's sessions carry a session object of the application.
BrokerSessions(e) ==
    \A l \in DOMAIN e.sess : DOMAIN e.sess[l] = {"id", "attached"} /\ e.sess[l].id \in Sessions

\* The broker has verified the client's credentials.
Accepted == scen.good /\ hist.verified = scen.profile /\ scen.profile \in scen.mechs

\* ... and has taken the client's open for good.
Agreed ==
    /\ Accepted /\ scen.copen
    /\ br.phase \notin Handshake /\ br.max = ChannelMax(scen.bmax, scen.cmax)

\* What the client's frames say of it.
FromClient(f) ==
    /\ f.k = "init" => f.mech = scen.profile /\ f.good = scen.good
    /\ f.k = "response" => f.good = scen.good
    /\ f.k = "open" => f.good = scen.copen /\ f.max = scen.cmax
    /\ f.k = "begin" => f.id \in Sessions

\* The broker's open is sent after it has taken the client's.
FromBroker(f) == f.k = "open" => f.good = scen.bopen /\ f.max = scen.bmax /\ Agreed

Network ==
    /\ DOMAIN net = {"cl", "br"} /\ IsSeq(net.cl) /\ IsSeq(net.br)
    /\ \A f \in Range(net.br) : FromClient(f)
    /\ \A f \in Range(net.cl) : FromBroker(f)

CommandKinds == {"begin", "end", "attach", "ack", "close"}

Commands ==
    /\ IsSeq(cmds)
    /\ \A c \in Range(cmds) : c.k \in CommandKinds /\ (c.k = "begin" => c.s \in Sessions)

\* How far each end of the handshake is tells what the other end has done.
Stages ==
    /\ scen \in Scenarios
    /\ br.phase \in {"header2", "open"} => Accepted
    /\ br.phase = "response" => scen.profile = "SCRAM" /\ scen.profile \in scen.mechs
    /\ cl.phase \in {"run", "closing"} => Agreed /\ scen.bopen /\ cl.max = ChannelMax(scen.cmax, scen.bmax)

Marks == {None, "sent", "got", "acking", "resolved", "settled", "requeued"}

\* An outcome that has been read is resolved until it is forwarded, and only
\* the end of its session takes it back.
Outcomes ==
    /\ DOMAIN hist = {"acked", "ended", "verified"} /\ hist.acked \subseteq Sessions
    /\ msg \in [Sessions -> Marks]
    /\ \A s \in hist.acked \ hist.ended :
          msg[s] \in {"resolved", "settled"} /\ (br.phase = "done" => msg[s] = "settled")

IInv ==
    /\ End(cl) /\ ClientSessions(cl) /\ End(br) /\ BrokerSessions(br)
    /\ Network /\ Commands /\ Stages /\ Outcomes

---------------------------------------------------------------------------
(* Sequences of frames and commands *)

\* A sequence over any set is one over its own elements.
LEMMA OwnRange ==
    ASSUME NEW S, NEW s \in Seq(S)
    PROVE  IsSeq(s)
<1> DEFINE T == Range(s)
           n == Len(s)
<1>1. n \in Nat /\ DOMAIN s = 1 .. n /\ s = [i \in 1 .. n |-> s[i]]
  OBVIOUS
<1>2. \A i \in 1 .. n : s[i] \in T
  BY Zenon, <1>1 DEF Range
<1> HIDE DEF T, n
<1>3. [i \in 1 .. n |-> s[i]] \in Seq(T)
  BY <1>1, <1>2
<1> QED
  BY Zenon, <1>1, <1>3 DEF IsSeq, T

\* Reading takes the first frame and leaves others of the same.
LEMMA Reads ==
    ASSUME NEW s, IsSeq(s), s # <<>>
    PROVE  Head(s) \in Range(s) /\ IsSeq(Tail(s)) /\ Range(Tail(s)) \subseteq Range(s)
<1> DEFINE S == Range(s)
<1>1. s \in Seq(S) /\ Len(s) \in Nat \ {0} /\ DOMAIN s = 1 .. Len(s)
  BY DEF IsSeq
<1>2. Head(s) = s[1]
  BY <1>1
<1>3. /\ Tail(s) \in Seq(S) /\ Len(Tail(s)) = Len(s) - 1 /\ DOMAIN Tail(s) = 1 .. Len(s) - 1
      /\ \A i \in 1 .. Len(s) - 1 : Tail(s)[i] = s[i + 1]
  BY <1>1
<1>4. Range(Tail(s)) \subseteq Range(s)
  BY <1>1, <1>3 DEF Range
<1>5. IsSeq(Tail(s))
  BY ZenonT(30), <1>3, OwnRange
<1>6. Head(s) \in Range(s)
  BY <1>1, <1>2 DEF Range
<1> QED
  BY Zenon, <1>4, <1>5, <1>6

\* Sending puts frames behind the ones under way.
LEMMA Joins ==
    ASSUME NEW s, NEW t, IsSeq(s), IsSeq(t)
    PROVE  IsSeq(s \o t) /\ Range(s \o t) \subseteq Range(s) \cup Range(t)
<1> DEFINE S == Range(s) \cup Range(t)
<1>1. s \in Seq(Range(s)) /\ t \in Seq(Range(t))
  BY Zenon DEF IsSeq
<1>2. s \in Seq(S) /\ t \in Seq(S)
  <2> HIDE DEF S
  <2>1. \A x \in Range(s) : x \in S
    BY Zenon DEF S
  <2>2. \A x \in Range(t) : x \in S
    BY Zenon DEF S
  <2>3. s \in Seq(S)
    BY <1>1, <2>1
  <2>4. t \in Seq(S)
    BY <1>1, <2>2
  <2> QED
    BY Zenon, <2>3, <2>4
<1>3. s \o t \in Seq(S) /\ DOMAIN (s \o t) = 1 .. Len(s \o t) /\ Len(s \o t) \in Nat
  <2> HIDE DEF S
  <2> QED
    BY <1>2
<1>4. \A i \in DOMAIN (s \o t) : (s \o t)[i] \in S
  <2> HIDE DEF S
  <2> QED
    BY <1>3
<1>5. Range(s \o t) \subseteq S
  BY Zenon, <1>4 DEF Range
<1>6. IsSeq(s \o t)
  BY ZenonT(30), <1>3, OwnRange
<1> QED
  BY Zenon, <1>5, <1>6

\* The frames of the sequences the endpoints send.
LEMMA Short ==
    /\ IsSeq(<<>>) /\ Range(<<>>) = {}
    /\ \A a : IsSeq(<<a>>) /\ Range(<<a>>) = {a}
    /\ \A a, b : IsSeq(<<a>> \o <<b>>) /\ Range(<<a>> \o <<b>>) \subseteq {a, b}
<1>1. IsSeq(<<>>) /\ Range(<<>>) = {}
  BY DEF IsSeq, Range
<1>2. ASSUME NEW a PROVE IsSeq(<<a>>) /\ Range(<<a>>) = {a}
  BY DEF IsSeq, Range
<1>3. ASSUME NEW a, NEW b PROVE IsSeq(<<a>> \o <<b>>) /\ Range(<<a>> \o <<b>>) \subseteq {a, b}
  <2>1. Range(<<a>>) \cup Range(<<b>>) = {a, b}
    BY <1>2
  <2> QED
    BY Zenon, <1>2, <2>1, Joins
<1> QED
  BY ZenonT(30), <1>1, <1>2, <1>3

LEMMA Appends ==
    ASSUME NEW s, NEW x, IsSeq(s)
    PROVE  IsSeq(Append(s, x)) /\ Range(Append(s, x)) \subseteq Range(s) \cup {x}
<1>1. Append(s, x) = s \o <<x>>
  BY DEF IsSeq
<1> QED
  BY <1>1, Joins, Short

---------------------------------------------------------------------------
(* Channel tables *)

\* The last of the free channels is taken off ...
LEMMA Pops ==
    ASSUME NEW free \in Seq(Nat), free # <<>>, IsInjective(free)
    PROVE  LET g == SubSeq(free, 1, Len(free) - 1)
               l == free[Len(free)]
           IN g \in Seq(Nat) /\ IsInjective(g) /\ l \in Range(free) /\ Range(g) = Range(free) \ {l}
<1> DEFINE n == Len(free)
           g == SubSeq(free, 1, n - 1)
           l == free[n]
<1>1. n \in Nat \ {0} /\ DOMAIN free = 1 .. n
  OBVIOUS
<1>2. g \in Seq(Nat) /\ DOMAIN g = 1 .. n - 1 /\ \A i \in 1 .. n - 1 : g[i] = free[i]
  BY <1>1
<1> HIDE DEF n, g
<1>3. \A i \in 1 .. n - 1 : i \in DOMAIN free /\ i # n
  BY <1>1
<1>4. \A i \in DOMAIN free : i = n \/ i \in 1 .. n - 1
  BY <1>1
<1>5. n \in DOMAIN free
  BY <1>1
<1>6. IsInjective(g)
  BY Zenon, <1>2, <1>3 DEF IsInjective
<1>7. l \in Range(free)
  BY Zenon, <1>5 DEF Range
<1>8. \A i \in 1 .. n - 1 : free[i] # l
  BY Zenon, <1>3, <1>5 DEF IsInjective
<1> HIDE DEF l
<1>9. ASSUME NEW x \in Range(g) PROVE x \in Range(free) /\ x # l
  BY Zenon, <1>2, <1>3, <1>8 DEF Range
<1>10. ASSUME NEW x \in Range(free), x # l PROVE x \in Range(g)
  BY Zenon, <1>2, <1>4, <1>10 DEF Range, l
<1> QED
  BY Zenon, <1>2, <1>6, <1>7, <1>9, <1>10 DEF g, l, n

\* ... and a channel that was in use is put back.
LEMMA Pushes ==
    ASSUME NEW free \in Seq(Nat), IsInjective(free), NEW l \in Nat, l \notin Range(free)
    PROVE  LET g == Append(free, l)
           IN g \in Seq(Nat) /\ IsInjective(g) /\ Range(g) = Range(free) \cup {l}
<1> DEFINE n == Len(free)
           g == Append(free, l)
<1>1. n \in Nat /\ DOMAIN free = 1 .. n
  OBVIOUS
<1>2. g \in Seq(Nat) /\ DOMAIN g = 1 .. n + 1 /\ g[n + 1] = l /\ \A i \in 1 .. n : g[i] = free[i]
  BY <1>1
<1> HIDE DEF n, g
<1>3. \A i \in DOMAIN g : i = n + 1 \/ i \in DOMAIN free
  BY <1>1, <1>2
<1>4. \A i \in DOMAIN free : i \in DOMAIN g /\ g[i] = free[i] /\ free[i] # l
  BY <1>1, <1>2 DEF Range
<1>5. n + 1 \in DOMAIN g
  BY <1>1, <1>2
<1>6. IsInjective(g)
  BY Zenon, <1>2, <1>3, <1>4 DEF IsInjective
<1>7. Range(g) \subseteq Range(free) \cup {l}
  BY Zenon, <1>2, <1>3, <1>4 DEF Range
<1>8. Range(free) \cup {l} \subseteq Range(g)
  BY Zenon, <1>2, <1>4, <1>5 DEF Range
<1> QED
  BY Zenon, <1>2, <1>6, <1>7, <1>8 DEF g

\* allocate: a session on a channel that no session has.
LEMMA Allocates ==
    ASSUME NEW a, NEW sess, NEW remote, NEW max, Coherent(a, sess, remote, max),
           CanAllocate(a, max), NEW v
    PROVE  /\ Allocated(a) \notin DOMAIN sess
           /\ Coherent(allocate(a), Bind(sess, Allocated(a), v), remote, max)
<1>0. PICK n, free : a = [next |-> n, free |-> free] /\ n \in Nat /\ free \in Seq(Nat)
  BY Zenon DEF Coherent
<1>1. /\ max \in Nat /\ n <= max + 1 /\ IsInjective(free) /\ Range(free) \subseteq 0 .. n - 1
      /\ DOMAIN sess = (0 .. n - 1) \ Range(free)
      /\ Range(remote) \subseteq DOMAIN sess /\ IsInjective(remote)
  BY Zenon, <1>0 DEF Coherent
<1> DEFINE l == Allocated(a)
           s2 == Bind(sess, l, v)
<1>2. DOMAIN s2 = DOMAIN sess \cup {l}
  BY Zenon DEF Bind
<1> HIDE DEF s2
<1>3. CASE free # <<>>
  <2>1. PICK g : /\ g = SubSeq(free, 1, Len(free) - 1) /\ l = free[Len(free)]
                 /\ allocate(a) = [next |-> n, free |-> g]
    BY ZenonT(30), <1>0, <1>3 DEF Allocated, allocate
  <2> HIDE DEF l
  <2>2. g \in Seq(Nat) /\ IsInjective(g) /\ l \in Range(free) /\ Range(g) = Range(free) \ {l}
    BY Zenon, <1>0, <1>1, <1>3, <2>1, Pops
  <2>3. l \in 0 .. n - 1 /\ l \notin DOMAIN sess /\ DOMAIN s2 = (0 .. n - 1) \ Range(g)
    BY Zenon, <1>1, <1>2, <2>2
  <2>4. Coherent([next |-> n, free |-> g], s2, remote, max)
    BY Zenon, <1>0, <1>1, <1>2, <2>2, <2>3 DEF Coherent
  <2> QED
    BY Zenon, <2>1, <2>3, <2>4 DEF l, s2
<1>4. CASE free = <<>>
  <2>1. l = n /\ n <= max /\ allocate(a) = [next |-> n + 1, free |-> free]
    BY Zenon, <1>0, <1>4 DEF Allocated, CanAllocate, allocate
  <2> HIDE DEF l
  <2>2. Range(free) = {}
    BY Zenon, <1>4, Short
  <2>3. l \notin DOMAIN sess /\ DOMAIN s2 = (0 .. (n + 1) - 1) \ Range(free)
    BY <1>0, <1>1, <1>2, <2>1, <2>2
  <2>4. n + 1 \in Nat /\ n + 1 <= max + 1
    BY <1>0, <1>1, <2>1
  <2>5. Coherent([next |-> n + 1, free |-> free], s2, remote, max)
    BY Zenon, <1>0, <1>1, <1>2, <2>2, <2>3, <2>4 DEF Coherent
  <2> QED
    BY Zenon, <2>1, <2>3, <2>5 DEF l, s2
<1> QED
  BY Zenon, <1>3, <1>4

\* A remote channel is bound to a session that has none.
LEMMA Binds ==
    ASSUME NEW a, NEW sess, NEW remote, NEW max, Coherent(a, sess, remote, max),
           NEW ch, NEW l \in DOMAIN sess, l \notin Range(remote)
    PROVE  /\ Coherent(a, sess, Bind(remote, ch, l), max)
           /\ Range(Bind(remote, ch, l)) \subseteq Range(remote) \cup {l}
<1> DEFINE r2 == Bind(remote, ch, l)
<1>1. DOMAIN r2 = DOMAIN remote \cup {ch} /\ r2[ch] = l /\ \A x \in DOMAIN remote \ {ch} : r2[x] = remote[x]
  BY Zenon DEF Bind
<1> HIDE DEF r2
<1>2. Range(r2) \subseteq Range(remote) \cup {l}
  BY Zenon, <1>1 DEF Range
<1>3. \A x \in DOMAIN remote : remote[x] # l
  BY Zenon DEF Range
<1>4. IsInjective(r2)
  BY <1>1, <1>3 DEF Coherent, IsInjective
<1> QED
  BY Zenon, <1>2, <1>4 DEF Coherent, r2

\* release: the session leaves both tables and its channel is free.
LEMMA Releases ==
    ASSUME NEW a, NEW sess, NEW remote, NEW max, Coherent(a, sess, remote, max),
           NEW ch \in DOMAIN remote
    PROVE  /\ Coherent(release(a, remote[ch]), Unbind(sess, remote[ch]), Unbind(remote, ch), max)
           /\ Range(Unbind(remote, ch)) \subseteq Range(remote)
           /\ \A x \in DOMAIN Unbind(sess, remote[ch]) :
                 x \in DOMAIN sess /\ Unbind(sess, remote[ch])[x] = sess[x]
           /\ remote[ch] \in DOMAIN sess
<1>0. PICK n, free : a = [next |-> n, free |-> free] /\ n \in Nat /\ free \in Seq(Nat)
  BY Zenon DEF Coherent
<1>1. /\ max \in Nat /\ n <= max + 1 /\ IsInjective(free) /\ Range(free) \subseteq 0 .. n - 1
      /\ DOMAIN sess = (0 .. n - 1) \ Range(free)
      /\ Range(remote) \subseteq DOMAIN sess /\ IsInjective(remote)
  BY Zenon, <1>0 DEF Coherent
<1> DEFINE l == remote[ch]
           s2 == Unbind(sess, l)
           r2 == Unbind(remote, ch)
           g == Append(free, l)
<1>2. DOMAIN s2 = DOMAIN sess \ {l} /\ \A x \in DOMAIN s2 : s2[x] = sess[x]
  BY Zenon DEF Unbind, Restrict
<1>3. DOMAIN r2 = DOMAIN remote \ {ch} /\ \A x \in DOMAIN r2 : r2[x] = remote[x]
  BY Zenon DEF Unbind, Restrict
<1>4. l \in DOMAIN sess
  BY Zenon, <1>1 DEF Range
<1> HIDE DEF s2, r2
<1>5. Range(r2) \subseteq Range(remote) /\ \A x \in DOMAIN r2 : r2[x] # l
  BY <1>1, <1>3 DEF Range, IsInjective
<1>6. l \notin Range(r2)
  BY Zenon, <1>5 DEF Range
<1>7. IsInjective(r2)
  BY Zenon, <1>1, <1>3 DEF IsInjective
<1> HIDE DEF l
<1>8. l \in 0 .. n - 1 /\ l \notin Range(free) /\ l \in Nat
  BY <1>0, <1>1, <1>4
<1>9. g \in Seq(Nat) /\ IsInjective(g) /\ Range(g) = Range(free) \cup {l}
  BY Zenon, <1>0, <1>1, <1>8, Pushes
<1>10. release(a, l) = [next |-> n, free |-> g]
  <2>1. a.free = free
    BY Zenon, <1>0
  <2>2. release(a, l) = [a EXCEPT !.free = g]
    BY <2>1, Zenon DEF release
  <2> HIDE DEF g
  <2> QED
    BY Zenon, <1>0, <2>2
<1> HIDE DEF g
<1>11. DOMAIN s2 = (0 .. n - 1) \ Range(g) /\ Range(g) \subseteq 0 .. n - 1 /\ Range(r2) \subseteq DOMAIN s2
  BY Zenon, <1>1, <1>2, <1>5, <1>6, <1>8, <1>9
<1>12. Coherent([next |-> n, free |-> g], s2, r2, max)
  BY Zenon, <1>0, <1>1, <1>7, <1>9, <1>11 DEF Coherent
<1> QED
  BY Zenon, <1>2, <1>4, <1>5, <1>10, <1>12 DEF l, s2, r2

---------------------------------------------------------------------------
(* What the endpoints put on the network, and what that leaves true *)

\* A step of the client takes frames off its own queue and adds its own to the
\* broker's.
ClientWrites ==
    /\ DOMAIN net' = {"cl", "br"} /\ IsSeq(net'.cl) /\ IsSeq(net'.br)
    /\ Range(net'.cl) \subseteq Range(net.cl)
    /\ \A f \in Range(net'.br) \ Range(net.br) : FromClient(f)

\* A step of the broker does the reverse; its open is not sent before its own
\* part of the agreement holds.
BrokerWrites ==
    /\ DOMAIN net' = {"cl", "br"} /\ IsSeq(net'.cl) /\ IsSeq(net'.br)
    /\ Range(net'.br) \subseteq Range(net.br)
    /\ \A f \in Range(net'.cl) \ Range(net.cl) :
          f.k = "open" => f.good = scen.bopen /\ f.max = scen.bmax /\ Agreed'

\* The queues after a client's step: frames the client reads, writes, or both.
LEMMA ClientQueues ==
    ASSUME IInv, NEW fs, IsSeq(fs), \A f \in Range(fs) : FromClient(f),
           \/ net' = net
           \/ net' = [net EXCEPT !.br = ToBroker(fs)]
           \/ Arrives("cl") /\ net' = [net EXCEPT !.cl = Tail(@)]
           \/ Arrives("cl") /\ net' = [net EXCEPT !.cl = Tail(@), !.br = ToBroker(fs)]
    PROVE  ClientWrites
<1>1. DOMAIN net = {"cl", "br"} /\ IsSeq(net.cl) /\ IsSeq(net.br)
  BY Zenon DEF IInv, Network
<1>2. IsSeq(ToBroker(fs)) /\ Range(ToBroker(fs)) \subseteq Range(net.br) \cup Range(fs)
  BY Zenon, <1>1, Joins DEF ToBroker
<1>3. ASSUME Arrives("cl") PROVE IsSeq(Tail(net.cl)) /\ Range(Tail(net.cl)) \subseteq Range(net.cl)
  BY Zenon, <1>1, <1>3, Reads DEF Arrives
<1>4. PICK c, b : net'.cl = c /\ net'.br = b /\ DOMAIN net' = {"cl", "br"}
                  /\ (c = net.cl \/ (Arrives("cl") /\ c = Tail(net.cl)))
                  /\ (b = net.br \/ b = ToBroker(fs))
  BY ZenonT(30), <1>1
<1>5. IsSeq(c) /\ Range(c) \subseteq Range(net.cl)
  BY ZenonT(30), <1>1, <1>3, <1>4
<1>6. IsSeq(b) /\ Range(b) \subseteq Range(net.br) \cup Range(fs)
  BY Zenon, <1>1, <1>2, <1>4
<1> QED
  BY Zenon, <1>4, <1>5, <1>6 DEF ClientWrites

\* One frame of the client.
LEMMA ClientFrames ==
    ASSUME NEW f, FromClient(f)
    PROVE  \E fs : fs = <<f>> /\ IsSeq(fs) /\ \A g \in Range(fs) : FromClient(g)
<1>1. IsSeq(<<f>>) /\ Range(<<f>>) = {f}
  BY Short, Zenon
<1>2. \A g \in Range(<<f>>) : FromClient(g)
  BY <1>1, Zenon
<1> QED
  BY <1>1, <1>2, Zenon

LEMMA ClientPlain == IsSeq(<<>>) /\ \A f \in Range(<<>>) : FromClient(f)
BY Zenon, Short

\* The same for a broker's step.
LEMMA BrokerQueues ==
    ASSUME IInv, NEW fs, IsSeq(fs),
           \A f \in Range(fs) : f.k = "open" => f.good = scen.bopen /\ f.max = scen.bmax /\ Agreed',
           \/ net' = net
           \/ net' = [net EXCEPT !.cl = ToClient(fs)]
           \/ Arrives("br") /\ net' = [net EXCEPT !.br = Tail(@), !.cl = ToClient(fs)]
    PROVE  BrokerWrites
<1>1. DOMAIN net = {"cl", "br"} /\ IsSeq(net.cl) /\ IsSeq(net.br)
  BY Zenon DEF IInv, Network
<1>2. IsSeq(ToClient(fs)) /\ Range(ToClient(fs)) \subseteq Range(net.cl) \cup Range(fs)
  BY Zenon, <1>1, Joins DEF ToClient
<1>3. ASSUME Arrives("br") PROVE IsSeq(Tail(net.br)) /\ Range(Tail(net.br)) \subseteq Range(net.br)
  BY Zenon, <1>1, <1>3, Reads DEF Arrives
<1>4. PICK c, b : net'.cl = c /\ net'.br = b /\ DOMAIN net' = {"cl", "br"}
                  /\ (b = net.br \/ (Arrives("br") /\ b = Tail(net.br)))
                  /\ (c = net.cl \/ c = ToClient(fs))
  BY ZenonT(30), <1>1
<1>5. IsSeq(b) /\ Range(b) \subseteq Range(net.br)
  BY ZenonT(30), <1>1, <1>3, <1>4
<1>6. IsSeq(c) /\ Range(c) \subseteq Range(net.cl) \cup Range(fs)
  BY Zenon, <1>1, <1>2, <1>4
<1> QED
  BY Zenon, <1>4, <1>5, <1>6 DEF BrokerWrites

\* What a step of the client, or of its application, has to leave in order.
LEMMA ClientStep ==
    ASSUME IInv, UNCHANGED <<scen, br, hist>>, ClientWrites, Commands',
           End(cl'), ClientSessions(cl'),
           cl'.phase \in {"run", "closing"} =>
               Agreed /\ scen.bopen /\ cl'.max = ChannelMax(scen.cmax, scen.bmax),
           msg' \in [Sessions -> Marks],
           \A s \in Sessions : msg'[s] = msg[s] \/ msg[s] \notin {"resolved", "settled"}
    PROVE  IInv'
<1>1. End(cl)' /\ ClientSessions(cl)' /\ End(br)' /\ BrokerSessions(br)'
  BY Zenon DEF IInv
<1>2. Accepted' = Accepted /\ Agreed' = Agreed
  BY Zenon DEF Accepted, Agreed
<1>3. Network'
  <2>1. \A f \in Range(net'.br) : FromClient(f)'
    BY DEF IInv, Network, ClientWrites, FromClient
  <2>2. \A f \in Range(net'.cl) : FromBroker(f)'
    BY Zenon, <1>2 DEF IInv, Network, ClientWrites, FromBroker
  <2> QED
    BY Zenon, <2>1, <2>2 DEF Network, ClientWrites
<1>4. Stages'
  BY Zenon, <1>2 DEF IInv, Stages
<1>5. Outcomes'
  BY DEF IInv, Outcomes
<1> QED
  BY Zenon, <1>1, <1>3, <1>4, <1>5 DEF IInv

\* What a step of the broker has to leave in order: the handshake is not
\* entered again, and what it settled is not settled anew.
LEMMA BrokerStep ==
    ASSUME IInv, UNCHANGED <<scen, cl, cmds>>, BrokerWrites, Outcomes',
           End(br'), BrokerSessions(br'),
           br.phase \notin Handshake =>
               br'.phase \notin Handshake /\ br'.max = br.max /\ hist'.verified = hist.verified,
           br'.phase \in {"header2", "open"} => Accepted',
           br'.phase = "response" => scen.profile = "SCRAM" /\ scen.profile \in scen.mechs
    PROVE  IInv'
<1>1. End(cl)' /\ ClientSessions(cl)' /\ End(br)' /\ BrokerSessions(br)'
  BY Zenon DEF IInv
<1>2. Agreed => Agreed'
  BY Zenon DEF Accepted, Agreed
<1>3. Network'
  <2>1. \A f \in Range(net'.br) : FromClient(f)'
    BY DEF IInv, Network, BrokerWrites, FromClient
  <2>2. \A f \in Range(net'.cl) : FromBroker(f)'
    BY Zenon, <1>2 DEF IInv, Network, BrokerWrites, FromBroker
  <2> QED
    BY Zenon, <2>1, <2>2 DEF Network, BrokerWrites
<1>4. Stages'
  BY Zenon, <1>2 DEF IInv, Stages
<1>5. Commands'
  BY Zenon DEF IInv, Commands
<1> QED
  BY Zenon, <1>1, <1>3, <1>4, <1>5 DEF IInv

---------------------------------------------------------------------------
(* The steps of the client *)

\* The driver's task returns.
LEMMA ClientStops ==
    ASSUME IInv, NEW r \in Results \ {None}, ClientDone(r), ClientWrites,
           UNCHANGED <<scen, br, msg, hist>>
    PROVE  IInv'
<1>1. cl' = [cl EXCEPT !.phase = "done", !.result = r, !.open = FALSE] /\ cmds' = <<>>
  BY Zenon DEF ClientDone
<1>2. End(cl) /\ ClientSessions(cl)
  BY Zenon DEF IInv
<1>3. /\ DOMAIN cl' = EndFields /\ cl'.phase = "done" /\ cl'.result = r /\ cl'.max = cl.max
      /\ cl'.alloc = cl.alloc /\ cl'.sess = cl.sess /\ cl'.remote = cl.remote
  BY Zenon, <1>1, <1>2 DEF End, EndFields
<1>4. End(cl') /\ ClientSessions(cl')
  BY <1>2, <1>3 DEF End, ClientSessions, Handshake
<1>5. Commands'
  BY Zenon, <1>1, Short DEF Commands
<1>6. msg \in [Sessions -> Marks]
  BY Zenon DEF IInv, Outcomes
<1> QED
  BY Zenon, <1>3, <1>4, <1>5, <1>6, ClientStep

LEMMA ClientFailing ==
    ASSUME IInv, NEW r \in Results \ {None}, Arrives("cl"), ClientFails(r)
    PROVE  IInv'
<1>1. ClientDone(r) /\ net' = [net EXCEPT !.cl = Tail(@)] /\ UNCHANGED <<scen, br, msg, hist>>
  BY Zenon DEF ClientFails
<1>2. ClientWrites
  BY ZenonT(30), <1>1, ClientQueues, Short
<1> QED
  BY Zenon, <1>1, <1>2, ClientStops

\* The next stage of the client's handshake.
LEMMA ClientAdvances ==
    ASSUME IInv, Arrives("cl"), cl.phase \in Handshake, NEW p \in Handshake, NEW fs, IsSeq(fs),
           \A f \in Range(fs) : FromClient(f), ClientSends(p, fs)
    PROVE  IInv'
<1>1. /\ cl' = [cl EXCEPT !.phase = p] /\ net' = [net EXCEPT !.cl = Tail(@), !.br = ToBroker(fs)]
      /\ UNCHANGED <<scen, br, cmds, msg, hist>>
  BY Zenon DEF ClientSends
<1>2. End(cl) /\ ClientSessions(cl)
  BY Zenon DEF IInv
<1>3. /\ DOMAIN cl' = EndFields /\ cl'.phase = p /\ cl'.result = cl.result /\ cl'.max = cl.max
      /\ cl'.alloc = cl.alloc /\ cl'.sess = cl.sess /\ cl'.remote = cl.remote
  BY Zenon, <1>1, <1>2 DEF End, EndFields
<1>4. End(cl') /\ ClientSessions(cl') /\ cl'.phase \notin {"run", "closing"}
  BY Zenon, <1>2, <1>3 DEF End, ClientSessions, Handshake
<1>5. ClientWrites
  BY ZenonT(30), <1>1, ClientQueues
<1>6. msg \in [Sessions -> Marks] /\ Commands'
  BY Zenon, <1>1 DEF IInv, Outcomes, Commands
<1> QED
  BY Zenon, <1>1, <1>4, <1>5, <1>6, ClientStep

LEMMA StepClientHeader ==
    ASSUME IInv, ClientHeader PROVE IInv'
<1>1. cl.phase \in Handshake /\ Arrives("cl")
  BY Zenon DEF ClientHeader, Handshake
<1> DEFINE f1 == [k |-> "open", good |-> scen.copen, max |-> scen.cmax]
<1>2. \/ ClientSends("mechs", <<>>)
      \/ ClientSends("open", <<f1>>)
      \/ ClientFails("protocol")
  BY Zenon DEF ClientHeader
<1>3. FromClient(f1)
  BY Zenon DEF FromClient
<1>4. CASE ClientSends("mechs", <<>>)
  BY Zenon, <1>1, <1>4, Short, ClientAdvances DEF Handshake
<1>5. CASE ClientSends("open", <<f1>>)
  <2> HIDE DEF f1
  <2> QED
    BY <1>1, <1>3, <1>5, Short, ClientAdvances DEF Handshake
<1>6. CASE ClientFails("protocol")
  BY Zenon, <1>1, <1>6, ClientFailing DEF Results, None
<1> QED
  BY Zenon, <1>2, <1>4, <1>5, <1>6

LEMMA StepClientMechanisms ==
    ASSUME IInv, ClientMechanisms PROVE IInv'
<1>1. cl.phase \in Handshake /\ Arrives("cl")
  BY Zenon DEF ClientMechanisms, Handshake
<1> DEFINE f1 == [k |-> "init", mech |-> scen.profile, good |-> scen.good]
<1>2. ClientSends("outcome", <<f1>>) \/ ClientFails("sasl")
  BY Zenon DEF ClientMechanisms
<1>3. FromClient(f1)
  BY Zenon DEF FromClient
<1>4. CASE ClientSends("outcome", <<f1>>)
  <2> HIDE DEF f1
  <2> QED
    BY <1>1, <1>3, <1>4, Short, ClientAdvances DEF Handshake
<1>5. CASE ClientFails("sasl")
  BY Zenon, <1>1, <1>5, ClientFailing DEF Results, None
<1> QED
  BY Zenon, <1>2, <1>4, <1>5

LEMMA StepClientOutcome ==
    ASSUME IInv, ClientOutcome PROVE IInv'
<1>1. cl.phase \in Handshake /\ Arrives("cl")
  BY Zenon DEF ClientOutcome, Handshake
<1> DEFINE f1 == [k |-> "response", good |-> scen.good]
           f2 == [k |-> "header", id |-> "AMQP"]
<1>2. \/ ClientSends("outcome", <<f1>>)
      \/ ClientSends("header2", <<f2>>)
      \/ ClientFails("sasl")
  BY Zenon DEF ClientOutcome
<1>3. FromClient(f1) /\ FromClient(f2)
  BY Zenon DEF FromClient
<1> HIDE DEF f1, f2
<1>4. CASE ClientSends("outcome", <<f1>>)
  BY <1>1, <1>3, <1>4, Short, ClientAdvances DEF Handshake
<1>5. CASE ClientSends("header2", <<f2>>)
  BY <1>1, <1>3, <1>5, Short, ClientAdvances DEF Handshake
<1>6. CASE ClientFails("sasl")
  BY Zenon, <1>1, <1>6, ClientFailing DEF Results, None
<1> QED
  BY Zenon, <1>2, <1>4, <1>5, <1>6

\* The client opens the connection: the frame it reads is the broker's open.
LEMMA StepClientOpen ==
    ASSUME IInv, ClientOpen PROVE IInv'
<1>1. cl.phase = "open" /\ Arrives("cl")
  BY Zenon DEF ClientOpen
<1>2. PICK f : f = Head(net.cl)
  BY Zenon
<1>3. CASE ClientFails("protocol")
  BY Zenon, <1>1, <1>3, ClientFailing DEF Results, None
<1>4. CASE /\ f.k = "open" /\ f.good
           /\ cl' = [cl EXCEPT !.phase = "run", !.max = ChannelMax(scen.cmax, f.max)]
           /\ net' = [net EXCEPT !.cl = Tail(@)]
           /\ UNCHANGED <<scen, br, cmds, msg, hist>>
  <2>1. f \in Range(net.cl)
    BY Zenon, <1>1, <1>2, Reads DEF IInv, Network, Arrives
  <2>2. scen.bopen /\ f.max = scen.bmax /\ Agreed
    BY Zenon, <1>4, <2>1 DEF IInv, Network, FromBroker
  <2>3. End(cl) /\ ClientSessions(cl)
    BY Zenon DEF IInv
  <2>4. ChannelMax(scen.cmax, scen.bmax) \in Nat
    BY Zenon, ScenariosAssumption DEF IInv, Stages, ChannelMax
  <2>5. /\ DOMAIN cl' = EndFields /\ cl'.phase = "run" /\ cl'.result = cl.result
        /\ cl'.max = ChannelMax(scen.cmax, scen.bmax)
        /\ cl'.alloc = cl.alloc /\ cl'.sess = cl.sess /\ cl'.remote = cl.remote
    BY Zenon, <1>4, <2>2, <2>3 DEF End, EndFields
  <2>6. cl.alloc.next = 0
    BY Zenon, <1>1, <2>3 DEF End, Handshake
  <2>7. Coherent(cl'.alloc, cl'.sess, cl'.remote, cl'.max)
    BY <2>3, <2>4, <2>5, <2>6 DEF End, Coherent
  <2>8. End(cl') /\ ClientSessions(cl')
    BY Zenon, <1>1, <2>3, <2>5, <2>7 DEF End, ClientSessions, Handshake
  <2>9. ClientWrites
    BY ZenonT(30), <1>1, <1>4, ClientQueues, Short
  <2>10. msg \in [Sessions -> Marks] /\ Commands'
    BY Zenon, <1>4 DEF IInv, Outcomes, Commands
  <2> QED
    BY <1>4, <2>2, <2>5, <2>8, <2>9, <2>10, ClientStep
<1> QED
  BY Zenon, <1>2, <1>3, <1>4 DEF ClientOpen

\* The application issues a command: a begin names a session object.
LEMMA Issues ==
    ASSUME IInv, NEW c, NEW cs, Issue(c, cs), c.k \in CommandKinds, c.k = "begin" => c.s \in Sessions,
           msg' \in [Sessions -> Marks],
           \A s \in Sessions : msg'[s] = msg[s] \/ msg[s] \notin {"resolved", "settled"}
    PROVE  IInv'
<1>1. cmds' = Append(cmds, c) /\ UNCHANGED <<scen, cl, br, net, hist>>
  BY Zenon DEF Issue
<1>2. Commands'
  <2>1. IsSeq(cmds) /\ \A d \in Range(cmds) : d.k \in CommandKinds /\ (d.k = "begin" => d.s \in Sessions)
    BY Zenon DEF IInv, Commands
  <2>2. IsSeq(Append(cmds, c)) /\ Range(Append(cmds, c)) \subseteq Range(cmds) \cup {c}
    BY Zenon, <2>1, Appends
  <2> QED
    BY Zenon, <1>1, <2>1, <2>2 DEF Commands
<1>3. ClientWrites
  BY Zenon, <1>1, ClientQueues, Short
<1>4. End(cl') /\ ClientSessions(cl')
  BY Zenon, <1>1 DEF IInv
<1>5. cl'.phase \in {"run", "closing"} =>
          Agreed /\ scen.bopen /\ cl'.max = ChannelMax(scen.cmax, scen.bmax)
  BY Zenon, <1>1 DEF IInv, Stages
<1> QED
  BY <1>1, <1>2, <1>3, <1>4, <1>5, ClientStep

LEMMA StepApp ==
    ASSUME IInv, App PROVE IInv'
<1>0. msg \in [Sessions -> Marks]
  BY Zenon DEF IInv, Outcomes
<1>1. CASE AppBegin
  <2>1. PICK s \in Sessions :
            Issue([k |-> "begin", s |-> s], [call EXCEPT ![s].st = "begin"]) /\ msg' = msg
    BY <1>1, Zenon DEF AppBegin
  <2>2. PICK c, cs : c = [k |-> "begin", s |-> s] /\ Issue(c, cs)
    BY Zenon, <2>1
  <2> QED
    BY <1>0, <2>1, <2>2, Issues DEF CommandKinds
<1>2. ASSUME NEW s \in Sessions, AppEnd(s) PROVE IInv'
  <2>1. /\ Issue([k |-> "end", s |-> s, ch |-> call[s].ch], [call EXCEPT ![s].st = "end"])
        /\ msg' = msg
    BY <1>2, Zenon DEF AppEnd
  <2>2. PICK c, cs : c = [k |-> "end", s |-> s, ch |-> call[s].ch] /\ Issue(c, cs)
    BY Zenon, <2>1
  <2> QED
    BY <1>0, <2>1, <2>2, Issues DEF CommandKinds
<1>3. ASSUME NEW s \in Sessions, AppAttach(s) PROVE IInv'
  <2>1. Issue([k |-> "attach", s |-> s, ch |-> call[s].ch], call) /\ msg' = msg
    BY <1>3, Zenon DEF AppAttach
  <2>2. PICK c, cs : c = [k |-> "attach", s |-> s, ch |-> call[s].ch] /\ Issue(c, cs)
    BY Zenon, <2>1
  <2> QED
    BY <1>0, <2>1, <2>2, Issues DEF CommandKinds
<1>4. ASSUME NEW s \in Sessions, AppAck(s) PROVE IInv'
  <2>1. /\ Issue([k |-> "ack", s |-> s, ch |-> call[s].ch], call)
        /\ msg[s] = "got" /\ msg' = [msg EXCEPT ![s] = "acking"]
    BY <1>4, Zenon DEF AppAck
  <2>2. PICK c, cs : c = [k |-> "ack", s |-> s, ch |-> call[s].ch] /\ Issue(c, cs)
    BY Zenon, <2>1
  <2>3. /\ msg' \in [Sessions -> Marks]
        /\ \A t \in Sessions : msg'[t] = msg[t] \/ msg[t] \notin {"resolved", "settled"}
    BY Zenon, <1>0, <2>1 DEF Marks
  <2> QED
    BY <2>2, <2>3, Issues DEF CommandKinds
<1>5. CASE AppClose
  <2>1. Issue([k |-> "close"], call) /\ msg' = msg
    BY <1>5, Zenon DEF AppClose
  <2>2. PICK c, cs : c = [k |-> "close"] /\ Issue(c, cs)
    BY <2>1
  <2> QED
    BY <1>0, <2>1, <2>2, Issues DEF CommandKinds
<1> QED
  BY <1>1, <1>2, <1>3, <1>4, <1>5 DEF App

\* The driver has handled a command.
LEMMA Handles ==
    ASSUME IInv, cl.phase = "run", cmds # <<>>, NEW c, NEW fs, NEW cs, Handled(c, fs, cs),
           IsSeq(fs), \A f \in Range(fs) : FromClient(f),
           End(c), ClientSessions(c), c.max = cl.max
    PROVE  IInv'
<1>1. /\ cl' = c /\ cmds' = Tail(cmds) /\ net' = [net EXCEPT !.br = ToBroker(fs)]
      /\ UNCHANGED <<scen, br, msg, hist>>
  BY Zenon DEF Handled
<1>2. Commands'
  <2>1. IsSeq(cmds) /\ \A d \in Range(cmds) : d.k \in CommandKinds /\ (d.k = "begin" => d.s \in Sessions)
    BY Zenon DEF IInv, Commands
  <2>2. IsSeq(Tail(cmds)) /\ Range(Tail(cmds)) \subseteq Range(cmds)
    BY SMTT(30), <2>1, Reads
  <2> QED
    BY <1>1, <2>1, <2>2 DEF Commands
<1>3. ClientWrites
  BY ZenonT(30), <1>1, ClientQueues
<1>4. Agreed /\ scen.bopen /\ cl'.max = ChannelMax(scen.cmax, scen.bmax)
  BY <1>1 DEF IInv, Stages
<1>5. msg \in [Sessions -> Marks]
  BY Zenon DEF IInv, Outcomes
<1> QED
  BY <1>1, <1>2, <1>3, <1>4, <1>5, ClientStep

LEMMA StepBeginSession ==
    ASSUME IInv, cl.phase = "run", cmds # <<>>, NEW c, c.s \in Sessions, BeginSession(c)
    PROVE  IInv'
<1>1. End(cl) /\ ClientSessions(cl)
  BY Zenon DEF IInv
<1>2. CASE CanAllocate(cl.alloc, cl.max)
  <2>1. PICK ch, new, f, e, cs :
            /\ ch = Allocated(cl.alloc)
            /\ new = [id |-> c.s, phase |-> "BeginSent", ender |-> Nobody]
            /\ f = [k |-> "begin", ch |-> ch, id |-> c.s]
            /\ e = [cl EXCEPT !.alloc = allocate(@), !.sess = Bind(@, ch, new)]
            /\ Handled(e, <<f>>, cs)
    BY <1>2, Zenon DEF BeginSession
  <2>2. ch \notin DOMAIN cl.sess /\ Coherent(allocate(cl.alloc), Bind(cl.sess, ch, new), cl.remote, cl.max)
    BY <1>1, <1>2, <2>1, Allocates DEF End
  <2>3. PICK al, se : al = allocate(cl.alloc) /\ se = Bind(cl.sess, ch, new)
    BY Zenon
  <2>4. /\ DOMAIN e = EndFields /\ e.phase = cl.phase /\ e.result = cl.result /\ e.max = cl.max
        /\ e.alloc = al /\ e.sess = se /\ e.remote = cl.remote
    BY <1>1, <2>1, <2>3 DEF End, EndFields
  <2>5. End(e)
    BY <1>1, <2>2, <2>3, <2>4 DEF End, Handshake
  <2>6. DOMAIN se = DOMAIN cl.sess \cup {ch} /\ se[ch] = new /\ \A l \in DOMAIN cl.sess : l # ch => se[l] = cl.sess[l]
    BY SMTT(30), <2>3 DEF Bind
  <2>7. Range(cl.remote) \subseteq DOMAIN cl.sess
    BY <1>1 DEF End, Coherent
  <2>8. ClientSessions(e)
    <3>1. DOMAIN new = {"id", "phase", "ender"}
      BY Zenon, <2>1
    <3>2. \A l \in DOMAIN se : DOMAIN se[l] = {"id", "phase", "ender"}
      BY <1>1, <2>6, <3>1 DEF ClientSessions
    <3>3. \A l \in Range(cl.remote) : se[l] = cl.sess[l]
      BY <2>2, <2>6, <2>7
    <3> QED
      BY <1>1, <2>4, <3>2, <3>3 DEF ClientSessions
  <2>9. FromClient(f)
    BY Zenon, <2>1 DEF FromClient
  <2>10. PICK fs : fs = <<f>> /\ IsSeq(fs) /\ \A g \in Range(fs) : FromClient(g)
    BY <2>9, ClientFrames, Zenon
  <2>11. Handled(e, fs, cs)
    BY Zenon, <2>1, <2>10
  <2> QED
    BY <2>4, <2>5, <2>8, <2>10, <2>11, Handles
<1>3. CASE ~CanAllocate(cl.alloc, cl.max)
  <2>1. PICK cs : Handled(cl, <<>>, cs)
    BY <1>3, Zenon DEF BeginSession
  <2> QED
    BY Zenon, <1>1, <2>1, Short, Handles
<1> QED
  BY Zenon, <1>2, <1>3

LEMMA StepEndSession ==
    ASSUME IInv, cl.phase = "run", cmds # <<>>, NEW c, EndSession(c)
    PROVE  IInv'
<1>1. End(cl) /\ ClientSessions(cl)
  BY Zenon DEF IInv
<1>2. CASE c.ch \in DOMAIN cl.sess
  <2>1. PICK f, e, cs :
            /\ f = [k |-> "end", ch |-> c.ch, id |-> c.s, error |-> FALSE]
            /\ e = [cl EXCEPT !.alloc = cl.alloc, !.sess[c.ch].phase = "EndSent", !.sess[c.ch].ender = c.s]
            /\ Handled(e, <<f>>, cs)
    BY <1>2, Zenon DEF EndSession, KeptUntilEnded
  <2>2. PICK se : se = e.sess
    BY Zenon
  <2>3. /\ DOMAIN e = EndFields /\ e.phase = cl.phase /\ e.result = cl.result /\ e.max = cl.max
        /\ e.alloc = cl.alloc /\ e.remote = cl.remote
    BY <1>1, <2>1 DEF End, EndFields
  <2>4. /\ DOMAIN se = DOMAIN cl.sess
        /\ \A l \in DOMAIN cl.sess : l # c.ch => se[l] = cl.sess[l]
        /\ DOMAIN se[c.ch] = DOMAIN cl.sess[c.ch]
        /\ "phase" \in DOMAIN cl.sess[c.ch] => se[c.ch].phase = "EndSent"
    BY SMTT(30), <1>1, <1>2, <2>1, <2>2 DEF End, EndFields, ClientSessions
  <2>5. End(e)
    BY <1>1, <2>2, <2>3, <2>4 DEF End, Coherent
  <2>6. Range(cl.remote) \subseteq DOMAIN cl.sess
    BY Zenon, <1>1 DEF End, Coherent
  <2>7. ClientSessions(e)
    BY <1>1, <1>2, <2>2, <2>3, <2>4, <2>6 DEF ClientSessions
  <2>8. FromClient(f)
    BY Zenon, <2>1 DEF FromClient
  <2>9. PICK fs : fs = <<f>> /\ IsSeq(fs) /\ \A g \in Range(fs) : FromClient(g)
    BY <2>8, ClientFrames, Zenon
  <2>10. Handled(e, fs, cs)
    BY Zenon, <2>1, <2>9
  <2> QED
    BY <2>3, <2>5, <2>7, <2>9, <2>10, Handles
<1>3. CASE c.ch \notin DOMAIN cl.sess
  <2>1. PICK cs : Handled(cl, <<>>, cs)
    BY <1>3, Zenon DEF EndSession
  <2> QED
    BY <1>1, <2>1, Short, Handles
<1> QED
  BY <1>2, <1>3

LEMMA StepHandleCommand ==
    ASSUME IInv, HandleCommand PROVE IInv'
<1>1. cl.phase = "run" /\ cmds # <<>> /\ End(cl) /\ ClientSessions(cl)
  BY Zenon DEF IInv, HandleCommand
<1>2. PICK c : c = Head(cmds)
  BY Zenon
<1>3. c.k \in CommandKinds /\ (c.k = "begin" => c.s \in Sessions)
  BY <1>1, <1>2, Reads DEF IInv, Commands
<1> DEFINE f1 == [k |-> "close", error |-> FALSE]
           f2 == [k |-> c.k, ch |-> c.ch, id |-> c.s]
<1>4. \/ c.k = "begin" /\ BeginSession(c)
      \/ EndSession(c)
      \/ Handled([cl EXCEPT !.phase = "closing"], <<f1>>, call)
      \/ c.k \notin {"begin", "end", "close"} /\ LinkCommand(c)
  BY Zenon, <1>2 DEF HandleCommand
<1>5. CASE c.k = "begin" /\ BeginSession(c)
  BY Zenon, <1>1, <1>3, <1>5, StepBeginSession
<1>6. CASE EndSession(c)
  BY Zenon, <1>1, <1>6, StepEndSession
<1>7. CASE Handled([cl EXCEPT !.phase = "closing"], <<f1>>, call)
  <2>1. FromClient(f1)
    BY Zenon DEF FromClient
  <2> HIDE DEF f1
  <2>2. PICK e : e = [cl EXCEPT !.phase = "closing"] /\ Handled(e, <<f1>>, call)
    BY Zenon, <1>7
  <2>3. /\ DOMAIN e = EndFields /\ e.phase = "closing" /\ e.result = cl.result /\ e.max = cl.max
        /\ e.alloc = cl.alloc /\ e.sess = cl.sess /\ e.remote = cl.remote
    BY <1>1, <2>2 DEF End, EndFields
  <2>4. End(e) /\ ClientSessions(e)
    BY <1>1, <2>3 DEF End, ClientSessions, Handshake
  <2>5. PICK fs : fs = <<f1>> /\ IsSeq(fs) /\ \A g \in Range(fs) : FromClient(g)
    BY <2>1, ClientFrames, Zenon
  <2>6. Handled(e, fs, call)
    BY Zenon, <2>2, <2>5
  <2> QED
    BY <1>1, <2>3, <2>4, <2>5, <2>6, Handles
<1>8. CASE c.k \notin {"begin", "end", "close"} /\ LinkCommand(c)
  <2>0. c.k \in {"attach", "ack"}
    BY Zenon, <1>3, <1>8 DEF CommandKinds
  <2>1. Handled(cl, <<f2>>, call) \/ Handled(cl, <<>>, call)
    BY <1>8, Zenon DEF LinkCommand
  <2>2. FromClient(f2)
    BY <1>8, <2>0 DEF FromClient
  <2> HIDE DEF f2
  <2> QED
    BY <1>1, <2>1, <2>2, Short, Handles
<1> QED
  BY <1>4, <1>5, <1>6, <1>7, <1>8

\* The driver has read a frame and goes on.
LEMMA Consumes ==
    ASSUME IInv, cl.phase \in {"run", "closing"}, Arrives("cl"),
           NEW c, NEW fs, NEW cs, NEW m, Consumed(c, fs, cs, m),
           IsSeq(fs), \A f \in Range(fs) : FromClient(f),
           End(c), ClientSessions(c), c.max = cl.max,
           m \in [Sessions -> Marks],
           \A s \in Sessions : m[s] = msg[s] \/ msg[s] \notin {"resolved", "settled"}
    PROVE  IInv'
<1>1. /\ cl' = c /\ msg' = m /\ net' = [net EXCEPT !.cl = Tail(@), !.br = ToBroker(fs)]
      /\ UNCHANGED <<scen, br, cmds, hist>>
  BY Zenon DEF Consumed
<1>2. Commands'
  BY Zenon, <1>1 DEF IInv, Commands
<1>3. ClientWrites
  BY ZenonT(30), <1>1, ClientQueues
<1>4. Agreed /\ scen.bopen /\ cl'.max = ChannelMax(scen.cmax, scen.bmax)
  BY <1>1 DEF IInv, Stages
<1> QED
  BY <1>1, <1>2, <1>3, <1>4, ClientStep

LEMMA StepPeerCloses ==
    ASSUME IInv, Arrives("cl"), NEW f, PeerCloses(f)
    PROVE  IInv'
<1>1. PICK r : r \in Results \ {None} /\ ClientDone(r)
  BY Zenon DEF PeerCloses, Results, None
<1>2. PICK g : g = [k |-> "close", error |-> FALSE]
  BY ZenonT(30)
<1>3. FromClient(g)
  BY Zenon, <1>2 DEF FromClient
<1>4. PICK fs : fs = <<g>> /\ IsSeq(fs) /\ \A h \in Range(fs) : FromClient(h)
  BY <1>3, ClientFrames, Zenon
<1>5. net' = [net EXCEPT !.cl = Tail(@), !.br = ToBroker(fs)] /\ UNCHANGED <<scen, br, msg, hist>>
  BY <1>2, <1>4, Zenon DEF PeerCloses
<1>6. ClientWrites
  BY ZenonT(30), <1>4, <1>5, ClientQueues
<1> QED
  BY <1>1, <1>5, <1>6, ClientStops

\* A begin is taken only for a session that awaits one, and so has no remote
\* channel yet.
LEMMA StepPeerBegins ==
    ASSUME IInv, cl.phase = "run", Arrives("cl"), NEW f, PeerBegins(f)
    PROVE  IInv'
<1>1. End(cl) /\ ClientSessions(cl) /\ msg \in [Sessions -> Marks]
  BY Zenon DEF IInv, Outcomes
<1>2. CASE f.remote \in DOMAIN cl.sess /\ cl.sess[f.remote].phase = "BeginSent"
  <2>1. PICK e, cs :
            /\ e = [cl EXCEPT !.remote = Bind(@, f.ch, f.remote), !.sess[f.remote].phase = "Mapped"]
            /\ Consumed(e, <<>>, cs, msg)
    BY <1>2, Zenon DEF PeerBegins
  <2>2. f.remote \notin Range(cl.remote)
    BY Zenon, <1>1, <1>2 DEF ClientSessions
  <2>3. PICK re : re = Bind(cl.remote, f.ch, f.remote)
    BY Zenon
  <2>4. Coherent(cl.alloc, cl.sess, re, cl.max) /\ Range(re) \subseteq Range(cl.remote) \cup {f.remote}
    BY <1>1, <1>2, <2>2, <2>3, Binds DEF End
  <2>5. PICK se : se = e.sess
    BY Zenon
  <2>6. /\ DOMAIN e = EndFields /\ e.phase = cl.phase /\ e.result = cl.result /\ e.max = cl.max
        /\ e.alloc = cl.alloc /\ e.remote = re
    BY <1>1, <2>1, <2>3 DEF End, EndFields
  <2>7. /\ DOMAIN se = DOMAIN cl.sess
        /\ \A l \in DOMAIN cl.sess : l # f.remote => se[l] = cl.sess[l]
        /\ DOMAIN se[f.remote] = DOMAIN cl.sess[f.remote]
        /\ se[f.remote].phase = "Mapped"
    BY <1>1, <1>2, <2>1, <2>3, <2>5 DEF End, EndFields, ClientSessions
  <2>8. Coherent(cl.alloc, se, re, cl.max)
    BY Zenon, <2>4, <2>7 DEF Coherent
  <2>9. End(e)
    BY <1>1, <2>5, <2>6, <2>8 DEF End
  <2>10. Range(re) \subseteq DOMAIN cl.sess
    BY Zenon, <2>4 DEF Coherent
  <2>11. ClientSessions(e)
    <3>1. \A l \in DOMAIN se : DOMAIN se[l] = {"id", "phase", "ender"}
      BY <1>1, <1>2, <2>7 DEF ClientSessions
    <3>2. \A l \in Range(re) : se[l].phase # "BeginSent"
      BY Zenon, <1>1, <2>4, <2>7, <2>10 DEF ClientSessions
    <3> QED
      BY <2>5, <2>6, <3>1, <3>2 DEF ClientSessions
  <2> QED
    BY ZenonT(30), <1>1, <2>1, <2>6, <2>9, <2>11, Short, Consumes
<1>3. CASE ClientFails("protocol")
  BY <1>3, ClientFailing DEF Results, None
<1> QED
  BY <1>2, <1>3 DEF PeerBegins

LEMMA StepPeerEnds ==
    ASSUME IInv, cl.phase = "run", Arrives("cl"), NEW f, PeerEnds(f)
    PROVE  IInv'
<1>1. End(cl) /\ ClientSessions(cl) /\ msg \in [Sessions -> Marks]
  BY Zenon DEF IInv, Outcomes
<1>2. CASE f.ch \notin DOMAIN cl.remote
  <2>1. Consumed(cl, <<>>, call, msg)
    BY <1>2, Zenon DEF PeerEnds
  <2> QED
    BY <1>1, <2>1, Short, Consumes
<1>3. CASE f.ch \in DOMAIN cl.remote
  <2>1. PICK l, g, e, fs, cs :
            /\ l = cl.remote[f.ch]
            /\ g = [k |-> "end", ch |-> l, id |-> cl.sess[l].id, error |-> FALSE]
            /\ e = [cl EXCEPT !.sess = Unbind(@, l), !.remote = Unbind(@, f.ch), !.alloc = release(@, l)]
            /\ fs = IF Echoes(cl.sess[l]) THEN <<g>> ELSE <<>>
            /\ Consumed(e, fs, cs, msg)
    BY <1>3, ZenonT(30) DEF PeerEnds
  <2>2. PICK al, se, re : al = release(cl.alloc, l) /\ se = Unbind(cl.sess, l) /\ re = Unbind(cl.remote, f.ch)
    BY ZenonT(30)
  <2>3. /\ Coherent(al, se, re, cl.max) /\ Range(re) \subseteq Range(cl.remote)
        /\ \A x \in DOMAIN se : x \in DOMAIN cl.sess /\ se[x] = cl.sess[x]
    <3>1. Coherent(cl.alloc, cl.sess, cl.remote, cl.max)
      BY <1>1, Zenon DEF End
    <3>2. /\ Coherent(release(cl.alloc, cl.remote[f.ch]), Unbind(cl.sess, cl.remote[f.ch]),
                      Unbind(cl.remote, f.ch), cl.max)
          /\ Range(Unbind(cl.remote, f.ch)) \subseteq Range(cl.remote)
          /\ \A x \in DOMAIN Unbind(cl.sess, cl.remote[f.ch]) :
                x \in DOMAIN cl.sess /\ Unbind(cl.sess, cl.remote[f.ch])[x] = cl.sess[x]
      BY SMTT(30), <1>3, <3>1, Releases
    <3> QED
      BY Zenon, <2>1, <2>2, <3>2
  <2>4. /\ DOMAIN e = EndFields /\ e.phase = cl.phase /\ e.result = cl.result /\ e.max = cl.max
        /\ e.alloc = al /\ e.sess = se /\ e.remote = re
    BY Zenon, <1>1, <2>1, <2>2 DEF End, EndFields
  <2>5. End(e)
    BY SMTT(30), <1>1, <2>3, <2>4 DEF End, Handshake
  <2>6. Range(re) \subseteq DOMAIN se
    BY <2>3 DEF Coherent
  <2>7. ClientSessions(e)
    BY ZenonT(30), <1>1, <2>3, <2>4, <2>6 DEF ClientSessions
  <2>8. FromClient(g)
    BY <2>1 DEF FromClient
  <2>9. PICK gs : gs = <<g>> /\ IsSeq(gs) /\ \A h \in Range(gs) : FromClient(h)
    BY <2>8, ClientFrames, Zenon
  <2>10. IsSeq(fs) /\ \A h \in Range(fs) : FromClient(h)
    BY ZenonT(30), <2>1, <2>9, Short
  <2> QED
    BY ZenonT(30), <1>1, <2>1, <2>4, <2>5, <2>7, <2>10, Consumes
<1> QED
  BY <1>2, <1>3

LEMMA StepPeerLinkFrame ==
    ASSUME IInv, cl.phase = "run", Arrives("cl"), NEW f, PeerLinkFrame(f)
    PROVE  IInv'
<1>1. End(cl) /\ ClientSessions(cl) /\ msg \in [Sessions -> Marks]
  BY Zenon DEF IInv, Outcomes
<1>2. CASE f.ch \in DOMAIN cl.remote
  <2>1. PICK m : /\ m = IF f.k = "deliver" /\ msg[f.id] = "sent" THEN [msg EXCEPT ![f.id] = "got"] ELSE msg
                 /\ Consumed(cl, <<>>, call, m)
    BY <1>2, Zenon DEF PeerLinkFrame
  <2>2. /\ m \in [Sessions -> Marks]
        /\ \A s \in Sessions : m[s] = msg[s] \/ msg[s] \notin {"resolved", "settled"}
    BY ZenonT(30), <1>1, <2>1 DEF Marks
  <2> QED
    BY ZenonT(30), <1>1, <2>1, <2>2, ClientPlain, Consumes
<1>3. CASE ClientFails("protocol")
  BY Zenon, <1>3, ClientFailing DEF Results, None
<1> QED
  BY <1>2, <1>3 DEF PeerLinkFrame

LEMMA StepClientFrame ==
    ASSUME IInv, ClientFrame PROVE IInv'
<1>1. cl.phase = "run" /\ Arrives("cl")
  BY Zenon DEF ClientFrame
<1>2. PICK f : PeerCloses(f) \/ ClientFails("protocol") \/ PeerBegins(f) \/ PeerEnds(f) \/ PeerLinkFrame(f)
  BY Zenon DEF ClientFrame
<1>3. "protocol" \in Results \ {None}
  BY Zenon DEF Results, None
<1> QED
  BY <1>1, <1>2, <1>3, ClientFailing, StepPeerCloses, StepPeerBegins, StepPeerEnds, StepPeerLinkFrame

LEMMA StepClientClosing ==
    ASSUME IInv, ClientClosing PROVE IInv'
<1>1. cl.phase = "closing" /\ Arrives("cl") /\ End(cl) /\ ClientSessions(cl) /\ msg \in [Sessions -> Marks]
  BY Zenon DEF IInv, Outcomes, ClientClosing
<1>2. CASE Consumed(cl, <<>>, call, msg)
  BY <1>1, <1>2, Short, Consumes
<1>3. ASSUME NEW r \in Results \ {None}, ClientFails(r) PROVE IInv'
  BY <1>1, <1>3, ClientFailing
<1>4. Consumed(cl, <<>>, call, msg) \/ ClientFails("peer_error") \/ ClientFails("ok")
  BY Zenon DEF ClientClosing, ClientFails
<1> QED
  BY <1>2, <1>3, <1>4 DEF Results, None

\* The end of the stream, a time-out and a failed write end the driver.
LEMMA StepClientEnds ==
    ASSUME IInv, ClientEof \/ ClientTimesOut \/ ClientWriteFails
    PROVE  IInv'
<1>1. PICK r : r \in Results \ {None} /\ ClientDone(r)
  BY DEF ClientEof, ClientTimesOut, ClientWriteFails, Results, None
<1>2. UNCHANGED <<scen, br, net, msg, hist>>
  BY DEF ClientEof, ClientTimesOut, ClientWriteFails
<1>3. ClientWrites
  BY <1>2, ClientQueues, Short
<1> QED
  BY Zenon, <1>1, <1>2, <1>3, ClientStops

---------------------------------------------------------------------------
(* The steps of the broker *)

\* serve returns: what has resolved is forwarded before anything is requeued.
LEMMA BrokerStops ==
    ASSUME IInv, NEW r \in Results \ {None}, BrokerDone(r), BrokerWrites,
           UNCHANGED <<scen, cl, cmds, hist>>
    PROVE  IInv'
<1>1. /\ br' = [br EXCEPT !.phase = "done", !.result = r, !.open = FALSE]
      /\ msg' = [s \in Sessions |-> AtCleanup(msg[s])]
  BY Zenon DEF BrokerDone
<1>2. End(br) /\ BrokerSessions(br)
  BY Zenon DEF IInv
<1>3. /\ DOMAIN br' = EndFields /\ br'.phase = "done" /\ br'.result = r /\ br'.max = br.max
      /\ br'.alloc = br.alloc /\ br'.sess = br.sess /\ br'.remote = br.remote
  BY <1>1, <1>2 DEF End, EndFields
<1>4. End(br') /\ BrokerSessions(br') /\ br'.phase \notin Handshake
  BY <1>2, <1>3 DEF End, BrokerSessions, Handshake
<1>5. Outcomes'
  <2>1. /\ DOMAIN hist = {"acked", "ended", "verified"} /\ hist.acked \subseteq Sessions
        /\ msg \in [Sessions -> Marks]
        /\ \A s \in hist.acked \ hist.ended : msg[s] \in {"resolved", "settled"}
    BY Zenon DEF IInv, Outcomes
  <2>2. msg' \in [Sessions -> Marks]
    BY <1>1, <2>1 DEF AtCleanup, InFlight, Marks
  <2>3. \A s \in hist.acked \ hist.ended : msg'[s] = "settled"
    BY Zenon, <1>1, <2>1 DEF AtCleanup, InFlight
  <2> QED
    BY <2>1, <2>2, <2>3 DEF Outcomes
<1> QED
  BY <1>3, <1>4, <1>5, BrokerStep DEF Handshake

\* The frames of the broker other than its open.
LEMMA BrokerFrames ==
    /\ IsSeq(<<>>) /\ \A g \in Range(<<>>) : g.k # "open"
    /\ \A f : f.k # "open" => IsSeq(<<f>>) /\ \A g \in Range(<<f>>) : g.k # "open"
<1>1. IsSeq(<<>>) /\ Range(<<>>) = {}
  BY Short
<1>2. ASSUME NEW f, f.k # "open" PROVE IsSeq(<<f>>) /\ \A g \in Range(<<f>>) : g.k # "open"
  <2>1. IsSeq(<<f>>) /\ Range(<<f>>) = {f}
    BY Short, Zenon
  <2> QED
    BY <1>2, <2>1, Zenon
<1> QED
  BY <1>1, <1>2

LEMMA BrokerRefusing ==
    ASSUME IInv, NEW r \in Results \ {None}, Arrives("br"), NEW fs, BrokerRefuses(r, fs),
           IsSeq(fs), \A g \in Range(fs) : g.k # "open"
    PROVE  IInv'
<1>1. /\ BrokerDone(r) /\ net' = [net EXCEPT !.br = Tail(@), !.cl = ToClient(fs)]
      /\ UNCHANGED <<scen, cl, cmds, hist>>
  BY SMTT(30) DEF BrokerRefuses
<1>2. BrokerWrites
  BY ZenonT(30), <1>1, BrokerQueues
<1> QED
  BY <1>1, <1>2, BrokerStops

LEMMA BrokerFailing ==
    ASSUME IInv, NEW r \in Results \ {None}, Arrives("br"), BrokerFails(r)
    PROVE  IInv'
<1>1. PICK f : f = [k |-> "close", error |-> TRUE]
  BY ZenonT(30)
<1>2. IsSeq(<<f>>) /\ \A g \in Range(<<f>>) : g.k # "open"
  BY <1>1, BrokerFrames
<1>3. PICK fs : fs = <<f>>
  BY ZenonT(30)
<1>4. BrokerRefuses(r, fs)
  BY <1>1, <1>3, Zenon DEF BrokerFails
<1> QED
  BY <1>2, <1>3, <1>4, BrokerRefusing

\* The next stage of the broker's handshake.
LEMMA BrokerAdvances ==
    ASSUME IInv, Arrives("br"), br.phase \in Handshake, NEW p \in Handshake, NEW fs, IsSeq(fs),
           \A g \in Range(fs) : g.k # "open", BrokerSends(p, fs),
           p \in {"header2", "open"} => Accepted,
           p = "response" => scen.profile = "SCRAM" /\ scen.profile \in scen.mechs
    PROVE  IInv'
<1>1. /\ br' = [br EXCEPT !.phase = p] /\ net' = [net EXCEPT !.br = Tail(@), !.cl = ToClient(fs)]
      /\ UNCHANGED <<scen, cl, cmds, msg, hist>>
  BY Zenon DEF BrokerSends
<1>2. End(br) /\ BrokerSessions(br)
  BY Zenon DEF IInv
<1>3. /\ DOMAIN br' = EndFields /\ br'.phase = p /\ br'.result = br.result /\ br'.max = br.max
      /\ br'.alloc = br.alloc /\ br'.sess = br.sess /\ br'.remote = br.remote
  BY <1>1, <1>2 DEF End, EndFields
<1>4. End(br') /\ BrokerSessions(br') /\ br'.phase # "done"
  BY SMTT(30), <1>2, <1>3 DEF End, BrokerSessions, Handshake
<1>5. BrokerWrites
  BY ZenonT(30), <1>1, BrokerQueues
<1>6. Outcomes'
  BY <1>1, <1>4 DEF IInv, Outcomes
<1>7. Accepted' = Accepted
  BY <1>1 DEF Accepted
<1> QED
  BY SMTT(30), <1>1, <1>3, <1>4, <1>5, <1>6, <1>7, BrokerStep

\* The broker authenticates the client it has read an init or a response of.
LEMMA Authenticates ==
    ASSUME IInv, Arrives("br"), br.phase \in {"init", "response"}, NEW mech, NEW signed,
           BrokerAuthenticates(mech, signed),
           scen.good, mech = scen.profile, scen.profile \in scen.mechs
    PROVE  IInv'
<1>1. PICK f : f = Outcome(TRUE, signed) /\ f.k # "open"
  <2>1. Outcome(TRUE, signed).k # "open"
    BY Zenon DEF Outcome
  <2> QED
    BY <2>1, Zenon
<1>2. PICK fs : fs = <<f>> /\ IsSeq(fs) /\ \A g \in Range(fs) : g.k # "open"
  BY ZenonT(30), <1>1, BrokerFrames
<1>3. /\ br' = [br EXCEPT !.phase = "header2"]
      /\ net' = [net EXCEPT !.br = Tail(@), !.cl = ToClient(fs)]
      /\ hist' = [hist EXCEPT !.verified = mech]
      /\ UNCHANGED <<scen, cl, cmds, msg>>
  BY <1>1, <1>2, Zenon DEF BrokerAuthenticates
<1>4. End(br) /\ BrokerSessions(br)
  BY Zenon DEF IInv
<1>5. /\ DOMAIN br' = EndFields /\ br'.phase = "header2" /\ br'.result = br.result /\ br'.max = br.max
      /\ br'.alloc = br.alloc /\ br'.sess = br.sess /\ br'.remote = br.remote
  BY SMTT(30), <1>3, <1>4 DEF End, EndFields
<1>6. End(br') /\ BrokerSessions(br') /\ br.phase \in Handshake
  BY <1>4, <1>5 DEF End, BrokerSessions, Handshake
<1>7. BrokerWrites
  BY ZenonT(30), <1>2, <1>3, BrokerQueues
<1>8. /\ DOMAIN hist' = {"acked", "ended", "verified"} /\ hist'.acked = hist.acked
      /\ hist'.ended = hist.ended /\ hist'.verified = mech
  BY <1>3 DEF IInv, Outcomes
<1>9. Outcomes'
  BY <1>3, <1>5, <1>8 DEF IInv, Outcomes
<1>10. Accepted'
  BY SMTT(30), <1>3, <1>8 DEF Accepted
<1> QED
  BY SMTT(30), <1>3, <1>5, <1>6, <1>7, <1>9, <1>10, BrokerStep

LEMMA StepBrokerHeader ==
    ASSUME IInv, BrokerHeader PROVE IInv'
<1>1. br.phase \in {"header", "header2"} /\ Arrives("br")
  BY Zenon DEF BrokerHeader
<1>2. PICK w, f, g : /\ f = [k |-> "header", id |-> w]
                     /\ g = [k |-> "mechanisms", set |-> scen.mechs]
                     /\ \/ BrokerSends("init", <<f>> \o <<g>>)
                        \/ br.phase = "header2" /\ BrokerSends("open", <<f>>)
                        \/ BrokerRefuses("protocol", <<f>>)
  BY <1>1, Zenon DEF BrokerHeader
<1>3. f.k # "open" /\ g.k # "open"
  BY <1>2
<1>4. PICK fs : fs = <<f>> /\ IsSeq(fs) /\ \A h \in Range(fs) : h.k # "open"
  BY ZenonT(30), <1>3, BrokerFrames
<1>5. PICK gs : gs = <<f>> \o <<g>> /\ IsSeq(gs) /\ \A h \in Range(gs) : h.k # "open"
  <2>1. IsSeq(<<f>> \o <<g>>) /\ Range(<<f>> \o <<g>>) \subseteq {f, g}
    BY Short, Zenon
  <2> QED
    BY <1>3, <2>1, Zenon
<1>6. CASE BrokerSends("init", gs)
  BY ZenonT(30), <1>1, <1>5, <1>6, BrokerAdvances DEF Handshake
<1>7. CASE br.phase = "header2" /\ BrokerSends("open", fs)
  <2>1. Accepted
    BY <1>7 DEF IInv, Stages
  <2> QED
    BY SMTT(30), <1>1, <1>4, <1>7, <2>1, BrokerAdvances DEF Handshake
<1>8. CASE BrokerRefuses("protocol", fs)
  BY <1>1, <1>4, <1>8, BrokerRefusing DEF Results, None
<1> QED
  BY SMTT(30), <1>2, <1>4, <1>5, <1>6, <1>7, <1>8

\* What an init proves, and what it leaves to the response.
LEMMA StepBrokerInit ==
    ASSUME IInv, BrokerInit PROVE IInv'
<1>1. br.phase = "init" /\ Arrives("br")
  BY Zenon DEF BrokerInit
<1>2. PICK f : f = Head(net.br)
  BY Zenon
<1>3. FromClient(f)
  BY <1>1, <1>2, Reads DEF IInv, Network, Arrives
<1>4. PICK o, ch : o = Outcome(FALSE, FALSE) /\ ch = [k |-> "challenge"]
  BY ZenonT(30)
<1>5. o.k # "open" /\ ch.k # "open"
  BY <1>4 DEF Outcome
<1>6. PICK os, chs : /\ os = <<o>> /\ IsSeq(os) /\ \A g \in Range(os) : g.k # "open"
                     /\ chs = <<ch>> /\ IsSeq(chs) /\ \A g \in Range(chs) : g.k # "open"
  BY ZenonT(30), <1>5, BrokerFrames
<1>7. \/ f.k = "init" /\ f.mech = "SCRAM" /\ f.mech \in scen.mechs /\ BrokerSends("response", chs)
      \/ f.k = "init" /\ Verified(f) /\ BrokerAuthenticates(f.mech, FALSE)
      \/ BrokerRefuses("sasl", os)
      \/ BrokerRefuses("sasl", <<>>)
  BY ZenonT(30), <1>2, <1>4, <1>6 DEF BrokerInit
<1>8. CASE f.k = "init" /\ f.mech = "SCRAM" /\ f.mech \in scen.mechs /\ BrokerSends("response", chs)
  <2>1. scen.profile = "SCRAM" /\ scen.profile \in scen.mechs
    BY <1>3, <1>8 DEF FromClient
  <2> QED
    BY SMTT(30), <1>1, <1>6, <1>8, <2>1, BrokerAdvances DEF Handshake
<1>9. CASE f.k = "init" /\ Verified(f) /\ BrokerAuthenticates(f.mech, FALSE)
  <2>1. scen.good /\ f.mech = scen.profile /\ scen.profile \in scen.mechs
    BY ZenonT(30), <1>3, <1>9 DEF FromClient, Verified
  <2> QED
    BY ZenonT(30), <1>1, <1>9, <2>1, Authenticates
<1>10. CASE BrokerRefuses("sasl", os)
  BY ZenonT(30), <1>1, <1>6, <1>10, BrokerRefusing DEF Results, None
<1>11. CASE BrokerRefuses("sasl", <<>>)
  BY <1>1, <1>11, BrokerFrames, BrokerRefusing DEF Results, None
<1> QED
  BY ZenonT(30), <1>7, <1>8, <1>9, <1>10, <1>11

LEMMA StepBrokerResponse ==
    ASSUME IInv, BrokerResponse PROVE IInv'
<1>1. br.phase = "response" /\ Arrives("br")
  BY DEF BrokerResponse
<1>2. PICK f : f = Head(net.br)
  BY Zenon
<1>3. FromClient(f)
  BY <1>1, <1>2, Reads DEF IInv, Network, Arrives
<1>4. PICK o : o = Outcome(FALSE, FALSE)
  BY Zenon
<1>5. o.k # "open"
  BY <1>4 DEF Outcome
<1>6. PICK os : os = <<o>> /\ IsSeq(os) /\ \A g \in Range(os) : g.k # "open"
  BY ZenonT(30), <1>5, BrokerFrames
<1>7. \/ f.k = "response" /\ f.good /\ BrokerAuthenticates("SCRAM", TRUE)
      \/ BrokerRefuses("sasl", os)
      \/ BrokerRefuses("sasl", <<>>)
  BY ZenonT(30), <1>2, <1>4, <1>6 DEF BrokerResponse
<1>8. CASE f.k = "response" /\ f.good /\ BrokerAuthenticates("SCRAM", TRUE)
  <2>1. scen.good /\ scen.profile = "SCRAM" /\ scen.profile \in scen.mechs
    BY ZenonT(30), <1>1, <1>3, <1>8 DEF FromClient, IInv, Stages
  <2> QED
    BY ZenonT(30), <1>1, <1>8, <2>1, Authenticates
<1>9. CASE BrokerRefuses("sasl", os)
  BY <1>1, <1>6, <1>9, BrokerRefusing DEF Results, None
<1>10. CASE BrokerRefuses("sasl", <<>>)
  BY <1>1, <1>10, BrokerFrames, BrokerRefusing DEF Results, None
<1> QED
  BY ZenonT(30), <1>7, <1>8, <1>9, <1>10

\* The broker takes the client's open and sends its own: from here on its part
\* of the agreement holds.
LEMMA StepBrokerOpen ==
    ASSUME IInv, BrokerOpen PROVE IInv'
<1>1. br.phase = "open" /\ Arrives("br")
  BY SMTT(30) DEF BrokerOpen
<1>2. PICK f : f = Head(net.br)
  BY Zenon
<1>3. FromClient(f)
  BY <1>1, <1>2, Reads DEF IInv, Network, Arrives
<1>4. PICK o : o = [k |-> "open", good |-> scen.bopen, max |-> scen.bmax]
  BY ZenonT(30)
<1>5. PICK os : os = <<o>> /\ IsSeq(os) /\ Range(os) = {o}
  BY Short, Zenon
<1>6. CASE BrokerRefuses("protocol", <<>>)
  BY <1>1, <1>6, BrokerFrames, BrokerRefusing DEF Results, None
<1>7. CASE /\ f.k = "open" /\ f.good
           /\ br' = [br EXCEPT !.phase = "run", !.max = ChannelMax(scen.bmax, f.max)]
           /\ net' = [net EXCEPT !.br = Tail(@), !.cl = ToClient(os)]
           /\ UNCHANGED <<scen, cl, cmds, msg, hist>>
  <2>1. scen.copen /\ f.max = scen.cmax /\ Accepted
    BY ZenonT(30), <1>1, <1>3, <1>7 DEF FromClient, IInv, Stages
  <2>2. End(br) /\ BrokerSessions(br)
    BY SMTT(30) DEF IInv
  <2>3. ChannelMax(scen.bmax, scen.cmax) \in Nat
    BY ScenariosAssumption DEF IInv, Stages, ChannelMax
  <2>4. /\ DOMAIN br' = EndFields /\ br'.phase = "run" /\ br'.result = br.result
        /\ br'.max = ChannelMax(scen.bmax, scen.cmax)
        /\ br'.alloc = br.alloc /\ br'.sess = br.sess /\ br'.remote = br.remote
    BY <1>7, <2>1, <2>2 DEF End, EndFields
  <2>5. br.alloc.next = 0
    BY ZenonT(30), <1>1, <2>2 DEF End, Handshake
  <2>6. Coherent(br'.alloc, br'.sess, br'.remote, br'.max)
    BY SMTT(30), <2>2, <2>3, <2>4, <2>5 DEF End, Coherent
  <2>7. End(br') /\ BrokerSessions(br') /\ br.phase \in Handshake
    BY <1>1, <2>2, <2>4, <2>6 DEF End, BrokerSessions, Handshake
  <2>8. Agreed'
    BY SMTT(30), <1>7, <2>1, <2>4 DEF Agreed, Accepted, Handshake
  <2>9. BrokerWrites
    <3>1. \A g \in Range(os) : g.k = "open" => g.good = scen.bopen /\ g.max = scen.bmax /\ Agreed'
      BY <1>4, <1>5, <2>8
    <3> QED
      BY ZenonT(30), <1>1, <1>5, <1>7, <3>1, BrokerQueues
  <2>10. Outcomes'
    BY Zenon, <1>7, <2>4 DEF IInv, Outcomes
  <2> QED
    BY SMTT(30), <1>7, <2>4, <2>7, <2>9, <2>10, BrokerStep
<1> QED
  BY <1>2, <1>4, <1>5, <1>6, <1>7 DEF BrokerOpen

\* The broker has read a frame and serves on.
LEMMA Serves ==
    ASSUME IInv, br.phase \in {"run", "closing"}, Arrives("br"),
           NEW b, NEW fs, NEW m, NEW h, NEW lf, ServedSpending(b, fs, m, h, lf),
           IsSeq(fs), \A g \in Range(fs) : g.k # "open",
           End(b), BrokerSessions(b), b.phase = br.phase, b.max = br.max,
           DOMAIN h = {"acked", "ended", "verified"}, h.verified = hist.verified,
           h.acked \subseteq Sessions, m \in [Sessions -> Marks],
           \A s \in h.acked \ h.ended : m[s] \in {"resolved", "settled"}
    PROVE  IInv'
<1>1. /\ br' = b /\ msg' = m /\ hist' = h /\ net' = [net EXCEPT !.br = Tail(@), !.cl = ToClient(fs)]
      /\ UNCHANGED <<scen, cl, cmds>>
  BY Zenon DEF ServedSpending
<1>2. BrokerWrites
  BY ZenonT(30), <1>1, BrokerQueues
<1>3. Outcomes'
  BY Zenon, <1>1 DEF Outcomes
<1>4. br'.phase \notin Handshake
  BY Zenon, <1>1 DEF Handshake
<1> QED
  BY <1>1, <1>2, <1>3, <1>4, BrokerStep DEF Handshake

\* ... having changed no delivery.
LEMMA ServesOn ==
    ASSUME IInv, br.phase \in {"run", "closing"}, Arrives("br"),
           NEW b, NEW fs, Served(b, fs, msg, hist),
           IsSeq(fs), \A g \in Range(fs) : g.k # "open",
           End(b), BrokerSessions(b), b.phase = br.phase, b.max = br.max
    PROVE  IInv'
<1>1. ServedSpending(b, fs, msg, hist, left)
  BY ZenonT(30) DEF Served
<1>2. /\ DOMAIN hist = {"acked", "ended", "verified"} /\ hist.acked \subseteq Sessions
      /\ msg \in [Sessions -> Marks]
      /\ \A s \in hist.acked \ hist.ended : msg[s] \in {"resolved", "settled"}
  BY Zenon DEF IInv, Outcomes
<1> QED
  BY ZenonT(30), <1>1, <1>2, Serves

LEMMA Ignores ==
    ASSUME IInv, br.phase \in {"run", "closing"}, Arrives("br"), Ignored
    PROVE  IInv'
<1>1. End(br) /\ BrokerSessions(br)
  BY Zenon DEF IInv
<1> QED
  BY Zenon, <1>1, BrokerFrames, ServesOn DEF Ignored

LEMMA StepPeerBegin ==
    ASSUME IInv, br.phase = "run", Arrives("br"), NEW f, f.id \in Sessions, PeerBegin(f)
    PROVE  IInv'
<1>1. End(br) /\ BrokerSessions(br) /\ Coherent(br.alloc, br.sess, br.remote, br.max)
  BY Zenon DEF IInv, End
<1>2. CASE BrokerFails("protocol") \/ BrokerFails("capacity")
  BY Zenon, <1>2, BrokerFailing DEF Results, None
<1>3. CASE CanAllocate(br.alloc, br.max) /\ ~(BrokerFails("protocol") \/ BrokerFails("capacity"))
  <2>1. PICK l, new, g, e :
            /\ l = Allocated(br.alloc)
            /\ new = [id |-> f.id, attached |-> FALSE]
            /\ g = [k |-> "begin", ch |-> l, remote |-> f.ch, id |-> f.id]
            /\ e = [br EXCEPT !.alloc = allocate(@), !.remote = Bind(@, f.ch, l),
                              !.discarding = @ \ {f.ch}, !.sess = Bind(@, l, new)]
            /\ Served(e, <<g>>, msg, hist)
    BY <1>3, Zenon DEF PeerBegin
  <2>2. PICK al, se, re : al = allocate(br.alloc) /\ se = Bind(br.sess, l, new) /\ re = Bind(br.remote, f.ch, l)
    BY Zenon
  <2>3. l \notin DOMAIN br.sess /\ Coherent(al, se, br.remote, br.max)
    BY Zenon, <1>1, <1>3, <2>1, <2>2, Allocates
  <2>4. DOMAIN se = DOMAIN br.sess \cup {l} /\ se[l] = new /\ \A x \in DOMAIN br.sess : x # l => se[x] = br.sess[x]
    BY Zenon, <2>2 DEF Bind
  <2>5. l \in DOMAIN se /\ l \notin Range(br.remote)
    BY ZenonT(30), <1>1, <2>3, <2>4 DEF Coherent
  <2>6. Coherent(al, se, re, br.max)
    BY <2>2, <2>3, <2>5, Binds
  <2>7. /\ DOMAIN e = EndFields /\ e.phase = br.phase /\ e.result = br.result /\ e.max = br.max
        /\ e.alloc = al /\ e.sess = se /\ e.remote = re
    BY ZenonT(30), <1>1, <2>1, <2>2 DEF End, EndFields
  <2>8. End(e)
    BY Zenon, <1>1, <2>6, <2>7 DEF End, Handshake
  <2>9. DOMAIN new = {"id", "attached"} /\ new.id \in Sessions /\ g.k # "open"
    BY Zenon, <2>1
  <2>10. BrokerSessions(e)
    BY ZenonT(30), <1>1, <2>4, <2>7, <2>9 DEF BrokerSessions
  <2>11. PICK gs : gs = <<g>> /\ IsSeq(gs) /\ \A h \in Range(gs) : h.k # "open"
    BY ZenonT(30), <2>9, BrokerFrames
  <2>12. Served(e, gs, msg, hist)
    BY Zenon, <2>1, <2>11
  <2> QED
    BY ZenonT(30), <2>7, <2>8, <2>10, <2>11, <2>12, ServesOn
<1> QED
  BY ZenonT(30), <1>2, <1>3 DEF PeerBegin

\* A session ends: what of it has not been forwarded goes back to its queue.
LEMMA StepSessionEnds ==
    ASSUME IInv, br.phase = "run", Arrives("br"), NEW f, f.ch \in DOMAIN br.remote,
           NEW marked, NEW error, NEW lf, SessionEnds(f, marked, error, lf)
    PROVE  IInv'
<1>1. End(br) /\ BrokerSessions(br) /\ Coherent(br.alloc, br.sess, br.remote, br.max)
  BY Zenon DEF IInv, End
<1>2. PICK l, id, g, e, m, h :
          /\ l = br.remote[f.ch] /\ id = br.sess[l].id
          /\ g = [k |-> "end", ch |-> l, id |-> id, error |-> error]
          /\ e = [br EXCEPT !.sess = Unbind(@, l), !.remote = Unbind(@, f.ch),
                            !.alloc = release(@, l), !.discarding = @ \cup marked]
          /\ m = [msg EXCEPT ![id] = AtSessionEnd(@)]
          /\ h = [hist EXCEPT !.ended = @ \cup {id}]
          /\ ServedSpending(e, <<g>>, m, h, lf)
  BY Zenon DEF SessionEnds
<1>3. PICK al, se, re : al = release(br.alloc, l) /\ se = Unbind(br.sess, l) /\ re = Unbind(br.remote, f.ch)
  BY Zenon
<1>4. /\ Coherent(al, se, re, br.max) /\ l \in DOMAIN br.sess
      /\ \A x \in DOMAIN se : x \in DOMAIN br.sess /\ se[x] = br.sess[x]
  <2>1. PICK a, s, r, x, c : /\ a = br.alloc /\ s = br.sess /\ r = br.remote /\ x = br.max /\ c = f.ch
                             /\ Coherent(a, s, r, x) /\ c \in DOMAIN r
    BY ZenonT(30), <1>1
  <2>2. /\ Coherent(release(a, r[c]), Unbind(s, r[c]), Unbind(r, c), x)
        /\ \A y \in DOMAIN Unbind(s, r[c]) : y \in DOMAIN s /\ Unbind(s, r[c])[y] = s[y]
        /\ r[c] \in DOMAIN s
    BY <2>1, Releases
  <2>3. l = r[c] /\ al = release(a, r[c]) /\ se = Unbind(s, r[c]) /\ re = Unbind(r, c)
    BY Zenon, <1>2, <1>3, <2>1
  <2> QED
    BY ZenonT(30), <2>1, <2>2, <2>3
<1>5. /\ DOMAIN e = EndFields /\ e.phase = br.phase /\ e.result = br.result /\ e.max = br.max
      /\ e.alloc = al /\ e.sess = se /\ e.remote = re
  BY ZenonT(30), <1>1, <1>2, <1>3 DEF End, EndFields
<1>6. End(e)
  BY ZenonT(30), <1>1, <1>4, <1>5 DEF End, Handshake
<1>7. BrokerSessions(e)
  BY ZenonT(30), <1>1, <1>4, <1>5 DEF BrokerSessions
<1>8. id \in Sessions /\ g.k # "open"
  BY ZenonT(30), <1>1, <1>2, <1>4 DEF BrokerSessions
<1>9. PICK gs : gs = <<g>> /\ IsSeq(gs) /\ \A x \in Range(gs) : x.k # "open"
  BY ZenonT(30), <1>8, BrokerFrames
<1>10. ServedSpending(e, gs, m, h, lf)
  BY ZenonT(30), <1>2, <1>9
<1>11. /\ DOMAIN hist = {"acked", "ended", "verified"} /\ hist.acked \subseteq Sessions
       /\ msg \in [Sessions -> Marks]
       /\ \A s \in hist.acked \ hist.ended : msg[s] \in {"resolved", "settled"}
  BY Zenon DEF IInv, Outcomes
<1>12. m \in [Sessions -> Marks] /\ \A s \in Sessions : s # id => m[s] = msg[s]
  BY ZenonT(30), <1>2, <1>8, <1>11 DEF AtSessionEnd, InFlight, Marks
<1>13. /\ DOMAIN h = {"acked", "ended", "verified"} /\ h.verified = hist.verified
       /\ h.acked = hist.acked /\ h.ended = hist.ended \cup {id}
  BY ZenonT(30), <1>2, <1>11
<1>14. \A s \in h.acked \ h.ended : m[s] \in {"resolved", "settled"}
  BY Zenon, <1>11, <1>12, <1>13
<1>15. br.phase \in {"run", "closing"} /\ h.acked \subseteq Sessions
  BY Zenon, <1>11, <1>13
<1> QED
  BY ZenonT(30), <1>5, <1>6, <1>7, <1>9, <1>10, <1>12, <1>13, <1>14, <1>15, Serves

LEMMA StepPeerEnd ==
    ASSUME IInv, br.phase = "run", Arrives("br"), NEW f, PeerEnd(f)
    PROVE  IInv'
<1>1. End(br) /\ BrokerSessions(br)
  BY Zenon DEF IInv
<1>2. CASE Served([br EXCEPT !.discarding = @ \ {f.ch}], <<>>, msg, hist)
  <2>1. PICK e : e = [br EXCEPT !.discarding = @ \ {f.ch}] /\ Served(e, <<>>, msg, hist)
    BY <1>2, Zenon
  <2>2. /\ DOMAIN e = EndFields /\ e.phase = br.phase /\ e.result = br.result /\ e.max = br.max
        /\ e.alloc = br.alloc /\ e.sess = br.sess /\ e.remote = br.remote
    BY Zenon, <1>1, <2>1 DEF End, EndFields
  <2>3. End(e) /\ BrokerSessions(e)
    BY Zenon, <1>1, <2>2 DEF End, BrokerSessions
  <2> QED
    BY ZenonT(30), <2>1, <2>2, <2>3, BrokerFrames, ServesOn
<1>3. CASE Ignored
  BY Zenon, <1>3, Ignores
<1>4. CASE f.ch \in DOMAIN br.remote /\ SessionEnds(f, {}, FALSE, left)
  BY ZenonT(30), <1>4, StepSessionEnds
<1> QED
  BY ZenonT(30), <1>2, <1>3, <1>4 DEF PeerEnd

LEMMA StepPeerAttach ==
    ASSUME IInv, br.phase = "run", Arrives("br"), NEW f, f.ch \in DOMAIN br.remote, PeerAttach(f)
    PROVE  IInv'
<1>1. End(br) /\ BrokerSessions(br)
  BY Zenon DEF IInv
<1>2. PICK l, g, e : /\ l = br.remote[f.ch]
                     /\ g = [k |-> "attached", ch |-> l, id |-> br.sess[l].id]
                     /\ e = [br EXCEPT !.sess[l].attached = TRUE]
  BY ZenonT(30)
<1>3. CASE Served(e, <<g>>, msg, hist)
  <2>1. PICK se : se = e.sess
    BY Zenon
  <2>2. /\ DOMAIN e = EndFields /\ e.phase = br.phase /\ e.result = br.result /\ e.max = br.max
        /\ e.alloc = br.alloc /\ e.remote = br.remote
    BY ZenonT(30), <1>1, <1>2 DEF End, EndFields
  <2>3. l \in DOMAIN br.sess
    BY <1>1, <1>2 DEF End, Coherent, Range
  <2>4. /\ DOMAIN se = DOMAIN br.sess
        /\ \A x \in DOMAIN br.sess : x # l => se[x] = br.sess[x]
        /\ DOMAIN se[l] = DOMAIN br.sess[l] /\ se[l].id = br.sess[l].id
    BY ZenonT(30), <1>1, <1>2, <2>1, <2>3 DEF End, EndFields, BrokerSessions
  <2>5. End(e)
    <3>1. Coherent(br.alloc, se, br.remote, br.max)
      BY ZenonT(30), <1>1, <2>4 DEF End, Coherent
    <3> QED
      BY ZenonT(30), <1>1, <2>1, <2>2, <3>1 DEF End
  <2>6. BrokerSessions(e)
    BY ZenonT(30), <1>1, <2>1, <2>3, <2>4 DEF BrokerSessions
  <2>7. g.k # "open"
    BY Zenon, <1>2
  <2>8. PICK gs : gs = <<g>> /\ IsSeq(gs) /\ \A x \in Range(gs) : x.k # "open"
    BY ZenonT(30), <2>7, BrokerFrames
  <2> QED
    BY Zenon, <1>3, <2>2, <2>5, <2>6, <2>8, ServesOn
<1>4. CASE \E lf : SessionEnds(f, Marked(f.ch), TRUE, lf)
  BY ZenonT(30), <1>4, StepSessionEnds
<1> QED
  BY <1>2, <1>3, <1>4, Zenon DEF PeerAttach

\* A disposition is read for a delivery its session still holds.
LEMMA StepPeerAck ==
    ASSUME IInv, br.phase = "run", Arrives("br"), NEW f, f.ch \in DOMAIN br.remote, PeerAck(f)
    PROVE  IInv'
<1>1. End(br) /\ BrokerSessions(br)
  BY Zenon DEF IInv
<1>2. PICK l, id : l = br.remote[f.ch] /\ id = br.sess[l].id
  BY Zenon
<1>3. id \in Sessions
  BY Zenon, <1>1, <1>2 DEF End, Coherent, Range, BrokerSessions
<1>4. PICK m, h : m = [msg EXCEPT ![id] = "resolved"] /\ h = [hist EXCEPT !.acked = @ \cup {id}]
  BY ZenonT(30)
<1>5. CASE Served(br, <<>>, m, h)
  <2>1. ServedSpending(br, <<>>, m, h, left)
    BY <1>5, ZenonT(30) DEF Served
  <2>2. /\ DOMAIN hist = {"acked", "ended", "verified"} /\ hist.acked \subseteq Sessions
        /\ msg \in [Sessions -> Marks]
        /\ \A s \in hist.acked \ hist.ended : msg[s] \in {"resolved", "settled"}
    BY Zenon DEF IInv, Outcomes
  <2>3. /\ m \in [Sessions -> Marks] /\ m[id] = "resolved"
        /\ \A s \in Sessions : s # id => m[s] = msg[s]
    BY Zenon, <1>3, <1>4, <2>2 DEF Marks
  <2>4. /\ DOMAIN h = {"acked", "ended", "verified"} /\ h.verified = hist.verified
        /\ h.acked = hist.acked \cup {id} /\ h.ended = hist.ended
    BY Zenon, <1>4, <2>2
  <2>5. h.acked \subseteq Sessions /\ \A s \in h.acked \ h.ended : m[s] \in {"resolved", "settled"}
    BY <1>3, <2>2, <2>3, <2>4
  <2> QED
    BY ZenonT(30), <1>1, <2>1, <2>3, <2>4, <2>5, BrokerFrames, Serves
<1>6. CASE Ignored
  BY Zenon, <1>6, Ignores
<1> QED
  BY <1>2, <1>4, <1>5, <1>6, Zenon DEF PeerAck

LEMMA StepBrokerFrame ==
    ASSUME IInv, BrokerFrame PROVE IInv'
<1>1. br.phase = "run" /\ Arrives("br")
  BY Zenon DEF BrokerFrame
<1>2. PICK f : f = Head(net.br)
  BY Zenon
<1>3. FromClient(f)
  BY <1>1, <1>2, Reads DEF IInv, Network, Arrives
<1>4. PICK g : g = [k |-> "close", error |-> FALSE]
  BY ZenonT(30)
<1>5. PICK gs : gs = <<g>> /\ IsSeq(gs) /\ \A x \in Range(gs) : x.k # "open"
  BY ZenonT(30), <1>4, BrokerFrames
<1>6. \/ BrokerRefuses("ok", gs)
      \/ f.k = "begin" /\ PeerBegin(f)
      \/ PeerEnd(f)
      \/ f.ch \in DOMAIN br.remote /\ PeerAttach(f)
      \/ f.ch \in DOMAIN br.remote /\ PeerAck(f)
      \/ Ignored
      \/ BrokerFails("protocol")
  BY <1>2, <1>4, <1>5 DEF BrokerFrame
<1>7. CASE BrokerRefuses("ok", gs)
  BY <1>1, <1>5, <1>7, BrokerRefusing DEF Results, None
<1>8. CASE f.k = "begin" /\ PeerBegin(f)
  BY <1>1, <1>3, <1>8, StepPeerBegin DEF FromClient
<1>9. CASE BrokerFails("protocol")
  BY Zenon, <1>1, <1>9, BrokerFailing DEF Results, None
<1> QED
  BY ZenonT(30), <1>1, <1>6, <1>7, <1>8, <1>9, StepPeerEnd, StepPeerAttach, StepPeerAck, Ignores

\* A delivery is made once, so never over an outcome.
LEMMA StepDeliver ==
    ASSUME IInv, Deliver PROVE IInv'
<1>1. PICK l \in DOMAIN br.sess : \E s :
          /\ s = br.sess[l] /\ br.phase = "run" /\ msg[s.id] = None
          /\ msg' = [msg EXCEPT ![s.id] = "sent"]
          /\ net' = [net EXCEPT !.cl = ToClient(<<[k |-> "deliver", ch |-> l, id |-> s.id]>>)]
          /\ UNCHANGED <<scen, cl, br, cmds, hist>>
  BY Zenon DEF Deliver
<1>2. PICK id, g : /\ id = br.sess[l].id /\ g = [k |-> "deliver", ch |-> l, id |-> id]
                   /\ br.phase = "run" /\ msg[id] = None
                   /\ msg' = [msg EXCEPT ![id] = "sent"]
                   /\ net' = [net EXCEPT !.cl = ToClient(<<g>>)]
                   /\ UNCHANGED <<scen, cl, br, cmds, hist>>
  BY <1>1, Zenon
<1>3. End(br) /\ BrokerSessions(br) /\ id \in Sessions
  BY Zenon, <1>2 DEF IInv, BrokerSessions
<1>4. g.k # "open"
  BY Zenon, <1>2
<1>5. PICK gs : gs = <<g>> /\ IsSeq(gs) /\ \A x \in Range(gs) : x.k # "open"
  BY ZenonT(30), <1>4, BrokerFrames
<1>6. net' = [net EXCEPT !.cl = ToClient(gs)]
  BY <1>2, <1>5, Zenon
<1>7. BrokerWrites
  BY ZenonT(30), <1>5, <1>6, BrokerQueues
<1>8. Outcomes'
  BY <1>2, <1>3 DEF IInv, Outcomes, Marks, None
<1>9. br.phase \notin Handshake
  BY SMTT(30), <1>2 DEF Handshake
<1> QED
  BY <1>2, <1>3, <1>7, <1>8, <1>9, BrokerStep DEF Handshake

LEMMA StepForward ==
    ASSUME IInv, Forward PROVE IInv'
<1>1. /\ br.phase = "run"
      /\ msg' = [s \in Sessions |-> IF msg[s] = "resolved" THEN "settled" ELSE msg[s]]
      /\ UNCHANGED <<scen, cl, br, net, cmds, hist>>
  BY Zenon DEF Forward
<1>2. End(br) /\ BrokerSessions(br) /\ br.phase \notin Handshake
  BY Zenon, <1>1 DEF IInv, Handshake
<1>3. BrokerWrites
  BY ZenonT(30), <1>1, BrokerFrames, BrokerQueues
<1>4. Outcomes'
  BY <1>1 DEF IInv, Outcomes, Marks
<1> QED
  BY <1>1, <1>2, <1>3, <1>4, BrokerStep DEF Handshake

LEMMA StepShutdown ==
    ASSUME IInv, Shutdown PROVE IInv'
<1>1. PICK g : g = [k |-> "close", error |-> FALSE]
  BY ZenonT(30)
<1>2. PICK gs : gs = <<g>> /\ IsSeq(gs) /\ \A x \in Range(gs) : x.k # "open"
  BY ZenonT(30), <1>1, BrokerFrames
<1>3. /\ br.phase = "run" /\ br' = [br EXCEPT !.phase = "closing"]
      /\ net' = [net EXCEPT !.cl = ToClient(gs)]
      /\ UNCHANGED <<scen, cl, cmds, msg, hist>>
  BY <1>1, <1>2, Zenon DEF Shutdown
<1>4. End(br) /\ BrokerSessions(br)
  BY Zenon DEF IInv
<1>5. /\ DOMAIN br' = EndFields /\ br'.phase = "closing" /\ br'.result = br.result /\ br'.max = br.max
      /\ br'.alloc = br.alloc /\ br'.sess = br.sess /\ br'.remote = br.remote
  BY <1>3, <1>4 DEF End, EndFields
<1>6. End(br') /\ BrokerSessions(br') /\ br'.phase \notin Handshake
  BY SMTT(30), <1>3, <1>4, <1>5 DEF End, BrokerSessions, Handshake
<1>7. BrokerWrites
  BY ZenonT(30), <1>2, <1>3, BrokerQueues
<1>8. Outcomes'
  BY <1>3, <1>5 DEF IInv, Outcomes
<1> QED
  BY SMTT(30), <1>3, <1>5, <1>6, <1>7, <1>8, BrokerStep DEF Handshake

LEMMA StepBrokerClosing ==
    ASSUME IInv, BrokerClosing PROVE IInv'
<1>1. br.phase = "closing" /\ Arrives("br") /\ (BrokerRefuses("ok", <<>>) \/ Ignored)
  BY Zenon DEF BrokerClosing
<1>2. "ok" \in Results \ {None}
  BY Zenon DEF Results, None
<1> QED
  BY <1>1, <1>2, BrokerFrames, BrokerRefusing, Ignores

\* The end of the stream and a time-out end the connection task.
LEMMA StepBrokerEnds ==
    ASSUME IInv, BrokerEof \/ BrokerTimesOut
    PROVE  IInv'
<1>1. PICK r : r \in Results \ {None} /\ BrokerDone(r)
  BY Zenon DEF BrokerEof, BrokerTimesOut, Results, None
<1>2. PICK g : g = [k |-> "close", error |-> TRUE]
  BY ZenonT(30)
<1>3. PICK gs : gs = <<g>> /\ IsSeq(gs) /\ \A x \in Range(gs) : x.k # "open"
  BY ZenonT(30), <1>2, BrokerFrames
<1>4. UNCHANGED <<scen, cl, cmds, hist>> /\ (net' = net \/ net' = [net EXCEPT !.cl = ToClient(gs)])
  BY <1>2, <1>3, Zenon DEF BrokerEof, BrokerTimesOut
<1>5. BrokerWrites
  BY ZenonT(30), <1>3, <1>4, BrokerQueues
<1> QED
  BY <1>1, <1>4, <1>5, BrokerStops

---------------------------------------------------------------------------
(* The theorems *)

\* A connection that has just been made.
LEMMA InitIInv == Init => IInv
<1> SUFFICES ASSUME Init PROVE IInv
  BY ZenonT(30)
<1>1. /\ scen \in Scenarios /\ cl = NewEnd("header") /\ br = NewEnd("header") /\ cmds = <<>>
      /\ net = [cl |-> <<>>, br |-> <<[k |-> "header", id |-> "SASL"]>>]
      /\ msg = [s \in Sessions |-> None] /\ hist = [acked |-> {}, ended |-> {}, verified |-> None]
  BY SMTT(30) DEF Init
<1>2. ASSUME NEW e, e = NewEnd("header") PROVE End(e) /\ DOMAIN e.sess = {} /\ Range(e.remote) = {}
  <2>1. /\ DOMAIN e = EndFields /\ e.phase = "header" /\ e.result = None /\ e.max = 0
        /\ e.alloc = [next |-> 0, free |-> <<>>] /\ DOMAIN e.sess = {} /\ DOMAIN e.remote = {}
    BY Zenon, <1>2 DEF NewEnd, EndFields, NewAllocator, Empty
  <2>2. Range(e.remote) = {} /\ IsInjective(e.remote)
    BY <2>1 DEF Range, IsInjective
  <2>3. Range(<<>>) = {} /\ IsInjective(<<>>)
    BY SMTT(30), Short DEF IsInjective
  <2>4. Coherent(e.alloc, e.sess, e.remote, e.max)
    BY SMTT(30), <2>1, <2>2, <2>3 DEF Coherent
  <2> QED
    BY SMTT(30), <2>1, <2>2, <2>4 DEF End, Handshake, Results, None
<1>3. End(cl) /\ ClientSessions(cl) /\ End(br) /\ BrokerSessions(br)
  BY ZenonT(30), <1>1, <1>2 DEF ClientSessions, BrokerSessions
<1>4. Network
  <2>1. PICK f : f = [k |-> "header", id |-> "SASL"] /\ net.br = <<f>> /\ net.cl = <<>> /\ DOMAIN net = {"cl", "br"}
    BY <1>1
  <2>2. FromClient(f)
    BY <2>1 DEF FromClient
  <2>3. IsSeq(<<f>>) /\ \A g \in Range(<<f>>) : FromClient(g)
    BY <2>2, ClientFrames, Zenon
  <2>4. IsSeq(<<>>) /\ Range(<<>>) = {}
    BY SMTT(30), Short
  <2> QED
    BY ZenonT(30), <2>1, <2>3, <2>4 DEF Network
<1>5. Commands
  BY SMTT(30), <1>1, Short DEF Commands
<1>6. Stages
  BY ZenonT(30), <1>1 DEF Stages, NewEnd
<1>7. Outcomes
  BY Zenon, <1>1 DEF Outcomes, Marks, None
<1> QED
  BY <1>3, <1>4, <1>5, <1>6, <1>7 DEF IInv

\* Every step of either endpoint, of the application and of the network.
LEMMA StepIInv == IInv /\ [Next]_vars => IInv'
<1> SUFFICES ASSUME IInv, [Next]_vars PROVE IInv'
  BY Zenon
<1>1. CASE UNCHANGED <<scen, cl, br, net, cmds, msg, hist>>
  <2>1. Network' /\ Stages' /\ Outcomes' /\ Commands'
    BY ZenonT(30), <1>1 DEF IInv, Network, FromClient, FromBroker, Agreed, Accepted, Stages, Outcomes, Commands
  <2> QED
    BY SMTT(30), <1>1, <2>1 DEF IInv
<1>2. CASE ClientReads
  BY Zenon, <1>2, StepClientHeader, StepClientMechanisms, StepClientOutcome, StepClientOpen,
     StepClientFrame, StepClientClosing, StepClientEnds DEF ClientReads, ClientHandshake
<1>3. CASE BrokerReads
  BY <1>3, StepBrokerHeader, StepBrokerInit, StepBrokerResponse, StepBrokerOpen,
     StepBrokerFrame, StepBrokerClosing, StepBrokerEnds DEF BrokerReads, BrokerHandshake
<1>4. CASE GoDark
  BY Zenon, <1>1, <1>4 DEF GoDark
<1>5. CASE UNCHANGED vars
  BY Zenon, <1>1, <1>5 DEF vars
<1> QED
  BY SMTT(30), <1>2, <1>3, <1>4, <1>5, StepApp, StepHandleCommand, StepClientEnds, StepDeliver, StepForward,
     StepShutdown, StepBrokerEnds DEF Next

\* However the handshake goes, and whatever its peer is configured with, a
\* client that has opened the connection (Driver::open) talks to a broker that
\* verified its credentials by a mechanism the broker offers, and the two use
\* the same channel-max.
THEOREM HandshakeAgrees == Spec => []EstablishedAgree
<1>1. IInv => EstablishedAgree
  <2> SUFFICES ASSUME IInv, cl.phase \in {"run", "closing"} PROVE EstablishedAgree
    BY Zenon DEF EstablishedAgree
  <2>1. Agreed /\ scen.bopen /\ cl.max = ChannelMax(scen.cmax, scen.bmax) /\ scen \in Scenarios
    BY Zenon DEF IInv, Stages
  <2>2. ChannelMax(scen.cmax, scen.bmax) = ChannelMax(scen.bmax, scen.cmax)
    BY SMTT(30), <2>1, ScenariosAssumption DEF ChannelMax
  <2> QED
    BY Zenon, <2>1, <2>2 DEF EstablishedAgree, Agreed, Accepted
<1> QED
  BY <1>1, InitIInv, StepIInv, PTL DEF Spec

\* Whatever sessions begin, end and are refused, and however channels are
\* reused, at both endpoints the channels in use are exactly the sessions, none
\* is free twice or beyond the channel-max, and remote channels name sessions
\* one to one (ChannelAllocator, the session tables and the remote maps).
THEOREM TablesCoherent == Spec => []TypeOK
<1>1. ASSUME NEW e, End(e)
      PROVE  /\ e.phase \in Handshake \cup {"run", "closing", "done"} /\ e.result \in Results
             /\ e.result = None <=> e.phase # "done"
             /\ DOMAIN e.sess = (0 .. e.alloc.next - 1) \ Range(e.alloc.free)
             /\ IsInjective(e.alloc.free)
             /\ e.alloc.next <= e.max + 1
             /\ Range(e.remote) \subseteq DOMAIN e.sess
             /\ IsInjective(e.remote)
  BY Zenon, <1>1 DEF End, Coherent
<1>2. IInv => TypeOK
  BY <1>1, Zenon DEF IInv, TypeOK
<1> QED
  BY <1>2, InitIInv, StepIInv, PTL DEF Spec

\* A disposition the broker has read reaches the queue whichever way the
\* connection ends (cleanup), unless its session had been ended before.
THEOREM AcksSurvive == Spec => []AckedSurvivesClose
<1>1. IInv => AckedSurvivesClose
  BY Zenon DEF IInv, Outcomes, AckedSurvivesClose
<1> QED
  BY <1>1, InitIInv, StepIInv, PTL DEF Spec

===========================================================================
