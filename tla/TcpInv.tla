------------------------------- MODULE TcpInv -------------------------------
(* The inductive invariants of Tcp: who holds a socket, who sleeps for what, and
   what the streams are.  TcpProofs proves them.

   References (RInv).  RefsExact is not inductive: that a put does not take the
   count below what the others hold depends on who may hold a socket at each
   place of the receive path, the timer and the calls (RxOK, TimerOK, CallsOK),
   and that the reference of the lists is dropped once depends on a socket in
   the lists having one owner (Apart, OwnedOK).  A child is its creator's alone
   until it is in the backlog (FreshOK), and it is given up for good only
   half open, with the timer about to take it out (SpliceOK).

   Sleep (NInv).  NobodyStranded speaks of a thread that is parked after the
   release; what no step may break is said of the whole wait, from the
   registration on (Dozes): the thread is the one registered, the listener still
   listens and no child is ready (AcceptorOK), or the ring is empty and no end of
   file has come (ReaderOK), unless a wake-up is on its way.  A reader's socket
   has been connected and its close has not begun (UsableOK), and a thread sleeps
   only where it waits (PlaceOK).  A listener has one slot for a waiting thread,
   so the theorem is of one that accepts (OneAcceptor).

   Streams (SInv).  A number on the wire stands for a byte only if one can tell
   of which connection: the order in which the children were made (Orders) says
   how far generate_isn() had got for each, so the number of a byte is known
   before the wrap (SeqNo).  Then each segment with data has its sender's bytes
   from its number on (SegOK), each socket sends from there and expects the byte
   after what it has (EndOK), and a segment in a section of the receive path is
   from the socket's peer (Matched).  Two bytes of one machine have different
   numbers (SameNumber) as long as SeqsApart: each connection sends less than
   generate_isn() adds, and all of them less than the wrap. *)
EXTENDS Tcp

----------------------------------------------------------------------------
(* REFERENCES *)

(* The state, typed. *)
Seqs == 0 .. Wrap - 1
Addrs == Hosts \cup {None}
Bytes == Socks \X Nat
States == Synchronised \cup {"none", "freed", "CLOSED", "LISTEN", "SYN_SENT", "SYN_RECEIVED"}
Doers == Threads \cup {Lst}
Entries == {"section", "unlink"} \X Socks

Segments == [src : Addrs, dst : Addrs, seq : Seqs, flags : SUBSET {"SYN", "ACK", "FIN", "RST"},
             data : Seq(Bytes), ack : Seqs]

Sockets == [st : States, peer : Addrs, iss : Seqs, una : Seqs, nxt : Seqs, rcv : Seqs,
            rtx : BOOLEAN, cnt : Nat, rx : Seq(Bytes), conn : Threads \cup {None},
            acc : Threads \cup {None}, rxw : Threads \cup {None}, backlog : Seq(Kids),
            refs : Nat, linked : BOOLEAN]

Within(r) == r.cnt <= load.retries /\ Len(r.rx) <= RxSize /\ Len(r.backlog) <= load.backlog

RxPlaces == {"idle", "section", "child", "backlog", "closed", "notify"}
TimerPlaces == {"idle", "section", "splice"}
Accepting == {"accept", "acceptblock", "acceptwoken"}
Reading == {"recv", "recvblock", "recvwoken"}
CallPlaces == Accepting \cup Reading \cup {"user", "connblock", "connect"}

Typed ==
  /\ load \in Loads
  /\ sk \in [Socks -> Sockets]
  /\ \A s \in Socks : Within(sk[s])
  /\ wire \in [Hosts -> Seq(Segments)]
  /\ rx \in [Hosts -> [at : RxPlaces, seg : Segments \cup {None}, sock : Socks \cup {None},
                       kid : Kids \cup {None}]]
  /\ timer \in [Hosts -> [at : TimerPlaces, sock : Socks \cup {None}]]
  /\ pc \in [Threads -> [at : CallPlaces, sock : Socks \cup {None}]]
  /\ job \in [Doers -> Seq(Entries)]
  /\ sig \in [Threads -> BOOLEAN]
  /\ isn \in [Hosts -> Seqs]
  /\ used \in [lose : Nat, dup : Nat, signals : Nat]
  /\ sent \in [Socks -> Nat]
  /\ got \in [Socks -> Seq(Bytes)]
  /\ park \in [Threads -> Phases]

(* What is on the way to a machine is addressed to it. *)
Routed(w) == \A h \in Hosts : \A i \in DOMAIN w[h] : w[h][i].dst = h
Addressed == Routed(wire)
AllTo(segs, dst) == \A i \in DOMAIN segs : segs[i].dst = dst

(* A child given up, or closed, before its handshake was complete. *)
HalfOpen(r) == r.st = "CLOSED" /\ r.una = r.iss

(* What the state of a socket says of its other fields. *)
SockOK(s, r) ==
  /\ r.st \in {"none", "freed"} => r = [Blank EXCEPT !.st = r.st]
  /\ s = Lst => /\ r.st \in {"LISTEN", "CLOSED", "freed"}
                /\ ~r.rtx
                /\ r.st = "LISTEN" => r.linked
                /\ r.st # "LISTEN" => r.backlog = <<>>
  /\ s # Lst => r.st # "LISTEN" /\ r.backlog = <<>>
  /\ s \in Kids => /\ r.st # "SYN_SENT"
                   /\ r.st = "SYN_RECEIVED" => r.una = r.iss
                   /\ r.st \in Synchronised => r.una = Plus(r.iss, 1)
  /\ s \in Clients => r.st \notin {"SYN_RECEIVED", "none"}
  /\ r.rtx => r.st \in {"SYN_SENT", "SYN_RECEIVED", "CLOSED"}
SocksOK == \A s \in Socks : SockOK(s, sk[s])

(* Where the receive path of a machine may be. *)
RxOK ==
  \A h \in Hosts :
    /\ rx[h].at = "idle" <=> rx[h].sock = None
    /\ rx[h].at # "idle" => rx[h].seg \in Segments /\ Local(rx[h].sock) = h
    /\ rx[h].at \in {"child", "backlog", "closed"} => rx[h].sock = Lst
    /\ rx[h].at = "notify" => rx[h].sock \in Kids
    /\ rx[h].at = "backlog" <=> rx[h].kid # None
    /\ rx[Lst].at # "closed" => job[Lst] = <<>>

(* A child that is not in the backlog yet is its creator's alone. *)
FreshOK ==
  rx[Lst].kid # None => sk[rx[Lst].kid].st = "SYN_RECEIVED" /\ timer[Lst].sock # rx[Lst].kid

(* Where its timer may be. *)
TimerOK ==
  \A h \in Hosts :
    /\ timer[h].at = "idle" <=> timer[h].sock = None
    /\ timer[h].at # "idle" => Local(timer[h].sock) = h
    /\ timer[h].at = "splice" => timer[h].sock \in Kids

SpliceOK == timer[Lst].at = "splice" => HalfOpen(sk[timer[Lst].sock])

(* Where a thread may be, and which sockets it may have. *)
CallsOK ==
  \A t \in Threads :
    /\ pc[t].sock \in (IF t \in Clients THEN {t} ELSE Kids) \cup {None}
    /\ pc[t].at \in Accepting => t \in Servers /\ pc[t].sock = None
    /\ pc[t].at \in Reading => pc[t].sock # None
    /\ pc[t].at \in {"connblock", "connect"} => pc[t].sock = t
    /\ job[t] # <<>> => pc[t].at = "user"

(* The owners of the reference that close drops. *)
InJob(x) == {job[x][i][2] : i \in DOMAIN job[x]}
Owned(s) == \/ \E t \in Threads : pc[t].sock = s
            \/ s \in Range(sk[Lst].backlog)
            \/ rx[Lst].kid = s
            \/ \E x \in Doers : s \in InJob(x)

OnceInJobs ==
  /\ \A x \in Doers : \A i, j \in DOMAIN job[x] : job[x][i][2] = job[x][j][2] => i = j
  /\ \A x, y \in Doers : x # y => InJob(x) \cap InJob(y) = {}
OnceAtThreads == \A t, u \in Threads : pc[t].sock = pc[u].sock /\ pc[t].sock # None => t = u
Apart ==
  /\ OnceInJobs
  /\ OnceAtThreads
  /\ IsInjective(sk[Lst].backlog)
  /\ rx[Lst].kid \notin Range(sk[Lst].backlog)
  /\ \A t \in Threads : /\ pc[t].sock \notin Range(sk[Lst].backlog)
                        /\ pc[t].sock # None => pc[t].sock # rx[Lst].kid
  /\ \A x \in Doers : /\ InJob(x) \cap Range(sk[Lst].backlog) = {}
                      /\ rx[Lst].kid \notin InJob(x)
                      /\ \A t \in Threads : pc[t].sock \notin InJob(x)

OwnedOK ==
  /\ \A s \in Socks : Owned(s) => sk[s].linked
  /\ \A s \in Socks \ {Lst} : sk[s].linked => Owned(s) \/ (s \in Kids /\ HalfOpen(sk[s]))
  /\ \A x \in Doers : \A i \in DOMAIN job[x] :
       job[x][i] = <<"unlink", Lst>> => sk[Lst].st # "LISTEN"

(* The holders of references, a set for each kind. *)
RxOn(s) == {h \in Hosts : rx[h].sock = s}
TimerOn(s) == {h \in Hosts : timer[h].sock = s}
AcceptingOn(s) == {t \in Threads : s = Lst /\ pc[t].at \in Accepting}
ReadingOn(s) == {t \in Threads : s = pc[t].sock /\ pc[t].at \in Reading}
Users(s) == Cardinality(RxOn(s)) + Cardinality(TimerOn(s))
            + Cardinality(AcceptingOn(s)) + Cardinality(ReadingOn(s))
Counted == \A s \in Socks : sk[s].refs = (IF sk[s].linked THEN 1 ELSE 0) + Users(s)

RInv == /\ Typed /\ Addressed /\ SocksOK /\ RxOK /\ FreshOK /\ TimerOK /\ SpliceOK
        /\ CallsOK /\ Apart /\ OwnedOK /\ Counted /\ DeadChildSpliced

----------------------------------------------------------------------------
(* SLEEP

   Some place of a wait, from the registration on, is asleep or will be: no
   wake-up is kept for the thread. *)
Dozes(t, block, woken) == \/ pc[t].at = block /\ park[t] # "token"
                          \/ pc[t].at = woken /\ park[t] = "parked"

(* The receive path is about to wake whoever waits for k. *)
Told(k) == rx[Lst].at = "notify" /\ rx[Lst].sock = k

AcceptorOK(t) ==
  Dozes(t, "acceptblock", "acceptwoken") =>
    /\ sk[Lst].acc = t /\ sk[Lst].st = "LISTEN"
    /\ \A k \in Range(sk[Lst].backlog) : Ready(k) => Told(k)

(* A reader on r is registered and has nothing to return with. *)
Waits(t, r) == r.rxw = t /\ r.rx = <<>> /\ (Eof(r) => r.st = "TIME_WAIT")
ReaderOK(t) == Dozes(t, "recvblock", "recvwoken") => Waits(t, sk[pc[t].sock])

(* A socket with a descriptor has been connected when it is read, and its close
   has not begun. *)
Usable(t, r) == /\ r.st \notin {"LAST_ACK", "SYN_RECEIVED"}
                /\ pc[t].at \in Reading => r.st # "SYN_SENT"
UsableOK(t) == pc[t].sock # None => Usable(t, sk[pc[t].sock])

(* A thread sleeps only where it waits. *)
PlaceOK(t) == /\ pc[t].at \in Accepting => "accept" \in load.can[t]
              /\ park[t] = "parked" => pc[t].at \in {"connect", "acceptwoken", "recvwoken"}

ThreadOK(t) == AcceptorOK(t) /\ ReaderOK(t) /\ UsableOK(t) /\ PlaceOK(t)
NInv == \A t \in Threads : ThreadOK(t)

(* One thread accepts: the listener has one slot for who waits on it. *)
OneAcceptor == \A l \in Loads : \A t, u \in Threads :
                 "accept" \in l.can[t] /\ "accept" \in l.can[u] => t = u

----------------------------------------------------------------------------
(* STREAMS

   The sequence numbers of one machine's connections do not overlap: each sends
   less than generate_isn() adds for the next, and all of them fit into the
   wrap. *)
SeqsApart == \A l \in Loads : l.bytes < IsnStep /\ l.kids * IsnStep <= Wrap

(* The children made so far.  An order numbers them as they were made; that is
   how far the initial sequence number of each is from the first. *)
Made == {k \in Kids : sk[k].st # "none"}
Orders(K) == {o \in [K -> 0 .. Cardinality(K) - 1] : \A j, k \in K : o[j] = o[k] => j = k}
Base(o, s) == IF s \in DOMAIN o THEN o[s] * IsnStep ELSE 0

(* The sequence number of the n-th byte of s, and of its SYN, n = 0. *)
SeqNo(o, s, n) == (FirstIsn + Base(o, s) + n) % Wrap

(* The ends that may have sent, given the order. *)
Ends(o) == Clients \cup DOMAIN o

(* A segment with data has what its sender sent there; one with a SYN has the
   sender's first number, and only a child's has an ACK, too. *)
Carries(o, snt, g, q, m) ==
  /\ g.seq = SeqNo(o, q, m + 1)
  /\ m + Len(g.data) <= snt[q]
  /\ \A i \in 1 .. Len(g.data) : g.data[i] = <<q, m + i>>
DataOK(o, snt, g) ==
  g.data # <<>> => \E q \in Ends(o) : /\ g.src = Local(q)
                                      /\ \E m \in 0 .. snt[q] : Carries(o, snt, g, q, m)
SynOK(o, g) ==
  "SYN" \in g.flags => \E q \in Ends(o) : /\ g.src = Local(q) /\ g.seq = SeqNo(o, q, 0)
                                          /\ "ACK" \in g.flags <=> q \notin Clients
SegOK(o, snt, g) == DataOK(o, snt, g) /\ SynOK(o, g)

(* Where s, with the fields r, has got to in the n bytes it sends. *)
Opening == {"SYN_SENT", "SYN_RECEIVED", "ESTABLISHED"}
SendOK(o, n, s, r) ==
  r.st \in Opening => r.iss = SeqNo(o, s, 0) /\ r.nxt = SeqNo(o, s, n + 1)

(* What it has received, all, is what p sent first, and the next byte is what
   it expects. *)
Reads(o, snt, r, all, p) ==
  /\ r.st \notin {"none", "freed"} => Local(p) = r.peer
  /\ Len(all) <= snt[p]
  /\ \A i \in 1 .. Len(all) : all[i] = <<p, i>>
  /\ r.st \in {"SYN_RECEIVED", "ESTABLISHED"} => r.rcv = SeqNo(o, p, Len(all) + 1)
RecvOK(o, snt, r, all) ==
  /\ r.st = "SYN_SENT" => all = <<>>
  /\ all # <<>> \/ r.st \in {"SYN_RECEIVED", "ESTABLISHED"} =>
       \E p \in Ends(o) : Reads(o, snt, r, all, p)

EndOK(o, snt, gt, s, r) ==
  /\ SendOK(o, snt[s], s, r)
  /\ RecvOK(o, snt, r, gt[s] \o r.rx)
  /\ s \in Clients /\ r.st # "freed" => r.peer = Lst

Numbered == /\ isn[Lst] = (FirstIsn + Cardinality(Made) * IsnStep) % Wrap
            /\ Cardinality(Made) <= load.kids
            /\ \A s \in Socks : sent[s] <= load.bytes

(* A segment that is worked on is from the socket's peer, and what makes a child
   is a connection request. *)
Matched ==
  \A h \in Hosts :
    /\ rx[h].at = "section" /\ rx[h].sock # Lst => rx[h].seg.src = sk[rx[h].sock].peer
    /\ rx[h].at = "child" => "SYN" \in rx[h].seg.flags /\ "ACK" \notin rx[h].seg.flags

(* What has not been connected has neither sent nor received. *)
Unused(s) == s \in Kids \ Made \/ (s \in Clients /\ isn[s] = FirstIsn)
Silent(s) == sent[s] = 0 /\ got[s] = <<>> /\ sk[s].rx = <<>> /\ sk[s].st \notin Opening
Untouched == \A s \in Socks : Unused(s) => Silent(s)

WireOK(o) == \A h \in Hosts : \A i \in DOMAIN wire[h] : SegOK(o, sent, wire[h][i])
TakenOK(o) == \A h \in Hosts : rx[h].at # "idle" => SegOK(o, sent, rx[h].seg)
EndsOK(o) == \A s \in Socks : EndOK(o, sent, got, s, sk[s])

Ordered(o) == WireOK(o) /\ TakenOK(o) /\ EndsOK(o)
SInv == Numbered /\ Matched /\ Untouched /\ \E o \in Orders(Made) : Ordered(o)
=============================================================================
