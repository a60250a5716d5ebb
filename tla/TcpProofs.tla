----------------------------- MODULE TcpProofs -----------------------------
(* Proofs about TCP for any clients, server threads and children, any wrap of
   the sequence numbers, ring size and load.

   TcpInv says what the three inductive invariants are for.  Each has a lemma for
   each action of Tcp, named for it: *Inv for RInv, which the other two build on,
   *N for NInv and *S for SInv.  In RInv the reference counts are proved by
   moving one holder at a time (RxMoves, TimerMoves, AcceptMoves, ReadMoves). *)
EXTENDS TcpInv, QueueLemmas, FiniteSetTheorems

LEMMA Names ==
  /\ IsFiniteSet(Threads) /\ IsFiniteSet(Hosts) /\ IsFiniteSet(Kids)
  /\ Lst \in Hosts /\ Lst \in Socks /\ Clients \subseteq Hosts /\ Clients \subseteq Socks
  /\ Kids \subseteq Socks /\ Clients \subseteq Threads /\ Servers \subseteq Threads
  /\ Threads = Clients \cup Servers /\ Clients \cap Servers = {} /\ Clients \cap Kids = {}
  /\ Lst \notin Threads /\ Lst \notin Kids /\ Lst \notin Clients
  /\ None \notin Threads /\ None \notin Kids /\ None # Lst /\ None \notin Socks
  /\ None \notin Hosts
  /\ \A s \in Socks : s = Lst \/ s \in Kids \/ s \in Clients
  /\ \A s \in Socks : Local(s) \in Hosts
  /\ \A k \in Kids : Local(k) = Lst
  /\ \A c \in Clients : Local(c) = c
  /\ Local(Lst) = Lst
<1>1. IsFiniteSet(Hosts)
  <2>1. IsFiniteSet(Clients)
    BY TcpFinite, TcpThreads, FS_Subset
  <2> QED BY <2>1, FS_AddElement DEF Hosts
<1> QED BY <1>1, TcpFinite, TcpThreads, TcpNames DEF Hosts, Socks, Local

(* Arithmetic modulo Wrap: adding at most Wrap wraps once. *)
LEMMA Modulo ==
  ASSUME NEW w \in Nat \ {0}, NEW m \in Nat
  PROVE  (m < w => m % w = m) /\ (w <= m /\ m < 2 * w => m % w = m - w)
OBVIOUS

LEMMA PlusIs ==
  ASSUME NEW a \in Seqs, NEW n \in 0 .. Wrap
  PROVE  /\ a + n < Wrap => Plus(a, n) = a + n
         /\ a + n >= Wrap => Plus(a, n) = a + n - Wrap
<1>1. Wrap \in Nat \ {0}
  BY TcpSizes
<1>2. PICK m \in Nat : m = a + n
  BY <1>1 DEF Seqs
<1>3. m < 2 * Wrap
  BY <1>1, <1>2 DEF Seqs
<1>4. Plus(a, n) = m % Wrap
  BY <1>2 DEF Plus
<1>5. (m < Wrap => m % Wrap = m) /\ (Wrap <= m => m % Wrap = m - Wrap)
  BY <1>1, <1>3, Modulo
<1> QED BY <1>1, <1>2, <1>4, <1>5 DEF Seqs

LEMMA PlusIn ==
  ASSUME NEW a \in Seqs, NEW n \in Nat
  PROVE  Plus(a, n) \in Seqs
<1>1. a \in Nat
  BY TcpSizes DEF Seqs
<1> QED BY <1>1, TcpSizes DEF Plus, Seqs

LEMMA PlusOne ==
  ASSUME NEW a \in Seqs
  PROVE  Plus(a, 1) # a
<1>1. Wrap \in Nat /\ Wrap >= 2 /\ 1 \in 0 .. Wrap
  BY TcpSizes
<1> QED BY <1>1, PlusIs DEF Seqs

LEMMA FirstIsnIn == FirstIsn \in Seqs
<1>1. Wrap \in Nat /\ Wrap >= 2
  BY TcpSizes
<1> QED BY <1>1 DEF FirstIsn, Seqs

(* Sockets and segments built from well-typed ones. *)
LEMMA SocketFields ==
  ASSUME NEW r \in Sockets
  PROVE  /\ r.st \in States /\ r.peer \in Addrs /\ r.rx \in Seq(Bytes)
         /\ r.iss \in Seqs /\ r.una \in Seqs /\ r.nxt \in Seqs /\ r.rcv \in Seqs
         /\ r.rtx \in BOOLEAN /\ r.cnt \in Nat /\ r.backlog \in Seq(Kids)
         /\ r.conn \in Threads \cup {None} /\ r.acc \in Threads \cup {None}
         /\ r.rxw \in Threads \cup {None} /\ r.refs \in Nat /\ r.linked \in BOOLEAN
BY DEF Sockets

LEMMA BlankType == Blank \in Sockets /\ [Blank EXCEPT !.st = "freed"] \in Sockets
<1>1. 0 \in Seqs
  BY TcpSizes DEF Seqs
<1>2. /\ <<>> \in Seq(Bytes) /\ <<>> \in Seq(Kids)
      /\ "none" \in States /\ "freed" \in States /\ None \in Addrs
  BY DEF States, Addrs
<1>3. Blank \in Sockets
  BY <1>1, <1>2 DEF Blank, Sockets
<1> QED BY <1>2, <1>3 DEF Sockets

LEMMA CreatedType ==
  ASSUME NEW st \in States, NEW peer \in Addrs
  PROVE  Created(st, peer) \in Sockets
BY BlankType DEF Created, Blank, Sockets

LEMMA SegType ==
  ASSUME NEW s \in Socks, NEW r \in Sockets, NEW data \in Seq(Bytes),
         NEW flags \in SUBSET {"SYN", "ACK", "FIN", "RST"}
  PROVE  /\ Seg(s, r, flags, data) \in Segments
         /\ Seg(s, r, flags, data).dst = r.peer
<1>1. 0 \in Seqs
  BY TcpSizes DEF Seqs
<1>2. Local(s) \in Addrs
  BY Names DEF Addrs
<1> QED BY <1>1, <1>2 DEF Seg, Segments, Sockets

LEMMA AgainType ==
  ASSUME NEW s \in Socks, NEW r \in Sockets,
         NEW flags \in SUBSET {"SYN", "ACK", "FIN", "RST"}
  PROVE  /\ Again(s, r, flags) \in Segments
         /\ Again(s, r, flags).dst = r.peer
<1> DEFINE g == Seg(s, r, flags, <<>>)
<1>1. g \in Segments /\ g.dst = r.peer
  <2>1. <<>> \in Seq(Bytes)
    OBVIOUS
  <2> QED BY <2>1, SegType
<1>2. r.iss \in Seqs
  BY SocketFields
<1>3. Again(s, r, flags) = [g EXCEPT !.seq = r.iss]
  BY DEF Again
<1> HIDE DEF g
<1> QED BY <1>1, <1>2, <1>3 DEF Segments

LEMMA SentType ==
  ASSUME NEW r \in Sockets, NEW data \in Seq(Bytes),
         NEW flags \in SUBSET {"SYN", "ACK", "FIN", "RST"}, NEW e, e = Sent(r, flags, data)
  PROVE  /\ e \in Sockets /\ e.st = r.st /\ e.peer = r.peer /\ e.iss = r.iss /\ e.una = r.una
         /\ e.rcv = r.rcv /\ e.rtx = r.rtx /\ e.cnt = r.cnt /\ e.rx = r.rx
         /\ e.conn = r.conn /\ e.acc = r.acc /\ e.rxw = r.rxw
         /\ e.backlog = r.backlog /\ e.refs = r.refs /\ e.linked = r.linked
<1>1. Len(data) \in Nat /\ r.nxt \in Seqs
  BY SocketFields, LenProperties
<1> DEFINE n == Plus(r.nxt, IF flags \cap {"SYN", "FIN"} # {} THEN 1 ELSE Len(data))
<1>2. n \in Seqs
  BY <1>1, PlusIn
<1>3. Sent(r, flags, data) = [r EXCEPT !.nxt = n]
  BY DEF Sent
<1> HIDE DEF n
<1> QED BY <1>2, <1>3 DEF Sockets

LEMMA OntoType ==
  ASSUME NEW w \in [Hosts -> Seq(Segments)], NEW segs \in Seq(Segments), NEW dst,
         Routed(w), AllTo(segs, dst)
  PROVE  /\ Onto(w, segs) \in [Hosts -> Seq(Segments)]
         /\ Routed(Onto(w, segs))
<1>1. ASSUME NEW h \in Hosts
      PROVE  /\ Onto(w, segs)[h] \in Seq(Segments)
             /\ \A i \in DOMAIN Onto(w, segs)[h] : Onto(w, segs)[h][i].dst = h
  <2>1. Onto(w, segs)[h] = IF segs # <<>> /\ Head(segs).dst = h THEN w[h] \o segs ELSE w[h]
    BY DEF Onto
  <2>2. CASE segs # <<>> /\ Head(segs).dst = h
    <3>1. Len(segs) \in Nat /\ Len(segs) # 0 /\ DOMAIN segs = 1 .. Len(segs) /\ Head(segs) = segs[1]
      BY <2>2, LenProperties, EmptySeq, HeadTailProperties
    <3>2. dst = h
      BY <2>2, <3>1 DEF AllTo
    <3>3. w[h] \in Seq(Segments)
      OBVIOUS
    <3> DEFINE v == w[h]
    <3> HIDE DEF v
    <3>4. v \in Seq(Segments) /\ \A i \in DOMAIN v : v[i].dst = h
      BY <3>3 DEF v, Routed
    <3>5. /\ v \o segs \in Seq(Segments)
          /\ DOMAIN (v \o segs) = 1 .. Len(v) + Len(segs)
          /\ Len(v) \in Nat /\ DOMAIN v = 1 .. Len(v)
          /\ \A i \in 1 .. Len(v) + Len(segs) :
               (v \o segs)[i] = IF i <= Len(v) THEN v[i] ELSE segs[i - Len(v)]
      BY <3>4, ConcatProperties, LenProperties
    <3>6. \A i \in 1 .. Len(v) + Len(segs) : i \in 1 .. Len(v) \/ (~(i <= Len(v)) /\ i - Len(v) \in 1 .. Len(segs))
      BY <3>1, <3>5
    <3>7. \A i \in DOMAIN (v \o segs) : (v \o segs)[i].dst = h
      BY <3>1, <3>2, <3>4, <3>5, <3>6 DEF AllTo
    <3>8. Onto(w, segs)[h] = v \o segs
      BY <2>1, <2>2 DEF v
    <3> QED BY <3>5, <3>7, <3>8
  <2>3. CASE ~(segs # <<>> /\ Head(segs).dst = h)
    BY <2>1, <2>3 DEF Routed
  <2> QED BY <2>2, <2>3
<1>2. Onto(w, segs) = [h \in Hosts |-> Onto(w, segs)[h]]
  BY DEF Onto
<1> QED BY <1>1, <1>2 DEF Routed

(* The segments of one step. *)
LEMMA OneSegment ==
  ASSUME NEW g \in Segments
  PROVE  /\ <<g>> \in Seq(Segments)
         /\ AllTo(<<g>>, g.dst)
BY DEF Segments, AllTo

LEMMA NoSegment == <<>> \in Seq(Segments) /\ AllTo(<<>>, None)
BY DEF AllTo

LEMMA TwoSegments ==
  ASSUME NEW g \in Segments, NEW f \in Segments, g.dst = f.dst
  PROVE  /\ <<g>> \o <<f>> \in Seq(Segments)
         /\ AllTo(<<g>> \o <<f>>, g.dst)
<1> DEFINE a == <<g>>
           b == <<f>>
<1>1. a \in Seq(Segments) /\ b \in Seq(Segments)
  OBVIOUS
<1>2. Len(a) = 1 /\ Len(b) = 1 /\ a[1] = g /\ b[1] = f
  OBVIOUS
<1> HIDE DEF a, b
<1>3. /\ a \o b \in Seq(Segments)
      /\ Len(a \o b) = 1 + 1
      /\ \A i \in 1 .. 1 + 1 : (a \o b)[i] = IF i <= 1 THEN a[i] ELSE b[i - 1]
  BY <1>1, <1>2, ConcatProperties
<1>4. DOMAIN (a \o b) = 1 .. 2
  BY <1>3, LenProperties
<1>5. (a \o b)[1] = g /\ (a \o b)[2] = f
  BY <1>2, <1>3
<1>6. \A i \in DOMAIN (a \o b) : (a \o b)[i].dst = g.dst
  <2>1. \A i \in DOMAIN (a \o b) : i = 1 \/ i = 2
    BY <1>4
  <2> QED BY <2>1, <1>5
<1> QED BY <1>3, <1>6 DEF a, b, AllTo

LEMMA UnblockType ==
  ASSUME park \in [Threads -> Phases], NEW S, Unblock(S)
  PROVE  park' \in [Threads -> Phases]
BY DEF Unblock, Phases

LEMMA UptoFacts ==
  ASSUME NEW S, NEW q \in Seq(S), NEW n \in Nat
  PROVE  /\ Upto(q, n) \in Seq(S) /\ Len(Upto(q, n)) <= n /\ Len(Upto(q, n)) <= Len(q)
         /\ Len(Upto(q, n)) \in Nat
         /\ \A i \in 1 .. Len(Upto(q, n)) : Upto(q, n)[i] = q[i]
<1> DEFINE m == IF n < Len(q) THEN n ELSE Len(q)
<1>1. Len(q) \in Nat
  BY LenProperties
<1>2. m \in 0 .. Len(q) /\ m <= n
  BY <1>1
<1>3. Upto(q, n) = SubSeq(q, 1, m)
  BY DEF Upto
<1> HIDE DEF m
<1>4. SubSeq(q, 1, m) \in Seq(S) /\ Len(SubSeq(q, 1, m)) = m
      /\ \A i \in 1 .. m : SubSeq(q, 1, m)[i] = q[i]
  BY <1>2, PrefixFacts
<1> QED BY <1>1, <1>2, <1>3, <1>4

LEMMA RemoveAtLen ==
  ASSUME NEW S, NEW q \in Seq(S), NEW k \in DOMAIN q
  PROVE  Len(RemoveAt(q, k)) = Len(q) - 1 /\ Len(RemoveAt(q, k)) \in Nat
<1>1. Len(q) \in Nat /\ k \in 1 .. Len(q)
  BY LenProperties
<1> DEFINE a == SubSeq(q, 1, k - 1)
           b == SubSeq(q, k + 1, Len(q))
<1>2. k - 1 \in 0 .. Len(q) /\ k \in 0 .. Len(q)
  BY <1>1
<1>3. a \in Seq(S) /\ Len(a) = k - 1
  BY <1>2, PrefixFacts
<1>4. b \in Seq(S) /\ Len(b) = Len(q) - k
  BY <1>2, DropFacts
<1>5. Len(a \o b) = Len(a) + Len(b)
  BY <1>3, <1>4, ConcatProperties
<1>6. RemoveAt(q, k) = a \o b
  BY DEF RemoveAt
<1> HIDE DEF a, b
<1> QED BY <1>1, <1>3, <1>4, <1>5, <1>6, SMTT(30)

(* An unlinked element is gone, the rest stays. *)
LEMMA WithoutFacts ==
  ASSUME NEW S, NEW q \in Seq(S), IsInjective(q), NEW s
  PROVE  /\ Without(q, s) \in Seq(S) /\ IsInjective(Without(q, s))
         /\ Range(Without(q, s)) = Range(q) \ {s}
         /\ Len(Without(q, s)) <= Len(q)
<1>1. CASE s \in Range(q)
  <2> DEFINE i == CHOOSE i \in DOMAIN q : q[i] = s
  <2>1. \E j \in DOMAIN q : q[j] = s
    BY <1>1 DEF Range
  <2>2. i \in DOMAIN q /\ q[i] = s
    BY <2>1
  <2>3. Without(q, s) = RemoveAt(q, i)
    BY <1>1 DEF Without
  <2> HIDE DEF i
  <2>4. Len(RemoveAt(q, i)) <= Len(q)
    BY <2>2, RemoveAtLen
  <2> QED BY <2>2, <2>3, <2>4, RemoveAtFacts
<1>2. CASE s \notin Range(q)
  <2>1. Len(q) \in Nat
    BY LenProperties
  <2> QED BY <1>2, <2>1 DEF Without
<1> QED BY <1>1, <1>2

LEMMA RangeOf ==
  ASSUME NEW S, NEW q \in Seq(S), NEW x \in Range(q)
  PROVE  x \in S
<1>1. PICK i \in DOMAIN q : q[i] = x
  BY DEF Range
<1> QED BY <1>1, ElementOfSeq, LenProperties

----------------------------------------------------------------------------
(* What one step does to the references *)

Gone == [Blank EXCEPT !.st = "freed"]

LEMMA GoneFields == Gone.refs = 0 /\ ~Gone.linked /\ Gone.backlog = <<>> /\ Gone.st = "freed"
                    /\ ~Gone.rtx /\ Gone.cnt = 0 /\ Gone.rx = <<>> /\ Gone \in Sockets
BY BlankType DEF Gone, Blank

LEMMA PutFacts ==
  ASSUME NEW r \in Sockets, r.refs # 0
  PROVE  /\ Put(r) \in Sockets
         /\ Put(r).refs = r.refs - 1
         /\ r.refs = 1 => Put(r) = Gone
         /\ r.refs # 1 => Put(r) = [r EXCEPT !.refs = r.refs - 1]
<1>1. r.refs \in Nat
  BY SocketFields
<1>2. CASE r.refs = 1
  BY <1>1, <1>2, GoneFields DEF Put, Gone
<1>3. CASE r.refs # 1
  <2>1. Put(r) = [r EXCEPT !.refs = r.refs - 1]
    BY <1>3 DEF Put
  <2>2. r.refs - 1 \in Nat
    BY <1>1
  <2> QED BY <1>3, <2>1, <2>2 DEF Sockets
<1> QED BY <1>2, <1>3

(* The loads are bounded by numbers. *)
LEMMA LoadFacts ==
  ASSUME load \in Loads
  PROVE  /\ load.retries \in Nat /\ load.backlog \in Nat /\ load.bytes \in Nat
         /\ load.kids \in 1 .. Cardinality(Kids)
         /\ load.can \in [Threads -> SUBSET {"connect", "connectNB", "send", "shutdown",
                                             "recv", "close", "accept", "closeL", "stale"}]
         /\ \A t \in Clients : "accept" \notin load.can[t] /\ "closeL" \notin load.can[t]
BY TcpLoads

LEMMA GoneOK ==
  ASSUME NEW s \in Socks, load \in Loads
  PROVE  SockOK(s, Gone) /\ Within(Gone)
<1>1. Gone = [Blank EXCEPT !.st = Gone.st]
  BY GoneFields DEF Gone
<1>2. SockOK(s, Gone)
  BY <1>1, GoneFields DEF SockOK, Synchronised
<1>3. Len(<<>>) = 0
  OBVIOUS
<1> QED BY <1>2, <1>3, GoneFields, LoadFacts, TcpSizes DEF Within

(* A holder lets go: the socket is freed only when it has been unlinked. *)
LEMMA DropOne ==
  ASSUME NEW s \in Socks, NEW r \in Sockets, load \in Loads, Within(r), SockOK(s, r),
         NEW n \in Nat, n # 0, r.refs = (IF r.linked THEN 1 ELSE 0) + n
  PROVE  /\ Put(r) \in Sockets /\ Within(Put(r)) /\ SockOK(s, Put(r))
         /\ Put(r).linked = r.linked /\ Put(r).backlog = r.backlog
         /\ Put(r).refs = (IF r.linked THEN 1 ELSE 0) + (n - 1)
         /\ \/ Put(r) = Gone /\ ~r.linked /\ n = 1
            \/ Put(r) = [r EXCEPT !.refs = r.refs - 1]
<1>1. r.refs \in Nat /\ r.linked \in BOOLEAN /\ r.refs # 0
  BY SocketFields
<1>2. CASE r.refs = 1
  <2>0. (r.linked => 1 = 1 + n) /\ (~r.linked => 1 = 0 + n)
    BY <1>2
  <2>1. Put(r) = Gone /\ ~r.linked /\ n = 1
    <3>1. Put(r) = Gone
      BY <1>1, <1>2, PutFacts
    <3>2. ~r.linked /\ n = 1
      BY <2>0
    <3> QED BY <3>1, <3>2
  <2>2. r.backlog = <<>>
    BY <2>1 DEF SockOK
  <2>3. Put(r).refs = (IF r.linked THEN 1 ELSE 0) + (n - 1)
    <3>1. Put(r).refs = 0
      BY <2>1, GoneFields
    <3>2. (IF r.linked THEN 1 ELSE 0) = 0 /\ n - 1 = 0
      BY <2>1
    <3>3. (IF r.linked THEN 1 ELSE 0) + (n - 1) = 0
      BY <3>2
    <3> QED BY <3>1, <3>3
  <2>4. Put(r).linked = r.linked /\ Put(r).backlog = r.backlog
    <3>1. r.linked = FALSE
      BY <1>1, <2>1
    <3>2. Gone.linked = FALSE /\ Gone.backlog = <<>>
      BY DEF Gone, Blank
    <3> QED BY <2>1, <2>2, <3>1, <3>2
  <2> QED BY <2>1, <2>3, <2>4, GoneFields, GoneOK
<1>3. CASE r.refs # 1
  <2> DEFINE q == [r EXCEPT !.refs = r.refs - 1]
  <2>1. Put(r) = q /\ q \in Sockets
    BY <1>1, <1>3, PutFacts
  <2>2. /\ q.st = r.st /\ q.linked = r.linked /\ q.backlog = r.backlog /\ q.rtx = r.rtx
        /\ q.una = r.una /\ q.iss = r.iss /\ q.cnt = r.cnt /\ q.rx = r.rx
        /\ q.refs = r.refs - 1
    BY DEF Sockets
  <2>3. r.st \notin {"none", "freed"}
    BY <1>1 DEF SockOK, Blank
  <2> HIDE DEF q
  <2>4. SockOK(s, q) /\ Within(q)
    BY <2>2, <2>3 DEF SockOK, Within
  <2>5. q.refs = (IF r.linked THEN 1 ELSE 0) + (n - 1)
    BY <1>1, <2>2
  <2> QED BY <2>1, <2>2, <2>4, <2>5 DEF q
<1> QED BY <1>2, <1>3

LEMMA GetOK ==
  ASSUME NEW s \in Socks, NEW r \in Sockets, Within(r), SockOK(s, r), r.refs # 0
  PROVE  /\ Get(r) = [r EXCEPT !.refs = r.refs + 1]
         /\ Get(r) \in Sockets /\ Within(Get(r)) /\ SockOK(s, Get(r))
         /\ Get(r).linked = r.linked /\ Get(r).backlog = r.backlog /\ Get(r).st = r.st
         /\ Get(r).una = r.una /\ Get(r).iss = r.iss /\ Get(r).refs = r.refs + 1
<1> DEFINE q == [r EXCEPT !.refs = r.refs + 1]
<1>1. Get(r) = q
  BY DEF Get
<1>2. r.refs + 1 \in Nat
  BY SocketFields
<1>3. q \in Sockets
  BY <1>2 DEF Sockets
<1>4. /\ q.st = r.st /\ q.linked = r.linked /\ q.backlog = r.backlog /\ q.rtx = r.rtx
      /\ q.una = r.una /\ q.iss = r.iss /\ q.cnt = r.cnt /\ q.rx = r.rx
      /\ q.refs = r.refs + 1
  BY DEF Sockets
<1>5. r.st \notin {"none", "freed"}
  BY DEF SockOK, Blank
<1> HIDE DEF q
<1>6. SockOK(s, q) /\ Within(q)
  BY <1>4, <1>5 DEF SockOK, Within
<1> QED BY <1>1, <1>3, <1>4, <1>6 DEF q

LEMMA CardUp ==
  ASSUME NEW D, IsFiniteSet(D), NEW A \in SUBSET D, NEW B \in SUBSET D,
         NEW x \in D, x \notin A, B = A \cup {x}
  PROVE  Cardinality(B) = Cardinality(A) + 1 /\ Cardinality(A) \in Nat
         /\ Cardinality(B) \in Nat /\ Cardinality(B) # 0
<1>1. IsFiniteSet(A) /\ IsFiniteSet(B)
  BY FS_Subset
<1>2. Cardinality(A) \in Nat /\ Cardinality(B) \in Nat
  BY <1>1, FS_CardinalityType
<1>3. Cardinality(B) = Cardinality(A) + 1
  BY <1>1, FS_AddElement
<1> QED BY <1>2, <1>3

LEMMA UsersNat ==
  ASSUME NEW s
  PROVE  /\ Cardinality(RxOn(s)) \in Nat /\ Cardinality(TimerOn(s)) \in Nat
         /\ Cardinality(AcceptingOn(s)) \in Nat /\ Cardinality(ReadingOn(s)) \in Nat
         /\ Users(s) \in Nat
         /\ \A h \in Hosts : rx[h].sock = s \/ timer[h].sock = s => Users(s) # 0
         /\ \A h, g \in Hosts : rx[h].sock = s /\ timer[g].sock = s => Users(s) # 1
         /\ \A t \in Threads : s = Lst /\ pc[t].at \in Accepting => Users(s) # 0
         /\ \A t \in Threads : s = pc[t].sock /\ pc[t].at \in Reading => Users(s) # 0
<1>1. /\ RxOn(s) \subseteq Hosts /\ TimerOn(s) \subseteq Hosts
      /\ AcceptingOn(s) \subseteq Threads /\ ReadingOn(s) \subseteq Threads
  BY DEF RxOn, TimerOn, AcceptingOn, ReadingOn
<1>2. /\ IsFiniteSet(RxOn(s)) /\ IsFiniteSet(TimerOn(s))
      /\ IsFiniteSet(AcceptingOn(s)) /\ IsFiniteSet(ReadingOn(s))
  BY <1>1, Names, FS_Subset
<1>3. /\ Cardinality(RxOn(s)) \in Nat /\ Cardinality(TimerOn(s)) \in Nat
      /\ Cardinality(AcceptingOn(s)) \in Nat /\ Cardinality(ReadingOn(s)) \in Nat
  BY <1>2, FS_CardinalityType
<1>4. /\ RxOn(s) # {} => Cardinality(RxOn(s)) # 0
      /\ TimerOn(s) # {} => Cardinality(TimerOn(s)) # 0
      /\ AcceptingOn(s) # {} => Cardinality(AcceptingOn(s)) # 0
      /\ ReadingOn(s) # {} => Cardinality(ReadingOn(s)) # 0
  BY <1>2, FS_EmptySet
<1>5. /\ Users(s) \in Nat
      /\ RxOn(s) # {} \/ TimerOn(s) # {} \/ AcceptingOn(s) # {} \/ ReadingOn(s) # {}
           => Users(s) # 0
  BY <1>3, <1>4 DEF Users
<1>8. ASSUME NEW h \in Hosts, NEW g \in Hosts, rx[h].sock = s, timer[g].sock = s
      PROVE  Users(s) # 1
  <2>1. Cardinality(RxOn(s)) # 0 /\ Cardinality(TimerOn(s)) # 0
    BY <1>4, <1>8 DEF RxOn, TimerOn
  <2> QED BY <1>3, <2>1 DEF Users
<1>6. ASSUME NEW h \in Hosts, rx[h].sock = s \/ timer[h].sock = s PROVE Users(s) # 0
  BY <1>5, <1>6 DEF RxOn, TimerOn
<1>7. ASSUME NEW t \in Threads, \/ s = Lst /\ pc[t].at \in Accepting
                                \/ s = pc[t].sock /\ pc[t].at \in Reading
      PROVE  Users(s) # 0
  BY <1>5, <1>7 DEF AcceptingOn, ReadingOn
<1> QED BY <1>3, <1>5, <1>6, <1>7, <1>8

(* Who uses the sockets after a step that does not enter or leave one. *)
LEMMA UsersSame ==
  ASSUME \A h \in Hosts : rx'[h].sock = rx[h].sock /\ timer'[h].sock = timer[h].sock,
         \A t \in Threads :
           /\ pc'[t].at \in Accepting <=> pc[t].at \in Accepting
           /\ pc'[t].at \in Reading <=> pc[t].at \in Reading
           /\ pc'[t].at \in Reading => pc'[t].sock = pc[t].sock,
         NEW s
  PROVE  Users(s)' = Users(s)
<1>1. RxOn(s)' = RxOn(s) /\ TimerOn(s)' = TimerOn(s)
  BY DEF RxOn, TimerOn
<1>2. AcceptingOn(s)' = AcceptingOn(s) /\ ReadingOn(s)' = ReadingOn(s)
  BY DEF AcceptingOn, ReadingOn
<1> QED BY <1>1, <1>2 DEF Users

(* The receive path, the timer or a call enters or leaves a socket. *)
LEMMA RxMoves ==
  ASSUME timer' = timer, pc' = pc, NEW h \in Hosts, NEW s \in Socks,
         \A g \in Hosts \ {h} : rx'[g].sock = rx[g].sock
  PROVE  /\ rx[h].sock = None /\ rx'[h].sock = s =>
              /\ Users(s)' = Users(s) + 1
              /\ \A u \in Socks \ {s} : Users(u)' = Users(u)
         /\ rx[h].sock = s /\ rx'[h].sock = None =>
              /\ Users(s)' = Users(s) - 1 /\ Users(s) # 0
              /\ \A u \in Socks \ {s} : Users(u)' = Users(u)
<1>1. \A u : TimerOn(u)' = TimerOn(u) /\ AcceptingOn(u)' = AcceptingOn(u) /\ ReadingOn(u)' = ReadingOn(u)
  BY DEF TimerOn, AcceptingOn, ReadingOn
<1>2. /\ RxOn(s) \in SUBSET Hosts /\ RxOn(s)' \in SUBSET Hosts
      /\ IsFiniteSet(Hosts)
  BY Names DEF RxOn
<1>3. /\ Users(s)' = Cardinality(RxOn(s)') + Cardinality(TimerOn(s))
                       + Cardinality(AcceptingOn(s)) + Cardinality(ReadingOn(s))
      /\ Users(s) = Cardinality(RxOn(s)) + Cardinality(TimerOn(s))
                       + Cardinality(AcceptingOn(s)) + Cardinality(ReadingOn(s))
  BY <1>1 DEF Users
<1>4. ASSUME rx[h].sock = None, rx'[h].sock = s
      PROVE  /\ Users(s)' = Users(s) + 1
             /\ \A u \in Socks \ {s} : Users(u)' = Users(u)
  <2>1. RxOn(s)' = RxOn(s) \cup {h} /\ h \notin RxOn(s)
    BY <1>4, Names DEF RxOn
  <2>2. Cardinality(RxOn(s)') = Cardinality(RxOn(s)) + 1
    BY <1>2, <2>1, CardUp
  <2>3. ASSUME NEW u \in Socks \ {s} PROVE Users(u)' = Users(u)
    <3>1. RxOn(u)' = RxOn(u)
      BY <1>4, Names DEF RxOn
    <3> QED BY <1>1, <3>1 DEF Users
  <2>4. Users(s)' = Users(s) + 1
    BY <1>3, <2>2, UsersNat
  <2> QED BY <2>3, <2>4
<1>5. ASSUME rx[h].sock = s, rx'[h].sock = None
      PROVE  /\ Users(s)' = Users(s) - 1 /\ Users(s) # 0
             /\ \A u \in Socks \ {s} : Users(u)' = Users(u)
  <2>1. RxOn(s) = RxOn(s)' \cup {h} /\ h \notin RxOn(s)'
    BY <1>5, Names DEF RxOn
  <2>2. Cardinality(RxOn(s)) = Cardinality(RxOn(s)') + 1 /\ Cardinality(RxOn(s)') \in Nat
    BY <1>2, <2>1, CardUp
  <2>3. ASSUME NEW u \in Socks \ {s} PROVE Users(u)' = Users(u)
    <3>1. RxOn(u)' = RxOn(u)
      BY <1>5, Names DEF RxOn
    <3> QED BY <1>1, <3>1 DEF Users
  <2>4. Users(s)' = Users(s) - 1 /\ Users(s) # 0
    BY <1>3, <2>2, UsersNat
  <2> QED BY <2>3, <2>4
<1> QED BY <1>4, <1>5

LEMMA TimerMoves ==
  ASSUME rx' = rx, pc' = pc, NEW h \in Hosts, NEW s \in Socks,
         \A g \in Hosts \ {h} : timer'[g].sock = timer[g].sock
  PROVE  /\ timer[h].sock = None /\ timer'[h].sock = s =>
              /\ Users(s)' = Users(s) + 1
              /\ \A u \in Socks \ {s} : Users(u)' = Users(u)
         /\ timer[h].sock = s /\ timer'[h].sock = None =>
              /\ Users(s)' = Users(s) - 1 /\ Users(s) # 0
              /\ \A u \in Socks \ {s} : Users(u)' = Users(u)
<1>1. \A u : RxOn(u)' = RxOn(u) /\ AcceptingOn(u)' = AcceptingOn(u) /\ ReadingOn(u)' = ReadingOn(u)
  BY DEF RxOn, AcceptingOn, ReadingOn
<1>2. /\ TimerOn(s) \in SUBSET Hosts /\ TimerOn(s)' \in SUBSET Hosts
      /\ IsFiniteSet(Hosts)
  BY Names DEF TimerOn
<1>3. /\ Users(s)' = Cardinality(RxOn(s)) + Cardinality(TimerOn(s)')
                       + Cardinality(AcceptingOn(s)) + Cardinality(ReadingOn(s))
      /\ Users(s) = Cardinality(RxOn(s)) + Cardinality(TimerOn(s))
                       + Cardinality(AcceptingOn(s)) + Cardinality(ReadingOn(s))
  BY <1>1 DEF Users
<1>4. ASSUME timer[h].sock = None, timer'[h].sock = s
      PROVE  /\ Users(s)' = Users(s) + 1
             /\ \A u \in Socks \ {s} : Users(u)' = Users(u)
  <2>1. TimerOn(s)' = TimerOn(s) \cup {h} /\ h \notin TimerOn(s)
    BY <1>4, Names DEF TimerOn
  <2>2. Cardinality(TimerOn(s)') = Cardinality(TimerOn(s)) + 1
    BY <1>2, <2>1, CardUp
  <2>3. ASSUME NEW u \in Socks \ {s} PROVE Users(u)' = Users(u)
    <3>1. TimerOn(u)' = TimerOn(u)
      BY <1>4, Names DEF TimerOn
    <3> QED BY <1>1, <3>1 DEF Users
  <2>4. Users(s)' = Users(s) + 1
    BY <1>3, <2>2, UsersNat
  <2> QED BY <2>3, <2>4
<1>5. ASSUME timer[h].sock = s, timer'[h].sock = None
      PROVE  /\ Users(s)' = Users(s) - 1 /\ Users(s) # 0
             /\ \A u \in Socks \ {s} : Users(u)' = Users(u)
  <2>1. TimerOn(s) = TimerOn(s)' \cup {h} /\ h \notin TimerOn(s)'
    BY <1>5, Names DEF TimerOn
  <2>2. Cardinality(TimerOn(s)) = Cardinality(TimerOn(s)') + 1 /\ Cardinality(TimerOn(s)') \in Nat
    BY <1>2, <2>1, CardUp
  <2>3. ASSUME NEW u \in Socks \ {s} PROVE Users(u)' = Users(u)
    <3>1. TimerOn(u)' = TimerOn(u)
      BY <1>5, Names DEF TimerOn
    <3> QED BY <1>1, <3>1 DEF Users
  <2>4. Users(s)' = Users(s) - 1 /\ Users(s) # 0
    BY <1>3, <2>2, UsersNat
  <2> QED BY <2>3, <2>4
<1> QED BY <1>4, <1>5

LEMMA AcceptMoves ==
  ASSUME rx' = rx, timer' = timer, NEW t \in Threads,
         \A u \in Threads \ {t} : pc'[u] = pc[u],
         pc[t].at \notin Reading, pc'[t].at \notin Reading
  PROVE  /\ pc[t].at \notin Accepting /\ pc'[t].at \in Accepting =>
              /\ Users(Lst)' = Users(Lst) + 1
              /\ \A u \in Socks \ {Lst} : Users(u)' = Users(u)
         /\ pc[t].at \in Accepting /\ pc'[t].at \notin Accepting =>
              /\ Users(Lst)' = Users(Lst) - 1 /\ Users(Lst) # 0
              /\ \A u \in Socks \ {Lst} : Users(u)' = Users(u)
<1>1. \A u : RxOn(u)' = RxOn(u) /\ TimerOn(u)' = TimerOn(u)
  BY DEF RxOn, TimerOn
<1>2. \A u : ReadingOn(u)' = ReadingOn(u)
  BY DEF ReadingOn
<1>3. \A u \in Socks \ {Lst} : AcceptingOn(u)' = AcceptingOn(u)
  BY DEF AcceptingOn
<1>4. \A u \in Socks \ {Lst} : Users(u)' = Users(u)
  BY <1>1, <1>2, <1>3 DEF Users
<1>5. /\ AcceptingOn(Lst) \in SUBSET Threads /\ AcceptingOn(Lst)' \in SUBSET Threads
      /\ IsFiniteSet(Threads)
  BY Names DEF AcceptingOn
<1>6. /\ Users(Lst)' = Cardinality(RxOn(Lst)) + Cardinality(TimerOn(Lst))
                         + Cardinality(AcceptingOn(Lst)') + Cardinality(ReadingOn(Lst))
      /\ Users(Lst) = Cardinality(RxOn(Lst)) + Cardinality(TimerOn(Lst))
                         + Cardinality(AcceptingOn(Lst)) + Cardinality(ReadingOn(Lst))
  BY <1>1, <1>2 DEF Users
<1>7. ASSUME pc[t].at \notin Accepting, pc'[t].at \in Accepting
      PROVE  Users(Lst)' = Users(Lst) + 1
  <2>1. AcceptingOn(Lst)' = AcceptingOn(Lst) \cup {t} /\ t \notin AcceptingOn(Lst)
    BY <1>7 DEF AcceptingOn
  <2>2. Cardinality(AcceptingOn(Lst)') = Cardinality(AcceptingOn(Lst)) + 1
    BY <1>5, <2>1, CardUp
  <2> QED BY <1>6, <2>2, UsersNat
<1>8. ASSUME pc[t].at \in Accepting, pc'[t].at \notin Accepting
      PROVE  Users(Lst)' = Users(Lst) - 1 /\ Users(Lst) # 0
  <2>1. AcceptingOn(Lst) = AcceptingOn(Lst)' \cup {t} /\ t \notin AcceptingOn(Lst)'
    BY <1>8 DEF AcceptingOn
  <2>2. /\ Cardinality(AcceptingOn(Lst)) = Cardinality(AcceptingOn(Lst)') + 1
        /\ Cardinality(AcceptingOn(Lst)') \in Nat
    BY <1>5, <2>1, CardUp
  <2> QED BY <1>6, <2>2, UsersNat
<1> QED BY <1>4, <1>7, <1>8

LEMMA ReadMoves ==
  ASSUME rx' = rx, timer' = timer, NEW t \in Threads, NEW s \in Socks,
         \A u \in Threads \ {t} : pc'[u] = pc[u],
         pc[t].sock = s, pc'[t].sock = s,
         pc[t].at \notin Accepting, pc'[t].at \notin Accepting
  PROVE  /\ pc[t].at \notin Reading /\ pc'[t].at \in Reading =>
              /\ Users(s)' = Users(s) + 1
              /\ \A u \in Socks \ {s} : Users(u)' = Users(u)
         /\ pc[t].at \in Reading /\ pc'[t].at \notin Reading =>
              /\ Users(s)' = Users(s) - 1 /\ Users(s) # 0
              /\ \A u \in Socks \ {s} : Users(u)' = Users(u)
<1>1. \A u : RxOn(u)' = RxOn(u) /\ TimerOn(u)' = TimerOn(u)
  BY DEF RxOn, TimerOn
<1>2. \A u : AcceptingOn(u)' = AcceptingOn(u)
  BY DEF AcceptingOn
<1>3. \A u \in Socks \ {s} : ReadingOn(u)' = ReadingOn(u)
  BY DEF ReadingOn
<1>4. \A u \in Socks \ {s} : Users(u)' = Users(u)
  BY <1>1, <1>2, <1>3 DEF Users
<1>5. /\ ReadingOn(s) \in SUBSET Threads /\ ReadingOn(s)' \in SUBSET Threads
      /\ IsFiniteSet(Threads)
  BY Names DEF ReadingOn
<1>6. /\ Users(s)' = Cardinality(RxOn(s)) + Cardinality(TimerOn(s))
                         + Cardinality(AcceptingOn(s)) + Cardinality(ReadingOn(s)')
      /\ Users(s) = Cardinality(RxOn(s)) + Cardinality(TimerOn(s))
                         + Cardinality(AcceptingOn(s)) + Cardinality(ReadingOn(s))
  BY <1>1, <1>2 DEF Users
<1>7. ASSUME pc[t].at \notin Reading, pc'[t].at \in Reading
      PROVE  Users(s)' = Users(s) + 1
  <2>1. ReadingOn(s)' = ReadingOn(s) \cup {t} /\ t \notin ReadingOn(s)
    BY <1>7 DEF ReadingOn
  <2>2. Cardinality(ReadingOn(s)') = Cardinality(ReadingOn(s)) + 1
    BY <1>5, <2>1, CardUp
  <2> QED BY <1>6, <2>2, UsersNat
<1>8. ASSUME pc[t].at \in Reading, pc'[t].at \notin Reading
      PROVE  Users(s)' = Users(s) - 1 /\ Users(s) # 0
  <2>1. ReadingOn(s) = ReadingOn(s)' \cup {t} /\ t \notin ReadingOn(s)'
    BY <1>8 DEF ReadingOn
  <2>2. /\ Cardinality(ReadingOn(s)) = Cardinality(ReadingOn(s)') + 1
        /\ Cardinality(ReadingOn(s)') \in Nat
    BY <1>5, <2>1, CardUp
  <2> QED BY <1>6, <2>2, UsersNat
<1> QED BY <1>4, <1>7, <1>8

----------------------------------------------------------------------------
(* Steps that leave the owners alone *)

LEMMA Quiet ==
  ASSUME Apart, OwnedOK,
         \A u \in Socks : sk'[u].linked = sk[u].linked,
         sk'[Lst].backlog = sk[Lst].backlog,
         \A k \in Kids : HalfOpen(sk[k]) /\ sk[k].linked => HalfOpen(sk'[k]),
         sk'[Lst].st = "LISTEN" => sk[Lst].st = "LISTEN",
         job' = job, rx'[Lst].kid = rx[Lst].kid,
         \A t \in Threads : pc'[t].sock = pc[t].sock
  PROVE  Apart' /\ OwnedOK'
<1>1. \A x : InJob(x)' = InJob(x)
  BY DEF InJob
<1>2. Apart'
  BY <1>1 DEF Apart, OnceInJobs, OnceAtThreads
<1>3. \A u : Owned(u)' <=> Owned(u)
  BY <1>1 DEF Owned
<1>4. ASSUME NEW u \in Socks, Owned(u)' PROVE sk'[u].linked
  BY <1>3, <1>4 DEF OwnedOK
<1>5. ASSUME NEW u \in Socks \ {Lst}, sk'[u].linked PROVE Owned(u)' \/ (u \in Kids /\ HalfOpen(sk'[u]))
  BY <1>3, <1>5 DEF OwnedOK
<1>6. \A x \in Doers : \A i \in DOMAIN job'[x] :
        job'[x][i] = <<"unlink", Lst>> => sk'[Lst].st # "LISTEN"
  BY DEF OwnedOK
<1>7. OwnedOK'
  BY <1>4, <1>5, <1>6 DEF OwnedOK, HalfOpen
<1> QED BY <1>2, <1>7

(* Whoever is used is alive. *)
LEMMA InUse ==
  ASSUME Typed, SocksOK, Counted, NEW s \in Socks, Users(s) # 0 \/ sk[s].linked
  PROVE  /\ sk[s].refs # 0 /\ sk[s].st \notin {"none", "freed"}
         /\ sk[s] \in Sockets /\ Within(sk[s]) /\ SockOK(s, sk[s])
<1>1. sk[s] \in Sockets /\ Within(sk[s]) /\ SockOK(s, sk[s])
  BY DEF Typed, SocksOK
<1>2. sk[s].refs = (IF sk[s].linked THEN 1 ELSE 0) + Users(s) /\ Users(s) \in Nat
  BY UsersNat DEF Counted
<1>3. sk[s].refs # 0
  BY <1>2
<1>4. sk[s].st \notin {"none", "freed"}
  BY <1>1, <1>3 DEF SockOK, Blank
<1> QED BY <1>1, <1>3, <1>4

LEMMA WireAfter ==
  ASSUME RInv, NEW segs \in Seq(Segments), NEW dst, AllTo(segs, dst),
         wire' = Onto(wire, segs)
  PROVE  wire' \in [Hosts -> Seq(Segments)] /\ Addressed'
<1>1. wire \in [Hosts -> Seq(Segments)] /\ Routed(wire)
  BY DEF RInv, Typed, Addressed
<1>2. Onto(wire, segs) \in [Hosts -> Seq(Segments)] /\ Routed(Onto(wire, segs))
  BY <1>1, OntoType
<1>3. Addressed' <=> Routed(wire')
  BY DEF Addressed, Routed
<1> QED BY <1>2, <1>3

Alike(q, r) == /\ q.st = r.st /\ q.una = r.una /\ q.iss = r.iss /\ q.refs = r.refs
               /\ q.linked = r.linked /\ q.backlog = r.backlog

(* One socket changes, and neither owners nor backlog. *)
LEMMA QuietStep ==
  ASSUME RInv, NEW s \in Socks, NEW q, sk'[s] = q, SockOK(s, q),
         q.linked = sk[s].linked, q.backlog = sk[s].backlog,
         \A u \in Socks \ {s} : Alike(sk'[u], sk[u]) /\ SockOK(u, sk'[u]),
         s \in Kids /\ HalfOpen(sk[s]) /\ (sk[s].linked \/ timer'[Lst].sock = s) => HalfOpen(q),
         s \in Kids /\ HalfOpen(q) =>
           HalfOpen(sk[s]) \/ (timer'[Lst].at = "splice" /\ timer'[Lst].sock = s),
         s = rx[Lst].kid => q.st = "SYN_RECEIVED",
         s = Lst /\ q.st = "LISTEN" => sk[Lst].st = "LISTEN",
         \/ timer'[Lst] = timer[Lst]
         \/ timer[Lst].at # "splice" /\ timer'[Lst].at # "splice"
         \/ timer[Lst].at # "splice" /\ timer'[Lst].sock = s /\ HalfOpen(q),
         rx[Lst].kid # None => timer'[Lst].sock # rx[Lst].kid,
         job' = job, rx'[Lst].kid = rx[Lst].kid,
         \A t \in Threads : pc'[t].sock = pc[t].sock
  PROVE  SocksOK' /\ FreshOK' /\ SpliceOK' /\ Apart' /\ OwnedOK' /\ DeadChildSpliced'
<1>1. SocksOK'
  BY DEF SocksOK, SockOK
<1>2. \A u \in Socks : sk'[u].linked = sk[u].linked /\ sk'[u].backlog = sk[u].backlog
  BY DEF Alike
<1>3. \A u \in Socks \ {s} : HalfOpen(sk'[u]) <=> HalfOpen(sk[u])
  BY DEF Alike, HalfOpen
<1>4. FreshOK'
  <2>1. rx[Lst].kid \in Kids \cup {None}
    BY Names DEF RInv, Typed
  <2>2. rx[Lst].kid # None => rx[Lst].kid \in Socks
    BY <2>1, Names
  <2> QED BY <2>2 DEF RInv, FreshOK, Alike
<1>5. SpliceOK'
  <2> SUFFICES ASSUME timer'[Lst].at = "splice" PROVE HalfOpen(sk'[timer'[Lst].sock])
    BY DEF SpliceOK, HalfOpen
  <2>1. CASE timer'[Lst] = timer[Lst]
    <3>1. timer[Lst].sock \in Kids /\ HalfOpen(sk[timer[Lst].sock])
      BY <2>1, Names DEF RInv, TimerOK, SpliceOK
    <3> QED BY <1>3, <2>1, <3>1, Names
  <2> QED BY <2>1
<1>6. Apart' /\ OwnedOK'
  <2>1. \A k \in Kids : HalfOpen(sk[k]) /\ sk[k].linked => HalfOpen(sk'[k])
    BY <1>3, Names
  <2>2. sk'[Lst].st = "LISTEN" => sk[Lst].st = "LISTEN"
    BY Names DEF Alike
  <2>3. Apart /\ OwnedOK
    BY DEF RInv
  <2> QED BY <1>2, <2>1, <2>2, <2>3, Names, Quiet
<1>7. DeadChildSpliced'
  <2> SUFFICES ASSUME NEW k \in Range(sk'[Lst].backlog), HalfOpen(sk'[k])
               PROVE  timer'[Lst].at = "splice" /\ timer'[Lst].sock = k
    BY DEF DeadChildSpliced, HalfOpen
  <2>1. sk'[Lst].backlog = sk[Lst].backlog /\ sk[Lst].backlog \in Seq(Kids)
    BY <1>2, Names, SocketFields DEF RInv, Typed
  <2>2. k \in Kids /\ k \in Range(sk[Lst].backlog)
    <3> DEFINE b == sk[Lst].backlog
    <3>1. b \in Seq(Kids) /\ k \in Range(b)
      BY <2>1
    <3> HIDE DEF b
    <3>2. k \in Kids
      BY <3>1, RangeOf
    <3> QED BY <3>1, <3>2 DEF b
  <2>3. HalfOpen(sk[k]) => timer[Lst].at = "splice" /\ timer[Lst].sock = k
    BY <2>2 DEF RInv, DeadChildSpliced, HalfOpen
  <2>4. HalfOpen(sk[k]) \/ (k = s /\ timer'[Lst].at = "splice" /\ timer'[Lst].sock = s)
    BY <1>3, <2>2, Names
  <2> QED BY <2>3, <2>4
<1> QED BY <1>1, <1>4, <1>5, <1>6, <1>7

(* Whoever holds a socket lets go of it, in the state r. *)
LEMMA Drop ==
  ASSUME RInv, NEW s \in Socks, Users(s) # 0,
         NEW r \in Sockets, Within(r), SockOK(s, r),
         r.refs = sk[s].refs, r.linked = sk[s].linked, r.backlog = sk[s].backlog
  PROVE  /\ Put(r) \in Sockets /\ Within(Put(r)) /\ SockOK(s, Put(r))
         /\ Put(r).linked = sk[s].linked /\ Put(r).backlog = sk[s].backlog
         /\ Put(r).refs = (IF Put(r).linked THEN 1 ELSE 0) + (Users(s) - 1)
         /\ HalfOpen(Put(r)) => HalfOpen(r)
         /\ HalfOpen(r) /\ (r.linked \/ Users(s) # 1) => HalfOpen(Put(r))
         /\ Put(r).st = r.st \/ Put(r).st = "freed"
<1>1. load \in Loads /\ Users(s) \in Nat
  BY UsersNat DEF RInv, Typed
<1>2. r.refs = (IF r.linked THEN 1 ELSE 0) + Users(s)
  BY DEF RInv, Counted
<1> DEFINE n == Users(s)
           q == Put(r)
<1> HIDE DEF n, q
<1>3. /\ q \in Sockets /\ Within(q) /\ SockOK(s, q)
      /\ q.linked = r.linked /\ q.backlog = r.backlog
      /\ q.refs = (IF r.linked THEN 1 ELSE 0) + (n - 1)
      /\ \/ q = Gone /\ ~r.linked /\ n = 1
         \/ q = [r EXCEPT !.refs = r.refs - 1]
  BY <1>1, <1>2, DropOne DEF n, q
<1>4. CASE q = Gone /\ ~r.linked /\ n = 1
  <2>1. q.st = "freed"
    BY <1>4, GoneFields
  <2> QED BY <1>3, <1>4, <2>1 DEF HalfOpen, n, q
<1>5. CASE q = [r EXCEPT !.refs = r.refs - 1]
  <2>1. q.st = r.st /\ q.una = r.una /\ q.iss = r.iss
    BY <1>5 DEF Sockets
  <2> QED BY <1>3, <2>1 DEF HalfOpen, n, q
<1> QED BY <1>3, <1>4, <1>5

(* The receive path has finished with a socket. *)
LEMMA RxDrop ==
  ASSUME RInv, NEW h \in Hosts, NEW s \in Socks, s = rx[h].sock,
         rx[h].at \notin {"idle", "backlog"}, h = Lst => job[Lst] = <<>>,
         NEW r \in Sockets, Within(r), SockOK(s, r),
         r.refs = sk[s].refs, r.linked = sk[s].linked, r.backlog = sk[s].backlog,
         s \in Kids => (HalfOpen(r) <=> HalfOpen(sk[s])),
         s = Lst /\ r.st = "LISTEN" => sk[Lst].st = "LISTEN",
         sk' = [u \in Socks |-> sk'[u]], sk'[s] = Put(r),
         \A u \in Socks \ {s} : /\ sk'[u] \in Sockets /\ Within(sk'[u]) /\ SockOK(u, sk'[u])
                                /\ Alike(sk'[u], sk[u]),
         rx' = [rx EXCEPT ![h] = RxIdle],
         wire' \in [Hosts -> Seq(Segments)], Addressed', park' \in [Threads -> Phases],
         UNCHANGED <<timer, pc, job, sig, isn, used, sent, got, load>>
  PROVE  RInv'
<1>1. /\ rx'[h] = RxIdle /\ rx[h].kid = None
      /\ \A g \in Hosts \ {h} : rx'[g] = rx[g]
      /\ rx'[h].sock = None /\ rx'[h].kid = None /\ rx'[h].at = "idle" /\ rx'[h].seg = None
  BY DEF RInv, Typed, RxOK, RxIdle
<1>2. /\ Users(s)' = Users(s) - 1 /\ Users(s) # 0
      /\ \A u \in Socks \ {s} : Users(u)' = Users(u)
  BY <1>1, RxMoves
<1> DEFINE q == Put(r)
<1>3. /\ q \in Sockets /\ Within(q) /\ SockOK(s, q)
      /\ q.linked = sk[s].linked /\ q.backlog = sk[s].backlog
      /\ q.refs = (IF q.linked THEN 1 ELSE 0) + (Users(s) - 1)
      /\ HalfOpen(q) => HalfOpen(r)
      /\ HalfOpen(r) /\ (r.linked \/ Users(s) # 1) => HalfOpen(q)
      /\ q.st = r.st \/ q.st = "freed"
  BY <1>2, Drop
<1>4. sk'[s] = q
  OBVIOUS
<1> HIDE DEF q
<1>5. Counted'
  <2>1. ASSUME NEW u \in Socks
        PROVE  sk'[u].refs = (IF sk'[u].linked THEN 1 ELSE 0) + Users(u)'
    <3>1. CASE u = s
      BY <1>2, <1>3, <1>4, <3>1
    <3>2. CASE u # s
      BY <1>2, <3>2 DEF Alike, RInv, Counted
    <3> QED BY <3>1, <3>2
  <2> QED BY <2>1 DEF Counted
<1>6. Typed'
  <2>1. sk' \in [Socks -> Sockets] /\ \A u \in Socks : Within(sk'[u])
    BY <1>3, <1>4
  <2>2. rx' \in [Hosts -> [at : RxPlaces, seg : Segments \cup {None}, sock : Socks \cup {None},
                           kid : Kids \cup {None}]]
    BY DEF RInv, Typed, RxIdle, RxPlaces
  <2> QED BY <2>1, <2>2 DEF RInv, Typed, Within
<1>7. RxOK' /\ TimerOK' /\ CallsOK'
  <2>1. RxOK'
    BY <1>1 DEF RInv, RxOK
  <2> QED BY <2>1 DEF RInv, TimerOK, CallsOK
<1>8. SocksOK' /\ FreshOK' /\ SpliceOK' /\ Apart' /\ OwnedOK' /\ DeadChildSpliced'
  <2>1. rx'[Lst].kid = rx[Lst].kid
    BY <1>1, Names
  <2>2. timer[Lst].sock = s => Users(s) # 1
    BY UsersNat, Names
  <2>3. s # rx[Lst].kid
    <3>1. rx[Lst].kid \in Kids \cup {None}
      BY Names DEF RInv, Typed
    <3>2. s = rx[Lst].kid => Local(s) = Lst /\ rx[Lst].at = "backlog"
      BY <3>1, Names DEF RInv, RxOK
    <3>3. Local(s) = h
      BY DEF RInv, RxOK
    <3> QED BY <3>2, <3>3
  <2>4. s \in Kids /\ HalfOpen(sk[s]) /\ (sk[s].linked \/ timer'[Lst].sock = s) => HalfOpen(q)
    BY <1>3, <2>2
  <2>5. s \in Kids /\ HalfOpen(q) => HalfOpen(sk[s])
    BY <1>3
  <2>6. rx[Lst].kid # None => timer'[Lst].sock # rx[Lst].kid
    BY DEF RInv, FreshOK
  <2>7. s = Lst /\ q.st = "LISTEN" => sk[Lst].st = "LISTEN"
    BY <1>3
  <2> QED BY <1>3, <1>4, <2>1, <2>3, <2>4, <2>5, <2>6, <2>7, QuietStep
<1> QED BY <1>5, <1>6, <1>7, <1>8 DEF RInv

LEMMA DoneInv ==
  ASSUME RInv, NEW h \in Hosts, NEW s \in Socks, s = rx[h].sock,
         rx[h].at \notin {"idle", "backlog"}, h = Lst => job[Lst] = <<>>,
         NEW r \in Sockets, Within(r), SockOK(s, r),
         r.refs = sk[s].refs, r.linked = sk[s].linked, r.backlog = sk[s].backlog,
         s \in Kids => (HalfOpen(r) <=> HalfOpen(sk[s])),
         s = Lst /\ r.st = "LISTEN" => sk[Lst].st = "LISTEN",
         NEW segs \in Seq(Segments), NEW dst, AllTo(segs, dst),
         NEW T, Done(h, r, segs, T)
  PROVE  RInv'
<1>1. sk' = [u \in Socks |-> sk'[u]] /\ sk'[s] = Put(r) /\ \A u \in Socks \ {s} : sk'[u] = sk[u]
  BY DEF Done, RInv, Typed
<1>2. \A u \in Socks \ {s} : /\ sk'[u] \in Sockets /\ Within(sk'[u]) /\ SockOK(u, sk'[u])
                             /\ Alike(sk'[u], sk[u])
  BY <1>1 DEF RInv, Typed, SocksOK, Alike
<1>3. wire' \in [Hosts -> Seq(Segments)] /\ Addressed'
  BY WireAfter DEF Done
<1>4. park' \in [Threads -> Phases]
  BY UnblockType DEF Done, RInv, Typed
<1> QED BY <1>1, <1>2, <1>3, <1>4, RxDrop DEF Done

(* So has the timer. *)
LEMMA TickEndInv ==
  ASSUME RInv, NEW h \in Hosts, NEW s \in Socks, s = timer[h].sock, timer[h].at = "section",
         NEW r \in Sockets, Within(r), SockOK(s, r),
         r.refs = sk[s].refs, r.linked = sk[s].linked, r.backlog = sk[s].backlog,
         s \in Kids => (HalfOpen(r) <=> HalfOpen(sk[s])),
         s = Lst /\ r.st = "LISTEN" => sk[Lst].st = "LISTEN",
         NEW segs \in Seq(Segments), NEW dst, AllTo(segs, dst),
         NEW T, TickEnd(h, r, segs, T)
  PROVE  RInv'
<1>1. /\ sk' \in [Socks -> Sockets] /\ sk'[s] = Put(r)
      /\ \A u \in Socks \ {s} : sk'[u] = sk[u] /\ Within(sk[u]) /\ SockOK(u, sk[u])
  <2>1. Users(s) # 0
    BY UsersNat
  <2>2. Put(r) \in Sockets
    BY <2>1, Drop
  <2> QED BY <2>2 DEF TickEnd, RInv, Typed, SocksOK
<1>2. wire' \in [Hosts -> Seq(Segments)] /\ Addressed'
  BY WireAfter DEF TickEnd
<1>3. park' \in [Threads -> Phases]
  BY UnblockType DEF TickEnd, RInv, Typed
<1>4. /\ timer'[h].at = "idle" /\ timer'[h].sock = None
      /\ \A g \in Hosts \ {h} : timer'[g] = timer[g]
      /\ timer' \in [Hosts -> [at : TimerPlaces, sock : Socks \cup {None}]]
  BY DEF TickEnd, TimerIdle, RInv, Typed, TimerPlaces
<1>5. UNCHANGED <<rx, pc, job, sig, isn, used, sent, got, load>>
  BY DEF TickEnd
<1>6. /\ Users(s)' = Users(s) - 1 /\ Users(s) # 0
      /\ \A u \in Socks \ {s} : Users(u)' = Users(u)
  BY <1>4, <1>5, TimerMoves
<1> DEFINE q == Put(r)
<1>7. /\ q \in Sockets /\ Within(q) /\ SockOK(s, q)
      /\ q.linked = sk[s].linked /\ q.backlog = sk[s].backlog
      /\ q.refs = (IF q.linked THEN 1 ELSE 0) + (Users(s) - 1)
      /\ HalfOpen(q) => HalfOpen(r)
      /\ HalfOpen(r) /\ (r.linked \/ Users(s) # 1) => HalfOpen(q)
      /\ q.st = r.st \/ q.st = "freed"
  BY <1>6, Drop
<1>8. sk'[s] = q
  BY <1>1
<1> HIDE DEF q
<1>9. Counted'
  <2>1. ASSUME NEW u \in Socks
        PROVE  sk'[u].refs = (IF sk'[u].linked THEN 1 ELSE 0) + Users(u)'
    <3>1. CASE u = s
      BY <1>6, <1>7, <1>8, <3>1
    <3>2. CASE u # s
      BY <1>1, <1>6, <3>2 DEF RInv, Counted
    <3> QED BY <3>1, <3>2
  <2> QED BY <2>1 DEF Counted
<1>10. Typed'
  <2>1. \A u \in Socks : Within(sk'[u])
    BY <1>1, <1>7, <1>8
  <2> QED BY <1>1, <1>2, <1>3, <1>4, <1>5, <2>1 DEF RInv, Typed, Within
<1>11. RxOK' /\ TimerOK' /\ CallsOK'
  <2>1. TimerOK'
    BY <1>4 DEF RInv, TimerOK
  <2> QED BY <1>5, <2>1 DEF RInv, RxOK, CallsOK
<1>12. SocksOK' /\ FreshOK' /\ SpliceOK' /\ Apart' /\ OwnedOK' /\ DeadChildSpliced'
  <2>1. rx[Lst].kid # None => timer'[Lst].sock # rx[Lst].kid
    BY <1>4, Names DEF RInv, FreshOK
  <2>2. s # rx[Lst].kid
    <3>1. rx[Lst].kid \in Kids \cup {None}
      BY Names DEF RInv, Typed
    <3>2. s = rx[Lst].kid => Local(s) = Lst /\ timer[Lst].sock # s
      BY <3>1, Names DEF RInv, FreshOK
    <3>3. Local(s) = h
      BY DEF RInv, TimerOK
    <3> QED BY <3>2, <3>3
  <2>3. \/ timer'[Lst] = timer[Lst]
        \/ timer[Lst].at # "splice" /\ timer'[Lst].at # "splice"
    BY <1>4, Names
  <2>4. s \in Kids /\ HalfOpen(sk[s]) /\ (sk[s].linked \/ timer'[Lst].sock = s) => HalfOpen(q)
    <3>1. s \in Kids => timer'[Lst].sock # s
      BY <1>4, Names DEF RInv, TimerOK
    <3> QED BY <1>7, <3>1
  <2>5. s \in Kids /\ HalfOpen(q) => HalfOpen(sk[s])
    BY <1>7
  <2>6. s = Lst /\ q.st = "LISTEN" => sk[Lst].st = "LISTEN"
    BY <1>7
  <2>7. \A u \in Socks \ {s} : Alike(sk'[u], sk[u]) /\ SockOK(u, sk'[u])
    BY <1>1 DEF Alike
  <2> QED BY <1>5, <1>7, <1>8, <2>1, <2>2, <2>3, <2>4, <2>5, <2>6, <2>7, QuietStep
<1> QED BY <1>2, <1>9, <1>10, <1>11, <1>12 DEF RInv

----------------------------------------------------------------------------
(* The receive path *)

LEMMA RxHas ==
  ASSUME RInv, NEW h \in Hosts, rx[h].at # "idle"
  PROVE  LET s == rx[h].sock IN
         /\ s \in Socks /\ rx[h].seg \in Segments /\ Local(s) = h /\ Users(s) # 0
         /\ sk[s].refs # 0 /\ sk[s].st \notin {"none", "freed"}
         /\ sk[s] \in Sockets /\ Within(sk[s]) /\ SockOK(s, sk[s])
<1>1. rx[h].sock \in Socks
  BY DEF RInv, Typed, RxOK
<1>2. Users(rx[h].sock) # 0
  BY UsersNat
<1> QED BY <1>1, <1>2, InUse DEF RInv, RxOK

LEMMA SegFields ==
  ASSUME NEW g \in Segments
  PROVE  /\ g.src \in Addrs /\ g.dst \in Addrs /\ g.seq \in Seqs /\ g.ack \in Seqs
         /\ g.flags \in SUBSET {"SYN", "ACK", "FIN", "RST"} /\ g.data \in Seq(Bytes)
BY DEF Segments

(* The section ends and the socket is as it was. *)
LEMMA DoneSame ==
  ASSUME RInv, NEW h \in Hosts, rx[h].at \notin {"idle", "backlog"}, h = Lst => job[Lst] = <<>>,
         NEW segs \in Seq(Segments), NEW dst, AllTo(segs, dst),
         NEW T, Done(h, sk[rx[h].sock], segs, T)
  PROVE  RInv'
BY RxHas, DoneInv

LEMMA RejectInv ==
  ASSUME RInv, NEW h \in Hosts, RxReject(h)
  PROVE  RInv'
<1> DEFINE s == rx[h].sock
           r == sk[s]
           g == rx[h].seg
           answer == <<Seg(s, r, {"ACK"}, <<>>)>>
<1>1. rx[h].at = "section" /\ (h = Lst => job[Lst] = <<>>)
  BY DEF RxReject, In, RxAt
<1>2. s \in Socks /\ r \in Sockets
  BY <1>1, RxHas
<1>3. answer \in Seq(Segments) /\ AllTo(answer, r.peer)
  BY <1>2, SegType, OneSegment, EmptySeq
<1>4. Done(h, r, answer, {}) \/ Done(h, r, <<>>, {})
  BY DEF RxReject
<1> HIDE DEF answer
<1> QED BY <1>1, <1>3, <1>4, NoSegment, DoneSame

LEMMA ResetInv ==
  ASSUME RInv, NEW h \in Hosts, RxReset(h)
  PROVE  RInv'
<1> DEFINE s == rx[h].sock
           r == sk[s]
           q == [r EXCEPT !.st = "CLOSED", !.conn = None, !.rxw = None]
<1>1. rx[h].at = "section" /\ (h = Lst => job[Lst] = <<>>) /\ r.st \in Synchronised
      /\ Done(h, q, <<>>, {r.conn, r.rxw})
  BY DEF RxReset, In, RxAt
<1>2. s \in Socks /\ r \in Sockets /\ Within(r) /\ SockOK(s, r)
  BY <1>1, RxHas
<1>3. /\ q \in Sockets /\ q.refs = r.refs /\ q.linked = r.linked /\ q.backlog = r.backlog
      /\ q.st = "CLOSED" /\ q.una = r.una /\ q.iss = r.iss /\ q.cnt = r.cnt /\ q.rx = r.rx
      /\ q.rtx = r.rtx
  BY <1>2 DEF Sockets, States
<1> HIDE DEF q
<1>4. s # Lst
  BY <1>1, <1>2 DEF SockOK, Synchronised
<1>5. s \in Kids => r.una # r.iss
  BY <1>1, <1>2, PlusOne, SocketFields DEF SockOK
<1>6. SockOK(s, q) /\ Within(q)
  BY <1>2, <1>3, <1>4 DEF SockOK, Within, Synchronised
<1>7. s \in Kids => ~HalfOpen(q) /\ ~HalfOpen(r)
  BY <1>3, <1>5 DEF HalfOpen
<1> HIDE DEF s, r
<1> QED BY <1>1, <1>2, <1>3, <1>4, <1>6, <1>7, NoSegment, DoneInv DEF s, r

LEMMA ListenInv ==
  ASSUME RInv, NEW h \in Hosts, RxListen(h)
  PROVE  RInv'
<1>1. rx[h].at = "section" /\ (h = Lst => job[Lst] = <<>>) /\ sk[rx[h].sock].st = "LISTEN"
  BY DEF RxListen, In, RxAt
<1>2. CASE Done(h, sk[rx[h].sock], <<>>, {})
  BY <1>1, <1>2, NoSegment, DoneSame
<1>3. CASE /\ rx' = [rx EXCEPT ![h].at = "child"]
           /\ UNCHANGED <<sk, wire, timer, pc, job, sig, isn, used, sent, got, load, park>>
  <2>1. rx[h].sock = Lst
    BY <1>1, RxHas DEF SockOK
  <2>2. /\ rx'[h].at = "child" /\ rx'[h].sock = rx[h].sock /\ rx'[h].kid = rx[h].kid
        /\ rx'[h].seg = rx[h].seg /\ \A g \in Hosts \ {h} : rx'[g] = rx[g]
    BY <1>3 DEF RInv, Typed
  <2>3. \A u : Users(u)' = Users(u)
    BY <1>3, <2>2, UsersSame
  <2>4. Typed'
    <3>1. rx' \in [Hosts -> [at : RxPlaces, seg : Segments \cup {None}, sock : Socks \cup {None},
                             kid : Kids \cup {None}]]
      <4>1. rx \in [Hosts -> [at : RxPlaces, seg : Segments \cup {None}, sock : Socks \cup {None},
                              kid : Kids \cup {None}]]
        BY DEF RInv, Typed
      <4> QED BY <1>3, <4>1 DEF RxPlaces
    <3>2. Typed
      BY DEF RInv
    <3> HIDE DEF Sockets, Segments
    <3> QED BY <1>3, <3>1, <3>2 DEF Typed, Within
  <2>5. Counted'
    BY <1>3, <2>3 DEF RInv, Counted
  <2>6. RxOK'
    BY <1>1, <1>3, <2>1, <2>2 DEF RInv, RxOK
  <2>7. rx'[Lst].kid = rx[Lst].kid
    BY <2>2, Names
  <2>8. Apart' /\ OwnedOK'
    BY <1>3, <2>7, Quiet DEF RInv
  <2>9. TimerOK' /\ SpliceOK' /\ CallsOK' /\ DeadChildSpliced' /\ SocksOK' /\ FreshOK' /\ Addressed'
    BY <1>3, <2>7 DEF RInv, TimerOK, SpliceOK, CallsOK, DeadChildSpliced, SocksOK, FreshOK,
                      Addressed, Routed, SockOK, HalfOpen
  <2> QED BY <2>4, <2>5, <2>6, <2>8, <2>9 DEF RInv
<1> QED BY <1>2, <1>3 DEF RxListen

LEMMA ClosedInv ==
  ASSUME RInv, NEW h \in Hosts, RxClosed(h)
  PROVE  RInv'
<1>1. rx[h].at = "closed" /\ (h = Lst => job[Lst] = <<>>) /\ Done(h, sk[Lst], <<>>, {})
  BY DEF RxClosed, RxAt
<1>2. rx[h].sock = Lst
  BY <1>1 DEF RInv, RxOK
<1> QED BY <1>1, <1>2, NoSegment, DoneSame

LEMMA SynSentInv ==
  ASSUME RInv, NEW h \in Hosts, RxSynSent(h)
  PROVE  RInv'
<1> DEFINE s == rx[h].sock
           r == sk[s]
           g == rx[h].seg
           est == [r EXCEPT !.rcv = Plus(g.seq, 1), !.una = g.ack, !.st = "ESTABLISHED",
                            !.rtx = FALSE, !.conn = None]
           dead == [r EXCEPT !.st = "CLOSED", !.rtx = FALSE, !.conn = None]
           answer == <<Seg(s, est, {"ACK"}, <<>>)>>
<1>1. rx[h].at = "section" /\ (h = Lst => job[Lst] = <<>>) /\ r.st = "SYN_SENT"
  BY DEF RxSynSent, In, RxAt
<1>2. s \in Socks /\ r \in Sockets /\ Within(r) /\ SockOK(s, r) /\ g \in Segments
  BY <1>1, RxHas
<1>3. s \in Clients /\ s # Lst /\ s \notin Kids
  BY <1>1, <1>2, Names DEF SockOK
<1>4. /\ est \in Sockets /\ est.refs = r.refs /\ est.linked = r.linked /\ est.backlog = r.backlog
      /\ est.st = "ESTABLISHED" /\ est.cnt = r.cnt /\ est.rx = r.rx /\ est.rtx = FALSE
      /\ est.peer = r.peer
  <2>1. Plus(g.seq, 1) \in Seqs /\ g.ack \in Seqs
    BY <1>2, SegFields, PlusIn
  <2> QED BY <1>2, <2>1 DEF Sockets, States, Synchronised
<1>5. /\ dead \in Sockets /\ dead.refs = r.refs /\ dead.linked = r.linked
      /\ dead.backlog = r.backlog /\ dead.st = "CLOSED" /\ dead.cnt = r.cnt /\ dead.rx = r.rx
      /\ dead.rtx = FALSE
  BY <1>2 DEF Sockets, States
<1>7. \/ Done(h, dead, <<>>, {r.conn}) \/ Done(h, r, <<>>, {}) \/ Done(h, est, answer, {r.conn})
  BY DEF RxSynSent
<1> HIDE DEF est, dead
<1>6. answer \in Seq(Segments) /\ AllTo(answer, est.peer)
  BY <1>2, <1>4, SegType, OneSegment, EmptySeq
<1> HIDE DEF answer
<1>8. SockOK(s, est) /\ Within(est) /\ SockOK(s, dead) /\ Within(dead)
  BY <1>2, <1>3, <1>4, <1>5 DEF SockOK, Within
<1>9. CASE Done(h, r, <<>>, {})
  BY <1>1, <1>9, NoSegment, DoneSame
<1> HIDE DEF r, s
<1>10. CASE Done(h, dead, <<>>, {r.conn})
  BY <1>1, <1>2, <1>3, <1>5, <1>8, <1>10, NoSegment, DoneInv DEF r, s
<1>11. CASE Done(h, est, answer, {r.conn})
  BY <1>1, <1>2, <1>3, <1>4, <1>6, <1>8, <1>11, DoneInv DEF r, s
<1> QED BY <1>7, <1>9, <1>10, <1>11

(* A socket changes and nobody enters or leaves one. *)
LEMMA InPlace ==
  ASSUME RInv, NEW s \in Socks, NEW q \in Sockets, Within(q), SockOK(s, q),
         q.refs = sk[s].refs, q.linked = sk[s].linked, q.backlog = sk[s].backlog,
         sk' = [sk EXCEPT ![s] = q], load' = load, job' = job,
         \A h \in Hosts : rx'[h].sock = rx[h].sock /\ timer'[h].sock = timer[h].sock,
         \A t \in Threads :
           /\ pc'[t].at \in Accepting <=> pc[t].at \in Accepting
           /\ pc'[t].at \in Reading <=> pc[t].at \in Reading
           /\ pc'[t].sock = pc[t].sock,
         rx'[Lst].kid = rx[Lst].kid,
         s \in Kids /\ HalfOpen(sk[s]) => HalfOpen(q),
         s \in Kids /\ HalfOpen(q) =>
           HalfOpen(sk[s]) \/ (timer'[Lst].at = "splice" /\ timer'[Lst].sock = s),
         s = rx[Lst].kid => q.st = "SYN_RECEIVED",
         s = Lst /\ q.st = "LISTEN" => sk[Lst].st = "LISTEN",
         \/ timer'[Lst] = timer[Lst]
         \/ timer[Lst].at # "splice" /\ timer'[Lst].sock = s /\ HalfOpen(q)
  PROVE  /\ sk' \in [Socks -> Sockets] /\ \A u \in Socks : Within(sk'[u])
         /\ SocksOK' /\ FreshOK' /\ SpliceOK' /\ Apart' /\ OwnedOK' /\ Counted'
         /\ DeadChildSpliced'
<1>1. /\ sk'[s] = q
      /\ \A u \in Socks \ {s} : sk'[u] = sk[u]
      /\ sk \in [Socks -> Sockets] /\ \A u \in Socks : Within(sk[u]) /\ SockOK(u, sk[u])
  BY DEF RInv, Typed, SocksOK
<1>2. sk' \in [Socks -> Sockets] /\ \A u \in Socks : Within(sk'[u])
  BY <1>1
<1>3. \A u \in Socks : Users(u)' = Users(u)
  BY UsersSame
<1>4. Counted'
  <2>1. ASSUME NEW u \in Socks
        PROVE  sk'[u].refs = (IF sk'[u].linked THEN 1 ELSE 0) + Users(u)'
    <3>1. sk'[u].refs = sk[u].refs /\ sk'[u].linked = sk[u].linked
      BY <1>1
    <3> QED BY <1>3, <3>1 DEF RInv, Counted
  <2> QED BY <2>1 DEF Counted
<1>5. SocksOK' /\ FreshOK' /\ SpliceOK' /\ Apart' /\ OwnedOK' /\ DeadChildSpliced'
  <2>1. \A u \in Socks \ {s} : Alike(sk'[u], sk[u]) /\ SockOK(u, sk'[u])
    BY <1>1 DEF Alike
  <2>2. rx[Lst].kid # None => timer'[Lst].sock # rx[Lst].kid
    BY Names DEF RInv, FreshOK
  <2> QED BY <1>1, <2>1, <2>2, QuietStep
<1> QED BY <1>2, <1>4, <1>5

(* What is left of Typed when a step changes only the socket's record, the
   receive path or the timer. *)
LEMMA TypedAfter ==
  ASSUME RInv, sk' \in [Socks -> Sockets], \A u \in Socks : Within(sk'[u]),
         wire' \in [Hosts -> Seq(Segments)],
         rx' \in [Hosts -> [at : RxPlaces, seg : Segments \cup {None}, sock : Socks \cup {None},
                            kid : Kids \cup {None}]],
         timer' \in [Hosts -> [at : TimerPlaces, sock : Socks \cup {None}]],
         used' \in [lose : Nat, dup : Nat, signals : Nat], park' \in [Threads -> Phases],
         UNCHANGED <<pc, job, sig, isn, sent, got, load>>
  PROVE  Typed'
<1>1. Typed
  BY DEF RInv
<1> QED BY <1>1 DEF Typed, Within

LEMMA SynReceivedInv ==
  ASSUME RInv, NEW h \in Hosts, RxSynReceived(h)
  PROVE  RInv'
<1> DEFINE s == rx[h].sock
           r == sk[s]
           g == rx[h].seg
           q == [r EXCEPT !.una = g.ack, !.st = "ESTABLISHED", !.rtx = FALSE]
<1>1. rx[h].at = "section" /\ (h = Lst => job[Lst] = <<>>) /\ r.st = "SYN_RECEIVED"
  BY DEF RxSynReceived, In, RxAt
<1>2. /\ s \in Socks /\ r \in Sockets /\ Within(r) /\ SockOK(s, r) /\ g \in Segments
      /\ Local(s) = h
  BY <1>1, RxHas
<1>3. CASE Done(h, r, <<>>, {})
  BY <1>1, <1>3, NoSegment, DoneSame
<1>4. CASE /\ g.ack = Plus(r.iss, 1)
           /\ sk' = [sk EXCEPT ![s] = q]
           /\ rx' = [rx EXCEPT ![h].at = "notify"]
           /\ UNCHANGED <<wire, timer, pc, job, sig, isn, used, sent, got, load, park>>
  <2>1. s \in Kids /\ s # Lst /\ s \notin Clients /\ h = Lst
    BY <1>1, <1>2, Names DEF SockOK
  <2>2. /\ q \in Sockets /\ q.refs = r.refs /\ q.linked = r.linked /\ q.backlog = r.backlog
        /\ q.st = "ESTABLISHED" /\ q.una = Plus(r.iss, 1) /\ q.iss = r.iss /\ q.cnt = r.cnt
        /\ q.rx = r.rx /\ q.rtx = FALSE
    <3>1. g.ack \in Seqs
      BY <1>2, SegFields
    <3> QED BY <1>2, <1>4, <3>1 DEF Sockets, States, Synchronised
  <2> HIDE DEF q
  <2>3. SockOK(s, q) /\ Within(q)
    BY <1>2, <2>1, <2>2 DEF SockOK, Within
  <2>4. ~HalfOpen(q) /\ ~HalfOpen(r)
    BY <1>1, <2>2 DEF HalfOpen
  <2>5. /\ rx'[h].at = "notify" /\ rx'[h].sock = rx[h].sock /\ rx'[h].kid = rx[h].kid
        /\ rx'[h].seg = rx[h].seg /\ \A f \in Hosts \ {h} : rx'[f] = rx[f]
    BY <1>4 DEF RInv, Typed
  <2>6. s # rx[Lst].kid
    <3>1. rx[Lst].kid = None
      BY <1>1, <2>1, Names DEF RInv, RxOK
    <3> QED BY <2>1, <3>1, Names
  <2>7. rx'[Lst].kid = rx[Lst].kid /\ \A f \in Hosts : rx'[f].sock = rx[f].sock
    BY <2>1, <2>5
  <2>8. /\ sk' \in [Socks -> Sockets] /\ \A u \in Socks : Within(sk'[u])
        /\ SocksOK' /\ FreshOK' /\ SpliceOK' /\ Apart' /\ OwnedOK' /\ Counted'
        /\ DeadChildSpliced'
    <3> HIDE DEF r, s
    <3> QED BY <1>2, <1>4, <2>1, <2>2, <2>3, <2>4, <2>6, <2>7, InPlace DEF r
  <2>9. RxOK' /\ TimerOK' /\ CallsOK' /\ Addressed'
    <3>1. RxOK'
      BY <1>1, <1>4, <2>1, <2>5 DEF RInv, RxOK
    <3> QED BY <1>4, <3>1 DEF RInv, TimerOK, CallsOK, Addressed, Routed
  <2>10. Typed'
    <3>1. rx' \in [Hosts -> [at : RxPlaces, seg : Segments \cup {None}, sock : Socks \cup {None},
                             kid : Kids \cup {None}]]
      <4>1. rx \in [Hosts -> [at : RxPlaces, seg : Segments \cup {None}, sock : Socks \cup {None},
                              kid : Kids \cup {None}]]
        BY DEF RInv, Typed
      <4> QED BY <1>4, <4>1 DEF RxPlaces
    <3>2. Typed
      BY DEF RInv
    <3> QED BY <1>4, <2>8, <3>1, <3>2, TypedAfter DEF Typed
  <2> QED BY <2>8, <2>9, <2>10 DEF RInv
<1> QED BY <1>3, <1>4 DEF RxSynReceived

LEMMA NotifyInv ==
  ASSUME RInv, NEW h \in Hosts, RxNotify(h)
  PROVE  RInv'
<1> DEFINE s == rx[h].sock
           r == sk[s]
           l == sk[Lst]
           woken == [l EXCEPT !.acc = IF Listening THEN None ELSE l.acc]
<1>1. rx[h].at = "notify" /\ (h = Lst => job[Lst] = <<>>)
  BY DEF RxNotify, RxAt
<1>2. s \in Socks /\ r \in Sockets /\ Within(r) /\ SockOK(s, r) /\ s \in Kids /\ s # Lst
  BY <1>1, RxHas, Names DEF RInv, RxOK
<1>3. l \in Sockets /\ Within(l) /\ SockOK(Lst, l)
  BY Names DEF RInv, Typed, SocksOK
<1>4. /\ sk' = [sk EXCEPT ![s] = Put(r), ![Lst] = woken]
      /\ rx' = [rx EXCEPT ![h] = RxIdle]
      /\ Unblock(IF Listening THEN Someone({l.acc}) ELSE {})
      /\ UNCHANGED <<wire, timer, pc, job, sig, isn, used, sent, got, load>>
  BY <1>2 DEF RxNotify
<1>5. woken \in Sockets /\ Within(woken) /\ SockOK(Lst, woken) /\ Alike(woken, l)
  <2>1. CASE Listening
    <3>1. /\ woken \in Sockets /\ woken.st = l.st /\ woken.una = l.una /\ woken.iss = l.iss
          /\ woken.refs = l.refs /\ woken.linked = l.linked /\ woken.backlog = l.backlog
          /\ woken.cnt = l.cnt /\ woken.rx = l.rx /\ woken.rtx = l.rtx
      BY <1>3, <2>1 DEF Sockets
    <3>2. l.st = "LISTEN"
      BY <2>1 DEF Listening
    <3> HIDE DEF woken
    <3> QED BY <1>3, <3>1, <3>2, Names DEF SockOK, Within, Alike
  <2>2. CASE ~Listening
    <3>1. woken = l
      BY <1>3, <2>2 DEF Sockets
    <3> QED BY <1>3, <3>1 DEF Alike
  <2> QED BY <2>1, <2>2
<1> HIDE DEF woken
<1>6. /\ sk' = [u \in Socks |-> sk'[u]] /\ sk'[s] = Put(r)
      /\ \A u \in Socks \ {s} : /\ sk'[u] \in Sockets /\ Within(sk'[u]) /\ SockOK(u, sk'[u])
                                /\ Alike(sk'[u], sk[u])
  <2>1. sk' = [u \in Socks |-> sk'[u]] /\ sk'[s] = Put(r) /\ sk'[Lst] = woken
        /\ \A u \in Socks \ {s, Lst} : sk'[u] = sk[u]
    BY <1>2, <1>4, Names, ZenonT(40) DEF RInv, Typed
  <2>2. \A u \in Socks \ {s, Lst} : /\ sk'[u] \in Sockets /\ Within(sk'[u]) /\ SockOK(u, sk'[u])
                                    /\ Alike(sk'[u], sk[u])
    BY <2>1 DEF RInv, Typed, SocksOK, Alike
  <2>3. /\ sk'[Lst] \in Sockets /\ Within(sk'[Lst]) /\ SockOK(Lst, sk'[Lst])
        /\ Alike(sk'[Lst], sk[Lst])
    BY <1>5, <2>1
  <2> QED BY <2>1, <2>2, <2>3
<1>7. wire' \in [Hosts -> Seq(Segments)] /\ Addressed' /\ park' \in [Threads -> Phases]
  BY <1>4, UnblockType DEF RInv, Typed, Addressed, Routed
<1> HIDE DEF s, r
<1> QED BY <1>1, <1>2, <1>4, <1>6, <1>7, RxDrop DEF s, r

Kept(q, r) == /\ q.refs = r.refs /\ q.linked = r.linked /\ q.backlog = r.backlog
              /\ q.una = r.una /\ q.iss = r.iss /\ q.cnt = r.cnt /\ q.rtx = r.rtx

(* A section in a synchronised state ends in one, or closes the socket. *)
LEMMA SyncDone ==
  ASSUME RInv, NEW h \in Hosts, In(h, Synchronised), NEW r, r = sk[rx[h].sock],
         NEW q \in Sockets, Kept(q, r), Len(q.rx) <= RxSize,
         q.st \in Synchronised \cup {"CLOSED"},
         NEW segs \in Seq(Segments), NEW dst, AllTo(segs, dst),
         NEW T, Done(h, q, segs, T)
  PROVE  RInv'
<1> DEFINE s == rx[h].sock
<1>1. rx[h].at = "section" /\ (h = Lst => job[Lst] = <<>>) /\ r.st \in Synchronised
  BY DEF In, RxAt
<1>2. s \in Socks /\ r \in Sockets /\ Within(r) /\ SockOK(s, r)
  BY <1>1, RxHas
<1>3. s # Lst
  BY <1>1, <1>2 DEF SockOK, Synchronised
<1>4. s \in Kids => r.una # r.iss
  BY <1>1, <1>2, PlusOne, SocketFields DEF SockOK
<1>5. ~r.rtx /\ ~q.rtx
  BY <1>1, <1>2 DEF SockOK, Synchronised, Kept
<1>6. SockOK(s, q)
  <2>1. q.st \notin {"none", "freed", "LISTEN", "SYN_SENT", "SYN_RECEIVED"}
    BY DEF Synchronised
  <2>2. s \in Kids => q.una = Plus(q.iss, 1)
    BY <1>1, <1>2 DEF SockOK, Kept
  <2>3. q.backlog = <<>>
    BY <1>2, <1>3 DEF SockOK, Kept
  <2> QED BY <1>3, <1>5, <2>1, <2>2, <2>3 DEF SockOK
<1>7. Within(q)
  <2>1. q.cnt <= load.retries /\ Len(q.backlog) <= load.backlog
    BY <1>2 DEF Within, Kept
  <2> QED BY <2>1 DEF Within
<1>8. s \in Kids => ~HalfOpen(q) /\ ~HalfOpen(r)
  BY <1>4 DEF HalfOpen, Kept
<1>9. q.refs = r.refs /\ q.linked = r.linked /\ q.backlog = r.backlog
  BY DEF Kept
<1> HIDE DEF s
<1> QED BY <1>1, <1>2, <1>3, <1>6, <1>7, <1>8, <1>9, DoneInv DEF s

LEMMA StoredIs ==
  ASSUME NEW r \in Sockets, Within(r), NEW g \in Segments
  PROVE  \E x \in Seq(Bytes), n \in Seqs :
           Len(x) <= RxSize /\ Stored(r, g) = [r EXCEPT !.rx = x, !.rcv = n]
<1> DEFINE room == RxSize - Len(r.rx)
           fit == Upto(g.data, room)
<1>1. r.rx \in Seq(Bytes) /\ r.rcv \in Seqs /\ g.data \in Seq(Bytes)
  BY SocketFields, SegFields
<1>2. room \in Nat /\ Len(r.rx) \in Nat
  BY <1>1, LenProperties, TcpSizes DEF Within
<1> HIDE DEF room
<1>3. fit \in Seq(Bytes) /\ Len(fit) <= room /\ Len(fit) \in Nat
  BY <1>1, <1>2, UptoFacts
<1> HIDE DEF fit
<1>4. r.rx \o fit \in Seq(Bytes) /\ Len(r.rx \o fit) = Len(r.rx) + Len(fit)
  BY <1>1, <1>3, ConcatProperties
<1>5. Len(r.rx \o fit) <= RxSize
  <2>1. RxSize \in Nat
    BY TcpSizes
  <2> QED BY <1>2, <1>3, <1>4, <2>1 DEF room
<1>6. Plus(r.rcv, Len(fit)) \in Seqs
  BY <1>1, <1>3, PlusIn
<1>7. Stored(r, g) = [r EXCEPT !.rx = r.rx \o fit, !.rcv = Plus(r.rcv, Len(fit))]
  BY DEF Stored, fit, room
<1> QED BY <1>4, <1>5, <1>6, <1>7

(* A bare acknowledgement. *)
LEMMA AckType ==
  ASSUME NEW s \in Socks, NEW r \in Sockets
  PROVE  /\ Seg(s, r, {"ACK"}, <<>>) \in Segments
         /\ Seg(s, r, {"ACK"}, <<>>).dst = r.peer
         /\ <<Seg(s, r, {"ACK"}, <<>>)>> \in Seq(Segments)
         /\ AllTo(<<Seg(s, r, {"ACK"}, <<>>)>>, r.peer)
<1> DEFINE g == Seg(s, r, {"ACK"}, <<>>)
<1>1. <<>> \in Seq(Bytes)
  OBVIOUS
<1>2. g \in Segments /\ g.dst = r.peer
  BY <1>1, SegType
<1> HIDE DEF g
<1>3. <<g>> \in Seq(Segments) /\ AllTo(<<g>>, r.peer)
  BY <1>2, OneSegment
<1> QED BY <1>2, <1>3 DEF g

LEMMA EstablishedInv ==
  ASSUME RInv, NEW h \in Hosts, RxEstablished(h)
  PROVE  RInv'
<1> DEFINE s == rx[h].sock
           r == sk[s]
           g == rx[h].seg
           d == Stored(r, g)
           e == [d EXCEPT !.rcv = Plus(d.rcv, 1), !.st = "CLOSE_WAIT"]
           ack(x) == <<Seg(s, x, {"ACK"}, <<>>)>>
           ends == "FIN" \in g.flags /\ d.rcv = Plus(r.rcv, Len(g.data))
           f == IF ends THEN e ELSE d
           news == g.data # <<>> \/ ends
           q == IF news THEN [f EXCEPT !.rxw = None] ELSE f
           segs == (IF g.data # <<>> THEN ack(d) ELSE <<>>) \o (IF ends THEN ack(f) ELSE <<>>)
           T == IF news THEN {r.rxw} ELSE {}
<1>1. /\ rx[h].at = "section" /\ (h = Lst => job[Lst] = <<>>) /\ r.st = "ESTABLISHED"
      /\ In(h, Synchronised) /\ Done(h, q, segs, T)
  BY DEF RxEstablished, In, RxAt, Synchronised
<1>2. /\ s \in Socks /\ r \in Sockets /\ Within(r) /\ g \in Segments
  BY <1>1, RxHas
<1>3. d \in Sockets /\ Kept(d, r) /\ Len(d.rx) <= RxSize /\ d.st = r.st /\ d.peer = r.peer
  <2>1. PICK x \in Seq(Bytes), n \in Seqs :
           Len(x) <= RxSize /\ d = [r EXCEPT !.rx = x, !.rcv = n]
    BY <1>2, StoredIs
  <2> HIDE DEF d, r
  <2> QED BY <1>2, <2>1 DEF Kept, Sockets
<1> HIDE DEF d
<1>4. /\ e \in Sockets /\ Kept(e, r) /\ Len(e.rx) <= RxSize /\ e.st = "CLOSE_WAIT"
      /\ e.peer = r.peer
  <2>1. Plus(d.rcv, 1) \in Seqs
    BY <1>3, SocketFields, PlusIn
  <2> HIDE DEF r
  <2> QED BY <1>3, <2>1 DEF Kept, Sockets, States, Synchronised
<1> HIDE DEF e
<1>5. f \in Sockets /\ Kept(f, r) /\ Len(f.rx) <= RxSize /\ f.st \in Synchronised /\ f.peer = r.peer
  BY <1>1, <1>3, <1>4 DEF Synchronised
<1> HIDE DEF f
<1>6. q \in Sockets /\ Kept(q, r) /\ Len(q.rx) <= RxSize /\ q.st \in Synchronised
  <2> DEFINE v == [f EXCEPT !.rxw = None]
  <2>1. v \in Sockets /\ Kept(v, r) /\ Len(v.rx) <= RxSize /\ v.st \in Synchronised
    <3> HIDE DEF r
    <3> QED BY <1>5 DEF Kept, Sockets
  <2> HIDE DEF v
  <2> QED BY <1>5, <2>1 DEF v
<1>7. segs \in Seq(Segments) /\ AllTo(segs, r.peer)
  <2>1. ASSUME NEW x \in Sockets, x.peer = r.peer
        PROVE  /\ Seg(s, x, {"ACK"}, <<>>) \in Segments
               /\ Seg(s, x, {"ACK"}, <<>>).dst = r.peer
               /\ ack(x) \in Seq(Segments) /\ AllTo(ack(x), r.peer)
    BY <1>2, <2>1, AckType
  <2>2. ack(d) \o ack(f) \in Seq(Segments) /\ AllTo(ack(d) \o ack(f), r.peer)
    BY <1>3, <1>5, <2>1, TwoSegments
  <2>3. ack(d) \in Seq(Segments) /\ AllTo(ack(d), r.peer) /\ ack(f) \in Seq(Segments) /\ AllTo(ack(f), r.peer)
    BY <1>3, <1>5, <2>1
  <2> HIDE DEF ack
  <2>4. ack(d) \o <<>> = ack(d) /\ <<>> \o ack(f) = ack(f) /\ <<>> \o <<>> = <<>>
    BY <2>3, ConcatEmptySeq, EmptySeq
  <2>5. <<>> \in Seq(Segments) /\ AllTo(<<>>, r.peer)
    BY DEF AllTo
  <2> HIDE DEF ends, r, g
  <2> QED BY <2>2, <2>3, <2>4, <2>5
<1> HIDE DEF q, segs, T
<1> QED BY <1>1, <1>6, <1>7, SyncDone

LEMMA FinWaitInv ==
  ASSUME RInv, NEW h \in Hosts, RxFinWait(h)
  PROVE  RInv'
<1> DEFINE s == rx[h].sock
           r == sk[s]
           over == [r EXCEPT !.rcv = Plus(r.rcv, 1), !.st = "TIME_WAIT"]
           half == [r EXCEPT !.st = "FIN_WAIT_2"]
           answer == <<Seg(s, over, {"ACK"}, <<>>)>>
<1>1. /\ rx[h].at = "section" /\ (h = Lst => job[Lst] = <<>>)
      /\ In(h, Synchronised)
      /\ \/ Done(h, over, answer, {}) \/ Done(h, half, <<>>, {}) \/ Done(h, r, <<>>, {})
  BY DEF RxFinWait, In, RxAt, Synchronised
<1>2. s \in Socks /\ r \in Sockets /\ Within(r)
  BY <1>1, RxHas
<1>3. /\ over \in Sockets /\ Kept(over, r) /\ Len(over.rx) <= RxSize /\ over.st \in Synchronised
      /\ over.peer = r.peer
  <2>1. Plus(r.rcv, 1) \in Seqs
    BY <1>2, SocketFields, PlusIn
  <2> HIDE DEF r
  <2> QED BY <1>2, <2>1 DEF Kept, Sockets, States, Synchronised, Within
<1>4. half \in Sockets /\ Kept(half, r) /\ Len(half.rx) <= RxSize /\ half.st \in Synchronised
  <2> HIDE DEF r
  <2> QED BY <1>2 DEF Kept, Sockets, States, Synchronised, Within
<1> HIDE DEF over, half
<1>5. answer \in Seq(Segments) /\ AllTo(answer, r.peer)
  BY <1>2, <1>3, AckType
<1> HIDE DEF answer
<1>6. CASE Done(h, r, <<>>, {})
  BY <1>1, <1>6, NoSegment, DoneSame
<1>7. CASE Done(h, over, answer, {})
  BY <1>1, <1>3, <1>5, <1>7, SyncDone
<1>8. CASE Done(h, half, <<>>, {})
  BY <1>1, <1>4, <1>8, NoSegment, SyncDone
<1> QED BY <1>1, <1>6, <1>7, <1>8

LEMMA RestInv ==
  ASSUME RInv, NEW h \in Hosts, RxRest(h)
  PROVE  RInv'
<1> DEFINE s == rx[h].sock
           r == sk[s]
           over == [r EXCEPT !.st = "CLOSED"]
<1>1. /\ rx[h].at = "section" /\ (h = Lst => job[Lst] = <<>>)
      /\ \/ r.st = "LAST_ACK" /\ Done(h, over, <<>>, {})
         \/ Done(h, r, <<>>, {})
  BY DEF RxRest, In, RxAt
<1>2. s \in Socks /\ r \in Sockets /\ Within(r)
  BY <1>1, RxHas
<1>3. over \in Sockets /\ Kept(over, r) /\ Len(over.rx) <= RxSize /\ over.st = "CLOSED"
  <2> HIDE DEF r
  <2> QED BY <1>2 DEF Kept, Sockets, States, Within
<1> HIDE DEF over
<1>4. CASE Done(h, r, <<>>, {})
  BY <1>1, <1>4, NoSegment, DoneSame
<1>5. CASE r.st = "LAST_ACK" /\ Done(h, over, <<>>, {})
  <2>1. In(h, Synchronised)
    BY <1>1, <1>5 DEF In, RxAt, Synchronised
  <2> QED BY <2>1, <1>3, <1>5, NoSegment, SyncDone
<1> QED BY <1>1, <1>4, <1>5

(* The segments left when one is taken. *)
LEMMA TakenType ==
  ASSUME NEW w \in [Hosts -> Seq(Segments)], Routed(w), NEW h \in Hosts, NEW q \in Seq(Segments),
         Range(q) \subseteq Range(w[h])
  PROVE  /\ [w EXCEPT ![h] = q] \in [Hosts -> Seq(Segments)]
         /\ Routed([w EXCEPT ![h] = q])
<1> DEFINE v == [w EXCEPT ![h] = q]
<1>1. v \in [Hosts -> Seq(Segments)] /\ v[h] = q /\ \A g \in Hosts \ {h} : v[g] = w[g]
  OBVIOUS
<1>2. \A i \in DOMAIN q : q[i].dst = h
  <2> SUFFICES ASSUME NEW i \in DOMAIN q PROVE q[i].dst = h
    OBVIOUS
  <2>1. q[i] \in Range(w[h])
    BY DEF Range
  <2>2. PICK j \in DOMAIN w[h] : w[h][j] = q[i]
    BY <2>1 DEF Range
  <2> QED BY <2>2 DEF Routed
<1> HIDE DEF v
<1>3. Routed(v)
  BY <1>1, <1>2 DEF Routed
<1> QED BY <1>1, <1>3 DEF v

LEMMA RstType ==
  ASSUME NEW g \in Segments
  PROVE  Rst(g) \in Segments
<1>1. 0 \in Seqs
  BY TcpSizes DEF Seqs
<1>2. Len(g.data) \in Nat
  BY SegFields, LenProperties
<1>3. PICK n \in Nat : n = Len(g.data) + (IF g.flags \cap {"SYN", "FIN"} # {} THEN 1 ELSE 0)
  <2> DEFINE m == Len(g.data)
             x == IF g.flags \cap {"SYN", "FIN"} # {} THEN 1 ELSE 0
  <2>1. m \in Nat /\ x \in Nat
    BY <1>2
  <2> HIDE DEF m, x
  <2>2. m + x \in Nat
    BY <2>1
  <2> QED BY <2>2 DEF m, x
<1>4. Plus(g.seq, n) \in Seqs
  BY SegFields, PlusIn
<1>5. /\ g.src \in Addrs /\ g.dst \in Addrs /\ g.ack \in Seqs /\ <<>> \in Seq(Bytes)
  BY SegFields
<1> QED BY <1>1, <1>3, <1>4, <1>5 DEF Rst, Segments

LEMMA LookupInv ==
  ASSUME RInv, NEW h \in Hosts, NEW i, NEW dup \in BOOLEAN, RxLookup(h, i, dup)
  PROVE  RInv'
<1> DEFINE g == wire[h][i]
           rest == IF dup THEN wire ELSE [wire EXCEPT ![h] = RemoveAt(wire[h], i)]
<1>1. /\ rx[h].at = "idle" /\ (h = Lst => job[Lst] = <<>>) /\ i \in DOMAIN wire[h]
      /\ UNCHANGED <<timer, pc, job, sig, isn, sent, got, load, park>>
      /\ used' = [used EXCEPT !.dup = IF dup THEN @ + 1 ELSE @]
  BY DEF RxLookup, RxAt
<1>2. wire \in [Hosts -> Seq(Segments)] /\ Routed(wire) /\ Typed
  BY DEF RInv, Typed, Addressed
<1>3. g \in Segments /\ g.dst = h
  <2>1. wire[h] \in Seq(Segments) /\ g.dst = h
    BY <1>1, <1>2 DEF Routed
  <2> DEFINE w == wire[h]
  <2>2. w \in Seq(Segments) /\ i \in DOMAIN w
    BY <1>1, <2>1
  <2> HIDE DEF w
  <2>3. w[i] \in Segments
    BY <2>2, ElementOfSeq, LenProperties
  <2> QED BY <2>1, <2>3 DEF w
<1>4. rest \in [Hosts -> Seq(Segments)] /\ Routed(rest)
  <2>1. RemoveAt(wire[h], i) \in Seq(Segments) /\ Range(RemoveAt(wire[h], i)) \subseteq Range(wire[h])
    BY <1>1, <1>2, RemoveAtFacts
  <2>2. CASE ~dup
    BY <1>2, <2>1, <2>2, TakenType
  <2>3. CASE dup
    BY <1>2, <2>3
  <2> QED BY <2>2, <2>3
<1>5. used' \in [lose : Nat, dup : Nat, signals : Nat]
  <2>1. used \in [lose : Nat, dup : Nat, signals : Nat]
    BY <1>2 DEF Typed
  <2>2. (IF dup THEN used.dup + 1 ELSE used.dup) \in Nat
    BY <2>1
  <2>3. used' = [used EXCEPT !.dup = IF dup THEN used.dup + 1 ELSE used.dup]
    BY <1>1
  <2> QED BY <2>1, <2>2, <2>3
<1>6. \/ /\ wire' = rest \/ wire' = Onto(rest, <<Rst(g)>>)
         /\ UNCHANGED <<sk, rx>>
      \/ \E s \in Lookup(g) :
           /\ sk' = [sk EXCEPT ![s] = Get(sk[s])]
           /\ rx' = [rx EXCEPT ![h] = [RxIdle EXCEPT !.at = "section", !.seg = g, !.sock = s]]
           /\ wire' = rest
  BY DEF RxLookup
<1> HIDE DEF g, rest
<1>7. wire' \in [Hosts -> Seq(Segments)] /\ Addressed'
  <2>1. Addressed' <=> Routed(wire')
    BY DEF Addressed, Routed
  <2>2. Onto(rest, <<Rst(g)>>) \in [Hosts -> Seq(Segments)] /\ Routed(Onto(rest, <<Rst(g)>>))
    BY <1>3, <1>4, RstType, OneSegment, OntoType
  <2> QED BY <1>4, <1>6, <2>1, <2>2
<1>8. CASE UNCHANGED <<sk, rx>>
  <2>1. Typed'
    BY <1>1, <1>2, <1>5, <1>7, <1>8 DEF Typed, Within
  <2>2. \A u : Users(u)' = Users(u)
    BY <1>1, <1>8, UsersSame
  <2>3. Counted'
    BY <1>8, <2>2 DEF RInv, Counted
  <2>4. Apart' /\ OwnedOK'
    BY <1>1, <1>8, Quiet DEF RInv
  <2>5. /\ SocksOK' /\ RxOK' /\ FreshOK' /\ TimerOK' /\ SpliceOK' /\ CallsOK' /\ DeadChildSpliced'
    BY <1>1, <1>8 DEF RInv, SocksOK, SockOK, RxOK, FreshOK, TimerOK, SpliceOK, CallsOK,
                      DeadChildSpliced, HalfOpen
  <2> QED BY <1>7, <2>1, <2>3, <2>4, <2>5 DEF RInv
<1>9. ASSUME NEW s \in Lookup(g),
             sk' = [sk EXCEPT ![s] = Get(sk[s])],
             rx' = [rx EXCEPT ![h] = [RxIdle EXCEPT !.at = "section", !.seg = g, !.sock = s]]
      PROVE  RInv'
  <2>1. s \in Socks /\ Local(s) = h /\ sk[s].linked
    BY <1>3, Names DEF Lookup, Listening
  <2> DEFINE r == sk[s]
             q == Get(r)
  <2>2. r \in Sockets /\ Within(r) /\ SockOK(s, r) /\ r.refs # 0 /\ r.st \notin {"none", "freed"}
    BY <2>1, InUse DEF RInv
  <2>3. /\ q \in Sockets /\ Within(q) /\ SockOK(s, q)
        /\ q.linked = r.linked /\ q.backlog = r.backlog /\ q.st = r.st
        /\ q.una = r.una /\ q.iss = r.iss /\ q.refs = r.refs + 1
    BY <2>1, <2>2, GetOK
  <2>4. /\ sk' \in [Socks -> Sockets] /\ sk'[s] = q
        /\ \A u \in Socks \ {s} : sk'[u] = sk[u] /\ Within(sk[u]) /\ SockOK(u, sk[u])
    BY <1>9, <2>1, <2>3 DEF RInv, Typed, SocksOK
  <2> HIDE DEF q
  <2>5. /\ rx'[h].at = "section" /\ rx'[h].seg = g /\ rx'[h].sock = s /\ rx'[h].kid = None
        /\ \A f \in Hosts \ {h} : rx'[f] = rx[f]
        /\ rx[h].kid = None /\ rx[h].sock = None
    BY <1>1, <1>9 DEF RInv, Typed, RxOK, RxIdle
  <2>6. /\ Users(s)' = Users(s) + 1
        /\ \A u \in Socks \ {s} : Users(u)' = Users(u)
    BY <1>1, <2>1, <2>5, RxMoves
  <2>7. Counted'
    <3>1. ASSUME NEW u \in Socks
          PROVE  sk'[u].refs = (IF sk'[u].linked THEN 1 ELSE 0) + Users(u)'
      <4>1. sk[u].refs = (IF sk[u].linked THEN 1 ELSE 0) + Users(u) /\ Users(u) \in Nat
        BY UsersNat DEF RInv, Counted
      <4>2. CASE u = s
        <5>1. sk'[s].refs = sk[s].refs + 1 /\ sk'[s].linked = sk[s].linked
          BY <2>3, <2>4
        <5> QED BY <2>6, <4>1, <4>2, <5>1
      <4>3. CASE u # s
        BY <2>4, <2>6, <4>1, <4>3
      <4> QED BY <4>2, <4>3
    <3> QED BY <3>1 DEF Counted
  <2>8. Typed'
    <3>1. rx' \in [Hosts -> [at : RxPlaces, seg : Segments \cup {None}, sock : Socks \cup {None},
                             kid : Kids \cup {None}]]
      <4>1. rx \in [Hosts -> [at : RxPlaces, seg : Segments \cup {None}, sock : Socks \cup {None},
                              kid : Kids \cup {None}]]
        BY DEF RInv, Typed
      <4> QED BY <1>3, <1>9, <2>1, <4>1 DEF RxPlaces, RxIdle
    <3>2. \A u \in Socks : Within(sk'[u])
      BY <2>3, <2>4
    <3> QED BY <1>1, <1>2, <1>5, <1>7, <2>4, <3>1, <3>2, TypedAfter DEF Typed
  <2>9. RxOK' /\ TimerOK' /\ CallsOK'
    <3>1. RxOK'
      BY <1>1, <1>3, <2>1, <2>5, Names DEF RInv, RxOK
    <3> QED BY <1>1, <3>1 DEF RInv, TimerOK, CallsOK
  <2>10. SocksOK' /\ FreshOK' /\ SpliceOK' /\ Apart' /\ OwnedOK' /\ DeadChildSpliced'
    <3>1. rx'[Lst].kid = rx[Lst].kid
      BY <2>5, Names
    <3>2. s = rx[Lst].kid => q.st = "SYN_RECEIVED"
      BY <2>1, <2>3, Names DEF RInv, FreshOK
    <3>3. rx[Lst].kid # None => timer'[Lst].sock # rx[Lst].kid
      BY <1>1 DEF RInv, FreshOK
    <3>4. HalfOpen(q) <=> HalfOpen(r)
      BY <2>3 DEF HalfOpen
    <3>5. \A u \in Socks \ {s} : Alike(sk'[u], sk[u]) /\ SockOK(u, sk'[u])
      BY <2>4 DEF Alike
    <3> QED BY <1>1, <2>1, <2>3, <2>4, <3>1, <3>2, <3>3, <3>4, <3>5, QuietStep
  <2> QED BY <1>7, <2>7, <2>8, <2>9, <2>10 DEF RInv
<1> QED BY <1>6, <1>8, <1>9

LEMMA LoseInv ==
  ASSUME RInv, NEW h \in Hosts, Lose(h)
  PROVE  RInv'
<1>1. /\ wire[h] # <<>> /\ wire' = [wire EXCEPT ![h] = Tail(wire[h])]
      /\ used' = [used EXCEPT !.lose = used.lose + 1]
      /\ UNCHANGED <<sk, rx, timer, pc, job, sig, isn, sent, got, load, park>>
  BY DEF Lose
<1>2. wire \in [Hosts -> Seq(Segments)] /\ Routed(wire) /\ Typed
  BY DEF RInv, Typed, Addressed
<1>3. wire' \in [Hosts -> Seq(Segments)] /\ Addressed'
  <2>1. wire[h] \in Seq(Segments)
    BY <1>2
  <2>2. Tail(wire[h]) \in Seq(Segments) /\ Range(Tail(wire[h])) \subseteq Range(wire[h])
    BY <1>1, <2>1, TailFacts
  <2>3. Addressed' <=> Routed(wire')
    BY DEF Addressed, Routed
  <2> QED BY <1>1, <1>2, <2>2, <2>3, TakenType
<1>4. Typed'
  <2>1. used' \in [lose : Nat, dup : Nat, signals : Nat]
    <3>1. used \in [lose : Nat, dup : Nat, signals : Nat]
      BY <1>2 DEF Typed
    <3> QED BY <1>1, <3>1
  <2> QED BY <1>1, <1>2, <1>3, <2>1 DEF Typed, Within
<1>5. \A u : Users(u)' = Users(u)
  BY <1>1, UsersSame
<1>6. Counted'
  BY <1>1, <1>5 DEF RInv, Counted
<1>7. Apart' /\ OwnedOK'
  BY <1>1, Quiet DEF RInv
<1>8. /\ SocksOK' /\ RxOK' /\ FreshOK' /\ TimerOK' /\ SpliceOK' /\ CallsOK' /\ DeadChildSpliced'
  BY <1>1 DEF RInv, SocksOK, SockOK, RxOK, FreshOK, TimerOK, SpliceOK, CallsOK,
              DeadChildSpliced, HalfOpen
<1> QED BY <1>3, <1>4, <1>6, <1>7, <1>8 DEF RInv

(* While memory lasts there is a child that has not been made. *)
LEMMA FreeKid ==
  ASSUME load \in Loads, Cardinality({j \in Kids : sk[j].st # "none"}) < load.kids
  PROVE  \E k \in Kids : sk[k].st = "none"
<1> SUFFICES ASSUME \A k \in Kids : sk[k].st # "none" PROVE FALSE
  OBVIOUS
<1>1. {j \in Kids : sk[j].st # "none"} = Kids
  OBVIOUS
<1>2. Cardinality(Kids) \in Nat
  BY Names, FS_CardinalityType
<1>3. load.kids \in 1 .. Cardinality(Kids)
  BY LoadFacts
<1>4. Cardinality(Kids) < load.kids
  BY <1>1
<1> DEFINE n == Cardinality(Kids)
<1> HIDE DEF n
<1>5. n \in Nat /\ load.kids \in 1 .. n /\ n < load.kids
  BY <1>2, <1>3, <1>4 DEF n
<1> QED BY <1>5

LEMMA NobodyHas ==
  ASSUME RInv, NEW k \in Kids, sk[k].st = "none"
  PROVE  /\ sk[k] = Blank /\ Users(k) = 0 /\ ~Owned(k)
         /\ \A h \in Hosts : rx[h].sock # k /\ timer[h].sock # k
<1>1. k \in Socks /\ sk[k] \in Sockets
  BY Names DEF RInv, Typed
<1>2. sk[k] = Blank
  <2>1. sk[k] = [Blank EXCEPT !.st = sk[k].st]
    BY <1>1 DEF RInv, SocksOK, SockOK
  <2> QED BY <2>1 DEF Blank
<1>3. sk[k].refs = 0 /\ sk[k].linked = FALSE
  BY <1>2 DEF Blank
<1>4. sk[k].refs = (IF sk[k].linked THEN 1 ELSE 0) + Users(k) /\ Users(k) \in Nat
  BY <1>1, UsersNat DEF RInv, Counted
<1>5. Users(k) = 0
  BY <1>3, <1>4
<1>6. ~Owned(k)
  BY <1>1, <1>3 DEF RInv, OwnedOK
<1> QED BY <1>2, <1>5, <1>6, UsersNat

LEMMA ChildInv ==
  ASSUME RInv, NEW h \in Hosts, RxChild(h)
  PROVE  RInv'
<1> DEFINE g == rx[h].seg
           new == [Created("SYN_RECEIVED", g.src) EXCEPT
                     !.rcv = Plus(g.seq, 1), !.iss = isn[h], !.una = isn[h], !.nxt = isn[h]]
           k == CHOOSE j \in Kids : sk[j].st = "none"
           q == [Sent(new, {"SYN", "ACK"}, <<>>) EXCEPT !.rtx = TRUE]
           segs == <<Seg(k, new, {"SYN", "ACK"}, <<>>)>>
<1>1. rx[h].at = "child" /\ (h = Lst => job[Lst] = <<>>)
  BY DEF RxChild, RxAt
<1>2. rx[h].sock = Lst /\ h = Lst /\ g \in Segments /\ rx[h].kid = None
  BY <1>1, Names DEF RInv, RxOK
<1>3. CASE Done(h, sk[Lst], <<>>, {})
  BY <1>1, <1>2, <1>3, NoSegment, DoneSame
<1>4. CASE /\ Cardinality({j \in Kids : sk[j].st # "none"}) < load.kids
           /\ sk' = [sk EXCEPT ![k] = q]
           /\ wire' = Onto(wire, segs)
           /\ isn' = [isn EXCEPT ![h] = Plus(isn[h], IsnStep)]
           /\ rx' = [rx EXCEPT ![h].at = "backlog", ![h].kid = k]
           /\ UNCHANGED <<timer, pc, job, sig, used, sent, got, load, park>>
  <2>0. Typed
    BY DEF RInv
  <2>1. k \in Kids /\ sk[k].st = "none"
    BY <1>4, <2>0, FreeKid DEF Typed
  <2> HIDE DEF k
  <2>2. k \in Socks /\ k # Lst /\ k # None /\ k \notin Clients
    BY <2>1, Names
  <2>3. /\ sk[k] = Blank /\ Users(k) = 0 /\ ~Owned(k)
        /\ \A f \in Hosts : rx[f].sock # k /\ timer[f].sock # k
    BY <2>1, NobodyHas
  <2>4. isn \in [Hosts -> Seqs] /\ isn[h] \in Seqs
    BY <2>0 DEF Typed
  <2>5. /\ new \in Sockets /\ new.st = "SYN_RECEIVED" /\ new.iss = isn[h] /\ new.una = isn[h]
        /\ new.refs = 1 /\ new.linked = TRUE /\ new.backlog = <<>> /\ new.cnt = 0 /\ new.rx = <<>>
        /\ new.peer = g.src
    <3>1. g.src \in Addrs /\ Plus(g.seq, 1) \in Seqs
      BY <1>2, SegFields, PlusIn
    <3> DEFINE c == Created("SYN_RECEIVED", g.src)
    <3>2. c \in Sockets
      BY <3>1, CreatedType DEF States
    <3>3. /\ c.st = "SYN_RECEIVED" /\ c.refs = 1 /\ c.linked = TRUE /\ c.backlog = <<>>
          /\ c.cnt = 0 /\ c.rx = <<>> /\ c.peer = g.src
      BY DEF Created, Blank
    <3> HIDE DEF c
    <3>4. new = [c EXCEPT !.rcv = Plus(g.seq, 1), !.iss = isn[h], !.una = isn[h], !.nxt = isn[h]]
      BY DEF c
    <3> HIDE DEF new
    <3> QED BY <2>4, <3>1, <3>2, <3>3, <3>4 DEF Sockets
  <2> HIDE DEF new
  <2>6. /\ q \in Sockets /\ q.st = "SYN_RECEIVED" /\ q.iss = q.una
        /\ q.refs = 1 /\ q.linked = TRUE /\ q.backlog = <<>> /\ q.cnt = 0 /\ q.rx = <<>>
    <3> DEFINE e == Sent(new, {"SYN", "ACK"}, <<>>)
    <3> DEFINE flags == {"SYN", "ACK"}
               data == <<>>
    <3>1. data \in Seq(Bytes) /\ flags \in SUBSET {"SYN", "ACK", "FIN", "RST"} /\ e = Sent(new, flags, data)
      OBVIOUS
    <3> HIDE DEF flags, data, e
    <3>2. /\ e \in Sockets /\ e.st = new.st /\ e.iss = new.iss /\ e.una = new.una
          /\ e.refs = new.refs /\ e.linked = new.linked /\ e.backlog = new.backlog
          /\ e.cnt = new.cnt /\ e.rx = new.rx
      BY <2>5, <3>1, SentType
    <3>3. q = [e EXCEPT !.rtx = TRUE]
      BY DEF e
    <3> HIDE DEF q
    <3> QED BY <2>5, <3>2, <3>3, ZenonT(40) DEF Sockets
  <2> HIDE DEF q
  <2>7. segs \in Seq(Segments) /\ AllTo(segs, g.src)
    <3> DEFINE f == Seg(k, new, {"SYN", "ACK"}, <<>>)
    <3>1. <<>> \in Seq(Bytes)
      OBVIOUS
    <3>2. f \in Segments /\ f.dst = g.src
      BY <2>2, <2>5, <3>1, SegType
    <3> HIDE DEF f
    <3> QED BY <3>2, OneSegment DEF f
  <2> HIDE DEF segs
  <2>8. wire' \in [Hosts -> Seq(Segments)] /\ Addressed'
    BY <1>4, <2>7, WireAfter
  <2>9. SockOK(k, q) /\ Within(q)
    <3>1. Len(<<>>) = 0
      OBVIOUS
    <3>2. Within(q)
      BY <2>0, <2>6, <3>1, LoadFacts, TcpSizes DEF Typed, Within
    <3>3. SockOK(k, q)
      BY <2>1, <2>2, <2>6 DEF SockOK, Synchronised
    <3> QED BY <3>2, <3>3
  <2>10. /\ sk' \in [Socks -> Sockets] /\ sk'[k] = q
         /\ \A u \in Socks \ {k} : sk'[u] = sk[u] /\ Within(sk[u]) /\ SockOK(u, sk[u])
    BY <1>4, <2>2, <2>6 DEF RInv, Typed, SocksOK
  <2>11. /\ rx'[h].at = "backlog" /\ rx'[h].kid = k /\ rx'[h].sock = rx[h].sock
         /\ rx'[h].seg = rx[h].seg /\ \A f \in Hosts \ {h} : rx'[f] = rx[f]
         /\ rx' \in [Hosts -> [at : RxPlaces, seg : Segments \cup {None}, sock : Socks \cup {None},
                               kid : Kids \cup {None}]]
    <3>1. rx \in [Hosts -> [at : RxPlaces, seg : Segments \cup {None}, sock : Socks \cup {None},
                            kid : Kids \cup {None}]]
      BY <2>0 DEF Typed
    <3> HIDE DEF g
    <3> QED BY <1>4, <2>1, <3>1 DEF RxPlaces
  <2>12. Typed'
    <3>1. isn' \in [Hosts -> Seqs]
      <4>1. Plus(isn[h], IsnStep) \in Seqs
        BY <2>4, PlusIn, TcpSizes
      <4> QED BY <1>4, <2>4, <4>1
    <3>2. \A u \in Socks : Within(sk'[u])
      BY <2>9, <2>10
    <3> QED BY <1>4, <2>0, <2>8, <2>10, <2>11, <3>1, <3>2 DEF Typed, Within
  <2>13. \A u : Users(u)' = Users(u)
    BY <1>4, <2>11, UsersSame
  <2>14. Counted'
    <3>1. ASSUME NEW u \in Socks
          PROVE  sk'[u].refs = (IF sk'[u].linked THEN 1 ELSE 0) + Users(u)'
      <4>1. CASE u = k
        BY <2>3, <2>6, <2>10, <2>13, <4>1
      <4>2. CASE u # k
        BY <2>10, <2>13, <4>2 DEF RInv, Counted
      <4> QED BY <4>1, <4>2
    <3> QED BY <3>1 DEF Counted
  <2>15. RxOK' /\ TimerOK' /\ CallsOK' /\ FreshOK' /\ SpliceOK' /\ SocksOK'
    <3>1. RxOK'
      BY <1>1, <1>2, <1>4, <2>2, <2>11 DEF RInv, RxOK
    <3>2. FreshOK'
      BY <1>2, <1>4, <2>3, <2>6, <2>10, <2>11 DEF FreshOK
    <3>3. SpliceOK'
      <4> SUFFICES ASSUME timer[Lst].at = "splice" PROVE HalfOpen(sk'[timer[Lst].sock])
        BY <1>4 DEF SpliceOK, HalfOpen
      <4>1. timer[Lst].sock \in Kids /\ HalfOpen(sk[timer[Lst].sock]) /\ timer[Lst].sock # k
        BY <2>3, Names DEF RInv, TimerOK, SpliceOK
      <4> QED BY <2>10, <4>1, Names
    <3>4. SocksOK'
      <4>1. ASSUME NEW u \in Socks PROVE SockOK(u, sk'[u])
        BY <2>9, <2>10
      <4> QED BY <4>1 DEF SocksOK, SockOK
    <3> QED BY <1>4, <3>1, <3>2, <3>3, <3>4 DEF RInv, TimerOK, CallsOK
  <2>16. sk'[Lst] = sk[Lst] /\ rx'[Lst].kid = k /\ \A x : InJob(x)' = InJob(x)
    BY <1>2, <1>4, <2>2, <2>10, <2>11, Names DEF InJob
  <2>17. Apart'
    <3>1. /\ k \notin Range(sk[Lst].backlog)
          /\ \A t \in Threads : pc[t].sock # k
          /\ \A x \in Doers : k \notin InJob(x)
      BY <2>3 DEF Owned
    <3> QED BY <1>4, <2>16, <3>1 DEF RInv, Apart, OnceInJobs, OnceAtThreads
  <2>18. OwnedOK'
    <3>1. \A u \in Socks : Owned(u)' <=> Owned(u) \/ u = k
      <4>1. rx[Lst].kid = None
        BY <1>2
      <4> QED BY <1>4, <2>2, <2>16, <4>1, Names DEF Owned
    <3>2. ASSUME NEW u \in Socks, Owned(u)' PROVE sk'[u].linked
      BY <2>6, <2>10, <3>1, <3>2 DEF RInv, OwnedOK
    <3>3. ASSUME NEW u \in Socks \ {Lst}, sk'[u].linked
          PROVE  Owned(u)' \/ (u \in Kids /\ HalfOpen(sk'[u]))
      BY <2>10, <3>1, <3>3 DEF RInv, OwnedOK
    <3>4. \A x \in Doers : \A i \in DOMAIN job'[x] :
            job'[x][i] = <<"unlink", Lst>> => sk'[Lst].st # "LISTEN"
      BY <1>4, <2>16 DEF RInv, OwnedOK
    <3> QED BY <3>2, <3>3, <3>4 DEF OwnedOK, HalfOpen
  <2>19. DeadChildSpliced'
    <3> SUFFICES ASSUME NEW c \in Range(sk[Lst].backlog), HalfOpen(sk'[c])
                 PROVE  timer'[Lst].at = "splice" /\ timer'[Lst].sock = c
      BY <2>16 DEF DeadChildSpliced, HalfOpen
    <3>1. c # k
      BY <2>3 DEF Owned
    <3>2. c \in Kids
      <4> DEFINE b == sk[Lst].backlog
      <4>1. b \in Seq(Kids)
        BY <2>0, Names, SocketFields DEF Typed
      <4> HIDE DEF b
      <4> QED BY <4>1, RangeOf DEF b
    <3>3. sk'[c] = sk[c]
      BY <2>10, <3>1, <3>2, Names
    <3> QED BY <1>4, <3>3 DEF RInv, DeadChildSpliced, HalfOpen
  <2> QED BY <2>8, <2>12, <2>14, <2>15, <2>17, <2>18, <2>19 DEF RInv
<1> QED BY <1>1, <1>3, <1>4 DEF RxChild

(* The listener's fields. *)
LEMMA ListenerHas ==
  ASSUME RInv
  PROVE  /\ sk[Lst] \in Sockets /\ Within(sk[Lst]) /\ SockOK(Lst, sk[Lst])
         /\ sk[Lst].backlog \in Seq(Kids)
         /\ \A k \in Range(sk[Lst].backlog) : k \in Kids
<1>1. /\ sk[Lst] \in Sockets /\ Within(sk[Lst]) /\ SockOK(Lst, sk[Lst])
      /\ sk[Lst].backlog \in Seq(Kids)
  BY Names, SocketFields DEF RInv, Typed, SocksOK
<1> DEFINE b == sk[Lst].backlog
<1>2. b \in Seq(Kids)
  BY <1>1
<1> HIDE DEF b
<1>3. \A k \in Range(b) : k \in Kids
  BY <1>2, RangeOf
<1> QED BY <1>1, <1>3 DEF b

LEMMA BacklogInv ==
  ASSUME RInv, NEW h \in Hosts, RxBacklog(h)
  PROVE  RInv'
<1> DEFINE r == sk[Lst]
           k == rx[h].kid
           q == [r EXCEPT !.backlog = Append(r.backlog, k)]
<1>1. rx[h].at = "backlog" /\ (h = Lst => job[Lst] = <<>>)
  BY DEF RxBacklog, RxAt
<1>2. rx[h].sock = Lst /\ h = Lst /\ k \in Kids /\ k # None /\ k \in Socks /\ k # Lst /\ job[h] = <<>>
  BY <1>1, Names DEF RInv, RxOK, Typed
<1>3. r \in Sockets /\ Within(r) /\ SockOK(Lst, r) /\ r.backlog \in Seq(Kids)
  BY ListenerHas
<1>4. Typed /\ Users(Lst) # 0
  BY <1>2, UsersNat DEF RInv
<1>5. sk[k].st = "SYN_RECEIVED"
  BY <1>2 DEF RInv, FreshOK
<1>6. Owned(k) /\ k \notin Range(r.backlog) /\ (\A t \in Threads : pc[t].sock # k)
      /\ \A x \in Doers : k \notin InJob(x)
  BY <1>2 DEF RInv, Apart, Owned
<1>7. CASE r.st = "LISTEN" /\ Len(r.backlog) < load.backlog /\ Done(h, q, <<>>, {})
  <2>1. /\ q \in Sockets /\ q.refs = r.refs /\ q.linked = r.linked
        /\ q.backlog = Append(r.backlog, k)
        /\ q.st = r.st /\ q.una = r.una /\ q.iss = r.iss /\ q.cnt = r.cnt /\ q.rx = r.rx
        /\ q.rtx = r.rtx
    <3> DEFINE b == Append(r.backlog, k)
    <3>1. b \in Seq(Kids)
      BY <1>2, <1>3, AppendProperties
    <3> HIDE DEF b
    <3>2. q = [r EXCEPT !.backlog = b]
      BY DEF b
    <3> HIDE DEF q, r
    <3>3. /\ q \in Sockets /\ q.refs = r.refs /\ q.linked = r.linked /\ q.backlog = b
          /\ q.st = r.st /\ q.una = r.una /\ q.iss = r.iss /\ q.cnt = r.cnt /\ q.rx = r.rx
          /\ q.rtx = r.rtx
      BY <1>3, <3>1, <3>2 DEF Sockets
    <3> QED BY <3>3 DEF b
  <2>2. /\ q.backlog \in Seq(Kids) /\ Range(q.backlog) = Range(r.backlog) \cup {k}
        /\ IsInjective(q.backlog) /\ Len(q.backlog) = Len(r.backlog) + 1
    <3>1. IsInjective(r.backlog)
      BY DEF RInv, Apart
    <3> DEFINE b == r.backlog
    <3>2. b \in Seq(Kids) /\ k \in Kids /\ k \notin Range(b) /\ q.backlog = Append(b, k)
          /\ IsInjective(b)
      BY <1>2, <1>3, <1>6, <2>1, <3>1
    <3> HIDE DEF b, k, q
    <3>3. Len(Append(b, k)) = Len(b) + 1
      BY <3>2, AppendProperties
    <3> QED BY <3>2, <3>3, AppendFacts DEF b
  <2> HIDE DEF q
  <2>3. SockOK(Lst, q) /\ Within(q) /\ r.linked
    <3>1. Len(r.backlog) \in Nat /\ load.backlog \in Nat
      BY <1>3, <1>4, LoadFacts, LenProperties DEF Typed
    <3>2. Within(q)
      BY <1>3, <1>7, <2>1, <2>2, <3>1 DEF Within
    <3>3. SockOK(Lst, q) /\ r.linked
      BY <1>3, <1>7, <2>1, Names DEF SockOK
    <3> QED BY <3>2, <3>3
  <2> DEFINE p == Put(q)
  <2>4. /\ p \in Sockets /\ Within(p) /\ SockOK(Lst, p) /\ p.linked = r.linked
        /\ p.backlog = q.backlog /\ p.refs = (IF r.linked THEN 1 ELSE 0) + (Users(Lst) - 1)
        /\ p.st = r.st
    <3> DEFINE n == Users(Lst)
    <3> HIDE DEF n, p
    <3>1. load \in Loads /\ n \in Nat /\ n # 0 /\ q.refs = (IF q.linked THEN 1 ELSE 0) + n
      BY <1>4, <2>1, UsersNat, Names DEF RInv, Counted, Typed, n
    <3>2. /\ p \in Sockets /\ Within(p) /\ SockOK(Lst, p)
          /\ p.linked = q.linked /\ p.backlog = q.backlog
          /\ p.refs = (IF q.linked THEN 1 ELSE 0) + (n - 1)
          /\ \/ p = Gone /\ ~q.linked /\ n = 1
             \/ p = [q EXCEPT !.refs = q.refs - 1]
      BY <2>1, <2>3, <3>1, Names, DropOne DEF p
    <3>3. p.st = q.st
      BY <2>1, <2>3, <3>2 DEF Sockets
    <3> QED BY <2>1, <3>2, <3>3 DEF n
  <2> HIDE DEF p
  <2>5. /\ sk' = [sk EXCEPT ![Lst] = p]
        /\ sk' \in [Socks -> Sockets] /\ sk'[Lst] = p
        /\ \A u \in Socks \ {Lst} : sk'[u] = sk[u] /\ Within(sk[u]) /\ SockOK(u, sk[u])
        /\ rx' = [rx EXCEPT ![h] = RxIdle]
        /\ UNCHANGED <<timer, pc, job, sig, isn, used, sent, got, load>>
    BY <1>2, <1>7, <2>4, Names DEF Done, RInv, Typed, SocksOK, p
  <2>6. wire' \in [Hosts -> Seq(Segments)] /\ Addressed' /\ park' \in [Threads -> Phases]
    BY <1>4, <1>7, NoSegment, WireAfter, UnblockType DEF Done, Typed
  <2>7. /\ rx'[h].at = "idle" /\ rx'[h].sock = None /\ rx'[h].kid = None
        /\ \A g \in Hosts \ {h} : rx'[g] = rx[g]
        /\ rx' \in [Hosts -> [at : RxPlaces, seg : Segments \cup {None}, sock : Socks \cup {None},
                              kid : Kids \cup {None}]]
    BY <1>4, <2>5 DEF Typed, RxIdle, RxPlaces
  <2>8. Typed'
    <3>1. \A u \in Socks : Within(sk'[u])
      BY <2>4, <2>5
    <3> QED BY <1>4, <2>5, <2>6, <2>7, <3>1 DEF Typed, Within
  <2>9. /\ Users(Lst)' = Users(Lst) - 1
        /\ \A u \in Socks \ {Lst} : Users(u)' = Users(u)
    BY <1>2, <2>5, <2>7, RxMoves, Names
  <2>10. Counted'
    <3>1. ASSUME NEW u \in Socks
          PROVE  sk'[u].refs = (IF sk'[u].linked THEN 1 ELSE 0) + Users(u)'
      <4>1. CASE u = Lst
        BY <2>4, <2>5, <2>9, <4>1
      <4>2. CASE u # Lst
        BY <2>5, <2>9, <4>2 DEF RInv, Counted
      <4> QED BY <4>1, <4>2
    <3> QED BY <3>1 DEF Counted
  <2>11. RxOK' /\ TimerOK' /\ CallsOK' /\ FreshOK' /\ SpliceOK' /\ SocksOK'
    <3>1. RxOK'
      BY <1>2, <2>5, <2>7 DEF RInv, RxOK
    <3>2. FreshOK'
      BY <1>2, <2>7 DEF FreshOK
    <3>3. SpliceOK'
      BY <2>5, Names DEF RInv, TimerOK, SpliceOK, HalfOpen
    <3>4. SocksOK'
      <4>1. ASSUME NEW u \in Socks PROVE SockOK(u, sk'[u])
        BY <2>4, <2>5
      <4> QED BY <4>1 DEF SocksOK, SockOK
    <3> QED BY <2>5, <3>1, <3>2, <3>3, <3>4 DEF RInv, TimerOK, CallsOK
  <2>12. /\ sk'[Lst].backlog = q.backlog /\ rx'[Lst].kid = None
         /\ \A x : InJob(x)' = InJob(x)
    BY <1>2, <2>4, <2>5, <2>7 DEF InJob
  <2>13. Apart'
    <3>1. \A t \in Threads : pc[t].sock \in Socks \cup {None}
      BY <1>4 DEF Typed
    <3>2. None \notin Range(q.backlog) /\ \A x \in Doers : None \notin InJob(x)
      <4>1. None \notin Range(r.backlog)
        BY ListenerHas, Names
      <4>2. ASSUME NEW x \in Doers, None \in InJob(x) PROVE FALSE
        <5>1. PICK i \in DOMAIN job[x] : job[x][i][2] = None
          BY <4>2 DEF InJob
        <5> DEFINE j == job[x]
        <5>2. j \in Seq(Entries) /\ i \in DOMAIN j
          BY <1>4 DEF Typed
        <5> HIDE DEF j
        <5>3. j[i] \in Entries
          BY <5>2, ElementOfSeq, LenProperties
        <5> QED BY <5>1, <5>3, Names DEF j, Entries
      <4> QED BY <1>2, <2>2, <4>1, <4>2
    <3> QED BY <1>2, <1>6, <2>2, <2>5, <2>12, <3>2 DEF RInv, Apart, OnceInJobs, OnceAtThreads
  <2>14. OwnedOK'
    <3>1. \A u \in Socks : Owned(u)' <=> Owned(u)
      BY <1>2, <2>2, <2>5, <2>12, Names DEF Owned
    <3>2. \A u \in Socks : sk'[u].linked = sk[u].linked
      BY <2>4, <2>5
    <3>3. \A u \in Socks \ {Lst} : HalfOpen(sk'[u]) <=> HalfOpen(sk[u])
      BY <2>5
    <3>4. \A x \in Doers : \A i \in DOMAIN job'[x] :
            job'[x][i] = <<"unlink", Lst>> => sk'[Lst].st # "LISTEN"
      BY <2>4, <2>5 DEF RInv, OwnedOK
    <3> QED BY <3>1, <3>2, <3>3, <3>4 DEF RInv, OwnedOK, HalfOpen
  <2>15. DeadChildSpliced'
    <3> SUFFICES ASSUME NEW c \in Range(q.backlog), HalfOpen(sk'[c])
                 PROVE  timer'[Lst].at = "splice" /\ timer'[Lst].sock = c
      BY <2>12 DEF DeadChildSpliced, HalfOpen
    <3>1. c \in Kids /\ c # Lst /\ c \in Socks
      BY <1>2, <2>2, ListenerHas, Names
    <3>2. HalfOpen(sk[c]) /\ c # k
      BY <1>5, <2>5, <3>1 DEF HalfOpen
    <3>3. c \in Range(r.backlog)
      BY <2>2, <3>2
    <3> QED BY <2>5, <3>2, <3>3 DEF RInv, DeadChildSpliced, HalfOpen
  <2> QED BY <2>6, <2>8, <2>10, <2>11, <2>13, <2>14, <2>15 DEF RInv
<1>8. CASE /\ job' = [job EXCEPT ![Lst] = <<<<"section", k>>>>]
           /\ rx' = [rx EXCEPT ![h].at = "closed", ![h].kid = None]
           /\ UNCHANGED <<sk, wire, timer, pc, sig, isn, used, sent, got, load, park>>
  <2>1. /\ rx'[h].at = "closed" /\ rx'[h].kid = None /\ rx'[h].sock = rx[h].sock
        /\ rx'[h].seg = rx[h].seg /\ \A f \in Hosts \ {h} : rx'[f] = rx[f]
        /\ rx' \in [Hosts -> [at : RxPlaces, seg : Segments \cup {None}, sock : Socks \cup {None},
                              kid : Kids \cup {None}]]
    <3>1. rx \in [Hosts -> [at : RxPlaces, seg : Segments \cup {None}, sock : Socks \cup {None},
                            kid : Kids \cup {None}]]
      BY <1>4 DEF Typed
    <3> QED BY <1>8, <3>1, ZenonT(40) DEF RxPlaces
  <2> DEFINE one == <<<<"section", k>>>>
  <2>2. /\ one \in Seq(Entries) /\ DOMAIN one = {1} /\ one[1] = <<"section", k>>
        /\ {one[i][2] : i \in DOMAIN one} = {k}
    <3>1. <<"section", k>> \in Entries
      BY <1>2 DEF Entries
    <3>2. one \in Seq(Entries)
      BY <3>1
    <3>3. DOMAIN one = {1} /\ one[1] = <<"section", k>>
      OBVIOUS
    <3> HIDE DEF one
    <3> QED BY <3>2, <3>3
  <2> HIDE DEF one
  <2>3. /\ job' \in [Doers -> Seq(Entries)] /\ job'[Lst] = one
        /\ \A x \in Doers \ {Lst} : job'[x] = job[x]
        /\ Lst \in Doers
    BY <1>4, <1>8, <2>2 DEF Typed, Doers, one
  <2>4. InJob(Lst)' = {k} /\ InJob(Lst) = {} /\ \A x \in Doers \ {Lst} : InJob(x)' = InJob(x)
    <3>1. DOMAIN job[Lst] = {}
      BY <1>2
    <3> QED BY <2>2, <2>3, <3>1 DEF InJob
  <2>5. Typed'
    BY <1>4, <1>8, <2>1, <2>3 DEF Typed, Within
  <2>6. \A u : Users(u)' = Users(u)
    BY <1>8, <2>1, UsersSame
  <2>7. Counted'
    BY <1>8, <2>6 DEF RInv, Counted
  <2>8. RxOK' /\ TimerOK' /\ CallsOK' /\ FreshOK' /\ SpliceOK' /\ SocksOK' /\ Addressed'
        /\ DeadChildSpliced'
    <3>1. RxOK'
      BY <1>1, <1>2, <1>8, <2>1 DEF RInv, RxOK
    <3>2. CallsOK'
      BY <1>8, <2>3, Names DEF RInv, CallsOK, Doers
    <3> QED BY <1>2, <1>8, <2>1, <3>1, <3>2
         DEF RInv, TimerOK, FreshOK, SpliceOK, SocksOK, SockOK, Addressed, Routed,
             DeadChildSpliced, HalfOpen
  <2>9. Apart'
    <3>1. OnceInJobs'
      <4>1. \A x \in Doers : \A i, j \in DOMAIN job'[x] : job'[x][i][2] = job'[x][j][2] => i = j
        BY <2>2, <2>3 DEF RInv, Apart, OnceInJobs
      <4>2. \A x, y \in Doers : x # y => InJob(x)' \cap InJob(y)' = {}
        <5>1. \A x \in Doers : k \notin InJob(x)
          BY <1>6
        <5>2. OnceInJobs
          BY DEF RInv, Apart
        <5> QED BY <2>4, <5>1, <5>2 DEF OnceInJobs
      <4> QED BY <4>1, <4>2 DEF OnceInJobs
    <3>2. \A x \in Doers : None \notin InJob(x)'
      <4>1. ASSUME NEW x \in Doers, None \in InJob(x)' PROVE FALSE
        <5>1. PICK i \in DOMAIN job'[x] : job'[x][i][2] = None
          BY <4>1 DEF InJob
        <5> DEFINE j == job'[x]
        <5>2. j \in Seq(Entries) /\ i \in DOMAIN j
          BY <2>3
        <5> HIDE DEF j
        <5>3. j[i] \in Entries
          BY <5>2, ElementOfSeq, LenProperties
        <5> QED BY <5>1, <5>3, Names DEF j, Entries
      <4> QED BY <4>1
    <3>3. None \notin Range(r.backlog)
      BY ListenerHas, Names
    <3>4. Apart
      BY DEF RInv
    <3>5. rx'[Lst].kid = None
      BY <1>2, <2>1
    <3>6. \A x \in Doers : /\ InJob(x)' \cap Range(r.backlog) = {}
                           /\ \A t \in Threads : pc[t].sock \notin InJob(x)'
      BY <1>6, <2>4, <3>4 DEF Apart
    <3> QED BY <1>8, <3>1, <3>2, <3>3, <3>4, <3>5, <3>6 DEF Apart, OnceAtThreads
  <2>10. OwnedOK'
    <3>1. \A u \in Socks : Owned(u)' <=> Owned(u)
      <4>1. \A u \in Socks : (\E x \in Doers : u \in InJob(x)') <=> (\E x \in Doers : u \in InJob(x)) \/ u = k
        BY <2>3, <2>4
      <4>2. rx'[Lst].kid = None /\ rx[Lst].kid = k
        BY <1>2, <2>1
      <4> QED BY <1>8, <4>1, <4>2, Names DEF Owned
    <3>2. \A x \in Doers : \A i \in DOMAIN job'[x] :
            job'[x][i] = <<"unlink", Lst>> => sk'[Lst].st # "LISTEN"
      BY <1>8, <2>2, <2>3 DEF RInv, OwnedOK
    <3> QED BY <1>8, <3>1, <3>2 DEF RInv, OwnedOK, HalfOpen
  <2> QED BY <2>5, <2>7, <2>8, <2>9, <2>10 DEF RInv
<1> QED BY <1>1, <1>2, <1>7, <1>8 DEF RxBacklog

----------------------------------------------------------------------------
(* The timer *)

LEMMA TickHas ==
  ASSUME RInv, NEW h \in Hosts, timer[h].at # "idle"
  PROVE  LET s == timer[h].sock IN
         /\ s \in Socks /\ Local(s) = h /\ Users(s) # 0
         /\ sk[s].refs # 0 /\ sk[s].st \notin {"none", "freed"}
         /\ sk[s] \in Sockets /\ Within(sk[s]) /\ SockOK(s, sk[s])
<1>1. timer[h].sock \in Socks /\ Local(timer[h].sock) = h
  BY DEF RInv, Typed, TimerOK
<1>2. Users(timer[h].sock) # 0
  BY UsersNat
<1> QED BY <1>1, <1>2, InUse DEF RInv

LEMMA TakeInv ==
  ASSUME RInv, NEW s \in Socks, TickTake(s)
  PROVE  RInv'
<1> DEFINE h == Local(s)
           r == sk[s]
           q == Get(r)
<1>1. /\ timer[h].at = "idle" /\ r.linked /\ r.rtx /\ rx[h].kid # s
      /\ sk' = [sk EXCEPT ![s] = q]
      /\ timer' = [timer EXCEPT ![h] = [at |-> "section", sock |-> s]]
      /\ UNCHANGED <<wire, rx, pc, job, sig, isn, used, sent, got, load, park>>
  BY DEF TickTake
<1>2. h \in Hosts /\ Typed
  BY Names DEF RInv
<1> HIDE DEF h
<1>3. r \in Sockets /\ Within(r) /\ SockOK(s, r) /\ r.refs # 0 /\ r.st \notin {"none", "freed"}
  BY <1>1, InUse DEF RInv
<1>4. /\ q \in Sockets /\ Within(q) /\ SockOK(s, q)
      /\ q.linked = r.linked /\ q.backlog = r.backlog /\ q.st = r.st
      /\ q.una = r.una /\ q.iss = r.iss /\ q.refs = r.refs + 1
  BY <1>3, GetOK
<1> HIDE DEF q
<1>5. /\ sk' \in [Socks -> Sockets] /\ sk'[s] = q
      /\ \A u \in Socks \ {s} : sk'[u] = sk[u] /\ Within(sk[u]) /\ SockOK(u, sk[u])
  BY <1>1, <1>4 DEF RInv, Typed, SocksOK
<1>6. /\ timer'[h].at = "section" /\ timer'[h].sock = s
      /\ \A f \in Hosts \ {h} : timer'[f] = timer[f]
      /\ timer[h].sock = None
      /\ timer' \in [Hosts -> [at : TimerPlaces, sock : Socks \cup {None}]]
  BY <1>1, <1>2 DEF RInv, Typed, TimerOK, TimerPlaces
<1>7. /\ Users(s)' = Users(s) + 1
      /\ \A u \in Socks \ {s} : Users(u)' = Users(u)
  BY <1>1, <1>2, <1>6, TimerMoves
<1>8. Counted'
  <2>1. ASSUME NEW u \in Socks
        PROVE  sk'[u].refs = (IF sk'[u].linked THEN 1 ELSE 0) + Users(u)'
    <3>1. sk[u].refs = (IF sk[u].linked THEN 1 ELSE 0) + Users(u) /\ Users(u) \in Nat
      BY UsersNat DEF RInv, Counted
    <3>2. CASE u = s
      <4>1. sk'[s].refs = sk[s].refs + 1 /\ sk'[s].linked = sk[s].linked
        BY <1>4, <1>5
      <4> QED BY <1>7, <3>1, <3>2, <4>1
    <3>3. CASE u # s
      BY <1>5, <1>7, <3>1, <3>3
    <3> QED BY <3>2, <3>3
  <2> QED BY <2>1 DEF Counted
<1>9. Typed'
  <2>1. \A u \in Socks : Within(sk'[u])
    BY <1>4, <1>5
  <2> QED BY <1>1, <1>2, <1>5, <1>6, <2>1 DEF Typed, Within
<1>10. RxOK' /\ TimerOK' /\ CallsOK' /\ Addressed'
  <2>1. TimerOK'
    BY <1>1, <1>2, <1>6, Names DEF RInv, TimerOK, h
  <2> QED BY <1>1, <2>1 DEF RInv, RxOK, CallsOK, Addressed, Routed
<1>11. SocksOK' /\ FreshOK' /\ SpliceOK' /\ Apart' /\ OwnedOK' /\ DeadChildSpliced'
  <2>1. s # rx[Lst].kid
    <3>1. rx[Lst].kid \in Kids \cup {None}
      BY <1>2, Names DEF Typed
    <3>2. s = rx[Lst].kid => h = Lst
      BY <3>1, Names DEF h
    <3> QED BY <1>1, <3>2
  <2>2. rx[Lst].kid # None => timer'[Lst].sock # rx[Lst].kid
    BY <1>6, <2>1, Names DEF RInv, FreshOK
  <2>3. \/ timer'[Lst] = timer[Lst]
        \/ timer[Lst].at # "splice" /\ timer'[Lst].at # "splice"
    BY <1>1, <1>6, Names
  <2>4. HalfOpen(q) <=> HalfOpen(r)
    BY <1>4 DEF HalfOpen
  <2>5. \A u \in Socks \ {s} : Alike(sk'[u], sk[u]) /\ SockOK(u, sk'[u])
    BY <1>5 DEF Alike
  <2> QED BY <1>1, <1>4, <1>5, <2>1, <2>2, <2>3, <2>4, <2>5, QuietStep
<1> QED BY <1>8, <1>9, <1>10, <1>11 DEF RInv

(* A section of the timer on a socket that is not a child giving up. *)
LEMMA TickSame ==
  ASSUME RInv, NEW h \in Hosts, timer[h].at = "section", NEW r, r = sk[timer[h].sock],
         NEW q \in Sockets, Within(q), SockOK(timer[h].sock, q),
         q.refs = r.refs, q.linked = r.linked, q.backlog = r.backlog,
         q.una = r.una, q.iss = r.iss,
         \/ q.st = r.st
         \/ timer[h].sock \notin Kids /\ q.st = "CLOSED",
         NEW segs \in Seq(Segments), NEW dst, AllTo(segs, dst),
         NEW T, TickEnd(h, q, segs, T)
  PROVE  RInv'
<1> DEFINE s == timer[h].sock
<1>1. s \in Socks
  BY TickHas
<1>2. s \in Kids => (HalfOpen(q) <=> HalfOpen(r))
  BY DEF HalfOpen
<1>3. s = Lst /\ q.st = "LISTEN" => sk[Lst].st = "LISTEN"
  OBVIOUS
<1> HIDE DEF s
<1> QED BY <1>1, <1>2, <1>3, TickEndInv DEF s

LEMMA TickAgainInv ==
  ASSUME RInv, NEW h \in Hosts, TickAgain(h)
  PROVE  RInv'
<1> DEFINE s == timer[h].sock
           r == sk[s]
           n == [r EXCEPT !.cnt = r.cnt + 1]
           c == [n EXCEPT !.rtx = FALSE]
           syn == <<Again(s, r, {"SYN"})>>
           synack == <<Again(s, r, {"SYN", "ACK"})>>
<1>1. /\ timer[h].at = "section"
      /\ \/ TickEnd(h, r, <<>>, {})
         \/ /\ r.rtx /\ r.cnt < load.retries
            /\ \/ r.st = "SYN_SENT" /\ TickEnd(h, n, syn, {})
               \/ r.st = "SYN_RECEIVED" /\ TickEnd(h, n, synack, {})
               \/ /\ r.st \notin {"SYN_SENT", "SYN_RECEIVED"}
                  /\ TickEnd(h, c, <<>>, {})
  BY DEF TickAgain
<1>2. /\ s \in Socks /\ r \in Sockets /\ Within(r) /\ SockOK(s, r)
      /\ r.st \notin {"none", "freed"}
  BY <1>1, TickHas
<1>3. /\ n \in Sockets /\ n.refs = r.refs /\ n.linked = r.linked /\ n.backlog = r.backlog
      /\ n.st = r.st /\ n.una = r.una /\ n.iss = r.iss /\ n.rx = r.rx /\ n.cnt = r.cnt + 1
      /\ n.rtx = r.rtx
  <2>1. r.cnt + 1 \in Nat
    BY <1>2, SocketFields
  <2> HIDE DEF r
  <2> QED BY <1>2, <2>1 DEF Sockets
<1> HIDE DEF n
<1>4. /\ c \in Sockets /\ c.refs = r.refs /\ c.linked = r.linked /\ c.backlog = r.backlog
      /\ c.st = r.st /\ c.una = r.una /\ c.iss = r.iss /\ c.rx = r.rx /\ c.cnt = r.cnt + 1
      /\ c.rtx = FALSE
  <2> HIDE DEF r
  <2> QED BY <1>3 DEF Sockets
<1> HIDE DEF c
<1>5. SockOK(s, n) /\ SockOK(s, c)
  BY <1>2, <1>3, <1>4 DEF SockOK
<1>6. r.cnt < load.retries => Within(n) /\ Within(c)
  <2>1. r.cnt \in Nat /\ load.retries \in Nat
    BY <1>2, SocketFields, LoadFacts DEF RInv, Typed
  <2> QED BY <1>2, <1>3, <1>4, <2>1 DEF Within
<1>7. /\ syn \in Seq(Segments) /\ AllTo(syn, r.peer)
      /\ synack \in Seq(Segments) /\ AllTo(synack, r.peer)
  <2> DEFINE f == Again(s, r, {"SYN"})
             g == Again(s, r, {"SYN", "ACK"})
  <2>1. f \in Segments /\ f.dst = r.peer /\ g \in Segments /\ g.dst = r.peer
    <3>1. {"SYN"} \in SUBSET {"SYN", "ACK", "FIN", "RST"}
          /\ {"SYN", "ACK"} \in SUBSET {"SYN", "ACK", "FIN", "RST"}
      OBVIOUS
    <3> QED BY <1>2, <3>1, AgainType
  <2> HIDE DEF f, g
  <2>2. <<f>> \in Seq(Segments) /\ AllTo(<<f>>, r.peer)
    BY <2>1, OneSegment
  <2>3. <<g>> \in Seq(Segments) /\ AllTo(<<g>>, r.peer)
    BY <2>1, OneSegment
  <2> QED BY <2>2, <2>3 DEF f, g
<1> HIDE DEF syn, synack, r
<1>8. CASE TickEnd(h, r, <<>>, {})
  BY <1>1, <1>2, <1>8, NoSegment, TickSame DEF r
<1>9. CASE r.cnt < load.retries /\ TickEnd(h, n, syn, {})
  BY <1>1, <1>2, <1>3, <1>5, <1>6, <1>7, <1>9, TickSame DEF r
<1>10. CASE r.cnt < load.retries /\ TickEnd(h, n, synack, {})
  BY <1>1, <1>2, <1>3, <1>5, <1>6, <1>7, <1>10, TickSame DEF r
<1>11. CASE r.cnt < load.retries /\ TickEnd(h, c, <<>>, {})
  BY <1>1, <1>2, <1>4, <1>5, <1>6, <1>11, NoSegment, TickSame DEF r
<1> QED BY <1>1, <1>8, <1>9, <1>10, <1>11

LEMMA GiveUpInv ==
  ASSUME RInv, NEW h \in Hosts, TickGiveUp(h)
  PROVE  RInv'
<1> DEFINE s == timer[h].sock
           r == sk[s]
           dead == [r EXCEPT !.st = "CLOSED", !.rtx = FALSE, !.conn = None]
<1>1. timer[h].at = "section" /\ r.rtx
  BY DEF TickGiveUp
<1>2. /\ s \in Socks /\ r \in Sockets /\ Within(r) /\ SockOK(s, r) /\ Local(s) = h
      /\ r.st \notin {"none", "freed"}
  BY <1>1, TickHas
<1>3. /\ dead \in Sockets /\ dead.refs = r.refs /\ dead.linked = r.linked
      /\ dead.backlog = r.backlog /\ dead.st = "CLOSED" /\ dead.una = r.una /\ dead.iss = r.iss
      /\ dead.rx = r.rx /\ dead.cnt = r.cnt /\ dead.rtx = FALSE
  <2> HIDE DEF r
  <2> QED BY <1>2 DEF Sockets, States
<1>4. /\ s # Lst
      /\ \/ r.st = "SYN_RECEIVED" /\ s \in Kids
         \/ r.st = "CLOSED"
         \/ r.st = "SYN_SENT" /\ s \notin Kids
  BY <1>1, <1>2, Names DEF SockOK
<1>5. CASE r.st # "SYN_RECEIVED" /\ TickEnd(h, dead, <<>>, {r.conn})
  <2> HIDE DEF dead
  <2>1. SockOK(s, dead) /\ Within(dead)
    BY <1>2, <1>3, <1>4 DEF SockOK, Within, Synchronised
  <2>2. dead.st = r.st \/ (s \notin Kids /\ dead.st = "CLOSED")
    BY <1>3, <1>4, <1>5
  <2> HIDE DEF r
  <2> QED BY <1>1, <1>3, <1>5, <2>1, <2>2, NoSegment, TickSame DEF r
<1>6. CASE /\ r.st = "SYN_RECEIVED"
           /\ sk' = [sk EXCEPT ![s] = dead]
           /\ timer' = [timer EXCEPT ![h].at = "splice"]
           /\ Unblock(Someone({r.conn}))
           /\ UNCHANGED <<wire, rx, pc, job, sig, isn, used, sent, got, load>>
  <2> HIDE DEF dead
  <2>1. s \in Kids /\ h = Lst
    BY <1>2, <1>4, <1>6, Names
  <2>2. SockOK(s, dead) /\ Within(dead)
    BY <1>2, <1>3, <1>4, <2>1, Names DEF SockOK, Within, Synchronised
  <2>3. HalfOpen(dead) /\ ~HalfOpen(r)
    BY <1>2, <1>3, <1>6, <2>1 DEF SockOK, HalfOpen
  <2>4. /\ timer'[h].at = "splice" /\ timer'[h].sock = s
        /\ \A f \in Hosts \ {h} : timer'[f] = timer[f]
        /\ \A f \in Hosts : timer'[f].sock = timer[f].sock
        /\ timer' \in [Hosts -> [at : TimerPlaces, sock : Socks \cup {None}]]
    <3>1. timer \in [Hosts -> [at : TimerPlaces, sock : Socks \cup {None}]]
      BY DEF RInv, Typed
    <3> QED BY <1>6, <3>1 DEF TimerPlaces
  <2>5. s # rx[Lst].kid
    BY <2>1, Names DEF RInv, FreshOK
  <2>6. /\ sk' \in [Socks -> Sockets] /\ \A u \in Socks : Within(sk'[u])
        /\ SocksOK' /\ FreshOK' /\ SpliceOK' /\ Apart' /\ OwnedOK' /\ Counted'
        /\ DeadChildSpliced'
    <3>1. s # Lst
      BY <1>4
    <3>2. timer[Lst].at # "splice" /\ timer'[Lst].at = "splice" /\ timer'[Lst].sock = s
      BY <1>1, <2>1, <2>4
    <3> HIDE DEF s, r
    <3> QED BY <1>2, <1>3, <1>6, <2>2, <2>3, <2>4, <2>5, <3>1, <3>2, InPlace DEF r
  <2>7. RxOK' /\ TimerOK' /\ CallsOK' /\ Addressed'
    <3>1. TimerOK'
      BY <1>1, <1>2, <2>1, <2>4, Names DEF RInv, TimerOK
    <3> QED BY <1>6, <3>1 DEF RInv, RxOK, CallsOK, Addressed, Routed
  <2>8. Typed'
    <3>1. Typed
      BY DEF RInv
    <3>2. park' \in [Threads -> Phases]
      BY <1>6, <3>1, UnblockType DEF Typed
    <3> QED BY <1>6, <2>4, <2>6, <3>1, <3>2, TypedAfter DEF Typed
  <2> QED BY <2>6, <2>7, <2>8 DEF RInv
<1> QED BY <1>5, <1>6 DEF TickGiveUp

LEMMA SpliceInv ==
  ASSUME RInv, NEW h \in Hosts, TickSplice(h)
  PROVE  RInv'
<1>0. PICK s \in Socks : s = timer[h].sock
  BY TickHas DEF TickSplice
<1> DEFINE r == sk[s]
           l == sk[Lst]
           q == Put(r)
           b == Without(l.backlog, s)
           m == [l EXCEPT !.backlog = IF Listening THEN b ELSE l.backlog]
<1>1. timer[h].at = "splice" /\ Typed
  BY DEF TickSplice, RInv
<1>2. /\ s \in Socks /\ r \in Sockets /\ Within(r) /\ SockOK(s, r) /\ Local(s) = h
      /\ Users(s) # 0
  BY <1>0, <1>1, TickHas
<1>3. s \in Kids /\ s # Lst /\ h = Lst /\ HalfOpen(r)
  BY <1>0, <1>1, <1>2, Names DEF RInv, TimerOK, SpliceOK
<1>4. /\ sk' = [sk EXCEPT ![s] = q, ![Lst] = m]
      /\ timer' = [timer EXCEPT ![h] = TimerIdle]
      /\ UNCHANGED <<wire, rx, pc, job, sig, isn, used, sent, got, load, park>>
  BY <1>0, <1>3 DEF TickSplice
<1>5. l \in Sockets /\ Within(l) /\ SockOK(Lst, l) /\ l.backlog \in Seq(Kids) /\ IsInjective(l.backlog)
  BY ListenerHas DEF RInv, Apart
<1>6. /\ b \in Seq(Kids) /\ IsInjective(b) /\ Range(b) = Range(l.backlog) \ {s}
      /\ Len(b) <= Len(l.backlog)
  <2> DEFINE x == l.backlog
  <2> HIDE DEF x
  <2>1. x \in Seq(Kids) /\ IsInjective(x)
    BY <1>5 DEF x
  <2> QED BY <2>1, WithoutFacts DEF x
<1>7. /\ m \in Sockets /\ Within(m) /\ SockOK(Lst, m) /\ Range(m.backlog) = Range(l.backlog) \ {s}
      /\ IsInjective(m.backlog) /\ m.refs = l.refs /\ m.linked = l.linked /\ m.st = l.st
      /\ m.backlog \in Seq(Kids)
  <2>1. CASE Listening
    <3>1. /\ m \in Sockets /\ m.backlog = b /\ m.refs = l.refs /\ m.linked = l.linked
          /\ m.st = l.st /\ m.rtx = l.rtx /\ m.cnt = l.cnt /\ m.rx = l.rx
      <4> HIDE DEF b, l
      <4> QED BY <1>5, <1>6, <2>1 DEF Sockets
    <3>2. l.st = "LISTEN"
      BY <2>1 DEF Listening
    <3> HIDE DEF m
    <3>3. Within(m)
      <4>1. Len(b) \in Nat /\ Len(l.backlog) \in Nat /\ load.backlog \in Nat
        BY <1>1, <1>5, <1>6, LenProperties, LoadFacts DEF Typed
      <4> QED BY <1>5, <1>6, <3>1, <4>1 DEF Within
    <3>4. SockOK(Lst, m)
      BY <1>5, <3>1, <3>2, Names DEF SockOK
    <3> QED BY <1>6, <3>1, <3>3, <3>4
  <2>2. CASE ~Listening
    <3>1. m = l
      BY <1>5, <2>2 DEF Sockets
    <3>2. l.st # "LISTEN"
      BY <1>5, <2>2 DEF Listening, SockOK
    <3>3. l.backlog = <<>>
      BY <1>5, <3>2 DEF SockOK
    <3>4. Range(l.backlog) = {}
      BY <3>3 DEF Range
    <3> QED BY <1>5, <3>1, <3>4
  <2> QED BY <2>1, <2>2
<1> HIDE DEF m, b
<1>8. /\ q \in Sockets /\ Within(q) /\ SockOK(s, q)
      /\ q.linked = r.linked /\ q.backlog = r.backlog
      /\ q.refs = (IF q.linked THEN 1 ELSE 0) + (Users(s) - 1)
      /\ HalfOpen(r) /\ (r.linked \/ Users(s) # 1) => HalfOpen(q)
  BY <1>2, Drop
<1> HIDE DEF q
<1>9. /\ sk' \in [Socks -> Sockets] /\ sk'[s] = q /\ sk'[Lst] = m
      /\ \A u \in Socks \ {s, Lst} : sk'[u] = sk[u] /\ Within(sk[u]) /\ SockOK(u, sk[u])
  BY <1>2, <1>3, <1>4, <1>7, <1>8, Names, ZenonT(40) DEF RInv, Typed, SocksOK
<1>10. /\ timer'[h].at = "idle" /\ timer'[h].sock = None
       /\ \A f \in Hosts \ {h} : timer'[f] = timer[f]
       /\ timer' \in [Hosts -> [at : TimerPlaces, sock : Socks \cup {None}]]
  BY <1>1, <1>4 DEF Typed, TimerIdle, TimerPlaces
<1>11. /\ Users(s)' = Users(s) - 1
       /\ \A u \in Socks \ {s} : Users(u)' = Users(u)
  BY <1>0, <1>2, <1>4, <1>10, TimerMoves
<1>12. Counted'
  <2>1. ASSUME NEW u \in Socks
        PROVE  sk'[u].refs = (IF sk'[u].linked THEN 1 ELSE 0) + Users(u)'
    <3>1. CASE u = s
      BY <1>8, <1>9, <1>11, <3>1
    <3>2. CASE u # s
      <4>1. sk'[u].refs = sk[u].refs /\ sk'[u].linked = sk[u].linked
        BY <1>7, <1>9, <3>2
      <4> QED BY <1>11, <3>2, <4>1 DEF RInv, Counted
    <3> QED BY <3>1, <3>2
  <2> QED BY <2>1 DEF Counted
<1>13. Typed'
  <2>1. \A u \in Socks : Within(sk'[u])
    BY <1>7, <1>8, <1>9
  <2> QED BY <1>1, <1>4, <1>9, <1>10, <2>1 DEF Typed, Within
<1>14. RxOK' /\ TimerOK' /\ CallsOK' /\ FreshOK' /\ SpliceOK' /\ SocksOK' /\ Addressed'
  <2>1. TimerOK'
    BY <1>10 DEF RInv, TimerOK
  <2>2. FreshOK'
    <3> SUFFICES ASSUME rx[Lst].kid # None
                 PROVE  sk'[rx[Lst].kid].st = "SYN_RECEIVED" /\ timer'[Lst].sock # rx[Lst].kid
      BY <1>4 DEF FreshOK
    <3>1. rx[Lst].kid \in Kids /\ sk[rx[Lst].kid].st = "SYN_RECEIVED"
      BY <1>1, Names DEF RInv, FreshOK, Typed
    <3>2. rx[Lst].kid # s
      BY <1>3, <3>1 DEF HalfOpen
    <3> QED BY <1>3, <1>9, <1>10, <3>1, <3>2, Names
  <2>3. SpliceOK'
    BY <1>3, <1>10 DEF SpliceOK
  <2>4. SocksOK'
    <3>1. ASSUME NEW u \in Socks PROVE SockOK(u, sk'[u])
      BY <1>7, <1>8, <1>9
    <3> QED BY <3>1 DEF SocksOK, SockOK
  <2> QED BY <1>4, <2>1, <2>2, <2>3, <2>4 DEF RInv, RxOK, CallsOK, Addressed, Routed
<1>15. \A x : InJob(x)' = InJob(x)
  BY <1>4 DEF InJob
<1>16. Apart'
  BY <1>4, <1>7, <1>9, <1>15 DEF RInv, Apart, OnceInJobs, OnceAtThreads
<1>17. OwnedOK'
  <2>1. \A u \in Socks : /\ Owned(u)' => Owned(u)
                         /\ u # s => (Owned(u)' <=> Owned(u))
    BY <1>4, <1>7, <1>9, <1>15 DEF Owned
  <2>2. ASSUME NEW u \in Socks, Owned(u)' PROVE sk'[u].linked
    BY <1>7, <1>8, <1>9, <2>1, <2>2 DEF RInv, OwnedOK
  <2>3. ASSUME NEW u \in Socks \ {Lst}, sk'[u].linked
        PROVE  Owned(u)' \/ (u \in Kids /\ HalfOpen(sk'[u]))
    <3>1. CASE u = s
      BY <1>3, <1>8, <1>9, <2>3, <3>1
    <3>2. CASE u # s
      BY <1>9, <2>1, <2>3, <3>2 DEF RInv, OwnedOK
    <3> QED BY <3>1, <3>2
  <2>4. \A x \in Doers : \A i \in DOMAIN job'[x] :
          job'[x][i] = <<"unlink", Lst>> => sk'[Lst].st # "LISTEN"
    BY <1>4, <1>7, <1>9 DEF RInv, OwnedOK
  <2> QED BY <2>2, <2>3, <2>4 DEF OwnedOK, HalfOpen
<1>18. DeadChildSpliced'
  <2> SUFFICES ASSUME NEW c \in Range(m.backlog), HalfOpen(sk'[c]) PROVE FALSE
    BY <1>9 DEF DeadChildSpliced, HalfOpen
  <2>1. c \in Range(l.backlog) /\ c # s /\ c \in Kids
    BY <1>7, ListenerHas
  <2>2. HalfOpen(sk[c])
    BY <1>9, <2>1, Names DEF HalfOpen
  <2> QED BY <1>0, <1>3, <2>1, <2>2 DEF RInv, DeadChildSpliced, HalfOpen
<1> QED BY <1>12, <1>13, <1>14, <1>16, <1>17, <1>18 DEF RInv

----------------------------------------------------------------------------
(* close() *)

(* The sockets a list of jobs names, each once. *)
Named(q) == {q[i][2] : i \in DOMAIN q}
Once(q) == \A i, j \in DOMAIN q : q[i][2] = q[j][2] => i = j

Joined(c, a, b) == c = a \o b
Parts(c, a, b) == \A i \in DOMAIN c : \/ \E j \in DOMAIN a : c[i] = a[j]
                                      \/ \E j \in DOMAIN b : c[i] = b[j]
Separate(a, b) == Named(a) \cap Named(b) = {}

LEMMA ConcatNamed ==
  ASSUME NEW S, NEW a \in Seq(S), NEW b \in Seq(S), NEW c, Joined(c, a, b)
  PROVE  /\ c \in Seq(S) /\ Named(c) = Named(a) \cup Named(b)
         /\ Once(a) /\ Once(b) /\ Separate(a, b) => Once(c)
         /\ Parts(c, a, b)
<1>1. /\ c \in Seq(S) /\ Len(c) = Len(a) + Len(b) /\ DOMAIN c = 1 .. Len(c)
      /\ Len(a) \in Nat /\ DOMAIN a = 1 .. Len(a) /\ Len(b) \in Nat /\ DOMAIN b = 1 .. Len(b)
      /\ \A i \in 1 .. Len(a) + Len(b) : c[i] = IF i <= Len(a) THEN a[i] ELSE b[i - Len(a)]
  BY ConcatProperties, LenProperties DEF Joined
<1>2. \A i \in DOMAIN c : \/ i \in DOMAIN a /\ c[i] = a[i]
                          \/ i \notin DOMAIN a /\ i - Len(a) \in DOMAIN b /\ c[i] = b[i - Len(a)]
  BY <1>1
<1>3. \A i \in DOMAIN a : i \in DOMAIN c /\ c[i] = a[i]
  BY <1>1
<1>4. \A i \in DOMAIN b : i + Len(a) \in DOMAIN c /\ c[i + Len(a)] = b[i]
  <2> SUFFICES ASSUME NEW i \in DOMAIN b PROVE i + Len(a) \in DOMAIN c /\ c[i + Len(a)] = b[i]
    OBVIOUS
  <2>1. PICK k \in Nat : k = i + Len(a)
    BY <1>1
  <2>2. k \in 1 .. Len(a) + Len(b) /\ ~(k <= Len(a)) /\ k - Len(a) = i
    BY <1>1, <2>1
  <2> QED BY <1>1, <2>1, <2>2
<1>5. Named(c) \subseteq Named(a) \cup Named(b)
  BY <1>2 DEF Named
<1>6. Named(a) \subseteq Named(c)
  BY <1>3 DEF Named
<1>7. Named(b) \subseteq Named(c)
  <2> SUFFICES ASSUME NEW i \in DOMAIN b PROVE b[i][2] \in Named(c)
    BY DEF Named
  <2>1. PICK k \in DOMAIN c : c[k] = b[i]
    BY <1>4
  <2> QED BY <2>1 DEF Named
<1>8. ASSUME Once(a), Once(b), Separate(a, b) PROVE Once(c)
  <2> SUFFICES ASSUME NEW i \in DOMAIN c, NEW j \in DOMAIN c, c[i][2] = c[j][2] PROVE i = j
    BY DEF Once
  <2>1. CASE i \in DOMAIN a /\ j \in DOMAIN a
    BY <1>3, <1>8, <2>1 DEF Once
  <2>2. CASE i \notin DOMAIN a /\ j \notin DOMAIN a
    <3>1. i - Len(a) = j - Len(a)
      BY <1>2, <1>8, <2>2 DEF Once
    <3> QED BY <1>1, <3>1
  <2>3. CASE i \in DOMAIN a /\ j \notin DOMAIN a
    <3>1. c[i][2] \in Named(a) /\ c[j][2] \in Named(b)
      BY <1>2, <2>3 DEF Named
    <3> QED BY <1>8, <3>1 DEF Separate
  <2>4. CASE i \notin DOMAIN a /\ j \in DOMAIN a
    <3>1. c[i][2] \in Named(b) /\ c[j][2] \in Named(a)
      BY <1>2, <2>4 DEF Named
    <3> QED BY <1>8, <3>1 DEF Separate
  <2> QED BY <2>1, <2>2, <2>3, <2>4
<1>9. Parts(c, a, b)
  BY <1>2 DEF Parts
<1> QED BY <1>1, <1>5, <1>6, <1>7, <1>8, <1>9

LEMMA TailNamed ==
  ASSUME NEW S, NEW q \in Seq(S), q # <<>>
  PROVE  /\ Tail(q) \in Seq(S) /\ Named(q) = Named(Tail(q)) \cup {Head(q)[2]}
         /\ Once(q) => Once(Tail(q)) /\ Head(q)[2] \notin Named(Tail(q))
         /\ \A i \in DOMAIN Tail(q) : \E j \in DOMAIN q : Tail(q)[i] = q[j]
         /\ Head(q) \in S /\ \E i \in DOMAIN q : q[i] = Head(q)
<1> DEFINE t == Tail(q)
<1>1. /\ DOMAIN q = 1 .. Len(q) /\ Len(q) \in Nat /\ Len(q) # 0 /\ Head(q) = q[1]
      /\ t \in Seq(S) /\ DOMAIN t = 1 .. (Len(q) - 1)
      /\ \A i \in 1 .. (Len(q) - 1) : t[i] = q[i + 1]
  BY HeadTailProperties, LenProperties, EmptySeq
<1> HIDE DEF t
<1>2. /\ 1 \in DOMAIN q
      /\ \A i \in DOMAIN t : i \in Int /\ i + 1 \in DOMAIN q /\ i + 1 # 1 /\ t[i] = q[i + 1]
  BY <1>1
<1>3. \A i \in DOMAIN q : i = 1 \/ (i - 1 \in DOMAIN t /\ t[i - 1] = q[i])
  <2> SUFFICES ASSUME NEW i \in DOMAIN q, i # 1 PROVE i - 1 \in DOMAIN t /\ t[i - 1] = q[i]
    OBVIOUS
  <2>1. i \in Nat /\ i - 1 \in 1 .. (Len(q) - 1)
    BY <1>1
  <2>2. PICK k \in Nat : k = i - 1
    BY <2>1
  <2>3. k + 1 = i
    BY <2>1, <2>2
  <2> QED BY <1>1, <2>1, <2>2, <2>3
<1>4. Named(q) = Named(t) \cup {Head(q)[2]}
  <2>1. Named(q) \subseteq Named(t) \cup {q[1][2]}
    BY <1>3 DEF Named
  <2>2. Named(t) \subseteq Named(q)
    BY <1>2 DEF Named
  <2>3. q[1][2] \in Named(q)
    BY <1>2 DEF Named
  <2> QED BY <1>1, <2>1, <2>2, <2>3
<1>5. ASSUME Once(q) PROVE Once(t) /\ Head(q)[2] \notin Named(t)
  <2>1. Once(t)
    <3> SUFFICES ASSUME NEW i \in DOMAIN t, NEW j \in DOMAIN t, t[i][2] = t[j][2] PROVE i = j
      BY DEF Once
    <3>1. i + 1 = j + 1
      BY <1>2, <1>5 DEF Once
    <3> QED BY <1>2, <3>1
  <2>2. Head(q)[2] \notin Named(t)
    BY <1>1, <1>2, <1>5 DEF Once, Named
  <2> QED BY <2>1, <2>2
<1>6. Head(q) \in S /\ \E i \in DOMAIN q : q[i] = Head(q)
  BY <1>1, <1>2, ElementOfSeq
<1> QED BY <1>1, <1>2, <1>4, <1>5, <1>6 DEF t

(* What closing a socket leaves of a job: its children, then its own way out
   of the lists. *)
JobAfter(j, o, s) == [i \in DOMAIN o |-> <<"section", o[i]>>] \o <<<<"unlink", s>>>> \o Tail(j)

LEMMA JobAfterFacts ==
  ASSUME NEW j \in Seq(Entries), j # <<>>, Once(j), NEW o \in Seq(Kids), IsInjective(o),
         NEW s, s = Head(j)[2], Range(o) \cap Named(j) = {}
  PROVE  LET n == JobAfter(j, o, s) IN
         /\ n \in Seq(Entries) /\ Once(n) /\ Named(n) = Named(j) \cup Range(o)
         /\ \A i \in DOMAIN n : n[i] = <<"unlink", Lst>> =>
              s = Lst \/ \E k \in DOMAIN j : j[k] = <<"unlink", Lst>>
<1> DEFINE a == [i \in DOMAIN o |-> <<"section", o[i]>>]
           b == <<<<"unlink", s>>>>
           t == Tail(j)
<1>1. /\ t \in Seq(Entries) /\ Named(j) = Named(t) \cup {s} /\ Once(t) /\ s \notin Named(t)
      /\ \A i \in DOMAIN t : \E k \in DOMAIN j : t[i] = j[k]
      /\ s \in Socks
  BY TailNamed DEF Entries
<1>2. a \in Seq(Entries) /\ Named(a) = Range(o) /\ Once(a)
      /\ \A i \in DOMAIN a : a[i] # <<"unlink", Lst>>
  <2>1. DOMAIN o = 1 .. Len(o) /\ Len(o) \in Nat /\ \A i \in DOMAIN o : o[i] \in Kids
    BY LenProperties, ElementOfSeq
  <2>2. \A i \in DOMAIN o : <<"section", o[i]>> \in Entries
    BY <2>1, Names DEF Entries
  <2>3. a \in Seq(Entries)
    BY <2>1, <2>2
  <2>4. DOMAIN a = DOMAIN o /\ \A i \in DOMAIN a : a[i][2] = o[i] /\ a[i] # <<"unlink", Lst>>
    OBVIOUS
  <2> HIDE DEF a
  <2>5. Named(a) = Range(o)
    BY <2>4 DEF Named, Range
  <2>6. Once(a)
    BY <2>4 DEF Once, IsInjective
  <2> QED BY <2>3, <2>4, <2>5, <2>6
<1>3. b \in Seq(Entries) /\ Named(b) = {s} /\ Once(b) /\ \A i \in DOMAIN b : b[i] = <<"unlink", s>>
  <2>1. <<"unlink", s>> \in Entries
    BY <1>1 DEF Entries
  <2>2. b \in Seq(Entries) /\ DOMAIN b = {1} /\ b[1] = <<"unlink", s>>
    BY <2>1
  <2> HIDE DEF b
  <2> QED BY <2>2 DEF Named, Once
<1> HIDE DEF a, b, t
<1> DEFINE c == a \o b
<1>4. /\ c \in Seq(Entries) /\ Named(c) = Range(o) \cup {s} /\ Once(c)
      /\ \A i \in DOMAIN c : \/ \E k \in DOMAIN a : c[i] = a[k]
                             \/ \E k \in DOMAIN b : c[i] = b[k]
  <2>1. a \in Seq(Entries) /\ b \in Seq(Entries) /\ Once(a) /\ Once(b)
    BY <1>2, <1>3
  <2>2. Separate(a, b)
    BY <1>1, <1>2, <1>3 DEF Separate
  <2>3. Joined(c, a, b)
    BY DEF Joined
  <2> HIDE DEF c
  <2>4. /\ c \in Seq(Entries) /\ Named(c) = Named(a) \cup Named(b) /\ Once(c)
        /\ Parts(c, a, b)
    BY <2>1, <2>2, <2>3, ConcatNamed
  <2> QED BY <1>2, <1>3, <2>4 DEF Parts
<1> HIDE DEF c
<1> DEFINE n == c \o t
<1>5. /\ n \in Seq(Entries) /\ Named(n) = Range(o) \cup {s} \cup Named(t) /\ Once(n)
      /\ \A i \in DOMAIN n : \/ \E k \in DOMAIN c : n[i] = c[k]
                             \/ \E k \in DOMAIN t : n[i] = t[k]
  <2>1. t \in Seq(Entries) /\ c \in Seq(Entries) /\ Once(t) /\ Once(c)
    BY <1>1, <1>4
  <2>2. Separate(c, t)
    BY <1>1, <1>4 DEF Separate
  <2>3. Joined(n, c, t)
    BY DEF Joined
  <2> HIDE DEF n
  <2>4. /\ n \in Seq(Entries) /\ Named(n) = Named(c) \cup Named(t) /\ Once(n)
        /\ Parts(n, c, t)
    BY <2>1, <2>2, <2>3, ConcatNamed
  <2> QED BY <1>4, <2>4 DEF Parts
<1>6. JobAfter(j, o, s) = n
  BY DEF JobAfter, a, b, c, t
<1> HIDE DEF n
<1>7. ASSUME NEW i \in DOMAIN n, n[i] = <<"unlink", Lst>>
      PROVE  s = Lst \/ \E k \in DOMAIN j : j[k] = <<"unlink", Lst>>
  <2>1. CASE \E k \in DOMAIN c : n[i] = c[k]
    <3>1. PICK k \in DOMAIN c : n[i] = c[k]
      BY <2>1
    <3>2. c[k] = <<"unlink", s>>
      BY <1>2, <1>3, <1>4, <1>7, <3>1
    <3> QED BY <1>7, <3>1, <3>2
  <2>2. CASE \E k \in DOMAIN t : n[i] = t[k]
    BY <1>1, <1>7, <2>2
  <2> QED BY <1>5, <2>1, <2>2
<1> QED BY <1>1, <1>5, <1>6, <1>7

(* The first job of somebody. *)
LEMMA JobHas ==
  ASSUME RInv, NEW x \in Doers, job[x] # <<>>
  PROVE  LET s == Head(job[x])[2] IN
         /\ s \in Socks /\ s \in InJob(x) /\ sk[s].linked /\ sk[s].refs = 1 + Users(s)
         /\ sk[s].st \notin {"none", "freed"}
         /\ sk[s] \in Sockets /\ Within(sk[s]) /\ SockOK(s, sk[s])
         /\ InJob(x) = Named(job[x]) /\ Once(job[x]) /\ job[x] \in Seq(Entries)
         /\ s # rx[Lst].kid /\ s \notin Range(sk[Lst].backlog)
         /\ Head(job[x]) = <<"unlink", Lst>> => sk[Lst].st # "LISTEN"
<1> DEFINE j == job[x]
           s == Head(job[x])[2]
<1>1. job[x] \in Seq(Entries) /\ InJob(x) = Named(job[x]) /\ Once(job[x])
  BY DEF RInv, Typed, InJob, Named, Apart, OnceInJobs, Once
<1>2. Head(j) \in Entries /\ (\E i \in DOMAIN j : j[i] = Head(j)) /\ s \in Named(j)
  <2> HIDE DEF j
  <2>1. j \in Seq(Entries) /\ j # <<>>
    BY <1>1 DEF j
  <2>2. Head(j) \in Entries /\ (\E i \in DOMAIN j : j[i] = Head(j)) /\ Head(j)[2] \in Named(j)
    BY <2>1, TailNamed
  <2> QED BY <2>2 DEF j
<1>3. s \in Socks /\ s \in InJob(x)
  BY <1>1, <1>2 DEF Entries
<1>4. sk[s].linked
  <2>1. Owned(s)
    BY <1>3 DEF Owned
  <2> QED BY <1>3, <2>1 DEF RInv, OwnedOK
<1>5. sk[s].refs = 1 + Users(s)
  BY <1>3, <1>4 DEF RInv, Counted
<1>6. /\ sk[s].st \notin {"none", "freed"}
      /\ sk[s] \in Sockets /\ Within(sk[s]) /\ SockOK(s, sk[s])
  BY <1>3, <1>4, InUse DEF RInv
<1>7. s # rx[Lst].kid /\ s \notin Range(sk[Lst].backlog)
  BY <1>3 DEF RInv, Apart
<1>8. Head(job[x]) = <<"unlink", Lst>> => sk[Lst].st # "LISTEN"
  BY <1>2 DEF RInv, OwnedOK
<1> QED BY <1>1, <1>3, <1>4, <1>5, <1>6, <1>7, <1>8

LEMMA SectionInv ==
  ASSUME RInv, NEW x \in Doers, CloseSection(x)
  PROVE  RInv'
<1>0. PICK s : s = Head(job[x])[2]
  OBVIOUS
<1> DEFINE r == sk[s]
           open == r.st \in {"ESTABLISHED", "CLOSE_WAIT"}
           left == [r EXCEPT !.backlog = <<>>, !.conn = None, !.acc = None, !.rxw = None]
           sends == Sent(left, {"FIN"}, <<>>)
           next == IF r.st = "ESTABLISHED" THEN "FIN_WAIT_1" ELSE "LAST_ACK"
           shut == [left EXCEPT !.st = "CLOSED"]
           fin == [sends EXCEPT !.st = next]
           q == IF ~open THEN shut ELSE fin
           segs == <<Seg(s, r, {"FIN", "ACK"}, <<>>)>>
           o == r.backlog
           n == JobAfter(job[x], o, s)
<1>1. /\ job[x] # <<>> /\ Head(job[x])[1] = "section"
      /\ sk' = [sk EXCEPT ![s] = q]
      /\ wire' = IF open THEN Onto(wire, segs) ELSE wire
      /\ Unblock(Someone({r.conn, r.acc, r.rxw}))
      /\ job' = [job EXCEPT ![x] = n]
      /\ UNCHANGED <<rx, timer, pc, sig, isn, used, sent, got, load>>
  BY <1>0 DEF CloseSection, Doing, JobAfter
<1>2. Typed
  BY DEF RInv
<1>3. /\ s \in Socks /\ s \in InJob(x) /\ r.linked
      /\ r.st \notin {"none", "freed"}
      /\ r \in Sockets /\ Within(r) /\ SockOK(s, r)
      /\ InJob(x) = Named(job[x]) /\ Once(job[x]) /\ job[x] \in Seq(Entries)
      /\ s # rx[Lst].kid /\ s \notin Range(sk[Lst].backlog)
  BY <1>0, <1>1, JobHas
<1>4. o \in Seq(Kids) /\ IsInjective(o) /\ Range(o) \subseteq Range(sk[Lst].backlog)
      /\ Range(o) \cap InJob(x) = {} /\ (s # Lst => Range(o) = {})
  <2>1. CASE s = Lst
    <3>1. Range(sk[Lst].backlog) \cap InJob(x) = {}
      BY DEF RInv, Apart
    <3> QED BY <2>1, <3>1, ListenerHas DEF RInv, Apart
  <2>2. CASE s # Lst
    <3>1. o = <<>>
      BY <1>3, <2>2 DEF SockOK
    <3>2. Range(o) = {} /\ IsInjective(o) /\ o \in Seq(Kids)
      BY <3>1 DEF Range, IsInjective
    <3> QED BY <2>2, <3>2
  <2> QED BY <2>1, <2>2
<1>5. /\ left \in Sockets /\ left.st = r.st /\ left.una = r.una /\ left.iss = r.iss
      /\ left.refs = r.refs /\ left.linked = r.linked /\ left.backlog = <<>>
      /\ left.cnt = r.cnt /\ left.rx = r.rx /\ left.rtx = r.rtx
  <2> DEFINE e == <<>>
  <2>1. e \in Seq(Kids)
    OBVIOUS
  <2>2. left = [r EXCEPT !.backlog = e, !.conn = None, !.acc = None, !.rxw = None]
    OBVIOUS
  <2> HIDE DEF r, e, left
  <2>3. /\ left \in Sockets /\ left.st = r.st /\ left.una = r.una /\ left.iss = r.iss
        /\ left.refs = r.refs /\ left.linked = r.linked /\ left.backlog = e
        /\ left.cnt = r.cnt /\ left.rx = r.rx /\ left.rtx = r.rtx
    BY <1>3, <2>1, <2>2 DEF Sockets
  <2> QED BY <2>3 DEF e
<1> HIDE DEF left
<1>6. /\ sends \in Sockets /\ sends.una = r.una /\ sends.iss = r.iss
      /\ sends.refs = r.refs /\ sends.linked = r.linked /\ sends.backlog = <<>>
      /\ sends.cnt = r.cnt /\ sends.rx = r.rx /\ sends.rtx = r.rtx
  <2> DEFINE flags == {"FIN"}
             data == <<>>
  <2>1. /\ data \in Seq(Bytes) /\ flags \in SUBSET {"SYN", "ACK", "FIN", "RST"}
        /\ sends = Sent(left, flags, data)
    OBVIOUS
  <2> HIDE DEF flags, data, sends, r
  <2> QED BY <1>5, <2>1, SentType
<1> HIDE DEF sends
<1>7. /\ q \in Sockets /\ q.una = r.una /\ q.iss = r.iss
      /\ q.refs = r.refs /\ q.linked = r.linked /\ q.backlog = <<>>
      /\ q.cnt = r.cnt /\ q.rx = r.rx /\ q.rtx = r.rtx
      /\ q.st \in {"CLOSED", "FIN_WAIT_1", "LAST_ACK"}
      /\ ~open => q.st = "CLOSED"
      /\ open => q.st # "CLOSED"
  <2>1. CASE ~open
    <3>1. q = shut
      BY <2>1
    <3> HIDE DEF q, r, open
    <3> QED BY <1>5, <2>1, <3>1 DEF Sockets, States
  <2>2. CASE open
    <3>1. q = fin /\ next \in {"FIN_WAIT_1", "LAST_ACK"}
      BY <2>2
    <3> HIDE DEF q, r, open, next
    <3> QED BY <1>6, <2>2, <3>1 DEF Sockets, States, Synchronised
  <2> QED BY <2>1, <2>2
<1> HIDE DEF q
<1>8. SockOK(s, q) /\ Within(q)
  <2>1. Within(q)
    <3>1. Len(<<>>) = 0 /\ load.backlog \in Nat
      BY <1>2, LoadFacts DEF Typed
    <3> QED BY <1>3, <1>7, <3>1 DEF Within
  <2>2. SockOK(s, q)
    <3>1. q.st \notin {"none", "freed", "LISTEN", "SYN_SENT", "SYN_RECEIVED"}
      BY <1>7
    <3>2. s = Lst => ~r.rtx /\ q.st = "CLOSED"
      BY <1>3, <1>7 DEF SockOK
    <3>3. q.rtx => q.st = "CLOSED"
      BY <1>3, <1>7 DEF SockOK
    <3>4. s \in Kids /\ q.st \in Synchronised => q.una = Plus(q.iss, 1)
      BY <1>3, <1>7 DEF SockOK, Synchronised
    <3> QED BY <1>7, <3>1, <3>2, <3>3, <3>4 DEF SockOK
  <2> QED BY <2>1, <2>2
<1>9. wire' \in [Hosts -> Seq(Segments)] /\ Addressed' /\ park' \in [Threads -> Phases]
  <2>1. segs \in Seq(Segments) /\ AllTo(segs, r.peer)
    <3> DEFINE f == Seg(s, r, {"FIN", "ACK"}, <<>>)
    <3>1. <<>> \in Seq(Bytes) /\ {"FIN", "ACK"} \in SUBSET {"SYN", "ACK", "FIN", "RST"}
      OBVIOUS
    <3>2. f \in Segments /\ f.dst = r.peer
      BY <1>3, <3>1, SegType
    <3> HIDE DEF f
    <3> QED BY <3>2, OneSegment DEF f
  <2>5. wire' = Onto(wire, segs) \/ wire' = wire
    BY <1>1
  <2> HIDE DEF segs, open, r
  <2>4. park' \in [Threads -> Phases]
    BY <1>1, <1>2, UnblockType DEF Typed
  <2>2. CASE wire' = Onto(wire, segs)
    BY <2>1, <2>2, <2>4, WireAfter
  <2>3. CASE wire' = wire
    <3>1. wire' = wire
      BY <2>3
    <3>2. wire \in [Hosts -> Seq(Segments)] /\ Addressed
      BY <1>2 DEF RInv, Typed
    <3> HIDE DEF Segments
    <3> QED BY <2>4, <3>1, <3>2 DEF Addressed, Routed
  <2> QED BY <2>2, <2>3, <2>5
<1>10. /\ n \in Seq(Entries) /\ Once(n) /\ Named(n) = InJob(x) \cup Range(o)
       /\ \A i \in DOMAIN n : n[i] = <<"unlink", Lst>> =>
            s = Lst \/ \E k \in DOMAIN job[x] : job[x][k] = <<"unlink", Lst>>
  <2> DEFINE j == job[x]
  <2>1. /\ j \in Seq(Entries) /\ j # <<>> /\ Once(j) /\ s = Head(j)[2]
        /\ Range(o) \cap Named(j) = {} /\ o \in Seq(Kids) /\ IsInjective(o)
    BY <1>0, <1>1, <1>3, <1>4
  <2> HIDE DEF j, o
  <2>2. /\ JobAfter(j, o, s) \in Seq(Entries) /\ Once(JobAfter(j, o, s))
        /\ Named(JobAfter(j, o, s)) = Named(j) \cup Range(o)
        /\ \A i \in DOMAIN JobAfter(j, o, s) : JobAfter(j, o, s)[i] = <<"unlink", Lst>> =>
             s = Lst \/ \E k \in DOMAIN j : j[k] = <<"unlink", Lst>>
    BY <2>1, JobAfterFacts
  <2> QED BY <1>3, <2>2 DEF j
<1> HIDE DEF n
<1>11. /\ job' \in [Doers -> Seq(Entries)] /\ job'[x] = n
       /\ \A y \in Doers \ {x} : job'[y] = job[y]
  BY <1>1, <1>2, <1>10 DEF Typed
<1>12. /\ InJob(x)' = InJob(x) \cup Range(o)
       /\ \A y \in Doers \ {x} : InJob(y)' = InJob(y)
  <2>1. InJob(x)' = Named(n)
    BY <1>11 DEF InJob, Named
  <2>2. \A y \in Doers \ {x} : InJob(y)' = InJob(y)
    BY <1>11 DEF InJob
  <2> QED BY <1>10, <2>1, <2>2
<1>13. /\ sk' \in [Socks -> Sockets] /\ sk'[s] = q
       /\ \A u \in Socks \ {s} : sk'[u] = sk[u] /\ Within(sk[u]) /\ SockOK(u, sk[u])
  BY <1>1, <1>3, <1>7 DEF RInv, Typed, SocksOK
<1>14. Typed'
  <2>1. \A u \in Socks : Within(sk'[u])
    BY <1>8, <1>13
  <2> QED BY <1>1, <1>2, <1>9, <1>11, <1>13, <2>1 DEF Typed, Within
<1>15. \A u : Users(u)' = Users(u)
  BY <1>1, UsersSame
<1>16. Counted'
  <2>1. \A u \in Socks : sk'[u].refs = sk[u].refs /\ sk'[u].linked = sk[u].linked
    BY <1>7, <1>13
  <2> QED BY <1>15, <2>1 DEF RInv, Counted
<1>17. \A u \in Socks : HalfOpen(sk[u]) => HalfOpen(sk'[u])
  <2>1. HalfOpen(r) => HalfOpen(q)
    BY <1>7 DEF HalfOpen
  <2> QED BY <1>13, <2>1
<1>18. RxOK' /\ TimerOK' /\ CallsOK' /\ FreshOK' /\ SpliceOK' /\ SocksOK'
  <2>1. RxOK'
    <3>1. x = Lst => rx[Lst].at = "closed"
      BY <1>1, Names DEF RInv, RxOK
    <3>2. job'[Lst] = job[Lst] \/ x = Lst
      BY <1>11 DEF Doers
    <3> QED BY <1>1, <3>1, <3>2 DEF RInv, RxOK
  <2>2. CallsOK'
    <3>1. \A t \in Threads : job'[t] # <<>> => pc[t].at = "user"
      BY <1>1, <1>11 DEF RInv, CallsOK, Doers
    <3> QED BY <1>1, <3>1 DEF RInv, CallsOK
  <2>3. FreshOK'
    <3>1. rx[Lst].kid # None => rx[Lst].kid \in Socks
      BY <1>2, Names DEF Typed
    <3> QED BY <1>1, <1>3, <1>13, <3>1 DEF RInv, FreshOK
  <2>4. SpliceOK'
    <3> SUFFICES ASSUME timer[Lst].at = "splice" PROVE HalfOpen(sk'[timer[Lst].sock])
      BY <1>1 DEF SpliceOK, HalfOpen
    <3>1. timer[Lst].sock \in Socks /\ HalfOpen(sk[timer[Lst].sock])
      BY Names DEF RInv, TimerOK, SpliceOK
    <3> QED BY <1>17, <3>1
  <2>5. SocksOK'
    <3>1. ASSUME NEW u \in Socks PROVE SockOK(u, sk'[u])
      BY <1>8, <1>13
    <3> QED BY <3>1 DEF SocksOK, SockOK
  <2> QED BY <1>1, <2>1, <2>2, <2>3, <2>4, <2>5 DEF RInv, TimerOK
<1>19. /\ IsInjective(sk'[Lst].backlog)
       /\ Range(sk'[Lst].backlog) = Range(sk[Lst].backlog) \ Range(o)
  <2>1. CASE s = Lst
    <3>1. sk'[Lst].backlog = <<>>
      BY <1>7, <1>13, <2>1
    <3>2. Range(sk'[Lst].backlog) = {} /\ IsInjective(sk'[Lst].backlog)
      BY <3>1 DEF Range, IsInjective
    <3> QED BY <2>1, <3>2
  <2>2. CASE s # Lst
    <3>1. Range(o) = {} /\ sk'[Lst] = sk[Lst]
      BY <1>4, <1>13, <2>2, Names
    <3>2. IsInjective(sk[Lst].backlog)
      BY DEF RInv, Apart
    <3> QED BY <3>1, <3>2
  <2> QED BY <2>1, <2>2
<1> DEFINE R == Range(o)
           B == Range(sk[Lst].backlog)
<1>20. R \subseteq B /\ Range(sk'[Lst].backlog) = B \ R /\ InJob(x)' = InJob(x) \cup R
  BY <1>4, <1>12, <1>19
<1> HIDE DEF o, R, B
<1>21. Apart'
  <2>1. Apart
    BY DEF RInv
  <2>2. OnceInJobs'
    <3>1. ASSUME NEW y \in Doers PROVE Once(job'[y])
      <4>1. CASE y = x
        BY <1>10, <1>11, <4>1
      <4>2. CASE y # x
        BY <1>11, <2>1, <4>2 DEF Apart, OnceInJobs, Once
      <4> QED BY <4>1, <4>2
    <3>2. ASSUME NEW y \in Doers, NEW z \in Doers, y # z PROVE InJob(y)' \cap InJob(z)' = {}
      <4>1. InJob(y) \cap InJob(z) = {} /\ InJob(y) \cap R = {} /\ InJob(z) \cap R = {}
        BY <1>20, <2>1, <3>2 DEF Apart, OnceInJobs, B
      <4>2. InJob(y)' \subseteq InJob(y) \cup R /\ InJob(z)' \subseteq InJob(z) \cup R
            /\ (y # x => InJob(y)' = InJob(y)) /\ (z # x => InJob(z)' = InJob(z))
        BY <1>12, <1>20
      <4> QED BY <3>2, <4>1, <4>2
    <3>3. \A y, z \in Doers : y # z => InJob(y)' \cap InJob(z)' = {}
      BY <3>2
    <3> QED BY <3>1, <3>3 DEF OnceInJobs, Once
  <2>3. rx'[Lst].kid \notin Range(sk'[Lst].backlog)
    BY <1>1, <1>20, <2>1 DEF Apart, B
  <2>4. \A t \in Threads : /\ pc'[t].sock \notin Range(sk'[Lst].backlog)
                           /\ pc'[t].sock # None => pc'[t].sock # rx'[Lst].kid
    BY <1>1, <1>20, <2>1 DEF Apart, B
  <2>5. ASSUME NEW y \in Doers
        PROVE  /\ InJob(y)' \cap Range(sk'[Lst].backlog) = {}
               /\ rx'[Lst].kid \notin InJob(y)'
               /\ \A t \in Threads : pc'[t].sock \notin InJob(y)'
    <3>1. InJob(y)' \subseteq InJob(y) \cup R
      BY <1>12, <1>20
    <3>2. /\ InJob(y) \cap B = {} /\ rx[Lst].kid \notin InJob(y) /\ rx[Lst].kid \notin B
          /\ \A t \in Threads : pc[t].sock \notin InJob(y) /\ pc[t].sock \notin B
      BY <2>1 DEF Apart, B
    <3> QED BY <1>1, <1>20, <3>1, <3>2
  <2>6. OnceAtThreads'
    BY <1>1, <2>1 DEF Apart, OnceAtThreads
  <2> QED BY <1>19, <2>2, <2>3, <2>4, <2>5, <2>6 DEF Apart
<1>22. OwnedOK'
  <2>1. \A u \in Socks : Owned(u)' <=> Owned(u)
    <3>1. \A u \in Socks : (\E y \in Doers : u \in InJob(y)') <=>
                           (\E y \in Doers : u \in InJob(y)) \/ u \in R
      BY <1>12, <1>20
    <3> QED BY <1>1, <1>20, <3>1 DEF Owned, B
  <2>2. \A u \in Socks : sk'[u].linked = sk[u].linked
    BY <1>7, <1>13
  <2>3. ASSUME NEW y \in Doers, NEW i \in DOMAIN job'[y], job'[y][i] = <<"unlink", Lst>>
        PROVE  sk'[Lst].st # "LISTEN"
    <3>1. CASE s = Lst
      BY <1>7, <1>13, <3>1
    <3>2. CASE s # Lst
      <4>1. \E k \in DOMAIN job[y] : job[y][k] = <<"unlink", Lst>>
        BY <1>10, <1>11, <2>3, <3>2
      <4>2. sk[Lst].st # "LISTEN"
        BY <4>1 DEF RInv, OwnedOK
      <4> QED BY <1>13, <3>2, <4>2, Names
    <3> QED BY <3>1, <3>2
  <2> QED BY <1>17, <2>1, <2>2, <2>3 DEF RInv, OwnedOK, HalfOpen
<1>23. DeadChildSpliced'
  <2> SUFFICES ASSUME NEW c \in Range(sk'[Lst].backlog), HalfOpen(sk'[c])
               PROVE  timer[Lst].at = "splice" /\ timer[Lst].sock = c
    BY <1>1 DEF DeadChildSpliced, HalfOpen
  <2>1. c \in Range(sk[Lst].backlog) /\ c # s /\ c \in Socks
    BY <1>3, <1>19, ListenerHas, Names
  <2>2. HalfOpen(sk[c])
    BY <1>13, <2>1
  <2> QED BY <2>1, <2>2 DEF RInv, DeadChildSpliced, HalfOpen
<1> QED BY <1>9, <1>14, <1>16, <1>18, <1>21, <1>22, <1>23 DEF RInv

LEMMA UnlinkInv ==
  ASSUME RInv, NEW x \in Doers, CloseUnlink(x)
  PROVE  RInv'
<1>0. PICK s : s = Head(job[x])[2]
  OBVIOUS
<1> DEFINE r == sk[s]
           off == [r EXCEPT !.linked = FALSE]
           q == Put(off)
           j == job[x]
<1>1. /\ job[x] # <<>> /\ Head(job[x])[1] = "unlink"
      /\ sk' = [sk EXCEPT ![s] = q]
      /\ job' = [job EXCEPT ![x] = Tail(j)]
      /\ UNCHANGED <<wire, rx, timer, pc, sig, isn, used, sent, got, load, park>>
  BY <1>0 DEF CloseUnlink, Doing
<1>2. Typed
  BY DEF RInv
<1>3. /\ s \in Socks /\ s \in InJob(x) /\ r.refs = 1 + Users(s)
      /\ r.st \notin {"none", "freed"}
      /\ r \in Sockets /\ Within(r) /\ SockOK(s, r)
      /\ InJob(x) = Named(j) /\ Once(j) /\ j \in Seq(Entries)
      /\ s # rx[Lst].kid /\ s \notin Range(sk[Lst].backlog)
      /\ Head(j) = <<"unlink", Lst>> => sk[Lst].st # "LISTEN"
  BY <1>0, <1>1, JobHas
<1>4. s = Lst => r.st # "LISTEN"
  <2>1. Head(j) \in Entries
    BY <1>1, <1>3, TailNamed
  <2> QED BY <1>0, <1>1, <1>3, <2>1 DEF Entries
<1>5. /\ off \in Sockets /\ off.linked = FALSE /\ off.refs = r.refs /\ off.st = r.st
      /\ off.una = r.una /\ off.iss = r.iss /\ off.backlog = r.backlog
      /\ off.cnt = r.cnt /\ off.rx = r.rx /\ off.rtx = r.rtx
  <2> HIDE DEF r
  <2> QED BY <1>3 DEF Sockets
<1> HIDE DEF off
<1>6. SockOK(s, off) /\ Within(off)
  BY <1>3, <1>4, <1>5 DEF SockOK, Within
<1>7. /\ q \in Sockets /\ Within(q) /\ SockOK(s, q) /\ q.linked = FALSE
      /\ q.backlog = r.backlog /\ q.refs = Users(s)
      /\ \/ q = Gone /\ Users(s) = 0
         \/ q.st = r.st /\ q.una = r.una /\ q.iss = r.iss
  <2>1. PICK n \in Nat : n = Users(s) + 1
    BY UsersNat
  <2>2. n # 0 /\ Users(s) \in Nat /\ n - 1 = Users(s)
    BY <2>1, UsersNat
  <2>3. off.refs = (IF off.linked THEN 1 ELSE 0) + n /\ load \in Loads
    <3>1. off.refs = n /\ 0 + n = n
      BY <1>3, <1>5, <2>1, UsersNat
    <3> QED BY <1>2, <1>5, <3>1 DEF Typed
  <2> HIDE DEF q, r
  <2>4. /\ q \in Sockets /\ Within(q) /\ SockOK(s, q)
        /\ q.linked = off.linked /\ q.backlog = off.backlog
        /\ q.refs = (IF off.linked THEN 1 ELSE 0) + (n - 1)
        /\ \/ q = Gone /\ ~off.linked /\ n = 1
           \/ q = [off EXCEPT !.refs = off.refs - 1]
    BY <1>3, <1>5, <1>6, <2>2, <2>3, DropOne DEF q
  <2>5. q.refs = Users(s)
    BY <1>5, <2>2, <2>4
  <2>6. \/ q = Gone /\ Users(s) = 0
        \/ q.st = r.st /\ q.una = r.una /\ q.iss = r.iss
    <3>1. CASE q = Gone /\ n = 1
      BY <2>2, <3>1
    <3>2. CASE q = [off EXCEPT !.refs = off.refs - 1]
      BY <1>5, <3>2 DEF Sockets
    <3> QED BY <2>4, <3>1, <3>2
  <2> QED BY <1>5, <2>4, <2>5, <2>6
<1> HIDE DEF q
<1>8. /\ Tail(j) \in Seq(Entries) /\ Once(Tail(j)) /\ Named(j) = Named(Tail(j)) \cup {s}
      /\ s \notin Named(Tail(j))
      /\ \A i \in DOMAIN Tail(j) : \E k \in DOMAIN j : Tail(j)[i] = j[k]
  BY <1>0, <1>1, <1>3, TailNamed
<1>9. /\ job' \in [Doers -> Seq(Entries)] /\ job'[x] = Tail(j)
      /\ \A y \in Doers \ {x} : job'[y] = job[y]
  BY <1>1, <1>2, <1>8 DEF Typed
<1>10. /\ InJob(x)' = InJob(x) \ {s}
       /\ \A y \in Doers \ {x} : InJob(y)' = InJob(y)
  <2>1. InJob(x)' = Named(Tail(j))
    BY <1>9 DEF InJob, Named
  <2>2. Named(Tail(j)) = InJob(x) \ {s}
    BY <1>3, <1>8
  <2>3. \A y \in Doers \ {x} : InJob(y)' = InJob(y)
    BY <1>9 DEF InJob
  <2> QED BY <2>1, <2>2, <2>3
<1>11. /\ sk' \in [Socks -> Sockets] /\ sk'[s] = q
       /\ \A u \in Socks \ {s} : sk'[u] = sk[u] /\ Within(sk[u]) /\ SockOK(u, sk[u])
  BY <1>1, <1>3, <1>7 DEF RInv, Typed, SocksOK
<1>12. Typed'
  <2>1. \A u \in Socks : Within(sk'[u])
    BY <1>7, <1>11
  <2> QED BY <1>1, <1>2, <1>9, <1>11, <2>1 DEF Typed, Within
<1>13. \A u : Users(u)' = Users(u)
  BY <1>1, UsersSame
<1>14. Counted'
  <2>1. ASSUME NEW u \in Socks
        PROVE  sk'[u].refs = (IF sk'[u].linked THEN 1 ELSE 0) + Users(u)'
    <3>1. CASE u = s
      <4>1. sk'[s].refs = 0 + Users(s)
        BY <1>7, <1>11, UsersNat
      <4> QED BY <1>7, <1>11, <1>13, <3>1, <4>1
    <3>2. CASE u # s
      BY <1>11, <1>13, <3>2 DEF RInv, Counted
    <3> QED BY <3>1, <3>2
  <2> QED BY <2>1 DEF Counted
<1>15. RxOK' /\ TimerOK' /\ CallsOK' /\ FreshOK' /\ SpliceOK' /\ SocksOK' /\ Addressed'
  <2>1. RxOK'
    <3>1. x = Lst => rx[Lst].at = "closed"
      BY <1>1, Names DEF RInv, RxOK
    <3>2. job'[Lst] = job[Lst] \/ x = Lst
      BY <1>9 DEF Doers
    <3> QED BY <1>1, <3>1, <3>2 DEF RInv, RxOK
  <2>2. CallsOK'
    <3>1. \A t \in Threads : job'[t] # <<>> => pc[t].at = "user"
      BY <1>1, <1>9 DEF RInv, CallsOK, Doers
    <3> QED BY <1>1, <3>1 DEF RInv, CallsOK
  <2>3. FreshOK'
    <3>1. rx[Lst].kid # None => rx[Lst].kid \in Socks
      BY <1>2, Names DEF Typed
    <3> QED BY <1>1, <1>3, <1>11, <3>1 DEF RInv, FreshOK
  <2>4. SpliceOK'
    <3> SUFFICES ASSUME timer[Lst].at = "splice" PROVE HalfOpen(sk'[timer[Lst].sock])
      BY <1>1 DEF SpliceOK, HalfOpen
    <3>1. timer[Lst].sock \in Socks /\ HalfOpen(sk[timer[Lst].sock])
      BY Names DEF RInv, TimerOK, SpliceOK
    <3>2. timer[Lst].sock = s => Users(s) # 0
      BY UsersNat, Names
    <3> QED BY <1>7, <1>11, <3>1, <3>2 DEF HalfOpen
  <2>5. SocksOK'
    <3>1. ASSUME NEW u \in Socks PROVE SockOK(u, sk'[u])
      BY <1>7, <1>11
    <3> QED BY <3>1 DEF SocksOK, SockOK
  <2> QED BY <1>1, <2>1, <2>2, <2>3, <2>4, <2>5 DEF RInv, TimerOK, Addressed, Routed
<1>16. sk'[Lst].backlog = sk[Lst].backlog
  BY <1>7, <1>11, Names
<1>17. Apart'
  <2>1. Apart
    BY DEF RInv
  <2>2. OnceInJobs'
    <3>1. ASSUME NEW y \in Doers PROVE Once(job'[y])
      <4>1. CASE y = x
        BY <1>8, <1>9, <4>1
      <4>2. CASE y # x
        BY <1>9, <2>1, <4>2 DEF Apart, OnceInJobs, Once
      <4> QED BY <4>1, <4>2
    <3>2. \A y, z \in Doers : y # z => InJob(y)' \cap InJob(z)' = {}
      BY <1>10, <2>1 DEF Apart, OnceInJobs
    <3> QED BY <3>1, <3>2 DEF OnceInJobs, Once
  <2>3. \A y \in Doers : InJob(y)' \subseteq InJob(y)
    BY <1>10
  <2>4. OnceAtThreads'
    BY <1>1, <2>1 DEF Apart, OnceAtThreads
  <2>5. \A y \in Doers : /\ InJob(y)' \cap Range(sk'[Lst].backlog) = {}
                         /\ rx'[Lst].kid \notin InJob(y)'
                         /\ \A t \in Threads : pc'[t].sock \notin InJob(y)'
    BY <1>1, <1>16, <2>1, <2>3 DEF Apart
  <2> QED BY <1>1, <1>16, <2>1, <2>2, <2>4, <2>5 DEF Apart
<1>18. OwnedOK'
  <2>0. Apart
    BY DEF RInv
  <2>1. ~Owned(s)'
    <3>1. \A y \in Doers : s \notin InJob(y)'
      BY <1>3, <1>10, <2>0 DEF Apart, OnceInJobs
    <3>2. \A t \in Threads : pc[t].sock # s
      BY <1>3, <2>0 DEF Apart
    <3> QED BY <1>1, <1>3, <1>16, <3>1, <3>2 DEF Owned
  <2>2. \A u \in Socks \ {s} : Owned(u)' <=> Owned(u)
    <3>1. \A u \in Socks \ {s} : \A y \in Doers : u \in InJob(y)' <=> u \in InJob(y)
      BY <1>10
    <3> QED BY <1>1, <1>16, <3>1 DEF Owned
  <2>3. ASSUME NEW u \in Socks, Owned(u)' PROVE sk'[u].linked
    BY <1>11, <2>1, <2>2, <2>3 DEF RInv, OwnedOK
  <2>4. ASSUME NEW u \in Socks \ {Lst}, sk'[u].linked
        PROVE  Owned(u)' \/ (u \in Kids /\ HalfOpen(sk'[u]))
    <3>1. u # s
      BY <1>7, <1>11, <2>4
    <3> QED BY <1>11, <2>2, <2>4, <3>1 DEF RInv, OwnedOK
  <2>5. ASSUME NEW y \in Doers, NEW i \in DOMAIN job'[y], job'[y][i] = <<"unlink", Lst>>
        PROVE  sk'[Lst].st # "LISTEN"
    <3>1. \E k \in DOMAIN job[y] : job[y][k] = <<"unlink", Lst>>
      BY <1>8, <1>9, <2>5, ZenonT(40)
    <3>2. sk[Lst].st # "LISTEN"
      BY <3>1 DEF RInv, OwnedOK
    <3>3. s = Lst => q.st # "LISTEN"
      BY <1>4, <1>7, GoneFields
    <3> QED BY <1>11, <3>2, <3>3, Names
  <2> QED BY <2>3, <2>4, <2>5 DEF OwnedOK, HalfOpen
<1>19. DeadChildSpliced'
  <2> SUFFICES ASSUME NEW c \in Range(sk[Lst].backlog), HalfOpen(sk'[c])
               PROVE  timer[Lst].at = "splice" /\ timer[Lst].sock = c
    BY <1>1, <1>16 DEF DeadChildSpliced, HalfOpen
  <2>1. c # s /\ c \in Socks
    BY <1>3, ListenerHas, Names
  <2>2. HalfOpen(sk[c])
    BY <1>11, <2>1
  <2> QED BY <2>2 DEF RInv, DeadChildSpliced, HalfOpen
<1> QED BY <1>12, <1>14, <1>15, <1>17, <1>18, <1>19 DEF RInv

----------------------------------------------------------------------------
(* The calls of the threads *)

(* What a thread with a socket knows of it. *)
LEMMA ThreadHas ==
  ASSUME RInv, NEW t \in Threads, pc[t].sock # None
  PROVE  LET s == pc[t].sock IN
         /\ s \in Socks /\ s # Lst /\ s # rx[Lst].kid /\ sk[s].linked
         /\ sk[s].refs = 1 + Users(s) /\ sk[s].refs # 0 /\ sk[s].st \notin {"none", "freed"}
         /\ sk[s] \in Sockets /\ Within(sk[s]) /\ SockOK(s, sk[s])
         /\ s = (IF t \in Clients THEN t ELSE s) /\ (t \notin Clients => s \in Kids)
<1>1. pc[t].sock \in Socks /\ pc[t].sock # Lst
      /\ (t \in Clients => pc[t].sock = t) /\ (t \notin Clients => pc[t].sock \in Kids)
  BY Names DEF RInv, CallsOK
<1>2. Owned(pc[t].sock)
  BY DEF Owned
<1>3. sk[pc[t].sock].linked
  BY <1>1, <1>2 DEF RInv, OwnedOK
<1>4. pc[t].sock # rx[Lst].kid
  BY DEF RInv, Apart
<1>5. sk[pc[t].sock].refs = 1 + Users(pc[t].sock)
  BY <1>1, <1>3 DEF RInv, Counted
<1> QED BY <1>1, <1>3, <1>4, <1>5, InUse DEF RInv

(* A call goes on, enters a socket or leaves it. *)
LEMMA CallInv ==
  ASSUME RInv, NEW t \in Threads, NEW a \in CallPlaces, pc' = [pc EXCEPT ![t].at = a],
         job[t] = <<>>,
         a \in Accepting => t \in Servers /\ pc[t].sock = None,
         a \in Reading => pc[t].sock # None,
         a \in {"connblock", "connect"} => pc[t].sock = t,
         NEW s \in Socks, NEW q \in Sockets, Within(q), SockOK(s, q),
         q.refs = (IF q.linked THEN 1 ELSE 0) + Users(s)',
         \A u \in Socks \ {s} : Users(u)' = Users(u),
         q.linked = sk[s].linked, q.backlog = sk[s].backlog,
         s \in Kids /\ HalfOpen(sk[s]) /\ (sk[s].linked \/ timer[Lst].sock = s) => HalfOpen(q),
         s \in Kids /\ HalfOpen(q) => HalfOpen(sk[s]),
         s # rx[Lst].kid, s = Lst /\ q.st = "LISTEN" => sk[Lst].st = "LISTEN",
         sk' = [sk EXCEPT ![s] = q],
         wire' \in [Hosts -> Seq(Segments)], Addressed',
         sig' \in [Threads -> BOOLEAN], isn' \in [Hosts -> Seqs],
         used' \in [lose : Nat, dup : Nat, signals : Nat], sent' \in [Socks -> Nat],
         got' \in [Socks -> Seq(Bytes)], park' \in [Threads -> Phases],
         UNCHANGED <<rx, timer, job, load>>
  PROVE  RInv'
<1>1. Typed
  BY DEF RInv
<1>2. /\ sk' \in [Socks -> Sockets] /\ sk'[s] = q
      /\ \A u \in Socks \ {s} : sk'[u] = sk[u] /\ Within(sk[u]) /\ SockOK(u, sk[u])
  BY <1>1 DEF RInv, Typed, SocksOK
<1>3. /\ pc' \in [Threads -> [at : CallPlaces, sock : Socks \cup {None}]]
      /\ pc'[t].at = a /\ pc'[t].sock = pc[t].sock
      /\ \A u \in Threads \ {t} : pc'[u] = pc[u]
  BY <1>1, SMTT(30) DEF Typed
<1>4. Typed'
  <2>1. \A u \in Socks : Within(sk'[u])
    BY <1>2
  <2> QED BY <1>1, <1>2, <1>3, <2>1 DEF Typed, Within
<1>5. Counted'
  <2>1. ASSUME NEW u \in Socks
        PROVE  sk'[u].refs = (IF sk'[u].linked THEN 1 ELSE 0) + Users(u)'
    BY <1>2 DEF RInv, Counted
  <2> QED BY <2>1 DEF Counted
<1>6. RxOK' /\ TimerOK' /\ CallsOK'
  <2>1. CallsOK'
    BY <1>3 DEF RInv, CallsOK
  <2> QED BY <2>1 DEF RInv, RxOK, TimerOK
<1>7. SocksOK' /\ FreshOK' /\ SpliceOK' /\ Apart' /\ OwnedOK' /\ DeadChildSpliced'
  <2>1. \A u \in Socks \ {s} : Alike(sk'[u], sk[u]) /\ SockOK(u, sk'[u])
    BY <1>2 DEF Alike
  <2>2. \A u \in Threads : pc'[u].sock = pc[u].sock
    BY <1>3
  <2>3. rx[Lst].kid # None => timer'[Lst].sock # rx[Lst].kid
    BY DEF RInv, FreshOK
  <2> QED BY <1>2, <2>1, <2>2, <2>3, QuietStep
<1> QED BY <1>4, <1>5, <1>6, <1>7 DEF RInv

(* The same, when it stays inside the socket or outside. *)
LEMMA CallOn ==
  ASSUME RInv, NEW t \in Threads, NEW a \in CallPlaces, pc' = [pc EXCEPT ![t].at = a],
         job[t] = <<>>,
         a \in Accepting <=> pc[t].at \in Accepting,
         a \in Reading <=> pc[t].at \in Reading,
         a \in {"connblock", "connect"} => pc[t].sock = t,
         NEW s \in Socks, NEW q \in Sockets, Within(q), SockOK(s, q),
         q.refs = sk[s].refs, q.linked = sk[s].linked, q.backlog = sk[s].backlog,
         s \in Kids => (HalfOpen(q) <=> HalfOpen(sk[s])),
         s # rx[Lst].kid, s = Lst /\ q.st = "LISTEN" => sk[Lst].st = "LISTEN",
         sk' = [sk EXCEPT ![s] = q],
         wire' \in [Hosts -> Seq(Segments)], Addressed',
         sig' \in [Threads -> BOOLEAN], isn' \in [Hosts -> Seqs],
         used' \in [lose : Nat, dup : Nat, signals : Nat], sent' \in [Socks -> Nat],
         got' \in [Socks -> Seq(Bytes)], park' \in [Threads -> Phases],
         UNCHANGED <<rx, timer, job, load>>
  PROVE  RInv'
<1>1. /\ pc'[t].at = a /\ pc'[t].sock = pc[t].sock
      /\ \A u \in Threads \ {t} : pc'[u] = pc[u]
  BY DEF RInv, Typed
<1>2. \A u : Users(u)' = Users(u)
  BY <1>1, UsersSame
<1>3. q.refs = (IF q.linked THEN 1 ELSE 0) + Users(s)'
  BY <1>2 DEF RInv, Counted
<1>4. /\ a \in Accepting => t \in Servers /\ pc[t].sock = None
      /\ a \in Reading => pc[t].sock # None
  BY DEF RInv, CallsOK
<1> QED BY <1>2, <1>3, <1>4, CallInv

LEMMA Unchanged ==
  ASSUME RInv
  PROVE  /\ wire' = wire => wire' \in [Hosts -> Seq(Segments)] /\ Addressed'
         /\ sig' = sig => sig' \in [Threads -> BOOLEAN]
         /\ isn' = isn => isn' \in [Hosts -> Seqs]
         /\ used' = used => used' \in [lose : Nat, dup : Nat, signals : Nat]
         /\ sent' = sent => sent' \in [Socks -> Nat]
         /\ got' = got => got' \in [Socks -> Seq(Bytes)]
         /\ park' = park => park' \in [Threads -> Phases]
<1>1. /\ wire \in [Hosts -> Seq(Segments)] /\ Addressed
      /\ sig \in [Threads -> BOOLEAN] /\ isn \in [Hosts -> Seqs]
      /\ used \in [lose : Nat, dup : Nat, signals : Nat] /\ sent \in [Socks -> Nat]
      /\ got \in [Socks -> Seq(Bytes)] /\ park \in [Threads -> Phases]
  BY DEF RInv, Typed
<1>2. wire' = wire => Addressed'
  BY <1>1 DEF Addressed, Routed
<1> HIDE DEF Segments
<1> QED BY <1>1, <1>2

LEMMA SleepInv ==
  ASSUME RInv, NEW t \in Threads, Blocks(t)
  PROVE  RInv'
<1>1. PICK at \in {"connblock", "acceptblock", "recvblock"},
           next \in {"connect", "acceptwoken", "recvwoken"} :
        /\ Sleep(t, at, next)
        /\ at = "connblock" => next = "connect"
        /\ at = "acceptblock" => next = "acceptwoken"
        /\ at = "recvblock" => next = "recvwoken"
  BY DEF Blocks
<1>2. /\ pc[t].at = at /\ job[t] = <<>> /\ pc' = [pc EXCEPT ![t].at = next]
      /\ UNCHANGED <<sk, wire, rx, timer, job, sig, isn, used, sent, got, load>>
  BY <1>1 DEF Sleep, At, Goto
<1>3. park' \in [Threads -> Phases]
  <2>1. park \in [Threads -> Phases]
    BY DEF RInv, Typed
  <2> QED BY <1>1, <2>1 DEF Sleep, Block, Phases
<1>4. next \in CallPlaces
  BY DEF CallPlaces, Accepting, Reading
<1>5. /\ next \in Accepting <=> pc[t].at \in Accepting
      /\ next \in Reading <=> pc[t].at \in Reading
  BY <1>1, <1>2 DEF Accepting, Reading
<1>6. next \in {"connblock", "connect"} => pc[t].sock = t
  BY <1>1, <1>2 DEF RInv, CallsOK
<1> DEFINE l == sk[Lst]
<1>7. l \in Sockets /\ Within(l) /\ SockOK(Lst, l) /\ sk' = [sk EXCEPT ![Lst] = l]
  BY <1>2, Names DEF RInv, Typed, SocksOK
<1>8. Lst # rx[Lst].kid
  BY Names DEF RInv, Typed
<1> QED BY <1>2, <1>3, <1>4, <1>5, <1>6, <1>7, <1>8, CallOn, Unchanged, Names

LEMMA SignalInv ==
  ASSUME RInv, NEW t \in Threads, Signal(t)
  PROVE  RInv'
<1> DEFINE a == pc[t].at
           l == sk[Lst]
<1>1. /\ a # "user" /\ UNCHANGED <<sk, wire, rx, timer, pc, job, isn, sent, got, load>>
      /\ sig' = [sig EXCEPT ![t] = TRUE] /\ Poke(t)
      /\ used' = [used EXCEPT !.signals = @ + 1]
  BY DEF Signal
<1>2. /\ a \in CallPlaces /\ pc' = [pc EXCEPT ![t].at = a] /\ job[t] = <<>>
      /\ a \in {"connblock", "connect"} => pc[t].sock = t
  BY <1>1 DEF RInv, Typed, CallsOK
<1>3. park' \in [Threads -> Phases] /\ sig' \in [Threads -> BOOLEAN]
  <2>1. park \in [Threads -> Phases] /\ sig \in [Threads -> BOOLEAN]
    BY DEF RInv, Typed
  <2> QED BY <1>1, <2>1 DEF Poke, Phases
<1>4. used' \in [lose : Nat, dup : Nat, signals : Nat]
  <2>1. used \in [lose : Nat, dup : Nat, signals : Nat]
    BY DEF RInv, Typed
  <2> QED BY <1>1, <2>1
<1>5. l \in Sockets /\ Within(l) /\ SockOK(Lst, l) /\ sk' = [sk EXCEPT ![Lst] = l]
  BY <1>1, Names DEF RInv, Typed, SocksOK
<1>6. Lst # rx[Lst].kid
  BY Names DEF RInv, Typed
<1> QED BY <1>1, <1>2, <1>3, <1>4, <1>5, <1>6, CallOn, Unchanged, Names

LEMMA ConnectInv ==
  ASSUME RInv, NEW t \in Clients, NEW nonblock \in BOOLEAN, Connect(t, nonblock)
  PROVE  RInv'
<1> DEFINE r == sk[t]
           i == isn[t]
           new == [r EXCEPT !.iss = i, !.una = i, !.nxt = i, !.st = "SYN_SENT"]
           sends == Sent(new, {"SYN"}, <<>>)
           c == IF nonblock THEN sends.conn ELSE t
           q == [sends EXCEPT !.rtx = TRUE, !.cnt = 0, !.conn = c]
           segs == <<Seg(t, new, {"SYN"}, <<>>)>>
           a == IF nonblock THEN "user" ELSE "connblock"
<1>1. /\ pc[t].at = "user" /\ job[t] = <<>> /\ pc[t].sock # None
      /\ isn' = [isn EXCEPT ![t] = Plus(i, IsnStep)]
      /\ sk' = [sk EXCEPT ![t] = q]
      /\ wire' = Onto(wire, segs)
      /\ pc' = [pc EXCEPT ![t].at = a]
      /\ UNCHANGED <<rx, timer, job, sig, used, sent, got, load, park>>
  BY DEF Connect, Owner, At, Goto
<1>2. t \in Threads /\ t \in Socks /\ t \in Hosts /\ t # Lst /\ t \notin Kids
  BY Names
<1>3. pc[t].sock = t /\ r \in Sockets /\ Within(r) /\ SockOK(t, r) /\ t # rx[Lst].kid
  BY <1>1, <1>2, ThreadHas
<1>4. i \in Seqs
  BY <1>2 DEF RInv, Typed
<1>5. /\ new \in Sockets /\ new.st = "SYN_SENT" /\ new.refs = r.refs /\ new.linked = r.linked
      /\ new.backlog = r.backlog /\ new.rx = r.rx
  <2> HIDE DEF r, i
  <2> QED BY <1>3, <1>4 DEF Sockets, States
<1> HIDE DEF new
<1>6. /\ sends \in Sockets /\ sends.st = "SYN_SENT" /\ sends.refs = r.refs
      /\ sends.linked = r.linked /\ sends.backlog = r.backlog /\ sends.rx = r.rx
  <2> DEFINE flags == {"SYN"}
             data == <<>>
  <2>1. /\ data \in Seq(Bytes) /\ flags \in SUBSET {"SYN", "ACK", "FIN", "RST"}
        /\ sends = Sent(new, flags, data)
    OBVIOUS
  <2> HIDE DEF flags, data, sends, r
  <2> QED BY <1>5, <2>1, SentType
<1> HIDE DEF sends
<1>7. /\ q \in Sockets /\ q.st = "SYN_SENT" /\ q.refs = r.refs /\ q.linked = r.linked
      /\ q.backlog = r.backlog /\ q.rx = r.rx /\ q.cnt = 0
  <2>1. c \in Threads \cup {None}
    BY <1>2, <1>6, SocketFields
  <2> HIDE DEF c, r
  <2> QED BY <1>6, <2>1 DEF Sockets
<1> HIDE DEF q
<1>8. SockOK(t, q) /\ Within(q)
  <2>1. load.retries \in Nat
    BY LoadFacts DEF RInv, Typed
  <2>2. r.backlog = <<>>
    BY <1>2, <1>3 DEF SockOK
  <2>3. t \in Clients
    OBVIOUS
  <2>4. SockOK(t, q)
    BY <1>2, <1>7, <2>2, <2>3 DEF SockOK, Synchronised
  <2>5. Within(q)
    BY <1>3, <1>7, <2>1 DEF Within
  <2> QED BY <2>4, <2>5
<1>9. wire' \in [Hosts -> Seq(Segments)] /\ Addressed'
  <2>1. segs \in Seq(Segments) /\ AllTo(segs, new.peer)
    <3> DEFINE f == Seg(t, new, {"SYN"}, <<>>)
    <3>1. <<>> \in Seq(Bytes) /\ {"SYN"} \in SUBSET {"SYN", "ACK", "FIN", "RST"}
      OBVIOUS
    <3>2. f \in Segments /\ f.dst = new.peer
      BY <1>2, <1>5, <3>1, SegType
    <3> HIDE DEF f
    <3> QED BY <3>2, OneSegment DEF f
  <2> HIDE DEF segs
  <2> QED BY <1>1, <2>1, WireAfter
<1>10. isn' \in [Hosts -> Seqs]
  <2>1. Plus(i, IsnStep) \in Seqs
    BY <1>4, TcpSizes, PlusIn
  <2> QED BY <1>1, <2>1 DEF RInv, Typed
<1>11. /\ a \in CallPlaces /\ a \notin Accepting /\ a \notin Reading
       /\ pc[t].at \notin Accepting /\ pc[t].at \notin Reading
  BY <1>1 DEF CallPlaces, Accepting, Reading
<1> HIDE DEF a, r, segs
<1> QED BY <1>1, <1>2, <1>3, <1>7, <1>8, <1>9, <1>10, <1>11, CallOn, Unchanged DEF r

LEMMA ReturnType ==
  ASSUME RInv, NEW t \in Threads
  PROVE  sig' = [sig EXCEPT ![t] = FALSE] => sig' \in [Threads -> BOOLEAN]
BY DEF RInv, Typed

LEMMA ConnectWokenInv ==
  ASSUME RInv, NEW t \in Threads, ConnectWoken(t)
  PROVE  RInv'
<1> DEFINE r == sk[t]
           keep == [r EXCEPT !.conn = IF sig[t] /\ r.conn = t THEN None ELSE r.conn]
           again == [r EXCEPT !.conn = t]
<1>1. /\ pc[t].at = "connect" /\ job[t] = <<>>
      /\ UNCHANGED <<wire, rx, timer, job, isn, used, sent, got, load, park>>
      /\ \/ /\ sk' = [sk EXCEPT ![t] = keep] /\ pc' = [pc EXCEPT ![t].at = "user"]
            /\ sig' = [sig EXCEPT ![t] = FALSE]
         \/ /\ sk' = [sk EXCEPT ![t] = again] /\ pc' = [pc EXCEPT ![t].at = "connblock"]
            /\ sig' = sig
  <2>1. t \in DOMAIN sk
    <3>1. pc[t].at = "connect"
      BY DEF ConnectWoken, At
    <3>2. pc[t].sock = t
      BY <3>1 DEF RInv, CallsOK
    <3> QED BY <3>2, Names, ThreadHas DEF RInv, Typed
  <2> QED BY <2>1 DEF ConnectWoken, At, Goto, Return
<1>2. pc[t].sock = t
  BY <1>1 DEF RInv, CallsOK
<1>3. t \in Socks /\ r \in Sockets /\ Within(r) /\ SockOK(t, r) /\ t # rx[Lst].kid
      /\ r.st \notin {"none", "freed"} /\ t # Lst
  BY <1>2, Names, ThreadHas
<1>4. ASSUME NEW q, NEW c \in Threads \cup {None}, q = [r EXCEPT !.conn = c]
      PROVE  /\ q \in Sockets /\ Within(q) /\ SockOK(t, q)
             /\ q.refs = r.refs /\ q.linked = r.linked /\ q.backlog = r.backlog
             /\ HalfOpen(q) <=> HalfOpen(r)
  <2> HIDE DEF r
  <2>1. /\ q \in Sockets /\ q.refs = r.refs /\ q.linked = r.linked /\ q.backlog = r.backlog
        /\ q.st = r.st /\ q.una = r.una /\ q.iss = r.iss /\ q.cnt = r.cnt /\ q.rx = r.rx
        /\ q.rtx = r.rtx
    BY <1>3, <1>4 DEF Sockets
  <2> QED BY <1>3, <2>1 DEF SockOK, Within, HalfOpen
<1>5. /\ keep \in Sockets /\ Within(keep) /\ SockOK(t, keep)
      /\ keep.refs = r.refs /\ keep.linked = r.linked /\ keep.backlog = r.backlog
      /\ HalfOpen(keep) <=> HalfOpen(r)
  <2> DEFINE c == IF sig[t] /\ r.conn = t THEN None ELSE r.conn
  <2>1. c \in Threads \cup {None} /\ keep = [r EXCEPT !.conn = c]
    BY <1>3, SocketFields
  <2> HIDE DEF c, keep, r
  <2> QED BY <1>4, <2>1
<1>6. /\ again \in Sockets /\ Within(again) /\ SockOK(t, again)
      /\ again.refs = r.refs /\ again.linked = r.linked /\ again.backlog = r.backlog
      /\ HalfOpen(again) <=> HalfOpen(r)
  <2> HIDE DEF r
  <2> QED BY <1>4
<1>7. /\ "user" \in CallPlaces /\ "connblock" \in CallPlaces
      /\ "user" \notin Accepting /\ "user" \notin Reading
      /\ "connblock" \notin Accepting /\ "connblock" \notin Reading
      /\ pc[t].at \notin Accepting /\ pc[t].at \notin Reading
  BY <1>1 DEF CallPlaces, Accepting, Reading
<1> HIDE DEF keep, again, r
<1>8. CASE /\ sk' = [sk EXCEPT ![t] = keep] /\ pc' = [pc EXCEPT ![t].at = "user"]
           /\ sig' = [sig EXCEPT ![t] = FALSE]
  BY <1>1, <1>3, <1>5, <1>7, <1>8, CallOn, Unchanged, ReturnType DEF r
<1>9. CASE /\ sk' = [sk EXCEPT ![t] = again] /\ pc' = [pc EXCEPT ![t].at = "connblock"]
           /\ sig' = sig
  BY <1>1, <1>2, <1>3, <1>6, <1>7, <1>9, CallOn, Unchanged DEF r
<1> QED BY <1>1, <1>8, <1>9

LEMMA ShutdownInv ==
  ASSUME RInv, NEW t \in Threads, Shutdown(t)
  PROVE  RInv'
<1> DEFINE s == pc[t].sock
           r == sk[s]
           sends == Sent(r, {"FIN"}, <<>>)
           q == [sends EXCEPT !.st = "FIN_WAIT_1"]
           segs == <<Seg(s, r, {"FIN", "ACK"}, <<>>)>>
<1>1. /\ pc[t].at = "user" /\ job[t] = <<>> /\ s # None /\ r.st = "ESTABLISHED"
      /\ sk' = [sk EXCEPT ![s] = q]
      /\ wire' = Onto(wire, segs)
      /\ UNCHANGED <<rx, timer, pc, job, sig, isn, used, sent, got, load, park>>
  BY DEF Shutdown, Owner, At
<1>2. /\ s \in Socks /\ r \in Sockets /\ Within(r) /\ SockOK(s, r) /\ s # rx[Lst].kid
      /\ s # Lst
  BY <1>1, ThreadHas
<1>3. /\ sends \in Sockets /\ sends.refs = r.refs /\ sends.cnt = r.cnt /\ sends.rtx = r.rtx
      /\ sends.una = r.una /\ sends.iss = r.iss
      /\ sends.linked = r.linked /\ sends.backlog = r.backlog /\ sends.rx = r.rx
  <2> DEFINE flags == {"FIN"}
             data == <<>>
  <2>1. /\ data \in Seq(Bytes) /\ flags \in SUBSET {"SYN", "ACK", "FIN", "RST"}
        /\ sends = Sent(r, flags, data)
    OBVIOUS
  <2> HIDE DEF flags, data, sends, r
  <2> QED BY <1>2, <2>1, SentType
<1> HIDE DEF sends
<1>4. /\ q \in Sockets /\ q.refs = r.refs /\ q.cnt = r.cnt /\ q.rtx = r.rtx
      /\ q.una = r.una /\ q.iss = r.iss /\ q.st = "FIN_WAIT_1"
      /\ q.linked = r.linked /\ q.backlog = r.backlog /\ q.rx = r.rx
  <2> HIDE DEF r
  <2> QED BY <1>3 DEF Sockets, States, Synchronised
<1> HIDE DEF q
<1>5. SockOK(s, q) /\ Within(q)
  BY <1>1, <1>2, <1>4 DEF SockOK, Within, Synchronised
<1>6. ~HalfOpen(q) /\ ~HalfOpen(r)
  BY <1>1, <1>4 DEF HalfOpen
<1>7. wire' \in [Hosts -> Seq(Segments)] /\ Addressed'
  <2>1. segs \in Seq(Segments) /\ AllTo(segs, r.peer)
    <3> DEFINE f == Seg(s, r, {"FIN", "ACK"}, <<>>)
    <3>1. <<>> \in Seq(Bytes) /\ {"FIN", "ACK"} \in SUBSET {"SYN", "ACK", "FIN", "RST"}
      OBVIOUS
    <3>2. f \in Segments /\ f.dst = r.peer
      BY <1>2, <3>1, SegType
    <3> HIDE DEF f
    <3> QED BY <3>2, OneSegment DEF f
  <2> HIDE DEF segs
  <2> QED BY <1>1, <2>1, WireAfter
<1>8. /\ "user" \in CallPlaces /\ "user" \notin Accepting /\ "user" \notin Reading
      /\ pc[t].at \notin Accepting /\ pc[t].at \notin Reading
      /\ pc' = [pc EXCEPT ![t].at = "user"]
  BY <1>1 DEF CallPlaces, Accepting, Reading, RInv, Typed
<1> HIDE DEF r, s, segs
<1> QED BY <1>1, <1>2, <1>4, <1>5, <1>6, <1>7, <1>8, CallOn, Unchanged DEF r

LEMMA SendInv ==
  ASSUME RInv, NEW t \in Threads, NEW n \in {1, Mss + 1}, Send(t, n)
  PROVE  RInv'
<1>0. PICK s : s = pc[t].sock
  OBVIOUS
<1> DEFINE r == sk[s]
           bytes == [i \in 1 .. n |-> <<s, sent[s] + i>>]
           chunk(j) == SubSeq(bytes, (j - 1) * Mss + 1, IF j * Mss < n THEN j * Mss ELSE n)
           part(j) == [r EXCEPT !.nxt = Plus(r.nxt, (j - 1) * Mss)]
           m == (n + Mss - 1) \div Mss
           segs == [j \in 1 .. m |-> Seg(s, part(j), {"ACK"}, chunk(j))]
           x == Plus(r.nxt, n)
           q == [r EXCEPT !.nxt = x]
<1>1. /\ pc[t].at = "user" /\ job[t] = <<>> /\ pc[t].sock # None /\ r.st = "ESTABLISHED"
      /\ sk' = [sk EXCEPT ![s].nxt = Plus(@, n)]
      /\ wire' = Onto(wire, segs)
      /\ sent' = [sent EXCEPT ![s] = @ + n]
      /\ UNCHANGED <<rx, timer, pc, job, sig, isn, used, got, load, park>>
  BY <1>0 DEF Send, Owner, At
<1>2. /\ s \in Socks /\ r \in Sockets /\ Within(r) /\ SockOK(s, r) /\ s # rx[Lst].kid
      /\ s # Lst
  BY <1>0, <1>1, ThreadHas
<1>3. n \in Nat /\ Mss \in Nat \ {0}
  BY TcpSizes
<1>4. x \in Seqs
  BY <1>2, <1>3, SocketFields, PlusIn
<1>5. /\ q \in Sockets /\ q.refs = r.refs /\ q.cnt = r.cnt /\ q.rtx = r.rtx
      /\ q.una = r.una /\ q.iss = r.iss /\ q.st = r.st
      /\ q.linked = r.linked /\ q.backlog = r.backlog /\ q.rx = r.rx
  <2> HIDE DEF r, x
  <2> QED BY <1>2, <1>4 DEF Sockets
<1>6. sk' = [sk EXCEPT ![s] = q]
  <2>1. sk \in [Socks -> Sockets]
    BY DEF RInv, Typed
  <2> HIDE DEF Sockets
  <2> QED BY <1>1, <1>2, <2>1
<1> HIDE DEF q
<1>7. SockOK(s, q) /\ Within(q) /\ (HalfOpen(q) <=> HalfOpen(r))
  BY <1>1, <1>2, <1>5 DEF SockOK, Within, HalfOpen, Synchronised
<1>8. m \in Nat /\ (m - 1) * Mss < n
  <2>1. PICK w \in Nat \ {0} : w = Mss
    BY <1>3
  <2>2. PICK b \in Nat : b = n + w - 1
    BY <1>3, <2>1
  <2>3. (b \div w) \in Nat /\ (b \div w) * w <= b
    BY <2>1, <2>2
  <2>4. PICK d \in Nat : d = b \div w
    BY <2>3
  <2>5. m = d
    BY <2>1, <2>2, <2>4
  <2>6. (d - 1) * w = d * w - w
    BY <2>1, <2>4
  <2>7. d * w <= b
    BY <2>3, <2>4
  <2>8. d * w \in Nat
    BY <2>1, <2>4
  <2>9. (d - 1) * w < n
    BY <1>3, <2>1, <2>2, <2>6, <2>7, <2>8
  <2> QED BY <2>1, <2>4, <2>5, <2>9
<1> HIDE DEF m
<1>9. bytes \in Seq(Bytes) /\ Len(bytes) = n
  <2>1. sent[s] \in Nat
    BY <1>2 DEF RInv, Typed
  <2>2. PICK b \in Nat : b = sent[s]
    BY <2>1
  <2>3. \A i \in 1 .. n : <<s, b + i>> \in Bytes
    BY <1>2, <1>3, <2>2 DEF Bytes
  <2> QED BY <1>3, <2>2, <2>3
<1> HIDE DEF bytes
<1>10. ASSUME NEW j \in 1 .. m
       PROVE  segs[j] \in Segments /\ segs[j].dst = r.peer
  <2> DEFINE a == (j - 1) * Mss
             b == IF j * Mss < n THEN j * Mss ELSE n
             p == part(j)
             e == Plus(r.nxt, a)
             d == chunk(j)
  <2>1. a \in Nat /\ b \in 1 .. n /\ a + 1 \in 1 .. n
    <3>1. PICK w \in Nat \ {0} : w = Mss
      BY <1>3
    <3>2. PICK k \in Nat : k = j - 1
      OBVIOUS
    <3>3. k * w \in Nat /\ j * w = k * w + w
      BY <3>1, <3>2
    <3>4. k * w <= (m - 1) * w
      BY <1>8, <3>1, <3>2
    <3>5. PICK v \in Nat : v = k * w
      BY <3>3
    <3>6. v < n /\ a = v /\ j * Mss = v + w
      <4>1. (m - 1) * w < n
        BY <1>8, <3>1
      <4>2. (m - 1) * w \in Int
        BY <1>8, <3>1
      <4>3. v < n
        BY <1>3, <3>4, <3>5, <4>1, <4>2
      <4> QED BY <3>1, <3>2, <3>3, <3>5, <4>3
    <3> HIDE DEF a
    <3> QED BY <1>3, <3>1, <3>5, <3>6
  <2>2. d = SubSeq(bytes, a + 1, b)
    OBVIOUS
  <2> HIDE DEF a, b, d
  <2>3. d \in Seq(Bytes)
    BY <1>9, <2>1, <2>2, SubSeqProperties, LenProperties
  <2>4. e \in Seqs
    BY <1>2, <2>1, SocketFields, PlusIn
  <2>5. p \in Sockets /\ p.peer = r.peer
    <3>1. p = [r EXCEPT !.nxt = e]
      BY DEF a
    <3> HIDE DEF e, r, p
    <3> QED BY <1>2, <2>4, <3>1 DEF Sockets
  <2> DEFINE f == {"ACK"}
  <2>6. f \in SUBSET {"SYN", "ACK", "FIN", "RST"} /\ segs[j] = Seg(s, p, f, d)
    BY DEF d
  <2> HIDE DEF f, p, e, r, segs
  <2> QED BY <1>2, <2>3, <2>5, <2>6, SegType
<1>11. segs \in Seq(Segments) /\ AllTo(segs, r.peer)
  <2>1. segs = [j \in 1 .. m |-> segs[j]] /\ DOMAIN segs = 1 .. m
    OBVIOUS
  <2> HIDE DEF segs, r
  <2>2. segs \in [1 .. m -> Segments]
    BY <1>10, <2>1
  <2>3. segs \in Seq(Segments)
    BY <1>8, <2>2
  <2> QED BY <1>10, <2>1, <2>3 DEF AllTo
<1> HIDE DEF segs
<1>12. wire' \in [Hosts -> Seq(Segments)] /\ Addressed'
  BY <1>1, <1>11, WireAfter
<1>13. sent' \in [Socks -> Nat]
  BY <1>1, <1>2, <1>3 DEF RInv, Typed
<1>14. /\ "user" \in CallPlaces /\ "user" \notin Accepting /\ "user" \notin Reading
       /\ pc[t].at \notin Accepting /\ pc[t].at \notin Reading
       /\ pc' = [pc EXCEPT ![t].at = "user"]
  BY <1>1 DEF CallPlaces, Accepting, Reading, RInv, Typed
<1> HIDE DEF r
<1> QED BY <1>1, <1>2, <1>5, <1>6, <1>7, <1>12, <1>13, <1>14, CallOn, Unchanged DEF r

(* A call enters a socket. *)
LEMMA EnterInv ==
  ASSUME RInv, NEW t \in Threads, NEW a \in CallPlaces, pc' = [pc EXCEPT ![t].at = a],
         job[t] = <<>>, a \notin {"connblock", "connect"},
         NEW s \in Socks, sk' = [sk EXCEPT ![s] = Get(sk[s])],
         sk[s].refs # 0, s # rx[Lst].kid,
         \/ /\ s = Lst /\ a \in Accepting /\ t \in Servers /\ pc[t].sock = None
         \/ s = pc[t].sock /\ a \in Reading,
         pc[t].at \notin Accepting, pc[t].at \notin Reading,
         UNCHANGED <<rx, timer, job, load, wire, sig, isn, used, sent, got, park>>
  PROVE  RInv'
<1>1. sk[s] \in Sockets /\ Within(sk[s]) /\ SockOK(s, sk[s])
  BY DEF RInv, Typed, SocksOK
<1> DEFINE q == Get(sk[s])
<1>2. /\ q \in Sockets /\ Within(q) /\ SockOK(s, q)
      /\ q.linked = sk[s].linked /\ q.backlog = sk[s].backlog /\ q.st = sk[s].st
      /\ q.una = sk[s].una /\ q.iss = sk[s].iss /\ q.refs = sk[s].refs + 1
  BY <1>1, GetOK
<1> HIDE DEF q
<1>3. /\ pc'[t].at = a /\ pc'[t].sock = pc[t].sock
      /\ \A u \in Threads \ {t} : pc'[u] = pc[u]
  BY DEF RInv, Typed
<1>4. Users(s)' = Users(s) + 1 /\ \A u \in Socks \ {s} : Users(u)' = Users(u)
  <2>1. CASE s = Lst /\ a \in Accepting
    <3>1. a \notin Reading
      BY <2>1 DEF Accepting, Reading
    <3> QED BY <1>3, <2>1, <3>1, AcceptMoves
  <2>2. CASE s = pc[t].sock /\ a \in Reading
    <3>1. a \notin Accepting
      BY <2>2 DEF Accepting, Reading
    <3> QED BY <1>3, <2>2, <3>1, ReadMoves
  <2> QED BY <2>1, <2>2
<1>5. q.refs = (IF q.linked THEN 1 ELSE 0) + Users(s)'
  <2>1. sk[s].refs = (IF q.linked THEN 1 ELSE 0) + Users(s) /\ Users(s) \in Nat
    BY <1>2, UsersNat DEF RInv, Counted
  <2>2. PICK n \in Nat : n = Users(s)
    BY <2>1
  <2>3. PICK i \in Nat : i = IF q.linked THEN 1 ELSE 0
    OBVIOUS
  <2>4. q.refs = i + (n + 1)
    BY <1>2, <2>1, <2>2, <2>3
  <2> QED BY <1>4, <2>2, <2>3, <2>4
<1>6. /\ a \in Accepting => t \in Servers /\ pc[t].sock = None
      /\ a \in Reading => pc[t].sock # None
  BY Names DEF Accepting, Reading
<1>7. HalfOpen(q) <=> HalfOpen(sk[s])
  BY <1>2 DEF HalfOpen
<1>8. sk' = [sk EXCEPT ![s] = q]
  BY DEF q
<1> QED BY <1>2, <1>4, <1>5, <1>6, <1>7, <1>8, CallInv, Unchanged

LEMMA AcceptInv ==
  ASSUME RInv, NEW t \in Threads, Accept(t)
  PROVE  RInv'
<1>1. /\ pc[t].at = "user" /\ job[t] = <<>> /\ pc[t].sock = None /\ "accept" \in load.can[t]
      /\ sk[Lst].st = "LISTEN" /\ sk' = [sk EXCEPT ![Lst] = Get(sk[Lst])]
      /\ pc' = [pc EXCEPT ![t].at = "accept"]
      /\ UNCHANGED <<wire, rx, timer, job, sig, isn, used, sent, got, load, park>>
  BY DEF Accept, At, Goto
<1>2. t \in Servers
  BY <1>1, LoadFacts, Names DEF RInv, Typed
<1>3. sk[Lst].linked /\ sk[Lst].refs # 0 /\ Lst # rx[Lst].kid /\ Lst \in Socks
  <2>1. sk[Lst].linked
    BY <1>1, Names DEF RInv, SocksOK, SockOK
  <2>2. Lst # rx[Lst].kid
    BY Names DEF RInv, Typed
  <2> QED BY <2>1, <2>2, InUse, Names DEF RInv
<1>4. /\ "accept" \in CallPlaces /\ "accept" \in Accepting
      /\ pc[t].at \notin Accepting /\ pc[t].at \notin Reading
  BY <1>1 DEF CallPlaces, Accepting, Reading
<1> QED BY <1>1, <1>2, <1>3, <1>4, EnterInv

LEMMA RecvInv ==
  ASSUME RInv, NEW t \in Threads, Recv(t)
  PROVE  RInv'
<1>1. /\ pc[t].at = "user" /\ job[t] = <<>> /\ pc[t].sock # None
      /\ sk' = [sk EXCEPT ![pc[t].sock] = Get(sk[pc[t].sock])]
      /\ pc' = [pc EXCEPT ![t].at = "recv"]
      /\ UNCHANGED <<wire, rx, timer, job, sig, isn, used, sent, got, load, park>>
  BY DEF Recv, Owner, At, Goto
<1>2. /\ pc[t].sock \in Socks /\ sk[pc[t].sock].refs # 0 /\ pc[t].sock # rx[Lst].kid
  BY <1>1, ThreadHas
<1>3. /\ "recv" \in CallPlaces /\ "recv" \in Reading
      /\ pc[t].at \notin Accepting /\ pc[t].at \notin Reading
  BY <1>1 DEF CallPlaces, Accepting, Reading
<1> QED BY <1>1, <1>2, <1>3, EnterInv

(* A call leaves the socket it is in. *)
LEMMA LeaveInv ==
  ASSUME RInv, NEW t \in Threads, pc' = [pc EXCEPT ![t].at = "user"], job[t] = <<>>,
         NEW s \in Socks, NEW r \in Sockets, Within(r), SockOK(s, r),
         r.refs = sk[s].refs, r.linked = sk[s].linked, r.backlog = sk[s].backlog,
         r.st = sk[s].st, r.una = sk[s].una, r.iss = sk[s].iss,
         sk' = [sk EXCEPT ![s] = Put(r)],
         \/ s = Lst /\ pc[t].at \in Accepting
         \/ s = pc[t].sock /\ pc[t].at \in Reading,
         sig' \in [Threads -> BOOLEAN], got' \in [Socks -> Seq(Bytes)],
         UNCHANGED <<rx, timer, job, load, wire, isn, used, sent, park>>
  PROVE  RInv'
<1> DEFINE q == Put(r)
           a == "user"
<1>1. /\ pc'[t].at = a /\ pc'[t].sock = pc[t].sock
      /\ \A u \in Threads \ {t} : pc'[u] = pc[u]
  BY DEF RInv, Typed
<1>2. a \in CallPlaces /\ a \notin Accepting /\ a \notin Reading /\ a \notin {"connblock", "connect"}
  BY DEF CallPlaces, Accepting, Reading
<1> HIDE DEF a
<1>3. Users(s)' = Users(s) - 1 /\ Users(s) # 0 /\ \A u \in Socks \ {s} : Users(u)' = Users(u)
  <2>1. CASE s = Lst /\ pc[t].at \in Accepting
    <3>1. pc[t].at \notin Reading
      BY <2>1 DEF Accepting, Reading
    <3> QED BY <1>1, <1>2, <2>1, <3>1, AcceptMoves
  <2>2. CASE s = pc[t].sock /\ pc[t].at \in Reading
    <3>1. pc[t].at \notin Accepting
      BY <2>2 DEF Accepting, Reading
    <3> QED BY <1>1, <1>2, <2>2, <3>1, ReadMoves
  <2> QED BY <2>1, <2>2
<1>4. /\ q \in Sockets /\ Within(q) /\ SockOK(s, q)
      /\ q.linked = sk[s].linked /\ q.backlog = sk[s].backlog
      /\ q.refs = (IF q.linked THEN 1 ELSE 0) + (Users(s) - 1)
      /\ HalfOpen(q) => HalfOpen(r)
      /\ HalfOpen(r) /\ (r.linked \/ Users(s) # 1) => HalfOpen(q)
      /\ q.st = r.st \/ q.st = "freed"
  BY <1>3, Drop
<1>5. /\ s # rx[Lst].kid /\ (s \in Kids => sk[s].linked)
  <2>1. CASE s = Lst
    BY <2>1, Names DEF RInv, Typed
  <2>2. CASE s = pc[t].sock
    BY <2>2, Names, ThreadHas
  <2> QED BY <2>1, <2>2
<1>6. HalfOpen(r) <=> HalfOpen(sk[s])
  BY DEF HalfOpen
<1>7. sk' = [sk EXCEPT ![s] = q]
  OBVIOUS
<1>8. q.refs = (IF q.linked THEN 1 ELSE 0) + Users(s)'
  BY <1>3, <1>4
<1>9. s = Lst /\ q.st = "LISTEN" => sk[Lst].st = "LISTEN"
  BY <1>4
<1>10. /\ s \in Kids /\ HalfOpen(sk[s]) /\ (sk[s].linked \/ timer[Lst].sock = s) => HalfOpen(q)
       /\ s \in Kids /\ HalfOpen(q) => HalfOpen(sk[s])
  BY <1>4, <1>5, <1>6
<1> HIDE DEF q
<1> QED BY <1>2, <1>3, <1>4, <1>5, <1>7, <1>8, <1>9, <1>10, CallInv, Unchanged DEF a

(* Forgetting who sleeps changes nothing else. *)
LEMMA AccSet ==
  ASSUME NEW s \in Socks, NEW r \in Sockets, Within(r), SockOK(s, r),
         r.st \notin {"none", "freed"}, NEW c \in Threads \cup {None},
         NEW q, q = [r EXCEPT !.acc = c] \/ q = [r EXCEPT !.rxw = c]
  PROVE  /\ q \in Sockets /\ Within(q) /\ SockOK(s, q)
         /\ q.refs = r.refs /\ q.linked = r.linked /\ q.backlog = r.backlog
         /\ q.st = r.st /\ q.una = r.una /\ q.iss = r.iss
<1>1. /\ q \in Sockets /\ q.refs = r.refs /\ q.linked = r.linked /\ q.backlog = r.backlog
      /\ q.st = r.st /\ q.una = r.una /\ q.iss = r.iss /\ q.cnt = r.cnt /\ q.rx = r.rx
      /\ q.rtx = r.rtx
  <2>1. CASE q = [r EXCEPT !.acc = c]
    BY <2>1 DEF Sockets
  <2>2. CASE q = [r EXCEPT !.rxw = c]
    BY <2>2 DEF Sockets
  <2> QED BY <2>1, <2>2
<1> QED BY <1>1 DEF SockOK, Within

(* The listener, for a thread inside accept(). *)
LEMMA AcceptHas ==
  ASSUME RInv, NEW t \in Threads, pc[t].at \in Accepting
  PROVE  /\ Users(Lst) # 0 /\ sk[Lst].refs # 0 /\ sk[Lst].st \notin {"none", "freed"}
         /\ sk[Lst] \in Sockets /\ Within(sk[Lst]) /\ SockOK(Lst, sk[Lst])
         /\ t \in Servers /\ pc[t].sock = None /\ Lst # rx[Lst].kid
<1>1. Users(Lst) # 0
  <2> DEFINE s == Lst
  <2>1. s = Lst /\ pc[t].at \in Accepting
    OBVIOUS
  <2> HIDE DEF s
  <2>2. Users(s) # 0
    BY <2>1, UsersNat
  <2> QED BY <2>1, <2>2
<1>2. t \in Servers /\ pc[t].sock = None
  BY DEF RInv, CallsOK
<1>3. Lst # rx[Lst].kid
  BY Names DEF RInv, Typed
<1> QED BY <1>1, <1>2, <1>3, InUse, Names DEF RInv

LEMMA AcceptWokenInv ==
  ASSUME RInv, NEW t \in Threads, AcceptWoken(t)
  PROVE  RInv'
<1> DEFINE r == sk[Lst]
           c == IF r.acc = t THEN None ELSE r.acc
           q == [r EXCEPT !.acc = c]
<1>1. /\ pc[t].at = "acceptwoken" /\ job[t] = <<>>
      /\ UNCHANGED <<wire, rx, timer, job, isn, used, sent, got, load, park>>
      /\ \/ /\ sk' = [sk EXCEPT ![Lst] = Put(q)] /\ pc' = [pc EXCEPT ![t].at = "user"]
            /\ sig' = [sig EXCEPT ![t] = FALSE]
         \/ pc' = [pc EXCEPT ![t].at = "accept"] /\ UNCHANGED <<sk, sig>>
  <2>1. Lst \in DOMAIN sk
    BY Names DEF RInv, Typed
  <2> QED BY <2>1 DEF AcceptWoken, At, Goto, Return
<1>2. pc[t].at \in Accepting /\ pc[t].at \notin Reading
  BY <1>1 DEF Accepting, Reading
<1>3. /\ r \in Sockets /\ Within(r) /\ SockOK(Lst, r) /\ r.st \notin {"none", "freed"}
      /\ Lst \in Socks /\ Lst # rx[Lst].kid
  BY <1>2, AcceptHas, Names
<1>4. CASE /\ sk' = [sk EXCEPT ![Lst] = Put(q)] /\ pc' = [pc EXCEPT ![t].at = "user"]
           /\ sig' = [sig EXCEPT ![t] = FALSE]
  <2>1. c \in Threads \cup {None}
    BY <1>3, SocketFields
  <2> HIDE DEF c, r
  <2>2. /\ q \in Sockets /\ Within(q) /\ SockOK(Lst, q)
        /\ q.refs = r.refs /\ q.linked = r.linked /\ q.backlog = r.backlog
        /\ q.st = r.st /\ q.una = r.una /\ q.iss = r.iss
    BY <1>3, <2>1, AccSet
  <2> HIDE DEF q
  <2>3. PICK s \in Socks : s = Lst
    BY <1>3
  <2>4. /\ sk' = [sk EXCEPT ![s] = Put(q)] /\ SockOK(s, q)
        /\ q.refs = sk[s].refs /\ q.linked = sk[s].linked /\ q.backlog = sk[s].backlog
        /\ q.st = sk[s].st /\ q.una = sk[s].una /\ q.iss = sk[s].iss
        /\ s = Lst /\ pc[t].at \in Accepting
    BY <1>2, <1>4, <2>2, <2>3 DEF r
  <2>5. q \in Sockets /\ Within(q)
    BY <2>2
  <2>6. /\ sig' \in [Threads -> BOOLEAN] /\ got' \in [Socks -> Seq(Bytes)]
    BY <1>1, <1>4, Unchanged, ReturnType
  <2> QED BY <1>1, <1>4, <2>4, <2>5, <2>6, LeaveInv
<1>5. CASE pc' = [pc EXCEPT ![t].at = "accept"] /\ UNCHANGED <<sk, sig>>
  <2>1. /\ "accept" \in CallPlaces /\ "accept" \in Accepting /\ "accept" \notin Reading
    BY DEF CallPlaces, Accepting, Reading
  <2>2. sk' = [sk EXCEPT ![Lst] = r]
    BY <1>5 DEF RInv, Typed
  <2> HIDE DEF r
  <2> QED BY <1>1, <1>2, <1>3, <1>5, <2>1, <2>2, CallOn, Unchanged DEF r
<1> QED BY <1>1, <1>4, <1>5

LEMMA RecvWokenInv ==
  ASSUME RInv, NEW t \in Threads, RecvWoken(t)
  PROVE  RInv'
<1>0. PICK s : s = pc[t].sock
  OBVIOUS
<1> DEFINE r == sk[s]
           c == IF r.rxw = t THEN None ELSE r.rxw
           q == [r EXCEPT !.rxw = c]
<1>1. pc[t].at = "recvwoken" /\ pc[t].at \in Reading /\ pc[t].at \notin Accepting
  BY DEF RecvWoken, At, Accepting, Reading
<1>2. pc[t].sock # None
  BY <1>1 DEF RInv, CallsOK
<1>3. /\ r \in Sockets /\ Within(r) /\ SockOK(s, r) /\ r.st \notin {"none", "freed"}
      /\ s \in Socks /\ s # rx[Lst].kid /\ s # Lst
  BY <1>0, <1>2, ThreadHas
<1>4. /\ job[t] = <<>>
      /\ UNCHANGED <<wire, rx, timer, job, isn, used, sent, got, load, park>>
      /\ \/ /\ sk' = [sk EXCEPT ![s] = Put(q)] /\ pc' = [pc EXCEPT ![t].at = "user"]
            /\ sig' = [sig EXCEPT ![t] = FALSE]
         \/ pc' = [pc EXCEPT ![t].at = "recv"] /\ UNCHANGED <<sk, sig>>
  <2>1. s \in DOMAIN sk
    BY <1>3 DEF RInv, Typed
  <2> QED BY <1>0, <2>1 DEF RecvWoken, At, Goto, Return
<1>5. CASE /\ sk' = [sk EXCEPT ![s] = Put(q)] /\ pc' = [pc EXCEPT ![t].at = "user"]
           /\ sig' = [sig EXCEPT ![t] = FALSE]
  <2>1. c \in Threads \cup {None}
    BY <1>3, SocketFields
  <2> HIDE DEF c, r
  <2>2. /\ q \in Sockets /\ Within(q) /\ SockOK(s, q)
        /\ q.refs = r.refs /\ q.linked = r.linked /\ q.backlog = r.backlog
        /\ q.st = r.st /\ q.una = r.una /\ q.iss = r.iss
    BY <1>3, <2>1, AccSet
  <2> HIDE DEF q
  <2> QED BY <1>0, <1>1, <1>3, <1>4, <1>5, <2>2, LeaveInv, Unchanged, ReturnType DEF r
<1>6. CASE pc' = [pc EXCEPT ![t].at = "recv"] /\ UNCHANGED <<sk, sig>>
  <2>1. /\ "recv" \in CallPlaces /\ "recv" \notin Accepting /\ "recv" \in Reading
    BY DEF CallPlaces, Accepting, Reading
  <2>2. sk' = [sk EXCEPT ![s] = r]
    BY <1>6 DEF RInv, Typed
  <2> HIDE DEF r
  <2> QED BY <1>1, <1>3, <1>4, <1>6, <2>1, <2>2, CallOn, Unchanged DEF r
<1> QED BY <1>4, <1>5, <1>6

LEMMA RecvTryInv ==
  ASSUME RInv, NEW t \in Threads, RecvTry(t)
  PROVE  RInv'
<1>0. PICK s : s = pc[t].sock
  OBVIOUS
<1> DEFINE r == sk[s]
           d == Tail(r.rx)
           less == [r EXCEPT !.rx = d]
           q == [r EXCEPT !.rxw = t]
<1>1. pc[t].at = "recv" /\ pc[t].at \in Reading /\ pc[t].at \notin Accepting /\ job[t] = <<>>
      /\ UNCHANGED <<wire, rx, timer, job, isn, used, sent, load, park>>
  BY DEF RecvTry, At, Accepting, Reading
<1>2. pc[t].sock # None
  BY <1>1 DEF RInv, CallsOK
<1>3. /\ r \in Sockets /\ Within(r) /\ SockOK(s, r) /\ r.st \notin {"none", "freed"}
      /\ s \in Socks /\ s # rx[Lst].kid /\ s # Lst
  BY <1>0, <1>2, ThreadHas
<1>4. s \in DOMAIN sk /\ got \in [Socks -> Seq(Bytes)]
  BY <1>3 DEF RInv, Typed
<1>5. \/ /\ r.rx # <<>>
         /\ sk' = [sk EXCEPT ![s] = Put(less)]
         /\ got' = [got EXCEPT ![s] = Append(@, Head(r.rx))]
         /\ pc' = [pc EXCEPT ![t].at = "user"] /\ sig' = [sig EXCEPT ![t] = FALSE]
      \/ /\ sk' = [sk EXCEPT ![s] = Put(r)] /\ got' = got
         /\ pc' = [pc EXCEPT ![t].at = "user"] /\ sig' = [sig EXCEPT ![t] = FALSE]
      \/ /\ sk' = [sk EXCEPT ![s] = q] /\ UNCHANGED <<sig, got>>
         /\ pc' = [pc EXCEPT ![t].at = "recvblock"]
  BY <1>0, <1>4 DEF RecvTry, Goto, Return
<1>6. CASE /\ r.rx # <<>>
           /\ sk' = [sk EXCEPT ![s] = Put(less)]
           /\ got' = [got EXCEPT ![s] = Append(@, Head(r.rx))]
           /\ pc' = [pc EXCEPT ![t].at = "user"] /\ sig' = [sig EXCEPT ![t] = FALSE]
  <2>1. r.rx \in Seq(Bytes) /\ r.rx # <<>>
    BY <1>3, <1>6, SocketFields
  <2> DEFINE x == r.rx
  <2>2. Head(x) \in Bytes /\ Tail(x) \in Seq(Bytes) /\ Len(Tail(x)) <= Len(x)
    <3> HIDE DEF x
    <3>1. x \in Seq(Bytes) /\ x # <<>>
      BY <2>1 DEF x
    <3> QED BY <3>1, HeadTailProperties, LenProperties, EmptySeq
  <2>3. got' \in [Socks -> Seq(Bytes)]
    <3>1. got[s] \in Seq(Bytes)
      BY <1>3, <1>4
    <3>2. Append(got[s], Head(r.rx)) \in Seq(Bytes)
      BY <2>2, <3>1
    <3> QED BY <1>4, <1>6, <3>2
  <2>4. d \in Seq(Bytes) /\ Len(d) <= Len(r.rx)
    BY <2>2
  <2> HIDE DEF d, r, x
  <2>5. /\ less \in Sockets /\ less.rx = d
        /\ less.refs = r.refs /\ less.linked = r.linked /\ less.backlog = r.backlog
        /\ less.st = r.st /\ less.una = r.una /\ less.iss = r.iss /\ less.cnt = r.cnt
        /\ less.rtx = r.rtx
    BY <1>3, <2>4 DEF Sockets
  <2> HIDE DEF less
  <2>6. Within(less) /\ SockOK(s, less)
    <3>1. Len(d) \in Nat /\ Len(r.rx) \in Nat /\ RxSize \in Nat
      BY <1>3, <2>4, SocketFields, LenProperties, TcpSizes
    <3>2. Within(less)
      BY <1>3, <2>4, <2>5, <3>1 DEF Within
    <3> QED BY <1>3, <2>5, <3>2 DEF SockOK
  <2> QED BY <1>0, <1>1, <1>3, <1>6, <2>3, <2>5, <2>6, LeaveInv, Unchanged, ReturnType DEF r
<1>7. CASE /\ sk' = [sk EXCEPT ![s] = Put(r)] /\ got' = got
           /\ pc' = [pc EXCEPT ![t].at = "user"] /\ sig' = [sig EXCEPT ![t] = FALSE]
  <2> HIDE DEF r
  <2> QED BY <1>0, <1>1, <1>3, <1>7, LeaveInv, Unchanged, ReturnType DEF r
<1>8. CASE /\ sk' = [sk EXCEPT ![s] = q] /\ UNCHANGED <<sig, got>>
           /\ pc' = [pc EXCEPT ![t].at = "recvblock"]
  <2>1. /\ "recvblock" \in CallPlaces /\ "recvblock" \notin Accepting
        /\ "recvblock" \in Reading
    BY DEF CallPlaces, Accepting, Reading
  <2> HIDE DEF r
  <2>2. /\ q \in Sockets /\ Within(q) /\ SockOK(s, q)
        /\ q.refs = r.refs /\ q.linked = r.linked /\ q.backlog = r.backlog
        /\ q.st = r.st /\ q.una = r.una /\ q.iss = r.iss
    BY <1>3, AccSet
  <2>3. HalfOpen(q) <=> HalfOpen(r)
    BY <2>2 DEF HalfOpen
  <2> HIDE DEF q
  <2> QED BY <1>1, <1>3, <1>8, <2>1, <2>2, <2>3, CallOn, Unchanged DEF r
<1> QED BY <1>5, <1>6, <1>7, <1>8

(* accept() takes a child: the backlog's reference becomes the thread's. *)
LEMMA TakeChildInv ==
  ASSUME RInv, NEW t \in Threads, pc[t].at \in Accepting, job[t] = <<>>,
         sk[Lst].st = "LISTEN", NEW i \in DOMAIN sk[Lst].backlog,
         NEW b, b = RemoveAt(sk[Lst].backlog, i), NEW k, k = sk[Lst].backlog[i],
         NEW q, q = Put([sk[Lst] EXCEPT !.backlog = b]), sk' = [sk EXCEPT ![Lst] = q],
         NEW p, p = [at |-> "user", sock |-> k], pc' = [pc EXCEPT ![t] = p],
         UNCHANGED <<wire, rx, timer, job, sig, isn, used, sent, got, load, park>>
  PROVE  RInv'
<1> DEFINE l == sk[Lst]
           o == l.backlog
           r == [l EXCEPT !.backlog = b]
<1>1. /\ l \in Sockets /\ Within(l) /\ SockOK(Lst, l) /\ l.st \notin {"none", "freed"}
      /\ t \in Servers /\ pc[t].sock = None /\ Users(Lst) # 0 /\ Lst \in Socks
  BY AcceptHas, Names
<1>2. Typed /\ Apart /\ OwnedOK
  BY DEF RInv
<1>3. /\ b \in Seq(Kids) /\ IsInjective(b) /\ k \notin Range(b)
      /\ Range(o) = Range(b) \cup {k} /\ Len(b) <= Len(o) /\ Len(b) \in Nat
      /\ o \in Seq(Kids) /\ k \in Range(o) /\ k \in Kids
  <2>1. o \in Seq(Kids) /\ IsInjective(o)
    BY <1>2, ListenerHas DEF Apart
  <2>2. i \in DOMAIN o /\ k = o[i] /\ b = RemoveAt(o, i)
    OBVIOUS
  <2> HIDE DEF o
  <2>3. k \in Range(o)
    BY <2>2 DEF Range
  <2>4. k \in Kids
    BY <2>1, <2>3, RangeOf
  <2>5. Len(o) \in Nat /\ Len(b) = Len(o) - 1 /\ Len(b) \in Nat
    BY <2>1, <2>2, RemoveAtLen, LenProperties
  <2>6. Len(b) <= Len(o)
    BY <2>5
  <2> QED BY <2>1, <2>2, <2>3, <2>4, <2>5, <2>6, RemoveAtFacts
<1>4. /\ r \in Sockets /\ r.backlog = b /\ r.refs = l.refs /\ r.linked = l.linked
      /\ r.st = l.st /\ r.una = l.una /\ r.iss = l.iss /\ r.cnt = l.cnt /\ r.rx = l.rx
      /\ r.rtx = l.rtx
  <2> HIDE DEF l
  <2> QED BY <1>1, <1>3 DEF Sockets
<1>0. q = Put(r)
  OBVIOUS
<1> HIDE DEF r, o
<1>5. Within(r) /\ SockOK(Lst, r)
  <2>1. Within(r)
    <3>1. Len(o) <= load.backlog /\ Len(o) \in Nat /\ load.backlog \in Nat
      BY <1>1, <1>2, <1>3, LoadFacts, LenProperties DEF Within, Typed, o
    <3> QED BY <1>1, <1>3, <1>4, <3>1 DEF Within
  <2>2. SockOK(Lst, r)
    BY <1>1, <1>4, Names DEF SockOK
  <2> QED BY <2>1, <2>2
<1>6. r.refs = (IF r.linked THEN 1 ELSE 0) + Users(Lst) /\ r.linked
  <2>1. r.linked
    BY <1>1, <1>4, Names DEF SockOK
  <2> QED BY <1>1, <1>4, <2>1 DEF RInv, Counted
<1>7. /\ q \in Sockets /\ Within(q) /\ SockOK(Lst, q)
      /\ q.linked = r.linked /\ q.backlog = b
      /\ q.refs = (IF r.linked THEN 1 ELSE 0) + (Users(Lst) - 1)
      /\ q.st = "LISTEN"
  <2>1. PICK n \in Nat : n = Users(Lst) /\ n # 0
    BY <1>1, UsersNat
  <2>2. load \in Loads
    BY <1>2 DEF Typed
  <2>3. PICK s \in Socks : s = Lst
    BY <1>1
  <2>4. SockOK(s, r) /\ r.refs = (IF r.linked THEN 1 ELSE 0) + n
    BY <1>5, <1>6, <2>1, <2>3
  <2>5. /\ q \in Sockets /\ Within(q) /\ SockOK(s, q)
        /\ q.linked = r.linked /\ q.backlog = r.backlog
        /\ q.refs = (IF r.linked THEN 1 ELSE 0) + (n - 1)
        /\ \/ q = Gone /\ ~r.linked /\ n = 1
           \/ q = [r EXCEPT !.refs = r.refs - 1]
    <3> DEFINE z == Put(r)
    <3>1. z = q
      BY <1>0
    <3> HIDE DEF z
    <3>2. /\ z \in Sockets /\ Within(z) /\ SockOK(s, z)
          /\ z.linked = r.linked /\ z.backlog = r.backlog
          /\ z.refs = (IF r.linked THEN 1 ELSE 0) + (n - 1)
          /\ \/ z = Gone /\ ~r.linked /\ n = 1
             \/ z = [r EXCEPT !.refs = r.refs - 1]
      BY <1>4, <1>5, <2>1, <2>2, <2>4, DropOne DEF z
    <3> QED BY <3>1, <3>2
  <2>6. q = [r EXCEPT !.refs = r.refs - 1]
    BY <1>6, <2>5
  <2>7. q.st = r.st
    BY <1>4, <2>6 DEF Sockets
  <2> QED BY <1>4, <2>1, <2>3, <2>5, <2>7
<1>8. /\ sk' \in [Socks -> Sockets] /\ sk'[Lst] = q
      /\ \A u \in Socks \ {Lst} : sk'[u] = sk[u] /\ Within(sk[u]) /\ SockOK(u, sk[u])
  BY <1>1, <1>7 DEF RInv, Typed, SocksOK
<1>9. /\ pc' \in [Threads -> [at : CallPlaces, sock : Socks \cup {None}]]
      /\ pc'[t].at = "user" /\ pc'[t].sock = k
      /\ \A u \in Threads \ {t} : pc'[u] = pc[u]
  <2>1. "user" \in CallPlaces /\ k \in Socks
    BY <1>3, Names DEF CallPlaces
  <2> QED BY <1>2, <2>1 DEF Typed
<1>10. Users(Lst)' = Users(Lst) - 1 /\ \A u \in Socks \ {Lst} : Users(u)' = Users(u)
  <2>1. /\ pc[t].at \notin Reading /\ pc'[t].at \notin Reading /\ pc'[t].at \notin Accepting
    BY <1>9 DEF Accepting, Reading
  <2> QED BY <1>9, <2>1, AcceptMoves
<1>11. Typed'
  <2>1. \A u \in Socks : Within(sk'[u])
    BY <1>7, <1>8
  <2> QED BY <1>2, <1>8, <1>9, <2>1 DEF Typed, Within
<1>12. Counted'
  <2>1. ASSUME NEW u \in Socks
        PROVE  sk'[u].refs = (IF sk'[u].linked THEN 1 ELSE 0) + Users(u)'
    <3>1. CASE u = Lst
      BY <1>7, <1>8, <1>10, <3>1
    <3>2. CASE u # Lst
      BY <1>8, <1>10, <3>2 DEF RInv, Counted
    <3> QED BY <3>1, <3>2
  <2> QED BY <2>1 DEF Counted
<1>13. RxOK' /\ TimerOK' /\ CallsOK' /\ FreshOK' /\ SpliceOK' /\ SocksOK' /\ Addressed'
  <2>1. CallsOK'
    <3>1. k # None /\ t \notin Clients
      BY <1>1, <1>3, Names
    <3>2. /\ "user" \notin Accepting /\ "user" \notin Reading
          /\ "user" \notin {"connblock", "connect"}
      BY DEF Accepting, Reading
    <3> QED BY <1>3, <1>9, <3>1, <3>2 DEF RInv, CallsOK
  <2>2. FreshOK'
    <3>1. rx[Lst].kid # None => rx[Lst].kid \in Socks /\ rx[Lst].kid # Lst
      BY <1>2, Names DEF Typed
    <3> QED BY <1>8, <3>1 DEF RInv, FreshOK
  <2>3. SpliceOK'
    <3> SUFFICES ASSUME timer[Lst].at = "splice" PROVE HalfOpen(sk'[timer[Lst].sock])
      BY DEF SpliceOK, HalfOpen
    <3>1. timer[Lst].sock \in Socks /\ timer[Lst].sock # Lst /\ HalfOpen(sk[timer[Lst].sock])
      BY Names DEF RInv, TimerOK, SpliceOK
    <3> QED BY <1>8, <3>1
  <2>4. SocksOK'
    <3>1. ASSUME NEW u \in Socks PROVE SockOK(u, sk'[u])
      BY <1>7, <1>8
    <3> QED BY <3>1 DEF SocksOK, SockOK
  <2> QED BY <2>1, <2>2, <2>3, <2>4 DEF RInv, RxOK, TimerOK, Addressed, Routed
<1>14. \A x : InJob(x)' = InJob(x)
  BY DEF InJob
<1>15. /\ sk'[Lst].backlog = b /\ Range(sk[Lst].backlog) = Range(b) \cup {k}
       /\ rx'[Lst].kid = rx[Lst].kid
  BY <1>3, <1>7, <1>8 DEF o
<1>16. Apart'
  <2>1. OnceInJobs'
    BY <1>2, <1>14 DEF Apart, OnceInJobs
  <2>2. OnceAtThreads'
    <3>1. \A u \in Threads : pc[u].sock # k
      BY <1>2, <1>15 DEF Apart
    <3> QED BY <1>2, <1>9, <3>1 DEF Apart, OnceAtThreads
  <2>3. rx[Lst].kid \notin Range(b) /\ rx[Lst].kid # k
    BY <1>2, <1>15 DEF Apart
  <2>4. \A u \in Threads : /\ pc'[u].sock \notin Range(b)
                           /\ pc'[u].sock # None => pc'[u].sock # rx[Lst].kid
    BY <1>2, <1>3, <1>9, <1>15, <2>3 DEF Apart
  <2>5. ASSUME NEW x \in Doers
        PROVE  /\ InJob(x)' \cap Range(b) = {} /\ rx[Lst].kid \notin InJob(x)'
               /\ \A u \in Threads : pc'[u].sock \notin InJob(x)'
    <3>1. /\ InJob(x) \cap Range(sk[Lst].backlog) = {} /\ rx[Lst].kid \notin InJob(x)
          /\ \A u \in Threads : pc[u].sock \notin InJob(x)
      BY <1>2 DEF Apart
    <3> QED BY <1>9, <1>14, <1>15, <3>1
  <2> QED BY <1>3, <1>15, <2>1, <2>2, <2>3, <2>4, <2>5 DEF Apart
<1>17. OwnedOK'
  <2>1. \A u \in Socks : Owned(u)' <=> Owned(u)
    <3>1. \A u \in Socks : (\E v \in Threads : pc'[v].sock = u)
                           <=> ((\E v \in Threads : pc[v].sock = u) \/ u = k)
      BY <1>1, <1>9, Names
    <3> QED BY <1>14, <1>15, <3>1 DEF Owned
  <2>2. \A u \in Socks : sk'[u].linked = sk[u].linked
    BY <1>4, <1>7, <1>8
  <2>3. \A u \in Socks \ {Lst} : HalfOpen(sk'[u]) <=> HalfOpen(sk[u])
    BY <1>8
  <2>4. \A x \in Doers : \A j \in DOMAIN job'[x] :
          job'[x][j] = <<"unlink", Lst>> => sk'[Lst].st # "LISTEN"
    BY <1>2 DEF OwnedOK
  <2> QED BY <1>2, <2>1, <2>2, <2>3, <2>4 DEF OwnedOK, HalfOpen
<1>18. DeadChildSpliced'
  <2> SUFFICES ASSUME NEW c \in Range(b), HalfOpen(sk'[c])
               PROVE  timer[Lst].at = "splice" /\ timer[Lst].sock = c
    BY <1>15 DEF DeadChildSpliced, HalfOpen
  <2>1. c \in Range(sk[Lst].backlog) /\ c \in Kids
    BY <1>15, ListenerHas
  <2>2. HalfOpen(sk[c])
    BY <1>8, <2>1, Names
  <2> QED BY <2>1, <2>2 DEF RInv, DeadChildSpliced, HalfOpen
<1> QED BY <1>11, <1>12, <1>13, <1>16, <1>17, <1>18 DEF RInv

LEMMA AcceptTryInv ==
  ASSUME RInv, NEW t \in Threads, AcceptTry(t)
  PROVE  RInv'
<1> DEFINE r == sk[Lst]
           ready == {i \in DOMAIN r.backlog : Ready(r.backlog[i])}
           q == [r EXCEPT !.acc = t]
<1>1. /\ pc[t].at = "accept" /\ job[t] = <<>>
      /\ UNCHANGED <<wire, rx, timer, job, isn, used, sent, got, load, park>>
  BY DEF AcceptTry, At
<1>2. pc[t].at \in Accepting /\ pc[t].at \notin Reading
  BY <1>1 DEF Accepting, Reading
<1>3. /\ r \in Sockets /\ Within(r) /\ SockOK(Lst, r) /\ r.st \notin {"none", "freed"}
      /\ Lst \in Socks /\ Lst # rx[Lst].kid /\ Lst \in DOMAIN sk
  BY <1>2, AcceptHas, Names DEF RInv, Typed
<1>4. CASE /\ sk' = [sk EXCEPT ![Lst] = Put(@)]
           /\ Return(t)
  <2>1. /\ pc' = [pc EXCEPT ![t].at = "user"] /\ sig' = [sig EXCEPT ![t] = FALSE]
    BY <1>4 DEF Return, Goto
  <2>2. PICK s \in Socks : s = Lst
    BY <1>3
  <2>3. /\ sk' = [sk EXCEPT ![s] = Put(r)] /\ SockOK(s, r)
        /\ r.refs = sk[s].refs /\ r.linked = sk[s].linked /\ r.backlog = sk[s].backlog
        /\ r.st = sk[s].st /\ r.una = sk[s].una /\ r.iss = sk[s].iss
        /\ s = Lst /\ pc[t].at \in Accepting
    BY <1>2, <1>3, <1>4, <2>2
  <2>4. /\ sig' \in [Threads -> BOOLEAN] /\ got' \in [Socks -> Seq(Bytes)]
    BY <1>1, <2>1, Unchanged, ReturnType
  <2> HIDE DEF r
  <2> QED BY <1>1, <1>3, <2>1, <2>3, <2>4, LeaveInv
<1>5. CASE /\ r.st = "LISTEN" /\ ready # {}
           /\ sk' = [sk EXCEPT ![Lst] = Put([r EXCEPT !.backlog = RemoveAt(@, Min(ready))])]
           /\ pc' = [pc EXCEPT ![t] = [at |-> "user", sock |-> r.backlog[Min(ready)]]]
           /\ UNCHANGED sig
  <2>1. ready \subseteq Nat /\ ready \subseteq DOMAIN r.backlog
    <3> DEFINE o == r.backlog
    <3>1. o \in Seq(Kids)
      BY ListenerHas
    <3> HIDE DEF o
    <3>2. DOMAIN o \subseteq Nat
      BY <3>1, LenProperties
    <3> QED BY <3>2 DEF o
  <2> DEFINE i == Min(ready)
             k == r.backlog[i]
             b == RemoveAt(r.backlog, i)
             e == Put([r EXCEPT !.backlog = b])
             p == [at |-> "user", sock |-> k]
  <2>2. i \in ready
    <3> HIDE DEF ready
    <3>1. \E n \in ready : \A m \in ready : n <= m
      BY <1>5, <2>1, LeastNumber
    <3> QED BY <3>1 DEF Min
  <2>3. /\ sk' = [sk EXCEPT ![Lst] = e] /\ i \in DOMAIN sk[Lst].backlog
        /\ pc' = [pc EXCEPT ![t] = p] /\ sk[Lst].st = "LISTEN"
        /\ b = RemoveAt(sk[Lst].backlog, i) /\ k = sk[Lst].backlog[i]
        /\ e = Put([sk[Lst] EXCEPT !.backlog = b]) /\ p = [at |-> "user", sock |-> k]
    BY <1>3, <1>5, <2>1, <2>2
  <2>4. UNCHANGED <<wire, rx, timer, job, sig, isn, used, sent, got, load, park>>
    BY <1>1, <1>5
  <2>5. pc[t].at \in Accepting /\ job[t] = <<>>
    BY <1>1, <1>2
  <2> HIDE DEF i, k, b, e, p, r, ready
  <2> QED BY <2>3, <2>4, <2>5, TakeChildInv
<1>6. CASE /\ sk' = [sk EXCEPT ![Lst].acc = t]
           /\ Goto(t, "acceptblock")
           /\ UNCHANGED sig
  <2>1. /\ "acceptblock" \in CallPlaces /\ "acceptblock" \in Accepting
        /\ "acceptblock" \notin Reading
    BY DEF CallPlaces, Accepting, Reading
  <2>2. /\ sk' = [sk EXCEPT ![Lst] = q] /\ pc' = [pc EXCEPT ![t].at = "acceptblock"]
    BY <1>3, <1>6 DEF Goto
  <2> HIDE DEF r
  <2>3. /\ q \in Sockets /\ Within(q) /\ SockOK(Lst, q)
        /\ q.refs = r.refs /\ q.linked = r.linked /\ q.backlog = r.backlog
        /\ q.st = r.st /\ q.una = r.una /\ q.iss = r.iss
    BY <1>3, AccSet
  <2>4. HalfOpen(q) <=> HalfOpen(r)
    BY <2>3 DEF HalfOpen
  <2> HIDE DEF q
  <2> QED BY <1>1, <1>2, <1>3, <1>6, <2>1, <2>2, <2>3, <2>4, CallOn, Unchanged DEF r
<1> QED BY <1>4, <1>5, <1>6 DEF AcceptTry

(* close() begins: the reference goes from the descriptor to the close under
   way; or the listener, which nobody closes yet, gets one of its own. *)
LEMMA CloseInv ==
  ASSUME RInv, NEW t \in Threads, Close(t)
  PROVE  RInv'
<1>0. PICK s \in {pc[t].sock, Lst} :
        /\ pc[t].at = "user" /\ job[t] = <<>>
        /\ IF s = Lst THEN "closeL" \in load.can[t] /\ sk[Lst].st = "LISTEN" /\ ~Closing(Lst)
           ELSE "close" \in load.can[t] /\ s # None
        /\ job' = [job EXCEPT ![t] = <<<<"section", s>>>>]
        /\ pc' = [pc EXCEPT ![t].sock = IF s = @ THEN None ELSE @]
        /\ UNCHANGED <<sk, wire, rx, timer, sig, isn, used, sent, got, load, park>>
  BY DEF Close, At
<1> DEFINE w == IF s = pc[t].sock THEN None ELSE pc[t].sock
           n == <<<<"section", s>>>>
<1>1. Typed /\ Apart /\ OwnedOK
  BY DEF RInv
<1>2. /\ t \in Doers /\ t # Lst /\ s \in Socks /\ s # None
      /\ s # Lst => s = pc[t].sock
  <2>1. pc[t].sock \in Socks \cup {None}
    BY <1>1 DEF Typed
  <2> QED BY <1>0, <2>1, Names DEF Doers
<1>3. /\ n \in Seq(Entries) /\ DOMAIN n = {1} /\ n[1] = <<"section", s>> /\ n # <<>>
  <2>1. <<"section", s>> \in Entries
    BY <1>2 DEF Entries
  <2> QED BY <2>1
<1>4. /\ job' \in [Doers -> Seq(Entries)] /\ job'[t] = n
      /\ \A x \in Doers \ {t} : job'[x] = job[x]
  BY <1>0, <1>1, <1>2, <1>3 DEF Typed
<1>5. /\ InJob(t)' = {s} /\ InJob(t) = {}
      /\ \A x \in Doers \ {t} : InJob(x)' = InJob(x)
  <2>1. InJob(t)' = {n[i][2] : i \in {1}}
    BY <1>3, <1>4 DEF InJob
  <2>2. InJob(t)' = {s}
    BY <1>3, <2>1
  <2>3. InJob(t) = {}
    BY <1>0 DEF InJob
  <2>4. \A x \in Doers \ {t} : InJob(x)' = InJob(x)
    BY <1>4 DEF InJob
  <2> QED BY <2>2, <2>3, <2>4
<1> HIDE DEF n
<1>6. /\ pc' \in [Threads -> [at : CallPlaces, sock : Socks \cup {None}]]
      /\ pc'[t].at = "user" /\ pc'[t].sock = w
      /\ \A u \in Threads \ {t} : pc'[u] = pc[u]
      /\ w = None \/ w = pc[t].sock
  <2>1. w \in Socks \cup {None}
    BY <1>1 DEF Typed
  <2>2. pc' = [pc EXCEPT ![t].sock = w]
    BY <1>0
  <2>3. w = None \/ w = pc[t].sock
    OBVIOUS
  <2> HIDE DEF w
  <2> QED BY <1>0, <1>1, <2>1, <2>2, <2>3 DEF Typed
<1>7. (* s had one owner, the descriptor, or none. *)
      /\ \A x \in Doers : s \notin InJob(x)
      /\ s \notin Range(sk[Lst].backlog) /\ s # rx[Lst].kid
      /\ \A u \in Threads : pc'[u].sock # s
      /\ sk[s].linked
  <2>1. CASE s = Lst
    <3>1. \A x \in Doers : s \notin InJob(x)
      BY <1>0, <2>1 DEF Closing, InJob, Doers
    <3>2. s \notin Range(sk[Lst].backlog)
      BY <2>1, ListenerHas, Names
    <3>3. s # rx[Lst].kid
      BY <1>1, <2>1, Names DEF Typed
    <3>4. \A u \in Threads : pc[u].sock # Lst
      BY Names DEF RInv, CallsOK
    <3>5. sk[s].linked
      BY <1>0, <2>1, Names DEF RInv, SocksOK, SockOK
    <3> QED BY <1>6, <2>1, <3>1, <3>2, <3>3, <3>4, <3>5, Names
  <2>2. CASE s # Lst
    <3>1. s = pc[t].sock /\ w = None
      BY <1>2, <2>2
    <3>2. \A u \in Threads \ {t} : pc[u].sock # s
      BY <1>1, <1>2, <3>1 DEF Apart, OnceAtThreads
    <3>3. /\ \A x \in Doers : s \notin InJob(x)
          /\ s \notin Range(sk[Lst].backlog) /\ s # rx[Lst].kid
      BY <1>1, <1>2, <3>1 DEF Apart
    <3> QED BY <1>2, <1>6, <3>1, <3>2, <3>3, ThreadHas
  <2> QED BY <2>1, <2>2
<1>8. Typed'
  BY <1>0, <1>1, <1>4, <1>6 DEF Typed, Within
<1>9. \A u : Users(u)' = Users(u)
  <2>1. "user" \notin Accepting /\ "user" \notin Reading
    BY DEF Accepting, Reading
  <2> QED BY <1>0, <1>6, <2>1, UsersSame
<1>10. Counted'
  BY <1>0, <1>9 DEF RInv, Counted
<1>11. RxOK' /\ TimerOK' /\ CallsOK' /\ FreshOK' /\ SpliceOK' /\ SocksOK' /\ Addressed'
       /\ DeadChildSpliced'
  <2>1. RxOK'
    <3>1. job'[Lst] = job[Lst]
      BY <1>2, <1>4 DEF Doers
    <3> QED BY <1>0, <3>1 DEF RInv, RxOK
  <2>2. CallsOK'
    <3>1. /\ "user" \notin Accepting /\ "user" \notin Reading
          /\ "user" \notin {"connblock", "connect"}
      BY DEF Accepting, Reading
    <3>2. \A u \in Threads \ {t} : job'[u] = job[u]
      BY <1>4 DEF Doers
    <3> QED BY <1>6, <3>1, <3>2 DEF RInv, CallsOK
  <2> QED BY <1>0, <2>1, <2>2 DEF RInv, TimerOK, FreshOK, SpliceOK, SocksOK, SockOK, HalfOpen,
                                  Addressed, Routed, DeadChildSpliced
<1>12. Apart'
  <2>1. OnceInJobs'
    <3>1. ASSUME NEW x \in Doers, NEW i \in DOMAIN job'[x], NEW j \in DOMAIN job'[x],
                 job'[x][i][2] = job'[x][j][2]
          PROVE  i = j
      <4>1. CASE x = t
        BY <1>3, <1>4, <4>1
      <4>2. CASE x # t
        BY <1>1, <1>4, <3>1, <4>2 DEF Apart, OnceInJobs
      <4> QED BY <4>1, <4>2
    <3>2. \A x, y \in Doers : x # y => InJob(x)' \cap InJob(y)' = {}
      BY <1>1, <1>5, <1>7 DEF Apart, OnceInJobs
    <3> QED BY <3>1, <3>2 DEF OnceInJobs
  <2>2. OnceAtThreads'
    BY <1>1, <1>6 DEF Apart, OnceAtThreads
  <2>3. \A u \in Threads : pc'[u].sock = None \/ pc'[u].sock = pc[u].sock
    BY <1>6
  <2>4. ASSUME NEW x \in Doers
        PROVE  /\ InJob(x)' \cap Range(sk[Lst].backlog) = {} /\ rx[Lst].kid \notin InJob(x)'
               /\ \A u \in Threads : pc'[u].sock \notin InJob(x)'
    <3>1. InJob(x)' \subseteq InJob(x) \cup {s}
      BY <1>5
    <3>2. /\ InJob(x) \cap Range(sk[Lst].backlog) = {} /\ rx[Lst].kid \notin InJob(x)
          /\ \A u \in Threads : pc[u].sock \notin InJob(x)
      BY <1>1 DEF Apart
    <3>3. None \notin InJob(x)
      <4>1. \A i \in DOMAIN job[x] : job[x][i] \in Entries
        BY <1>1, ElementOfSeq, LenProperties DEF Typed
      <4> QED BY <4>1, Names DEF InJob, Entries
    <3> QED BY <1>2, <1>7, <2>3, <3>1, <3>2, <3>3
  <2>5. \A u \in Threads : /\ pc'[u].sock \notin Range(sk[Lst].backlog)
                           /\ pc'[u].sock # None => pc'[u].sock # rx[Lst].kid
    <3>1. None \notin Range(sk[Lst].backlog)
      BY ListenerHas, Names
    <3> QED BY <1>1, <2>3, <3>1 DEF Apart
  <2> QED BY <1>0, <1>1, <2>1, <2>2, <2>4, <2>5 DEF Apart
<1>13. OwnedOK'
  <2>1. \A u \in Socks : Owned(u)' => Owned(u) \/ u = s
    <3>1. \A u \in Socks : (\E x \in Doers : u \in InJob(x)') =>
                           (\E x \in Doers : u \in InJob(x)) \/ u = s
      BY <1>5
    <3>2. \A u \in Socks : (\E v \in Threads : pc'[v].sock = u) => (\E v \in Threads : pc[v].sock = u)
      BY <1>6, Names
    <3> QED BY <1>0, <3>1, <3>2 DEF Owned
  <2>2. \A u \in Socks : Owned(u) => Owned(u)'
    <3>1. \A u \in Socks : (\E x \in Doers : u \in InJob(x)) =>
                           (\E x \in Doers : u \in InJob(x)')
      BY <1>5
    <3>2. \A u \in Socks : (\E v \in Threads : pc[v].sock = u) =>
             (\E v \in Threads : pc'[v].sock = u) \/ (\E x \in Doers : u \in InJob(x)')
      <4>1. \A u \in Socks : pc[t].sock = u => pc'[t].sock = u \/ u = s
        BY <1>6
      <4> QED BY <1>2, <1>5, <1>6, <4>1
    <3> QED BY <1>0, <3>1, <3>2 DEF Owned
  <2>3. ASSUME NEW x \in Doers, NEW i \in DOMAIN job'[x], job'[x][i] = <<"unlink", Lst>>
        PROVE  sk'[Lst].st # "LISTEN"
    <3>1. x # t
      BY <1>3, <1>4, <2>3
    <3> QED BY <1>0, <1>1, <1>4, <2>3, <3>1 DEF OwnedOK
  <2> QED BY <1>0, <1>1, <1>7, <2>1, <2>2, <2>3 DEF OwnedOK, HalfOpen
<1> QED BY <1>8, <1>10, <1>11, <1>12, <1>13 DEF RInv

----------------------------------------------------------------------------
(* The first state, and every step *)

LEMMA InitRInv ==
  ASSUME Init
  PROVE  RInv
<1> DEFINE l == Created("LISTEN", None)
           c == Created("CLOSED", Lst)
           b == Blank
<1>1. /\ load \in Loads
      /\ sk = [s \in Socks |-> IF s = Lst THEN l ELSE IF s \in Clients THEN c ELSE b]
      /\ wire = [h \in Hosts |-> <<>>]
      /\ rx = [h \in Hosts |-> RxIdle]
      /\ timer = [h \in Hosts |-> TimerIdle]
      /\ pc = [t \in Threads |-> [at |-> "user", sock |-> IF t \in Clients THEN t ELSE None]]
      /\ job = [x \in Doers |-> <<>>]
      /\ sig = [t \in Threads |-> FALSE]
      /\ isn = [h \in Hosts |-> FirstIsn]
      /\ used = [lose |-> 0, dup |-> 0, signals |-> 0]
      /\ sent = [s \in Socks |-> 0]
      /\ got = [s \in Socks |-> <<>>]
      /\ park \in [Threads -> Phases]
  BY DEF Init, Doers, Phases
<1>2. /\ l \in Sockets /\ c \in Sockets /\ b \in Sockets
  BY CreatedType, BlankType DEF States, Addrs, Hosts
<1>3. /\ l.st = "LISTEN" /\ l.refs = 1 /\ l.linked = TRUE /\ l.backlog = <<>> /\ l.rx = <<>>
      /\ l.cnt = 0 /\ l.rtx = FALSE
      /\ c.st = "CLOSED" /\ c.refs = 1 /\ c.linked = TRUE /\ c.backlog = <<>> /\ c.rx = <<>>
      /\ c.cnt = 0 /\ c.rtx = FALSE
      /\ b.st = "none" /\ b.refs = 0 /\ b.linked = FALSE /\ b.backlog = <<>> /\ b.rx = <<>>
      /\ b.cnt = 0 /\ b.rtx = FALSE
  BY DEF Created, Blank
<1>4. b = [Blank EXCEPT !.st = b.st]
  BY DEF Blank
<1> HIDE DEF l, c, b
<1>5. /\ sk \in [Socks -> Sockets] /\ sk[Lst] = l
      /\ \A s \in Clients : sk[s] = c
      /\ \A s \in Kids : sk[s] = b
  BY <1>1, <1>2, Names
<1>6. \A s \in Socks : Within(sk[s])
  <2>1. load.retries \in Nat /\ load.backlog \in Nat /\ RxSize \in Nat /\ Len(<<>>) = 0
    BY <1>1, LoadFacts, TcpSizes
  <2>2. Within(l) /\ Within(c) /\ Within(b)
    BY <1>3, <2>1 DEF Within
  <2> QED BY <1>5, <2>2, Names
<1>7. SocksOK
  <2>1. SockOK(Lst, l)
    BY <1>3, Names DEF SockOK
  <2>2. ASSUME NEW s \in Clients PROVE SockOK(s, c)
    BY <1>3, Names DEF SockOK
  <2>3. ASSUME NEW s \in Kids PROVE SockOK(s, b)
    BY <1>3, <1>4, Names DEF SockOK, Synchronised
  <2>4. ASSUME NEW s \in Socks PROVE SockOK(s, sk[s])
    BY <1>5, <2>1, <2>2, <2>3, Names
  <2> QED BY <2>4 DEF SocksOK
<1>8. /\ \A h \in Hosts : /\ rx[h].at = "idle" /\ rx[h].sock = None /\ rx[h].kid = None
                          /\ timer[h].at = "idle" /\ timer[h].sock = None
      /\ \A t \in Threads : pc[t].at = "user"
      /\ \A t \in Clients : pc[t].sock = t
      /\ \A t \in Threads \ Clients : pc[t].sock = None
      /\ \A x \in Doers : job[x] = <<>> /\ InJob(x) = {}
      /\ Range(sk[Lst].backlog) = {} /\ IsInjective(sk[Lst].backlog)
  <2>1. \A x \in Doers : job[x] = <<>> /\ InJob(x) = {}
    BY <1>1 DEF InJob
  <2>2. Range(sk[Lst].backlog) = {} /\ IsInjective(sk[Lst].backlog)
    BY <1>3, <1>5 DEF Range, IsInjective
  <2> QED BY <1>1, <2>1, <2>2, Names DEF RxIdle, TimerIdle
<1>9. Typed
  <2>1. wire \in [Hosts -> Seq(Segments)]
    BY <1>1
  <2>2. rx \in [Hosts -> [at : RxPlaces, seg : Segments \cup {None}, sock : Socks \cup {None},
                          kid : Kids \cup {None}]]
    BY <1>1 DEF RxIdle, RxPlaces
  <2>3. timer \in [Hosts -> [at : TimerPlaces, sock : Socks \cup {None}]]
    BY <1>1 DEF TimerIdle, TimerPlaces
  <2>4. pc \in [Threads -> [at : CallPlaces, sock : Socks \cup {None}]]
    BY <1>1, Names DEF CallPlaces
  <2>5. job \in [Doers -> Seq(Entries)] /\ got \in [Socks -> Seq(Bytes)]
    BY <1>1
  <2>6. isn \in [Hosts -> Seqs]
    BY <1>1, FirstIsnIn
  <2> QED BY <1>1, <1>5, <1>6, <2>1, <2>2, <2>3, <2>4, <2>5, <2>6 DEF Typed
<1>10. Addressed
  BY <1>1 DEF Addressed, Routed
<1>11. RxOK /\ FreshOK /\ TimerOK /\ SpliceOK
  <2>1. job[Lst] = <<>>
    BY <1>8 DEF Doers
  <2> QED BY <1>8, <2>1, Names DEF RxOK, FreshOK, TimerOK, SpliceOK
<1>12. CallsOK
  <2>1. \A t \in Threads : job[t] = <<>>
    BY <1>8 DEF Doers
  <2> QED BY <1>8, <2>1, Names DEF CallsOK, Accepting, Reading
<1>13. Apart
  <2>1. OnceInJobs
    BY <1>8 DEF OnceInJobs
  <2>2. OnceAtThreads
    BY <1>8 DEF OnceAtThreads
  <2> QED BY <1>8, <2>1, <2>2, Names DEF Apart
<1>14. OwnedOK
  <2>1. ASSUME NEW s \in Socks, Owned(s) PROVE sk[s].linked
    <3>1. s \in Clients
      BY <1>8, <2>1, Names DEF Owned
    <3> QED BY <1>3, <1>5, <3>1
  <2>2. ASSUME NEW s \in Socks \ {Lst}, sk[s].linked PROVE Owned(s)
    <3>1. s \in Clients
      BY <1>3, <1>5, <2>2, Names
    <3> QED BY <1>8, <3>1, Names DEF Owned
  <2> QED BY <1>8, <2>1, <2>2 DEF OwnedOK
<1>15. Counted
  <2>1. ASSUME NEW s \in Socks PROVE Users(s) = 0
    <3>1. RxOn(s) = {} /\ TimerOn(s) = {} /\ AcceptingOn(s) = {} /\ ReadingOn(s) = {}
      BY <1>8, Names DEF RxOn, TimerOn, AcceptingOn, ReadingOn, Accepting, Reading
    <3> QED BY <3>1, FS_EmptySet DEF Users
  <2> QED BY <1>3, <1>5, <2>1, Names DEF Counted
<1>16. DeadChildSpliced
  BY <1>8 DEF DeadChildSpliced
<1> QED BY <1>7, <1>9, <1>10, <1>11, <1>12, <1>13, <1>14, <1>15, <1>16 DEF RInv

LEMMA NextRInv ==
  ASSUME RInv, Next
  PROVE  RInv'
<1>1. ASSUME NEW h \in Hosts, NEW i \in 1 .. 2, NEW dup \in BOOLEAN, RxLookup(h, i, dup)
      PROVE  RInv'
  BY <1>1, LookupInv
<1>2. ASSUME NEW h \in Hosts, Rx(h)
      PROVE  RInv'
  BY <1>2, RejectInv, ResetInv, ListenInv, ChildInv, BacklogInv, ClosedInv, SynSentInv,
     SynReceivedInv, NotifyInv, EstablishedInv, FinWaitInv, RestInv DEF Rx
<1>3. ASSUME NEW h \in Hosts, Lose(h)
      PROVE  RInv'
  BY <1>3, LoseInv
<1>4. ASSUME NEW h \in Hosts, Tick(h)
      PROVE  RInv'
  BY <1>4, TickAgainInv, GiveUpInv, SpliceInv DEF Tick
<1>5. ASSUME NEW s \in Socks, TickTake(s)
      PROVE  RInv'
  BY <1>5, TakeInv
<1>6. ASSUME NEW x \in Doers, CloseSection(x) \/ CloseUnlink(x)
      PROVE  RInv'
  BY <1>6, SectionInv, UnlinkInv
<1>7. ASSUME NEW t \in Clients, NEW nonblock \in BOOLEAN, Connect(t, nonblock)
      PROVE  RInv'
  BY <1>7, ConnectInv
<1>8. ASSUME NEW t \in Threads, NEW n \in {1, Mss + 1}, Send(t, n)
      PROVE  RInv'
  BY <1>8, SendInv
<1>9. ASSUME NEW t \in Threads, Accept(t) \/ Recv(t) \/ Shutdown(t) \/ Close(t) \/ Signal(t)
      PROVE  RInv'
  BY <1>9, AcceptInv, RecvInv, ShutdownInv, CloseInv, SignalInv
<1>10. ASSUME NEW t \in Threads, Call(t)
       PROVE  RInv'
  BY <1>10, SleepInv, ConnectWokenInv, AcceptTryInv, AcceptWokenInv, RecvTryInv, RecvWokenInv
     DEF Call
<1> QED BY <1>1, <1>2, <1>3, <1>4, <1>5, <1>6, <1>7, <1>8, <1>9, <1>10 DEF Next, Doers

LEMMA StutterRInv ==
  ASSUME RInv, UNCHANGED vars
  PROVE  RInv'
<1>1. UNCHANGED <<sk, wire, rx, timer, pc, job, sig, isn, used, sent, got, load, park>>
  BY DEF vars
<1>2. \A u : Users(u)' = Users(u)
  BY <1>1, UsersSame
<1>3. \A x : InJob(x)' = InJob(x)
  BY <1>1 DEF InJob
<1>4. Typed'
  BY <1>1 DEF RInv, Typed, Within
<1>5. Apart' /\ OwnedOK'
  BY <1>1, <1>3 DEF RInv, Apart, OnceInJobs, OnceAtThreads, OwnedOK, Owned, HalfOpen
<1>6. Counted'
  BY <1>1, <1>2 DEF RInv, Counted
<1> QED BY <1>1, <1>4, <1>5, <1>6 DEF RInv, Addressed, Routed, SocksOK, SockOK, RxOK, FreshOK,
                                      TimerOK, SpliceOK, CallsOK, DeadChildSpliced, HalfOpen

(* In every state each reference of a socket has a holder and each holder a
   reference, each socket in the lists has one owner, and what the fields of a
   socket say of each other agrees with where the receive path, the timer and
   the calls of tcp.c are. *)
THEOREM AlwaysR == Spec => []RInv
<1>1. RInv /\ [Next]_vars => RInv'
  BY NextRInv, StutterRInv
<1> QED BY InitRInv, <1>1, PTL DEF Spec

(* A set with no two elements has none or one. *)
LEMMA NoneOrOne ==
  ASSUME NEW S, \A x, y \in S : x = y
  PROVE  (S = {} => Cardinality(S) = 0) /\ (S # {} => Cardinality(S) = 1)
<1>1. CASE S = {}
  BY <1>1, FS_EmptySet
<1>2. CASE S # {}
  <2>1. PICK x \in S : TRUE
    BY <1>2
  <2>2. S = {x}
    BY <2>1
  <2> QED BY <1>2, <2>2, FS_Singleton
<1> QED BY <1>1, <1>2

LEMMA RefsFromR ==
  ASSUME RInv
  PROVE  RefsExact
<1>1. Typed /\ CallsOK /\ Counted
  BY DEF RInv
<1>2. TypeOK
  <2>1. ASSUME NEW s \in Socks
        PROVE  LET r == sk[s] IN
               /\ r.st \in States
               /\ {r.iss, r.una, r.nxt, r.rcv} \subseteq 0 .. Wrap - 1
               /\ r.refs \in Nat /\ r.cnt \in 0 .. load.retries
               /\ Len(r.rx) <= RxSize
               /\ r.backlog \in Seq(Kids) /\ Len(r.backlog) <= load.backlog
               /\ {r.conn, r.acc, r.rxw} \subseteq Threads \cup {None}
    <3>1. PICK r \in Sockets : r = sk[s]
      BY <1>1 DEF Typed
    <3>2. Within(r) /\ load.retries \in Nat
      BY <1>1, <3>1, LoadFacts DEF Typed
    <3>3. r.cnt \in 0 .. load.retries
      BY <3>2, SocketFields DEF Within
    <3> QED BY <3>1, <3>2, <3>3, SocketFields DEF Within, Seqs
  <2>2. ASSUME NEW h \in Hosts
        PROVE  rx[h].at \in RxPlaces /\ timer[h].at \in TimerPlaces
    BY <1>1 DEF Typed
  <2>3. ASSUME NEW t \in Threads
        PROVE  pc[t].sock \in Socks \cup {None}
    BY <1>1 DEF Typed
  <2>4. sig \in [Threads -> BOOLEAN] /\ park \in [Threads -> Phases]
    BY <1>1 DEF Typed
  <2> QED BY <2>1, <2>2, <2>3, <2>4 DEF TypeOK, States, RxPlaces, TimerPlaces
<1>3. ASSUME NEW s \in Socks
      PROVE  sk[s].refs = Holders(s)
  <2>1. /\ Users(s) = Cardinality(RxOn(s)) + Cardinality(TimerOn(s))
                      + Cardinality(AcceptingOn(s)) + Cardinality(ReadingOn(s))
        /\ Cardinality(RxOn(s)) \in Nat /\ Cardinality(TimerOn(s)) \in Nat
        /\ Cardinality(AcceptingOn(s)) \in Nat /\ Cardinality(ReadingOn(s)) \in Nat
    BY UsersNat DEF Users
  <2>2. PICK n \in {0, 1} : n = (IF sk[s].linked THEN 1 ELSE 0)
    OBVIOUS
  <2>3. Holders(s) = n + Cardinality(RxOn(s)) + Cardinality(TimerOn(s))
                     + Cardinality(AcceptingOn(s)) + Cardinality(ReadingOn(s))
    BY <2>2 DEF Holders, RxOn, TimerOn, AcceptingOn, ReadingOn, Accepting, Reading
  <2>4. sk[s].refs = n + Users(s)
    BY <1>1, <2>2 DEF Counted
  <2> QED BY <2>1, <2>3, <2>4
<1> QED BY <1>2, <1>3 DEF RefsExact

LEMMA OwnerFromR ==
  ASSUME RInv
  PROVE  OneOwner
<1>1. /\ Typed /\ RxOK /\ Apart /\ OwnedOK
  BY DEF RInv
<1> SUFFICES ASSUME NEW s \in Socks \ {Lst}
             PROVE  LET owners == Cardinality({t \in Threads : pc[t].sock = s})
                                  + Occurs(sk[Lst].backlog, s)
                                  + Cardinality({h \in Hosts : rx[h].kid = s})
                                  + Cardinality({x \in Threads \cup {Lst} :
                                       \E i \in DOMAIN job[x] : job[x][i][2] = s})
                        givenup == s \in Kids /\ sk[s].st = "CLOSED" /\ sk[s].una = sk[s].iss
                    IN IF sk[s].linked THEN owners = 1 \/ (owners = 0 /\ givenup)
                       ELSE owners = 0
  BY DEF OneOwner
<1> DEFINE T == {t \in Threads : pc[t].sock = s}
           B == {i \in DOMAIN sk[Lst].backlog : sk[Lst].backlog[i] = s}
           H == {h \in Hosts : rx[h].kid = s}
           J == {x \in Threads \cup {Lst} : \E i \in DOMAIN job[x] : job[x][i][2] = s}
           owner == \/ \E t \in Threads : pc[t].sock = s
                    \/ s \in Range(sk[Lst].backlog)
                    \/ rx[Lst].kid = s
                    \/ \E x \in Doers : s \in InJob(x)
<1>2. s \in Socks /\ s # None
  BY Names
<1>3. (T # {} <=> \E t \in Threads : pc[t].sock = s) /\ \A x, y \in T : x = y
  BY <1>1, <1>2 DEF Apart, OnceAtThreads
<1>4. (B # {} <=> s \in Range(sk[Lst].backlog)) /\ \A x, y \in B : x = y
  BY <1>1 DEF Apart, IsInjective, Range
<1>5. H \subseteq {Lst} /\ (H # {} <=> rx[Lst].kid = s)
  <2>1. ASSUME NEW h \in Hosts, rx[h].kid = s
        PROVE  h = Lst
    BY <1>1, <1>2, <2>1, Names DEF RxOK
  <2> QED BY <2>1, Names
<1>6. (J # {} <=> \E x \in Doers : s \in InJob(x)) /\ \A x, y \in J : x = y
  <2>1. \A x : (\E i \in DOMAIN job[x] : job[x][i][2] = s) <=> s \in InJob(x)
    BY DEF InJob
  <2>2. \A x : x \in J <=> x \in Doers /\ s \in InJob(x)
    BY <2>1 DEF Doers
  <2>3. \A x, y \in Doers : x # y => ~(s \in InJob(x) /\ s \in InJob(y))
    BY <1>1 DEF Apart, OnceInJobs
  <2> HIDE DEF J
  <2> QED BY <2>2, <2>3
<1>7. PICK a \in {0, 1}, b \in {0, 1}, c \in {0, 1}, d \in {0, 1} :
        /\ a = Cardinality(T) /\ b = Cardinality(B) /\ c = Cardinality(H) /\ d = Cardinality(J)
        /\ a = 1 <=> \E t \in Threads : pc[t].sock = s
        /\ b = 1 <=> s \in Range(sk[Lst].backlog)
        /\ c = 1 <=> rx[Lst].kid = s
        /\ d = 1 <=> \E x \in Doers : s \in InJob(x)
  <2>1. (T = {} => Cardinality(T) = 0) /\ (T # {} => Cardinality(T) = 1)
    BY <1>3, NoneOrOne
  <2>2. (B = {} => Cardinality(B) = 0) /\ (B # {} => Cardinality(B) = 1)
    BY <1>4, NoneOrOne
  <2>3. (H = {} => Cardinality(H) = 0) /\ (H # {} => Cardinality(H) = 1)
    BY <1>5, NoneOrOne
  <2>4. (J = {} => Cardinality(J) = 0) /\ (J # {} => Cardinality(J) = 1)
    BY <1>6, NoneOrOne
  <2> HIDE DEF T, B, H, J
  <2> QED BY <1>3, <1>4, <1>5, <1>6, <2>1, <2>2, <2>3, <2>4
<1>8. /\ a = 1 => b = 0 /\ c = 0 /\ d = 0
      /\ b = 1 => c = 0 /\ d = 0
      /\ c = 1 => d = 0
  BY <1>1, <1>2, <1>7 DEF Apart
<1>9. Owned(s) <=> a + b + c + d = 1
  <2>1. Owned(s) <=> a = 1 \/ b = 1 \/ c = 1 \/ d = 1
    BY <1>7 DEF Owned
  <2> QED BY <1>8, <2>1
<1>10. ~Owned(s) => a + b + c + d = 0
  BY <1>8, <1>9
<1>11. /\ Owned(s) => sk[s].linked
       /\ sk[s].linked => Owned(s) \/ (s \in Kids /\ HalfOpen(sk[s]))
  BY <1>1 DEF OwnedOK
<1>12. Occurs(sk[Lst].backlog, s) = b
  BY <1>7 DEF Occurs
<1>13. IF sk[s].linked THEN \/ a + b + c + d = 1
                            \/ a + b + c + d = 0 /\ s \in Kids /\ HalfOpen(sk[s])
       ELSE a + b + c + d = 0
  BY <1>9, <1>10, <1>11
<1> QED BY <1>7, <1>12, <1>13 DEF HalfOpen

(* tcp_sock_get() and tcp_sock_put() balance: the count is the number of those
   that took a reference (Holders), for any clients, threads, children and load,
   whatever the wire does; so the last put is the one that frees.  Calls that
   use a socket without a reference are outside it (the assumption in Tcp). *)
THEOREM AlwaysRefsExact == Spec => []RefsExact
BY RefsFromR, AlwaysR, PTL

(* Whoever is to close a socket is one: the descriptor of a thread, the backlog,
   the receive path that has just made the child, or one tcp_socket_close().
   Only a child that the timer gave up is in the lists and belongs to nobody. *)
THEOREM AlwaysOneOwner == Spec => []OneOwner
BY OwnerFromR, AlwaysR, PTL

(* A half-open child that tcp_timer_tick() gave up is in the backlog only until
   the same tick takes it out; nobody else leaves one there. *)
THEOREM AlwaysDeadChildSpliced == Spec => []DeadChildSpliced
<1>1. RInv => DeadChildSpliced
  BY DEF RInv
<1> QED BY <1>1, AlwaysR, PTL

----------------------------------------------------------------------------
(* SLEEP *)

(* The receive path, the timer and the closing jobs: no thread moves, those in
   S are woken. *)
Quits(S) == \/ sk[Lst].acc \in S \cup {None}
            \/ sk[Lst].st # "LISTEN"

Stays == /\ sk'[Lst].acc = sk[Lst].acc /\ sk'[Lst].st = sk[Lst].st
         /\ \A k \in Range(sk'[Lst].backlog) :
              Ready(k)' => \/ Told(k)'
                           \/ k \in Range(sk[Lst].backlog) /\ Ready(k) /\ ~Told(k)

(* r becomes q: its state goes forward, and a reader is woken, has nothing new
   to see, or is not there. *)
Fit(r, q, S) ==
  /\ q.st \in {"LAST_ACK", "SYN_RECEIVED", "SYN_SENT"} => q.st = r.st
  /\ \/ r.rxw \in S \cup {None}
     \/ q.rxw = r.rxw /\ q.rx = r.rx /\ (q.st = r.st \/ ~Eof(q) \/ q.st = "TIME_WAIT")
     \/ r.st \in {"SYN_SENT", "SYN_RECEIVED", "LAST_ACK", "CLOSED"}

LEMMA HostStep ==
  ASSUME RInv, NInv, UNCHANGED <<pc, load>>, NEW S, Unblock(S),
         Quits(S) \/ Stays,
         \A t \in Threads : pc[t].sock # None => Fit(sk[pc[t].sock], sk'[pc[t].sock], S)
  PROVE  NInv'
<1> SUFFICES ASSUME NEW t \in Threads PROVE ThreadOK(t)'
  BY DEF NInv
<1> DEFINE s == pc[t].sock
<1>1. AcceptorOK(t) /\ ReaderOK(t) /\ UsableOK(t) /\ PlaceOK(t)
  BY DEF NInv, ThreadOK
<1>2. t # None /\ park[t] \in Phases
  BY Names DEF RInv, Typed
<1>3. /\ t \notin S => park'[t] = park[t]
      /\ t \in S => park'[t] = IF park[t] = "parked" THEN "run" ELSE "token"
  BY DEF Unblock
<1>4. PlaceOK(t)'
  BY <1>1, <1>2, <1>3 DEF PlaceOK
<1>5. \A b, w : Dozes(t, b, w)' /\ b \notin {"connect", "acceptwoken", "recvwoken"}
                => Dozes(t, b, w) /\ t \notin S
  BY <1>1, <1>2, <1>3 DEF Dozes, PlaceOK, Phases
<1>6. AcceptorOK(t)'
  <2> SUFFICES ASSUME Dozes(t, "acceptblock", "acceptwoken")' PROVE AcceptorOK(t)'
    BY DEF AcceptorOK
  <2>1. Dozes(t, "acceptblock", "acceptwoken") /\ t \notin S
    BY <1>5
  <2>2. /\ sk[Lst].acc = t /\ sk[Lst].st = "LISTEN"
        /\ \A k \in Range(sk[Lst].backlog) : Ready(k) => Told(k)
    BY <1>1, <2>1 DEF AcceptorOK
  <2>3. Stays
    BY <1>2, <2>1, <2>2 DEF Quits
  <2> QED BY <2>2, <2>3 DEF Stays, AcceptorOK
<1>7. UsableOK(t)'
  <2> SUFFICES ASSUME s # None PROVE Usable(t, sk[s])'
    BY DEF UsableOK
  <2>1. Usable(t, sk[s])
    BY <1>1 DEF UsableOK
  <2>2. Fit(sk[s], sk'[s], S)
    OBVIOUS
  <2> QED BY <2>1, <2>2 DEF Usable, Fit
<1>8. ReaderOK(t)'
  <2> SUFFICES ASSUME Dozes(t, "recvblock", "recvwoken")' PROVE Waits(t, sk[s])'
    BY DEF ReaderOK
  <2>1. Dozes(t, "recvblock", "recvwoken") /\ t \notin S
    BY <1>5
  <2>2. Waits(t, sk[s])
    BY <1>1, <2>1 DEF ReaderOK
  <2>3. pc[t].at \in Reading
    BY <2>1 DEF Dozes, Reading
  <2>4. s # None
    BY <2>3 DEF RInv, CallsOK
  <2>5. Fit(sk[s], sk'[s], S) /\ Usable(t, sk[s])
    BY <1>1, <2>4 DEF UsableOK
  <2>6. sk[s].st \notin {"SYN_SENT", "SYN_RECEIVED", "LAST_ACK", "CLOSED"}
    BY <2>2, <2>3, <2>5 DEF Usable, Waits, Eof
  <2>7. sk'[s].rxw = t /\ sk'[s].rx = <<>>
        /\ (sk'[s].st = sk[s].st \/ ~Eof(sk'[s]) \/ sk'[s].st = "TIME_WAIT")
    BY <1>2, <2>1, <2>2, <2>5, <2>6 DEF Fit, Waits
  <2>8. Eof(sk'[s]) => sk'[s].st = "TIME_WAIT"
    BY <2>2, <2>7 DEF Waits, Eof
  <2> QED BY <2>7, <2>8 DEF Waits, Eof
<1> QED BY <1>4, <1>6, <1>7, <1>8 DEF ThreadOK

(* The step of a thread, in a call or between two. *)
LEMMA ThreadStep ==
  ASSUME RInv, NInv, OneAcceptor, NEW t \in Threads, UNCHANGED <<rx, load>>,
         \A u \in Threads \ {t} : pc'[u] = pc[u] /\ park'[u] = park[u],
         \A s \in Socks \ {Lst} : s # pc[t].sock => sk'[s] = sk[s],
         \/ pc[t].at \in Accepting
         \/ /\ sk'[Lst].acc = sk[Lst].acc /\ sk'[Lst].st = sk[Lst].st
            /\ sk'[Lst].backlog = sk[Lst].backlog,
         ThreadOK(t)'
  PROVE  NInv'
<1> SUFFICES ASSUME NEW u \in Threads \ {t} PROVE ThreadOK(u)'
  BY DEF NInv
<1> DEFINE s == pc[u].sock
<1>1. AcceptorOK(u) /\ ReaderOK(u) /\ UsableOK(u) /\ PlaceOK(u)
  BY DEF NInv, ThreadOK
<1>2. pc'[u] = pc[u] /\ park'[u] = park[u]
  OBVIOUS
<1>3. s # None => sk'[s] = sk[s]
  <2> SUFFICES ASSUME s # None PROVE sk'[s] = sk[s]
    OBVIOUS
  <2>1. s \in Socks /\ s # Lst
    BY ThreadHas
  <2>2. s # pc[t].sock
    BY DEF RInv, Apart, OnceAtThreads
  <2> QED BY <2>1, <2>2
<1>4. \A b, w : Dozes(u, b, w)' <=> Dozes(u, b, w)
  BY <1>2 DEF Dozes
<1>5. AcceptorOK(u)'
  <2> SUFFICES ASSUME Dozes(u, "acceptblock", "acceptwoken")' PROVE AcceptorOK(u)'
    BY DEF AcceptorOK
  <2>1. Dozes(u, "acceptblock", "acceptwoken")
    BY <1>4
  <2>2. pc[t].at \notin Accepting
    <3>1. pc[u].at \in Accepting /\ "accept" \in load.can[u]
      BY <1>1, <2>1 DEF Dozes, Accepting, PlaceOK
    <3>2. pc[t].at \in Accepting => "accept" \in load.can[t]
      BY DEF NInv, ThreadOK, PlaceOK
    <3>3. load \in Loads
      BY DEF RInv, Typed
    <3> QED BY <3>1, <3>2, <3>3 DEF OneAcceptor
  <2>3. /\ sk[Lst].acc = u /\ sk[Lst].st = "LISTEN"
        /\ \A k \in Range(sk[Lst].backlog) : Ready(k) => Told(k)
    BY <1>1, <2>1 DEF AcceptorOK
  <2>4. ASSUME NEW k \in Range(sk[Lst].backlog) PROVE sk'[k] = sk[k]
    <3>1. k \in Kids
      BY Names, RangeOf DEF RInv, Typed, Sockets
    <3>2. k # pc[t].sock
      BY DEF RInv, Apart
    <3> QED BY <3>1, <3>2, Names
  <2> QED BY <2>2, <2>3, <2>4 DEF AcceptorOK, Ready, Told
<1>6. UsableOK(u)'
  BY <1>1, <1>2, <1>3 DEF UsableOK, Usable
<1>7. ReaderOK(u)'
  <2> SUFFICES ASSUME Dozes(u, "recvblock", "recvwoken")' PROVE Waits(u, sk[s])'
    BY <1>2 DEF ReaderOK
  <2>1. Dozes(u, "recvblock", "recvwoken")
    BY <1>4
  <2>2. s # None
    BY <2>1 DEF Dozes, Reading, RInv, CallsOK
  <2> QED BY <1>1, <1>2, <1>3, <2>1, <2>2 DEF ReaderOK, Waits, Eof
<1>8. PlaceOK(u)'
  BY <1>1, <1>2 DEF PlaceOK
<1> QED BY <1>5, <1>6, <1>7, <1>8 DEF ThreadOK

(* Nobody is woken. *)
LEMMA NobodyWoken ==
  ASSUME RInv, park' = park
  PROVE  Unblock({})
<1>1. park \in [Threads -> Phases]
  BY DEF RInv, Typed
<1> QED BY <1>1 DEF Unblock

(* What is in the lists and in use does not go with the reference. *)
LEMMA PutKeeps ==
  ASSUME RInv, NEW s \in Socks, sk[s].linked, Users(s) # 0,
         NEW q \in Sockets, q.refs = sk[s].refs
  PROVE  LET p == Put(q) IN
         /\ p.st = q.st /\ p.acc = q.acc /\ p.rxw = q.rxw /\ p.rx = q.rx
         /\ p.backlog = q.backlog
<1>1. sk[s].refs = 1 + Users(s) /\ Users(s) \in Nat
  BY UsersNat DEF RInv, Counted
<1>2. q.refs # 1 /\ q.refs # 0
  BY <1>1
<1>3. Put(q) = [q EXCEPT !.refs = q.refs - 1]
  BY <1>2, PutFacts
<1> QED BY <1>3 DEF Sockets

LEMMA ListenerLinked ==
  ASSUME RInv, sk[Lst].st = "LISTEN"
  PROVE  sk[Lst].linked
BY Names DEF RInv, SocksOK, SockOK

(* No child in the backlog is handled by a step on another socket. *)
LEMMA BacklogKid ==
  ASSUME RInv, NEW k \in Range(sk[Lst].backlog)
  PROVE  k \in Kids /\ k \in Socks /\ k # Lst
<1>1. sk[Lst].backlog \in Seq(Kids)
  BY Names DEF RInv, Typed, Sockets
<1>2. k \in Kids
  BY <1>1, RangeOf
<1> QED BY <1>2, Names

LEMMA SectionStep ==
  ASSUME RInv, NInv, UNCHANGED <<pc, load>>, NEW s \in Socks, Users(s) # 0,
         NEW q \in Sockets, q.refs = sk[s].refs, sk' = [sk EXCEPT ![s] = Put(q)],
         NEW S, Unblock(S),
         \A k \in Kids : Told(k) => Told(k)',
         s # Lst => Fit(sk[s], q, S),
         s # Lst => q.st \notin {"ESTABLISHED", "CLOSE_WAIT"} \/ s \notin Kids
                    \/ sk[s].st \in {"ESTABLISHED", "CLOSE_WAIT"},
         s = Lst => q.acc = sk[Lst].acc /\ q.st = sk[Lst].st,
         s = Lst => \/ q.backlog = sk[Lst].backlog
                    \/ \E k \in Kids : q.backlog = Append(sk[Lst].backlog, k) /\ ~Ready(k)
  PROVE  NInv'
<1>1. sk'[s] = Put(q) /\ \A u \in Socks \ {s} : sk'[u] = sk[u]
  BY DEF RInv, Typed
<1>2. ASSUME NEW t \in Threads, pc[t].sock # None
      PROVE  Fit(sk[pc[t].sock], sk'[pc[t].sock], S)
  <2>1. pc[t].sock \in Socks /\ pc[t].sock # Lst /\ sk[pc[t].sock].linked
    BY <1>2, ThreadHas
  <2>2. CASE pc[t].sock # s
    BY <1>1, <2>1, <2>2 DEF Fit
  <2>3. CASE pc[t].sock = s
    <3>1. Fit(sk[s], q, S)
      BY <2>1, <2>3
    <3>2. Put(q).st = q.st /\ Put(q).rxw = q.rxw /\ Put(q).rx = q.rx
      BY <2>1, <2>3, PutKeeps
    <3> QED BY <1>1, <2>3, <3>1, <3>2 DEF Fit, Eof
  <2> QED BY <2>2, <2>3
<1>3. CASE sk[Lst].st # "LISTEN"
  BY <1>2, <1>3, HostStep DEF Quits
<1>4. CASE sk[Lst].st = "LISTEN" /\ s # Lst
  <2>1. sk'[Lst] = sk[Lst]
    BY <1>1, <1>4, Names
  <2>2. ASSUME NEW k \in Range(sk[Lst].backlog), Ready(k)'
        PROVE  Ready(k)
    <3>1. k \in Kids /\ k \in Socks
      BY BacklogKid
    <3>2. CASE k # s
      BY <1>1, <2>2, <3>1, <3>2 DEF Ready
    <3>3. CASE k = s
      <4>1. Put(q).st = q.st \/ Put(q).st = "freed"
        <5>1. q.refs # 0
          <6>1. sk[s].refs # 0
            BY InUse DEF RInv
          <6> QED BY <6>1
        <5>2. q.refs = 1 => Put(q) = Gone
          BY <5>1, PutFacts
        <5>3. q.refs # 1 => Put(q) = [q EXCEPT !.refs = q.refs - 1]
          BY <5>1, PutFacts
        <5> QED BY <5>2, <5>3, GoneFields DEF Sockets
      <4> QED BY <1>1, <1>4, <2>2, <3>1, <3>3, <4>1 DEF Ready
    <3> QED BY <3>2, <3>3
  <2>3. ASSUME NEW k \in Range(sk[Lst].backlog), Ready(k)'
        PROVE  Told(k)' \/ (k \in Range(sk[Lst].backlog) /\ Ready(k) /\ ~Told(k))
    BY <2>2, <2>3, BacklogKid
  <2>4. Stays
    BY <2>1, <2>3 DEF Stays
  <2> QED BY <1>2, <2>4, HostStep
<1>5. CASE sk[Lst].st = "LISTEN" /\ s = Lst
  <2>1. sk[s].linked
    BY <1>5, ListenerLinked
  <2>2. Put(q).st = q.st /\ Put(q).acc = q.acc /\ Put(q).backlog = q.backlog
    BY <2>1, PutKeeps
  <2>3. sk'[Lst].acc = sk[Lst].acc /\ sk'[Lst].st = sk[Lst].st /\ sk'[Lst].backlog = q.backlog
    BY <1>1, <1>5, <2>2
  <2>4. \A k \in Kids : Ready(k)' <=> Ready(k)
    BY <1>1, <1>5, Names DEF Ready
  <2>5. ASSUME NEW k \in Range(sk'[Lst].backlog), Ready(k)'
        PROVE  k \in Range(sk[Lst].backlog) /\ Ready(k) /\ k \in Kids
    <3>1. sk[Lst].backlog \in Seq(Kids)
      BY Names DEF RInv, Typed, Sockets
    <3>2. CASE q.backlog = sk[Lst].backlog
      <4>1. k \in Range(sk[Lst].backlog)
        BY <2>3, <3>2
      <4>2. k \in Kids
        BY <4>1, BacklogKid
      <4> QED BY <2>4, <2>5, <4>1, <4>2
    <3>3. ASSUME NEW j \in Kids, q.backlog = Append(sk[Lst].backlog, j), ~Ready(j)
          PROVE  k \in Range(sk[Lst].backlog) /\ Ready(k) /\ k \in Kids
      <4>1. k \in Range(sk[Lst].backlog) \cup {j}
        <5> DEFINE b == sk[Lst].backlog
        <5>1. Range(Append(b, j)) = Range(b) \cup {j}
          BY <3>1, AppendFacts
        <5> QED BY <2>3, <3>3, <5>1
      <4>2. k # j
        BY <2>4, <2>5, <3>3
      <4>3. k \in Kids
        BY <4>1, <4>2, BacklogKid
      <4> QED BY <2>4, <2>5, <4>1, <4>2, <4>3
    <3> QED BY <1>5, <3>2, <3>3
  <2>6. ASSUME NEW k \in Range(sk'[Lst].backlog), Ready(k)'
        PROVE  Told(k)' \/ (k \in Range(sk[Lst].backlog) /\ Ready(k) /\ ~Told(k))
    BY <2>5, <2>6
  <2>7. Stays
    BY <2>3, <2>6 DEF Stays
  <2> QED BY <1>2, <2>7, HostStep
<1> QED BY <1>3, <1>4, <1>5

(* A section of the receive path, and one of the timer. *)
LEMMA DoneN ==
  ASSUME RInv, NInv, NEW h \in Hosts, NEW s \in Socks, s = rx[h].sock,
         rx[h].at \notin {"idle", "notify"},
         NEW q \in Sockets, q.refs = sk[s].refs, NEW segs, NEW T, Done(h, q, segs, T),
         s # Lst => Fit(sk[s], q, T),
         s # Lst => q.st \notin {"ESTABLISHED", "CLOSE_WAIT"} \/ s \notin Kids
                    \/ sk[s].st \in {"ESTABLISHED", "CLOSE_WAIT"},
         s = Lst => q.acc = sk[Lst].acc /\ q.st = sk[Lst].st,
         s = Lst => \/ q.backlog = sk[Lst].backlog
                    \/ \E k \in Kids : q.backlog = Append(sk[Lst].backlog, k) /\ ~Ready(k)
  PROVE  NInv'
<1>1. /\ sk' = [sk EXCEPT ![s] = Put(q)] /\ Unblock(Someone(T)) /\ UNCHANGED <<pc, load>>
      /\ rx' = [rx EXCEPT ![h] = RxIdle]
  BY DEF Done
<1>2. Users(s) # 0
  BY RxHas
<1>3. \A k \in Kids : Told(k) => Told(k)'
  <2>1. rx'[Lst] = rx[Lst] \/ rx[Lst].at # "notify"
    BY <1>1, Names DEF RInv, Typed
  <2> QED BY <2>1 DEF Told
<1>4. Fit(sk[s], q, T) => Fit(sk[s], q, Someone(T))
  BY DEF Fit, Someone
<1> QED BY <1>1, <1>2, <1>3, <1>4, SectionStep

LEMMA TickEndN ==
  ASSUME RInv, NInv, NEW h \in Hosts, NEW s \in Socks, s = timer[h].sock, s # Lst,
         timer[h].at # "idle",
         NEW q \in Sockets, q.refs = sk[s].refs, NEW segs, NEW T, TickEnd(h, q, segs, T),
         Fit(sk[s], q, T), q.st \notin {"ESTABLISHED", "CLOSE_WAIT"} \/ q.st = sk[s].st
  PROVE  NInv'
<1>1. /\ sk' = [sk EXCEPT ![s] = Put(q)] /\ Unblock(Someone(T)) /\ UNCHANGED <<pc, load>>
      /\ rx' = rx
  BY DEF TickEnd
<1>2. Users(s) # 0
  BY UsersNat
<1>3. \A k \in Kids : Told(k) => Told(k)'
  BY <1>1 DEF Told
<1>4. Fit(sk[s], q, Someone(T))
  BY DEF Fit, Someone
<1> QED BY <1>1, <1>2, <1>3, <1>4, SectionStep

----------------------------------------------------------------------------
(* The steps of tcp_input() *)

LEMMA SameN ==
  ASSUME RInv, NInv, NEW h \in Hosts, rx[h].at \notin {"idle", "notify"},
         NEW segs, NEW T, Done(h, sk[rx[h].sock], segs, T)
  PROVE  NInv'
<1> DEFINE s == rx[h].sock
           r == sk[s]
<1>1. s \in Socks /\ r \in Sockets
  BY RxHas
<1>2. Fit(r, r, T)
  BY DEF Fit
<1>3. r.st \notin {"ESTABLISHED", "CLOSE_WAIT"} \/ r.st \in {"ESTABLISHED", "CLOSE_WAIT"}
  OBVIOUS
<1> QED BY <1>1, <1>2, <1>3, DoneN

LEMMA ResetN ==
  ASSUME RInv, NInv, NEW h \in Hosts, RxReset(h)
  PROVE  NInv'
<1> DEFINE s == rx[h].sock
           r == sk[s]
           q == [r EXCEPT !.st = "CLOSED", !.conn = None, !.rxw = None]
           T == {r.conn, r.rxw}
<1>1. rx[h].at = "section" /\ r.st \in Synchronised /\ Done(h, q, <<>>, T)
  BY DEF RxReset, In, RxAt
<1>2. s \in Socks /\ r \in Sockets /\ SockOK(s, r)
  BY <1>1, RxHas
<1>3. s # Lst
  BY <1>1, <1>2 DEF SockOK, Synchronised
<1>4. q \in Sockets /\ q.refs = r.refs /\ q.st = "CLOSED"
  <2> HIDE DEF r
  <2> QED BY <1>2 DEF Sockets, States
<1>5. Fit(r, q, T)
  BY <1>4 DEF Fit
<1> HIDE DEF q, T, r, s
<1> QED BY <1>1, <1>2, <1>3, <1>4, <1>5, DoneN DEF r, s

LEMMA ListenN ==
  ASSUME RInv, NInv, NEW h \in Hosts, RxListen(h)
  PROVE  NInv'
<1>1. rx[h].at = "section"
  BY DEF RxListen, In, RxAt
<1>2. CASE Done(h, sk[rx[h].sock], <<>>, {})
  BY <1>1, <1>2, SameN
<1>3. CASE /\ rx' = [rx EXCEPT ![h].at = "child"]
           /\ UNCHANGED <<sk, pc, load, park>>
  <2>1. \A k \in Kids : Told(k) => Told(k)'
    <3>1. rx'[Lst] = rx[Lst] \/ rx[Lst].at # "notify"
      BY <1>1, <1>3, Names DEF RInv, Typed
    <3> QED BY <3>1 DEF Told
  <2>2. ASSUME NEW k \in Range(sk'[Lst].backlog), Ready(k)'
        PROVE  Told(k)' \/ (k \in Range(sk[Lst].backlog) /\ Ready(k) /\ ~Told(k))
    <3>1. k \in Kids
      BY <1>3, BacklogKid
    <3> QED BY <1>3, <2>1, <2>2, <3>1 DEF Ready
  <2>3. Stays
    BY <1>3, <2>2 DEF Stays
  <2>4. Unblock({})
    BY <1>3, NobodyWoken
  <2> QED BY <1>3, <2>3, <2>4, HostStep DEF Fit
<1> QED BY <1>2, <1>3 DEF RxListen

LEMMA ChildN ==
  ASSUME RInv, NInv, NEW h \in Hosts, RxChild(h)
  PROVE  NInv'
<1> DEFINE k == CHOOSE j \in Kids : sk[j].st = "none"
<1>1. rx[h].at = "child" /\ rx[h].sock = Lst
  BY DEF RxChild, RxAt, RInv, RxOK
<1>2. CASE Done(h, sk[Lst], <<>>, {})
  BY <1>1, <1>2, SameN
<1>3. ASSUME NEW q, Cardinality({j \in Kids : sk[j].st # "none"}) < load.kids,
             sk' = [sk EXCEPT ![k] = q], rx' = [rx EXCEPT ![h].at = "backlog", ![h].kid = k],
             UNCHANGED <<pc, load, park>>
      PROVE  NInv'
  <2>1. k \in Kids /\ sk[k].st = "none"
    BY <1>3, FreeKid DEF RInv, Typed
  <2> HIDE DEF k
  <2>2. k \in Socks /\ k # Lst /\ k # None /\ ~Owned(k)
    BY <2>1, Names, NobodyHas
  <2>3. sk'[Lst] = sk[Lst] /\ \A u \in Socks \ {k} : sk'[u] = sk[u]
    BY <1>3, <2>2, Names DEF RInv, Typed
  <2>4. \A j \in Kids : Told(j) => Told(j)'
    <3>1. rx'[Lst] = rx[Lst] \/ rx[Lst].at # "notify"
      BY <1>1, <1>3, Names DEF RInv, Typed
    <3> QED BY <3>1 DEF Told
  <2>5. ASSUME NEW j \in Range(sk'[Lst].backlog), Ready(j)'
        PROVE  Told(j)' \/ (j \in Range(sk[Lst].backlog) /\ Ready(j) /\ ~Told(j))
    <3>1. j \in Kids /\ j \in Socks /\ j # k
      BY <2>2, <2>3, BacklogKid DEF Owned
    <3> QED BY <2>3, <2>4, <2>5, <3>1 DEF Ready
  <2>6. Stays
    BY <2>3, <2>5 DEF Stays
  <2>7. ASSUME NEW t \in Threads, pc[t].sock # None
        PROVE  Fit(sk[pc[t].sock], sk'[pc[t].sock], {})
    <3>1. pc[t].sock \in Socks /\ pc[t].sock # k
      BY <2>2, <2>7, ThreadHas DEF Owned
    <3> QED BY <2>3, <3>1 DEF Fit
  <2>8. Unblock({})
    BY <1>3, NobodyWoken
  <2> QED BY <1>3, <2>6, <2>7, <2>8, HostStep
<1> QED BY <1>2, <1>3 DEF RxChild

LEMMA BacklogN ==
  ASSUME RInv, NInv, NEW h \in Hosts, RxBacklog(h)
  PROVE  NInv'
<1> DEFINE r == sk[Lst]
           k == rx[h].kid
           b == Append(r.backlog, k)
           q == [r EXCEPT !.backlog = b]
<1>1. rx[h].at = "backlog" /\ rx[h].sock = Lst /\ h = Lst /\ k \in Kids /\ k # None
  BY Names DEF RxBacklog, RxAt, RInv, RxOK, Typed
<1>2. r \in Sockets /\ r.backlog \in Seq(Kids)
  BY ListenerHas
<1>3. sk[k].st = "SYN_RECEIVED"
  BY <1>1 DEF RInv, FreshOK
<1>4. CASE Done(h, q, <<>>, {})
  <2>1. b \in Seq(Kids)
    BY <1>1, <1>2, AppendProperties
  <2> HIDE DEF b
  <2>2. q \in Sockets /\ q.refs = r.refs /\ q.acc = r.acc /\ q.st = r.st /\ q.backlog = b
    <3> HIDE DEF r
    <3> QED BY <1>2, <2>1 DEF Sockets
  <2>3. ~Ready(k)
    BY <1>3 DEF Ready
  <2>4. \E j \in Kids : q.backlog = Append(r.backlog, j) /\ ~Ready(j)
    BY <1>1, <2>2, <2>3 DEF b
  <2> HIDE DEF q, r, k
  <2> QED BY <1>1, <1>4, <2>2, <2>4, DoneN, Names DEF r
<1>5. CASE /\ rx' = [rx EXCEPT ![h].at = "closed", ![h].kid = None]
           /\ UNCHANGED <<sk, pc, load, park>>
  <2>1. \A j \in Kids : ~Told(j)
    BY <1>1 DEF Told
  <2>2. ASSUME NEW j \in Range(sk'[Lst].backlog), Ready(j)'
        PROVE  Told(j)' \/ (j \in Range(sk[Lst].backlog) /\ Ready(j) /\ ~Told(j))
    <3>1. j \in Kids
      BY <1>5, BacklogKid
    <3> QED BY <1>5, <2>1, <2>2, <3>1 DEF Ready
  <2>3. Stays
    BY <1>5, <2>2 DEF Stays
  <2>4. Unblock({})
    BY <1>5, NobodyWoken
  <2> QED BY <1>5, <2>3, <2>4, HostStep DEF Fit
<1> QED BY <1>4, <1>5 DEF RxBacklog

LEMMA ClosedN ==
  ASSUME RInv, NInv, NEW h \in Hosts, RxClosed(h)
  PROVE  NInv'
<1>1. rx[h].at = "closed" /\ rx[h].sock = Lst /\ Done(h, sk[Lst], <<>>, {})
  BY DEF RxClosed, RxAt, RInv, RxOK
<1> QED BY <1>1, SameN

LEMMA SynSentN ==
  ASSUME RInv, NInv, NEW h \in Hosts, RxSynSent(h)
  PROVE  NInv'
<1> DEFINE s == rx[h].sock
           r == sk[s]
           g == rx[h].seg
           est == [r EXCEPT !.rcv = Plus(g.seq, 1), !.una = g.ack, !.st = "ESTABLISHED",
                            !.rtx = FALSE, !.conn = None]
           dead == [r EXCEPT !.st = "CLOSED", !.rtx = FALSE, !.conn = None]
           answer == <<Seg(s, est, {"ACK"}, <<>>)>>
<1>1. rx[h].at = "section" /\ r.st = "SYN_SENT"
  BY DEF RxSynSent, In, RxAt
<1>2. s \in Socks /\ r \in Sockets /\ SockOK(s, r) /\ g \in Segments
  BY <1>1, RxHas
<1>3. s \notin Kids /\ s # Lst
  BY <1>1, <1>2, Names DEF SockOK
<1>4. est \in Sockets /\ est.refs = r.refs /\ est.st = "ESTABLISHED"
  <2>1. Plus(g.seq, 1) \in Seqs /\ g.ack \in Seqs
    BY <1>2, SegFields, PlusIn
  <2> HIDE DEF r
  <2> QED BY <1>2, <2>1 DEF Sockets, States, Synchronised
<1>5. dead \in Sockets /\ dead.refs = r.refs /\ dead.st = "CLOSED"
  <2> HIDE DEF r
  <2> QED BY <1>2 DEF Sockets, States
<1>6. Fit(r, est, {r.conn}) /\ Fit(r, dead, {r.conn})
  BY <1>1, <1>4, <1>5 DEF Fit
<1>7. \/ Done(h, dead, <<>>, {r.conn}) \/ Done(h, r, <<>>, {}) \/ Done(h, est, answer, {r.conn})
  BY DEF RxSynSent
<1> HIDE DEF est, dead, answer
<1>8. CASE Done(h, r, <<>>, {})
  BY <1>1, <1>8, SameN
<1> DEFINE T == {r.conn}
<1>9. Fit(r, est, T) /\ Fit(r, dead, T)
  BY <1>6
<1>10. (Done(h, dead, <<>>, {r.conn}) => Done(h, dead, <<>>, T))
       /\ (Done(h, est, answer, {r.conn}) => Done(h, est, answer, T))
  OBVIOUS
<1> HIDE DEF T, r, s
<1>11. CASE Done(h, dead, <<>>, T)
  BY <1>1, <1>2, <1>3, <1>5, <1>9, <1>11, DoneN DEF r, s
<1>12. CASE Done(h, est, answer, T)
  BY <1>1, <1>2, <1>3, <1>4, <1>9, <1>12, DoneN DEF r, s
<1> QED BY <1>7, <1>8, <1>10, <1>11, <1>12

LEMMA SynReceivedN ==
  ASSUME RInv, NInv, NEW h \in Hosts, RxSynReceived(h)
  PROVE  NInv'
<1> DEFINE s == rx[h].sock
           r == sk[s]
           g == rx[h].seg
           q == [r EXCEPT !.una = g.ack, !.st = "ESTABLISHED", !.rtx = FALSE]
<1>1. rx[h].at = "section" /\ r.st = "SYN_RECEIVED"
  BY DEF RxSynReceived, In, RxAt
<1>2. s \in Socks /\ r \in Sockets /\ SockOK(s, r) /\ Local(s) = h
  BY <1>1, RxHas
<1>3. s \in Kids /\ s # Lst /\ h = Lst
  BY <1>1, <1>2, Names DEF SockOK
<1>4. CASE Done(h, r, <<>>, {})
  BY <1>1, <1>4, SameN
<1>5. CASE /\ sk' = [sk EXCEPT ![s] = q]
           /\ rx' = [rx EXCEPT ![h].at = "notify"]
           /\ UNCHANGED <<pc, load, park>>
  <2>1. sk'[Lst] = sk[Lst] /\ \A u \in Socks \ {s} : sk'[u] = sk[u]
    BY <1>3, <1>5, Names DEF RInv, Typed
  <2>2. Told(s)' /\ \A k : ~Told(k)
    <3>1. rx'[Lst].at = "notify" /\ rx'[Lst].sock = s
      BY <1>3, <1>5, Names DEF RInv, Typed
    <3>2. s' = s
      BY <1>3, <3>1
    <3> QED BY <1>1, <1>3, <3>1, <3>2 DEF Told
  <2>3. PICK v \in Socks : v = s
    BY <1>2
  <2>4. ASSUME NEW k \in Range(sk'[Lst].backlog), Ready(k)'
        PROVE  Told(k)' \/ (k \in Range(sk[Lst].backlog) /\ Ready(k) /\ ~Told(k))
    <3>1. k \in Kids /\ k \in Socks /\ k \in Range(sk[Lst].backlog)
      BY <2>1, BacklogKid
    <3>2. CASE k # s
      BY <2>1, <2>2, <2>4, <3>1, <3>2 DEF Ready
    <3>3. CASE k = s
      BY <1>3, <1>5, <2>2, <3>3, Names DEF Told, RInv, Typed
    <3> QED BY <3>2, <3>3
  <2>5. Stays
    BY <2>1, <2>4 DEF Stays
  <2>6. ASSUME NEW t \in Threads, pc[t].sock # None
        PROVE  Fit(sk[pc[t].sock], sk'[pc[t].sock], {})
    <3>1. pc[t].sock \in Socks
      BY <2>6, ThreadHas
    <3>2. pc[t].sock # s
      BY <1>1, <2>6 DEF NInv, ThreadOK, UsableOK, Usable
    <3> QED BY <2>1, <3>1, <3>2 DEF Fit
  <2>7. Unblock({})
    BY <1>5, NobodyWoken
  <2> QED BY <1>5, <2>5, <2>6, <2>7, HostStep
<1> QED BY <1>4, <1>5 DEF RxSynReceived

LEMMA RejectN ==
  ASSUME RInv, NInv, NEW h \in Hosts, RxReject(h)
  PROVE  NInv'
<1>1. rx[h].at = "section"
  BY DEF RxReject, In, RxAt
<1>2. \E segs : Done(h, sk[rx[h].sock], segs, {})
  BY DEF RxReject
<1> QED BY <1>1, <1>2, SameN

(* The thread in accept() is woken, or the listener is closed. *)
LEMMA NotifyN ==
  ASSUME RInv, NInv, NEW h \in Hosts, RxNotify(h)
  PROVE  NInv'
<1> DEFINE s == rx[h].sock
           r == sk[s]
           l == sk[Lst]
           S == IF Listening THEN Someone({l.acc}) ELSE {}
<1>1. rx[h].at = "notify"
  BY DEF RxNotify, RxAt
<1>2. s \in Socks /\ r \in Sockets /\ s \in Kids /\ s # Lst /\ Users(s) # 0
  BY <1>1, RxHas, Names DEF RInv, RxOK
<1>3. /\ sk' = [sk EXCEPT ![s] = Put(r), ![Lst].acc = IF Listening THEN None ELSE l.acc]
      /\ Unblock(S) /\ UNCHANGED <<pc, load>>
  BY <1>2 DEF RxNotify
<1>4. Quits(S)
  <2>1. CASE Listening
    BY <2>1 DEF Quits, Someone
  <2>2. CASE ~Listening
    BY <2>2, ListenerLinked DEF Quits, Listening
  <2> QED BY <2>1, <2>2
<1> HIDE DEF S
<1>5. ASSUME NEW t \in Threads, pc[t].sock # None
      PROVE  Fit(sk[pc[t].sock], sk'[pc[t].sock], S)
  <2>1. pc[t].sock \in Socks /\ pc[t].sock # Lst /\ sk[pc[t].sock].linked
    BY <1>5, ThreadHas
  <2>2. sk'[s] = Put(r) /\ \A u \in Socks \ {s, Lst} : sk'[u] = sk[u]
    BY <1>2, <1>3, Names DEF RInv, Typed
  <2>3. CASE pc[t].sock # s
    BY <2>1, <2>2, <2>3 DEF Fit
  <2>4. CASE pc[t].sock = s
    <3>1. Put(r).st = r.st /\ Put(r).rxw = r.rxw /\ Put(r).rx = r.rx
      BY <1>2, <2>1, <2>4, PutKeeps
    <3> QED BY <2>2, <2>4, <3>1 DEF Fit
  <2> QED BY <2>3, <2>4
<1> QED BY <1>3, <1>4, <1>5, HostStep

(* News wakes the reader; a segment without any leaves the ring alone. *)
LEMMA EstablishedN ==
  ASSUME RInv, NInv, NEW h \in Hosts, RxEstablished(h)
  PROVE  NInv'
<1> DEFINE s == rx[h].sock
           r == sk[s]
           g == rx[h].seg
           d == Stored(r, g)
           e == [d EXCEPT !.rcv = Plus(d.rcv, 1), !.st = "CLOSE_WAIT"]
           ack(x) == <<Seg(s, x, {"ACK"}, <<>>)>>
           ends == "FIN" \in g.flags /\ d.rcv = Plus(r.rcv, Len(g.data))
           f == IF ends THEN e ELSE d
           news == g.data # <<>> \/ ends
           q == IF news THEN [f EXCEPT !.rxw = None] ELSE f
           segs == (IF g.data # <<>> THEN ack(d) ELSE <<>>) \o (IF ends THEN ack(f) ELSE <<>>)
           T == IF news THEN {r.rxw} ELSE {}
<1>1. rx[h].at = "section" /\ r.st = "ESTABLISHED" /\ Done(h, q, segs, T)
  BY DEF RxEstablished, In, RxAt
<1>2. s \in Socks /\ r \in Sockets /\ Within(r) /\ SockOK(s, r) /\ g \in Segments
  BY <1>1, RxHas
<1>3. s # Lst
  BY <1>1, <1>2 DEF SockOK
<1>4. /\ d \in Sockets /\ d.refs = r.refs /\ d.st = r.st /\ d.rxw = r.rxw
      /\ g.data = <<>> => d.rx = r.rx
  <2>1. PICK x \in Seq(Bytes), n \in Seqs :
           Len(x) <= RxSize /\ d = [r EXCEPT !.rx = x, !.rcv = n]
    BY <1>2, StoredIs
  <2>2. ASSUME g.data = <<>> PROVE x = r.rx
    <3> DEFINE room == RxSize - Len(r.rx)
               fit == Upto(g.data, room)
               y == r.rx
    <3>1. y \in Seq(Bytes) /\ room \in Nat
      <4>1. y \in Seq(Bytes) /\ Len(y) <= RxSize
        <5> HIDE DEF r
        <5> QED BY <1>2, SocketFields DEF Within
      <4> HIDE DEF y
      <4>2. Len(y) \in Nat /\ RxSize \in Nat
        BY <4>1, LenProperties, TcpSizes
      <4>3. room = RxSize - Len(y)
        BY DEF y
      <4> HIDE DEF room
      <4> QED BY <4>1, <4>2, <4>3
    <3>2. fit = <<>>
      <4> HIDE DEF room
      <4>1. Len(<<>>) = 0 /\ ~(room < 0)
        BY <3>1
      <4> QED BY <2>2, <4>1 DEF Upto
    <3>3. x = d.rx
      <4> HIDE DEF d, r
      <4> QED BY <1>2, <2>1 DEF Sockets
    <3>4. d.rx = y \o fit
      <4>1. d = [r EXCEPT !.rx = r.rx \o fit, !.rcv = Plus(r.rcv, Len(fit))]
        BY DEF Stored
      <4> HIDE DEF d, r, fit
      <4> QED BY <1>2, <4>1 DEF Sockets, y
    <3> HIDE DEF y, fit
    <3>5. y \o <<>> = y
      BY <3>1
    <3> QED BY <3>2, <3>3, <3>4, <3>5 DEF y
  <2> HIDE DEF d, r, g
  <2> QED BY <1>2, <2>1, <2>2 DEF Sockets
<1> HIDE DEF d
<1>5. e \in Sockets /\ e.refs = r.refs /\ e.st = "CLOSE_WAIT"
  <2>1. Plus(d.rcv, 1) \in Seqs
    BY <1>4, SocketFields, PlusIn
  <2> HIDE DEF r
  <2> QED BY <1>4, <2>1 DEF Sockets, States, Synchronised
<1> HIDE DEF e
<1>6. f \in Sockets /\ f.refs = r.refs /\ f.st \in {"ESTABLISHED", "CLOSE_WAIT"}
  BY <1>1, <1>4, <1>5
<1>7. CASE news
  <2> DEFINE v == [f EXCEPT !.rxw = None]
  <2>1. v \in Sockets /\ v.refs = r.refs /\ v.st \in {"ESTABLISHED", "CLOSE_WAIT"}
    <3> HIDE DEF f, r
    <3> QED BY <1>6 DEF Sockets
  <2>2. q = v /\ T = {r.rxw}
    BY <1>7
  <2> HIDE DEF v, f
  <2>3. Fit(r, q, T)
    BY <2>1, <2>2 DEF Fit
  <2> HIDE DEF q, T, segs, news
  <2> QED BY <1>1, <1>2, <1>3, <2>1, <2>2, <2>3, DoneN
<1>8. CASE ~news
  <2>1. q = d /\ Fit(r, d, T) /\ d.st = "ESTABLISHED"
    BY <1>1, <1>4, <1>8 DEF Fit
  <2> HIDE DEF q, T, segs, news, f
  <2> QED BY <1>1, <1>2, <1>3, <1>4, <2>1, DoneN
<1> QED BY <1>7, <1>8

LEMMA FinWaitN ==
  ASSUME RInv, NInv, NEW h \in Hosts, RxFinWait(h)
  PROVE  NInv'
<1> DEFINE s == rx[h].sock
           r == sk[s]
           over == [r EXCEPT !.rcv = Plus(r.rcv, 1), !.st = "TIME_WAIT"]
           half == [r EXCEPT !.st = "FIN_WAIT_2"]
           answer == <<Seg(s, over, {"ACK"}, <<>>)>>
<1>1. /\ rx[h].at = "section" /\ r.st \in {"FIN_WAIT_1", "FIN_WAIT_2"}
      /\ \/ Done(h, over, answer, {}) \/ Done(h, half, <<>>, {}) \/ Done(h, r, <<>>, {})
  BY DEF RxFinWait, In, RxAt
<1>2. s \in Socks /\ r \in Sockets /\ SockOK(s, r)
  BY <1>1, RxHas
<1>3. s # Lst
  BY <1>1, <1>2 DEF SockOK
<1>4. /\ over \in Sockets /\ over.refs = r.refs /\ over.st = "TIME_WAIT" /\ over.rxw = r.rxw
      /\ over.rx = r.rx
  <2>1. Plus(r.rcv, 1) \in Seqs
    BY <1>2, SocketFields, PlusIn
  <2> HIDE DEF r
  <2> QED BY <1>2, <2>1 DEF Sockets, States, Synchronised
<1>5. /\ half \in Sockets /\ half.refs = r.refs /\ half.st = "FIN_WAIT_2" /\ half.rxw = r.rxw
      /\ half.rx = r.rx
  <2> HIDE DEF r
  <2> QED BY <1>2 DEF Sockets, States, Synchronised
<1> HIDE DEF over, half, answer
<1>6. Fit(r, over, {}) /\ Fit(r, half, {})
  BY <1>4, <1>5 DEF Fit, Eof
<1>7. CASE Done(h, r, <<>>, {})
  BY <1>1, <1>7, SameN
<1> HIDE DEF r
<1>8. CASE Done(h, over, answer, {})
  BY <1>1, <1>2, <1>3, <1>4, <1>6, <1>8, DoneN DEF r
<1>9. CASE Done(h, half, <<>>, {})
  BY <1>1, <1>2, <1>3, <1>5, <1>6, <1>9, DoneN DEF r
<1> QED BY <1>1, <1>7, <1>8, <1>9

LEMMA RestN ==
  ASSUME RInv, NInv, NEW h \in Hosts, RxRest(h)
  PROVE  NInv'
<1> DEFINE s == rx[h].sock
           r == sk[s]
           over == [r EXCEPT !.st = "CLOSED"]
<1>1. /\ rx[h].at = "section"
      /\ \/ r.st = "LAST_ACK" /\ Done(h, over, <<>>, {})
         \/ Done(h, r, <<>>, {})
  BY DEF RxRest, In, RxAt
<1>2. s \in Socks /\ r \in Sockets /\ SockOK(s, r)
  BY <1>1, RxHas
<1>3. over \in Sockets /\ over.refs = r.refs /\ over.st = "CLOSED"
  <2> HIDE DEF r
  <2> QED BY <1>2 DEF Sockets, States
<1> HIDE DEF over
<1>4. CASE Done(h, r, <<>>, {})
  BY <1>1, <1>4, SameN
<1>5. CASE r.st = "LAST_ACK" /\ Done(h, over, <<>>, {})
  <2>1. s # Lst /\ Fit(r, over, {})
    BY <1>2, <1>3, <1>5 DEF SockOK, Fit
  <2> HIDE DEF r
  <2> QED BY <1>1, <1>2, <1>3, <1>5, <2>1, DoneN DEF r
<1> QED BY <1>1, <1>4, <1>5

(* Nobody is woken, and what the waits are about stays as it is. *)
LEMMA CalmStep ==
  ASSUME RInv, NInv, UNCHANGED <<pc, load, park>>,
         \A u \in Socks : sk[u].linked =>
           sk'[u].st = sk[u].st /\ sk'[u].acc = sk[u].acc /\ sk'[u].rxw = sk[u].rxw
           /\ sk'[u].rx = sk[u].rx,
         Range(sk'[Lst].backlog) \subseteq Range(sk[Lst].backlog),
         \A k \in Kids : Told(k) => Told(k)'
  PROVE  NInv'
<1>1. ASSUME NEW t \in Threads, pc[t].sock # None
      PROVE  Fit(sk[pc[t].sock], sk'[pc[t].sock], {})
  <2>1. pc[t].sock \in Socks /\ sk[pc[t].sock].linked
    BY <1>1, ThreadHas
  <2> QED BY <2>1 DEF Fit
<1>2. Quits({}) \/ Stays
  <2>1. CASE sk[Lst].st = "LISTEN"
    <3>1. sk'[Lst].acc = sk[Lst].acc /\ sk'[Lst].st = sk[Lst].st
      BY <2>1, ListenerLinked, Names
    <3>2. ASSUME NEW k \in Range(sk'[Lst].backlog), Ready(k)'
          PROVE  Told(k)' \/ (k \in Range(sk[Lst].backlog) /\ Ready(k) /\ ~Told(k))
      <4>1. k \in Range(sk[Lst].backlog) /\ k \in Kids /\ k \in Socks
        BY BacklogKid
      <4>2. Owned(k)
        BY <4>1 DEF Owned
      <4>3. sk[k].linked
        BY <4>1, <4>2 DEF RInv, OwnedOK
      <4>4. Ready(k)
        BY <3>2, <4>1, <4>3 DEF Ready
      <4> QED BY <4>1, <4>4
    <3> QED BY <3>1, <3>2 DEF Stays
  <2>2. CASE sk[Lst].st # "LISTEN"
    BY <2>2 DEF Quits
  <2> QED BY <2>1, <2>2
<1>3. Unblock({})
  BY NobodyWoken
<1> QED BY <1>1, <1>2, <1>3, HostStep

LEMMA LookupN ==
  ASSUME RInv, NInv, NEW h \in Hosts, NEW i, NEW dup \in BOOLEAN, RxLookup(h, i, dup)
  PROVE  NInv'
<1> DEFINE g == wire[h][i]
<1>1. /\ rx[h].at = "idle" /\ UNCHANGED <<pc, load, park>>
      /\ \/ UNCHANGED <<sk, rx>>
         \/ \E s \in Lookup(g) :
              /\ sk' = [sk EXCEPT ![s] = Get(sk[s])]
              /\ rx' = [rx EXCEPT ![h] = [RxIdle EXCEPT !.at = "section", !.seg = g, !.sock = s]]
  BY DEF RxLookup, RxAt
<1> HIDE DEF g
<1>2. CASE UNCHANGED <<sk, rx>>
  <2>1. \A k \in Kids : Told(k) => Told(k)'
    BY <1>2 DEF Told
  <2> QED BY <1>1, <1>2, <2>1, CalmStep
<1>3. ASSUME NEW s \in Lookup(g), sk' = [sk EXCEPT ![s] = Get(sk[s])],
             rx' = [rx EXCEPT ![h] = [RxIdle EXCEPT !.at = "section", !.seg = g, !.sock = s]]
      PROVE  NInv'
  <2>1. s \in Socks
    BY Names DEF Lookup
  <2>2. sk[s] \in Sockets /\ \A u \in Socks \ {s} : sk'[u] = sk[u]
    BY <1>3, <2>1 DEF RInv, Typed
  <2>3. sk'[s] = Get(sk[s])
    BY <1>3, <2>1 DEF RInv, Typed
  <2>4. /\ sk'[s].st = sk[s].st /\ sk'[s].acc = sk[s].acc /\ sk'[s].rxw = sk[s].rxw
        /\ sk'[s].rx = sk[s].rx /\ sk'[s].backlog = sk[s].backlog
    <3> DEFINE r == sk[s]
               q == sk'[s]
    <3>1. q = [r EXCEPT !.refs = r.refs + 1] /\ r \in Sockets
      BY <2>2, <2>3 DEF Get
    <3> HIDE DEF r, q
    <3>2. q.st = r.st /\ q.acc = r.acc /\ q.rxw = r.rxw /\ q.rx = r.rx /\ q.backlog = r.backlog
      BY <3>1 DEF Sockets
    <3> QED BY <3>2 DEF r, q
  <2>5. \A k \in Kids : Told(k) => Told(k)'
    <3>1. \A f \in Hosts \ {h} : rx'[f] = rx[f]
      BY <1>3 DEF RInv, Typed
    <3>2. rx'[Lst] = rx[Lst] \/ rx[Lst].at # "notify"
      BY <1>1, <3>1, Names
    <3> QED BY <3>2 DEF Told
  <2>6. sk'[Lst].backlog = sk[Lst].backlog
    BY <2>2, <2>4, Names
  <2> QED BY <1>1, <2>2, <2>4, <2>5, <2>6, CalmStep
<1> QED BY <1>1, <1>2, <1>3

LEMMA LoseN ==
  ASSUME RInv, NInv, NEW h \in Hosts, Lose(h)
  PROVE  NInv'
<1>1. UNCHANGED <<sk, rx, pc, load, park>>
  BY DEF Lose
<1>2. \A k \in Kids : Told(k) => Told(k)'
  BY <1>1 DEF Told
<1> QED BY <1>1, <1>2, CalmStep

LEMMA TakeN ==
  ASSUME RInv, NInv, NEW s \in Socks, TickTake(s)
  PROVE  NInv'
<1>1. UNCHANGED <<rx, pc, load, park>> /\ sk' = [sk EXCEPT ![s] = Get(sk[s])]
  BY DEF TickTake
<1>2. sk[s] \in Sockets /\ sk'[s] = Get(sk[s]) /\ \A u \in Socks \ {s} : sk'[u] = sk[u]
  BY <1>1 DEF RInv, Typed
<1>3. /\ sk'[s].st = sk[s].st /\ sk'[s].acc = sk[s].acc /\ sk'[s].rxw = sk[s].rxw
      /\ sk'[s].rx = sk[s].rx /\ sk'[s].backlog = sk[s].backlog
  <2> DEFINE r == sk[s]
             q == sk'[s]
  <2>1. q = [r EXCEPT !.refs = r.refs + 1] /\ r \in Sockets
    BY <1>2 DEF Get
  <2> HIDE DEF r, q
  <2>2. q.st = r.st /\ q.acc = r.acc /\ q.rxw = r.rxw /\ q.rx = r.rx /\ q.backlog = r.backlog
    BY <2>1 DEF Sockets
  <2> QED BY <2>2 DEF r, q
<1>4. \A k \in Kids : Told(k) => Told(k)'
  BY <1>1 DEF Told
<1>5. sk'[Lst].backlog = sk[Lst].backlog
  BY <1>2, <1>3, Names
<1> QED BY <1>1, <1>2, <1>3, <1>4, <1>5, CalmStep

LEMMA TickAgainN ==
  ASSUME RInv, NInv, NEW h \in Hosts, TickAgain(h)
  PROVE  NInv'
<1> DEFINE s == timer[h].sock
           r == sk[s]
           n == [r EXCEPT !.cnt = r.cnt + 1]
           c == [n EXCEPT !.rtx = FALSE]
           syn == <<Again(s, r, {"SYN"})>>
           synack == <<Again(s, r, {"SYN", "ACK"})>>
<1>1. /\ timer[h].at = "section"
      /\ \/ TickEnd(h, r, <<>>, {}) \/ TickEnd(h, n, syn, {})
         \/ TickEnd(h, n, synack, {}) \/ TickEnd(h, c, <<>>, {})
  BY DEF TickAgain
<1>2. /\ s \in Socks /\ r \in Sockets /\ SockOK(s, r)
  BY <1>1, TickHas
<1>3. n \in Sockets /\ n.refs = r.refs /\ n.st = r.st /\ n.rxw = r.rxw /\ n.rx = r.rx
      /\ n.acc = r.acc /\ n.backlog = r.backlog
  <2>1. r.cnt + 1 \in Nat
    BY <1>2, SocketFields
  <2> HIDE DEF r
  <2> QED BY <1>2, <2>1 DEF Sockets
<1> HIDE DEF n
<1>4. c \in Sockets /\ c.refs = r.refs /\ c.st = r.st /\ c.rxw = r.rxw /\ c.rx = r.rx
      /\ c.acc = r.acc /\ c.backlog = r.backlog
  <2> HIDE DEF r
  <2> QED BY <1>3 DEF Sockets
<1> HIDE DEF c, syn, synack
<1>5. ASSUME NEW q \in Sockets, q.refs = r.refs, q.st = r.st, q.rxw = r.rxw, q.rx = r.rx,
             q.acc = r.acc, q.backlog = r.backlog, NEW segs, TickEnd(h, q, segs, {})
      PROVE  NInv'
  <2>1. /\ sk' = [sk EXCEPT ![s] = Put(q)] /\ Unblock(Someone({})) /\ UNCHANGED <<pc, load>>
        /\ rx' = rx
    BY <1>5 DEF TickEnd
  <2>2. Users(s) # 0
    BY <1>1, TickHas
  <2>3. \A k \in Kids : Told(k) => Told(k)'
    BY <2>1 DEF Told
  <2>4. Fit(r, q, Someone({}))
    BY <1>5 DEF Fit
  <2> QED BY <1>2, <1>5, <2>1, <2>2, <2>3, <2>4, SectionStep
<1>6. CASE TickEnd(h, r, <<>>, {})
  BY <1>2, <1>5, <1>6
<1> HIDE DEF r
<1>7. CASE TickEnd(h, n, syn, {}) \/ TickEnd(h, n, synack, {})
  BY <1>3, <1>5, <1>7
<1>8. CASE TickEnd(h, c, <<>>, {})
  BY <1>4, <1>5, <1>8
<1> QED BY <1>1, <1>6, <1>7, <1>8

LEMMA GiveUpN ==
  ASSUME RInv, NInv, NEW h \in Hosts, TickGiveUp(h)
  PROVE  NInv'
<1> DEFINE s == timer[h].sock
           r == sk[s]
           dead == [r EXCEPT !.st = "CLOSED", !.rtx = FALSE, !.conn = None]
           T == {r.conn}
<1>1. timer[h].at = "section" /\ r.rtx
  BY DEF TickGiveUp
<1>2. s \in Socks /\ r \in Sockets /\ SockOK(s, r)
  BY <1>1, TickHas
<1>3. /\ dead \in Sockets /\ dead.refs = r.refs /\ dead.st = "CLOSED"
  <2> HIDE DEF r
  <2> QED BY <1>2 DEF Sockets, States
<1>4. s # Lst /\ r.st \in {"SYN_SENT", "SYN_RECEIVED", "CLOSED"}
  BY <1>1, <1>2, Names DEF SockOK
<1>5. \A S : Fit(r, dead, S)
  BY <1>3, <1>4 DEF Fit
<1>6. CASE TickEnd(h, dead, <<>>, T)
  <2> HIDE DEF dead, r, T
  <2> QED BY <1>1, <1>2, <1>3, <1>4, <1>5, <1>6, TickEndN DEF r
<1>7. CASE /\ sk' = [sk EXCEPT ![s] = dead]
           /\ Unblock(Someone(T))
           /\ UNCHANGED <<rx, pc, load>>
  <2> DEFINE S == Someone(T)
  <2>1. sk'[s] = dead /\ sk'[Lst] = sk[Lst] /\ \A u \in Socks \ {s} : sk'[u] = sk[u]
    BY <1>2, <1>4, <1>7, Names, ZenonT(40) DEF RInv, Typed
  <2>2. ASSUME NEW t \in Threads, pc[t].sock # None
        PROVE  Fit(sk[pc[t].sock], sk'[pc[t].sock], S)
    <3>1. pc[t].sock \in Socks
      BY <2>2, ThreadHas
    <3>2. CASE pc[t].sock = s
      BY <1>5, <2>1, <3>2
    <3>3. CASE pc[t].sock # s
      BY <2>1, <3>1, <3>3 DEF Fit
    <3> QED BY <3>2, <3>3
  <2>3. ASSUME NEW k \in Range(sk'[Lst].backlog), Ready(k)'
        PROVE  Told(k)' \/ (k \in Range(sk[Lst].backlog) /\ Ready(k) /\ ~Told(k))
    <3>1. k \in Kids /\ k \in Socks /\ k \in Range(sk[Lst].backlog)
      BY <2>1, BacklogKid
    <3>2. k # s
      <4>1. sk'[k].st # "CLOSED"
        BY <2>3 DEF Ready
      <4> QED BY <1>3, <2>1, <4>1
    <3>3. Ready(k)
      BY <2>1, <2>3, <3>1, <3>2 DEF Ready
    <3>4. Told(k) => Told(k)'
      BY <1>7 DEF Told
    <3> QED BY <3>1, <3>3, <3>4
  <2>4. Stays
    BY <2>1, <2>3 DEF Stays
  <2>5. Unblock(S) /\ UNCHANGED <<pc, load>>
    BY <1>7
  <2> HIDE DEF S
  <2> QED BY <2>2, <2>4, <2>5, HostStep
<1> QED BY <1>6, <1>7 DEF TickGiveUp

LEMMA SpliceN ==
  ASSUME RInv, NInv, NEW h \in Hosts, TickSplice(h)
  PROVE  NInv'
<1>0. PICK s \in Socks : s = timer[h].sock
  BY TickHas DEF TickSplice
<1> DEFINE r == sk[s]
           l == sk[Lst]
           b == Without(l.backlog, s)
           m == [l EXCEPT !.backlog = IF Listening THEN b ELSE l.backlog]
<1>1. timer[h].at = "splice"
  BY DEF TickSplice
<1>2. r \in Sockets /\ s \in Kids /\ s # Lst /\ Users(s) # 0
  BY <1>0, <1>1, TickHas, Names DEF RInv, TimerOK
<1>3. sk' = [sk EXCEPT ![s] = Put(r), ![Lst] = m] /\ UNCHANGED <<rx, pc, load, park>>
  BY <1>0, <1>2 DEF TickSplice
<1>4. l \in Sockets /\ l.backlog \in Seq(Kids) /\ IsInjective(l.backlog)
  BY ListenerHas DEF RInv, Apart
<1>5. Range(b) = Range(l.backlog) \ {s} /\ b \in Seq(Kids)
  <2> DEFINE x == l.backlog
  <2> HIDE DEF x
  <2>1. x \in Seq(Kids) /\ IsInjective(x)
    BY <1>4 DEF x
  <2> QED BY <2>1, WithoutFacts DEF x
<1>6. /\ m.st = l.st /\ m.acc = l.acc /\ m.rxw = l.rxw /\ m.rx = l.rx
      /\ Range(m.backlog) \subseteq Range(l.backlog)
  <2> DEFINE y == IF Listening THEN b ELSE l.backlog
  <2>1. Range(y) \subseteq Range(l.backlog)
    BY <1>5
  <2>2. m = [l EXCEPT !.backlog = y]
    OBVIOUS
  <2> HIDE DEF y, l, m
  <2> QED BY <1>4, <2>1, <2>2 DEF Sockets
<1> HIDE DEF m
<1>7. sk'[s] = Put(r) /\ sk'[Lst] = m /\ \A u \in Socks \ {s, Lst} : sk'[u] = sk[u]
  BY <1>2, <1>3, Names DEF RInv, Typed
<1>8. r.linked => /\ Put(r).st = r.st /\ Put(r).acc = r.acc /\ Put(r).rxw = r.rxw
                  /\ Put(r).rx = r.rx
  BY <1>2, PutKeeps
<1>9. \A k \in Kids : Told(k) => Told(k)'
  BY <1>3 DEF Told
<1> QED BY <1>3, <1>6, <1>7, <1>8, <1>9, CalmStep

(* A step of a closing job, on a socket that nobody else has. *)
LEMMA JobStep ==
  ASSUME RInv, NInv, NEW x \in Doers, NEW s \in Socks, s \in InJob(x),
         UNCHANGED <<pc, load, rx>>, NEW q, sk' = [sk EXCEPT ![s] = q], NEW S, Unblock(S),
         s = Lst => Quits(S)
  PROVE  NInv'
<1>1. \A u \in Socks \ {s} : sk'[u] = sk[u]
  BY DEF RInv, Typed
<1>2. ASSUME NEW t \in Threads, pc[t].sock # None
      PROVE  Fit(sk[pc[t].sock], sk'[pc[t].sock], S)
  <2>1. pc[t].sock \in Socks /\ pc[t].sock # s
    BY <1>2, ThreadHas DEF RInv, Apart
  <2> QED BY <1>1, <2>1 DEF Fit
<1>3. s # Lst => Stays
  <2> SUFFICES ASSUME s # Lst PROVE Stays
    OBVIOUS
  <2>1. sk'[Lst] = sk[Lst]
    BY <1>1, Names
  <2>2. ASSUME NEW k \in Range(sk'[Lst].backlog), Ready(k)'
        PROVE  Told(k)' \/ (k \in Range(sk[Lst].backlog) /\ Ready(k) /\ ~Told(k))
    <3>1. k \in Kids /\ k \in Socks /\ k \in Range(sk[Lst].backlog)
      BY <2>1, BacklogKid
    <3>2. k # s
      BY <3>1 DEF RInv, Apart
    <3> QED BY <1>1, <2>2, <3>1, <3>2 DEF Ready, Told
  <2> QED BY <2>1, <2>2 DEF Stays
<1> QED BY <1>2, <1>3, HostStep

LEMMA SectionN ==
  ASSUME RInv, NInv, NEW x \in Doers, CloseSection(x)
  PROVE  NInv'
<1>0. PICK s : s = Head(job[x])[2]
  OBVIOUS
<1> DEFINE r == sk[s]
           S == Someone({r.conn, r.acc, r.rxw})
<1>1. job[x] # <<>> /\ (\E q : sk' = [sk EXCEPT ![s] = q]) /\ Unblock(S)
      /\ UNCHANGED <<rx, pc, load>>
  BY <1>0 DEF CloseSection, Doing
<1>2. s \in Socks /\ s \in InJob(x)
  BY <1>0, <1>1, JobHas
<1>3. s = Lst => Quits(S)
  BY DEF Quits, Someone
<1> HIDE DEF S
<1> QED BY <1>1, <1>2, <1>3, JobStep

LEMMA UnlinkN ==
  ASSUME RInv, NInv, NEW x \in Doers, CloseUnlink(x)
  PROVE  NInv'
<1>0. PICK s : s = Head(job[x])[2]
  OBVIOUS
<1> DEFINE j == job[x]
<1>1. job[x] # <<>> /\ Head(j)[1] = "unlink" /\ (\E q : sk' = [sk EXCEPT ![s] = q])
      /\ UNCHANGED <<rx, pc, load, park>>
  BY <1>0 DEF CloseUnlink, Doing
<1>2. /\ s \in Socks /\ s \in InJob(x) /\ j \in Seq(Entries)
      /\ Head(j) = <<"unlink", Lst>> => sk[Lst].st # "LISTEN"
  BY <1>0, <1>1, JobHas
<1>3. s = Lst => Quits({})
  <2>1. Head(j) \in Entries
    BY <1>1, <1>2, TailNamed
  <2> QED BY <1>0, <1>1, <1>2, <2>1 DEF Entries, Quits
<1>4. Unblock({})
  BY <1>1, NobodyWoken
<1> HIDE DEF j
<1> QED BY <1>1, <1>2, <1>3, <1>4, JobStep

(* A call that goes on without sleeping. *)
LEMMA GoOn ==
  ASSUME RInv, NInv, OneAcceptor, NEW t \in Threads, NEW p, pc' = [pc EXCEPT ![t] = p],
         UNCHANGED <<rx, load, park>>, Awake(t),
         \A s \in Socks \ {Lst} : s # pc[t].sock => sk'[s] = sk[s],
         \/ pc[t].at \in Accepting
         \/ /\ sk'[Lst].acc = sk[Lst].acc /\ sk'[Lst].st = sk[Lst].st
            /\ sk'[Lst].backlog = sk[Lst].backlog,
         p.at \in {"user", "connblock", "accept", "recv"},
         p.at = "accept" => "accept" \in load.can[t],
         p.sock # None => /\ sk'[p.sock].st \notin {"LAST_ACK", "SYN_RECEIVED"}
                          /\ p.at = "recv" => sk'[p.sock].st # "SYN_SENT"
  PROVE  NInv'
<1>1. pc'[t] = p /\ \A u \in Threads \ {t} : pc'[u] = pc[u]
  BY DEF RInv, Typed
<1>2. AcceptorOK(t)' /\ ReaderOK(t)'
  BY <1>1 DEF AcceptorOK, ReaderOK, Dozes
<1>3. UsableOK(t)'
  BY <1>1 DEF UsableOK, Usable, Reading
<1>4. PlaceOK(t)'
  BY <1>1 DEF PlaceOK, Accepting, Awake
<1>5. ThreadOK(t)'
  BY <1>2, <1>3, <1>4 DEF ThreadOK
<1> QED BY <1>1, <1>5, ThreadStep

(* A socket with a descriptor is usable. *)
LEMMA Has ==
  ASSUME RInv, NInv, NEW t \in Threads, pc[t].sock # None
  PROVE  Usable(t, sk[pc[t].sock])
BY DEF NInv, ThreadOK, UsableOK

(* The same, on the socket that the thread has or the listener it accepts on. *)
LEMMA MoveOn ==
  ASSUME RInv, NInv, OneAcceptor, NEW t \in Threads, NEW a, pc' = [pc EXCEPT ![t].at = a],
         UNCHANGED <<rx, load, park>>, Awake(t),
         NEW s \in Socks, NEW q, sk' = [sk EXCEPT ![s] = q],
         \/ /\ s = Lst /\ pc[t].sock = None
            /\ \/ pc[t].at \in Accepting
               \/ q.acc = sk[Lst].acc /\ q.st = sk[Lst].st /\ q.backlog = sk[Lst].backlog
         \/ /\ s = pc[t].sock /\ q.st \notin {"LAST_ACK", "SYN_RECEIVED"}
            /\ a = "recv" => q.st # "SYN_SENT",
         a \in {"user", "connblock", "accept", "recv"},
         a = "accept" => "accept" \in load.can[t]
  PROVE  NInv'
<1> DEFINE p == [pc[t] EXCEPT !.at = a]
<1>1. pc' = [pc EXCEPT ![t] = p] /\ p.at = a /\ p.sock = pc[t].sock
  BY DEF RInv, Typed
<1> HIDE DEF p
<1>2. sk'[s] = q /\ \A u \in Socks \ {s} : sk'[u] = sk[u]
  BY DEF RInv, Typed
<1>3. CASE s = Lst
  <2>1. pc[t].sock # Lst
    BY Names DEF RInv, CallsOK
  <2>2. /\ p.at \in {"user", "connblock", "accept", "recv"}
        /\ p.at = "accept" => "accept" \in load.can[t]
        /\ p.sock = None
        /\ \A u \in Socks \ {Lst} : u # pc[t].sock => sk'[u] = sk[u]
    BY <1>1, <1>2, <1>3, <2>1
  <2>3. \/ pc[t].at \in Accepting
        \/ /\ sk'[Lst].acc = sk[Lst].acc /\ sk'[Lst].st = sk[Lst].st
           /\ sk'[Lst].backlog = sk[Lst].backlog
    BY <1>2, <1>3, <2>1
  <2> QED BY <1>1, <2>2, <2>3, GoOn
<1>4. CASE s # Lst
  <2>1. sk'[Lst] = sk[Lst]
    BY <1>2, <1>4, Names
  <2>2. s = pc[t].sock /\ q.st \notin {"LAST_ACK", "SYN_RECEIVED"}
        /\ (a = "recv" => q.st # "SYN_SENT")
    BY <1>4
  <2>3. /\ p.at \in {"user", "connblock", "accept", "recv"}
        /\ p.at = "accept" => "accept" \in load.can[t]
        /\ \A u \in Socks \ {Lst} : u # pc[t].sock => sk'[u] = sk[u]
    BY <1>1, <1>2, <2>2
  <2>4. /\ sk'[p.sock].st \notin {"LAST_ACK", "SYN_RECEIVED"}
        /\ p.at = "recv" => sk'[p.sock].st # "SYN_SENT"
    BY <1>1, <1>2, <2>2
  <2>5. /\ sk'[Lst].acc = sk[Lst].acc /\ sk'[Lst].st = sk[Lst].st
        /\ sk'[Lst].backlog = sk[Lst].backlog
    BY <2>1
  <2> QED BY <1>1, <2>3, <2>4, <2>5, GoOn
<1> QED BY <1>3, <1>4

LEMMA ConnectN ==
  ASSUME RInv, NInv, OneAcceptor, NEW t \in Clients, NEW nonblock \in BOOLEAN,
         Connect(t, nonblock)
  PROVE  NInv'
<1> DEFINE r == sk[t]
           i == isn[t]
           new == [r EXCEPT !.iss = i, !.una = i, !.nxt = i, !.st = "SYN_SENT"]
           sends == Sent(new, {"SYN"}, <<>>)
           c == IF nonblock THEN sends.conn ELSE t
           q == [sends EXCEPT !.rtx = TRUE, !.cnt = 0, !.conn = c]
           a == IF nonblock THEN "user" ELSE "connblock"
<1>1. /\ pc[t].at = "user" /\ pc[t].sock # None /\ Awake(t)
      /\ sk' = [sk EXCEPT ![t] = q]
      /\ pc' = [pc EXCEPT ![t].at = a]
      /\ UNCHANGED <<rx, load, park>>
  BY DEF Connect, Owner, At, Goto
<1>2. t \in Threads /\ t \in Socks /\ t # Lst
  BY Names
<1>3. pc[t].sock = t /\ r \in Sockets
  BY <1>1, <1>2, ThreadHas
<1>4. i \in Seqs
  BY <1>2, Names DEF RInv, Typed
<1>5. new \in Sockets /\ new.st = "SYN_SENT"
  <2> HIDE DEF r, i
  <2> QED BY <1>3, <1>4 DEF Sockets, States
<1> HIDE DEF new
<1>6. sends \in Sockets /\ sends.st = "SYN_SENT"
  <2> DEFINE flags == {"SYN"}
             data == <<>>
  <2>1. /\ data \in Seq(Bytes) /\ flags \in SUBSET {"SYN", "ACK", "FIN", "RST"}
        /\ sends = Sent(new, flags, data)
    OBVIOUS
  <2> HIDE DEF flags, data, sends
  <2> QED BY <1>5, <2>1, SentType
<1> HIDE DEF sends, c
<1>7. q.st = "SYN_SENT"
  BY <1>6 DEF Sockets
<1>8. a \in {"user", "connblock"}
  OBVIOUS
<1> HIDE DEF q, a
<1> QED BY <1>1, <1>2, <1>3, <1>7, <1>8, MoveOn

LEMMA ConnectWokenN ==
  ASSUME RInv, NInv, OneAcceptor, NEW t \in Threads, ConnectWoken(t)
  PROVE  NInv'
<1> DEFINE r == sk[t]
           keep == [r EXCEPT !.conn = IF sig[t] /\ r.conn = t THEN None ELSE r.conn]
           again == [r EXCEPT !.conn = t]
<1>1. pc[t].at = "connect" /\ Awake(t) /\ UNCHANGED <<rx, load, park>>
  BY DEF ConnectWoken, At
<1>2. pc[t].sock = t /\ t # None
  BY <1>1, Names DEF RInv, CallsOK
<1>3. t \in Socks /\ r \in Sockets /\ Usable(t, r) /\ t \in DOMAIN sk
  BY <1>2, ThreadHas, Has DEF RInv, Typed
<1>4. \/ sk' = [sk EXCEPT ![t] = keep] /\ pc' = [pc EXCEPT ![t].at = "user"]
      \/ sk' = [sk EXCEPT ![t] = again] /\ pc' = [pc EXCEPT ![t].at = "connblock"]
  BY <1>3 DEF ConnectWoken, Goto, Return
<1>5. keep.st = r.st /\ again.st = r.st
  <2> DEFINE c == IF sig[t] /\ r.conn = t THEN None ELSE r.conn
  <2> HIDE DEF c, r
  <2> QED BY <1>3 DEF Sockets
<1>6. r.st \notin {"LAST_ACK", "SYN_RECEIVED"}
  BY <1>3 DEF Usable
<1> HIDE DEF keep, again
<1>7. CASE sk' = [sk EXCEPT ![t] = keep] /\ pc' = [pc EXCEPT ![t].at = "user"]
  BY <1>1, <1>2, <1>3, <1>5, <1>6, <1>7, MoveOn
<1>8. CASE sk' = [sk EXCEPT ![t] = again] /\ pc' = [pc EXCEPT ![t].at = "connblock"]
  BY <1>1, <1>2, <1>3, <1>5, <1>6, <1>8, MoveOn
<1> QED BY <1>4, <1>7, <1>8

LEMMA ShutdownN ==
  ASSUME RInv, NInv, OneAcceptor, NEW t \in Threads, Shutdown(t)
  PROVE  NInv'
<1> DEFINE s == pc[t].sock
           r == sk[s]
           sends == Sent(r, {"FIN"}, <<>>)
           q == [sends EXCEPT !.st = "FIN_WAIT_1"]
<1>1. /\ pc[t].at = "user" /\ s # None /\ Awake(t)
      /\ sk' = [sk EXCEPT ![s] = q] /\ UNCHANGED <<rx, pc, load, park>>
  BY DEF Shutdown, Owner, At
<1>2. s \in Socks /\ r \in Sockets
  BY <1>1, ThreadHas
<1>3. sends \in Sockets
  <2> DEFINE flags == {"FIN"}
             data == <<>>
  <2>1. /\ data \in Seq(Bytes) /\ flags \in SUBSET {"SYN", "ACK", "FIN", "RST"}
        /\ sends = Sent(r, flags, data)
    OBVIOUS
  <2> HIDE DEF flags, data, sends, r
  <2> QED BY <1>2, <2>1, SentType
<1> HIDE DEF sends
<1>4. q.st = "FIN_WAIT_1"
  BY <1>3 DEF Sockets
<1>5. pc' = [pc EXCEPT ![t].at = "user"]
  BY <1>1 DEF RInv, Typed
<1> HIDE DEF q
<1> QED BY <1>1, <1>2, <1>4, <1>5, MoveOn

LEMMA SendN ==
  ASSUME RInv, NInv, OneAcceptor, NEW t \in Threads, NEW n, Send(t, n)
  PROVE  NInv'
<1> DEFINE s == pc[t].sock
           r == sk[s]
           m == Plus(r.nxt, n)
           q == [r EXCEPT !.nxt = m]
<1>1. /\ pc[t].at = "user" /\ s # None /\ Awake(t) /\ r.st = "ESTABLISHED"
      /\ sk' = [sk EXCEPT ![s].nxt = Plus(@, n)] /\ UNCHANGED <<rx, pc, load, park>>
  BY DEF Send, Owner, At
<1>2. s \in Socks /\ r \in Sockets /\ s \in DOMAIN sk
  BY <1>1, ThreadHas DEF RInv, Typed
<1>3. sk' = [sk EXCEPT ![s] = q]
  BY <1>1, <1>2 DEF q, m
<1>4. q.st = "ESTABLISHED"
  <2> HIDE DEF r, m
  <2> QED BY <1>1, <1>2 DEF Sockets
<1>5. pc' = [pc EXCEPT ![t].at = "user"]
  BY <1>1 DEF RInv, Typed
<1> HIDE DEF q, r, m
<1>6. Awake(t) /\ UNCHANGED <<rx, load, park>>
  BY <1>1
<1>7. s = pc[t].sock
  OBVIOUS
<1> HIDE DEF s
<1> QED BY <1>2, <1>3, <1>4, <1>5, <1>6, <1>7, MoveOn

LEMMA AcceptN ==
  ASSUME RInv, NInv, OneAcceptor, NEW t \in Threads, Accept(t)
  PROVE  NInv'
<1> DEFINE r == sk[Lst]
           q == Get(r)
<1>1. /\ pc[t].at = "user" /\ Awake(t) /\ pc[t].sock = None /\ "accept" \in load.can[t]
      /\ sk' = [sk EXCEPT ![Lst] = q]
      /\ pc' = [pc EXCEPT ![t].at = "accept"]
      /\ UNCHANGED <<rx, load, park>>
  BY DEF Accept, At, Goto
<1>2. Lst \in Socks /\ r \in Sockets
  BY Names DEF RInv, Typed
<1>3. q.acc = r.acc /\ q.st = r.st /\ q.backlog = r.backlog
  <2>1. q = [r EXCEPT !.refs = r.refs + 1]
    BY DEF Get
  <2> HIDE DEF r, q
  <2> QED BY <1>2, <2>1 DEF Sockets
<1> HIDE DEF q
<1>4. PICK s \in Socks : s = Lst
  BY <1>2
<1> QED BY <1>1, <1>3, <1>4, MoveOn

LEMMA RecvN ==
  ASSUME RInv, NInv, OneAcceptor, NEW t \in Threads, Recv(t)
  PROVE  NInv'
<1> DEFINE s == pc[t].sock
           r == sk[s]
           q == Get(r)
<1>1. /\ pc[t].at = "user" /\ Awake(t) /\ s # None /\ r.st # "SYN_SENT"
      /\ sk' = [sk EXCEPT ![s] = q]
      /\ pc' = [pc EXCEPT ![t].at = "recv"]
      /\ UNCHANGED <<rx, load, park>>
  BY DEF Recv, Owner, At, Goto
<1>2. s \in Socks /\ r \in Sockets /\ Usable(t, r)
  BY <1>1, ThreadHas, Has
<1>3. q.st = r.st
  <2>1. q = [r EXCEPT !.refs = r.refs + 1]
    BY DEF Get
  <2> HIDE DEF r, q
  <2> QED BY <1>2, <2>1 DEF Sockets
<1>4. r.st \notin {"LAST_ACK", "SYN_RECEIVED"}
  BY <1>2 DEF Usable
<1> HIDE DEF q
<1> QED BY <1>1, <1>2, <1>3, <1>4, MoveOn

(* The thread sleeps, or goes on where a wake-up was kept for it. *)
LEMMA SleepN ==
  ASSUME RInv, NInv, OneAcceptor, NEW t \in Threads, NEW at, NEW next, Sleep(t, at, next),
         \/ at = "connblock" /\ next = "connect"
         \/ at = "acceptblock" /\ next = "acceptwoken"
         \/ at = "recvblock" /\ next = "recvwoken"
  PROVE  NInv'
<1>1. /\ pc[t].at = at /\ pc' = [pc EXCEPT ![t].at = next] /\ Block(t)
      /\ UNCHANGED <<sk, rx, load>>
  BY DEF Sleep, At, Goto
<1>2. /\ pc'[t].at = next /\ pc'[t].sock = pc[t].sock
      /\ \A u \in Threads \ {t} : pc'[u] = pc[u]
  BY <1>1 DEF RInv, Typed
<1>3. /\ park'[t] = IF park[t] = "token" THEN "run" ELSE "parked"
      /\ \A u \in Threads \ {t} : park'[u] = park[u]
  BY <1>1 DEF RInv, Typed, Block
<1>4. AcceptorOK(t) /\ ReaderOK(t) /\ UsableOK(t) /\ PlaceOK(t)
  BY DEF NInv, ThreadOK
<1>5. /\ Dozes(t, "acceptblock", "acceptwoken")' => Dozes(t, "acceptblock", "acceptwoken")
      /\ Dozes(t, "recvblock", "recvwoken")' => Dozes(t, "recvblock", "recvwoken")
  BY <1>1, <1>2, <1>3 DEF Dozes
<1>6. AcceptorOK(t)'
  BY <1>1, <1>4, <1>5 DEF AcceptorOK, Ready, Told
<1>7. ReaderOK(t)'
  BY <1>1, <1>2, <1>4, <1>5 DEF ReaderOK, Waits, Eof
<1>8. UsableOK(t)'
  BY <1>1, <1>2, <1>4 DEF UsableOK, Usable, Reading
<1>9. PlaceOK(t)'
  BY <1>1, <1>2, <1>3, <1>4 DEF PlaceOK, Accepting
<1>10. ThreadOK(t)'
  BY <1>6, <1>7, <1>8, <1>9 DEF ThreadOK
<1> QED BY <1>1, <1>2, <1>3, <1>10, ThreadStep

(* A signal pulls a parked thread out of its wait and leaves a running one. *)
LEMMA SignalN ==
  ASSUME RInv, NInv, OneAcceptor, NEW t \in Threads, Signal(t)
  PROVE  NInv'
<1>1. UNCHANGED <<sk, rx, pc, load>> /\ Poke(t)
  BY DEF Signal
<1>2. /\ park'[t] = IF park[t] = "parked" THEN "run" ELSE park[t]
      /\ \A u \in Threads \ {t} : park'[u] = park[u]
  BY <1>1 DEF RInv, Typed, Poke
<1>3. AcceptorOK(t) /\ ReaderOK(t) /\ UsableOK(t) /\ PlaceOK(t)
  BY DEF NInv, ThreadOK
<1>4. /\ Dozes(t, "acceptblock", "acceptwoken")' => Dozes(t, "acceptblock", "acceptwoken")
      /\ Dozes(t, "recvblock", "recvwoken")' => Dozes(t, "recvblock", "recvwoken")
  BY <1>1, <1>2 DEF Dozes
<1>5. AcceptorOK(t)'
  BY <1>1, <1>3, <1>4 DEF AcceptorOK, Ready, Told
<1>6. ReaderOK(t)'
  BY <1>1, <1>3, <1>4 DEF ReaderOK, Waits, Eof
<1>7. UsableOK(t)' /\ PlaceOK(t)'
  BY <1>1, <1>2, <1>3 DEF UsableOK, Usable, PlaceOK
<1>8. ThreadOK(t)'
  BY <1>5, <1>6, <1>7 DEF ThreadOK
<1> QED BY <1>1, <1>2, <1>8, ThreadStep

(* close() begins: the thread gives the socket up. *)
LEMMA CloseN ==
  ASSUME RInv, NInv, OneAcceptor, NEW t \in Threads, Close(t)
  PROVE  NInv'
<1>0. PICK s \in {pc[t].sock, Lst} :
        /\ pc[t].at = "user" /\ Awake(t)
        /\ pc' = [pc EXCEPT ![t].sock = IF s = @ THEN None ELSE @]
        /\ UNCHANGED <<sk, rx, load, park>>
  BY DEF Close, At
<1> DEFINE w == IF s = pc[t].sock THEN None ELSE pc[t].sock
           p == [pc[t] EXCEPT !.sock = w]
<1>1. pc' = [pc EXCEPT ![t] = p] /\ p.at = "user" /\ p.sock = w
  BY <1>0 DEF RInv, Typed
<1> HIDE DEF p
<1>2. p.sock # None => p.sock = pc[t].sock
  BY <1>1
<1>3. p.sock # None => sk'[p.sock].st \notin {"LAST_ACK", "SYN_RECEIVED"}
  BY <1>0, <1>2, Has DEF Usable
<1> HIDE DEF w
<1>4. p.at \in {"user", "connblock", "accept", "recv"} /\ p.at # "accept" /\ p.at # "recv"
  BY <1>1
<1> QED BY <1>0, <1>1, <1>3, <1>4, GoOn

LEMMA AcceptWokenN ==
  ASSUME RInv, NInv, OneAcceptor, NEW t \in Threads, AcceptWoken(t)
  PROVE  NInv'
<1>1. /\ pc[t].at = "acceptwoken" /\ Awake(t) /\ UNCHANGED <<rx, load, park>>
      /\ \/ /\ \E q : sk' = [sk EXCEPT ![Lst] = q]
            /\ pc' = [pc EXCEPT ![t].at = "user"]
         \/ pc' = [pc EXCEPT ![t].at = "accept"] /\ UNCHANGED sk
  BY DEF AcceptWoken, At, Goto, Return
<1>2. pc[t].at \in Accepting
  BY <1>1 DEF Accepting
<1>3. pc[t].sock = None /\ "accept" \in load.can[t]
  BY <1>2, AcceptHas DEF NInv, ThreadOK, PlaceOK
<1>4. PICK s \in Socks : s = Lst
  BY Names
<1> DEFINE p == [pc[t] EXCEPT !.at = "accept"]
<1>5. CASE /\ \E q : sk' = [sk EXCEPT ![Lst] = q]
           /\ pc' = [pc EXCEPT ![t].at = "user"]
  <2>1. PICK q : sk' = [sk EXCEPT ![s] = q]
    BY <1>4, <1>5
  <2> QED BY <1>1, <1>2, <1>3, <1>4, <1>5, <2>1, MoveOn
<1>6. CASE pc' = [pc EXCEPT ![t].at = "accept"] /\ UNCHANGED sk
  <2>1. pc' = [pc EXCEPT ![t] = p] /\ p.at = "accept" /\ p.sock = None
    BY <1>3, <1>6 DEF RInv, Typed
  <2> HIDE DEF p
  <2> QED BY <1>1, <1>2, <1>3, <1>6, <2>1, GoOn
<1> QED BY <1>1, <1>5, <1>6

LEMMA RecvWokenN ==
  ASSUME RInv, NInv, OneAcceptor, NEW t \in Threads, RecvWoken(t)
  PROVE  NInv'
<1>0. PICK s : s = pc[t].sock
  OBVIOUS
<1> DEFINE r == sk[s]
           c == IF r.rxw = t THEN None ELSE r.rxw
           q == [r EXCEPT !.rxw = c]
           p == Put(q)
<1>1. pc[t].at = "recvwoken" /\ Awake(t) /\ UNCHANGED <<rx, load, park>>
  BY DEF RecvWoken, At
<1>2. pc[t].sock # None /\ pc[t].at \in Reading
  BY <1>1 DEF RInv, CallsOK, Reading
<1>3. s \in Socks /\ s \in DOMAIN sk /\ r \in Sockets /\ r.linked /\ Usable(t, r)
  BY <1>0, <1>2, ThreadHas, Has DEF RInv, Typed
<1>4. Users(s) # 0
  BY <1>0, <1>2, UsersNat
<1>5. \/ sk' = [sk EXCEPT ![s] = p] /\ pc' = [pc EXCEPT ![t].at = "user"]
      \/ UNCHANGED sk /\ pc' = [pc EXCEPT ![t].at = "recv"]
  BY <1>0, <1>3 DEF RecvWoken, Goto, Return
<1>6. p.st = r.st
  <2>1. c \in Threads \cup {None}
    <3> HIDE DEF r
    <3>1. t \in Threads /\ r.rxw \in Threads \cup {None}
      BY <1>3, SocketFields
    <3> QED BY <3>1
  <2>2. q \in Sockets /\ q.refs = r.refs /\ q.st = r.st
    <3> HIDE DEF c, r
    <3> QED BY <1>3, <2>1 DEF Sockets
  <2> HIDE DEF q
  <2> QED BY <1>3, <1>4, <2>2, PutKeeps
<1>7. r.st \notin {"LAST_ACK", "SYN_RECEIVED", "SYN_SENT"}
  BY <1>2, <1>3 DEF Usable
<1> HIDE DEF p
<1>8. CASE sk' = [sk EXCEPT ![s] = p] /\ pc' = [pc EXCEPT ![t].at = "user"]
  <2> HIDE DEF r
  <2> QED BY <1>0, <1>1, <1>3, <1>6, <1>7, <1>8, MoveOn
<1>9. CASE UNCHANGED sk /\ pc' = [pc EXCEPT ![t].at = "recv"]
  <2> DEFINE v == [pc[t] EXCEPT !.at = "recv"]
  <2>1. pc' = [pc EXCEPT ![t] = v] /\ v.at = "recv" /\ v.sock = s
    BY <1>0, <1>9 DEF RInv, Typed
  <2>2. sk'[v.sock].st \notin {"LAST_ACK", "SYN_RECEIVED", "SYN_SENT"}
    BY <1>7, <1>9, <2>1
  <2> HIDE DEF v
  <2> QED BY <1>1, <1>9, <2>1, <2>2, GoOn
<1> QED BY <1>5, <1>8, <1>9

LEMMA AcceptTryN ==
  ASSUME RInv, NInv, OneAcceptor, NEW t \in Threads, AcceptTry(t)
  PROVE  NInv'
<1> DEFINE r == sk[Lst]
           ready == {i \in DOMAIN r.backlog : Ready(r.backlog[i])}
           q == [r EXCEPT !.acc = t]
<1>1. pc[t].at = "accept" /\ Awake(t) /\ UNCHANGED <<rx, load, park>>
  BY DEF AcceptTry, At
<1>2. pc[t].at \in Accepting
  BY <1>1 DEF Accepting
<1>3. /\ r \in Sockets /\ pc[t].sock = None /\ Lst \in Socks /\ Lst \in DOMAIN sk
      /\ "accept" \in load.can[t]
  BY <1>2, AcceptHas, Names, SMTT(30) DEF RInv, Typed, NInv, ThreadOK, PlaceOK
<1>4. PICK s \in Socks : s = Lst
  BY <1>3
<1>5. CASE /\ sk' = [sk EXCEPT ![Lst] = Put(@)]
           /\ Return(t)
  <2>1. pc' = [pc EXCEPT ![t].at = "user"]
    BY <1>5 DEF Return, Goto
  <2>2. PICK e : sk' = [sk EXCEPT ![s] = e]
    BY <1>4, <1>5
  <2> QED BY <1>1, <1>2, <1>3, <1>4, <2>1, <2>2, MoveOn
<1>6. CASE /\ r.st = "LISTEN" /\ ready # {}
           /\ sk' = [sk EXCEPT ![Lst] = Put([r EXCEPT !.backlog = RemoveAt(@, Min(ready))])]
           /\ pc' = [pc EXCEPT ![t] = [at |-> "user", sock |-> r.backlog[Min(ready)]]]
           /\ UNCHANGED sig
  <2>1. ready \subseteq Nat /\ ready \subseteq DOMAIN r.backlog
    <3> DEFINE o == r.backlog
    <3>1. o \in Seq(Kids)
      BY ListenerHas
    <3> HIDE DEF o
    <3>2. DOMAIN o \subseteq Nat
      BY <3>1, LenProperties
    <3> QED BY <3>2 DEF o
  <2> DEFINE i == Min(ready)
             k == r.backlog[i]
             p == [at |-> "user", sock |-> k]
  <2>2. i \in ready
    <3> HIDE DEF ready
    <3>1. \E n \in ready : \A m \in ready : n <= m
      BY <1>6, <2>1, LeastNumber
    <3> QED BY <3>1 DEF Min
  <2>3. k \in Range(r.backlog) /\ Ready(k)
    BY <2>2 DEF Range
  <2>4. k \in Kids /\ k \in Socks /\ k # Lst
    BY <2>3, BacklogKid
  <2>5. pc' = [pc EXCEPT ![t] = p] /\ p.at = "user" /\ p.sock = k
    BY <1>6
  <2>6. \A u \in Socks \ {Lst} : sk'[u] = sk[u]
    BY <1>6 DEF RInv, Typed
  <2>7. sk'[p.sock].st \notin {"LAST_ACK", "SYN_RECEIVED"}
    <3>1. sk'[k] = sk[k]
      BY <2>4, <2>6
    <3> QED BY <2>3, <2>5, <3>1 DEF Ready
  <2> HIDE DEF p, k, i
  <2> QED BY <1>1, <1>2, <2>5, <2>6, <2>7, GoOn
<1>7. CASE /\ r.st = "LISTEN" /\ ready = {}
           /\ sk' = [sk EXCEPT ![Lst].acc = t]
           /\ Goto(t, "acceptblock")
           /\ UNCHANGED sig
  <2>1. /\ sk' = [sk EXCEPT ![Lst] = q] /\ pc' = [pc EXCEPT ![t].at = "acceptblock"]
    BY <1>3, <1>7 DEF Goto
  <2>2. q.acc = t /\ q.st = "LISTEN" /\ q.backlog = r.backlog
    <3> HIDE DEF r
    <3> QED BY <1>3, <1>7 DEF Sockets
  <2>3. \A k \in Range(r.backlog) : ~Ready(k)
    BY <1>7 DEF Range
  <2> HIDE DEF q
  <2>4. sk'[Lst] = q /\ \A u \in Socks \ {Lst} : sk'[u] = sk[u]
    BY <1>3, <2>1 DEF RInv, Typed
  <2>5. /\ pc'[t].at = "acceptblock" /\ pc'[t].sock = None
        /\ \A u \in Threads \ {t} : pc'[u] = pc[u]
    BY <1>3, <2>1 DEF RInv, Typed
  <2>6. AcceptorOK(t)'
    <3>1. ASSUME NEW k \in Range(sk'[Lst].backlog) PROVE ~Ready(k)'
      <4>1. k \in Range(r.backlog)
        BY <2>2, <2>4
      <4>2. k \in Socks /\ k # Lst
        BY <4>1, BacklogKid
      <4> QED BY <2>3, <2>4, <4>1, <4>2 DEF Ready
    <3> QED BY <2>2, <2>4, <3>1 DEF AcceptorOK
  <2>7. ReaderOK(t)' /\ UsableOK(t)'
    BY <2>5 DEF ReaderOK, UsableOK, Dozes
  <2>8. PlaceOK(t)'
    BY <1>1, <1>3, <2>5 DEF PlaceOK, Awake
  <2>9. ThreadOK(t)'
    BY <2>6, <2>7, <2>8 DEF ThreadOK
  <2> QED BY <1>1, <1>2, <2>4, <2>5, <2>9, ThreadStep
<1> QED BY <1>5, <1>6, <1>7 DEF AcceptTry

LEMMA RecvTryN ==
  ASSUME RInv, NInv, OneAcceptor, NEW t \in Threads, RecvTry(t)
  PROVE  NInv'
<1>0. PICK s : s = pc[t].sock
  OBVIOUS
<1> DEFINE r == sk[s]
           d == Tail(r.rx)
           less == [r EXCEPT !.rx = d]
           q == [r EXCEPT !.rxw = t]
           gets == Put(less)
           ends == Put(r)
<1>1. pc[t].at = "recv" /\ Awake(t) /\ UNCHANGED <<rx, load, park>>
  BY DEF RecvTry, At
<1>2. pc[t].sock # None /\ pc[t].at \in Reading
  BY <1>1 DEF RInv, CallsOK, Reading
<1>3. s \in Socks /\ s # Lst /\ s \in DOMAIN sk /\ r \in Sockets /\ r.linked /\ Usable(t, r)
  BY <1>0, <1>2, ThreadHas, Has DEF RInv, Typed
<1>4. Users(s) # 0
  BY <1>0, <1>2, UsersNat
<1>5. r.st \notin {"LAST_ACK", "SYN_RECEIVED", "SYN_SENT"}
  BY <1>2, <1>3 DEF Usable
<1>6. \/ /\ r.rx # <<>> /\ sk' = [sk EXCEPT ![s] = gets]
         /\ pc' = [pc EXCEPT ![t].at = "user"]
      \/ /\ sk' = [sk EXCEPT ![s] = ends]
         /\ pc' = [pc EXCEPT ![t].at = "user"]
      \/ /\ r.rx = <<>> /\ ~Eof(r) /\ sk' = [sk EXCEPT ![s] = q]
         /\ pc' = [pc EXCEPT ![t].at = "recvblock"]
  BY <1>0, <1>3 DEF RecvTry, Goto, Return
<1>7. CASE r.rx # <<>> /\ sk' = [sk EXCEPT ![s] = gets] /\ pc' = [pc EXCEPT ![t].at = "user"]
  <2>1. d \in Seq(Bytes)
    <3> DEFINE x == r.rx
    <3>1. x \in Seq(Bytes) /\ x # <<>>
      <4>1. r.rx # <<>>
        BY <1>7
      <4> HIDE DEF r
      <4> QED BY <1>3, <4>1, SocketFields
    <3> HIDE DEF x
    <3>2. Tail(x) \in Seq(Bytes)
      BY <3>1, HeadTailProperties
    <3> QED BY <3>2 DEF x
  <2>2. less \in Sockets /\ less.refs = r.refs /\ less.st = r.st
    <3> HIDE DEF d, r
    <3> QED BY <1>3, <2>1 DEF Sockets
  <2>3. gets.st = r.st
    <3> HIDE DEF less
    <3> QED BY <1>3, <1>4, <2>2, PutKeeps
  <2>4. sk' = [sk EXCEPT ![s] = gets] /\ pc' = [pc EXCEPT ![t].at = "user"]
    BY <1>7
  <2> HIDE DEF gets, r
  <2> QED BY <1>0, <1>1, <1>3, <1>5, <2>3, <2>4, MoveOn
<1>8. CASE sk' = [sk EXCEPT ![s] = ends] /\ pc' = [pc EXCEPT ![t].at = "user"]
  <2>1. ends.st = r.st
    BY <1>3, <1>4, PutKeeps
  <2> HIDE DEF ends, r
  <2> QED BY <1>0, <1>1, <1>3, <1>5, <1>8, <2>1, MoveOn
<1>9. CASE /\ r.rx = <<>> /\ ~Eof(r) /\ sk' = [sk EXCEPT ![s] = q]
           /\ pc' = [pc EXCEPT ![t].at = "recvblock"]
  <2>1. q.rxw = t /\ q.rx = <<>> /\ q.st = r.st
    <3> HIDE DEF r
    <3> QED BY <1>3, <1>9 DEF Sockets
  <2> HIDE DEF q
  <2>2. sk'[s] = q /\ \A u \in Socks \ {s} : sk'[u] = sk[u]
    BY <1>3, <1>9 DEF RInv, Typed
  <2>3. /\ pc'[t].at = "recvblock" /\ pc'[t].sock = s
        /\ \A u \in Threads \ {t} : pc'[u] = pc[u]
    BY <1>0, <1>9 DEF RInv, Typed
  <2>4. ReaderOK(t)'
    BY <1>9, <2>1, <2>2, <2>3 DEF ReaderOK, Waits, Eof
  <2>5. UsableOK(t)'
    BY <1>5, <2>1, <2>2, <2>3 DEF UsableOK, Usable
  <2>6. AcceptorOK(t)' /\ PlaceOK(t)'
    BY <1>1, <2>3 DEF AcceptorOK, PlaceOK, Dozes, Awake, Accepting
  <2>7. ThreadOK(t)'
    BY <2>4, <2>5, <2>6 DEF ThreadOK
  <2>8. sk'[Lst] = sk[Lst]
    BY <1>3, <2>2, Names
  <2> QED BY <1>0, <1>1, <2>2, <2>3, <2>7, <2>8, ThreadStep
<1> QED BY <1>6, <1>7, <1>8, <1>9

LEMMA InitN ==
  ASSUME Init
  PROVE  NInv
<1> SUFFICES ASSUME NEW t \in Threads PROVE ThreadOK(t)
  BY DEF NInv
<1>1. /\ pc[t].at = "user" /\ pc[t].sock \in {t, None}
      /\ t \in Clients => pc[t].sock = t
      /\ t \notin Clients => pc[t].sock = None
  BY DEF Init
<1>2. park[t] \in {"run", "token"}
  BY DEF Init
<1>3. AcceptorOK(t) /\ ReaderOK(t) /\ PlaceOK(t)
  BY <1>1, <1>2 DEF AcceptorOK, ReaderOK, PlaceOK, Dozes, Accepting
<1>4. UsableOK(t)
  <2> SUFFICES ASSUME t \in Clients PROVE Usable(t, sk[t])
    BY <1>1 DEF UsableOK
  <2>1. sk[t] = Created("CLOSED", Lst)
    BY Names DEF Init
  <2>2. sk[t].st = "CLOSED"
    BY <2>1 DEF Created, Blank
  <2> QED BY <1>1, <2>2 DEF Usable, Reading
<1> QED BY <1>3, <1>4 DEF ThreadOK

LEMMA NextN ==
  ASSUME RInv, NInv, OneAcceptor, Next
  PROVE  NInv'
<1>1. ASSUME NEW h \in Hosts, NEW i \in 1 .. 2, NEW dup \in BOOLEAN, RxLookup(h, i, dup)
      PROVE  NInv'
  BY <1>1, LookupN
<1>2. ASSUME NEW h \in Hosts, Rx(h)
      PROVE  NInv'
  BY <1>2, RejectN, ResetN, ListenN, ChildN, BacklogN, ClosedN, SynSentN, SynReceivedN,
     NotifyN, EstablishedN, FinWaitN, RestN DEF Rx
<1>3. ASSUME NEW h \in Hosts, Lose(h)
      PROVE  NInv'
  BY <1>3, LoseN
<1>4. ASSUME NEW h \in Hosts, Tick(h)
      PROVE  NInv'
  BY <1>4, TickAgainN, GiveUpN, SpliceN DEF Tick
<1>5. ASSUME NEW s \in Socks, TickTake(s)
      PROVE  NInv'
  BY <1>5, TakeN
<1>6. ASSUME NEW x \in Doers, CloseSection(x) \/ CloseUnlink(x)
      PROVE  NInv'
  BY <1>6, SectionN, UnlinkN
<1>7. ASSUME NEW t \in Clients, NEW nonblock \in BOOLEAN, Connect(t, nonblock)
      PROVE  NInv'
  BY <1>7, ConnectN
<1>8. ASSUME NEW t \in Threads, NEW n \in {1, Mss + 1}, Send(t, n)
      PROVE  NInv'
  BY <1>8, SendN
<1>9. ASSUME NEW t \in Threads, Accept(t) \/ Recv(t) \/ Shutdown(t) \/ Close(t) \/ Signal(t)
      PROVE  NInv'
  BY <1>9, AcceptN, RecvN, ShutdownN, CloseN, SignalN
<1>10. ASSUME NEW t \in Threads, Blocks(t)
       PROVE  NInv'
  BY <1>10, SleepN DEF Blocks
<1>11. ASSUME NEW t \in Threads, Call(t)
       PROVE  NInv'
  BY <1>10, <1>11, ConnectWokenN, AcceptTryN, AcceptWokenN, RecvTryN, RecvWokenN DEF Call
<1> QED BY <1>1, <1>2, <1>3, <1>4, <1>5, <1>6, <1>7, <1>8, <1>9, <1>11 DEF Next, Doers

LEMMA StutterN ==
  ASSUME RInv, NInv, UNCHANGED vars
  PROVE  NInv'
<1>1. UNCHANGED <<sk, rx, pc, load, park>>
  BY DEF vars
<1>2. \A k \in Kids : Told(k) => Told(k)'
  BY <1>1 DEF Told
<1> QED BY <1>1, <1>2, CalmStep

LEMMA AwakeFromN ==
  ASSUME RInv, NInv
  PROVE  NobodyStranded
<1> SUFFICES ASSUME NEW t \in Threads, ~Awake(t)
             PROVE  /\ pc[t].at = "acceptwoken" =>
                         /\ sk[Lst].st = "LISTEN"
                         /\ \A k \in Range(sk[Lst].backlog) :
                              Ready(k) => rx[Lst].at = "notify" /\ rx[Lst].sock = k
                    /\ pc[t].at = "recvwoken" =>
                         LET r == sk[pc[t].sock] IN r.rx = <<>> /\ (Eof(r) => r.st = "TIME_WAIT")
  BY DEF NobodyStranded
<1>1. AcceptorOK(t) /\ ReaderOK(t)
  BY DEF NInv, ThreadOK
<1>2. park[t] = "parked"
  BY DEF Awake
<1> QED BY <1>1, <1>2 DEF AcceptorOK, ReaderOK, Dozes, Waits, Told

LEMMA AlwaysN ==
  ASSUME OneAcceptor
  PROVE  Spec => []NInv
<1>1. RInv /\ NInv /\ [Next]_vars => NInv'
  BY NextN, StutterN
<1> QED BY <1>1, InitN, AlwaysR, PTL DEF Spec

(* Where one thread accepts on a listener, no wake-up of tcp.c is lost: a thread
   sleeps in accept() only while no child is ready, or the receive path is about
   to wake it, and in recv() only while there is nothing to read and no end of
   file; for any clients, children, loads and signals, whatever the wire does. *)
THEOREM AlwaysNobodyStranded ==
  ASSUME OneAcceptor
  PROVE  Spec => []NobodyStranded
BY AlwaysR, AlwaysN, AwakeFromN, PTL

----------------------------------------------------------------------------
(* STREAMS

   Numbers modulo the wrap *)

LEMMA DivMod ==
  ASSUME NEW w \in Nat \ {0}, NEW a \in Nat
  PROVE  \E q \in Int : \E t \in 0 .. w - 1 : a = w * q + t /\ a % w = t
<1>1. a \div w \in Int /\ a % w \in 0 .. w - 1
  OBVIOUS
<1>2. w \in Int /\ a \in Int /\ w > 0
  OBVIOUS
<1>3. PICK q \in Int : q = a \div w
  BY <1>1
<1>4. PICK t \in 0 .. w - 1 : t = a % w
  BY <1>1
<1>5. a = w * q + t
  BY <1>2, <1>3, <1>4, Z3
<1> QED BY <1>4, <1>5

LEMMA ModUnique ==
  ASSUME NEW w \in Nat \ {0}, NEW a \in Nat, NEW b \in Nat, a % w = b % w, a <= b, b < a + w
  PROVE  a = b
<1>1. PICK p \in Int, s \in 0 .. w - 1 : a = w * p + s /\ a % w = s
  BY DivMod
<1>2. PICK q \in Int, t \in 0 .. w - 1 : b = w * q + t /\ b % w = t
  BY DivMod
<1>3. PICK d \in Int : d = q - p
  BY <1>1, <1>2
<1>4. w * d = w * q - w * p
  BY <1>3
<1>5. b - a = w * d
  BY <1>1, <1>2, <1>4
<1>6. d <= 0
  <2> SUFFICES ASSUME d >= 1 PROVE FALSE
    OBVIOUS
  <2>1. w * d >= w
    OBVIOUS
  <2> QED BY <1>5, <2>1
<1>7. d >= 0
  <2> SUFFICES ASSUME d <= -1 PROVE FALSE
    OBVIOUS
  <2>1. w * d <= -w
    OBVIOUS
  <2> QED BY <1>5, <2>1
<1>8. w * d = 0
  BY <1>6, <1>7
<1> QED BY <1>5, <1>8

LEMMA ModPlus ==
  ASSUME NEW w \in Nat \ {0}, NEW a \in Nat, NEW n \in Nat
  PROVE  ((a % w) + n) % w = (a + n) % w
<1>1. PICK p \in Int, r \in 0 .. w - 1 : a = w * p + r /\ a % w = r
  BY DivMod
<1>2. r + n \in Nat
  OBVIOUS
<1>3. PICK q \in Int, t \in 0 .. w - 1 : r + n = w * q + t /\ (r + n) % w = t
  BY <1>2, DivMod
<1>4. w * (p + q) = w * p + w * q
  OBVIOUS
<1>5. PICK s \in Int : s = p + q
  OBVIOUS
<1>6. PICK b \in Nat : b = a + n
  OBVIOUS
<1>7. b = w * s + t
  BY <1>1, <1>3, <1>4, <1>5, <1>6
<1>8. b % w = t
  BY <1>7
<1> QED BY <1>1, <1>3, <1>6, <1>8

(* An order gives each child a place. *)
LEMMA OrderFacts ==
  ASSUME NEW o \in Orders(Made)
  PROVE  /\ DOMAIN o = Made /\ Made \subseteq Kids /\ Ends(o) = Clients \cup Made
         /\ Cardinality(Made) \in Nat
         /\ \A k \in Made : o[k] \in Nat /\ o[k] < Cardinality(Made)
         /\ \A j, k \in Made : o[j] = o[k] => j = k
         /\ \A s : Base(o, s) \in Nat
         /\ \A c \in Clients : Base(o, c) = 0
<1>1. Made \subseteq Kids
  BY DEF Made
<1>2. Cardinality(Made) \in Nat
  BY <1>1, Names, FS_Subset, FS_CardinalityType
<1>3. o \in [Made -> 0 .. Cardinality(Made) - 1] /\ \A j, k \in Made : o[j] = o[k] => j = k
  BY DEF Orders
<1>4. \A k \in Made : o[k] \in Nat /\ o[k] < Cardinality(Made)
  BY <1>2, <1>3
<1>5. IsnStep \in Nat
  BY TcpSizes
<1>6. \A s : Base(o, s) \in Nat
  BY <1>3, <1>4, <1>5 DEF Base
<1>7. \A c \in Clients : Base(o, c) = 0
  BY <1>1, <1>3, Names DEF Base
<1> QED BY <1>1, <1>2, <1>3, <1>4, <1>6, <1>7 DEF Ends

LEMMA SeqNoPlus ==
  ASSUME NEW o, NEW s, Base(o, s) \in Nat, NEW n \in Nat, NEW m \in Nat
  PROVE  SeqNo(o, s, n) \in Seqs /\ Plus(SeqNo(o, s, n), m) = SeqNo(o, s, n + m)
<1>1. Wrap \in Nat \ {0} /\ FirstIsn \in Nat
  BY TcpSizes DEF FirstIsn
<1>2. PICK a \in Nat : a = FirstIsn + Base(o, s) + n
  BY <1>1
<1>3. SeqNo(o, s, n) = a % Wrap /\ a % Wrap \in 0 .. Wrap - 1
  BY <1>1, <1>2 DEF SeqNo
<1>4. FirstIsn + Base(o, s) + (n + m) = a + m
  BY <1>1, <1>2
<1>5. ((a % Wrap) + m) % Wrap = (a + m) % Wrap
  BY <1>1, ModPlus
<1>6. SeqNo(o, s, n + m) = (a + m) % Wrap
  BY <1>4 DEF SeqNo
<1>7. Plus(SeqNo(o, s, n), m) = ((a % Wrap) + m) % Wrap
  BY <1>3 DEF Plus
<1> QED BY <1>3, <1>5, <1>6, <1>7 DEF Seqs

LEMMA SeqNoClient ==
  ASSUME NEW o, NEW s, Base(o, s) = 0
  PROVE  SeqNo(o, s, 0) = FirstIsn
<1>1. Wrap \in Nat \ {0} /\ FirstIsn \in Nat /\ FirstIsn < Wrap
  BY TcpSizes DEF FirstIsn
<1>2. FirstIsn + 0 + 0 = FirstIsn
  BY <1>1
<1>3. FirstIsn % Wrap = FirstIsn
  BY <1>1, Modulo
<1> QED BY <1>2, <1>3 DEF SeqNo

(* Two ends on one machine that are at the same number are one, at one byte. *)
LEMMA SameNumber ==
  ASSUME SeqsApart, load \in Loads, Cardinality(Made) <= load.kids, NEW o \in Orders(Made),
         NEW p \in Ends(o), NEW q \in Ends(o), Local(p) = Local(q),
         NEW x \in 0 .. load.bytes, NEW y \in 0 .. load.bytes,
         SeqNo(o, p, x + 1) = SeqNo(o, q, y + 1)
  PROVE  p = q /\ x = y
<1>1. Wrap \in Nat \ {0} /\ FirstIsn \in Nat /\ IsnStep \in Nat \ {0}
  BY TcpSizes DEF FirstIsn
<1>2. /\ load.bytes \in Nat /\ load.kids \in Nat
      /\ load.bytes < IsnStep /\ load.kids * IsnStep <= Wrap
  BY LoadFacts DEF SeqsApart
<1>3. x \in Nat /\ y \in Nat /\ x < IsnStep /\ y < IsnStep
  BY <1>1, <1>2
<1>4. PICK u \in Nat : u = Base(o, p)
  BY OrderFacts
<1>5. PICK v \in Nat : v = Base(o, q)
  BY OrderFacts
<1>6. SeqNo(o, p, x + 1) = (FirstIsn + u + (x + 1)) % Wrap
      /\ SeqNo(o, q, y + 1) = (FirstIsn + v + (y + 1)) % Wrap
  BY <1>4, <1>5 DEF SeqNo
<1>7. PICK a \in Nat : a = FirstIsn + u + (x + 1)
  BY <1>1, <1>3
<1>8. PICK b \in Nat : b = FirstIsn + v + (y + 1)
  BY <1>1, <1>3
<1>9. a % Wrap = b % Wrap
  BY <1>6, <1>7, <1>8
<1>10. u + x < Wrap /\ v + y < Wrap => u + x = v + y
  <2> SUFFICES ASSUME u + x < Wrap, v + y < Wrap PROVE u + x = v + y
    OBVIOUS
  <2>1. a < b + Wrap /\ b < a + Wrap
    BY <1>1, <1>3, <1>7, <1>8
  <2>2. a = b
    <3>1. CASE a <= b
      BY <1>1, <1>9, <2>1, <3>1, ModUnique
    <3>2. CASE b <= a
      BY <1>1, <1>9, <2>1, <3>2, ModUnique
    <3> QED BY <3>1, <3>2
  <2> QED BY <1>1, <1>3, <1>7, <1>8, <2>2
<1>11. CASE p \in Clients \/ q \in Clients
  <2>1. p = q
    BY <1>11, OrderFacts, Names DEF Ends, Local
  <2>2. u = 0 /\ v = 0
    BY <1>4, <1>5, <1>11, <2>1, OrderFacts
  <2>3. IsnStep <= Wrap
    BY TcpSizes
  <2>4. x < Wrap /\ y < Wrap
    BY <1>1, <1>3, <2>3
  <2>5. x = y
    BY <1>3, <1>10, <2>2, <2>4
  <2> QED BY <2>1, <2>5
<1>12. CASE p \in Made /\ q \in Made
  <2>1. PICK i \in Nat : i = o[p] /\ i < Cardinality(Made)
    BY <1>12, OrderFacts
  <2>2. PICK j \in Nat : j = o[q] /\ j < Cardinality(Made)
    BY <1>12, OrderFacts
  <2>3. u = i * IsnStep /\ v = j * IsnStep
    BY <1>4, <1>5, <1>12, <2>1, <2>2, OrderFacts DEF Base
  <2>4. i + 1 <= load.kids /\ j + 1 <= load.kids
    BY <1>2, <2>1, <2>2, OrderFacts
  <2>5. \A m, n \in Nat : m <= n => m * IsnStep <= n * IsnStep
    BY <1>1
  <2>6. (i + 1) * IsnStep <= Wrap /\ (j + 1) * IsnStep <= Wrap
    <3>1. (i + 1) * IsnStep <= load.kids * IsnStep /\ (j + 1) * IsnStep <= load.kids * IsnStep
      BY <1>2, <2>4, <2>5
    <3>2. PICK k \in Nat : k = load.kids * IsnStep
      BY <1>1, <1>2
    <3> QED BY <1>1, <1>2, <3>1, <3>2
  <2>7. (i + 1) * IsnStep = u + IsnStep /\ (j + 1) * IsnStep = v + IsnStep
    BY <1>1, <2>3
  <2>8. u + x = v + y
    BY <1>1, <1>3, <1>10, <2>6, <2>7
  <2>9. ~(i < j) /\ ~(j < i)
    <3>1. ASSUME i < j PROVE FALSE
      <4>1. (i + 1) * IsnStep <= j * IsnStep
        BY <2>5, <3>1
      <4> QED BY <1>1, <1>3, <2>3, <2>7, <2>8, <4>1
    <3>2. ASSUME j < i PROVE FALSE
      <4>1. (j + 1) * IsnStep <= i * IsnStep
        BY <2>5, <3>2
      <4> QED BY <1>1, <1>3, <2>3, <2>7, <2>8, <4>1
    <3> QED BY <3>1, <3>2
  <2>10. i = j
    BY <2>9
  <2>11. p = q
    BY <1>12, <2>1, <2>2, <2>10, OrderFacts
  <2>12. x = y
    BY <1>3, <2>3, <2>8, <2>10
  <2> QED BY <2>11, <2>12
<1> QED BY <1>11, <1>12, OrderFacts DEF Ends

----------------------------------------------------------------------------
(* What one step does to the streams *)

(* Neither data nor a connection request. *)
Plain(g) == g.data = <<>> /\ "SYN" \notin g.flags

LEMMA PlainOK ==
  ASSUME NEW o, NEW snt, NEW g, Plain(g)
  PROVE  SegOK(o, snt, g)
BY DEF Plain, SegOK, DataOK, SynOK

LEMMA PlainSeg ==
  ASSUME NEW s, NEW r, NEW flags, "SYN" \notin flags
  PROVE  Plain(Seg(s, r, flags, <<>>))
BY DEF Plain, Seg

AllOK(o, snt, w) == \A h \in Hosts : \A i \in DOMAIN w[h] : SegOK(o, snt, w[h][i])

LEMMA OntoOK ==
  ASSUME NEW w \in [Hosts -> Seq(Segments)], NEW o, NEW snt, AllOK(o, snt, w),
         NEW segs \in Seq(Segments), \A i \in DOMAIN segs : SegOK(o, snt, segs[i])
  PROVE  AllOK(o, snt, Onto(w, segs))
<1> SUFFICES ASSUME NEW h \in Hosts
             PROVE  \A i \in DOMAIN Onto(w, segs)[h] : SegOK(o, snt, Onto(w, segs)[h][i])
  BY DEF AllOK
<1>1. PICK v \in Seq(Segments) : v = w[h]
  OBVIOUS
<1>2. \A i \in DOMAIN v : SegOK(o, snt, v[i])
  BY <1>1 DEF AllOK
<1>3. Onto(w, segs)[h] = v \o segs \/ Onto(w, segs)[h] = v
  BY <1>1 DEF Onto
<1>4. ASSUME NEW i \in DOMAIN (v \o segs) PROVE SegOK(o, snt, (v \o segs)[i])
  <2>1. /\ Len(v) \in Nat /\ DOMAIN v = 1 .. Len(v)
        /\ Len(segs) \in Nat /\ DOMAIN segs = 1 .. Len(segs)
        /\ DOMAIN (v \o segs) = 1 .. Len(v) + Len(segs)
        /\ \A j \in 1 .. Len(v) + Len(segs) :
             (v \o segs)[j] = IF j <= Len(v) THEN v[j] ELSE segs[j - Len(v)]
    BY LenProperties, ConcatProperties
  <2>2. CASE i <= Len(v)
    <3>1. i \in DOMAIN v /\ (v \o segs)[i] = v[i]
      BY <2>1, <2>2
    <3> QED BY <1>2, <3>1
  <2>3. CASE ~(i <= Len(v))
    <3>1. i - Len(v) \in DOMAIN segs /\ (v \o segs)[i] = segs[i - Len(v)]
      BY <2>1, <2>3
    <3> QED BY <3>1
  <2> QED BY <2>2, <2>3
<1> QED BY <1>2, <1>3, <1>4

LEMMA WireGrows ==
  ASSUME Typed, NEW o, WireOK(o), NEW segs \in Seq(Segments),
         \A i \in DOMAIN segs : SegOK(o, sent, segs[i])
  PROVE  \A h \in Hosts : \A i \in DOMAIN Onto(wire, segs)[h] : SegOK(o, sent, Onto(wire, segs)[h][i])
<1>1. AllOK(o, sent, wire) /\ wire \in [Hosts -> Seq(Segments)]
  BY DEF AllOK, WireOK, Typed
<1>2. AllOK(o, sent, Onto(wire, segs))
  BY <1>1, OntoOK
<1> QED BY <1>2 DEF AllOK

(* What the streams know of r is true of q: nothing was read or sent. *)
Keeps(r, q) ==
  /\ q.st = "none" <=> r.st = "none"
  /\ \/ q = Gone
     \/ /\ q.peer = r.peer /\ q.rx = r.rx
        /\ q.st = "freed" <=> r.st = "freed"
        /\ q.st \in Opening => /\ q.st = r.st \/ (r.st = "SYN_RECEIVED" /\ q.st = "ESTABLISHED")
                               /\ q.iss = r.iss /\ q.nxt = r.nxt /\ q.rcv = r.rcv

LEMMA KeepsSame == ASSUME NEW r PROVE Keeps(r, r)
BY DEF Keeps

LEMMA KeepsEnd ==
  ASSUME NEW o, NEW snt \in [Socks -> Nat], NEW gt \in [Socks -> Seq(Bytes)], NEW s \in Socks,
         NEW r \in Sockets, NEW q \in Sockets, Keeps(r, q), EndOK(o, snt, gt, s, r),
         Ends(o) \subseteq Socks
  PROVE  EndOK(o, snt, gt, s, q)
<1>1. CASE q = Gone
  <2>1. q.st = "freed" /\ q.rx = <<>> /\ q.st \notin Opening
    BY <1>1, GoneFields DEF Opening
  <2>2. gt[s] \in Seq(Bytes) /\ r.rx \in Seq(Bytes)
    BY SocketFields
  <2> DEFINE x == gt[s]
             y == r.rx
  <2> HIDE DEF x, y
  <2>3. x \o <<>> = x /\ Len(x) \in Nat /\ Len(y) \in Nat /\ Len(x \o y) = Len(x) + Len(y)
        /\ (\A i \in 1 .. Len(x) : (x \o y)[i] = x[i])
    BY <2>2, ConcatEmptySeq, ConcatProperties, LenProperties DEF x, y
  <2>4. ASSUME x # <<>>
        PROVE  \E p \in Ends(o) : Reads(o, snt, q, x, p)
    <3>1. Len(x) # 0
      BY <2>2, <2>4, EmptySeq DEF x
    <3>2. x \o y # <<>>
      <4>1. Len(x \o y) # 0
        BY <2>3, <3>1
      <4> QED BY <4>1
    <3>3. PICK p \in Ends(o) : Reads(o, snt, r, x \o y, p)
      BY <3>2 DEF EndOK, RecvOK, x, y
    <3>4. Len(x) + Len(y) <= snt[p] /\ snt[p] \in Nat /\ \A i \in 1 .. Len(x) + Len(y) : (x \o y)[i] = <<p, i>>
      BY <2>3, <3>3 DEF Reads
    <3>5. Len(x) <= snt[p] /\ \A i \in 1 .. Len(x) : x[i] = <<p, i>>
      BY <2>3, <3>4
    <3> QED BY <2>1, <3>5 DEF Reads
  <2>5. RecvOK(o, snt, q, x \o q.rx)
    BY <2>1, <2>3, <2>4 DEF RecvOK
  <2> QED BY <2>1, <2>5 DEF EndOK, SendOK, x
<1>2. CASE q # Gone
  <2>1. /\ q.peer = r.peer /\ q.rx = r.rx /\ (q.st = "freed" <=> r.st = "freed")
        /\ (q.st = "none" <=> r.st = "none")
        /\ q.st \in Opening => /\ q.st = r.st \/ (r.st = "SYN_RECEIVED" /\ q.st = "ESTABLISHED")
                               /\ q.iss = r.iss /\ q.nxt = r.nxt /\ q.rcv = r.rcv
    BY <1>2 DEF Keeps
  <2>2. SendOK(o, snt[s], s, q)
    BY <2>1 DEF EndOK, SendOK, Opening
  <2> DEFINE all == gt[s] \o r.rx
  <2>3. RecvOK(o, snt, r, all)
    BY DEF EndOK
  <2> HIDE DEF all
  <2>4. RecvOK(o, snt, q, all)
    <3>1. \A p : Reads(o, snt, r, all, p) => Reads(o, snt, q, all, p)
      BY <2>1 DEF Reads, Opening
    <3>2. q.st \in {"SYN_RECEIVED", "ESTABLISHED"} => r.st \in {"SYN_RECEIVED", "ESTABLISHED"}
      BY <2>1 DEF Opening
    <3>3. q.st = "SYN_SENT" => r.st = "SYN_SENT"
      BY <2>1 DEF Opening
    <3> QED BY <2>3, <3>1, <3>2, <3>3 DEF RecvOK
  <2>5. gt[s] \o q.rx = all
    BY <2>1 DEF all
  <2> QED BY <2>1, <2>2, <2>4, <2>5 DEF EndOK
<1> QED BY <1>1, <1>2

(* A reference comes or goes. *)
LEMMA KeepsPut ==
  ASSUME NEW r, NEW q \in Sockets, Keeps(r, q), q.refs # 0, q.st \notin {"none", "freed"}
  PROVE  Keeps(r, Put(q)) /\ Put(q) \in Sockets
<1>1. Put(q) \in Sockets /\ (Put(q) = Gone \/ Put(q) = [q EXCEPT !.refs = q.refs - 1])
  BY PutFacts
<1>2. CASE Put(q) = Gone
  BY <1>1, <1>2, GoneFields DEF Keeps
<1>3. CASE Put(q) = [q EXCEPT !.refs = q.refs - 1]
  <2>1. /\ Put(q).st = q.st /\ Put(q).peer = q.peer /\ Put(q).rx = q.rx /\ Put(q).iss = q.iss
        /\ Put(q).nxt = q.nxt /\ Put(q).rcv = q.rcv
    BY <1>3 DEF Sockets
  <2>2. q # Gone
    BY GoneFields
  <2> QED BY <1>1, <2>1, <2>2 DEF Keeps
<1> QED BY <1>1, <1>2, <1>3

LEMMA KeepsGet ==
  ASSUME NEW r \in Sockets
  PROVE  Keeps(r, Get(r))
<1>1. /\ Get(r).st = r.st /\ Get(r).peer = r.peer /\ Get(r).rx = r.rx /\ Get(r).iss = r.iss
      /\ Get(r).nxt = r.nxt /\ Get(r).rcv = r.rcv
  BY DEF Get, Sockets
<1> QED BY <1>1 DEF Keeps

(* What the receive path works on is in use. *)
Busy == \A h \in Hosts : rx[h].at # "idle" => /\ rx[h].sock \in Socks
                                              /\ sk[rx[h].sock].st \notin {"none", "freed"}

LEMMA BusyFromR == RInv => Busy
BY RxHas DEF Busy

(* The receive path of h goes on with its segment, or has ended. *)
Onward(h) ==
  \/ rx'[h].at = "idle"
  \/ /\ rx[h].at # "idle" /\ rx'[h].seg = rx[h].seg /\ rx'[h].sock = rx[h].sock
     /\ rx'[h].at = "section" => rx[h].at = "section"
     /\ rx'[h].at = "child" => \/ rx[h].at = "child"
                               \/ "SYN" \in rx[h].seg.flags /\ "ACK" \notin rx[h].seg.flags

LEMMA SameTaken ==
  ASSUME RInv, Matched, Busy', sent' = sent, \A h \in Hosts : Onward(h),
         \A s \in Socks : sk'[s].st = "freed" \/ sk'[s].peer = sk[s].peer
  PROVE  Matched' /\ \A o : TakenOK(o) => TakenOK(o)'
<1>1. ASSUME NEW h \in Hosts
      PROVE  /\ rx'[h].at = "section" /\ rx'[h].sock # Lst => rx'[h].seg.src = sk'[rx'[h].sock].peer
             /\ rx'[h].at = "child" => "SYN" \in rx'[h].seg.flags /\ "ACK" \notin rx'[h].seg.flags
  <2>1. ASSUME rx'[h].at = "section", rx'[h].sock # Lst PROVE rx'[h].seg.src = sk'[rx'[h].sock].peer
    <3>1. rx[h].at = "section" /\ rx'[h].seg = rx[h].seg /\ rx'[h].sock = rx[h].sock
      BY <2>1 DEF Onward
    <3>2. PICK s \in Socks : s = rx[h].sock
      BY <3>1, RxHas
    <3>3. sk'[s].st # "freed"
      BY <2>1, <3>1, <3>2 DEF Busy
    <3>4. sk'[s].peer = sk[s].peer
      BY <3>3
    <3> QED BY <2>1, <3>1, <3>2, <3>4 DEF Matched
  <2>2. ASSUME rx'[h].at = "child" PROVE "SYN" \in rx'[h].seg.flags /\ "ACK" \notin rx'[h].seg.flags
    BY <2>2 DEF Onward, Matched
  <2> QED BY <2>1, <2>2
<1>2. ASSUME NEW o, TakenOK(o), NEW h \in Hosts, rx'[h].at # "idle" PROVE SegOK(o, sent', rx'[h].seg)
  BY <1>2 DEF TakenOK, Onward
<1>3. Matched'
  BY <1>1 DEF Matched
<1>4. ASSUME NEW o, TakenOK(o) PROVE TakenOK(o)'
  BY <1>2, <1>4 DEF TakenOK
<1> QED BY <1>3, <1>4

LEMMA MadeSame ==
  ASSUME \A s \in Socks : sk'[s].st = "none" <=> sk[s].st = "none"
  PROVE  Made' = Made
BY Names DEF Made

(* A step that reads nothing and sends no new data. *)
LEMMA StreamStep ==
  ASSUME RInv, SInv, RInv', UNCHANGED <<isn, sent, got, load>>,
         \A s \in Socks : Keeps(sk[s], sk'[s]), Matched',
         \A o \in Orders(Made) : Ordered(o) => WireOK(o)' /\ TakenOK(o)'
  PROVE  SInv'
<1>1. Made' = Made
  BY MadeSame DEF Keeps
<1>2. Numbered'
  BY <1>1 DEF SInv, Numbered
<1>3. Untouched'
  <2> SUFFICES ASSUME NEW s \in Socks, Unused(s)'
               PROVE  Silent(s)'
    BY DEF Untouched
  <2>1. Unused(s)
    BY <1>1 DEF Unused
  <2>2. Silent(s)
    BY <2>1 DEF SInv, Untouched
  <2>3. sk'[s].rx = <<>> /\ sk'[s].st \notin Opening
    BY <2>2, GoneFields DEF Silent, Keeps, Opening
  <2> QED BY <2>2, <2>3 DEF Silent
<1>4. PICK o \in Orders(Made) : Ordered(o)
  BY DEF SInv
<1>5. /\ sk \in [Socks -> Sockets] /\ sk' \in [Socks -> Sockets]
      /\ sent \in [Socks -> Nat] /\ got \in [Socks -> Seq(Bytes)]
  BY DEF RInv, Typed
<1>6. Ends(o) \subseteq Socks
  BY OrderFacts, Names
<1>7. EndsOK(o)'
  <2> SUFFICES ASSUME NEW s \in Socks PROVE EndOK(o, sent', got', s, sk'[s])
    BY DEF EndsOK
  <2>1. EndOK(o, sent, got, s, sk[s])
    BY <1>4 DEF Ordered, EndsOK
  <2>2. EndOK(o, sent, got, s, sk'[s])
    BY <1>5, <1>6, <2>1, KeepsEnd
  <2> QED BY <2>2
<1>8. WireOK(o)' /\ TakenOK(o)'
  BY <1>4
<1>9. Ordered(o)'
  BY <1>7, <1>8 DEF Ordered
<1> QED BY <1>1, <1>2, <1>3, <1>4, <1>9 DEF SInv

(* Such a step on one socket, with what it sends. *)
LEMMA SectionS ==
  ASSUME RInv, SInv, RInv', UNCHANGED <<isn, sent, got, load>>,
         \A s \in Socks : Keeps(sk[s], sk'[s]), \A h \in Hosts : Onward(h),
         NEW segs \in Seq(Segments), wire' = Onto(wire, segs),
         \A o \in Orders(Made) : Ordered(o) => \A i \in DOMAIN segs : SegOK(o, sent, segs[i])
  PROVE  SInv'
<1>1. Busy'
  BY BusyFromR, PTL
<1>0. \A s \in Socks : sk'[s].st = "freed" \/ sk'[s].peer = sk[s].peer
  BY GoneFields DEF Keeps
<1>2. Matched' /\ \A o : TakenOK(o) => TakenOK(o)'
  BY <1>0, <1>1, SameTaken DEF SInv
<1>3. ASSUME NEW o \in Orders(Made), Ordered(o) PROVE WireOK(o)' /\ TakenOK(o)'
  <2>1. WireOK(o) /\ TakenOK(o)
    BY <1>3 DEF Ordered
  <2>2. \A h \in Hosts : \A i \in DOMAIN Onto(wire, segs)[h] : SegOK(o, sent, Onto(wire, segs)[h][i])
    BY <1>3, <2>1, WireGrows DEF RInv
  <2>3. WireOK(o)'
    BY <2>2 DEF WireOK
  <2> QED BY <1>2, <2>1, <2>3
<1> QED BY <1>2, <1>3, StreamStep

LEMMA OnePlain ==
  ASSUME NEW g, Plain(g)
  PROVE  \A o : \A i \in DOMAIN <<g>> : SegOK(o, sent, <<g>>[i])
<1>1. DOMAIN <<g>> = {1} /\ <<g>>[1] = g
  OBVIOUS
<1> QED BY <1>1, PlainOK

LEMMA NonePlain == \A o : \A i \in DOMAIN <<>> : SegOK(o, sent, <<>>[i])
OBVIOUS

(* A section of the receive path ends, and one of the timer. *)
LEMMA DoneS ==
  ASSUME RInv, SInv, RInv', NEW h \in Hosts, rx[h].at # "idle", NEW s, s = rx[h].sock,
         NEW q \in Sockets, q.refs = sk[s].refs, q.st \notin {"none", "freed"}, Keeps(sk[s], q),
         NEW segs \in Seq(Segments), NEW T, Done(h, q, segs, T),
         \A o : \A i \in DOMAIN segs : SegOK(o, sent, segs[i])
  PROVE  SInv'
<1>1. /\ sk' = [sk EXCEPT ![s] = Put(q)] /\ rx' = [rx EXCEPT ![h] = RxIdle]
      /\ wire' = Onto(wire, segs) /\ UNCHANGED <<isn, sent, got, load>>
  BY DEF Done
<1>2. s \in Socks /\ q.refs # 0
  BY RxHas
<1>3. Keeps(sk[s], Put(q))
  BY <1>2, KeepsPut
<1>4. \A u \in Socks : Keeps(sk[u], sk'[u])
  <2>1. sk'[s] = Put(q) /\ \A u \in Socks \ {s} : sk'[u] = sk[u]
    BY <1>1, <1>2 DEF RInv, Typed
  <2> QED BY <1>3, <2>1, KeepsSame
<1>5. \A g \in Hosts : Onward(g)
  <2>1. rx'[h] = RxIdle /\ \A g \in Hosts \ {h} : rx'[g] = rx[g]
    BY <1>1 DEF RInv, Typed
  <2>2. RxIdle.at = "idle"
    BY DEF RxIdle
  <2> QED BY <2>1, <2>2 DEF Onward
<1> QED BY <1>1, <1>4, <1>5, SectionS

LEMMA TickEndS ==
  ASSUME RInv, SInv, RInv', NEW h \in Hosts, timer[h].at # "idle", NEW s, s = timer[h].sock,
         NEW q \in Sockets, q.refs = sk[s].refs, q.st \notin {"none", "freed"}, Keeps(sk[s], q),
         NEW segs \in Seq(Segments), NEW T, TickEnd(h, q, segs, T),
         \A o \in Orders(Made) : Ordered(o) => \A i \in DOMAIN segs : SegOK(o, sent, segs[i])
  PROVE  SInv'
<1>1. /\ sk' = [sk EXCEPT ![s] = Put(q)] /\ wire' = Onto(wire, segs)
      /\ UNCHANGED <<rx, isn, sent, got, load>>
  BY DEF TickEnd
<1>2. s \in Socks /\ q.refs # 0
  BY TickHas
<1>3. Keeps(sk[s], Put(q))
  BY <1>2, KeepsPut
<1>4. \A u \in Socks : Keeps(sk[u], sk'[u])
  <2>1. sk'[s] = Put(q) /\ \A u \in Socks \ {s} : sk'[u] = sk[u]
    BY <1>1, <1>2 DEF RInv, Typed
  <2> QED BY <1>3, <2>1, KeepsSame
<1>5. \A g \in Hosts : Onward(g)
  BY <1>1 DEF Onward
<1> QED BY <1>1, <1>4, <1>5, SectionS

(* A step that sends nothing. *)
LEMMA SilentS ==
  ASSUME RInv, SInv, RInv', UNCHANGED <<wire, isn, sent, got, load>>,
         \A s \in Socks : Keeps(sk[s], sk'[s]), \A h \in Hosts : Onward(h)
  PROVE  SInv'
<1>1. Busy'
  BY BusyFromR, PTL
<1>0. \A s \in Socks : sk'[s].st = "freed" \/ sk'[s].peer = sk[s].peer
  BY GoneFields DEF Keeps
<1>2. Matched' /\ \A o : TakenOK(o) => TakenOK(o)'
  BY <1>0, <1>1, SameTaken DEF SInv
<1>3. \A o : WireOK(o) => WireOK(o)'
  BY DEF WireOK
<1> QED BY <1>2, <1>3, StreamStep DEF Ordered

----------------------------------------------------------------------------
(* The receive path and the streams *)

LEMMA RejectS ==
  ASSUME RInv, SInv, RInv', NEW h \in Hosts, RxReject(h)
  PROVE  SInv'
<1> DEFINE s == rx[h].sock
           r == sk[s]
           a == Seg(s, r, {"ACK"}, <<>>)
<1>1. rx[h].at = "section" /\ (Done(h, r, <<a>>, {}) \/ Done(h, r, <<>>, {}))
  BY DEF RxReject, In, RxAt
<1>2. s \in Socks /\ r \in Sockets /\ r.st \notin {"none", "freed"}
  BY <1>1, RxHas
<1>3. Plain(a) /\ <<a>> \in Seq(Segments)
  BY <1>2, AckType, PlainSeg
<1>4. Keeps(r, r)
  BY KeepsSame
<1> HIDE DEF a
<1>5. \A o : \A i \in DOMAIN <<a>> : SegOK(o, sent, <<a>>[i])
  BY <1>3, OnePlain
<1>6. CASE Done(h, r, <<a>>, {})
  BY <1>1, <1>2, <1>3, <1>4, <1>5, <1>6, DoneS
<1>7. CASE Done(h, r, <<>>, {})
  BY <1>1, <1>2, <1>4, <1>7, NonePlain, NoSegment, DoneS
<1> QED BY <1>1, <1>6, <1>7

(* The section ends with the socket as it was, in the listener's place, too. *)
LEMMA DoneSameS ==
  ASSUME RInv, SInv, RInv', NEW h \in Hosts, rx[h].at # "idle", NEW s, s = rx[h].sock,
         NEW T, Done(h, sk[s], <<>>, T)
  PROVE  SInv'
<1>1. sk[s] \in Sockets /\ sk[s].st \notin {"none", "freed"} /\ Keeps(sk[s], sk[s])
  BY RxHas, KeepsSame
<1> QED BY <1>1, NonePlain, NoSegment, DoneS

LEMMA ResetS ==
  ASSUME RInv, SInv, RInv', NEW h \in Hosts, RxReset(h)
  PROVE  SInv'
<1> DEFINE s == rx[h].sock
           r == sk[s]
           q == [r EXCEPT !.st = "CLOSED", !.conn = None, !.rxw = None]
<1>1. rx[h].at = "section" /\ Done(h, q, <<>>, {r.conn, r.rxw})
  BY DEF RxReset, In, RxAt
<1>2. r \in Sockets /\ r.st \notin {"none", "freed"}
  BY <1>1, RxHas
<1>3. q \in Sockets /\ q.refs = r.refs /\ q.st = "CLOSED" /\ q.peer = r.peer /\ q.rx = r.rx
  <2> HIDE DEF r
  <2> QED BY <1>2 DEF Sockets, States
<1> HIDE DEF q
<1>4. Keeps(r, q)
  BY <1>2, <1>3 DEF Keeps, Opening
<1> QED BY <1>1, <1>3, <1>4, NonePlain, NoSegment, DoneS

LEMMA ListenS ==
  ASSUME RInv, SInv, RInv', NEW h \in Hosts, RxListen(h)
  PROVE  SInv'
<1> DEFINE s == rx[h].sock
           g == rx[h].seg
<1>1. rx[h].at = "section"
  BY DEF RxListen, In, RxAt
<1>2. CASE Done(h, sk[s], <<>>, {})
  BY <1>1, <1>2, DoneSameS
<1>3. CASE /\ "SYN" \in g.flags /\ g.flags \cap {"ACK", "RST"} = {}
           /\ rx' = [rx EXCEPT ![h].at = "child"]
           /\ UNCHANGED <<sk, wire, timer, pc, job, sig, isn, used, sent, got, load, park>>
  <2>1. /\ rx'[h].at = "child" /\ rx'[h].seg = rx[h].seg /\ rx'[h].sock = rx[h].sock
        /\ \A f \in Hosts \ {h} : rx'[f] = rx[f]
    BY <1>3 DEF RInv, Typed
  <2>2. "ACK" \notin g.flags
    BY <1>3
  <2>3. \A f \in Hosts : Onward(f)
    BY <1>1, <1>3, <2>1, <2>2 DEF Onward
  <2>4. \A u \in Socks : Keeps(sk[u], sk'[u])
    BY <1>3, KeepsSame
  <2> QED BY <1>3, <2>3, <2>4, SilentS
<1> QED BY <1>2, <1>3 DEF RxListen

LEMMA ClosedS ==
  ASSUME RInv, SInv, RInv', NEW h \in Hosts, RxClosed(h)
  PROVE  SInv'
<1>1. rx[h].at = "closed" /\ Done(h, sk[Lst], <<>>, {})
  BY DEF RxClosed, RxAt
<1>2. rx[h].sock = Lst
  BY <1>1 DEF RInv, RxOK
<1> QED BY <1>1, <1>2, DoneSameS

LEMMA BacklogS ==
  ASSUME RInv, SInv, RInv', NEW h \in Hosts, RxBacklog(h)
  PROVE  SInv'
<1> DEFINE r == sk[Lst]
           b == Append(r.backlog, rx[h].kid)
           q == [r EXCEPT !.backlog = b]
<1>1. rx[h].at = "backlog"
  BY DEF RxBacklog, RxAt
<1>2. rx[h].sock = Lst /\ rx[h].kid \in Kids
  BY <1>1 DEF RInv, RxOK, Typed
<1>3. r \in Sockets /\ r.st \notin {"none", "freed"}
  BY <1>1, <1>2, RxHas
<1>4. CASE Done(h, q, <<>>, {})
  <2>1. b \in Seq(Kids)
    BY <1>2, <1>3, SocketFields, AppendFacts
  <2> HIDE DEF b
  <2>2. /\ q \in Sockets /\ q.refs = r.refs /\ q.st = r.st /\ q.peer = r.peer /\ q.rx = r.rx
        /\ q.iss = r.iss /\ q.nxt = r.nxt /\ q.rcv = r.rcv
    <3> HIDE DEF r
    <3> QED BY <1>3, <2>1 DEF Sockets
  <2> HIDE DEF q
  <2>3. Keeps(r, q)
    BY <2>2 DEF Keeps
  <2> QED BY <1>1, <1>2, <1>3, <1>4, <2>2, <2>3, NonePlain, NoSegment, DoneS
<1>5. CASE /\ rx' = [rx EXCEPT ![h].at = "closed", ![h].kid = None]
           /\ UNCHANGED <<sk, wire, timer, pc, sig, isn, used, sent, got, load, park>>
  <2>1. /\ rx'[h].at = "closed" /\ rx'[h].seg = rx[h].seg /\ rx'[h].sock = rx[h].sock
        /\ \A f \in Hosts \ {h} : rx'[f] = rx[f]
    BY <1>5 DEF RInv, Typed
  <2>2. \A f \in Hosts : Onward(f)
    BY <1>1, <2>1 DEF Onward
  <2>3. \A u \in Socks : Keeps(sk[u], sk'[u])
    BY <1>5, KeepsSame
  <2> QED BY <1>5, <2>2, <2>3, SilentS
<1> QED BY <1>4, <1>5 DEF RxBacklog

LEMMA SynReceivedS ==
  ASSUME RInv, SInv, RInv', NEW h \in Hosts, RxSynReceived(h)
  PROVE  SInv'
<1> DEFINE s == rx[h].sock
           r == sk[s]
           g == rx[h].seg
           q == [r EXCEPT !.una = g.ack, !.st = "ESTABLISHED", !.rtx = FALSE]
<1>1. rx[h].at = "section" /\ r.st = "SYN_RECEIVED"
  BY DEF RxSynReceived, In, RxAt
<1>2. s \in Socks /\ r \in Sockets
  BY <1>1, RxHas
<1>3. CASE Done(h, r, <<>>, {})
  BY <1>1, <1>3, DoneSameS
<1>4. CASE /\ sk' = [sk EXCEPT ![s] = q]
           /\ rx' = [rx EXCEPT ![h].at = "notify"]
           /\ UNCHANGED <<wire, timer, pc, job, sig, isn, used, sent, got, load, park>>
  <2>1. /\ q.st = "ESTABLISHED" /\ q.peer = r.peer /\ q.rx = r.rx
        /\ q.iss = r.iss /\ q.nxt = r.nxt /\ q.rcv = r.rcv
    <3> HIDE DEF r
    <3> QED BY <1>2 DEF Sockets
  <2> HIDE DEF q
  <2>2. Keeps(r, q)
    BY <1>1, <2>1 DEF Keeps
  <2>3. \A u \in Socks : Keeps(sk[u], sk'[u])
    <3>1. sk'[s] = q /\ \A u \in Socks \ {s} : sk'[u] = sk[u]
      BY <1>2, <1>4 DEF RInv, Typed
    <3> QED BY <2>2, <3>1, KeepsSame
  <2>4. /\ rx'[h].at = "notify" /\ rx'[h].seg = rx[h].seg /\ rx'[h].sock = rx[h].sock
        /\ \A f \in Hosts \ {h} : rx'[f] = rx[f]
    BY <1>4 DEF RInv, Typed
  <2>5. \A f \in Hosts : Onward(f)
    BY <1>1, <2>4 DEF Onward
  <2> QED BY <1>4, <2>3, <2>5, SilentS
<1> QED BY <1>3, <1>4 DEF RxSynReceived

LEMMA NotifyS ==
  ASSUME RInv, SInv, RInv', NEW h \in Hosts, RxNotify(h)
  PROVE  SInv'
<1> DEFINE s == rx[h].sock
           r == sk[s]
           l == sk[Lst]
           woken == [l EXCEPT !.acc = IF Listening THEN None ELSE l.acc]
<1>1. rx[h].at = "notify"
  BY DEF RxNotify, RxAt
<1>2. /\ s \in Socks /\ r \in Sockets /\ r.refs # 0 /\ r.st \notin {"none", "freed"}
      /\ s \in Kids /\ s # Lst
  BY <1>1, RxHas, Names DEF RInv, RxOK
<1>3. l \in Sockets
  BY Names DEF RInv, Typed
<1>4. /\ sk' = [sk EXCEPT ![s] = Put(r), ![Lst] = woken]
      /\ rx' = [rx EXCEPT ![h] = RxIdle]
      /\ UNCHANGED <<wire, isn, sent, got, load>>
  BY <1>2 DEF RxNotify
<1>5. Keeps(l, woken)
  <2>1. /\ woken.st = l.st /\ woken.peer = l.peer /\ woken.rx = l.rx /\ woken.iss = l.iss
        /\ woken.nxt = l.nxt /\ woken.rcv = l.rcv
    <3> HIDE DEF l
    <3> QED BY <1>3 DEF Sockets
  <2> HIDE DEF woken
  <2> QED BY <2>1 DEF Keeps
<1> HIDE DEF woken
<1>6. Keeps(r, Put(r))
  BY <1>2, KeepsSame, KeepsPut
<1>7. \A u \in Socks : Keeps(sk[u], sk'[u])
  <2>1. sk'[s] = Put(r) /\ sk'[Lst] = woken /\ \A u \in Socks \ {s, Lst} : sk'[u] = sk[u]
    BY <1>2, <1>4, Names, SMTT(30) DEF RInv, Typed
  <2> QED BY <1>5, <1>6, <2>1, KeepsSame
<1>8. \A f \in Hosts : Onward(f)
  <2>1. rx'[h] = RxIdle /\ \A f \in Hosts \ {h} : rx'[f] = rx[f]
    BY <1>4 DEF RInv, Typed
  <2>2. RxIdle.at = "idle"
    BY DEF RxIdle
  <2> QED BY <2>1, <2>2 DEF Onward
<1> QED BY <1>4, <1>7, <1>8, SilentS

LEMMA FinWaitS ==
  ASSUME RInv, SInv, RInv', NEW h \in Hosts, RxFinWait(h)
  PROVE  SInv'
<1> DEFINE s == rx[h].sock
           r == sk[s]
           over == [r EXCEPT !.rcv = Plus(r.rcv, 1), !.st = "TIME_WAIT"]
           half == [r EXCEPT !.st = "FIN_WAIT_2"]
           a == Seg(s, over, {"ACK"}, <<>>)
<1>1. /\ rx[h].at = "section"
      /\ \/ Done(h, over, <<a>>, {}) \/ Done(h, half, <<>>, {}) \/ Done(h, r, <<>>, {})
  BY DEF RxFinWait, In, RxAt
<1>2. s \in Socks /\ r \in Sockets /\ r.st \notin {"none", "freed"}
  BY <1>1, RxHas
<1>3. /\ over \in Sockets /\ over.refs = r.refs /\ over.st = "TIME_WAIT" /\ over.peer = r.peer
      /\ over.rx = r.rx
  <2>1. Plus(r.rcv, 1) \in Seqs
    BY <1>2, SocketFields, PlusIn
  <2> HIDE DEF r
  <2> QED BY <1>2, <2>1 DEF Sockets, States, Synchronised
<1>4. /\ half \in Sockets /\ half.refs = r.refs /\ half.st = "FIN_WAIT_2" /\ half.peer = r.peer
      /\ half.rx = r.rx
  <2> HIDE DEF r
  <2> QED BY <1>2 DEF Sockets, States, Synchronised
<1> HIDE DEF over, half
<1>5. Keeps(r, over) /\ Keeps(r, half)
  BY <1>2, <1>3, <1>4 DEF Keeps, Opening
<1>6. Plain(a) /\ <<a>> \in Seq(Segments)
  BY <1>2, <1>3, AckType, PlainSeg
<1> HIDE DEF a
<1>7. \A o : \A i \in DOMAIN <<a>> : SegOK(o, sent, <<a>>[i])
  BY <1>6, OnePlain
<1>8. CASE Done(h, over, <<a>>, {})
  BY <1>1, <1>3, <1>5, <1>6, <1>7, <1>8, DoneS
<1>9. CASE Done(h, half, <<>>, {})
  BY <1>1, <1>4, <1>5, <1>9, NonePlain, NoSegment, DoneS
<1>10. CASE Done(h, r, <<>>, {})
  BY <1>1, <1>10, DoneSameS
<1> QED BY <1>1, <1>8, <1>9, <1>10

LEMMA RestS ==
  ASSUME RInv, SInv, RInv', NEW h \in Hosts, RxRest(h)
  PROVE  SInv'
<1> DEFINE s == rx[h].sock
           r == sk[s]
           over == [r EXCEPT !.st = "CLOSED"]
<1>1. rx[h].at = "section" /\ (Done(h, over, <<>>, {}) \/ Done(h, r, <<>>, {}))
  BY DEF RxRest, In, RxAt
<1>2. r \in Sockets /\ r.st \notin {"none", "freed"}
  BY <1>1, RxHas
<1>3. /\ over \in Sockets /\ over.refs = r.refs /\ over.st = "CLOSED" /\ over.peer = r.peer
      /\ over.rx = r.rx
  <2> HIDE DEF r
  <2> QED BY <1>2 DEF Sockets, States
<1> HIDE DEF over
<1>4. Keeps(r, over)
  BY <1>2, <1>3 DEF Keeps, Opening
<1>5. CASE Done(h, over, <<>>, {})
  BY <1>1, <1>3, <1>4, <1>5, NonePlain, NoSegment, DoneS
<1>6. CASE Done(h, r, <<>>, {})
  BY <1>1, <1>6, DoneSameS
<1> QED BY <1>1, <1>5, <1>6

(* A step on the stream of one socket that has been connected. *)
LEMMA ReadStep ==
  ASSUME RInv, SInv, RInv', UNCHANGED <<isn, sent, load>>, NEW s \in Socks,
         \A u \in Socks \ {s} : sk'[u] = sk[u] /\ got'[u] = got[u],
         sk'[s].st # "none", sk[s].st # "none", ~Unused(s),
         sk'[s].st = "freed" \/ sk'[s].peer = sk[s].peer, \A h \in Hosts : Onward(h),
         NEW segs \in Seq(Segments), wire' = Onto(wire, segs),
         \A o : \A i \in DOMAIN segs : SegOK(o, sent, segs[i]),
         \A o \in Orders(Made) : Ordered(o) => EndOK(o, sent, got', s, sk'[s])
  PROVE  SInv'
<1>1. Made' = Made
  BY MadeSame
<1>2. Numbered'
  BY <1>1 DEF SInv, Numbered
<1>3. Untouched'
  <2> SUFFICES ASSUME NEW u \in Socks, Unused(u)' PROVE Silent(u)'
    BY DEF Untouched
  <2>1. Unused(u)
    BY <1>1 DEF Unused
  <2>2. Silent(u) /\ u # s
    BY <2>1 DEF SInv, Untouched
  <2> QED BY <2>2 DEF Silent
<1>4. Busy'
  BY BusyFromR, PTL
<1>5. Matched' /\ \A o : TakenOK(o) => TakenOK(o)'
  <2>1. \A u \in Socks : sk'[u].st = "freed" \/ sk'[u].peer = sk[u].peer
    OBVIOUS
  <2> QED BY <1>4, <2>1, SameTaken DEF SInv
<1>6. PICK o \in Orders(Made) : Ordered(o)
  BY DEF SInv
<1>7. WireOK(o)' /\ TakenOK(o)'
  <2>1. WireOK(o) /\ TakenOK(o)
    BY <1>6 DEF Ordered
  <2>2. \A h \in Hosts : \A i \in DOMAIN Onto(wire, segs)[h] : SegOK(o, sent, Onto(wire, segs)[h][i])
    BY <2>1, WireGrows DEF RInv
  <2>3. WireOK(o)'
    BY <2>2 DEF WireOK
  <2> QED BY <1>5, <2>1, <2>3
<1>8. EndsOK(o)'
  <2> SUFFICES ASSUME NEW u \in Socks PROVE EndOK(o, sent', got', u, sk'[u])
    BY DEF EndsOK
  <2>1. CASE u = s
    BY <1>6, <2>1
  <2>2. CASE u # s
    <3>1. EndOK(o, sent, got, u, sk[u])
      BY <1>6 DEF Ordered, EndsOK
    <3> QED BY <2>2, <3>1 DEF EndOK
  <2> QED BY <2>1, <2>2
<1> QED BY <1>1, <1>2, <1>3, <1>5, <1>6, <1>7, <1>8 DEF SInv, Ordered

(* The handshake is complete: the next byte expected is the first of the one
   that answered. *)
LEMMA SynSentS ==
  ASSUME RInv, SInv, RInv', NEW h \in Hosts, RxSynSent(h)
  PROVE  SInv'
<1> DEFINE s == rx[h].sock
           r == sk[s]
           g == rx[h].seg
           est == [r EXCEPT !.rcv = Plus(g.seq, 1), !.una = g.ack, !.st = "ESTABLISHED",
                            !.rtx = FALSE, !.conn = None]
           dead == [r EXCEPT !.st = "CLOSED", !.rtx = FALSE, !.conn = None]
           a == Seg(s, est, {"ACK"}, <<>>)
<1>1. rx[h].at = "section" /\ r.st = "SYN_SENT"
  BY DEF RxSynSent, In, RxAt
<1>2. s \in Socks /\ r \in Sockets /\ SockOK(s, r) /\ g \in Segments
  BY <1>1, RxHas
<1>3. s \in Clients
  BY <1>1, <1>2, Names DEF SockOK
<1>4. /\ est \in Sockets /\ est.refs = r.refs /\ est.st = "ESTABLISHED" /\ est.peer = r.peer
      /\ est.rx = r.rx /\ est.iss = r.iss /\ est.nxt = r.nxt /\ est.rcv = Plus(g.seq, 1)
  <2>1. Plus(g.seq, 1) \in Seqs /\ g.ack \in Seqs
    BY <1>2, SegFields, PlusIn
  <2> HIDE DEF r, g
  <2> QED BY <1>2, <2>1 DEF Sockets, States, Synchronised
<1>5. /\ dead \in Sockets /\ dead.refs = r.refs /\ dead.st = "CLOSED" /\ dead.peer = r.peer
      /\ dead.rx = r.rx
  <2> HIDE DEF r
  <2> QED BY <1>2 DEF Sockets, States
<1>6. \/ Done(h, dead, <<>>, {r.conn}) \/ Done(h, r, <<>>, {})
      \/ "SYN" \in g.flags /\ "ACK" \in g.flags /\ Done(h, est, <<a>>, {r.conn})
  BY DEF RxSynSent
<1> HIDE DEF est, dead
<1>7. Plain(a) /\ <<a>> \in Seq(Segments)
  BY <1>2, <1>4, AckType, PlainSeg
<1> HIDE DEF a
<1>8. \A o : \A i \in DOMAIN <<a>> : SegOK(o, sent, <<a>>[i])
  BY <1>7, OnePlain
<1>9. CASE Done(h, dead, <<>>, {r.conn})
  <2>1. Keeps(r, dead)
    BY <1>1, <1>5 DEF Keeps, Opening
  <2> QED BY <1>1, <1>5, <1>9, <2>1, NonePlain, NoSegment, DoneS
<1>10. CASE Done(h, r, <<>>, {})
  BY <1>1, <1>10, DoneSameS
<1>11. CASE "SYN" \in g.flags /\ "ACK" \in g.flags /\ Done(h, est, <<a>>, {r.conn})
  <2>1. /\ sk' = [sk EXCEPT ![s] = Put(est)] /\ rx' = [rx EXCEPT ![h] = RxIdle]
        /\ wire' = Onto(wire, <<a>>) /\ UNCHANGED <<isn, sent, got, load>>
    BY <1>11 DEF Done
  <2>2. est.refs # 0
    BY <1>1, <1>4, RxHas
  <2>3. Keeps(est, Put(est)) /\ Put(est) \in Sockets
    BY <1>4, <2>2, KeepsSame, KeepsPut
  <2>4. sk'[s] = Put(est) /\ \A u \in Socks \ {s} : sk'[u] = sk[u]
    BY <1>2, <2>1 DEF RInv, Typed
  <2>5. \A f \in Hosts : Onward(f)
    <3>1. rx'[h] = RxIdle /\ \A f \in Hosts \ {h} : rx'[f] = rx[f]
      BY <2>1 DEF RInv, Typed
    <3>2. RxIdle.at = "idle"
      BY DEF RxIdle
    <3> QED BY <3>1, <3>2 DEF Onward
  <2>6. ~Unused(s)
    BY <1>1, <1>2 DEF SInv, Untouched, Silent, Opening
  <2>7. ASSUME NEW o \in Orders(Made), Ordered(o)
        PROVE  EndOK(o, sent, got, s, sk'[s])
    <3>1. EndOK(o, sent, got, s, r)
      BY <1>2, <2>7 DEF Ordered, EndsOK
    <3>2. SendOK(o, sent[s], s, est)
      BY <1>1, <1>4, <3>1 DEF EndOK, SendOK, Opening
    <3>3. SegOK(o, sent, g)
      BY <1>1, <2>7 DEF Ordered, TakenOK
    <3>4. PICK q \in Ends(o) : g.src = Local(q) /\ g.seq = SeqNo(o, q, 0) /\ q \notin Clients
      BY <1>11, <3>3 DEF SegOK, SynOK
    <3>5. q \in Kids /\ q \in Socks /\ Local(q) = Lst
      BY <3>4, OrderFacts, Names
    <3>6. est.rcv = SeqNo(o, q, 1)
      <4>1. Base(o, q) \in Nat
        BY OrderFacts
      <4>2. Plus(SeqNo(o, q, 0), 1) = SeqNo(o, q, 0 + 1)
        BY <4>1, SeqNoPlus
      <4>3. 0 + 1 = 1
        OBVIOUS
      <4> QED BY <1>4, <3>4, <4>2, <4>3
    <3>7. est.peer = Lst
      BY <1>1, <1>3, <1>4, <3>1 DEF EndOK
    <3> DEFINE all == got[s] \o r.rx
    <3>8. all = <<>>
      BY <1>1, <3>1 DEF EndOK, RecvOK
    <3> HIDE DEF all
    <3>9. Reads(o, sent, est, all, q)
      <4>1. sent[q] \in Nat
        BY <3>5 DEF RInv, Typed
      <4>2. Len(all) = 0
        BY <3>8
      <4> QED BY <3>5, <3>6, <3>7, <4>1, <4>2 DEF Reads
    <3>10. EndOK(o, sent, got, s, est)
      <4>1. got[s] \o est.rx = all
        BY <1>4 DEF all
      <4>2. RecvOK(o, sent, est, all)
        BY <1>4, <3>4, <3>9 DEF RecvOK
      <4> QED BY <3>2, <3>7, <4>1, <4>2 DEF EndOK
    <3>11. sent \in [Socks -> Nat] /\ got \in [Socks -> Seq(Bytes)] /\ Ends(o) \subseteq Socks
      BY OrderFacts, Names DEF RInv, Typed
    <3>12. EndOK(o, sent, got, s, Put(est))
      BY <1>2, <1>4, <2>3, <3>10, <3>11, KeepsEnd
    <3> QED BY <2>4, <3>12
  <2>8. sk'[s].st # "none" /\ (sk'[s].st = "freed" \/ sk'[s].peer = sk[s].peer)
    BY <1>4, <2>3, <2>4, GoneFields DEF Keeps
  <2> QED BY <1>1, <1>2, <1>7, <1>8, <2>1, <2>4, <2>5, <2>6, <2>7, <2>8, ReadStep
<1> QED BY <1>6, <1>9, <1>10, <1>11

----------------------------------------------------------------------------
(* Data that arrives *)

(* What p sent next comes at the end of what was received of it. *)
LEMMA ReadsOn ==
  ASSUME NEW o, NEW snt, NEW r, NEW d, NEW p, Base(o, p) \in Nat,
         NEW all \in Seq(Bytes), NEW fit \in Seq(Bytes), Reads(o, snt, r, all, p),
         r.st = "ESTABLISHED", d.st = "ESTABLISHED", d.peer = r.peer,
         d.rcv = Plus(r.rcv, Len(fit)), Len(all) + Len(fit) <= snt[p],
         \A i \in 1 .. Len(fit) : fit[i] = <<p, Len(all) + i>>
  PROVE  Reads(o, snt, d, all \o fit, p)
<1>1. /\ Len(all) \in Nat /\ Len(fit) \in Nat /\ Len(all \o fit) = Len(all) + Len(fit)
      /\ \A i \in 1 .. Len(all) + Len(fit) :
           (all \o fit)[i] = IF i <= Len(all) THEN all[i] ELSE fit[i - Len(all)]
  BY ConcatProperties, LenProperties
<1>2. /\ Local(p) = r.peer /\ \A i \in 1 .. Len(all) : all[i] = <<p, i>>
      /\ r.rcv = SeqNo(o, p, Len(all) + 1)
  BY DEF Reads
<1>3. ASSUME NEW i \in 1 .. Len(all) + Len(fit) PROVE (all \o fit)[i] = <<p, i>>
  <2>1. CASE i <= Len(all)
    BY <1>1, <1>2, <1>3, <2>1
  <2>2. CASE ~(i <= Len(all))
    <3>1. i - Len(all) \in 1 .. Len(fit) /\ Len(all) + (i - Len(all)) = i
      BY <1>1, <1>3, <2>2
    <3> QED BY <1>1, <1>3, <2>2, <3>1
  <2> QED BY <2>1, <2>2
<1>4. d.rcv = SeqNo(o, p, Len(all \o fit) + 1)
  <2>1. PICK n \in Nat : n = Len(all) + 1
    BY <1>1
  <2>2. Plus(SeqNo(o, p, n), Len(fit)) = SeqNo(o, p, n + Len(fit))
    BY <1>1, SeqNoPlus
  <2>3. n + Len(fit) = Len(all \o fit) + 1
    BY <1>1, <2>1
  <2> QED BY <1>2, <2>1, <2>2, <2>3
<1> QED BY <1>1, <1>2, <1>3, <1>4 DEF Reads

(* A segment of the peer's that starts at the next number expected has the
   bytes that come next: no other of its machine's connections has the number. *)
LEMMA StoredS ==
  ASSUME SeqsApart, Typed, Numbered, NEW o \in Orders(Made), NEW s \in Socks,
         NEW r \in Sockets, Within(r), r.st = "ESTABLISHED", EndOK(o, sent, got, s, r),
         NEW g \in Segments, SegOK(o, sent, g), g.src = r.peer, Expected(r, g)
  PROVE  EndOK(o, sent, got, s, Stored(r, g))
<1> DEFINE room == RxSize - Len(r.rx)
           fit == Upto(g.data, room)
           d == Stored(r, g)
           all == got[s] \o r.rx
<1>1. r.rx \in Seq(Bytes) /\ r.rcv \in Seqs /\ g.data \in Seq(Bytes)
  BY SocketFields, SegFields
<1>2. room \in Nat
  BY <1>1, LenProperties, TcpSizes DEF Within
<1> HIDE DEF room
<1>3. fit \in Seq(Bytes) /\ Len(fit) <= Len(g.data) /\ Len(fit) \in Nat
      /\ \A i \in 1 .. Len(fit) : fit[i] = g.data[i]
  BY <1>1, <1>2, UptoFacts
<1>4. d = [r EXCEPT !.rx = r.rx \o fit, !.rcv = Plus(r.rcv, Len(fit))]
  BY DEF Stored, room
<1> HIDE DEF fit, d
<1>5. /\ d.rx = r.rx \o fit /\ d.rcv = Plus(r.rcv, Len(fit)) /\ d.st = "ESTABLISHED"
      /\ d.peer = r.peer /\ d.iss = r.iss /\ d.nxt = r.nxt
  BY <1>4 DEF Sockets
<1>6. got[s] \in Seq(Bytes) /\ sent \in [Socks -> Nat] /\ load \in Loads
  BY DEF Typed
<1>7. all \in Seq(Bytes) /\ Len(all) \in Nat /\ got[s] \o d.rx = all \o fit
  <2> DEFINE x == got[s]
             y == r.rx
  <2>1. x \in Seq(Bytes) /\ y \in Seq(Bytes)
    BY <1>1, <1>6
  <2> HIDE DEF x, y
  <2>2. x \o y \in Seq(Bytes) /\ (x \o y) \o fit = x \o (y \o fit)
    BY <1>3, <2>1, ConcatProperties, ConcatAssociative, SMTT(30)
  <2>3. Len(x \o y) \in Nat
    BY <2>2, LenProperties
  <2> QED BY <1>5, <2>2, <2>3 DEF x, y
<1>8. RecvOK(o, sent, r, all)
  BY DEF EndOK
<1> HIDE DEF all
<1>9. PICK p \in Ends(o) : Reads(o, sent, r, all, p)
  BY <1>8 DEF RecvOK
<1>10. /\ Local(p) = r.peer /\ Len(all) <= sent[p] /\ r.rcv = SeqNo(o, p, Len(all) + 1)
       /\ p \in Socks /\ Base(o, p) \in Nat
  BY <1>9, OrderFacts, Names DEF Reads
<1>11. /\ Len(all) + Len(fit) <= sent[p]
       /\ \A i \in 1 .. Len(fit) : fit[i] = <<p, Len(all) + i>>
  <2>1. CASE g.data = <<>>
    <3>1. Len(fit) = 0
      BY <1>3, <2>1
    <3> QED BY <1>7, <1>10, <3>1
  <2>2. CASE g.data # <<>>
    <3>1. PICK q \in Ends(o) : g.src = Local(q) /\ \E m \in 0 .. sent[q] : Carries(o, sent, g, q, m)
      BY <2>2 DEF SegOK, DataOK
    <3>2. PICK m \in 0 .. sent[q] : Carries(o, sent, g, q, m)
      BY <3>1
    <3>3. q \in Socks
      BY OrderFacts, Names
    <3>4. Local(p) = Local(q) /\ SeqNo(o, p, Len(all) + 1) = SeqNo(o, q, m + 1)
      BY <1>10, <3>1, <3>2 DEF Carries, Expected
    <3>5. Len(all) \in 0 .. load.bytes /\ m \in 0 .. load.bytes
      <4>1. /\ sent[p] <= load.bytes /\ sent[q] <= load.bytes /\ sent[p] \in Nat
            /\ sent[q] \in Nat /\ load.bytes \in Nat
        BY <1>6, <1>10, <3>3, LoadFacts DEF Numbered
      <4> QED BY <1>7, <1>10, <4>1
    <3>6. Cardinality(Made) <= load.kids
      BY DEF Numbered
    <3>7. p = q /\ Len(all) = m
      BY <1>6, <3>4, <3>5, <3>6, SameNumber
    <3>8. /\ m + Len(g.data) <= sent[q]
          /\ \A i \in 1 .. Len(g.data) : g.data[i] = <<q, m + i>>
      BY <3>2 DEF Carries
    <3>9. Len(g.data) \in Nat /\ sent[q] \in Nat
      BY <1>1, <1>6, <3>3, LenProperties
    <3>10. Len(all) + Len(fit) <= sent[p]
      BY <1>3, <1>7, <3>7, <3>8, <3>9
    <3>11. ASSUME NEW i \in 1 .. Len(fit) PROVE fit[i] = <<p, Len(all) + i>>
      <4>1. i \in 1 .. Len(g.data)
        BY <1>3, <3>9, <3>11
      <4> QED BY <1>3, <3>7, <3>8, <4>1
    <3> QED BY <3>10, <3>11
  <2> QED BY <2>1, <2>2
<1>12. Reads(o, sent, d, all \o fit, p)
  BY <1>3, <1>5, <1>7, <1>9, <1>10, <1>11, ReadsOn
<1>13. RecvOK(o, sent, d, got[s] \o d.rx)
  BY <1>5, <1>7, <1>12 DEF RecvOK
<1>14. SendOK(o, sent[s], s, d)
  BY <1>5 DEF EndOK, SendOK, Opening
<1>15. s \in Clients /\ d.st # "freed" => d.peer = Lst
  BY <1>5 DEF EndOK
<1> QED BY <1>13, <1>14, <1>15 DEF EndOK, d

(* The acknowledgements a section sends are plain. *)
LEMMA PlainAll ==
  ASSUME NEW segs, \A i \in DOMAIN segs : Plain(segs[i])
  PROVE  \A o : \A i \in DOMAIN segs : SegOK(o, sent, segs[i])
BY PlainOK

LEMMA TwoPlain ==
  ASSUME NEW g \in Segments, NEW f \in Segments, Plain(g), Plain(f)
  PROVE  \A i \in DOMAIN (<<g>> \o <<f>>) : Plain((<<g>> \o <<f>>)[i])
<1> DEFINE a == <<g>>
           b == <<f>>
<1>1. a \in Seq(Segments) /\ b \in Seq(Segments) /\ Len(a) = 1 /\ Len(b) = 1 /\ a[1] = g /\ b[1] = f
  OBVIOUS
<1> HIDE DEF a, b
<1>2. /\ a \o b \in Seq(Segments) /\ Len(a \o b) = 1 + 1
      /\ \A i \in 1 .. 1 + 1 : (a \o b)[i] = IF i <= 1 THEN a[i] ELSE b[i - 1]
  BY <1>1, ConcatProperties, SMTT(30)
<1>3. DOMAIN (a \o b) = 1 .. 2
  BY <1>2, LenProperties
<1>4. (a \o b)[1] = g /\ (a \o b)[2] = f
  BY <1>1, <1>2
<1>5. \A i \in DOMAIN (a \o b) : i = 1 \/ i = 2
  BY <1>3
<1>6. \A i \in DOMAIN (a \o b) : Plain((a \o b)[i])
  BY <1>4, <1>5
<1> QED BY <1>6 DEF a, b

LEMMA EstablishedS ==
  ASSUME SeqsApart, RInv, SInv, RInv', NEW h \in Hosts, RxEstablished(h)
  PROVE  SInv'
<1> DEFINE s == rx[h].sock
           r == sk[s]
           g == rx[h].seg
           d == Stored(r, g)
           e == [d EXCEPT !.rcv = Plus(d.rcv, 1), !.st = "CLOSE_WAIT"]
           ack(x) == <<Seg(s, x, {"ACK"}, <<>>)>>
           ends == "FIN" \in g.flags /\ d.rcv = Plus(r.rcv, Len(g.data))
           f == IF ends THEN e ELSE d
           news == g.data # <<>> \/ ends
           q == IF news THEN [f EXCEPT !.rxw = None] ELSE f
           segs == (IF g.data # <<>> THEN ack(d) ELSE <<>>) \o (IF ends THEN ack(f) ELSE <<>>)
           T == IF news THEN {r.rxw} ELSE {}
<1>1. /\ rx[h].at = "section" /\ r.st = "ESTABLISHED" /\ Done(h, q, segs, T) /\ Expected(r, g)
  BY DEF RxEstablished, In, RxAt, Accepts
<1>2. /\ s \in Socks /\ r \in Sockets /\ Within(r) /\ g \in Segments /\ r.refs # 0 /\ SockOK(s, r)
  BY <1>1, RxHas
<1>3. /\ d \in Sockets /\ d.st = "ESTABLISHED" /\ d.peer = r.peer /\ d.refs = r.refs
  <2>1. PICK x \in Seq(Bytes), n \in Seqs :
           Len(x) <= RxSize /\ d = [r EXCEPT !.rx = x, !.rcv = n]
    BY <1>2, StoredIs
  <2> HIDE DEF d, r
  <2> QED BY <1>1, <1>2, <2>1 DEF Sockets
<1>4. ASSUME NEW o \in Orders(Made), Ordered(o) PROVE EndOK(o, sent, got, s, d)
  <2>1. EndOK(o, sent, got, s, r) /\ SegOK(o, sent, g)
    BY <1>1, <1>2, <1>4 DEF Ordered, EndsOK, TakenOK
  <2>2. s # Lst
    BY <1>1, <1>2 DEF SockOK
  <2>3. g.src = r.peer
    BY <1>1, <2>2 DEF SInv, Matched
  <2> QED BY <1>1, <1>2, <2>1, <2>3, StoredS DEF SInv, RInv
<1> HIDE DEF d
<1>5. /\ e \in Sockets /\ e.st = "CLOSE_WAIT" /\ e.peer = d.peer /\ e.rx = d.rx /\ e.refs = d.refs
  <2>1. Plus(d.rcv, 1) \in Seqs
    BY <1>3, SocketFields, PlusIn
  <2> QED BY <1>3, <2>1 DEF Sockets, States, Synchronised
<1> HIDE DEF e
<1>6. f \in Sockets /\ f.peer = d.peer /\ f.refs = d.refs /\ Keeps(d, f) /\ f.st \notin {"none", "freed"}
  <2>1. Keeps(d, e)
    BY <1>3, <1>5 DEF Keeps, Opening
  <2> QED BY <1>3, <1>5, <2>1, KeepsSame
<1> HIDE DEF f
<1>7. q \in Sockets /\ q.peer = d.peer /\ q.refs = d.refs /\ Keeps(d, q) /\ q.st \notin {"none", "freed"}
  <2> DEFINE v == [f EXCEPT !.rxw = None]
  <2>1. /\ v \in Sockets /\ v.peer = f.peer /\ v.refs = f.refs /\ v.st = f.st /\ v.rx = f.rx
        /\ v.iss = f.iss /\ v.nxt = f.nxt /\ v.rcv = f.rcv
    BY <1>6 DEF Sockets
  <2> HIDE DEF v
  <2>2. f # Gone
    BY <1>6, GoneFields
  <2>3. Keeps(d, v)
    BY <1>6, <2>1, <2>2 DEF Keeps
  <2> QED BY <1>6, <2>1, <2>3 DEF v
<1>8. segs \in Seq(Segments) /\ \A i \in DOMAIN segs : Plain(segs[i])
  <2>1. ASSUME NEW x \in Sockets
        PROVE  /\ Seg(s, x, {"ACK"}, <<>>) \in Segments /\ Plain(Seg(s, x, {"ACK"}, <<>>))
               /\ ack(x) \in Seq(Segments)
    BY <1>2, AckType, PlainSeg
  <2>2. ASSUME NEW x \in Sockets PROVE \A i \in DOMAIN ack(x) : Plain(ack(x)[i])
    <3> DEFINE a == Seg(s, x, {"ACK"}, <<>>)
    <3>1. Plain(a)
      BY <2>1
    <3> HIDE DEF a
    <3>2. \A i \in DOMAIN <<a>> : Plain(<<a>>[i])
      BY <3>1
    <3> QED BY <3>2 DEF a
  <2>3. /\ ack(d) \o ack(f) \in Seq(Segments)
        /\ \A i \in DOMAIN (ack(d) \o ack(f)) : Plain((ack(d) \o ack(f))[i])
    <3>1. ack(d) \o ack(f) \in Seq(Segments)
      BY <1>3, <1>6, <2>1, ConcatProperties
    <3> DEFINE a == Seg(s, d, {"ACK"}, <<>>)
               b == Seg(s, f, {"ACK"}, <<>>)
    <3>2. a \in Segments /\ b \in Segments /\ Plain(a) /\ Plain(b)
      BY <1>3, <1>6, <2>1
    <3> HIDE DEF a, b
    <3>3. \A i \in DOMAIN (<<a>> \o <<b>>) : Plain((<<a>> \o <<b>>)[i])
      BY <3>2, TwoPlain
    <3> QED BY <3>1, <3>3 DEF a, b
  <2>4. /\ ack(d) \in Seq(Segments) /\ ack(f) \in Seq(Segments)
        /\ \A i \in DOMAIN ack(d) : Plain(ack(d)[i])
        /\ \A i \in DOMAIN ack(f) : Plain(ack(f)[i])
    BY <1>3, <1>6, <2>1, <2>2
  <2> HIDE DEF ack
  <2>5. ack(d) \o <<>> = ack(d) /\ <<>> \o ack(f) = ack(f) /\ <<>> \o <<>> = <<>>
    BY <2>4, ConcatEmptySeq, EmptySeq
  <2>6. <<>> \in Seq(Segments) /\ \A i \in DOMAIN <<>> : Plain(<<>>[i])
    OBVIOUS
  <2> HIDE DEF ends, g
  <2> QED BY <2>3, <2>4, <2>5, <2>6
<1> HIDE DEF q, segs, T
<1>9. \A o : \A i \in DOMAIN segs : SegOK(o, sent, segs[i])
  BY <1>8, PlainAll
<1>10. /\ sk' = [sk EXCEPT ![s] = Put(q)] /\ rx' = [rx EXCEPT ![h] = RxIdle]
       /\ wire' = Onto(wire, segs) /\ UNCHANGED <<isn, sent, got, load>>
  BY <1>1 DEF Done
<1>11. Keeps(d, Put(q)) /\ Put(q) \in Sockets
  BY <1>2, <1>3, <1>7, KeepsPut
<1>12. sk'[s] = Put(q) /\ \A u \in Socks \ {s} : sk'[u] = sk[u]
  BY <1>2, <1>10 DEF RInv, Typed
<1>13. \A k \in Hosts : Onward(k)
  <2>1. rx'[h] = RxIdle /\ \A k \in Hosts \ {h} : rx'[k] = rx[k]
    BY <1>10 DEF RInv, Typed
  <2>2. RxIdle.at = "idle"
    BY DEF RxIdle
  <2> QED BY <2>1, <2>2 DEF Onward
<1>14. ~Unused(s)
  BY <1>1, <1>2 DEF SInv, Untouched, Silent, Opening
<1>15. ASSUME NEW o \in Orders(Made), Ordered(o)
       PROVE  EndOK(o, sent, got', s, sk'[s])
  <2>1. sent \in [Socks -> Nat] /\ got \in [Socks -> Seq(Bytes)] /\ Ends(o) \subseteq Socks
    BY OrderFacts, Names DEF RInv, Typed
  <2>2. EndOK(o, sent, got, s, Put(q))
    BY <1>2, <1>3, <1>4, <1>11, <1>15, <2>1, KeepsEnd
  <2> QED BY <1>10, <1>12, <2>2
<1>16. /\ sk'[s].st # "none" /\ sk[s].st # "none"
       /\ sk'[s].st = "freed" \/ sk'[s].peer = sk[s].peer
  BY <1>1, <1>3, <1>11, <1>12, GoneFields DEF Keeps
<1>17. \A u \in Socks \ {s} : sk'[u] = sk[u] /\ got'[u] = got[u]
  BY <1>10, <1>12
<1> QED BY <1>2, <1>8, <1>9, <1>10, <1>13, <1>14, <1>15, <1>16, <1>17, ReadStep

----------------------------------------------------------------------------
(* A new child, and new data: what is known of the streams stays true *)

Extends(o, snt, e, more) ==
  \A p \in Ends(o) : /\ p \in Ends(e) /\ Base(e, p) = Base(o, p)
                     /\ snt[p] \in Nat /\ more[p] \in Nat /\ snt[p] <= more[p]

LEMMA SegKept ==
  ASSUME NEW o, NEW snt, NEW e, NEW more, Extends(o, snt, e, more), NEW g \in Segments,
         SegOK(o, snt, g)
  PROVE  SegOK(e, more, g)
<1>1. ASSUME NEW p \in Ends(o)
      PROVE  /\ p \in Ends(e) /\ snt[p] \in Nat /\ more[p] \in Nat /\ snt[p] <= more[p]
             /\ \A n : SeqNo(e, p, n) = SeqNo(o, p, n)
  BY DEF Extends, SeqNo
<1>2. DataOK(e, more, g)
  <2> SUFFICES ASSUME g.data # <<>>
               PROVE  \E q \in Ends(e) : /\ g.src = Local(q)
                                         /\ \E m \in 0 .. more[q] : Carries(e, more, g, q, m)
    BY DEF DataOK
  <2>1. PICK q \in Ends(o) : g.src = Local(q) /\ \E m \in 0 .. snt[q] : Carries(o, snt, g, q, m)
    BY DEF SegOK, DataOK
  <2>2. PICK m \in 0 .. snt[q] : Carries(o, snt, g, q, m)
    BY <2>1
  <2>3. Len(g.data) \in Nat
    BY SegFields, LenProperties
  <2>4. m \in 0 .. more[q] /\ m + Len(g.data) <= more[q]
    BY <1>1, <2>2, <2>3 DEF Carries
  <2>5. Carries(e, more, g, q, m)
    BY <1>1, <2>2, <2>4 DEF Carries
  <2> QED BY <1>1, <2>1, <2>4, <2>5
<1>3. SynOK(e, g)
  BY <1>1 DEF SegOK, SynOK
<1> QED BY <1>2, <1>3 DEF SegOK

LEMMA RecvKept ==
  ASSUME NEW o, NEW snt, NEW e, NEW more, Extends(o, snt, e, more),
         NEW r, NEW all \in Seq(Bytes), RecvOK(o, snt, r, all)
  PROVE  RecvOK(e, more, r, all)
<1>1. ASSUME NEW p \in Ends(o), Reads(o, snt, r, all, p)
      PROVE  p \in Ends(e) /\ Reads(e, more, r, all, p)
  <2>1. /\ p \in Ends(e) /\ snt[p] \in Nat /\ more[p] \in Nat /\ snt[p] <= more[p]
        /\ \A n : SeqNo(e, p, n) = SeqNo(o, p, n)
    BY DEF Extends, SeqNo
  <2>2. Len(all) \in Nat
    BY LenProperties
  <2>3. Len(all) <= more[p]
    BY <1>1, <2>1, <2>2 DEF Reads
  <2> QED BY <1>1, <2>1, <2>3 DEF Reads
<1> QED BY <1>1 DEF RecvOK

(* The order after a child has been made: it is the last. *)
LEMMA LastMade ==
  ASSUME NEW o \in Orders(Made), NEW k \in Kids \ Made, NEW e,
         e = [j \in Made \cup {k} |-> IF j = k THEN Cardinality(Made) ELSE o[j]]
  PROVE  /\ e \in Orders(Made \cup {k}) /\ Cardinality(Made \cup {k}) = Cardinality(Made) + 1
         /\ Ends(e) = Ends(o) \cup {k} /\ k \notin Ends(o)
         /\ Base(e, k) = Cardinality(Made) * IsnStep
         /\ \A s : s # k => Base(e, s) = Base(o, s)
<1> DEFINE c == Cardinality(Made)
<1>1. c \in Nat /\ Cardinality(Made \cup {k}) = c + 1
  <2>1. IsFiniteSet(Made)
    BY Names, FS_Subset DEF Made
  <2> QED BY <2>1, FS_AddElement, FS_CardinalityType
<1>2. /\ DOMAIN o = Made /\ Made \subseteq Kids /\ \A j \in Made : o[j] \in Nat /\ o[j] < c
      /\ \A i, j \in Made : o[i] = o[j] => i = j
  BY OrderFacts
<1> HIDE DEF c
<1>3. /\ DOMAIN e = Made \cup {k} /\ e[k] = c /\ \A j \in Made : e[j] = o[j]
  BY DEF c
<1>4. \A j \in Made \cup {k} : e[j] \in 0 .. (c + 1) - 1
  BY <1>1, <1>2, <1>3
<1>5. \A i, j \in Made \cup {k} : e[i] = e[j] => i = j
  BY <1>1, <1>2, <1>3
<1>6. e \in [Made \cup {k} -> 0 .. (c + 1) - 1]
  BY <1>4 DEF c
<1>7. e \in Orders(Made \cup {k})
  BY <1>1, <1>5, <1>6 DEF Orders
<1>8. Ends(e) = Ends(o) \cup {k} /\ k \notin Ends(o)
  BY <1>2, <1>3, Names DEF Ends
<1>9. Base(e, k) = c * IsnStep /\ \A s : s # k => Base(e, s) = Base(o, s)
  BY <1>2, <1>3 DEF Base
<1> QED BY <1>1, <1>7, <1>8, <1>9 DEF c

LEMMA ChildS ==
  ASSUME RInv, SInv, RInv', NEW h \in Hosts, RxChild(h)
  PROVE  SInv'
<1> DEFINE g == rx[h].seg
           new == [Created("SYN_RECEIVED", g.src) EXCEPT
                     !.rcv = Plus(g.seq, 1), !.iss = isn[h], !.una = isn[h], !.nxt = isn[h]]
           k == CHOOSE j \in Kids : sk[j].st = "none"
           q == [Sent(new, {"SYN", "ACK"}, <<>>) EXCEPT !.rtx = TRUE]
           a == Seg(k, new, {"SYN", "ACK"}, <<>>)
           c == Cardinality(Made)
<1>1. rx[h].at = "child"
  BY DEF RxChild, RxAt
<1>2. rx[h].sock = Lst /\ h = Lst /\ g \in Segments
  BY <1>1, Names DEF RInv, RxOK
<1>3. CASE Done(h, sk[Lst], <<>>, {})
  BY <1>1, <1>2, <1>3, DoneSameS
<1>4. CASE /\ c < load.kids
           /\ sk' = [sk EXCEPT ![k] = q]
           /\ wire' = Onto(wire, <<a>>)
           /\ isn' = [isn EXCEPT ![h] = Plus(isn[h], IsnStep)]
           /\ rx' = [rx EXCEPT ![h].at = "backlog", ![h].kid = k]
           /\ UNCHANGED <<timer, pc, job, sig, used, sent, got, load, park>>
  <2>0. Typed
    BY DEF RInv
  <2>1. k \in Kids /\ sk[k].st = "none"
    BY <1>4, <2>0, FreeKid DEF Typed, Made
  <2> HIDE DEF k
  <2>2. k \in Socks /\ k # Lst /\ k \notin Clients /\ k \in Kids \ Made /\ Local(k) = Lst
    BY <2>1, Names DEF Made
  <2>3. \A f \in Hosts : rx[f].sock # k
    BY <2>1, NobodyHas
  <2>4. /\ isn \in [Hosts -> Seqs] /\ isn[h] \in Seqs /\ sent \in [Socks -> Nat]
        /\ got \in [Socks -> Seq(Bytes)] /\ sk \in [Socks -> Sockets] /\ load \in Loads
        /\ wire \in [Hosts -> Seq(Segments)]
    BY <2>0 DEF Typed
  <2>5. /\ new \in Sockets /\ new.st = "SYN_RECEIVED" /\ new.iss = isn[h] /\ new.nxt = isn[h]
        /\ new.rx = <<>> /\ new.peer = g.src /\ new.rcv = Plus(g.seq, 1)
    <3>1. g.src \in Addrs /\ Plus(g.seq, 1) \in Seqs
      BY <1>2, SegFields, PlusIn
    <3> DEFINE b == Created("SYN_RECEIVED", g.src)
    <3>2. b \in Sockets
      BY <3>1, CreatedType DEF States
    <3>3. b.st = "SYN_RECEIVED" /\ b.rx = <<>> /\ b.peer = g.src
      BY DEF Created, Blank
    <3> HIDE DEF b
    <3>4. new = [b EXCEPT !.rcv = Plus(g.seq, 1), !.iss = isn[h], !.una = isn[h], !.nxt = isn[h]]
      BY DEF b
    <3> HIDE DEF new
    <3> QED BY <2>4, <3>1, <3>2, <3>3, <3>4 DEF Sockets
  <2> HIDE DEF new
  <2>6. /\ q \in Sockets /\ q.st = "SYN_RECEIVED" /\ q.iss = isn[h] /\ q.nxt = Plus(isn[h], 1)
        /\ q.rx = <<>> /\ q.peer = g.src /\ q.rcv = Plus(g.seq, 1)
    <3> DEFINE e == Sent(new, {"SYN", "ACK"}, <<>>)
    <3>1. Plus(isn[h], 1) \in Seqs
      BY <2>4, PlusIn
    <3>2. e = [new EXCEPT !.nxt = Plus(isn[h], 1)]
      BY <2>5 DEF Sent
    <3> HIDE DEF e
    <3>3. q = [e EXCEPT !.rtx = TRUE]
      BY DEF e
    <3> HIDE DEF q
    <3> QED BY <2>5, <3>1, <3>2, <3>3 DEF Sockets
  <2> HIDE DEF q
  <2>7. /\ a \in Segments /\ a.src = Lst /\ a.seq = isn[h] /\ a.data = <<>>
        /\ a.flags = {"SYN", "ACK"}
    <3>1. <<>> \in Seq(Bytes)
      OBVIOUS
    <3>2. a \in Segments
      BY <2>2, <2>5, <3>1, SegType
    <3> QED BY <2>2, <2>5, <3>2 DEF Seg
  <2> HIDE DEF a
  <2>8. /\ sk'[k] = q /\ \A u \in Socks \ {k} : sk'[u] = sk[u]
    BY <1>4, <2>2, <2>4
  <2>9. /\ rx'[h].at = "backlog" /\ rx'[h].sock = rx[h].sock
        /\ rx'[h].seg = rx[h].seg /\ \A f \in Hosts \ {h} : rx'[f] = rx[f]
    <3> HIDE DEF g
    <3> QED BY <1>4, <2>0 DEF Typed
  <2>10. PICK o \in Orders(Made) : Ordered(o)
    BY DEF SInv
  <2>11. PICK e : e = [j \in Made \cup {k} |-> IF j = k THEN c ELSE o[j]]
    OBVIOUS
  <2>12. /\ e \in Orders(Made \cup {k}) /\ Cardinality(Made \cup {k}) = c + 1
         /\ Ends(e) = Ends(o) \cup {k} /\ k \notin Ends(o) /\ Base(e, k) = c * IsnStep
         /\ \A s : s # k => Base(e, s) = Base(o, s)
    BY <2>2, <2>11, LastMade
  <2>13. Made' = Made \cup {k}
    <3>1. ASSUME NEW j \in Kids PROVE sk'[j].st # "none" <=> sk[j].st # "none" \/ j = k
      BY <2>6, <2>8, Names
    <3> QED BY <2>1, <3>1 DEF Made
  <2>14. Extends(o, sent, e, sent)
    <3>1. Ends(o) \subseteq Socks
      BY OrderFacts, Names
    <3> QED BY <2>4, <2>12, <3>1 DEF Extends
  <2>15. c \in Nat /\ IsnStep \in Nat /\ FirstIsn \in Nat /\ Wrap \in Nat \ {0}
    BY OrderFacts, <2>10, TcpSizes DEF FirstIsn
  <2> HIDE DEF c
  <2>16. isn[h] = (FirstIsn + c * IsnStep) % Wrap
    BY <1>2 DEF SInv, Numbered, c
  <2>17. SeqNo(e, k, 0) = isn[h]
    <3>1. PICK x \in Nat : x = c * IsnStep
      BY <2>15
    <3>2. FirstIsn + x + 0 = FirstIsn + x
      BY <2>15
    <3> QED BY <2>12, <2>16, <3>1, <3>2 DEF SeqNo
  <2>18. Numbered'
    <3>1. PICK x \in Nat : x = c * IsnStep
      BY <2>15
    <3>2. (c + 1) * IsnStep = x + IsnStep
      BY <2>15, <3>1
    <3>3. PICK y \in Nat : y = FirstIsn + x
      BY <2>15
    <3>4. ((y % Wrap) + IsnStep) % Wrap = (y + IsnStep) % Wrap
      BY <2>15, ModPlus
    <3>5. Plus(isn[h], IsnStep) = (FirstIsn + (x + IsnStep)) % Wrap
      <4>1. y + IsnStep = FirstIsn + (x + IsnStep)
        BY <2>15, <3>3
      <4> QED BY <2>16, <3>1, <3>3, <3>4, <4>1 DEF Plus
    <3>6. isn'[Lst] = (FirstIsn + (c + 1) * IsnStep) % Wrap
      BY <1>2, <1>4, <2>4, <3>2, <3>5
    <3>7. c + 1 <= load.kids
      BY <1>4, <2>4, <2>15, LoadFacts DEF c
    <3>8. \A s \in Socks : sent'[s] <= load'.bytes
      BY <1>4 DEF SInv, Numbered
    <3>9. load' = load
      BY <1>4
    <3> QED BY <2>12, <2>13, <3>6, <3>7, <3>8, <3>9 DEF Numbered
  <2>19. Matched'
    <3> SUFFICES ASSUME NEW f \in Hosts
                 PROVE  /\ rx'[f].at = "section" /\ rx'[f].sock # Lst
                             => rx'[f].seg.src = sk'[rx'[f].sock].peer
                        /\ rx'[f].at = "child" =>
                             "SYN" \in rx'[f].seg.flags /\ "ACK" \notin rx'[f].seg.flags
      BY DEF Matched
    <3>1. CASE f = h
      BY <2>9, <3>1
    <3>2. CASE f # h
      <4>1. rx'[f] = rx[f]
        BY <2>9, <3>2
      <4>2. ASSUME rx[f].at = "section" PROVE sk'[rx[f].sock] = sk[rx[f].sock]
        BY <2>3, <2>8, <4>2, RxHas
      <4> QED BY <4>1, <4>2 DEF SInv, Matched
    <3> QED BY <3>1, <3>2
  <2>20. Untouched'
    <3> SUFFICES ASSUME NEW u \in Socks, Unused(u)' PROVE Silent(u)'
      BY DEF Untouched
    <3>1. u # k /\ Unused(u)
      <4>1. \A x \in Clients : isn'[x] = isn[x]
        BY <1>2, <1>4, <2>4, Names
      <4> QED BY <2>2, <2>13, <4>1 DEF Unused
    <3>2. Silent(u)
      BY <3>1 DEF SInv, Untouched
    <3>3. sk'[u] = sk[u]
      BY <2>8, <3>1
    <3> QED BY <1>4, <3>2, <3>3 DEF Silent
  <2>21. SegOK(e, sent, a)
    <3>1. k \in Ends(e)
      BY <2>12
    <3> QED BY <1>2, <2>2, <2>7, <2>17, <3>1 DEF SegOK, DataOK, SynOK
  <2>22. WireOK(e)'
    <3>1. WireOK(e)
      <4> SUFFICES ASSUME NEW f \in Hosts, NEW i \in DOMAIN wire[f]
                   PROVE  SegOK(e, sent, wire[f][i])
        BY DEF WireOK
      <4>1. SegOK(o, sent, wire[f][i])
        BY <2>10 DEF Ordered, WireOK
      <4>2. wire[f][i] \in Segments
        BY <2>4, ElementOfSeq, LenProperties
      <4> QED BY <2>14, <4>1, <4>2, SegKept
    <3>2. <<a>> \in Seq(Segments)
      BY <2>7
    <3>3. \A i \in DOMAIN <<a>> : SegOK(e, sent, <<a>>[i])
      BY <2>21
    <3>4. \A f \in Hosts : \A i \in DOMAIN Onto(wire, <<a>>)[f] : SegOK(e, sent, Onto(wire, <<a>>)[f][i])
      BY <2>0, <3>1, <3>2, <3>3, WireGrows
    <3>5. wire' = Onto(wire, <<a>>) /\ sent' = sent
      BY <1>4
    <3> QED BY <3>4, <3>5 DEF WireOK
  <2>23. TakenOK(e)'
    <3> SUFFICES ASSUME NEW f \in Hosts, rx'[f].at # "idle" PROVE SegOK(e, sent', rx'[f].seg)
      BY DEF TakenOK
    <3>1. rx[f].at # "idle" /\ rx'[f].seg = rx[f].seg
      BY <1>1, <2>9
    <3>2. SegOK(o, sent, rx[f].seg) /\ rx[f].seg \in Segments
      BY <2>10, <3>1, RxHas DEF Ordered, TakenOK
    <3>3. sent' = sent
      BY <1>4
    <3> QED BY <2>14, <3>1, <3>2, <3>3, SegKept
  <2>24. EndsOK(e)'
    <3> SUFFICES ASSUME NEW s \in Socks PROVE EndOK(e, sent, got, s, sk'[s])
      BY <1>4 DEF EndsOK
    <3>1. CASE s # k
      <4>1. EndOK(o, sent, got, s, sk[s])
        BY <2>10 DEF Ordered, EndsOK
      <4>2. \A n : SeqNo(e, s, n) = SeqNo(o, s, n)
        BY <2>12, <3>1 DEF SeqNo
      <4>3. SendOK(e, sent[s], s, sk[s])
        BY <4>1, <4>2 DEF EndOK, SendOK
      <4> DEFINE all == got[s] \o sk[s].rx
      <4>4. all \in Seq(Bytes)
        <5> DEFINE x == got[s]
                   y == sk[s].rx
        <5>1. x \in Seq(Bytes) /\ y \in Seq(Bytes)
          BY <2>4, SocketFields
        <5> HIDE DEF x, y
        <5>2. x \o y \in Seq(Bytes)
          BY <5>1, ConcatProperties
        <5> QED BY <5>2 DEF x, y
      <4>5. RecvOK(o, sent, sk[s], all)
        BY <4>1 DEF EndOK
      <4> HIDE DEF all
      <4>6. RecvOK(e, sent, sk[s], all)
        BY <2>14, <4>4, <4>5, RecvKept
      <4>7. EndOK(e, sent, got, s, sk[s])
        BY <4>1, <4>3, <4>6 DEF EndOK, all
      <4> QED BY <2>8, <3>1, <4>7
    <3>2. CASE s = k
      <4>1. sent[k] = 0 /\ got[k] = <<>>
        BY <2>2 DEF SInv, Untouched, Unused, Silent
      <4>2. SendOK(e, sent[k], k, q)
        <5>1. Base(e, k) \in Nat
          BY <2>12, <2>15
        <5>2. Plus(SeqNo(e, k, 0), 1) = SeqNo(e, k, 0 + 1)
          BY <5>1, SeqNoPlus
        <5>3. sent[k] + 1 = 0 + 1
          BY <4>1
        <5> QED BY <2>6, <2>17, <5>2, <5>3 DEF SendOK
      <4>3. PICK p \in Ends(o) : g.src = Local(p) /\ g.seq = SeqNo(o, p, 0)
        <5>1. SegOK(o, sent, g) /\ "SYN" \in g.flags
          BY <1>1, <2>10 DEF Ordered, TakenOK, SInv, Matched
        <5> QED BY <5>1 DEF SegOK, SynOK
      <4>4. p \in Socks /\ p \in Ends(e) /\ p # k
        BY <2>12, <4>3, OrderFacts, Names
      <4>5. Plus(g.seq, 1) = SeqNo(e, p, 1)
        <5>1. Base(o, p) \in Nat
          BY OrderFacts
        <5>2. Plus(SeqNo(o, p, 0), 1) = SeqNo(o, p, 0 + 1)
          BY <5>1, SeqNoPlus
        <5>3. 0 + 1 = 1
          OBVIOUS
        <5>4. SeqNo(e, p, 1) = SeqNo(o, p, 1)
          BY <2>12, <4>4 DEF SeqNo
        <5> QED BY <4>3, <5>2, <5>3, <5>4
      <4>6. Reads(e, sent, q, <<>>, p)
        <5>1. sent[p] \in Nat
          BY <2>4, <4>4
        <5>2. Len(<<>>) = 0 /\ 0 + 1 = 1
          OBVIOUS
        <5> QED BY <2>6, <4>3, <4>5, <5>1, <5>2 DEF Reads
      <4>7. RecvOK(e, sent, q, <<>>)
        BY <2>6, <4>4, <4>6 DEF RecvOK
      <4>8. got[k] \o q.rx = <<>>
        <5>1. <<>> \o <<>> = <<>>
          OBVIOUS
        <5> QED BY <2>6, <4>1, <5>1
      <4>9. EndOK(e, sent, got, k, q)
        BY <2>2, <4>2, <4>7, <4>8 DEF EndOK
      <4> QED BY <2>8, <3>2, <4>9
    <3> QED BY <3>1, <3>2
  <2>25. Ordered(e)'
    BY <2>22, <2>23, <2>24 DEF Ordered
  <2> QED BY <2>12, <2>13, <2>18, <2>19, <2>20, <2>25 DEF SInv
<1> QED BY <1>1, <1>3, <1>4 DEF RxChild, Made

----------------------------------------------------------------------------
(* The wire, the timer and the streams *)

(* A segment is taken from the wire. *)
LEMMA WireTakes ==
  ASSUME NEW w \in [Hosts -> Seq(Segments)], NEW o, NEW snt, AllOK(o, snt, w), NEW h \in Hosts,
         NEW q \in Seq(Segments), Range(q) \subseteq Range(w[h])
  PROVE  AllOK(o, snt, [w EXCEPT ![h] = q])
<1> DEFINE v == [w EXCEPT ![h] = q]
<1>1. v[h] = q /\ \A f \in Hosts \ {h} : v[f] = w[f]
  OBVIOUS
<1>2. \A i \in DOMAIN q : SegOK(o, snt, q[i])
  <2> SUFFICES ASSUME NEW i \in DOMAIN q PROVE SegOK(o, snt, q[i])
    OBVIOUS
  <2>1. q[i] \in Range(w[h])
    BY DEF Range
  <2>2. PICK j \in DOMAIN w[h] : w[h][j] = q[i]
    BY <2>1 DEF Range
  <2> QED BY <2>2 DEF AllOK
<1> HIDE DEF v
<1>3. AllOK(o, snt, v)
  BY <1>1, <1>2 DEF AllOK
<1> QED BY <1>3 DEF v

LEMMA RstPlain == ASSUME NEW g PROVE Plain(Rst(g))
BY DEF Plain, Rst

LEMMA LookupS ==
  ASSUME RInv, SInv, RInv', NEW h \in Hosts, NEW i, NEW dup \in BOOLEAN, RxLookup(h, i, dup)
  PROVE  SInv'
<1> DEFINE g == wire[h][i]
           rest == IF dup THEN wire ELSE [wire EXCEPT ![h] = RemoveAt(wire[h], i)]
           a == Rst(g)
<1>1. rx[h].at = "idle" /\ i \in DOMAIN wire[h] /\ UNCHANGED <<isn, sent, got, load>>
  BY DEF RxLookup, RxAt
<1>2. wire \in [Hosts -> Seq(Segments)] /\ Routed(wire)
  BY DEF RInv, Typed, Addressed
<1>3. g \in Segments /\ g.dst = h
  <2>1. g.dst = h
    BY <1>1, <1>2 DEF Routed
  <2> DEFINE w == wire[h]
  <2>2. w \in Seq(Segments) /\ i \in DOMAIN w
    BY <1>1, <1>2
  <2> HIDE DEF w
  <2>3. w[i] \in Segments
    BY <2>2, ElementOfSeq, LenProperties
  <2> QED BY <2>1, <2>3 DEF w
<1>4. RemoveAt(wire[h], i) \in Seq(Segments) /\ Range(RemoveAt(wire[h], i)) \subseteq Range(wire[h])
  BY <1>1, <1>2, RemoveAtFacts
<1>5. rest \in [Hosts -> Seq(Segments)] /\ \A o : WireOK(o) => AllOK(o, sent, rest)
  <2>1. rest \in [Hosts -> Seq(Segments)]
    BY <1>2, <1>4
  <2>2. ASSUME NEW o, WireOK(o) PROVE AllOK(o, sent, rest)
    <3>1. AllOK(o, sent, wire)
      BY <2>2 DEF WireOK, AllOK
    <3>2. AllOK(o, sent, [wire EXCEPT ![h] = RemoveAt(wire[h], i)])
      BY <1>2, <1>4, <3>1, WireTakes
    <3> QED BY <3>1, <3>2
  <2> QED BY <2>1, <2>2
<1>6. \A o : WireOK(o) => SegOK(o, sent, g)
  BY <1>1 DEF WireOK
<1>7. \/ /\ wire' = rest \/ wire' = Onto(rest, <<a>>)
         /\ UNCHANGED <<sk, rx>>
      \/ \E s \in Lookup(g) :
           /\ sk' = [sk EXCEPT ![s] = Get(sk[s])]
           /\ rx' = [rx EXCEPT ![h] = [RxIdle EXCEPT !.at = "section", !.seg = g, !.sock = s]]
           /\ wire' = rest
  BY DEF RxLookup
<1>8. Plain(a) /\ a \in Segments
  BY <1>3, RstPlain, RstType
<1> HIDE DEF g, rest, a
<1>9. \A o : WireOK(o) => WireOK(o)'
  <2> SUFFICES ASSUME NEW o, WireOK(o) PROVE WireOK(o)'
    OBVIOUS
  <2>1. AllOK(o, sent, rest)
    BY <1>5
  <2>2. AllOK(o, sent, Onto(rest, <<a>>))
    <3>1. <<a>> \in Seq(Segments)
      BY <1>8
    <3>2. \A j \in DOMAIN <<a>> : SegOK(o, sent, <<a>>[j])
      BY <1>8, OnePlain
    <3> QED BY <1>5, <2>1, <3>1, <3>2, OntoOK
  <2>3. AllOK(o, sent, wire')
    BY <1>7, <2>1, <2>2
  <2>4. AllOK(o, sent', wire')
    BY <1>1, <2>3
  <2> QED BY <2>4 DEF WireOK, AllOK
<1>10. CASE UNCHANGED <<sk, rx>>
  <2>1. \A s \in Socks : Keeps(sk[s], sk'[s])
    BY <1>10, KeepsSame
  <2>2. Matched'
    BY <1>10 DEF SInv, Matched
  <2>3. \A o : TakenOK(o) => TakenOK(o)'
    BY <1>1, <1>10 DEF TakenOK
  <2> QED BY <1>1, <1>9, <2>1, <2>2, <2>3, StreamStep DEF Ordered
<1>11. ASSUME NEW s \in Lookup(g),
              sk' = [sk EXCEPT ![s] = Get(sk[s])],
              rx' = [rx EXCEPT ![h] = [RxIdle EXCEPT !.at = "section", !.seg = g, !.sock = s]]
       PROVE  SInv'
  <2>1. s \in Socks /\ (s # Lst => sk[s].peer = g.src)
    BY Names DEF Lookup
  <2>2. sk[s] \in Sockets /\ sk'[s] = Get(sk[s]) /\ \A u \in Socks \ {s} : sk'[u] = sk[u]
    BY <1>11, <2>1 DEF RInv, Typed
  <2>3. \A u \in Socks : Keeps(sk[u], sk'[u])
    BY <2>2, KeepsSame, KeepsGet
  <2>4. \A u \in Socks : sk'[u].peer = sk[u].peer
    <3>1. sk'[s].peer = sk[s].peer
      BY <2>2 DEF Get, Sockets
    <3> QED BY <2>2, <3>1
  <2>5. /\ rx'[h].at = "section" /\ rx'[h].seg = g /\ rx'[h].sock = s
        /\ \A f \in Hosts \ {h} : rx'[f] = rx[f]
    BY <1>11 DEF RInv, Typed, RxIdle
  <2>6. Matched'
    <3> SUFFICES ASSUME NEW f \in Hosts
                 PROVE  /\ rx'[f].at = "section" /\ rx'[f].sock # Lst
                             => rx'[f].seg.src = sk'[rx'[f].sock].peer
                        /\ rx'[f].at = "child" =>
                             "SYN" \in rx'[f].seg.flags /\ "ACK" \notin rx'[f].seg.flags
      BY DEF Matched
    <3>1. CASE f = h
      BY <2>1, <2>4, <2>5, <3>1
    <3>2. CASE f # h
      <4>1. rx'[f] = rx[f]
        BY <2>5, <3>2
      <4>2. ASSUME rx[f].at = "section" PROVE sk'[rx[f].sock].peer = sk[rx[f].sock].peer
        BY <2>4, <4>2, RxHas
      <4> QED BY <4>1, <4>2 DEF SInv, Matched
    <3> QED BY <3>1, <3>2
  <2>7. \A o : WireOK(o) /\ TakenOK(o) => TakenOK(o)'
    <3> SUFFICES ASSUME NEW o, WireOK(o), TakenOK(o), NEW f \in Hosts, rx'[f].at # "idle"
                 PROVE  SegOK(o, sent', rx'[f].seg)
      BY DEF TakenOK
    <3>1. CASE f = h
      BY <1>1, <1>6, <2>5, <3>1
    <3>2. CASE f # h
      BY <1>1, <2>5, <3>2 DEF TakenOK
    <3> QED BY <3>1, <3>2
  <2> QED BY <1>1, <1>9, <2>3, <2>6, <2>7, StreamStep DEF Ordered
<1> QED BY <1>7, <1>10, <1>11

LEMMA LoseS ==
  ASSUME RInv, SInv, RInv', NEW h \in Hosts, Lose(h)
  PROVE  SInv'
<1>1. /\ wire[h] # <<>> /\ wire' = [wire EXCEPT ![h] = Tail(wire[h])]
      /\ UNCHANGED <<sk, rx, isn, sent, got, load>>
  BY DEF Lose
<1>2. wire \in [Hosts -> Seq(Segments)]
  BY DEF RInv, Typed
<1>3. Tail(wire[h]) \in Seq(Segments) /\ Range(Tail(wire[h])) \subseteq Range(wire[h])
  BY <1>1, <1>2, TailFacts
<1>4. ASSUME NEW o, WireOK(o) PROVE WireOK(o)'
  <2>1. AllOK(o, sent, wire)
    BY <1>4 DEF WireOK, AllOK
  <2>2. AllOK(o, sent, [wire EXCEPT ![h] = Tail(wire[h])])
    BY <1>2, <1>3, <2>1, WireTakes
  <2>3. AllOK(o, sent', wire')
    BY <1>1, <2>2
  <2> QED BY <2>3 DEF WireOK, AllOK
<1>5. \A s \in Socks : Keeps(sk[s], sk'[s])
  BY <1>1, KeepsSame
<1>6. Matched'
  BY <1>1 DEF SInv, Matched
<1>7. \A o : TakenOK(o) => TakenOK(o)'
  BY <1>1 DEF TakenOK
<1> QED BY <1>1, <1>4, <1>5, <1>6, <1>7, StreamStep DEF Ordered

LEMMA TakeS ==
  ASSUME RInv, SInv, RInv', NEW s \in Socks, TickTake(s)
  PROVE  SInv'
<1>1. UNCHANGED <<wire, rx, isn, sent, got, load>> /\ sk' = [sk EXCEPT ![s] = Get(sk[s])]
  BY DEF TickTake
<1>2. sk[s] \in Sockets /\ sk'[s] = Get(sk[s]) /\ \A u \in Socks \ {s} : sk'[u] = sk[u]
  BY <1>1 DEF RInv, Typed
<1>3. \A u \in Socks : Keeps(sk[u], sk'[u])
  BY <1>2, KeepsSame, KeepsGet
<1>4. \A f \in Hosts : Onward(f)
  BY <1>1 DEF Onward
<1> QED BY <1>1, <1>3, <1>4, SilentS

(* A SYN that is sent again has the number it had. *)
LEMMA AgainOK ==
  ASSUME RInv, NEW o \in Orders(Made), Ordered(o), NEW s \in Socks, NEW flags,
         \/ sk[s].st = "SYN_SENT" /\ flags = {"SYN"}
         \/ sk[s].st = "SYN_RECEIVED" /\ flags = {"SYN", "ACK"}
  PROVE  SegOK(o, sent, Again(s, sk[s], flags))
<1> DEFINE r == sk[s]
           g == Again(s, r, flags)
<1>1. /\ g.src = Local(s) /\ g.seq = r.iss /\ g.data = <<>> /\ g.flags = flags
  BY DEF Again, Seg
<1>2. r.iss = SeqNo(o, s, 0)
  BY DEF Ordered, EndsOK, EndOK, SendOK, Opening
<1>3. SockOK(s, r)
  BY DEF RInv, SocksOK
<1>4. s \in Ends(o) /\ ("ACK" \in flags <=> s \notin Clients)
  <2>1. CASE r.st = "SYN_SENT"
    <3>1. s \in Clients
      BY <1>3, <2>1, Names DEF SockOK
    <3> QED BY <2>1, <3>1, OrderFacts
  <2>2. CASE r.st = "SYN_RECEIVED"
    <3>1. s \in Kids /\ s \notin Clients
      BY <1>3, <2>2, Names DEF SockOK
    <3>2. s \in Made
      BY <2>2, <3>1 DEF Made
    <3> QED BY <2>2, <3>1, <3>2, OrderFacts
  <2> QED BY <2>1, <2>2
<1> HIDE DEF g, r
<1>5. SegOK(o, sent, g)
  BY <1>1, <1>2, <1>4 DEF SegOK, DataOK, SynOK
<1> QED BY <1>5 DEF g, r

LEMMA TickAgainS ==
  ASSUME RInv, SInv, RInv', NEW h \in Hosts, TickAgain(h)
  PROVE  SInv'
<1> DEFINE s == timer[h].sock
           r == sk[s]
           n == [r EXCEPT !.cnt = r.cnt + 1]
           c == [n EXCEPT !.rtx = FALSE]
           a == Again(s, r, {"SYN"})
           b == Again(s, r, {"SYN", "ACK"})
<1>1. /\ timer[h].at = "section"
      /\ \/ TickEnd(h, r, <<>>, {})
         \/ r.st = "SYN_SENT" /\ TickEnd(h, n, <<a>>, {})
         \/ r.st = "SYN_RECEIVED" /\ TickEnd(h, n, <<b>>, {})
         \/ TickEnd(h, c, <<>>, {})
  BY DEF TickAgain
<1>2. /\ s \in Socks /\ r \in Sockets /\ r.st \notin {"none", "freed"}
  BY <1>1, TickHas
<1>3. /\ n \in Sockets /\ n.refs = r.refs /\ n.st = r.st /\ n.peer = r.peer /\ n.rx = r.rx
      /\ n.iss = r.iss /\ n.nxt = r.nxt /\ n.rcv = r.rcv
  <2>1. r.cnt + 1 \in Nat
    BY <1>2, SocketFields
  <2> HIDE DEF r
  <2> QED BY <1>2, <2>1 DEF Sockets
<1> HIDE DEF n
<1>4. /\ c \in Sockets /\ c.refs = r.refs /\ c.st = r.st /\ c.peer = r.peer /\ c.rx = r.rx
      /\ c.iss = r.iss /\ c.nxt = r.nxt /\ c.rcv = r.rcv
  <2> HIDE DEF r
  <2> QED BY <1>3 DEF Sockets
<1> HIDE DEF c
<1>5. Keeps(r, r) /\ Keeps(r, n) /\ Keeps(r, c)
  BY <1>3, <1>4, KeepsSame DEF Keeps
<1>6. a \in Segments /\ b \in Segments
  <2> DEFINE x == {"SYN"}
             y == {"SYN", "ACK"}
  <2>1. x \in SUBSET {"SYN", "ACK", "FIN", "RST"} /\ y \in SUBSET {"SYN", "ACK", "FIN", "RST"}
    OBVIOUS
  <2> HIDE DEF x, y
  <2>2. Again(s, r, x) \in Segments /\ Again(s, r, y) \in Segments
    BY <1>2, <2>1, AgainType
  <2> QED BY <2>2 DEF x, y
<1>7. r.st = "SYN_SENT" => \A o \in Orders(Made) : Ordered(o) => SegOK(o, sent, a)
  <2> DEFINE x == {"SYN"}
  <2> HIDE DEF x
  <2>1. r.st = "SYN_SENT" => \A o \in Orders(Made) : Ordered(o) => SegOK(o, sent, Again(s, r, x))
    BY <1>2, AgainOK DEF x
  <2> QED BY <2>1 DEF x
<1>8. r.st = "SYN_RECEIVED" => \A o \in Orders(Made) : Ordered(o) => SegOK(o, sent, b)
  <2> DEFINE x == {"SYN", "ACK"}
  <2> HIDE DEF x
  <2>1. r.st = "SYN_RECEIVED" => \A o \in Orders(Made) : Ordered(o) => SegOK(o, sent, Again(s, r, x))
    BY <1>2, AgainOK DEF x
  <2> QED BY <2>1 DEF x
<1> HIDE DEF a, b
<1>9. <<a>> \in Seq(Segments) /\ <<b>> \in Seq(Segments)
  BY <1>6
<1>10. CASE TickEnd(h, r, <<>>, {})
  BY <1>1, <1>2, <1>5, <1>10, NonePlain, NoSegment, TickEndS
<1>11. CASE r.st = "SYN_SENT" /\ TickEnd(h, n, <<a>>, {})
  <2>1. \A o \in Orders(Made) : Ordered(o) => \A i \in DOMAIN <<a>> : SegOK(o, sent, <<a>>[i])
    BY <1>7, <1>11
  <2> QED BY <1>1, <1>2, <1>3, <1>5, <1>9, <1>11, <2>1, TickEndS
<1>12. CASE r.st = "SYN_RECEIVED" /\ TickEnd(h, n, <<b>>, {})
  <2>1. \A o \in Orders(Made) : Ordered(o) => \A i \in DOMAIN <<b>> : SegOK(o, sent, <<b>>[i])
    BY <1>8, <1>12
  <2> QED BY <1>1, <1>2, <1>3, <1>5, <1>9, <1>12, <2>1, TickEndS
<1>13. CASE TickEnd(h, c, <<>>, {})
  BY <1>1, <1>2, <1>4, <1>5, <1>13, NonePlain, NoSegment, TickEndS
<1> QED BY <1>1, <1>10, <1>11, <1>12, <1>13

LEMMA GiveUpS ==
  ASSUME RInv, SInv, RInv', NEW h \in Hosts, TickGiveUp(h)
  PROVE  SInv'
<1> DEFINE s == timer[h].sock
           r == sk[s]
           dead == [r EXCEPT !.st = "CLOSED", !.rtx = FALSE, !.conn = None]
<1>1. /\ timer[h].at = "section"
      /\ \/ TickEnd(h, dead, <<>>, {r.conn})
         \/ sk' = [sk EXCEPT ![s] = dead] /\ UNCHANGED <<wire, rx, isn, sent, got, load>>
  BY DEF TickGiveUp
<1>2. s \in Socks /\ r \in Sockets /\ r.st \notin {"none", "freed"}
  BY <1>1, TickHas
<1>3. /\ dead \in Sockets /\ dead.refs = r.refs /\ dead.st = "CLOSED" /\ dead.peer = r.peer
      /\ dead.rx = r.rx
  <2> HIDE DEF r
  <2> QED BY <1>2 DEF Sockets, States
<1> HIDE DEF dead
<1>4. Keeps(r, dead)
  BY <1>2, <1>3 DEF Keeps, Opening
<1>5. CASE TickEnd(h, dead, <<>>, {r.conn})
  BY <1>1, <1>3, <1>4, <1>5, NonePlain, NoSegment, TickEndS
<1>6. CASE sk' = [sk EXCEPT ![s] = dead] /\ UNCHANGED <<wire, rx, isn, sent, got, load>>
  <2>1. sk'[s] = dead /\ \A u \in Socks \ {s} : sk'[u] = sk[u]
    BY <1>2, <1>6 DEF RInv, Typed
  <2>2. \A u \in Socks : Keeps(sk[u], sk'[u])
    BY <1>4, <2>1, KeepsSame
  <2>3. \A f \in Hosts : Onward(f)
    BY <1>6 DEF Onward
  <2> QED BY <1>6, <2>2, <2>3, SilentS
<1> QED BY <1>1, <1>5, <1>6

LEMMA SpliceS ==
  ASSUME RInv, SInv, RInv', NEW h \in Hosts, TickSplice(h)
  PROVE  SInv'
<1>0. PICK s \in Socks : s = timer[h].sock
  BY TickHas DEF TickSplice
<1> DEFINE r == sk[s]
           l == sk[Lst]
           b == IF Listening THEN Without(l.backlog, s) ELSE l.backlog
           m == [l EXCEPT !.backlog = b]
<1>1. timer[h].at = "splice"
  BY DEF TickSplice
<1>2. r \in Sockets /\ r.refs # 0 /\ r.st \notin {"none", "freed"} /\ s # Lst
  BY <1>0, <1>1, TickHas, Names DEF RInv, TimerOK
<1>3. sk' = [sk EXCEPT ![s] = Put(r), ![Lst] = m] /\ UNCHANGED <<wire, rx, isn, sent, got, load>>
  BY <1>0, <1>2 DEF TickSplice
<1>4. l \in Sockets
  BY ListenerHas
<1>5. Keeps(l, m)
  <2>1. /\ m.st = l.st /\ m.peer = l.peer /\ m.rx = l.rx /\ m.iss = l.iss
        /\ m.nxt = l.nxt /\ m.rcv = l.rcv
    <3> HIDE DEF l, b
    <3> QED BY <1>4 DEF Sockets
  <2> HIDE DEF m
  <2> QED BY <2>1 DEF Keeps
<1> HIDE DEF m
<1>6. Keeps(r, Put(r))
  BY <1>2, KeepsSame, KeepsPut
<1>7. sk'[s] = Put(r) /\ sk'[Lst] = m /\ \A u \in Socks \ {s, Lst} : sk'[u] = sk[u]
  BY <1>2, <1>3, Names DEF RInv, Typed
<1>8. \A u \in Socks : Keeps(sk[u], sk'[u])
  BY <1>5, <1>6, <1>7, KeepsSame
<1>9. \A f \in Hosts : Onward(f)
  BY <1>3 DEF Onward
<1> QED BY <1>3, <1>8, <1>9, SilentS

----------------------------------------------------------------------------
(* Closing, the calls and the streams *)

(* A step on one socket, away from the receive path, with what it sends. *)
LEMMA OnlyS ==
  ASSUME RInv, SInv, RInv', NEW s \in Socks, NEW q, sk' = [sk EXCEPT ![s] = q], Keeps(sk[s], q),
         UNCHANGED <<rx, isn, sent, got, load>>,
         NEW segs \in Seq(Segments), wire' = wire \/ wire' = Onto(wire, segs),
         \A o : \A i \in DOMAIN segs : SegOK(o, sent, segs[i])
  PROVE  SInv'
<1>1. sk'[s] = q /\ \A u \in Socks \ {s} : sk'[u] = sk[u]
  BY DEF RInv, Typed
<1>2. \A u \in Socks : Keeps(sk[u], sk'[u])
  BY <1>1, KeepsSame
<1>3. \A h \in Hosts : Onward(h)
  BY DEF Onward
<1>4. CASE wire' = wire
  BY <1>2, <1>3, <1>4, SilentS
<1>5. CASE wire' = Onto(wire, segs)
  BY <1>2, <1>3, <1>5, SectionS
<1> QED BY <1>4, <1>5

LEMMA QuietS ==
  ASSUME RInv, SInv, RInv', NEW s \in Socks, NEW q, sk' = [sk EXCEPT ![s] = q], Keeps(sk[s], q),
         UNCHANGED <<wire, rx, isn, sent, got, load>>
  PROVE  SInv'
BY NoSegment, NonePlain, OnlyS

(* One that leaves the sockets alone. *)
LEMMA AsideS ==
  ASSUME RInv, SInv, RInv', UNCHANGED <<sk, wire, rx, isn, sent, got, load>>
  PROVE  SInv'
<1>1. \A u \in Socks : Keeps(sk[u], sk'[u])
  BY KeepsSame
<1>2. \A h \in Hosts : Onward(h)
  BY DEF Onward
<1> QED BY <1>1, <1>2, SilentS

(* The FIN that close() and shutdown() send. *)
LEMMA FinPlain ==
  ASSUME NEW s \in Socks, NEW r \in Sockets
  PROVE  /\ <<Seg(s, r, {"FIN", "ACK"}, <<>>)>> \in Seq(Segments)
         /\ \A o : \A i \in DOMAIN <<Seg(s, r, {"FIN", "ACK"}, <<>>)>> :
              SegOK(o, sent, <<Seg(s, r, {"FIN", "ACK"}, <<>>)>>[i])
<1> DEFINE f == Seg(s, r, {"FIN", "ACK"}, <<>>)
<1>1. <<>> \in Seq(Bytes) /\ {"FIN", "ACK"} \in SUBSET {"SYN", "ACK", "FIN", "RST"}
  OBVIOUS
<1>2. f \in Segments /\ Plain(f)
  BY <1>1, SegType, PlainSeg
<1> HIDE DEF f
<1>3. <<f>> \in Seq(Segments) /\ \A o : \A i \in DOMAIN <<f>> : SegOK(o, sent, <<f>>[i])
  BY <1>2, OnePlain
<1> QED BY <1>3 DEF f

LEMMA CloseSectionS ==
  ASSUME RInv, SInv, RInv', NEW x \in Doers, CloseSection(x)
  PROVE  SInv'
<1>0. PICK s : s = Head(job[x])[2]
  OBVIOUS
<1> DEFINE r == sk[s]
           open == r.st \in {"ESTABLISHED", "CLOSE_WAIT"}
           left == [r EXCEPT !.backlog = <<>>, !.conn = None, !.acc = None, !.rxw = None]
           sends == Sent(left, {"FIN"}, <<>>)
           next == IF r.st = "ESTABLISHED" THEN "FIN_WAIT_1" ELSE "LAST_ACK"
           shut == [left EXCEPT !.st = "CLOSED"]
           fin == [sends EXCEPT !.st = next]
           q == IF ~open THEN shut ELSE fin
           segs == <<Seg(s, r, {"FIN", "ACK"}, <<>>)>>
<1>1. /\ job[x] # <<>> /\ sk' = [sk EXCEPT ![s] = q]
      /\ wire' = wire \/ wire' = Onto(wire, segs)
      /\ UNCHANGED <<rx, isn, sent, got, load>>
  BY <1>0 DEF CloseSection, Doing
<1>2. s \in Socks /\ r \in Sockets /\ r.st \notin {"none", "freed"}
  BY <1>0, <1>1, JobHas
<1>3. left \in Sockets /\ left.st = r.st /\ left.peer = r.peer /\ left.rx = r.rx
  <2> DEFINE e == <<>>
  <2>1. e \in Seq(Kids)
    OBVIOUS
  <2>2. left = [r EXCEPT !.backlog = e, !.conn = None, !.acc = None, !.rxw = None]
    OBVIOUS
  <2> HIDE DEF r, e, left
  <2> QED BY <1>2, <2>1, <2>2 DEF Sockets
<1> HIDE DEF left
<1>4. sends \in Sockets /\ sends.peer = r.peer /\ sends.rx = r.rx
  <2> DEFINE flags == {"FIN"}
             data == <<>>
  <2>1. /\ data \in Seq(Bytes) /\ flags \in SUBSET {"SYN", "ACK", "FIN", "RST"}
        /\ sends = Sent(left, flags, data)
    OBVIOUS
  <2> HIDE DEF flags, data, sends, r
  <2> QED BY <1>3, <2>1, SentType
<1> HIDE DEF sends
<1>5. q.peer = r.peer /\ q.rx = r.rx /\ q.st \in {"CLOSED", "FIN_WAIT_1", "LAST_ACK"}
  <2>1. CASE ~open
    <3>1. q = shut
      BY <2>1
    <3> HIDE DEF q, r, open
    <3> QED BY <1>3, <2>1, <3>1 DEF Sockets
  <2>2. CASE open
    <3>1. q = fin /\ next \in {"FIN_WAIT_1", "LAST_ACK"}
      BY <2>2
    <3> HIDE DEF q, r, open, next
    <3> QED BY <1>4, <2>2, <3>1 DEF Sockets
  <2> QED BY <2>1, <2>2
<1> HIDE DEF q
<1>6. Keeps(r, q)
  BY <1>2, <1>5 DEF Keeps, Opening
<1>7. segs \in Seq(Segments) /\ \A o : \A i \in DOMAIN segs : SegOK(o, sent, segs[i])
  BY <1>2, FinPlain
<1> HIDE DEF segs
<1> QED BY <1>1, <1>2, <1>6, <1>7, OnlyS

LEMMA UnlinkS ==
  ASSUME RInv, SInv, RInv', NEW x \in Doers, CloseUnlink(x)
  PROVE  SInv'
<1>0. PICK s : s = Head(job[x])[2]
  OBVIOUS
<1> DEFINE r == sk[s]
           m == [r EXCEPT !.linked = FALSE]
<1>1. job[x] # <<>> /\ UNCHANGED <<wire, rx, isn, sent, got, load>>
  BY DEF CloseUnlink, Doing
<1>2. s \in Socks /\ s \in DOMAIN sk /\ r \in Sockets /\ r.st \notin {"none", "freed"} /\ r.refs # 0
  <2>1. r.refs = 1 + Users(s) /\ Users(s) \in Nat /\ s \in Socks
    BY <1>0, <1>1, JobHas, UsersNat
  <2>2. r.refs # 0
    <3>1. PICK n \in Nat : n = Users(s)
      BY <2>1
    <3> QED BY <2>1, <3>1
  <2> QED BY <1>0, <1>1, <2>1, <2>2, JobHas DEF RInv, Typed
<1>3. sk' = [sk EXCEPT ![s] = Put(m)]
  BY <1>0, <1>2 DEF CloseUnlink
<1>4. /\ m \in Sockets /\ m.refs = r.refs /\ m.st = r.st /\ m.peer = r.peer /\ m.rx = r.rx
      /\ m.iss = r.iss /\ m.nxt = r.nxt /\ m.rcv = r.rcv
  <2> HIDE DEF r
  <2> QED BY <1>2 DEF Sockets
<1> HIDE DEF m
<1>5. Keeps(r, m)
  BY <1>4 DEF Keeps
<1>6. Keeps(r, Put(m))
  BY <1>2, <1>4, <1>5, KeepsPut
<1> QED BY <1>1, <1>2, <1>3, <1>6, QuietS

LEMMA SleepS ==
  ASSUME RInv, SInv, RInv', NEW t \in Threads, Blocks(t)
  PROVE  SInv'
<1>1. UNCHANGED <<sk, wire, rx, isn, sent, got, load>>
  BY DEF Blocks, Sleep
<1> QED BY <1>1, AsideS

LEMMA SignalS ==
  ASSUME RInv, SInv, RInv', NEW t \in Threads, Signal(t)
  PROVE  SInv'
<1>1. UNCHANGED <<sk, wire, rx, isn, sent, got, load>>
  BY DEF Signal
<1> QED BY <1>1, AsideS

LEMMA CloseS ==
  ASSUME RInv, SInv, RInv', NEW t \in Threads, Close(t)
  PROVE  SInv'
<1>1. UNCHANGED <<sk, wire, rx, isn, sent, got, load>>
  BY DEF Close
<1> QED BY <1>1, AsideS

LEMMA AcceptS ==
  ASSUME RInv, SInv, RInv', NEW t \in Threads, Accept(t)
  PROVE  SInv'
<1>1. sk' = [sk EXCEPT ![Lst] = Get(sk[Lst])] /\ UNCHANGED <<wire, rx, isn, sent, got, load>>
  BY DEF Accept
<1>2. PICK s \in Socks : s = Lst
  BY Names
<1>3. Keeps(sk[s], Get(sk[s]))
  BY KeepsGet DEF RInv, Typed
<1> QED BY <1>1, <1>2, <1>3, QuietS

LEMMA RecvS ==
  ASSUME RInv, SInv, RInv', NEW t \in Threads, Recv(t)
  PROVE  SInv'
<1>0. PICK s : s = pc[t].sock
  OBVIOUS
<1>1. /\ s # None /\ sk' = [sk EXCEPT ![s] = Get(sk[s])]
      /\ UNCHANGED <<wire, rx, isn, sent, got, load>>
  BY <1>0 DEF Recv, Owner
<1>2. s \in Socks /\ sk[s] \in Sockets
  BY <1>0, <1>1, ThreadHas
<1> QED BY <1>1, <1>2, KeepsGet, QuietS

LEMMA AcceptTryS ==
  ASSUME RInv, SInv, RInv', NEW t \in Threads, AcceptTry(t)
  PROVE  SInv'
<1> DEFINE r == sk[Lst]
           ready == {i \in DOMAIN r.backlog : Ready(r.backlog[i])}
           b == RemoveAt(r.backlog, Min(ready))
           m == [r EXCEPT !.backlog = b]
           q == [r EXCEPT !.acc = t]
<1>0. PICK s \in Socks : s = Lst
  BY Names
<1>1. pc[t].at = "accept" /\ UNCHANGED <<wire, rx, isn, sent, got, load>>
  BY DEF AcceptTry, At
<1>2. pc[t].at \in Accepting
  BY <1>1 DEF Accepting
<1>3. r \in Sockets /\ r.refs # 0 /\ r.st \notin {"none", "freed"} /\ Lst \in DOMAIN sk
  BY <1>2, AcceptHas, Names, SMTT(30) DEF RInv, Typed
<1>4. \/ sk' = [sk EXCEPT ![Lst] = Put(r)]
      \/ ready # {} /\ sk' = [sk EXCEPT ![Lst] = Put(m)]
      \/ sk' = [sk EXCEPT ![Lst] = q]
  BY <1>3 DEF AcceptTry
<1>5. CASE sk' = [sk EXCEPT ![Lst] = Put(r)]
  <2>1. Keeps(r, Put(r))
    BY <1>3, KeepsSame, KeepsPut
  <2> QED BY <1>0, <1>1, <1>5, <2>1, QuietS
<1>6. CASE ready # {} /\ sk' = [sk EXCEPT ![Lst] = Put(m)]
  <2>1. b \in Seq(Kids)
    <3> DEFINE o == r.backlog
    <3>1. o \in Seq(Kids)
      BY ListenerHas
    <3>2. ready \subseteq Nat /\ ready \subseteq DOMAIN o
      <4> HIDE DEF o
      <4>1. DOMAIN o \subseteq Nat
        BY <3>1, LenProperties
      <4> QED BY <4>1 DEF o
    <3>3. Min(ready) \in ready
      <4> HIDE DEF ready
      <4>1. \E n \in ready : \A j \in ready : n <= j
        BY <1>6, <3>2, LeastNumber
      <4> QED BY <4>1 DEF Min
    <3>4. Min(ready) \in DOMAIN o
      BY <3>2, <3>3
    <3> DEFINE i == Min(ready)
    <3> HIDE DEF o, ready, i
    <3>5. RemoveAt(o, i) \in Seq(Kids)
      BY <3>1, <3>4, RemoveAtFacts DEF i
    <3> QED BY <3>5 DEF o, i
  <2> HIDE DEF b
  <2>2. /\ m \in Sockets /\ m.refs = r.refs /\ m.st = r.st /\ m.peer = r.peer /\ m.rx = r.rx
        /\ m.iss = r.iss /\ m.nxt = r.nxt /\ m.rcv = r.rcv
    <3> HIDE DEF r
    <3> QED BY <1>3, <2>1 DEF Sockets
  <2> HIDE DEF m
  <2>3. Keeps(r, m)
    BY <2>2 DEF Keeps
  <2>4. Keeps(r, Put(m))
    BY <1>3, <2>2, <2>3, KeepsPut
  <2> QED BY <1>0, <1>1, <1>6, <2>4, QuietS
<1>7. CASE sk' = [sk EXCEPT ![Lst] = q]
  <2>1. /\ q.st = r.st /\ q.peer = r.peer /\ q.rx = r.rx
        /\ q.iss = r.iss /\ q.nxt = r.nxt /\ q.rcv = r.rcv
    <3> HIDE DEF r
    <3> QED BY <1>3 DEF Sockets
  <2> HIDE DEF q
  <2>2. Keeps(r, q)
    BY <2>1 DEF Keeps
  <2> QED BY <1>0, <1>1, <1>7, <2>2, QuietS
<1> QED BY <1>4, <1>5, <1>6, <1>7

LEMMA AcceptWokenS ==
  ASSUME RInv, SInv, RInv', NEW t \in Threads, AcceptWoken(t)
  PROVE  SInv'
<1> DEFINE r == sk[Lst]
           c == IF r.acc = t THEN None ELSE r.acc
           m == [r EXCEPT !.acc = c]
<1>0. PICK s \in Socks : s = Lst
  BY Names
<1>1. pc[t].at = "acceptwoken" /\ UNCHANGED <<wire, rx, isn, sent, got, load>>
  BY DEF AcceptWoken, At
<1>2. pc[t].at \in Accepting
  BY <1>1 DEF Accepting
<1>3. r \in Sockets /\ r.refs # 0 /\ r.st \notin {"none", "freed"}
  BY <1>2, AcceptHas
<1>4. c \in Threads \cup {None}
  <2> DEFINE a == r.acc
  <2>1. a \in Threads \cup {None}
    BY <1>3, SocketFields
  <2> HIDE DEF a
  <2>2. (IF a = t THEN None ELSE a) \in Threads \cup {None}
    BY <2>1
  <2> QED BY <2>2 DEF a
<1>5. sk' = [sk EXCEPT ![Lst] = Put(m)] \/ UNCHANGED sk
  BY DEF AcceptWoken
<1> HIDE DEF c
<1>6. /\ m \in Sockets /\ m.refs = r.refs /\ m.st = r.st /\ m.peer = r.peer /\ m.rx = r.rx
      /\ m.iss = r.iss /\ m.nxt = r.nxt /\ m.rcv = r.rcv
  <2> HIDE DEF r
  <2> QED BY <1>3, <1>4 DEF Sockets
<1> HIDE DEF m
<1>7. Keeps(r, m)
  BY <1>6 DEF Keeps
<1>8. Keeps(r, Put(m))
  BY <1>3, <1>6, <1>7, KeepsPut
<1>9. CASE sk' = [sk EXCEPT ![Lst] = Put(m)]
  BY <1>0, <1>1, <1>8, <1>9, QuietS
<1>10. CASE UNCHANGED sk
  BY <1>1, <1>10, AsideS
<1> QED BY <1>5, <1>9, <1>10

LEMMA RecvWokenS ==
  ASSUME RInv, SInv, RInv', NEW t \in Threads, RecvWoken(t)
  PROVE  SInv'
<1>0. PICK s : s = pc[t].sock
  OBVIOUS
<1> DEFINE r == sk[s]
           c == IF r.rxw = t THEN None ELSE r.rxw
           m == [r EXCEPT !.rxw = c]
<1>1. pc[t].at = "recvwoken" /\ UNCHANGED <<wire, rx, isn, sent, got, load>>
  BY DEF RecvWoken, At
<1>2. pc[t].sock # None
  BY <1>1 DEF RInv, CallsOK, Reading
<1>3. s \in Socks /\ s \in DOMAIN sk /\ r \in Sockets /\ r.refs # 0 /\ r.st \notin {"none", "freed"}
  BY <1>0, <1>2, ThreadHas DEF RInv, Typed
<1>4. c \in Threads \cup {None}
  <2> DEFINE a == r.rxw
  <2>1. a \in Threads \cup {None}
    BY <1>3, SocketFields
  <2> HIDE DEF a
  <2>2. (IF a = t THEN None ELSE a) \in Threads \cup {None}
    BY <2>1
  <2> QED BY <2>2 DEF a
<1>5. sk' = [sk EXCEPT ![s] = Put(m)] \/ UNCHANGED sk
  BY <1>0, <1>3 DEF RecvWoken
<1> HIDE DEF c
<1>6. /\ m \in Sockets /\ m.refs = r.refs /\ m.st = r.st /\ m.peer = r.peer /\ m.rx = r.rx
      /\ m.iss = r.iss /\ m.nxt = r.nxt /\ m.rcv = r.rcv
  <2> HIDE DEF r
  <2> QED BY <1>3, <1>4 DEF Sockets
<1> HIDE DEF m
<1>7. Keeps(r, m)
  BY <1>6 DEF Keeps
<1>8. Keeps(r, Put(m))
  BY <1>3, <1>6, <1>7, KeepsPut
<1>9. CASE sk' = [sk EXCEPT ![s] = Put(m)]
  BY <1>1, <1>3, <1>8, <1>9, QuietS
<1>10. CASE UNCHANGED sk
  BY <1>1, <1>10, AsideS
<1> QED BY <1>5, <1>9, <1>10

LEMMA ConnectWokenS ==
  ASSUME RInv, SInv, RInv', NEW t \in Threads, ConnectWoken(t)
  PROVE  SInv'
<1> DEFINE r == sk[t]
           keep == [r EXCEPT !.conn = IF sig[t] /\ r.conn = t THEN None ELSE r.conn]
           again == [r EXCEPT !.conn = t]
<1>1. pc[t].at = "connect" /\ UNCHANGED <<wire, rx, isn, sent, got, load>>
  BY DEF ConnectWoken, At
<1>2. pc[t].sock = t /\ t # None
  BY <1>1, Names DEF RInv, CallsOK
<1>3. t \in Socks /\ r \in Sockets /\ t \in DOMAIN sk
  BY <1>2, ThreadHas DEF RInv, Typed
<1>4. sk' = [sk EXCEPT ![t] = keep] \/ sk' = [sk EXCEPT ![t] = again]
  BY <1>3 DEF ConnectWoken
<1>5. ASSUME NEW c, NEW q, q = [r EXCEPT !.conn = c] PROVE Keeps(r, q)
  <2>1. /\ q.st = r.st /\ q.peer = r.peer /\ q.rx = r.rx
        /\ q.iss = r.iss /\ q.nxt = r.nxt /\ q.rcv = r.rcv
    <3> HIDE DEF r
    <3> QED BY <1>3, <1>5 DEF Sockets
  <2> QED BY <2>1 DEF Keeps
<1>6. Keeps(r, keep) /\ Keeps(r, again)
  BY <1>5
<1> HIDE DEF keep, again
<1> QED BY <1>1, <1>3, <1>4, <1>6, QuietS

LEMMA ShutdownS ==
  ASSUME RInv, SInv, RInv', NEW t \in Threads, Shutdown(t)
  PROVE  SInv'
<1>0. PICK s : s = pc[t].sock
  OBVIOUS
<1> DEFINE r == sk[s]
           sends == Sent(r, {"FIN"}, <<>>)
           q == [sends EXCEPT !.st = "FIN_WAIT_1"]
           segs == <<Seg(s, r, {"FIN", "ACK"}, <<>>)>>
<1>1. /\ s # None /\ sk' = [sk EXCEPT ![s] = q] /\ wire' = Onto(wire, segs)
      /\ UNCHANGED <<rx, isn, sent, got, load>>
  BY <1>0 DEF Shutdown, Owner
<1>2. s \in Socks /\ r \in Sockets /\ r.st \notin {"none", "freed"}
  BY <1>0, <1>1, ThreadHas
<1>3. sends \in Sockets /\ sends.peer = r.peer /\ sends.rx = r.rx
  <2> DEFINE flags == {"FIN"}
             data == <<>>
  <2>1. /\ data \in Seq(Bytes) /\ flags \in SUBSET {"SYN", "ACK", "FIN", "RST"}
        /\ sends = Sent(r, flags, data)
    OBVIOUS
  <2> HIDE DEF flags, data, sends, r
  <2> QED BY <1>2, <2>1, SentType
<1> HIDE DEF sends
<1>4. q.peer = r.peer /\ q.rx = r.rx /\ q.st = "FIN_WAIT_1"
  BY <1>3 DEF Sockets
<1> HIDE DEF q
<1>5. Keeps(r, q)
  BY <1>2, <1>4 DEF Keeps, Opening
<1>6. segs \in Seq(Segments) /\ \A o : \A i \in DOMAIN segs : SegOK(o, sent, segs[i])
  BY <1>2, FinPlain
<1> HIDE DEF segs
<1> QED BY <1>1, <1>2, <1>5, <1>6, OnlyS

(* A client's initial number is left for good. *)
LEMMA IsnMoves ==
  Plus(FirstIsn, IsnStep) # FirstIsn
<1>1. Wrap \in Nat /\ IsnStep \in 1 .. Wrap - 1 /\ IsnStep \in 0 .. Wrap /\ Wrap >= 2
  BY TcpSizes
<1>2. FirstIsn \in Seqs /\ FirstIsn = Wrap - 2
  BY FirstIsnIn DEF FirstIsn
<1>3. /\ FirstIsn + IsnStep < Wrap => Plus(FirstIsn, IsnStep) = FirstIsn + IsnStep
      /\ FirstIsn + IsnStep >= Wrap => Plus(FirstIsn, IsnStep) = FirstIsn + IsnStep - Wrap
  BY <1>1, <1>2, PlusIs
<1> QED BY <1>1, <1>2, <1>3

(* The SYN is the first that a client sends. *)
LEMMA ConnectS ==
  ASSUME RInv, SInv, RInv', NEW t \in Clients, NEW nonblock \in BOOLEAN, Connect(t, nonblock)
  PROVE  SInv'
<1> DEFINE r == sk[t]
           i == isn[t]
           new == [r EXCEPT !.iss = i, !.una = i, !.nxt = i, !.st = "SYN_SENT"]
           sends == Sent(new, {"SYN"}, <<>>)
           c == IF nonblock THEN sends.conn ELSE t
           q == [sends EXCEPT !.rtx = TRUE, !.cnt = 0, !.conn = c]
           a == Seg(t, new, {"SYN"}, <<>>)
<1>1. /\ pc[t].sock # None /\ i = FirstIsn
      /\ isn' = [isn EXCEPT ![t] = Plus(i, IsnStep)]
      /\ sk' = [sk EXCEPT ![t] = q]
      /\ wire' = Onto(wire, <<a>>)
      /\ UNCHANGED <<rx, sent, got, load>>
  BY DEF Connect, Owner
<1>2. t \in Threads /\ t \in Socks /\ t \in Hosts /\ t # Lst /\ t \notin Kids /\ Local(t) = t
  BY Names
<1>3. pc[t].sock = t /\ r \in Sockets /\ r.st \notin {"none", "freed"}
  BY <1>1, <1>2, ThreadHas
<1>4. /\ i \in Seqs /\ Plus(i, 1) \in Seqs /\ isn \in [Hosts -> Seqs]
      /\ sent \in [Socks -> Nat] /\ got \in [Socks -> Seq(Bytes)] /\ sk \in [Socks -> Sockets]
  BY <1>2, PlusIn DEF RInv, Typed
<1>5. sent[t] = 0 /\ got[t] = <<>> /\ r.rx = <<>>
  BY <1>1, <1>2 DEF SInv, Untouched, Unused, Silent
<1>6. /\ new \in Sockets /\ new.st = "SYN_SENT" /\ new.peer = r.peer /\ new.rx = r.rx
      /\ new.iss = i /\ new.nxt = i
  <2> HIDE DEF r, i
  <2> QED BY <1>3, <1>4 DEF Sockets, States
<1> HIDE DEF new
<1>7. /\ sends \in Sockets /\ sends.st = "SYN_SENT" /\ sends.peer = r.peer /\ sends.rx = r.rx
      /\ sends.iss = i /\ sends.nxt = Plus(i, 1)
  <2>1. sends = [new EXCEPT !.nxt = Plus(i, 1)]
    BY <1>6 DEF Sent
  <2> HIDE DEF sends, r, i
  <2> QED BY <1>4, <1>6, <2>1 DEF Sockets
<1> HIDE DEF sends, c
<1>8. /\ q.st = "SYN_SENT" /\ q.peer = r.peer /\ q.rx = r.rx /\ q.iss = i /\ q.nxt = Plus(i, 1)
  <2> HIDE DEF r, i
  <2> QED BY <1>7 DEF Sockets
<1> HIDE DEF q
<1>9. /\ a \in Segments /\ a.src = t /\ a.seq = i /\ a.data = <<>> /\ a.flags = {"SYN"}
  <2>1. <<>> \in Seq(Bytes) /\ {"SYN"} \in SUBSET {"SYN", "ACK", "FIN", "RST"}
    OBVIOUS
  <2>2. a \in Segments
    BY <1>2, <1>6, <2>1, SegType
  <2> QED BY <1>2, <1>6, <2>2 DEF Seg
<1> HIDE DEF a
<1>10. sk'[t] = q /\ \A u \in Socks \ {t} : sk'[u] = sk[u]
  BY <1>1, <1>2, <1>4
<1>11. Made' = Made
  <2>1. \A u \in Socks : sk'[u].st = "none" <=> sk[u].st = "none"
    BY <1>3, <1>8, <1>10
  <2> QED BY <2>1, MadeSame
<1>12. Numbered'
  <2>1. isn'[Lst] = isn[Lst]
    BY <1>1, <1>2, <1>4, Names
  <2> QED BY <1>1, <1>11, <2>1 DEF SInv, Numbered
<1>13. Untouched'
  <2> SUFFICES ASSUME NEW u \in Socks, Unused(u)' PROVE Silent(u)'
    BY DEF Untouched
  <2>1. isn'[t] # FirstIsn /\ \A h \in Hosts \ {t} : isn'[h] = isn[h]
    BY <1>1, <1>2, <1>4, IsnMoves
  <2>2. u # t /\ Unused(u)
    BY <1>2, <1>11, <2>1, Names DEF Unused
  <2>3. Silent(u)
    BY <2>2 DEF SInv, Untouched
  <2> QED BY <1>1, <1>10, <2>2, <2>3 DEF Silent
<1>14. Busy'
  BY BusyFromR, PTL
<1>15. Matched' /\ \A o : TakenOK(o) => TakenOK(o)'
  <2>1. \A u \in Socks : sk'[u].st = "freed" \/ sk'[u].peer = sk[u].peer
    BY <1>8, <1>10
  <2>2. \A h \in Hosts : Onward(h)
    BY <1>1 DEF Onward
  <2> QED BY <1>1, <1>14, <2>1, <2>2, SameTaken DEF SInv
<1>16. PICK o \in Orders(Made) : Ordered(o)
  BY DEF SInv
<1>17. /\ SeqNo(o, t, 0) = i /\ SeqNo(o, t, 0 + 1) = Plus(i, 1) /\ t \in Ends(o)
  <2>1. Base(o, t) = 0 /\ t \in Ends(o)
    BY OrderFacts
  <2>2. SeqNo(o, t, 0) = FirstIsn
    BY <2>1, SeqNoClient
  <2>3. Plus(SeqNo(o, t, 0), 1) = SeqNo(o, t, 0 + 1)
    BY <2>1, SeqNoPlus
  <2> QED BY <1>1, <2>1, <2>2, <2>3
<1>18. SegOK(o, sent, a)
  BY <1>2, <1>9, <1>17 DEF SegOK, DataOK, SynOK
<1>19. WireOK(o)' /\ TakenOK(o)'
  <2>1. WireOK(o) /\ TakenOK(o)
    BY <1>16 DEF Ordered
  <2>2. <<a>> \in Seq(Segments) /\ \A j \in DOMAIN <<a>> : SegOK(o, sent, <<a>>[j])
    BY <1>9, <1>18
  <2>3. \A h \in Hosts : \A j \in DOMAIN Onto(wire, <<a>>)[h] : SegOK(o, sent, Onto(wire, <<a>>)[h][j])
    BY <2>1, <2>2, WireGrows DEF RInv
  <2>4. WireOK(o)'
    BY <1>1, <2>3 DEF WireOK
  <2> QED BY <1>15, <2>1, <2>4
<1>20. EndsOK(o)'
  <2> SUFFICES ASSUME NEW u \in Socks PROVE EndOK(o, sent, got, u, sk'[u])
    BY <1>1 DEF EndsOK
  <2>1. EndOK(o, sent, got, u, sk[u])
    BY <1>16 DEF Ordered, EndsOK
  <2>2. CASE u = t
    <3>1. SendOK(o, sent[t], t, q)
      <4>1. sent[t] + 1 = 0 + 1
        BY <1>5
      <4> QED BY <1>8, <1>17, <4>1 DEF SendOK
    <3>2. got[t] \o q.rx = <<>>
      <4>1. <<>> \o <<>> = <<>>
        OBVIOUS
      <4> QED BY <1>5, <1>8, <4>1
    <3>3. RecvOK(o, sent, q, <<>>)
      BY <1>8 DEF RecvOK
    <3>4. q.peer = Lst
      BY <1>3, <1>8, <2>1, <2>2 DEF EndOK
    <3> QED BY <1>10, <2>2, <3>1, <3>2, <3>3, <3>4 DEF EndOK
  <2>3. CASE u # t
    BY <1>10, <2>1, <2>3
  <2> QED BY <2>2, <2>3
<1>21. Ordered(o)'
  BY <1>19, <1>20 DEF Ordered
<1> QED BY <1>11, <1>12, <1>13, <1>15, <1>16, <1>21 DEF SInv

(* A byte goes from the ring to the reader: what was received is the same. *)
LEMMA ByteRead ==
  ASSUME NEW S, NEW x \in Seq(S), NEW y \in Seq(S), y # <<>>
  PROVE  Append(x, Head(y)) \o Tail(y) = x \o y /\ Tail(y) \in Seq(S)
<1>1. Len(y) \in Nat \ {0} /\ Head(y) \in S /\ Tail(y) \in Seq(S) /\ Head(y) = y[1]
  BY EmptySeq, HeadTailProperties
<1>2. y = <<Head(y)>> \o Tail(y)
  <2>1. 1 \in 1 .. Len(y) /\ Len(y) \in 1 .. Len(y)
    BY <1>1
  <2>2. SubSeq(y, 1, Len(y)) = <<y[1]>> \o SubSeq(y, 1 + 1, Len(y))
    BY <2>1, SubSeqRecursiveFirst
  <2>3. SubSeq(y, 1, Len(y)) = y /\ Tail(y) = SubSeq(y, 2, Len(y)) /\ 1 + 1 = 2
    BY SubSeqFull, TailIsSubSeq
  <2> QED BY <1>1, <2>2, <2>3
<1> DEFINE e == <<Head(y)>>
           t == Tail(y)
           l == Append(x, Head(y)) \o Tail(y)
<1>3. e \in Seq(S) /\ Append(x, Head(y)) = x \o e
  BY <1>1, AppendIsConcat
<1>4. t \in Seq(S) /\ e \o t = y /\ l = (x \o e) \o t
  BY <1>1, <1>2, <1>3
<1> HIDE DEF e, t, l
<1>5. (x \o e) \o t = x \o (e \o t)
  <2>1. e \in Seq(S) /\ t \in Seq(S)
    BY <1>3, <1>4
  <2> QED BY <2>1, ConcatAssociative, SMTT(30)
<1>6. l = x \o y
  BY <1>4, <1>5
<1> QED BY <1>1, <1>6 DEF l

LEMMA RecvTryS ==
  ASSUME RInv, SInv, RInv', NEW t \in Threads, RecvTry(t)
  PROVE  SInv'
<1>0. PICK s : s = pc[t].sock
  OBVIOUS
<1> DEFINE r == sk[s]
           d == Tail(r.rx)
           x == Append(got[s], Head(r.rx))
           less == [r EXCEPT !.rx = d]
           q == [r EXCEPT !.rxw = t]
           gets == Put(less)
           ends == Put(r)
<1>1. pc[t].at = "recv" /\ UNCHANGED <<wire, rx, isn, sent, load>>
  BY DEF RecvTry, At
<1>2. pc[t].sock # None
  BY <1>1 DEF RInv, CallsOK, Reading
<1>3. /\ s \in Socks /\ s \in DOMAIN sk /\ r \in Sockets /\ r.refs # 0
      /\ r.st \notin {"none", "freed"}
  BY <1>0, <1>2, ThreadHas DEF RInv, Typed
<1>4. /\ sk \in [Socks -> Sockets] /\ got \in [Socks -> Seq(Bytes)] /\ sent \in [Socks -> Nat]
      /\ got' \in [Socks -> Seq(Bytes)]
  BY DEF RInv, Typed
<1>5. \/ /\ r.rx # <<>> /\ sk' = [sk EXCEPT ![s] = gets] /\ got' = [got EXCEPT ![s] = x]
      \/ sk' = [sk EXCEPT ![s] = ends] /\ UNCHANGED got
      \/ sk' = [sk EXCEPT ![s] = q] /\ UNCHANGED got
  BY <1>0, <1>3, <1>4 DEF RecvTry
<1>6. CASE r.rx # <<>> /\ sk' = [sk EXCEPT ![s] = gets] /\ got' = [got EXCEPT ![s] = x]
  <2>1. d \in Seq(Bytes) /\ x \o d = got[s] \o r.rx
    <3> DEFINE y == r.rx
               z == got[s]
    <3>1. y \in Seq(Bytes) /\ z \in Seq(Bytes) /\ y # <<>>
      <4>1. r.rx # <<>>
        BY <1>6
      <4> HIDE DEF r
      <4> QED BY <1>3, <1>4, <4>1, SocketFields
    <3> HIDE DEF y, z
    <3>2. Append(z, Head(y)) \o Tail(y) = z \o y /\ Tail(y) \in Seq(Bytes)
      BY <3>1, ByteRead
    <3> QED BY <3>2 DEF y, z
  <2>2. sk'[s] = gets /\ got'[s] = x
        /\ \A u \in Socks \ {s} : sk'[u] = sk[u] /\ got'[u] = got[u]
    BY <1>3, <1>4, <1>6
  <2> HIDE DEF x
  <2>3. /\ less \in Sockets /\ less.refs = r.refs /\ less.st = r.st /\ less.peer = r.peer
        /\ less.rx = d /\ less.iss = r.iss /\ less.nxt = r.nxt /\ less.rcv = r.rcv
    <3>1. d \in Seq(Bytes)
      BY <2>1
    <3> HIDE DEF d, r
    <3> QED BY <1>3, <3>1 DEF Sockets
  <2> HIDE DEF less
  <2>4. Keeps(less, gets) /\ gets \in Sockets
    BY <1>3, <2>3, KeepsSame, KeepsPut
  <2>5. ~Unused(s)
    BY <1>3, <1>6 DEF SInv, Untouched, Silent
  <2>6. ASSUME NEW o \in Orders(Made), Ordered(o)
        PROVE  EndOK(o, sent, got', s, sk'[s])
    <3>1. EndOK(o, sent, got, s, r)
      BY <1>3, <2>6 DEF Ordered, EndsOK
    <3> DEFINE all == got[s] \o r.rx
    <3>2. got'[s] \o less.rx = all
      BY <2>1, <2>2, <2>3
    <3>3. RecvOK(o, sent, r, all)
      BY <3>1 DEF EndOK
    <3> HIDE DEF all
    <3>4. \A p : Reads(o, sent, r, all, p) => Reads(o, sent, less, all, p)
      BY <2>3 DEF Reads
    <3>5. RecvOK(o, sent, less, all)
      BY <2>3, <3>3, <3>4 DEF RecvOK
    <3>6. SendOK(o, sent[s], s, less) /\ (s \in Clients /\ less.st # "freed" => less.peer = Lst)
      BY <2>3, <3>1 DEF EndOK, SendOK
    <3>7. EndOK(o, sent, got', s, less)
      BY <3>2, <3>5, <3>6 DEF EndOK
    <3>8. Ends(o) \subseteq Socks
      BY OrderFacts, Names
    <3>9. EndOK(o, sent, got', s, gets)
      BY <1>3, <1>4, <2>3, <2>4, <3>7, <3>8, KeepsEnd
    <3> QED BY <2>2, <3>9
  <2>7. /\ sk'[s].st # "none" /\ sk[s].st # "none"
        /\ sk'[s].st = "freed" \/ sk'[s].peer = sk[s].peer
    BY <1>3, <2>2, <2>3, <2>4, GoneFields DEF Keeps
  <2>8. wire' = Onto(wire, <<>>)
    <3>1. wire \in [Hosts -> Seq(Segments)]
      BY DEF RInv, Typed
    <3>2. Onto(wire, <<>>) = wire
      BY <3>1 DEF Onto
    <3> QED BY <1>1, <3>2
  <2>9. \A h \in Hosts : Onward(h)
    BY <1>1 DEF Onward
  <2> QED BY <1>1, <1>3, <2>2, <2>5, <2>6, <2>7, <2>8, <2>9, NoSegment, NonePlain, ReadStep
<1>7. CASE sk' = [sk EXCEPT ![s] = ends] /\ UNCHANGED got
  <2>1. Keeps(r, ends)
    BY <1>3, KeepsSame, KeepsPut
  <2> QED BY <1>1, <1>3, <1>7, <2>1, QuietS
<1>8. CASE sk' = [sk EXCEPT ![s] = q] /\ UNCHANGED got
  <2>1. /\ q.st = r.st /\ q.peer = r.peer /\ q.rx = r.rx
        /\ q.iss = r.iss /\ q.nxt = r.nxt /\ q.rcv = r.rcv
    <3> HIDE DEF r
    <3> QED BY <1>3 DEF Sockets
  <2> HIDE DEF q
  <2>2. Keeps(r, q)
    BY <2>1 DEF Keeps
  <2> QED BY <1>1, <1>3, <1>8, <2>2, QuietS
<1> QED BY <1>5, <1>6, <1>7, <1>8

(* The j-th part of n bytes starts inside them. *)
LEMMA PartStarts ==
  ASSUME NEW n \in Nat, NEW j \in 1 .. (n + Mss - 1) \div Mss
  PROVE  /\ (n + Mss - 1) \div Mss \in Nat
         /\ \E a \in Nat : a = (j - 1) * Mss /\ a < n /\ j * Mss = a + Mss
<1> DEFINE m == (n + Mss - 1) \div Mss
<1>1. PICK w \in Nat \ {0} : w = Mss
  BY TcpSizes
<1>2. PICK b \in Nat : b = n + w - 1
  BY <1>1
<1>3. (b \div w) \in Nat /\ (b \div w) * w <= b
  BY <1>1, <1>2
<1>4. PICK d \in Nat : d = b \div w
  BY <1>3
<1>5. m = d
  BY <1>1, <1>2, <1>4
<1>6. (d - 1) * w = d * w - w /\ d * w \in Nat
  BY <1>1, <1>4
<1>7. (d - 1) * w < n
  BY <1>1, <1>2, <1>3, <1>4, <1>6
<1>8. j \in 1 .. d
  BY <1>5
<1> HIDE DEF m
<1>9. PICK k \in Nat : k = j - 1
  BY <1>8
<1>10. k * w \in Nat /\ j * w = k * w + w
  BY <1>1, <1>8, <1>9
<1>11. k * w <= (d - 1) * w
  BY <1>1, <1>8, <1>9
<1>12. PICK a \in Nat : a = k * w
  BY <1>10
<1>13. (d - 1) * w \in Int
  BY <1>1
<1>14. a < n
  BY <1>7, <1>11, <1>12, <1>13
<1>15. a = (j - 1) * Mss /\ j * Mss = a + Mss
  BY <1>1, <1>9, <1>10, <1>12
<1> QED BY <1>5, <1>14, <1>15 DEF m

(* The n bytes are those of s after the first b. *)
Following(bytes, s, b, n) == \A i \in 1 .. n : bytes[i] = <<s, b + i>>

(* A part of them is, too. *)
LEMMA PartIs ==
  ASSUME NEW s \in Socks, NEW b \in Nat, NEW n \in Nat, NEW a \in Nat, a < n,
         NEW bytes, Following(bytes, s, b, n), NEW m \in Nat, m = b + a,
         NEW e \in a + 1 .. n, NEW d, d = SubSeq(bytes, a + 1, e)
  PROVE  /\ d \in Seq(Bytes) /\ a + Len(d) <= n
         /\ Following(d, s, m, Len(d))
<1>1. e \in Nat /\ e <= n /\ a + 1 <= e
  OBVIOUS
<1>2. \A i \in 1 .. n : bytes[i] = <<s, b + i>> /\ <<s, b + i>> \in Bytes
  BY DEF Bytes, Following
<1>3. PICK f \in Nat : f = a + 1
  OBVIOUS
<1>4. PICK v \in Nat : v = e
  BY <1>1
<1>5. f <= v /\ v <= n /\ f >= 1 /\ f \in Int /\ v \in Int
  BY <1>1, <1>3, <1>4
<1>6. \A i \in f .. v : i \in 1 .. n
  BY <1>5
<1>7. \A i \in f .. v : bytes[i] \in Bytes
  BY <1>2, <1>6
<1>8. d = SubSeq(bytes, f, v)
  BY <1>3, <1>4
<1>9. f \in Int /\ v \in Int
  BY <1>5
<1>10. /\ SubSeq(bytes, f, v) \in Seq(Bytes)
       /\ Len(SubSeq(bytes, f, v)) = IF f <= v THEN v - f + 1 ELSE 0
       /\ \A i \in 1 .. v - f + 1 : SubSeq(bytes, f, v)[i] = bytes[f + i - 1]
  BY <1>7, <1>9, SubSeqProperties
<1>11. PICK l \in Nat : l = v - f + 1
  BY <1>5
<1>12. d \in Seq(Bytes)
  BY <1>8, <1>10
<1>13. Len(d) = l
  <2>1. f <= v
    BY <1>5
  <2>2. Len(d) = v - f + 1
    BY <1>8, <1>10, <2>1
  <2> QED BY <1>11, <2>2
<1>14. \A i \in 1 .. l : d[i] = bytes[f + i - 1]
  BY <1>8, <1>10, <1>11
<1>15. a + Len(d) <= n
  BY <1>3, <1>5, <1>11, <1>13
<1>16. ASSUME NEW i \in 1 .. l PROVE d[i] = <<s, m + i>>
  <2>1. f + i - 1 = a + i /\ a + i \in 1 .. n
    BY <1>3, <1>5, <1>11
  <2>2. PICK k \in 1 .. n : k = a + i
    BY <2>1
  <2>3. d[i] = bytes[k]
    BY <1>14, <2>1, <2>2
  <2>4. bytes[k] = <<s, b + k>>
    BY <1>2
  <2>5. b + k = m + i
    BY <2>2
  <2> QED BY <2>3, <2>4, <2>5
<1>17. Following(d, s, m, Len(d))
  BY <1>13, <1>16 DEF Following
<1> QED BY <1>12, <1>15, <1>17

(* The j-th segment that r of s sends of n bytes, the first of them after b others. *)
Piece(s, r, bytes, n, j) ==
  Seg(s, [r EXCEPT !.nxt = Plus(r.nxt, (j - 1) * Mss)], {"ACK"},
      SubSeq(bytes, (j - 1) * Mss + 1, IF j * Mss < n THEN j * Mss ELSE n))
Pieces(n) == (n + Mss - 1) \div Mss

LEMMA SendData ==
  ASSUME NEW o, NEW s \in Ends(o), s \in Socks, Base(o, s) \in Nat, NEW b \in Nat, NEW n \in Nat,
         NEW r \in Sockets, NEW c \in Nat, c = b + 1, r.nxt = SeqNo(o, s, c), NEW snt,
         NEW v \in Nat, v = b + n, snt[s] = v,
         NEW bytes, Following(bytes, s, b, n), NEW j \in 1 .. Pieces(n)
  PROVE  Piece(s, r, bytes, n, j) \in Segments /\ SegOK(o, snt, Piece(s, r, bytes, n, j))
<1>1. PICK a \in Nat : a = (j - 1) * Mss /\ a < n /\ j * Mss = a + Mss
  BY PartStarts DEF Pieces
<1>2. PICK e \in a + 1 .. n : e = IF a + Mss < n THEN a + Mss ELSE n
  BY <1>1, TcpSizes
<1>3. PICK d : d = SubSeq(bytes, a + 1, e)
  OBVIOUS
<1>4. PICK m \in Nat : m = b + a
  OBVIOUS
<1>5. d \in Seq(Bytes) /\ a + Len(d) <= n /\ Following(d, s, m, Len(d))
  <2>1. a < n
    BY <1>1
  <2> QED BY <1>3, <1>4, <2>1, PartIs
<1>6. PICK x : x = Plus(r.nxt, a)
  OBVIOUS
<1>7. x \in Seqs
  BY <1>1, <1>6, SocketFields, PlusIn
<1>8. PICK p : p = [r EXCEPT !.nxt = x]
  OBVIOUS
<1>9. p \in Sockets /\ p.nxt = x
  BY <1>7, <1>8 DEF Sockets
<1> DEFINE f == {"ACK"}
           g == Seg(s, p, f, d)
<1>10. Piece(s, r, bytes, n, j) = g
  BY <1>1, <1>2, <1>3, <1>6, <1>8 DEF Piece
<1>11. f \in SUBSET {"SYN", "ACK", "FIN", "RST"} /\ "SYN" \notin f
  OBVIOUS
<1> HIDE DEF f
<1>12. g \in Segments
  BY <1>5, <1>9, <1>11, SegType
<1>13. g.src = Local(s) /\ g.seq = x /\ g.data = d /\ "SYN" \notin g.flags
  BY <1>9, <1>11 DEF Seg
<1> HIDE DEF g
<1>14. PICK k \in Nat : k = Len(d)
  BY <1>5, LenProperties
<1>15. m \in 0 .. v /\ m + k <= v
  <2>1. a + k <= n /\ a < n
    BY <1>1, <1>5, <1>14
  <2> QED BY <1>4, <2>1, SMTT(30)
<1>16. g.seq = SeqNo(o, s, m + 1)
  <2>1. Plus(SeqNo(o, s, c), a) = SeqNo(o, s, c + a)
    BY SeqNoPlus
  <2>2. c + a = m + 1
    BY <1>4
  <2> QED BY <1>6, <1>13, <2>1, <2>2
<1>17. \A i \in 1 .. Len(d) : d[i] = <<s, m + i>>
  BY <1>5 DEF Following
<1>18. Carries(o, snt, g, s, m)
  BY <1>13, <1>14, <1>15, <1>16, <1>17 DEF Carries
<1>19. DataOK(o, snt, g)
  BY <1>13, <1>15, <1>18 DEF DataOK
<1>20. SynOK(o, g)
  BY <1>13 DEF SynOK
<1> QED BY <1>10, <1>12, <1>19, <1>20 DEF SegOK

(* Sending adds to the stream, and moves nothing else. *)
LEMMA SendS ==
  ASSUME RInv, SInv, RInv', NEW t \in Threads, NEW n \in {1, Mss + 1}, Send(t, n)
  PROVE  SInv'
<1>0. PICK s : s = pc[t].sock
  OBVIOUS
<1> DEFINE r == sk[s]
           bytes == [i \in 1 .. n |-> <<s, sent[s] + i>>]
           chunk(j) == SubSeq(bytes, (j - 1) * Mss + 1, IF j * Mss < n THEN j * Mss ELSE n)
           part(j) == [r EXCEPT !.nxt = Plus(r.nxt, (j - 1) * Mss)]
           m == (n + Mss - 1) \div Mss
           segs == [j \in 1 .. m |-> Seg(s, part(j), {"ACK"}, chunk(j))]
           x == Plus(r.nxt, n)
           q == [r EXCEPT !.nxt = x]
           b == sent[s]
           more == [sent EXCEPT ![s] = b + n]
<1>1. /\ pc[t].sock # None /\ r.st = "ESTABLISHED"
      /\ b + n <= load.bytes
      /\ sk' = [sk EXCEPT ![s].nxt = Plus(@, n)]
      /\ wire' = Onto(wire, segs)
      /\ sent' = more
      /\ UNCHANGED <<rx, isn, got, load>>
  BY <1>0 DEF Send, Owner
<1>2. s \in Socks /\ r \in Sockets /\ s # Lst
  BY <1>0, <1>1, ThreadHas
<1>3. n \in Nat
  BY TcpSizes
<1>4. /\ sk \in [Socks -> Sockets] /\ sent \in [Socks -> Nat] /\ got \in [Socks -> Seq(Bytes)]
      /\ wire \in [Hosts -> Seq(Segments)] /\ b \in Nat
  BY <1>2 DEF RInv, Typed
<1>5. x \in Seqs
  BY <1>2, <1>3, SocketFields, PlusIn
<1>6. /\ q.st = r.st /\ q.peer = r.peer /\ q.rx = r.rx /\ q.iss = r.iss /\ q.rcv = r.rcv
      /\ q.nxt = x
  <2> HIDE DEF r, x
  <2> QED BY <1>2 DEF Sockets
<1>7. sk' = [sk EXCEPT ![s] = q]
  <2> HIDE DEF Sockets
  <2> QED BY <1>1, <1>2, <1>4
<1> HIDE DEF q
<1>8. sk'[s] = q /\ \A u \in Socks \ {s} : sk'[u] = sk[u]
  BY <1>2, <1>4, <1>7
<1>9. more[s] = b + n /\ \A u \in Socks \ {s} : more[u] = sent[u]
  BY <1>2, <1>4
<1>10. more \in [Socks -> Nat]
  BY <1>2, <1>3, <1>4
<1> HIDE DEF more
<1>11. Made' = Made
  <2>1. \A u \in Socks : sk'[u].st = "none" <=> sk[u].st = "none"
    BY <1>6, <1>8
  <2> QED BY <2>1, MadeSame
<1>12. Numbered'
  <2>1. \A u \in Socks : sent'[u] <= load.bytes
    <3>1. \A u \in Socks : sent[u] <= load.bytes
      BY DEF SInv, Numbered
    <3> QED BY <1>1, <1>9, <3>1
  <2> QED BY <1>1, <1>11, <2>1 DEF SInv, Numbered
<1>13. Matched'
  <2>1. \A u \in Socks : sk'[u].peer = sk[u].peer
    BY <1>6, <1>8
  <2>2. \A h \in Hosts : rx[h].at = "section" => rx[h].sock \in Socks
    BY RxHas
  <2> QED BY <1>1, <2>1, <2>2 DEF SInv, Matched
<1>14. Untouched'
  <2> SUFFICES ASSUME NEW u \in Socks, Unused(u)' PROVE Silent(u)'
    BY DEF Untouched
  <2>1. Unused(u)
    BY <1>1, <1>11 DEF Unused
  <2>2. Silent(u)
    BY <2>1 DEF SInv, Untouched
  <2>3. u # s
    BY <1>1, <2>2 DEF Silent, Opening
  <2> QED BY <1>1, <1>8, <1>9, <2>2, <2>3 DEF Silent
<1>15. PICK o \in Orders(Made) : Ordered(o)
  BY DEF SInv
<1>16. Ends(o) \subseteq Socks /\ Base(o, s) \in Nat
  BY OrderFacts, Names
<1>17. s \in Ends(o)
  <2>1. s \in Kids => s \in Made
    BY <1>1 DEF Made
  <2>2. s \in Clients \/ s \in Kids
    BY <1>2 DEF Socks
  <2> QED BY <2>1, <2>2, OrderFacts
<1>18. Extends(o, sent, o, more)
  <2> SUFFICES ASSUME NEW p \in Ends(o) PROVE sent[p] \in Nat /\ more[p] \in Nat /\ sent[p] <= more[p]
    BY DEF Extends
  <2>1. p \in Socks
    BY <1>16
  <2>2. CASE p = s
    BY <1>3, <1>4, <1>9, <2>2
  <2>3. CASE p # s
    BY <1>4, <1>9, <2>1, <2>3
  <2> QED BY <2>2, <2>3
<1>19. EndOK(o, sent, got, s, r)
  BY <1>2, <1>15 DEF Ordered, EndsOK
<1>20. r.iss = SeqNo(o, s, 0) /\ r.nxt = SeqNo(o, s, b + 1)
  BY <1>1, <1>19 DEF EndOK, SendOK, Opening
<1>21. ASSUME NEW j \in 1 .. m PROVE segs[j] \in Segments /\ SegOK(o, more, segs[j])
  <2>1. segs[j] = Piece(s, r, bytes, n, j)
    BY DEF Piece
  <2>2. Following(bytes, s, b, n)
    BY DEF Following
  <2>3. j \in 1 .. Pieces(n)
    BY DEF Pieces
  <2>4. PICK c \in Nat : c = b + 1
    BY <1>4
  <2>5. PICK v \in Nat : v = b + n
    BY <1>3, <1>4
  <2> HIDE DEF segs, m, bytes, r, b
  <2>6. r.nxt = SeqNo(o, s, c) /\ more[s] = v
    BY <1>9, <1>20, <2>4, <2>5
  <2>7. Piece(s, r, bytes, n, j) \in Segments /\ SegOK(o, more, Piece(s, r, bytes, n, j))
    BY <1>2, <1>3, <1>4, <1>16, <1>17, <2>2, <2>3, <2>4, <2>5, <2>6, SendData
  <2> QED BY <2>1, <2>7
<1>22. m \in Nat
  <2>1. n \in Nat \ {0}
    BY TcpSizes
  <2>2. PICK w \in Nat \ {0} : w = Mss
    BY TcpSizes
  <2>3. PICK c \in Nat : c = n + w - 1
    BY <2>1, <2>2
  <2>4. (c \div w) \in Nat
    BY <2>2, <2>3
  <2> QED BY <2>2, <2>3, <2>4
<1>23. segs \in Seq(Segments) /\ \A i \in DOMAIN segs : SegOK(o, more, segs[i])
  <2>1. segs = [j \in 1 .. m |-> segs[j]] /\ DOMAIN segs = 1 .. m
    OBVIOUS
  <2> HIDE DEF segs, m
  <2>2. segs \in [1 .. m -> Segments]
    BY <1>21, <2>1
  <2>3. segs \in Seq(Segments)
    BY <1>22, <2>2
  <2> QED BY <1>21, <2>1, <2>3
<1> HIDE DEF segs, m, x, b
<1>24. WireOK(o)'
  <2>1. AllOK(o, more, wire)
    <3> SUFFICES ASSUME NEW h \in Hosts, NEW i \in DOMAIN wire[h] PROVE SegOK(o, more, wire[h][i])
      BY DEF AllOK
    <3>1. SegOK(o, sent, wire[h][i])
      BY <1>15 DEF Ordered, WireOK
    <3>2. wire[h][i] \in Segments
      BY <1>4, ElementOfSeq, LenProperties
    <3> QED BY <1>18, <3>1, <3>2, SegKept
  <2>2. AllOK(o, more, Onto(wire, segs))
    BY <1>4, <1>23, <2>1, OntoOK
  <2> QED BY <1>1, <2>2 DEF WireOK, AllOK
<1>25. TakenOK(o)'
  <2> SUFFICES ASSUME NEW h \in Hosts, rx'[h].at # "idle" PROVE SegOK(o, sent', rx'[h].seg)
    BY DEF TakenOK
  <2>1. rx'[h] = rx[h] /\ sent' = more
    BY <1>1
  <2>2. SegOK(o, sent, rx[h].seg) /\ rx[h].seg \in Segments
    BY <1>15, <2>1, RxHas DEF Ordered, TakenOK
  <2> QED BY <1>18, <2>1, <2>2, SegKept
<1>26. EndsOK(o)'
  <2> SUFFICES ASSUME NEW u \in Socks PROVE EndOK(o, more, got, u, sk'[u])
    BY <1>1 DEF EndsOK
  <2>1. EndOK(o, sent, got, u, sk[u])
    BY <1>15 DEF Ordered, EndsOK
  <2> DEFINE all == got[u] \o sk[u].rx
  <2>2. all \in Seq(Bytes)
    <3> DEFINE y == got[u]
               z == sk[u].rx
    <3>1. y \in Seq(Bytes) /\ z \in Seq(Bytes)
      BY <1>4, SocketFields
    <3> HIDE DEF y, z
    <3>2. y \o z \in Seq(Bytes)
      BY <3>1, ConcatProperties
    <3> QED BY <3>2 DEF y, z
  <2>3. RecvOK(o, sent, sk[u], all)
    BY <2>1 DEF EndOK
  <2> HIDE DEF all
  <2>4. RecvOK(o, more, sk[u], all)
    BY <1>18, <2>2, <2>3, RecvKept
  <2>5. CASE u # s
    <3>1. more[u] = sent[u]
      BY <1>9, <2>5
    <3>2. EndOK(o, more, got, u, sk[u])
      BY <2>1, <2>4, <3>1 DEF EndOK, all
    <3> QED BY <1>8, <2>5, <3>2
  <2>6. CASE u = s
    <3>1. SendOK(o, more[s], s, q)
      <4>1. PICK c \in Nat : c = b + 1
        BY <1>4
      <4>2. Plus(SeqNo(o, s, c), n) = SeqNo(o, s, c + n)
        BY <1>3, <1>16, SeqNoPlus
      <4>3. c + n = more[s] + 1
        BY <1>3, <1>4, <1>9, <4>1
      <4>4. q.nxt = SeqNo(o, s, more[s] + 1)
        BY <1>6, <1>20, <4>1, <4>2, <4>3 DEF x
      <4> QED BY <1>6, <1>20, <4>4 DEF SendOK
    <3>2. \A p : Reads(o, more, sk[u], all, p) => Reads(o, more, q, all, p)
      BY <1>6, <2>6 DEF Reads
    <3>3. RecvOK(o, more, q, all)
      BY <1>6, <2>4, <2>6, <3>2 DEF RecvOK
    <3>4. all = got[s] \o q.rx
      BY <1>6, <2>6 DEF all
    <3>5. s \in Clients /\ q.st # "freed" => q.peer = Lst
      BY <1>6, <2>1, <2>6 DEF EndOK
    <3>6. EndOK(o, more, got, s, q)
      BY <3>1, <3>3, <3>4, <3>5 DEF EndOK
    <3> QED BY <1>8, <2>6, <3>6
  <2> QED BY <2>5, <2>6
<1>27. Ordered(o)'
  BY <1>24, <1>25, <1>26 DEF Ordered
<1> QED BY <1>11, <1>12, <1>13, <1>14, <1>15, <1>27 DEF SInv

LEMMA InitS ==
  ASSUME Init
  PROVE  SInv
<1>1. /\ load \in Loads
      /\ isn = [h \in Hosts |-> FirstIsn]
      /\ \A h \in Hosts : wire[h] = <<>> /\ rx[h].at = "idle"
      /\ \A s \in Socks : sent[s] = 0 /\ got[s] = <<>>
  BY DEF Init, RxIdle
<1>2. \A s \in Socks : /\ sk[s].rx = <<>> /\ sk[s].st \in {"LISTEN", "CLOSED", "none"}
                       /\ s \in Clients => sk[s].peer = Lst
                       /\ s \in Kids => sk[s].st = "none"
  <2> SUFFICES ASSUME NEW s \in Socks
               PROVE  /\ sk[s].rx = <<>> /\ sk[s].st \in {"LISTEN", "CLOSED", "none"}
                      /\ s \in Clients => sk[s].peer = Lst
                      /\ s \in Kids => sk[s].st = "none"
    OBVIOUS
  <2>1. sk[s] = IF s = Lst THEN Created("LISTEN", None)
                ELSE IF s \in Clients THEN Created("CLOSED", Lst) ELSE Blank
    BY DEF Init
  <2>2. \A st, peer : /\ Created(st, peer).st = st /\ Created(st, peer).peer = peer
                      /\ Created(st, peer).rx = <<>>
    BY DEF Created, Blank
  <2>3. Blank.rx = <<>> /\ Blank.st = "none"
    BY DEF Blank
  <2> QED BY <2>1, <2>2, <2>3, Names
<1>3. Made = {} /\ Cardinality(Made) = 0
  <2>1. Made = {}
    BY <1>2, Names DEF Made
  <2> QED BY <2>1, FS_EmptySet
<1>4. Numbered
  <2>1. Wrap \in Nat \ {0} /\ FirstIsn \in Nat /\ FirstIsn < Wrap /\ IsnStep \in Nat
    BY TcpSizes DEF FirstIsn
  <2>2. FirstIsn + 0 * IsnStep = FirstIsn /\ FirstIsn % Wrap = FirstIsn
    BY <2>1, Modulo
  <2>3. isn[Lst] = FirstIsn
    BY <1>1, Names
  <2>4. load.kids \in Nat /\ load.bytes \in Nat
    BY <1>1, LoadFacts
  <2> QED BY <1>1, <1>3, <2>2, <2>3, <2>4 DEF Numbered
<1>5. Matched
  BY <1>1 DEF Matched
<1>6. Untouched
  BY <1>1, <1>2 DEF Untouched, Silent, Opening
<1> DEFINE o == [k \in {} |-> 0]
<1>7. o \in Orders(Made)
  BY <1>3 DEF Orders
<1> HIDE DEF o
<1>8. WireOK(o) /\ TakenOK(o)
  BY <1>1 DEF WireOK, TakenOK
<1>9. EndsOK(o)
  <2> SUFFICES ASSUME NEW s \in Socks PROVE EndOK(o, sent, got, s, sk[s])
    BY DEF EndsOK
  <2>1. SendOK(o, sent[s], s, sk[s])
    BY <1>2 DEF SendOK, Opening
  <2>2. got[s] \o sk[s].rx = <<>>
    <3>1. <<>> \o <<>> = <<>>
      OBVIOUS
    <3> QED BY <1>1, <1>2, <3>1
  <2>3. RecvOK(o, sent, sk[s], <<>>)
    BY <1>2 DEF RecvOK
  <2> QED BY <1>2, <2>1, <2>2, <2>3 DEF EndOK
<1> QED BY <1>4, <1>5, <1>6, <1>7, <1>8, <1>9 DEF SInv, Ordered

LEMMA NextS ==
  ASSUME SeqsApart, RInv, SInv, RInv', Next
  PROVE  SInv'
<1>1. ASSUME NEW h \in Hosts, NEW i \in 1 .. 2, NEW dup \in BOOLEAN, RxLookup(h, i, dup)
      PROVE  SInv'
  BY <1>1, LookupS
<1>2. ASSUME NEW h \in Hosts, Rx(h)
      PROVE  SInv'
  BY <1>2, RejectS, ResetS, ListenS, ChildS, BacklogS, ClosedS, SynSentS, SynReceivedS,
     NotifyS, EstablishedS, FinWaitS, RestS DEF Rx
<1>3. ASSUME NEW h \in Hosts, Lose(h)
      PROVE  SInv'
  BY <1>3, LoseS
<1>4. ASSUME NEW h \in Hosts, Tick(h)
      PROVE  SInv'
  BY <1>4, TickAgainS, GiveUpS, SpliceS DEF Tick
<1>5. ASSUME NEW s \in Socks, TickTake(s)
      PROVE  SInv'
  BY <1>5, TakeS
<1>6. ASSUME NEW x \in Doers, CloseSection(x) \/ CloseUnlink(x)
      PROVE  SInv'
  BY <1>6, CloseSectionS, UnlinkS
<1>7. ASSUME NEW t \in Clients, NEW nonblock \in BOOLEAN, Connect(t, nonblock)
      PROVE  SInv'
  BY <1>7, ConnectS
<1>8. ASSUME NEW t \in Threads, NEW n \in {1, Mss + 1}, Send(t, n)
      PROVE  SInv'
  BY <1>8, SendS
<1>9. ASSUME NEW t \in Threads, Accept(t) \/ Recv(t) \/ Shutdown(t) \/ Close(t) \/ Signal(t)
      PROVE  SInv'
  BY <1>9, AcceptS, RecvS, ShutdownS, CloseS, SignalS
<1>10. ASSUME NEW t \in Threads, Call(t)
       PROVE  SInv'
  BY <1>10, SleepS, ConnectWokenS, AcceptTryS, AcceptWokenS, RecvTryS, RecvWokenS DEF Call
<1> QED BY <1>1, <1>2, <1>3, <1>4, <1>5, <1>6, <1>7, <1>8, <1>9, <1>10 DEF Next, Doers

LEMMA StutterS ==
  ASSUME RInv, SInv, RInv', UNCHANGED vars
  PROVE  SInv'
<1>1. UNCHANGED <<sk, wire, rx, isn, sent, got, load>>
  BY DEF vars
<1>2. \A s \in Socks : Keeps(sk[s], sk'[s])
  BY <1>1, KeepsSame
<1>3. \A h \in Hosts : Onward(h)
  BY <1>1 DEF Onward
<1> QED BY <1>1, <1>2, <1>3, SilentS

LEMMA AlwaysS ==
  ASSUME SeqsApart
  PROVE  Spec => []SInv
<1>1. RInv /\ SInv /\ RInv' /\ [Next]_vars => SInv'
  BY NextS, StutterS
<1> QED BY <1>1, InitS, AlwaysR, PTL DEF Spec

LEMMA StreamFromS ==
  ASSUME RInv, SInv
  PROVE  StreamInOrder
<1> SUFFICES ASSUME NEW s \in Socks, got[s] \o sk[s].rx # <<>>
             PROVE  \E p \in Socks :
                       /\ Local(p) = sk[s].peer \/ ~Alive(s)
                       /\ Len(got[s] \o sk[s].rx) <= sent[p]
                       /\ \A i \in DOMAIN (got[s] \o sk[s].rx) : (got[s] \o sk[s].rx)[i] = <<p, i>>
  BY DEF StreamInOrder
<1> DEFINE all == got[s] \o sk[s].rx
<1>1. PICK o \in Orders(Made) : EndOK(o, sent, got, s, sk[s])
  BY DEF SInv, Ordered, EndsOK
<1>2. all \in Seq(Bytes) /\ all # <<>>
  <2> DEFINE y == got[s]
             z == sk[s].rx
  <2>1. y \in Seq(Bytes) /\ z \in Seq(Bytes)
    BY SocketFields DEF RInv, Typed
  <2> HIDE DEF y, z
  <2>2. y \o z \in Seq(Bytes)
    BY <2>1, ConcatProperties
  <2> QED BY <2>2 DEF y, z
<1>3. RecvOK(o, sent, sk[s], all)
  BY <1>1 DEF EndOK
<1> HIDE DEF all
<1>4. PICK p \in Ends(o) : Reads(o, sent, sk[s], all, p)
  BY <1>2, <1>3 DEF RecvOK
<1>5. p \in Socks
  BY OrderFacts, Names
<1>6. DOMAIN all = 1 .. Len(all)
  BY <1>2, LenProperties
<1>7. Local(p) = sk[s].peer \/ ~Alive(s)
  BY <1>4 DEF Reads, Alive
<1>8. Len(all) <= sent[p] /\ \A i \in DOMAIN all : all[i] = <<p, i>>
  BY <1>4, <1>6 DEF Reads
<1> QED BY <1>5, <1>7, <1>8 DEF all

(* As long as the sequence numbers of one machine's connections do not overlap,
   what a reader gets of tcp.c is the beginning of what one socket at the other
   end of its connection sent, in order, without gaps and repetitions; for any
   clients, children, loads, sizes of ring and segment and calls, whatever the
   wire loses, repeats or exchanges. *)
THEOREM AlwaysStreamInOrder ==
  ASSUME SeqsApart
  PROVE  Spec => []StreamInOrder
BY AlwaysR, AlwaysS, StreamFromS, PTL
=============================================================================
