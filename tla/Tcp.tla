--------------------------------- MODULE Tcp ---------------------------------
(* kernel/net/tcp.c on both ends of every connection: a server with one
   listening socket, its children and its threads, and clients, each on a
   machine of its own with one socket and one thread.

   Each section under a socket's lock or under g_tcp_lock is one step.  A
   machine receives in one context at a time (the draining flag of the network
   drivers); its timer and its threads run beside it.  The wire loses,
   duplicates and reorders as far as the load allows.  Deadlines are
   abstracted: an armed retransmission is due at any time, except while the
   receive path that armed it is still at work.  Allocation fails only when
   as many children have been made as the load allows.  A thread may come with
   a wake-up left over from an earlier call ("stale").  The address of a socket is its client, or Lst
   for the listener and its children; the n-th byte sent on s is <<s, n>>.

   Assumed of the program above: no call meets the close of its socket by
   another thread, except an accept() that holds its reference.  The code does
   not see to this.  sock_get_from_fd() takes no reference on the descriptor
   (socket.c:667-683); tcp_accept() and tcp_recv() take theirs on the socket
   only then, outside g_tcp_lock (tcp.c:489-491, 643), and tcp_connect(),
   tcp_send() and tcp_shutdown() take none, so a close by a thread that shares
   the descriptor may free the socket under them.  Nothing below speaks of those executions. *)
EXTENDS Blocking

CONSTANTS Clients, Servers,    \* client sockets, each with its thread; server threads
          Lst, Kids,           \* the listener; storage for its children
          None,
          Wrap,                \* 2^32: sequence numbers are modulo Wrap
          IsnStep,             \* 0x10000: what generate_isn() adds
          RxSize,              \* TCP_RX_BUF_SIZE
          Mss,                 \* the segment size both sides announce
          Loads                \* see load

ASSUME TcpThreads == Threads = Clients \cup Servers
ASSUME TcpFinite == IsFiniteSet(Threads) /\ IsFiniteSet(Kids)
ASSUME TcpNames == /\ Clients \cap Servers = {} /\ Clients \cap Kids = {}
                   /\ Lst \notin Threads \cup Kids
                   /\ None \notin Threads \cup Kids \cup {Lst}
ASSUME TcpSizes == {Wrap, RxSize, Mss} \subseteq Nat \ {0} /\ IsnStep \in 1 .. Wrap - 1
ASSUME TcpLoads ==
    \A l \in Loads :
        /\ l.can \in [Threads -> SUBSET {"connect", "connectNB", "send", "shutdown",
                                         "recv", "close", "accept", "closeL", "stale"}]
        /\ \A t \in Clients : l.can[t] \cap {"accept", "closeL"} = {}
        /\ l.kids \in 1 .. Cardinality(Kids)
        /\ {l.backlog, l.retries, l.lose, l.dup, l.bytes, l.signals} \subseteq Nat
        /\ {l.reorder, l.ticks} \subseteq BOOLEAN

VARIABLES
    sk,        \* tcp_sock_t of every socket
    wire,      \* the segments on their way to each machine
    rx,        \* tcp_input() on each machine
    timer,     \* the socket tcp_timer_tick() works on, and how far
    pc,        \* the call each thread is in, and the socket it has
    job,       \* what is left of a tcp_socket_close(), for a thread or the
               \* server's receive path
    sig,       \* an unblocked signal is pending
    isn,       \* g_isn_seed of each machine
    used,      \* segments lost, duplicated and signals sent so far
    sent,      \* bytes sent on each socket (history)
    got,       \* bytes its readers have got (history)
    load       \* who does what: calls per thread, backlog, children that memory
               \* lasts for, TCP_RTX_MAX_RETRIES, bounds on losses,
               \* duplicates, bytes per socket and signals, and whether the wire
               \* is slow enough for the timer to act

vars == <<sk, wire, rx, timer, pc, job, sig, isn, used, sent, got, load, park>>

Socks == Clients \cup {Lst} \cup Kids
Hosts == Clients \cup {Lst}
Local(s) == IF s \in Clients THEN s ELSE Lst

Plus(a, n) == (a + n) % Wrap
Minus(a, b) == (a + Wrap - b) % Wrap

Blank == [st |-> "none", peer |-> None, iss |-> 0, una |-> 0, nxt |-> 0, rcv |-> 0,
          rtx |-> FALSE, cnt |-> 0, rx |-> <<>>, conn |-> None, acc |-> None,
          rxw |-> None, backlog |-> <<>>, refs |-> 0, linked |-> FALSE]

(* tcp_socket_create(), and tcp_bind(): in both lists, one reference. *)
Created(st, peer) == [Blank EXCEPT !.st = st, !.peer = peer, !.refs = 1, !.linked = TRUE]

FirstIsn == Wrap - 2            \* close to the wrap-around
RxIdle == [at |-> "idle", seg |-> None, sock |-> None, kid |-> None]
TimerIdle == [at |-> "idle", sock |-> None]

Init ==
    /\ load \in Loads
    /\ sk = [s \in Socks |-> IF s = Lst THEN Created("LISTEN", None)
                             ELSE IF s \in Clients THEN Created("CLOSED", Lst) ELSE Blank]
    /\ wire = [h \in Hosts |-> <<>>]
    /\ rx = [h \in Hosts |-> RxIdle]
    /\ timer = [h \in Hosts |-> TimerIdle]
    /\ pc = [t \in Threads |-> [at |-> "user", sock |-> IF t \in Clients THEN t ELSE None]]
    /\ job = [x \in Threads \cup {Lst} |-> <<>>]
    /\ sig = [t \in Threads |-> FALSE]
    /\ isn = [h \in Hosts |-> FirstIsn]
    /\ used = [lose |-> 0, dup |-> 0, signals |-> 0]
    /\ sent = [s \in Socks |-> 0]
    /\ got = [s \in Socks |-> <<>>]
    /\ park = [t \in Threads |-> IF "stale" \in load.can[t] THEN "token" ELSE "run"]

----------------------------------------------------------------------------
(* References and segments *)

Get(r) == [r EXCEPT !.refs = @ + 1]

(* tcp_sock_put(): the last one frees; freed storage is not used again. *)
Put(r) == IF r.refs = 1 THEN [Blank EXCEPT !.st = "freed"] ELSE [r EXCEPT !.refs = @ - 1]

(* tcp_send_packet(): the segment, and the sender after it. *)
Seg(s, r, flags, data) ==
    [src |-> Local(s), dst |-> r.peer, seq |-> r.nxt, flags |-> flags, data |-> data,
     ack |-> IF "ACK" \in flags THEN r.rcv ELSE 0]
Sent(r, flags, data) ==
    [r EXCEPT !.nxt = Plus(@, IF flags \cap {"SYN", "FIN"} # {} THEN 1 ELSE Len(data))]

(* tcp_retransmit_syn() *)
Again(s, r, flags) == [Seg(s, r, flags, <<>>) EXCEPT !.seq = r.iss]

(* The segments a step sends all go to one machine. *)
Onto(w, segs) ==
    [h \in Hosts |-> IF segs # <<>> /\ Head(segs).dst = h THEN w[h] \o segs ELSE w[h]]

Someone(T) == T \ {None}

Without(q, s) == IF s \in Range(q) THEN RemoveAt(q, CHOOSE i \in DOMAIN q : q[i] = s) ELSE q
Upto(q, n) == SubSeq(q, 1, IF n < Len(q) THEN n ELSE Len(q))

(* The listener that tcp_input() and the timer look for, by port. *)
Listening == sk[Lst].linked /\ sk[Lst].st = "LISTEN"

----------------------------------------------------------------------------
(* tcp_input() *)

RxAt(h, at) == rx[h].at = at /\ (h = Lst => job[Lst] = <<>>)

(* The exact match, else the listener, else nothing. *)
Lookup(g) ==
    LET exact == {s \in Socks : /\ sk[s].linked /\ sk[s].st # "LISTEN"
                                /\ Local(s) = g.dst /\ sk[s].peer = g.src}
    IN IF exact # {} THEN exact ELSE IF g.dst = Lst /\ Listening THEN {Lst} ELSE {}

(* The answer to a segment for nobody. *)
Rst(g) == [src |-> g.dst, dst |-> g.src, data |-> <<>>,
           seq |-> IF "ACK" \in g.flags THEN g.ack ELSE 0,
           ack |-> Plus(g.seq, Len(g.data) + (IF g.flags \cap {"SYN", "FIN"} # {} THEN 1 ELSE 0)),
           flags |-> IF "ACK" \in g.flags THEN {"RST"} ELSE {"RST", "ACK"}]

(* Mutant: the socket is used without a reference of its own. *)
RxLookup_NoGet(h, i, dup) ==
    LET g    == wire[h][i]
        rest == IF dup THEN wire ELSE [wire EXCEPT ![h] = RemoveAt(@, i)]
    IN
    /\ RxAt(h, "idle")
    /\ i \in DOMAIN wire[h]
    /\ i > 1 => load.reorder
    /\ dup => used.dup < load.dup
    /\ used' = [used EXCEPT !.dup = IF dup THEN @ + 1 ELSE @]
    /\ \/ /\ Lookup(g) = {}
          /\ wire' = IF "RST" \in g.flags THEN rest ELSE Onto(rest, <<Rst(g)>>)
          /\ UNCHANGED <<sk, rx>>
       \/ \E s \in Lookup(g) :
             /\ rx' = [rx EXCEPT ![h] = [RxIdle EXCEPT !.at = "section", !.seg = g, !.sock = s]]
             /\ wire' = rest
             /\ UNCHANGED sk
    /\ UNCHANGED <<timer, pc, job, sig, isn, sent, got, load, park>>

(* A segment is taken from the wire, and with dup also left there; its socket
   is looked up and referenced under g_tcp_lock. *)
RxLookup(h, i, dup) ==
    LET g    == wire[h][i]
        rest == IF dup THEN wire ELSE [wire EXCEPT ![h] = RemoveAt(@, i)]
    IN
    /\ RxAt(h, "idle")
    /\ i \in DOMAIN wire[h]
    /\ i > 1 => load.reorder
    /\ dup => used.dup < load.dup
    /\ used' = [used EXCEPT !.dup = IF dup THEN @ + 1 ELSE @]
    /\ \/ /\ Lookup(g) = {}
          /\ wire' = IF "RST" \in g.flags THEN rest ELSE Onto(rest, <<Rst(g)>>)
          /\ UNCHANGED <<sk, rx>>
       \/ \E s \in Lookup(g) :
             /\ sk' = [sk EXCEPT ![s] = Get(@)]
             /\ rx' = [rx EXCEPT ![h] = [RxIdle EXCEPT !.at = "section", !.seg = g, !.sock = s]]
             /\ wire' = rest
    /\ UNCHANGED <<timer, pc, job, sig, isn, sent, got, load, park>>

(* The section of h is on a socket in one of these states. *)
In(h, states) == RxAt(h, "section") /\ sk[rx[h].sock].st \in states

(* It ends: the socket is r, the segments are sent, the threads in T woken,
   the reference dropped. *)
Done(h, r, segs, T) ==
    /\ sk' = [sk EXCEPT ![rx[h].sock] = Put(r)]
    /\ rx' = [rx EXCEPT ![h] = RxIdle]
    /\ wire' = Onto(wire, segs)
    /\ Unblock(Someone(T))
    /\ UNCHANGED <<timer, pc, job, sig, isn, used, sent, got, load>>

Synchronised == {"ESTABLISHED", "FIN_WAIT_1", "FIN_WAIT_2", "CLOSE_WAIT", "LAST_ACK",
                 "TIME_WAIT"}

(* Mutant: any segment of the connection will do. *)
Expected_Any(r, g) == TRUE

(* The acceptance tests of the synchronised states: the segment starts at
   rcv_nxt and acknowledges nothing that was not sent. *)
Expected(r, g) == g.seq = r.rcv
AckOK(r, g) == "ACK" \in g.flags => Minus(g.ack, r.una) <= Minus(r.nxt, r.una)
Accepts(r, g) == Expected(r, g) /\ AckOK(r, g)

(* A segment that is not: a duplicate ACK, or silence. *)
RxReject(h) ==
    LET r == sk[rx[h].sock]  g == rx[h].seg IN
    /\ In(h, Synchronised)
    /\ ~Accepts(r, g)
    /\ Done(h, r,
            IF ~Expected(r, g) /\ "RST" \notin g.flags
               /\ (g.data # <<>> \/ g.flags \cap {"SYN", "FIN"} # {})
            THEN <<Seg(rx[h].sock, r, {"ACK"}, <<>>)>> ELSE <<>>, {})

(* A reset closes the connection and wakes who waits on it. *)
RxReset(h) ==
    LET r == sk[rx[h].sock]  g == rx[h].seg IN
    /\ In(h, Synchronised)
    /\ Accepts(r, g) /\ "RST" \in g.flags
    /\ Done(h, [r EXCEPT !.st = "CLOSED", !.conn = None, !.rxw = None], <<>>, {r.conn, r.rxw})

(* A connection request that the backlog has room for: the listener's lock is
   dropped to create the child.  Anything else is ignored. *)
RxListen(h) ==
    LET r == sk[rx[h].sock]  g == rx[h].seg IN
    /\ In(h, {"LISTEN"})
    /\ IF "SYN" \in g.flags /\ g.flags \cap {"ACK", "RST"} = {} /\ Len(r.backlog) < load.backlog
         THEN /\ rx' = [rx EXCEPT ![h].at = "child"]
              /\ UNCHANGED <<sk, wire, timer, pc, job, sig, isn, used, sent, got, load, park>>
         ELSE Done(h, r, <<>>, {})

(* The child is created, entered in the lists and answers with SYN-ACK. *)
RxChild(h) ==
    LET g   == rx[h].seg
        new == [Created("SYN_RECEIVED", g.src) EXCEPT
                  !.rcv = Plus(g.seq, 1), !.iss = isn[h], !.una = isn[h], !.nxt = isn[h]]
    IN
    /\ RxAt(h, "child")
    /\ \/ /\ Cardinality({k \in Kids : sk[k].st # "none"}) = load.kids
          /\ Done(h, sk[Lst], <<>>, {})
       \/ LET k == CHOOSE j \in Kids : sk[j].st = "none" IN
             /\ Cardinality({j \in Kids : sk[j].st # "none"}) < load.kids
             /\ sk' = [sk EXCEPT ![k] = [Sent(new, {"SYN", "ACK"}, <<>>) EXCEPT !.rtx = TRUE]]
             /\ wire' = Onto(wire, <<Seg(k, new, {"SYN", "ACK"}, <<>>)>>)
             /\ isn' = [isn EXCEPT ![h] = Plus(@, IsnStep)]
             /\ rx' = [rx EXCEPT ![h].at = "backlog", ![h].kid = k]
             /\ UNCHANGED <<timer, pc, job, sig, used, sent, got, load, park>>

(* The listener may have closed or filled up meanwhile: then the child is
   closed again. *)
RxBacklog(h) ==
    LET r == sk[Lst]  k == rx[h].kid IN
    /\ RxAt(h, "backlog")
    /\ IF r.st = "LISTEN" /\ Len(r.backlog) < load.backlog
         THEN Done(h, [r EXCEPT !.backlog = Append(@, k)], <<>>, {})
         ELSE /\ job' = [job EXCEPT ![Lst] = <<<<"section", k>>>>]
              /\ rx' = [rx EXCEPT ![h].at = "closed", ![h].kid = None]
              /\ UNCHANGED <<sk, wire, timer, pc, sig, isn, used, sent, got, load, park>>

RxClosed(h) == RxAt(h, "closed") /\ Done(h, sk[Lst], <<>>, {})

(* The peer refuses, or answers our SYN and completes the handshake. *)
RxSynSent(h) ==
    LET s == rx[h].sock  r == sk[s]  g == rx[h].seg
        ours == "ACK" \in g.flags /\ g.ack = Plus(r.iss, 1)
        syn  == ours /\ "SYN" \in g.flags
        est  == [r EXCEPT !.rcv = Plus(g.seq, 1), !.una = g.ack, !.st = "ESTABLISHED",
                          !.rtx = FALSE, !.conn = None]
    IN
    /\ In(h, {"SYN_SENT"})
    /\ \/ /\ ours /\ "RST" \in g.flags
          /\ Done(h, [r EXCEPT !.st = "CLOSED", !.rtx = FALSE, !.conn = None], <<>>, {r.conn})
       \/ /\ ~ours \/ "RST" \notin g.flags
          /\ Done(h, IF syn THEN est ELSE r,
                  IF syn THEN <<Seg(s, est, {"ACK"}, <<>>)>> ELSE <<>>,
                  IF syn THEN {r.conn} ELSE {})

(* The acknowledgement of our SYN-ACK; what else the segment carries is
   dropped. *)
RxSynReceived(h) ==
    LET s == rx[h].sock  r == sk[s]  g == rx[h].seg IN
    /\ In(h, {"SYN_RECEIVED"})
    /\ IF "ACK" \in g.flags /\ g.ack = Plus(r.iss, 1) /\ g.seq = r.rcv
         THEN /\ sk' = [sk EXCEPT ![s] = [r EXCEPT !.una = g.ack, !.st = "ESTABLISHED",
                                                   !.rtx = FALSE]]
              /\ rx' = [rx EXCEPT ![h].at = "notify"]
              /\ UNCHANGED <<wire, timer, pc, job, sig, isn, used, sent, got, load, park>>
         ELSE Done(h, r, <<>>, {})

(* Mutant: the thread in accept() is not told. *)
RxNotify_Not(h) == RxAt(h, "notify") /\ Done(h, sk[rx[h].sock], <<>>, {})

(* Then, under g_tcp_lock, the thread in accept() is woken. *)
RxNotify(h) ==
    LET s == rx[h].sock  l == sk[Lst] IN
    /\ RxAt(h, "notify")
    /\ sk' = [sk EXCEPT ![s] = Put(@), ![Lst].acc = IF Listening THEN None ELSE @]
    /\ rx' = [rx EXCEPT ![h] = RxIdle]
    /\ Unblock(IF Listening THEN Someone({l.acc}) ELSE {})
    /\ UNCHANGED <<wire, timer, pc, job, sig, isn, used, sent, got, load>>

(* As much of the payload as the ring takes; rcv_nxt moves by that much. *)
Stored(r, g) ==
    LET fit == Upto(g.data, RxSize - Len(r.rx)) IN
    [r EXCEPT !.rx = @ \o fit, !.rcv = Plus(@, Len(fit))]

(* Data and then, if all of it was stored, the peer's FIN. *)
RxEstablished(h) ==
    LET s == rx[h].sock  r == sk[s]  g == rx[h].seg
        d   == Stored(r, g)
        all == d.rcv = Plus(r.rcv, Len(g.data))
        fin == "FIN" \in g.flags /\ all
        f   == IF fin THEN [d EXCEPT !.rcv = Plus(@, 1), !.st = "CLOSE_WAIT"] ELSE d
        ack(x) == <<Seg(s, x, {"ACK"}, <<>>)>>
        news == g.data # <<>> \/ fin
    IN
    /\ In(h, {"ESTABLISHED"})
    /\ Accepts(r, g) /\ "RST" \notin g.flags
    /\ Done(h, IF news THEN [f EXCEPT !.rxw = None] ELSE f,
            (IF g.data # <<>> THEN ack(d) ELSE <<>>) \o (IF fin THEN ack(f) ELSE <<>>),
            IF news THEN {r.rxw} ELSE {})

(* Our FIN is acknowledged, the peer's FIN arrives, or both; a payload is
   dropped. *)
RxFinWait(h) ==
    LET s == rx[h].sock  r == sk[s]  g == rx[h].seg
        acked == r.st = "FIN_WAIT_2" \/ ("ACK" \in g.flags /\ g.ack = r.nxt)
        over  == [r EXCEPT !.rcv = Plus(@, 1), !.st = "TIME_WAIT"]
    IN
    /\ In(h, {"FIN_WAIT_1", "FIN_WAIT_2"})
    /\ Accepts(r, g) /\ "RST" \notin g.flags
    /\ \/ /\ acked /\ "FIN" \in g.flags
          /\ Done(h, over, <<Seg(s, over, {"ACK"}, <<>>)>>, {})
       \/ /\ acked /\ "FIN" \notin g.flags
          /\ Done(h, [r EXCEPT !.st = "FIN_WAIT_2"], <<>>, {})
       \/ /\ ~acked
          /\ Done(h, r, <<>>, {})

(* LAST_ACK, and the states that do nothing with a segment. *)
RxRest(h) ==
    LET r == sk[rx[h].sock]  g == rx[h].seg IN
    /\ In(h, {"LAST_ACK", "CLOSE_WAIT", "TIME_WAIT", "CLOSED"})
    /\ r.st \in Synchronised => Accepts(r, g) /\ "RST" \notin g.flags
    /\ Done(h, IF r.st = "LAST_ACK" /\ "ACK" \in g.flags
               THEN [r EXCEPT !.st = "CLOSED"] ELSE r, <<>>, {})

(* The wire drops the segment that is next. *)
Lose(h) ==
    /\ wire[h] # <<>> /\ used.lose < load.lose
    /\ wire' = [wire EXCEPT ![h] = Tail(@)]
    /\ used' = [used EXCEPT !.lose = @ + 1]
    /\ UNCHANGED <<sk, rx, timer, pc, job, sig, isn, sent, got, load, park>>

----------------------------------------------------------------------------
(* tcp_timer_tick(): an armed socket that is due is referenced under
   g_tcp_lock.  The code takes all of them at once and then works on one after
   the other, each under its own lock; here each is taken in its turn. *)
TickTake(s) ==
    LET h == Local(s) IN
    /\ timer[h].at = "idle"
    /\ load.ticks
    /\ sk[s].linked /\ sk[s].rtx /\ rx[h].kid # s
    /\ sk' = [sk EXCEPT ![s] = Get(@)]
    /\ timer' = [timer EXCEPT ![h] = [at |-> "section", sock |-> s]]
    /\ UNCHANGED <<wire, rx, pc, job, sig, isn, used, sent, got, load, park>>

TickEnd(h, r, segs, T) ==
    /\ sk' = [sk EXCEPT ![timer[h].sock] = Put(r)]
    /\ timer' = [timer EXCEPT ![h] = TimerIdle]
    /\ wire' = Onto(wire, segs)
    /\ Unblock(Someone(T))
    /\ UNCHANGED <<rx, pc, job, sig, isn, used, sent, got, load>>

(* Under its lock the socket may no longer need anything; otherwise the SYN or
   SYN-ACK is sent again. *)
TickAgain(h) ==
    LET s == timer[h].sock  r == sk[s]  n == [r EXCEPT !.cnt = @ + 1] IN
    /\ timer[h].at = "section"
    /\ \/ /\ ~r.rtx
          /\ TickEnd(h, r, <<>>, {})
       \/ /\ r.rtx /\ r.cnt < load.retries
          /\ \/ r.st = "SYN_SENT" /\ TickEnd(h, n, <<Again(s, r, {"SYN"})>>, {})
             \/ r.st = "SYN_RECEIVED" /\ TickEnd(h, n, <<Again(s, r, {"SYN", "ACK"})>>, {})
             \/ /\ r.st \notin {"SYN_SENT", "SYN_RECEIVED"}
                /\ TickEnd(h, [n EXCEPT !.rtx = FALSE], <<>>, {})

(* Mutant: nobody is woken. *)
TickGiveUp_Quiet(h) ==
    LET s == timer[h].sock  r == sk[s]
        dead == [r EXCEPT !.st = "CLOSED", !.rtx = FALSE, !.conn = None]
    IN
    /\ timer[h].at = "section"
    /\ r.rtx /\ r.cnt >= load.retries
    /\ IF r.st = "SYN_RECEIVED"
         THEN /\ sk' = [sk EXCEPT ![s] = dead]
              /\ timer' = [timer EXCEPT ![h].at = "splice"]
              /\ UNCHANGED <<wire, rx, pc, job, sig, isn, used, sent, got, load, park>>
         ELSE TickEnd(h, dead, <<>>, {})

(* Or it is given up: a child has to leave the backlog, too. *)
TickGiveUp(h) ==
    LET s == timer[h].sock  r == sk[s]
        dead == [r EXCEPT !.st = "CLOSED", !.rtx = FALSE, !.conn = None]
    IN
    /\ timer[h].at = "section"
    /\ r.rtx /\ r.cnt >= load.retries
    /\ IF r.st = "SYN_RECEIVED"
         THEN /\ sk' = [sk EXCEPT ![s] = dead]
              /\ timer' = [timer EXCEPT ![h].at = "splice"]
              /\ Unblock(Someone({r.conn}))
              /\ UNCHANGED <<wire, rx, pc, job, sig, isn, used, sent, got, load>>
         ELSE TickEnd(h, dead, <<>>, {r.conn})

(* Mutant: the child stays in the backlog. *)
TickSplice_Keep(h) == timer[h].at = "splice" /\ TickEnd(h, sk[timer[h].sock], <<>>, {})

TickSplice(h) ==
    LET s == timer[h].sock IN
    /\ timer[h].at = "splice"
    /\ sk' = [sk EXCEPT ![s] = Put(@),
                        ![Lst].backlog = IF Listening THEN Without(@, s) ELSE @]
    /\ timer' = [timer EXCEPT ![h] = TimerIdle]
    /\ UNCHANGED <<wire, rx, pc, job, sig, isn, used, sent, got, load, park>>

----------------------------------------------------------------------------
(* tcp_socket_close(), by a thread or by the server's receive path: FIN if the
   connection is open, everyone woken, the children of a listener closed, and
   only then out of the lists. *)
Doing(x, what) == job[x] # <<>> /\ Head(job[x])[1] = what /\ (x \in Threads => Awake(x))

(* Mutant: the children of a closed listener are forgotten. *)
CloseSection_Orphans(x) ==
    LET s == Head(job[x])[2]  r == sk[s]
        open == r.st \in {"ESTABLISHED", "CLOSE_WAIT"}
        left == [r EXCEPT !.backlog = <<>>, !.conn = None, !.acc = None, !.rxw = None]
    IN
    /\ Doing(x, "section")
    /\ sk' = [sk EXCEPT ![s] =
                IF ~open THEN [left EXCEPT !.st = "CLOSED"]
                ELSE [Sent(left, {"FIN"}, <<>>) EXCEPT
                        !.st = IF r.st = "ESTABLISHED" THEN "FIN_WAIT_1" ELSE "LAST_ACK"]]
    /\ wire' = IF open THEN Onto(wire, <<Seg(s, r, {"FIN", "ACK"}, <<>>)>>) ELSE wire
    /\ Unblock(Someone({r.conn, r.acc, r.rxw}))
    /\ job' = [job EXCEPT ![x] = <<<<"unlink", s>>>> \o Tail(@)]
    /\ UNCHANGED <<rx, timer, pc, sig, isn, used, sent, got, load>>

CloseSection(x) ==
    LET s == Head(job[x])[2]  r == sk[s]
        open == r.st \in {"ESTABLISHED", "CLOSE_WAIT"}
        left == [r EXCEPT !.backlog = <<>>, !.conn = None, !.acc = None, !.rxw = None]
        orphans == r.backlog
    IN
    /\ Doing(x, "section")
    /\ sk' = [sk EXCEPT ![s] =
                IF ~open THEN [left EXCEPT !.st = "CLOSED"]
                ELSE [Sent(left, {"FIN"}, <<>>) EXCEPT
                        !.st = IF r.st = "ESTABLISHED" THEN "FIN_WAIT_1" ELSE "LAST_ACK"]]
    /\ wire' = IF open THEN Onto(wire, <<Seg(s, r, {"FIN", "ACK"}, <<>>)>>) ELSE wire
    /\ Unblock(Someone({r.conn, r.acc, r.rxw}))
    /\ job' = [job EXCEPT ![x] = [i \in DOMAIN orphans |-> <<"section", orphans[i]>>]
                                  \o <<<<"unlink", s>>>> \o Tail(@)]
    /\ UNCHANGED <<rx, timer, pc, sig, isn, used, sent, got, load>>

CloseUnlink(x) ==
    LET s == Head(job[x])[2] IN
    /\ Doing(x, "unlink")
    /\ sk' = [sk EXCEPT ![s] = Put([@ EXCEPT !.linked = FALSE])]
    /\ job' = [job EXCEPT ![x] = Tail(@)]
    /\ UNCHANGED <<wire, rx, timer, pc, sig, isn, used, sent, got, load, park>>

----------------------------------------------------------------------------
(* The calls of the threads *)

At(t, at) == pc[t].at = at /\ job[t] = <<>> /\ Awake(t)
Goto(t, at) == pc' = [pc EXCEPT ![t].at = at]
Owner(t, call) == At(t, "user") /\ call \in load.can[t] /\ pc[t].sock # None

Return(t) == Goto(t, "user") /\ sig' = [sig EXCEPT ![t] = FALSE]

(* tcp_connect(), once per socket.  It sleeps without a reference
   (tcp.c:580-595): that no other thread closes the socket meanwhile is the
   assumption of the module, and so for Send and Shutdown below. *)
Connect(t, nonblock) ==
    LET r == sk[t]
        new == [r EXCEPT !.iss = isn[t], !.una = isn[t], !.nxt = isn[t], !.st = "SYN_SENT"]
    IN
    /\ Owner(t, IF nonblock THEN "connectNB" ELSE "connect")
    /\ isn[t] = FirstIsn
    /\ isn' = [isn EXCEPT ![t] = Plus(@, IsnStep)]
    /\ sk' = [sk EXCEPT ![t] = [Sent(new, {"SYN"}, <<>>) EXCEPT
                                  !.rtx = TRUE, !.cnt = 0, !.conn = IF nonblock THEN @ ELSE t]]
    /\ wire' = Onto(wire, <<Seg(t, new, {"SYN"}, <<>>)>>)
    /\ Goto(t, IF nonblock THEN "user" ELSE "connblock")
    /\ UNCHANGED <<rx, timer, job, sig, used, sent, got, load, park>>

(* A thread that has registered sleeps. *)
Sleep(t, at, next) ==
    /\ At(t, at)
    /\ Block(t)
    /\ Goto(t, next)
    /\ UNCHANGED <<sk, wire, rx, timer, job, sig, isn, used, sent, got, load>>

Blocks(t) == Sleep(t, "connblock", "connect") \/ Sleep(t, "acceptblock", "acceptwoken")
             \/ Sleep(t, "recvblock", "recvwoken")

ConnectWoken(t) ==
    LET r == sk[t] IN
    /\ At(t, "connect")
    /\ IF sig[t] \/ r.st # "SYN_SENT"
         THEN /\ sk' = [sk EXCEPT ![t].conn = IF sig[t] /\ @ = t THEN None ELSE @]
              /\ Return(t)
         ELSE /\ sk' = [sk EXCEPT ![t].conn = t]
              /\ Goto(t, "connblock")
              /\ UNCHANGED sig
    /\ UNCHANGED <<wire, rx, timer, job, isn, used, sent, got, load, park>>

Closing(s) == \E x \in Threads \cup {Lst} : \E i \in DOMAIN job[x] : job[x][i][2] = s

(* tcp_accept() is entered with a reference, ...  The code tests the state
   without a lock and takes the reference outside g_tcp_lock (tcp.c:489-491);
   that these are one step, and that no close of the listener has begun, is the
   assumption of the module. *)
Accept(t) ==
    /\ At(t, "user") /\ "accept" \in load.can[t] /\ pc[t].sock = None
    /\ sk[Lst].st = "LISTEN" /\ ~Closing(Lst)
    /\ sk' = [sk EXCEPT ![Lst] = Get(@)]
    /\ Goto(t, "accept")
    /\ UNCHANGED <<wire, rx, timer, job, sig, isn, used, sent, got, load, park>>

Ready(k) == sk[k].st \in {"ESTABLISHED", "CLOSE_WAIT"}

(* ... takes the first child that is ready, or registers to sleep, ... *)
AcceptTry(t) ==
    LET r == sk[Lst]
        ready == {i \in DOMAIN r.backlog : Ready(r.backlog[i])}
    IN
    /\ At(t, "accept")
    /\ \/ /\ r.st # "LISTEN"
          /\ sk' = [sk EXCEPT ![Lst] = Put(@)]
          /\ Return(t)
       \/ /\ r.st = "LISTEN" /\ ready # {}
          /\ sk' = [sk EXCEPT ![Lst] = Put([r EXCEPT !.backlog = RemoveAt(@, Min(ready))])]
          /\ pc' = [pc EXCEPT ![t] = [at |-> "user", sock |-> r.backlog[Min(ready)]]]
          /\ UNCHANGED sig
       \/ /\ r.st = "LISTEN" /\ ready = {}
          /\ sk' = [sk EXCEPT ![Lst].acc = t]
          /\ Goto(t, "acceptblock")
          /\ UNCHANGED sig
    /\ UNCHANGED <<wire, rx, timer, job, isn, used, sent, got, load, park>>

AcceptWoken(t) ==
    LET r == sk[Lst] IN
    /\ At(t, "acceptwoken")
    /\ IF sig[t]
         THEN /\ sk' = [sk EXCEPT ![Lst] = Put([r EXCEPT !.acc = IF @ = t THEN None ELSE @])]
              /\ Return(t)
         ELSE Goto(t, "accept") /\ UNCHANGED <<sk, sig>>
    /\ UNCHANGED <<wire, rx, timer, job, isn, used, sent, got, load, park>>

(* tcp_send() of n bytes: one segment per Mss of them. *)
Send(t, n) ==
    LET s == pc[t].sock  r == sk[s]
        bytes == [i \in 1 .. n |-> <<s, sent[s] + i>>]
        chunk(j) == SubSeq(bytes, (j - 1) * Mss + 1, IF j * Mss < n THEN j * Mss ELSE n)
        part(j) == [r EXCEPT !.nxt = Plus(@, (j - 1) * Mss)]
    IN
    /\ Owner(t, "send")
    /\ r.st = "ESTABLISHED"
    /\ sent[s] + n <= load.bytes
    /\ wire' = Onto(wire, [j \in 1 .. (n + Mss - 1) \div Mss |-> Seg(s, part(j), {"ACK"}, chunk(j))])
    /\ sk' = [sk EXCEPT ![s].nxt = Plus(@, n)]
    /\ sent' = [sent EXCEPT ![s] = @ + n]
    /\ UNCHANGED <<rx, timer, pc, job, sig, isn, used, got, load, park>>

(* tcp_recv() on a socket that has been connected, a byte at a time. *)
Recv(t) ==
    LET s == pc[t].sock IN
    /\ Owner(t, "recv")
    /\ sk[s].st \notin {"CLOSED", "SYN_SENT"}
    /\ sk' = [sk EXCEPT ![s] = Get(@)]
    /\ Goto(t, "recv")
    /\ UNCHANGED <<wire, rx, timer, job, sig, isn, used, sent, got, load, park>>

Eof(r) == r.st \in {"CLOSE_WAIT", "CLOSED", "TIME_WAIT"}

RecvTry(t) ==
    LET s == pc[t].sock  r == sk[s] IN
    /\ At(t, "recv")
    /\ \/ /\ r.rx # <<>>
          /\ sk' = [sk EXCEPT ![s] = Put([r EXCEPT !.rx = Tail(@)])]
          /\ got' = [got EXCEPT ![s] = Append(@, Head(r.rx))]
          /\ Return(t)
       \/ /\ r.rx = <<>> /\ Eof(r)
          /\ sk' = [sk EXCEPT ![s] = Put(@)]
          /\ Return(t) /\ UNCHANGED got
       \/ /\ r.rx = <<>> /\ ~Eof(r)
          /\ sk' = [sk EXCEPT ![s].rxw = t]
          /\ Goto(t, "recvblock")
          /\ UNCHANGED <<sig, got>>
    /\ UNCHANGED <<wire, rx, timer, job, isn, used, sent, load, park>>

RecvWoken(t) ==
    LET s == pc[t].sock  r == sk[s] IN
    /\ At(t, "recvwoken")
    /\ IF sig[t]
         THEN /\ sk' = [sk EXCEPT ![s] = Put([r EXCEPT !.rxw = IF @ = t THEN None ELSE @])]
              /\ Return(t)
         ELSE Goto(t, "recv") /\ UNCHANGED <<sk, sig>>
    /\ UNCHANGED <<wire, rx, timer, job, isn, used, sent, got, load, park>>

(* tcp_shutdown(), whatever direction it is asked for. *)
Shutdown(t) ==
    LET s == pc[t].sock  r == sk[s] IN
    /\ Owner(t, "shutdown")
    /\ r.st = "ESTABLISHED"
    /\ sk' = [sk EXCEPT ![s] = [Sent(r, {"FIN"}, <<>>) EXCEPT !.st = "FIN_WAIT_1"]]
    /\ wire' = Onto(wire, <<Seg(s, r, {"FIN", "ACK"}, <<>>)>>)
    /\ UNCHANGED <<rx, timer, pc, job, sig, isn, used, sent, got, load, park>>

(* close() of the thread's own socket, or of the listener. *)
Close(t) ==
    \E s \in {pc[t].sock, Lst} :
        /\ At(t, "user")
        /\ IF s = Lst THEN "closeL" \in load.can[t] /\ sk[Lst].st = "LISTEN" /\ ~Closing(Lst)
           ELSE "close" \in load.can[t] /\ s # None
        /\ job' = [job EXCEPT ![t] = <<<<"section", s>>>>]
        /\ pc' = [pc EXCEPT ![t].sock = IF s = @ THEN None ELSE @]
        /\ UNCHANGED <<sk, wire, rx, timer, sig, isn, used, sent, got, load, park>>

Signal(t) ==
    /\ used.signals < load.signals
    /\ pc[t].at # "user" /\ ~sig[t]
    /\ used' = [used EXCEPT !.signals = @ + 1]
    /\ sig' = [sig EXCEPT ![t] = TRUE]
    /\ Poke(t)
    /\ UNCHANGED <<sk, wire, rx, timer, pc, job, isn, sent, got, load>>

----------------------------------------------------------------------------
Rx(h) == RxReject(h) \/ RxReset(h) \/ RxListen(h) \/ RxChild(h) \/ RxBacklog(h) \/ RxClosed(h)
         \/ RxSynSent(h) \/ RxSynReceived(h) \/ RxNotify(h) \/ RxEstablished(h)
         \/ RxFinWait(h) \/ RxRest(h)

Tick(h) == TickAgain(h) \/ TickGiveUp(h) \/ TickSplice(h)

Call(t) == Blocks(t) \/ ConnectWoken(t) \/ AcceptTry(t) \/ AcceptWoken(t)
           \/ RecvTry(t) \/ RecvWoken(t)

Next ==
    \/ \E h \in Hosts : \/ \E i \in 1 .. 2, dup \in BOOLEAN : RxLookup(h, i, dup)
                        \/ Rx(h) \/ Lose(h) \/ Tick(h)
    \/ \E s \in Socks : TickTake(s)
    \/ \E x \in Threads \cup {Lst} : CloseSection(x) \/ CloseUnlink(x)
    \/ \E t \in Threads :
          \/ \E nonblock \in BOOLEAN : t \in Clients /\ Connect(t, nonblock)
          \/ \E n \in {1, Mss + 1} : Send(t, n)
          \/ Accept(t) \/ Recv(t) \/ Shutdown(t) \/ Close(t) \/ Signal(t)
          \/ Call(t)

Spec == Init /\ [][Next]_vars

(* Machines receive what is on the wire and work on it; the timer runs every
   second; the threads that connect go on inside the kernel. *)
LiveSpec ==
    /\ Spec
    /\ \A h \in Hosts : WF_vars(Tick(h) \/ \E s \in Socks : Local(s) = h /\ TickTake(s))
    /\ \A c \in Clients : WF_vars(RxLookup(c, 1, FALSE) \/ Rx(c))
    /\ WF_vars(RxLookup(Lst, 1, FALSE) \/ Rx(Lst) \/ CloseSection(Lst) \/ CloseUnlink(Lst))
    /\ \A t \in Clients : WF_vars(Blocks(t) \/ ConnectWoken(t))

----------------------------------------------------------------------------
(* PROPERTIES *)

Alive(s) == sk[s].st \notin {"none", "freed"}

Occurs(q, s) == Cardinality({i \in DOMAIN q : q[i] = s})

TypeOK ==
    /\ \A s \in Socks :
        LET r == sk[s] IN
        /\ r.st \in Synchronised \cup {"none", "freed", "CLOSED", "LISTEN", "SYN_SENT", "SYN_RECEIVED"}
        /\ {r.iss, r.una, r.nxt, r.rcv} \subseteq 0 .. Wrap - 1
        /\ r.refs \in Nat /\ r.cnt \in 0 .. load.retries
        /\ Len(r.rx) <= RxSize
        /\ r.backlog \in Seq(Kids) /\ Len(r.backlog) <= load.backlog
        /\ {r.conn, r.acc, r.rxw} \subseteq Threads \cup {None}
    /\ \A h \in Hosts :
        /\ rx[h].at \in {"idle", "section", "child", "backlog", "closed", "notify"}
        /\ timer[h].at \in {"idle", "section", "splice"}
    /\ \A t \in Threads : pc[t].sock \in Socks \cup {None}
    /\ sig \in [Threads -> BOOLEAN] /\ park \in [Threads -> Phases]

(* What a reader gets is the beginning of what one socket at the other end of
   the connection sent, in order, without gaps and repetitions, whatever the
   wire loses, repeats or exchanges and however little the ring holds. *)
StreamInOrder ==
    \A s \in Socks : LET all == got[s] \o sk[s].rx IN
        all # <<>> =>
            \E p \in Socks : /\ Local(p) = sk[s].peer \/ ~Alive(s)
                             /\ Len(all) <= sent[p]
                             /\ \A i \in DOMAIN all : all[i] = <<p, i>>

(* Those who hold a reference of a socket: its place in the lists, which the
   owner's close drops, the lookups of the receive path and the timer, and the
   accept() and recv() that are inside it.  connect(), send() and shutdown()
   hold none. *)
Holders(s) ==
    (IF sk[s].linked THEN 1 ELSE 0)
    + Cardinality({h \in Hosts : rx[h].sock = s})
    + Cardinality({h \in Hosts : timer[h].sock = s})
    + Cardinality({t \in Threads : s = Lst /\ pc[t].at \in {"accept", "acceptblock", "acceptwoken"}})
    + Cardinality({t \in Threads : s = pc[t].sock /\ pc[t].at \in {"recv", "recvblock", "recvwoken"}})

(* tcp_sock_get() and tcp_sock_put() balance: every counted reference has
   exactly one holder, and the count is zero when the last has gone, whichever
   of the receive path, the timer, accept(), recv() and close() that is.  It does
   not say that a socket lives while a call without a reference uses it: see the
   assumption at the head of the module.  (With the types.) *)
RefsExact == TypeOK /\ \A s \in Socks : sk[s].refs = Holders(s)

(* The reference that close drops belongs to one place: a thread's descriptor,
   a backlog, the receive path that has just made the child, or a close under
   way.  Nothing is closed twice and nothing becomes unreachable, whichever of
   accept(), the closing of the listener, a full backlog and the timer gets
   there first; only a child that the timer gave up belongs to nobody. *)
OneOwner ==
    \A s \in Socks \ {Lst} :
        LET owners == Cardinality({t \in Threads : pc[t].sock = s})
                      + Occurs(sk[Lst].backlog, s)
                      + Cardinality({h \in Hosts : rx[h].kid = s})
                      + Cardinality({x \in Threads \cup {Lst} :
                                       \E i \in DOMAIN job[x] : job[x][i][2] = s})
            givenup == s \in Kids /\ sk[s].st = "CLOSED" /\ sk[s].una = sk[s].iss
        IN IF sk[s].linked THEN owners = 1 \/ (owners = 0 /\ givenup) ELSE owners = 0

(* A thread sleeps in accept() only while no child is ready, or the receive
   path is about to wake it; and in recv() only while there is nothing to read
   and no end of file.  (The step to TIME_WAIT wakes nobody, see the README.) *)
NobodyStranded ==
    \A t \in Threads : ~Awake(t) =>
        /\ pc[t].at = "acceptwoken" =>
             /\ sk[Lst].st = "LISTEN"
             /\ \A k \in Range(sk[Lst].backlog) :
                  Ready(k) => rx[Lst].at = "notify" /\ rx[Lst].sock = k
        /\ pc[t].at = "recvwoken" =>
             LET r == sk[pc[t].sock] IN r.rx = <<>> /\ (Eof(r) => r.st = "TIME_WAIT")

(* "A dead half-open child otherwise sits in its listener's backlog forever":
   one that is given up is on its way out. *)
DeadChildSpliced ==
    \A k \in Range(sk[Lst].backlog) :
        sk[k].st = "CLOSED" /\ sk[k].una = sk[k].iss
            => timer[Lst].at = "splice" /\ timer[Lst].sock = k

(* However many segments are lost, where the timer acts connect() returns and a half-open child
   becomes a connection or is given up. *)
HandshakesEnd ==
    []<>(load.ticks =>
         /\ \A t \in Clients : pc[t].at \notin {"connblock", "connect"}
         /\ \A k \in Kids : sk[k].st # "SYN_RECEIVED")

=============================================================================
