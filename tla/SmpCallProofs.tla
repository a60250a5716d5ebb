--------------------------- MODULE SmpCallProofs ---------------------------
(* Proofs about the cross-CPU function calls for any number of CPUs, senders,
   masks, calls and lost interrupts.

   InboxExact says which requests the pointers reach, but a step changes
   pointers in the middle of a structure of which the reached set says too
   little: that the lists are lists, each request on one of them.  So the
   invariant spells them out (Listed).  That func runs once per request is the
   same fact seen from the request (Ran), and what a sender may conclude from
   its place in smp_call_function_mask() connects the two (Calling). *)
EXTENDS SmpCall, QueueLemmas

----------------------------------------------------------------------------
(* Lists of requests *)

(* The request at p and those behind it are s, the last one first; nx are the
   next pointers. *)
Spells(nx, p, s) ==
    /\ s \in Seq(Requests) /\ IsInjective(s)
    /\ p = IF s = <<>> THEN Null ELSE s[Len(s)]
    /\ \A i \in 1 .. Len(s) : nx[s[i]] = IF i = 1 THEN Null ELSE s[i - 1]

LEMMA RequestFacts ==
  /\ \A r \in Requests : /\ r = <<r[1], r[2]>> /\ r # Null
                         /\ r[1] \in Senders /\ r[2] \in CPUs /\ r[1] # r[2]
  /\ \A c \in Senders, t \in CPUs : c # t => <<c, t>> \in Requests
  /\ Null \notin Requests
  BY NullNoRequest DEF Requests

LEMMA SpellEmpty ==
  ASSUME NEW nx PROVE Spells(nx, Null, <<>>)
<1>1. <<>> \in Seq(Requests) /\ Len(<<>>) = 0 /\ IsInjective(<<>>)
  BY DEF IsInjective
<1> QED BY <1>1 DEF Spells

(* Where a list begins and ends. *)
LEMMA SpellFacts ==
  ASSUME NEW nx, NEW p, NEW s, Spells(nx, p, s)
  PROVE  /\ p = Null <=> s = <<>>
         /\ p # Null => p \in Range(s)
         /\ Range(s) \subseteq Requests
         /\ s = <<>> <=> Range(s) = {}
<1>1. s \in Seq(Requests) /\ DOMAIN s = 1 .. Len(s) /\ Len(s) \in Nat
  BY LenProperties DEF Spells
<1>2. \A i \in 1 .. Len(s) : s[i] \in Requests
  BY <1>1, ElementOfSeq
<1>3. s # <<>> => Len(s) \in 1 .. Len(s)
  BY <1>1, EmptySeq
<1>4. s = <<>> => Range(s) = {}
  BY DEF Range
<1>5. s # <<>> => s[Len(s)] \in Range(s) /\ s[Len(s)] # Null
  BY <1>1, <1>2, <1>3, RequestFacts DEF Range
<1>6. Range(s) \subseteq Requests
  BY <1>1, <1>2 DEF Range
<1>7. p = IF s = <<>> THEN Null ELSE s[Len(s)]
  BY DEF Spells
<1> QED BY <1>4, <1>5, <1>6, <1>7

(* Only the pointers of the requests on it matter to a list. *)
LEMMA SpellSame ==
  ASSUME NEW nx, NEW ny, NEW p, NEW s, Spells(nx, p, s),
         \A r \in Range(s) : ny[r] = nx[r]
  PROVE  Spells(ny, p, s)
<1>1. DOMAIN s = 1 .. Len(s)
  BY LenProperties DEF Spells
<1> QED BY <1>1 DEF Spells, Range

(* smp_call_queue_push(): a request that points at the first is the first. *)
LEMMA SpellPush ==
  ASSUME NEW nx, NEW p, NEW s, Spells(nx, p, s), NEW r \in Requests,
         r \notin Range(s), nx[r] = p
  PROVE  /\ Spells(nx, r, Append(s, r))
         /\ Range(Append(s, r)) = Range(s) \cup {r}
<1> DEFINE u == Append(s, r)
<1>1. s \in Seq(Requests) /\ Len(s) \in Nat /\ IsInjective(s)
  BY LenProperties DEF Spells
<1>2. u \in Seq(Requests) /\ IsInjective(u) /\ Range(u) = Range(s) \cup {r}
  BY <1>1, AppendFacts
<1>3. /\ Len(u) = Len(s) + 1
      /\ \A i \in 1 .. Len(s) : u[i] = s[i]
      /\ u[Len(s) + 1] = r
      /\ u # <<>>
  BY <1>1, AppendProperties
<1>4. ASSUME NEW i \in 1 .. Len(u) PROVE nx[u[i]] = IF i = 1 THEN Null ELSE u[i - 1]
  <2>1. CASE i = Len(s) + 1
    <3>1. s = <<>> <=> Len(s) = 0
      BY <1>1, EmptySeq
    <3> QED BY <1>1, <1>3, <2>1, <3>1 DEF Spells
  <2>2. CASE i # Len(s) + 1
    <3>1. i \in 1 .. Len(s) /\ (i # 1 => i - 1 \in 1 .. Len(s))
      BY <1>1, <1>3, <2>2
    <3> QED BY <1>3, <3>1 DEF Spells
  <2> QED BY <2>1, <2>2
<1> HIDE DEF u
<1> QED BY <1>2, <1>3, <1>4 DEF Spells, u

(* The step of the drain loop to the next request. *)
LEMMA SpellPop ==
  ASSUME NEW nx, NEW p, NEW s, Spells(nx, p, s), p # Null
  PROVE  \E u \in Seq(Requests) : Spells(nx, nx[p], u) /\ Range(u) = Range(s) \ {p}
<1> DEFINE n == Len(s) - 1
           u == SubSeq(s, 1, n)
<1>1. s \in Seq(Requests) /\ Len(s) \in Nat /\ IsInjective(s) /\ DOMAIN s = 1 .. Len(s)
  BY LenProperties DEF Spells
<1>0. Len(s) \in Nat
  BY <1>1
<1>2. s # <<>> /\ p = s[Len(s)]
  BY DEF Spells
<1>3. n \in 0 .. Len(s) /\ Len(s) \in 1 .. Len(s) /\ n \in Nat
  BY <1>1, <1>2, EmptySeq
<1>4. /\ u \in Seq(Requests) /\ Len(u) = n /\ IsInjective(u)
      /\ \A i \in 1 .. n : u[i] = s[i]
  <2> HIDE DEF n
  <2> QED BY <1>1, <1>3, PrefixFacts
<1>5. DOMAIN u = 1 .. n
  BY <1>4, LenProperties
<1> HIDE DEF u
<1>6. \A i \in 1 .. Len(s) : i \in 1 .. n \/ i = Len(s)
  BY <1>0
<1>7. Range(u) = Range(s) \ {p}
  <2>1. \A i \in 1 .. n : s[i] # p
    BY <1>1, <1>2, <1>3 DEF IsInjective
  <2>2. \A i \in 1 .. n : i \in 1 .. Len(s)
    BY <1>1
  <2> QED BY <1>1, <1>2, <1>4, <1>5, <1>6, <2>1, <2>2 DEF Range
<1>8. nx[p] = IF u = <<>> THEN Null ELSE u[Len(u)]
  <2>1. u = <<>> <=> n = 0
    BY <1>4, EmptySeq
  <2>2. nx[p] = IF Len(s) = 1 THEN Null ELSE s[n]
    BY <1>2, <1>3 DEF Spells
  <2>3. n # 0 => n \in 1 .. n
    <3> HIDE DEF n
    <3> QED BY <1>3
  <2> QED BY <1>1, <1>4, <2>1, <2>2, <2>3
<1>9. \A i \in 1 .. Len(u) : nx[u[i]] = IF i = 1 THEN Null ELSE u[i - 1]
  <2>1. ASSUME NEW i \in 1 .. n PROVE i \in 1 .. Len(s) /\ (i # 1 => i - 1 \in 1 .. n)
    BY <1>1
  <2> QED BY <1>4, <2>1 DEF Spells
<1> QED BY <1>4, <1>7, <1>8, <1>9 DEF Spells

(* A set closed under the pointers that holds the first request holds all. *)
LEMMA SpellReach ==
  ASSUME NEW nx, NEW p, NEW s, Spells(nx, p, s), NEW T,
         p \in T \cup {Null}, \A r \in T : nx[r] \in T \cup {Null}
  PROVE  Range(s) \subseteq T
<1>1. s \in Seq(Requests) /\ Len(s) \in Nat /\ DOMAIN s = 1 .. Len(s)
  BY LenProperties DEF Spells
<1>2. \A i \in 1 .. Len(s) : s[i] # Null
  BY <1>1, ElementOfSeq, RequestFacts
<1> DEFINE B == {k \in Nat : k < Len(s) /\ s[Len(s) - k] \notin T}
<1>3. B = {}
  <2> SUFFICES ASSUME B # {} PROVE FALSE
    OBVIOUS
  <2>1. PICK k \in B : \A m \in B : k <= m
    <3>1. B \subseteq Nat
      OBVIOUS
    <3> HIDE DEF B
    <3> QED BY <3>1, LeastNumber
  <2>2. CASE k = 0
    <3>1. s # <<>> /\ Len(s) \in 1 .. Len(s)
      BY <1>1, <2>1, <2>2, EmptySeq
    <3> QED BY <1>1, <1>2, <2>1, <2>2, <3>1 DEF Spells
  <2>3. CASE k # 0
    <3>1. k - 1 \in Nat /\ k - 1 < Len(s) /\ ~(k <= k - 1) /\ k \in Nat /\ k < Len(s)
      BY <1>1, <2>1, <2>3
    <3>2. s[Len(s) - (k - 1)] \in T
      BY <2>1, <3>1
    <3> DEFINE i == Len(s) - (k - 1)
    <3>3. i \in 1 .. Len(s) /\ i # 1 /\ i - 1 = Len(s) - k /\ i - 1 \in 1 .. Len(s)
      BY <1>1, <3>1
    <3>4. nx[s[i]] = s[i - 1]
      BY <3>3 DEF Spells
    <3> QED BY <1>2, <2>1, <3>2, <3>3, <3>4
  <2> QED BY <2>2, <2>3
<1>4. ASSUME NEW i \in 1 .. Len(s) PROVE s[i] \in T
  <2>1. Len(s) - i \in Nat /\ Len(s) - i < Len(s) /\ Len(s) - (Len(s) - i) = i
    BY <1>1
  <2> QED BY <1>3, <2>1
<1> QED BY <1>1, <1>4 DEF Range

----------------------------------------------------------------------------
(* The inductive invariant *)

Anchors == {"inbox", "thread", "irq"}
Anchor(t, a) == IF a = "inbox" THEN head[t] ELSE list[t][a]

(* The requests for t that have been pushed and not acknowledged. *)
Open(t) == {r \in Requests : r[2] = t /\ t \in waiting[r[1]] /\ ~done[r]}

(* The inbox of t and the lists it works through are q, and hold each of the
   open requests once. *)
Lines(t, q) ==
    /\ \A a \in Anchors : Spells(next, Anchor(t, a), q[a])
    /\ \A a, b \in Anchors : a # b => Range(q[a]) \cap Range(q[b]) = {}
    /\ \A r \in Requests : r \in Open(t) <=> \E a \in Anchors : r \in Range(q[a])

Listed == \A t \in CPUs : \E q \in [Anchors -> Seq(Requests)] : Lines(t, q)

(* A context that has called func has read next before. *)
Draining ==
    \A c \in CPUs : \A x \in Contexts :
        called[c][x] => list[c][x] # Null /\ after[c][x] = next[list[c][x]]

(* t is calling func for r, or has. *)
Running(r) == \E x \in Contexts : list[r[2]][x] = r /\ called[r[2]][x]

(* func has run once for a request that is acknowledged or about to be, and
   not yet for any other. *)
Ran ==
    \A r \in Requests :
        /\ r \in Open(r[2]) => runs[r] = IF Running(r) THEN 1 ELSE 0
        /\ r[2] \in asked[r[1]] \ todo[r[1]] /\ done[r] => runs[r] = 1

(* What the place of c in smp_call_function_mask() says of its requests. *)
Calling(c) ==
    /\ c \notin Senders => pc[c] = "idle"
    /\ pc[c] = "idle" => asked[c] = {}
    /\ pc[c] \notin {"load", "push"} => todo[c] = {}
    /\ pc[c] # "check" => list[c]["thread"] = Null
    /\ asked[c] \subseteq CPUs \ {c}
    /\ todo[c] \subseteq asked[c] /\ waiting[c] \subseteq asked[c] \ todo[c]
    /\ \A t \in asked[c] \ todo[c] : t \in waiting[c] \/ done[<<c, t>>]
    /\ pc[c] = "push" => /\ target[c] \in todo[c]
                         /\ ~done[<<c, target[c]>>] /\ runs[<<c, target[c]>>] = 0

CInv == /\ TypeOK /\ load \in Loads
        /\ Listed /\ Draining /\ Ran /\ \A c \in CPUs : Calling(c)

LEMMA InitCInv == Init => CInv
<1> SUFFICES ASSUME Init PROVE CInv
  OBVIOUS
<1>1. TypeOK /\ load \in Loads
  BY DEF Init, TypeOK, Idle, Contexts
<1>2. Listed
  <2> SUFFICES ASSUME NEW t \in CPUs
               PROVE  \E q \in [Anchors -> Seq(Requests)] : Lines(t, q)
    BY DEF Listed
  <2> DEFINE q == [a \in Anchors |-> <<>>]
  <2>1. q \in [Anchors -> Seq(Requests)]
    OBVIOUS
  <2>2. \A a \in Anchors : Anchor(t, a) = Null
    BY DEF Init, Anchor, Anchors, Idle, Contexts
  <2>3. \A a \in Anchors : Spells(next, Anchor(t, a), q[a]) /\ Range(q[a]) = {}
    BY <2>2, SpellEmpty, SpellFacts
  <2>4. Open(t) = {}
    BY RequestFacts, SendersOnline DEF Init, Open
  <2> HIDE DEF q
  <2>5. Lines(t, q)
    BY <2>3, <2>4 DEF Lines
  <2> QED BY <2>1, <2>5
<1>3. Draining /\ Ran
  BY RequestFacts, SendersOnline DEF Init, Draining, Ran, Open, Idle, Contexts
<1>4. \A c \in CPUs : Calling(c)
  BY DEF Init, Calling, Idle, Contexts
<1> QED BY <1>1, <1>2, <1>3, <1>4 DEF CInv

(* What a context works on has been pushed and not acknowledged, and is not in
   the other context's list. *)
LEMMA ListOpen ==
  ASSUME CInv, NEW c \in CPUs, NEW x \in Contexts, list[c][x] # Null
  PROVE  /\ list[c][x] \in Open(c)
         /\ \A y \in Contexts : list[c][y] = list[c][x] => y = x
<1>1. PICK q \in [Anchors -> Seq(Requests)] : Lines(c, q)
  BY DEF CInv, Listed
<1>2. \A y \in Contexts : y \in Anchors /\ Spells(next, list[c][y], q[y])
  BY <1>1 DEF Lines, Anchor, Anchors, Contexts
<1>3. \A y \in Contexts : list[c][y] # Null => list[c][y] \in Range(q[y])
  BY <1>2, SpellFacts
<1>4. list[c][x] \in Requests
  BY DEF CInv, TypeOK
<1> QED BY <1>1, <1>2, <1>3, <1>4 DEF Lines

(* A request that is open is its sender's to leave alone. *)
LEMMA OpenFacts ==
  ASSUME CInv, NEW t \in CPUs, NEW r \in Open(t)
  PROVE  /\ r \in Requests /\ r[2] = t /\ ~done[r]
         /\ t \in waiting[r[1]] /\ t \in asked[r[1]] /\ t \notin todo[r[1]]
         /\ \A c \in CPUs : pc[c] = "push" => r # <<c, target[c]>>
<1>1. r \in Requests /\ r[2] = t /\ ~done[r] /\ t \in waiting[r[1]]
  BY DEF Open
<1>2. r[1] \in CPUs
  BY <1>1, RequestFacts, SendersOnline
<1>3. \A c \in CPUs : Calling(c)
  BY DEF CInv
<1>4. t \in asked[r[1]] /\ t \notin todo[r[1]]
  BY <1>1, <1>2, <1>3 DEF Calling
<1>5. \A c \in CPUs : pc[c] = "push" => target[c] \in todo[c]
  BY <1>3 DEF Calling
<1> QED BY <1>1, <1>4, <1>5

(* A list is what it was if its anchor and the pointers of the open requests
   are. *)
LEMMA LinesSame ==
  ASSUME NEW t, NEW q, Lines(t, q), \A a \in Anchors : Anchor(t, a)' = Anchor(t, a),
         Open(t)' = Open(t), \A r \in Open(t) : next'[r] = next[r]
  PROVE  Lines(t, q)'
<1>1. \A a \in Anchors : Spells(next, Anchor(t, a), q[a]) /\ Range(q[a]) \subseteq Requests
  BY SpellFacts DEF Lines
<1>2. \A a \in Anchors : \A r \in Range(q[a]) : next'[r] = next[r]
  BY <1>1 DEF Lines
<1>3. \A a \in Anchors : Spells(next', Anchor(t, a), q[a])
  BY <1>1, <1>2, SpellSame
<1> QED BY <1>3 DEF Lines

(* A step that touches neither the lists nor an open request. *)
LEMMA QuietStep ==
  ASSUME CInv, UNCHANGED <<head, list, called, after>>,
         \A t \in CPUs : Open(t)' = Open(t),
         \A t \in CPUs : \A r \in Open(t) : next'[r] = next[r] /\ runs'[r] = runs[r]
  PROVE  /\ Listed' /\ Draining'
         /\ \A r \in Requests : r \in Open(r[2])' => runs'[r] = IF Running(r)' THEN 1 ELSE 0
<1>1. Listed'
  <2> SUFFICES ASSUME NEW t \in CPUs
               PROVE  \E q \in [Anchors -> Seq(Requests)] : Lines(t, q)'
    BY DEF Listed
  <2>1. PICK q \in [Anchors -> Seq(Requests)] : Lines(t, q)
    BY DEF CInv, Listed
  <2>2. \A a \in Anchors : Anchor(t, a)' = Anchor(t, a)
    BY DEF Anchor
  <2>3. Lines(t, q)'
    BY <2>1, <2>2, LinesSame
  <2> QED BY <2>3
<1>2. Draining'
  BY ListOpen DEF CInv, Draining
<1>3. \A r \in Requests : Running(r)' = Running(r)
  BY DEF Running
<1>4. \A r \in Requests : r \in Open(r[2]) => runs[r] = IF Running(r) THEN 1 ELSE 0
  BY DEF CInv, Ran
<1>5. \A r \in Requests : r[2] \in CPUs
  BY RequestFacts
<1> QED BY <1>1, <1>2, <1>3, <1>4, <1>5

----------------------------------------------------------------------------
(* The sender *)

LEMMA CallCInv ==
  ASSUME CInv, NEW c \in CPUs, Call(c) PROVE CInv'
<1>1. PICK T \in load.masks[c], m \in BOOLEAN :
        /\ todo' = [todo EXCEPT ![c] = T]
        /\ asked' = [asked EXCEPT ![c] = T]
        /\ masked' = [masked EXCEPT ![c] = m]
  BY DEF Call
<1>2. T \subseteq CPUs \ {c}
  BY LoadsOfOthers DEF CInv, Call
<1>3. TypeOK' /\ load' \in Loads
  BY <1>1, <1>2 DEF CInv, TypeOK, Call, Goto
<1>4. \A t \in CPUs : Open(t)' = Open(t)
  BY DEF Open, Call
<1>5. /\ Listed' /\ Draining'
      /\ \A r \in Requests : r \in Open(r[2])' => runs'[r] = IF Running(r)' THEN 1 ELSE 0
  BY <1>4, QuietStep DEF Call
<1>6. Ran'
  <2>1. \A r \in Requests : r[2] \in asked'[r[1]] \ todo'[r[1]] =>
                              r[2] \in asked[r[1]] \ todo[r[1]]
    BY <1>1, RequestFacts, SendersOnline DEF CInv, TypeOK
  <2> QED BY <1>5, <2>1 DEF CInv, Ran, Call
<1>7. ASSUME NEW d \in CPUs PROVE Calling(d)'
  <2>1. Calling(d)
    BY DEF CInv
  <2>2. CASE d = c
    BY <1>1, <1>2, <2>1, <2>2 DEF CInv, TypeOK, Calling, Call, At, Goto
  <2>3. CASE d # c
    BY <1>1, <2>1, <2>3 DEF CInv, TypeOK, Calling, Call, Goto
  <2> QED BY <2>2, <2>3
<1> QED BY <1>3, <1>5, <1>6, <1>7 DEF CInv

LEMMA LoadCInv ==
  ASSUME CInv, NEW c \in CPUs, Load(c) PROVE CInv'
<1>1. PICK t \in todo[c] :
        /\ target' = [target EXCEPT ![c] = t]
        /\ next' = [next EXCEPT ![<<c, t>>] = head[t]]
        /\ done' = [done EXCEPT ![<<c, t>>] = FALSE]
        /\ runs' = [runs EXCEPT ![<<c, t>>] = 0]
  BY DEF Load
<1>2. Calling(c) /\ c \in Senders /\ t \in CPUs /\ t # c
  BY DEF CInv, Calling, Load, At
<1>3. <<c, t>> \in Requests
  BY <1>2, RequestFacts
<1>4. TypeOK' /\ load' \in Loads
  BY <1>1, <1>2, <1>3 DEF CInv, TypeOK, Load, Goto
<1>5. \A u \in CPUs : <<c, t>> \notin Open(u)
  BY <1>2 DEF Open, Calling
<1>6. \A u \in CPUs : Open(u)' = Open(u)
  <2>1. \A r \in Requests : r # <<c, t>> => done'[r] = done[r]
    BY <1>1 DEF CInv, TypeOK
  <2>2. t \notin waiting[c] /\ waiting' = waiting
    BY <1>2 DEF Calling, Load
  <2> QED BY <2>1, <2>2 DEF Open
<1>7. \A u \in CPUs : \A r \in Open(u) : next'[r] = next[r] /\ runs'[r] = runs[r]
  BY <1>1, <1>5 DEF CInv, TypeOK, Open
<1>8. /\ Listed' /\ Draining'
      /\ \A r \in Requests : r \in Open(r[2])' => runs'[r] = IF Running(r)' THEN 1 ELSE 0
  BY <1>6, <1>7, QuietStep DEF Load
<1>9. Ran'
  <2>1. \A r \in Requests : r # <<c, t>> => done'[r] = done[r] /\ runs'[r] = runs[r]
    BY <1>1 DEF CInv, TypeOK
  <2>2. ~done'[<<c, t>>]
    BY <1>1, <1>3 DEF CInv, TypeOK
  <2> QED BY <1>8, <2>1, <2>2 DEF CInv, Ran, Load
<1>10. ASSUME NEW d \in CPUs PROVE Calling(d)'
  <2>1. Calling(d)
    BY DEF CInv
  <2>2. CASE d = c
    <3>1. \A u \in CPUs \ {c} : u # t => done'[<<c, u>>] = done[<<c, u>>]
      BY <1>1, <1>2, RequestFacts DEF CInv, TypeOK
    <3> QED BY <1>1, <1>2, <1>3, <2>1, <2>2, <3>1 DEF CInv, TypeOK, Calling, Load, At, Goto
  <2>3. CASE d # c
    <3>1. \A u \in CPUs \ {d} : d \in Senders =>
             done'[<<d, u>>] = done[<<d, u>>] /\ runs'[<<d, u>>] = runs[<<d, u>>]
      BY <1>1, <2>3, RequestFacts DEF CInv, TypeOK
    <3> QED BY <1>1, <2>1, <2>3, <3>1 DEF CInv, TypeOK, Calling, Load, Goto
  <2> QED BY <2>2, <2>3
<1> QED BY <1>4, <1>8, <1>9, <1>10 DEF CInv

(* A failed compare-exchange. *)
LEMMA PushAgainCInv ==
  ASSUME CInv, NEW c \in CPUs, Push(c), head[target[c]] # next[<<c, target[c]>>]
  PROVE  CInv'
<1> DEFINE t == target[c]
           r == <<c, t>>
<1>1. /\ next' = [next EXCEPT ![r] = head[t]]
      /\ UNCHANGED <<load, calls, head, done, runs, pc, todo, target, asked, waiting, masked,
                     lost, ipi, list, after, called>>
  BY DEF Push
<1>2. pc[c] = "push" /\ Calling(c)
  BY DEF Push, At, CInv
<1>3. t \in CPUs /\ r \in Requests
  BY <1>2, RequestFacts DEF Calling
<1>4. TypeOK' /\ load' \in Loads
  BY <1>1, <1>3 DEF CInv, TypeOK
<1>5. \A u \in CPUs : Open(u)' = Open(u) /\ r \notin Open(u)
  BY <1>1, <1>2, OpenFacts DEF Open
<1>6. \A u \in CPUs : \A x \in Open(u) : next'[x] = next[x] /\ runs'[x] = runs[x]
  BY <1>1, <1>5 DEF CInv, TypeOK, Open
<1>7. /\ Listed' /\ Draining'
      /\ \A x \in Requests : x \in Open(x[2])' => runs'[x] = IF Running(x)' THEN 1 ELSE 0
  BY <1>1, <1>5, <1>6, QuietStep
<1>8. Ran' /\ \A d \in CPUs : Calling(d)'
  BY <1>1, <1>7 DEF CInv, Ran, Calling
<1> QED BY <1>4, <1>7, <1>8 DEF CInv

(* The compare-exchange succeeds. *)
LEMMA PushedCInv ==
  ASSUME CInv, NEW c \in CPUs, NEW t \in CPUs, t = target[c], Push(c),
         head[t] = next[<<c, t>>]
  PROVE  CInv'
<1> DEFINE r == <<c, t>>
<1>1. /\ head' = [head EXCEPT ![t] = r]
      /\ todo' = [todo EXCEPT ![c] = @ \ {t}]
      /\ waiting' = [waiting EXCEPT ![c] = @ \cup {t}]
      /\ pc' = [pc EXCEPT ![c] = IF todo[c] = {t} THEN "send" ELSE "load"]
      /\ UNCHANGED <<load, calls, next, done, runs, target, asked, masked, lost, ipi, list,
                     after, called>>
  BY DEF Push, Goto
<1>2. pc[c] = "push" /\ Calling(c) /\ c \in Senders
  BY DEF Push, At, CInv, Calling
<1>3. t \in CPUs /\ r \in Requests /\ t \in todo[c] /\ ~done[r] /\ runs[r] = 0
  BY <1>2, RequestFacts DEF Calling
<1>4. TypeOK' /\ load' \in Loads
  BY <1>1, <1>3 DEF CInv, TypeOK
<1>5. r \notin Open(t)
  BY <1>2, <1>3, OpenFacts
<1>6. ASSUME NEW u \in CPUs PROVE Open(u)' = IF u = t THEN Open(u) \cup {r} ELSE Open(u)
  <2>1. \A x \in Requests : x[2] \in waiting'[x[1]] <=> x = r \/ x[2] \in waiting[x[1]]
    BY <1>1, <1>3, RequestFacts, SendersOnline DEF CInv, TypeOK
  <2> QED BY <1>1, <1>3, <2>1 DEF Open
<1>7. Listed'
  <2> SUFFICES ASSUME NEW u \in CPUs
               PROVE  \E q \in [Anchors -> Seq(Requests)] : Lines(u, q)'
    BY DEF Listed
  <2>1. PICK q \in [Anchors -> Seq(Requests)] : Lines(u, q)
    BY DEF CInv, Listed
  <2>2. CASE u # t
    <3>1. \A a \in Anchors : Anchor(u, a)' = Anchor(u, a)
      BY <1>1, <2>2 DEF Anchor, CInv, TypeOK
    <3>2. Open(u)' = Open(u)
      BY <1>6, <2>2
    <3>3. Lines(u, q)'
      BY <1>1, <2>1, <3>1, <3>2, LinesSame
    <3> QED BY <3>3
  <2>3. CASE u = t
    <3> DEFINE w == [q EXCEPT !["inbox"] = Append(q["inbox"], r)]
    <3>1. "inbox" \in Anchors /\ \A a \in Anchors : r \notin Range(q[a])
      BY <1>3, <1>5, <2>1, <2>3 DEF Lines, Anchors
    <3>2. Spells(next, next[r], q["inbox"])
      BY <2>1, <2>3, <3>1 DEF Lines, Anchor
    <3>3. /\ Spells(next, r, Append(q["inbox"], r))
          /\ Range(Append(q["inbox"], r)) = Range(q["inbox"]) \cup {r}
      <4>1. r \in Requests /\ r \notin Range(q["inbox"])
        BY <1>3, <3>1
      <4> HIDE DEF r
      <4> QED BY <3>2, <4>1, SpellPush
    <3>4. Append(q["inbox"], r) \in Seq(Requests)
      BY <3>3 DEF Spells
    <3>5. w \in [Anchors -> Seq(Requests)]
      BY <3>4
    <3>6. /\ w["inbox"] = Append(q["inbox"], r)
          /\ \A a \in Anchors : a # "inbox" => w[a] = q[a]
      BY <3>1
    <3> HIDE DEF w
    <3>7. \A a \in Anchors :
            /\ Anchor(t, a)' = IF a = "inbox" THEN r ELSE Anchor(t, a)
            /\ Range(w[a]) = IF a = "inbox" THEN Range(q[a]) \cup {r} ELSE Range(q[a])
      BY <1>1, <1>3, <3>3, <3>6 DEF Anchor, CInv, TypeOK
    <3>8. /\ \A a \in Anchors : Spells(next, Anchor(t, a), q[a])
          /\ \A a, b \in Anchors : a # b => Range(q[a]) \cap Range(q[b]) = {}
          /\ \A x \in Requests : x \in Open(t) <=> \E a \in Anchors : x \in Range(q[a])
      BY <2>1, <2>3 DEF Lines
    <3>9. Open(t)' = Open(t) \cup {r}
      BY <1>3, <1>6
    <3> HIDE DEF r
    <3>10. \A a \in Anchors : Spells(next, Anchor(t, a)', w[a])
      BY <3>3, <3>6, <3>7, <3>8
    <3>11. ASSUME NEW a \in Anchors, NEW b \in Anchors, a # b
           PROVE  Range(w[a]) \cap Range(w[b]) = {}
      <4>1. Range(q[a]) \cap Range(q[b]) = {}
        BY <3>8, <3>11
      <4>2. r \notin Range(q[a]) /\ r \notin Range(q[b])
        BY <3>1
      <4> QED BY <3>7, <3>11, <4>1, <4>2
    <3>12. \A x \in Requests : x \in Open(t)' <=> \E a \in Anchors : x \in Range(w[a])
      BY <3>1, <3>7, <3>8, <3>9
    <3>13. Lines(t, w)'
      BY <1>1, <3>10, <3>11, <3>12 DEF Lines
    <3> QED BY <2>3, <3>5, <3>13
  <2> QED BY <2>2, <2>3
<1>8. Draining'
  BY <1>1 DEF CInv, Draining
<1>9. Ran'
  <2>1. \A x \in Requests : Running(x)' = Running(x)
    BY <1>1 DEF Running
  <2>2. ~Running(r)
    BY <1>3, <1>5, ListOpen, RequestFacts DEF Running
  <2>3. ASSUME NEW x \in Requests, x \in Open(x[2])'
        PROVE  runs'[x] = IF Running(x)' THEN 1 ELSE 0
    <3>1. CASE x = r
      BY <1>1, <1>3, <2>1, <2>2, <3>1
    <3>2. CASE x # r
      BY <1>1, <1>6, <2>1, <2>3, <3>2, RequestFacts DEF CInv, Ran
    <3> QED BY <3>1, <3>2
  <2>4. ASSUME NEW x \in Requests, x[2] \in asked'[x[1]] \ todo'[x[1]] /\ done'[x]
        PROVE  runs'[x] = 1
    <3>1. x # r
      BY <1>1, <1>3, <2>4
    <3>2. x[2] \in asked[x[1]] \ todo[x[1]]
      BY <1>1, <2>4, <3>1, RequestFacts, SendersOnline DEF CInv, TypeOK
    <3> QED BY <1>1, <2>4, <3>2 DEF CInv, Ran
  <2> QED BY <2>3, <2>4 DEF Ran
<1>10. ASSUME NEW d \in CPUs PROVE Calling(d)'
  <2>1. Calling(d)
    BY DEF CInv
  <2>2. CASE d = c
    BY <1>1, <1>2, <1>3, <2>1, <2>2 DEF CInv, TypeOK, Calling
  <2>3. CASE d # c
    BY <1>1, <2>1, <2>3 DEF CInv, TypeOK, Calling
  <2> QED BY <2>2, <2>3
<1> QED BY <1>4, <1>7, <1>8, <1>9, <1>10 DEF CInv

LEMMA SendCInv ==
  ASSUME CInv, NEW c \in CPUs, Send(c) PROVE CInv'
<1>1. /\ pc' = [pc EXCEPT ![c] = "drain"] /\ ipi' \in [CPUs -> BOOLEAN]
      /\ UNCHANGED <<load, calls, head, next, done, runs, todo, target, asked, waiting, masked,
                     list, after, called>>
  BY DEF Send, Goto, SendIpi, CInv, TypeOK
<1>2. TypeOK' /\ load' \in Loads
  BY <1>1 DEF CInv, TypeOK
<1>3. \A u \in CPUs : Open(u)' = Open(u)
  BY <1>1 DEF Open
<1>4. /\ Listed' /\ Draining'
      /\ \A r \in Requests : r \in Open(r[2])' => runs'[r] = IF Running(r)' THEN 1 ELSE 0
  BY <1>1, <1>3, QuietStep
<1>5. Ran'
  BY <1>1, <1>4 DEF CInv, Ran
<1>6. ASSUME NEW d \in CPUs PROVE Calling(d)'
  <2>1. Calling(d) /\ Calling(c) /\ pc[c] = "send"
    BY DEF CInv, Send, At
  <2> QED BY <1>1, <2>1 DEF CInv, TypeOK, Calling
<1> QED BY <1>2, <1>4, <1>5, <1>6 DEF CInv

LEMMA WaitCheckCInv ==
  ASSUME CInv, NEW c \in CPUs, WaitCheck(c) PROVE CInv'
<1>1. /\ waiting' = [waiting EXCEPT ![c] = {t \in waiting[c] : ~done[<<c, t>>]}]
      /\ pc' = [pc EXCEPT ![c] = "drain"] /\ ipi' \in [CPUs -> BOOLEAN]
      /\ pc[c] = "check" /\ list[c]["thread"] = Null
      /\ UNCHANGED <<load, calls, head, next, done, runs, todo, target, asked, masked, list,
                     after, called>>
  BY DEF WaitCheck, Goto, At, SendIpi, CInv, TypeOK
<1>2. TypeOK' /\ load' \in Loads
  BY <1>1 DEF CInv, TypeOK
<1>3. ASSUME NEW u \in CPUs PROVE Open(u)' = Open(u)
  <2>1. \A r \in Requests : ~done[r] => (r[2] \in waiting'[r[1]] <=> r[2] \in waiting[r[1]])
    BY <1>1, RequestFacts, SendersOnline DEF CInv, TypeOK
  <2> QED BY <1>1, <2>1 DEF Open
<1>4. /\ Listed' /\ Draining'
      /\ \A r \in Requests : r \in Open(r[2])' => runs'[r] = IF Running(r)' THEN 1 ELSE 0
  BY <1>1, <1>3, QuietStep
<1>5. Ran'
  BY <1>1, <1>4 DEF CInv, Ran
<1>6. ASSUME NEW d \in CPUs PROVE Calling(d)'
  <2>1. Calling(d)
    BY DEF CInv
  <2> QED BY <1>1, <2>1 DEF CInv, TypeOK, Calling
<1> QED BY <1>2, <1>4, <1>5, <1>6 DEF CInv

(* All requests of the call are acknowledged, so no list holds one of them when
   the frame goes. *)
LEMMA ReturnCInv ==
  ASSUME CInv, NEW c \in CPUs, Return(c) PROVE CInv'
<1>1. /\ next' = [r \in Requests |-> IF r[1] = c THEN Null ELSE next[r]]
      /\ done' = [r \in Requests |-> IF r[1] = c THEN FALSE ELSE done[r]]
      /\ runs' = [r \in Requests |-> IF r[1] = c THEN 0 ELSE runs[r]]
      /\ target' = [target EXCEPT ![c] = c]
      /\ asked' = [asked EXCEPT ![c] = {}]
      /\ waiting' = [waiting EXCEPT ![c] = {}]
      /\ masked' = [masked EXCEPT ![c] = FALSE]
      /\ pc' = [pc EXCEPT ![c] = "idle"]
      /\ pc[c] = "check" /\ list[c]["thread"] = Null
      /\ \A t \in waiting[c] : done[<<c, t>>]
      /\ UNCHANGED <<load, calls, head, todo, lost, ipi, list, after, called>>
  BY DEF Return, Goto, At
<1>2. TypeOK' /\ load' \in Loads
  <2>0. /\ next \in [Requests -> Requests \cup {Null}]
        /\ done \in [Requests -> BOOLEAN] /\ runs \in [Requests -> 0 .. 1]
    BY DEF CInv, TypeOK
  <2>1. next' \in [Requests -> Requests \cup {Null}]
    BY <1>1, <2>0
  <2>3. done' \in [Requests -> BOOLEAN]
    BY <1>1, <2>0
  <2>4. runs' \in [Requests -> 0 .. 1]
    BY <1>1, <2>0
  <2>2. /\ target' \in [CPUs -> CPUs] /\ masked' \in [CPUs -> BOOLEAN]
        /\ asked' \in [CPUs -> SUBSET CPUs] /\ waiting' \in [CPUs -> SUBSET CPUs]
        /\ pc' \in [CPUs -> {"idle", "load", "push", "send", "drain", "check"}]
    BY <1>1 DEF CInv, TypeOK
  <2> QED BY <1>1, <2>1, <2>2, <2>3, <2>4 DEF CInv, TypeOK
<1>3. ASSUME NEW u \in CPUs PROVE \A r \in Open(u) : r[1] # c
  BY <1>1, RequestFacts DEF Open
<1>4. ASSUME NEW u \in CPUs PROVE Open(u)' = Open(u)
  <2>1. \A r \in Requests : r[1] = c => r[2] \notin waiting'[r[1]]
    BY <1>1 DEF CInv, TypeOK
  <2>2. \A r \in Requests : r[1] # c => waiting'[r[1]] = waiting[r[1]] /\ done'[r] = done[r]
    BY <1>1 DEF CInv, TypeOK
  <2> QED BY <1>3, <2>1, <2>2 DEF Open
<1>5. \A u \in CPUs : \A r \in Open(u) : next'[r] = next[r] /\ runs'[r] = runs[r]
  BY <1>1, <1>3 DEF Open
<1>6. /\ Listed' /\ Draining'
      /\ \A r \in Requests : r \in Open(r[2])' => runs'[r] = IF Running(r)' THEN 1 ELSE 0
  BY <1>1, <1>4, <1>5, QuietStep
<1>7. Ran'
  <2>1. ASSUME NEW x \in Requests, x[2] \in asked'[x[1]] \ todo'[x[1]] /\ done'[x]
        PROVE  runs'[x] = 1
    <3>1. x[1] # c
      BY <1>1, <2>1
    <3>2. asked'[x[1]] = asked[x[1]] /\ runs'[x] = runs[x] /\ done[x]
      BY <1>1, <2>1, <3>1 DEF CInv, TypeOK
    <3> QED BY <1>1, <2>1, <3>2 DEF CInv, Ran
  <2> QED BY <1>6, <2>1 DEF Ran
<1>8. ASSUME NEW d \in CPUs PROVE Calling(d)'
  <2>1. Calling(d)
    BY DEF CInv
  <2>2. CASE d = c
    BY <1>1, <2>1, <2>2 DEF CInv, TypeOK, Calling
  <2>3. CASE d # c
    <3>1. \A t \in CPUs \ {d} : d \in Senders =>
             done'[<<d, t>>] = done[<<d, t>>] /\ runs'[<<d, t>>] = runs[<<d, t>>]
      BY <1>1, <2>3, RequestFacts
    <3>2. /\ asked'[d] = asked[d] /\ waiting'[d] = waiting[d] /\ pc'[d] = pc[d]
          /\ target'[d] = target[d]
      BY <1>1, <2>3 DEF CInv, TypeOK
    <3>3. pc[d] = "push" => d \in Senders /\ target[d] \in CPUs \ {d}
      BY <2>1 DEF Calling
    <3>4. \A t \in asked[d] : d \in Senders /\ t \in CPUs \ {d}
      BY <2>1 DEF Calling
    <3> QED BY <1>1, <2>1, <3>1, <3>2, <3>3, <3>4 DEF Calling
  <2> QED BY <2>2, <2>3
<1> QED BY <1>2, <1>6, <1>7, <1>8 DEF CInv

----------------------------------------------------------------------------
(* The target *)

(* The exchange moves the whole inbox to a context that works on nothing. *)
LEMMA TakeStep ==
  ASSUME CInv, NEW c \in CPUs, NEW x \in Contexts, Take(c, x), list[c][x] = Null,
         UNCHANGED <<next, done, runs, todo, asked, waiting, after, called>>
  PROVE  /\ Listed' /\ Draining' /\ Ran'
         /\ head' \in [CPUs -> Requests \cup {Null}]
         /\ list' \in [CPUs -> [Contexts -> Requests \cup {Null}]]
         /\ \A d \in CPUs : \A y \in Contexts :
               list'[d][y] = IF d = c /\ y = x THEN head[c] ELSE list[d][y]
<1>0. /\ head \in [CPUs -> Requests \cup {Null}]
      /\ list \in [CPUs -> [Contexts -> Requests \cup {Null}]]
  BY DEF CInv, TypeOK
<1>1. /\ head' \in [CPUs -> Requests \cup {Null}]
      /\ list' \in [CPUs -> [Contexts -> Requests \cup {Null}]]
      /\ \A d \in CPUs : head'[d] = IF d = c THEN Null ELSE head[d]
      /\ \A d \in CPUs : \A y \in Contexts :
            list'[d][y] = IF d = c /\ y = x THEN head[c] ELSE list[d][y]
  BY <1>0 DEF Take
<1>2. \A u \in CPUs : Open(u)' = Open(u)
  BY DEF Open
<1>3. Listed'
  <2> SUFFICES ASSUME NEW u \in CPUs
               PROVE  \E q \in [Anchors -> Seq(Requests)] : Lines(u, q)'
    BY DEF Listed
  <2>1. PICK q \in [Anchors -> Seq(Requests)] : Lines(u, q)
    BY DEF CInv, Listed
  <2>2. CASE u # c
    <3>1. \A a \in Anchors : Anchor(u, a)' = Anchor(u, a)
      BY <1>1, <2>2 DEF Anchor, Anchors, Contexts
    <3>2. Lines(u, q)'
      BY <1>2, <2>1, <3>1, LinesSame
    <3> QED BY <3>2
  <2>3. CASE u = c
    <3> DEFINE w == [a \in Anchors |-> IF a = "inbox" THEN <<>>
                                       ELSE IF a = x THEN q["inbox"] ELSE q[a]]
    <3>1. "inbox" \in Anchors /\ x \in Anchors /\ x # "inbox"
      BY DEF Anchors, Contexts
    <3>2. <<>> \in Seq(Requests)
      OBVIOUS
    <3>3. w \in [Anchors -> Seq(Requests)]
      BY <3>1, <3>2
    <3>4. /\ w["inbox"] = <<>> /\ w[x] = q["inbox"]
          /\ \A a \in Anchors : a # "inbox" /\ a # x => w[a] = q[a]
      BY <3>1
    <3> HIDE DEF w
    <3>5. \A a \in Anchors : Anchor(c, a)' = IF a = "inbox" THEN Null
                               ELSE IF a = x THEN Anchor(c, "inbox") ELSE Anchor(c, a)
      BY <1>1 DEF Anchor, Anchors, Contexts
    <3>6. /\ \A a \in Anchors : Spells(next, Anchor(c, a), q[a])
          /\ \A a, b \in Anchors : a # b => Range(q[a]) \cap Range(q[b]) = {}
          /\ \A r \in Requests : r \in Open(c) <=> \E a \in Anchors : r \in Range(q[a])
      BY <2>1, <2>3 DEF Lines
    <3>7. Spells(next, Null, <<>>) /\ Range(<<>>) = {}
      BY SpellEmpty, SpellFacts
    <3>8. Range(q[x]) = {}
      <4>1. Anchor(c, x) = Null
        BY <3>1 DEF Anchor
      <4> QED BY <3>1, <3>6, <4>1, SpellFacts
    <3>9. \A a \in Anchors : Spells(next, Anchor(c, a)', w[a])
      BY <3>1, <3>4, <3>5, <3>6, <3>7
    <3>10. \A a \in Anchors : Range(w[a]) = IF a = "inbox" THEN {}
                               ELSE IF a = x THEN Range(q["inbox"]) ELSE Range(q[a])
      BY <3>4, <3>7
    <3>11. \A a, b \in Anchors : a # b => Range(w[a]) \cap Range(w[b]) = {}
      BY <3>1, <3>6, <3>10
    <3>12. \A r \in Requests : r \in Open(c)' <=> \E a \in Anchors : r \in Range(w[a])
      <4> SUFFICES ASSUME NEW r \in Requests
                   PROVE  r \in Open(c)' <=> \E a \in Anchors : r \in Range(w[a])
        OBVIOUS
      <4>1. (\E a \in Anchors : r \in Range(w[a])) <=> \E a \in Anchors : r \in Range(q[a])
        BY <3>1, <3>8, <3>10
      <4>2. r \in Open(c) <=> \E a \in Anchors : r \in Range(q[a])
        BY <3>6
      <4>3. Open(c)' = Open(c)
        BY <1>2
      <4> QED BY <4>1, <4>2, <4>3
    <3>13. Lines(c, w)'
      BY <3>9, <3>11, <3>12 DEF Lines
    <3> QED BY <2>3, <3>3, <3>13
  <2> QED BY <2>2, <2>3
<1>4. ~called[c][x]
  BY DEF CInv, Draining
<1>5. Draining'
  <2>1. \A d \in CPUs : \A y \in Contexts : called[d][y] => list'[d][y] = list[d][y]
    BY <1>1, <1>4
  <2> QED BY <2>1 DEF CInv, Draining
<1>6. Ran'
  <2>1. \A r \in Requests : Running(r)' = Running(r)
    BY <1>1, <1>4, RequestFacts DEF Running
  <2>2. \A r \in Requests : Open(r[2])' = Open(r[2])
    BY <1>2, RequestFacts
  <2> QED BY <2>1, <2>2 DEF CInv, Ran
<1> QED BY <1>1, <1>3, <1>5, <1>6

LEMMA WaitDrainCInv ==
  ASSUME CInv, NEW c \in CPUs, WaitDrain(c) PROVE CInv'
<1>1. /\ Take(c, "thread") /\ pc' = [pc EXCEPT ![c] = "check"] /\ pc[c] = "drain"
      /\ UNCHANGED <<load, calls, next, done, runs, todo, target, asked, waiting, masked, lost,
                     ipi, after, called>>
  BY DEF WaitDrain, Goto, At
<1>2. "thread" \in Contexts /\ list[c]["thread"] = Null
  BY <1>1 DEF CInv, Calling, Contexts
<1>3. /\ Listed' /\ Draining' /\ Ran'
      /\ head' \in [CPUs -> Requests \cup {Null}]
      /\ list' \in [CPUs -> [Contexts -> Requests \cup {Null}]]
      /\ \A d \in CPUs : \A y \in Contexts :
            list'[d][y] = IF d = c /\ y = "thread" THEN head[c] ELSE list[d][y]
  BY <1>1, <1>2, TakeStep
<1>4. TypeOK' /\ load' \in Loads
  BY <1>1, <1>3 DEF CInv, TypeOK
<1>5. ASSUME NEW d \in CPUs PROVE Calling(d)'
  <2>1. Calling(d)
    BY DEF CInv
  <2>2. CASE d = c
    BY <1>1, <2>1, <2>2 DEF CInv, TypeOK, Calling
  <2>3. CASE d # c
    BY <1>1, <1>2, <1>3, <2>1, <2>3 DEF CInv, TypeOK, Calling
  <2> QED BY <2>2, <2>3
<1> QED BY <1>3, <1>4, <1>5 DEF CInv

LEMMA InterruptCInv ==
  ASSUME CInv, NEW c \in CPUs, Interrupt(c) PROVE CInv'
<1>1. /\ Take(c, "irq") /\ ipi' = [ipi EXCEPT ![c] = FALSE] /\ list[c]["irq"] = Null
      /\ UNCHANGED <<load, calls, next, done, runs, pc, todo, target, asked, waiting, masked,
                     lost, after, called>>
  BY DEF Interrupt
<1>2. "irq" \in Contexts /\ "thread" \in Contexts
  BY DEF Contexts
<1>3. /\ Listed' /\ Draining' /\ Ran'
      /\ head' \in [CPUs -> Requests \cup {Null}]
      /\ list' \in [CPUs -> [Contexts -> Requests \cup {Null}]]
      /\ \A d \in CPUs : \A y \in Contexts :
            list'[d][y] = IF d = c /\ y = "irq" THEN head[c] ELSE list[d][y]
  BY <1>1, <1>2, TakeStep
<1>4. TypeOK' /\ load' \in Loads
  BY <1>1, <1>3 DEF CInv, TypeOK
<1>5. \A d \in CPUs : Calling(d)'
  BY <1>1, <1>2, <1>3 DEF CInv, Calling
<1> QED BY <1>3, <1>4, <1>5 DEF CInv

(* func is called for a request for which it has not been called. *)
LEMMA DrainCallCInv ==
  ASSUME CInv, NEW c \in CPUs, NEW x \in Contexts, DrainCall(c, x) PROVE CInv'
<1> DEFINE r == list[c][x]
<1>1. /\ r # Null /\ ~called[c][x]
      /\ after' = [after EXCEPT ![c][x] = next[r]]
      /\ called' = [called EXCEPT ![c][x] = TRUE]
      /\ runs' = [runs EXCEPT ![r] = @ + 1]
      /\ UNCHANGED <<load, calls, head, next, done, pc, todo, target, asked, waiting, masked,
                     lost, ipi, list>>
  BY DEF DrainCall
<1>2. r \in Open(c) /\ \A y \in Contexts : list[c][y] = r => y = x
  BY <1>1, ListOpen
<1>3. /\ r \in Requests /\ r[2] = c /\ ~done[r]
      /\ \A d \in CPUs : pc[d] = "push" => r # <<d, target[d]>>
  <2> HIDE DEF r
  <2> QED BY <1>2, OpenFacts
<1>4. ~Running(r)
  BY <1>1, <1>2, <1>3 DEF Running
<1>5. runs[r] = 0 /\ runs'[r] = 1 /\ \A s \in Requests : s # r => runs'[s] = runs[s]
  <2>1. runs[r] = 0
    BY <1>2, <1>3, <1>4 DEF CInv, Ran
  <2> QED BY <1>1, <1>3, <2>1 DEF CInv, TypeOK
<1>6. TypeOK' /\ load' \in Loads
  <2>1. runs' \in [Requests -> 0 .. 1]
    <3>1. runs \in [Requests -> 0 .. 1]
      BY DEF CInv, TypeOK
    <3> HIDE DEF r
    <3> QED BY <1>1, <1>3, <1>5, <3>1
  <2>2. /\ after' \in [CPUs -> [Contexts -> Requests \cup {Null}]]
        /\ called' \in [CPUs -> [Contexts -> BOOLEAN]]
    BY <1>1, <1>3 DEF CInv, TypeOK
  <2> QED BY <1>1, <2>1, <2>2 DEF CInv, TypeOK
<1>7. \A u \in CPUs : Open(u)' = Open(u)
  BY <1>1 DEF Open
<1>8. Listed'
  <2> SUFFICES ASSUME NEW u \in CPUs
               PROVE  \E q \in [Anchors -> Seq(Requests)] : Lines(u, q)'
    BY DEF Listed
  <2>1. PICK q \in [Anchors -> Seq(Requests)] : Lines(u, q)
    BY DEF CInv, Listed
  <2>2. \A a \in Anchors : Anchor(u, a)' = Anchor(u, a)
    BY <1>1 DEF Anchor
  <2>3. Lines(u, q)'
    BY <1>1, <1>7, <2>1, <2>2, LinesSame
  <2> QED BY <2>3
<1>9. /\ called'[c][x] /\ after'[c][x] = next[r]
      /\ \A d \in CPUs : \A y \in Contexts :
            d # c \/ y # x => called'[d][y] = called[d][y] /\ after'[d][y] = after[d][y]
  <2> HIDE DEF r
  <2> QED BY <1>1 DEF CInv, TypeOK
<1>10. Draining'
  <2> SUFFICES ASSUME NEW d \in CPUs, NEW y \in Contexts, called'[d][y]
               PROVE  list'[d][y] # Null /\ after'[d][y] = next'[list'[d][y]]
    BY DEF Draining
  <2>1. CASE d = c /\ y = x
    BY <1>1, <1>9, <2>1
  <2>2. CASE d # c \/ y # x
    <3>1. called[d][y] /\ after'[d][y] = after[d][y]
      BY <1>9, <2>2
    <3> QED BY <1>1, <3>1 DEF CInv, Draining
  <2> QED BY <2>1, <2>2
<1>11. Ran'
  <2>1. Running(r)'
    BY <1>1, <1>3, <1>9 DEF Running
  <2>2. \A s \in Requests : s # r => Running(s)' = Running(s)
    BY <1>1, <1>9, RequestFacts DEF Running
  <2>3. \A s \in Requests : Open(s[2])' = Open(s[2])
    BY <1>7, RequestFacts
  <2> QED BY <1>1, <1>3, <1>5, <2>1, <2>2, <2>3 DEF CInv, Ran
<1>12. ASSUME NEW d \in CPUs PROVE Calling(d)'
  <2>1. Calling(d)
    BY DEF CInv
  <2>2. pc[d] = "push" => runs'[<<d, target[d]>>] = runs[<<d, target[d]>>]
    <3>1. pc[d] = "push" => <<d, target[d]>> \in Requests
      BY <2>1, RequestFacts DEF Calling
    <3> QED BY <1>3, <1>5, <3>1
  <2> QED BY <1>1, <2>1, <2>2 DEF Calling
<1> QED BY <1>6, <1>8, <1>10, <1>11, <1>12 DEF CInv

(* The request is acknowledged and the context goes on to the one behind it. *)
LEMMA DrainAckCInv ==
  ASSUME CInv, NEW c \in CPUs, NEW x \in Contexts, DrainAck(c, x) PROVE CInv'
<1> DEFINE r == list[c][x]
<1>1. /\ r # Null /\ called[c][x]
      /\ done' = [done EXCEPT ![r] = TRUE]
      /\ list' = [list EXCEPT ![c][x] = after[c][x]]
      /\ called' = [called EXCEPT ![c][x] = FALSE]
      /\ after' = [after EXCEPT ![c][x] = Null]
      /\ UNCHANGED <<load, calls, head, next, runs, pc, todo, target, asked, waiting, masked,
                     lost, ipi>>
  BY DEF DrainAck
<1>2. r \in Open(c) /\ after[c][x] = next[r]
  BY <1>1, ListOpen DEF CInv, Draining
<1>3. /\ r \in Requests /\ r[2] = c /\ ~done[r]
      /\ \A d \in CPUs : pc[d] = "push" => r # <<d, target[d]>>
  <2> HIDE DEF r
  <2> QED BY <1>2, OpenFacts
<1>4. Running(r) /\ runs[r] = 1
  <2>1. Running(r)
    BY <1>1, <1>3 DEF Running
  <2> QED BY <1>2, <1>3, <2>1 DEF CInv, Ran
<1>5. /\ list'[c][x] = next[r] /\ ~called'[c][x] /\ done'[r]
      /\ \A d \in CPUs : \A y \in Contexts : d # c \/ y # x =>
            /\ list'[d][y] = list[d][y] /\ called'[d][y] = called[d][y]
            /\ after'[d][y] = after[d][y]
      /\ \A s \in Requests : s # r => done'[s] = done[s]
  <2> HIDE DEF r
  <2> QED BY <1>1, <1>2, <1>3 DEF CInv, TypeOK
<1>6. TypeOK' /\ load' \in Loads
  <2> HIDE DEF r
  <2>1. done' \in [Requests -> BOOLEAN]
    BY <1>1 DEF CInv, TypeOK
  <2>2. list' \in [CPUs -> [Contexts -> Requests \cup {Null}]]
    BY <1>1 DEF CInv, TypeOK
  <2>3. after' \in [CPUs -> [Contexts -> Requests \cup {Null}]]
    BY <1>1 DEF CInv, TypeOK
  <2>4. called' \in [CPUs -> [Contexts -> BOOLEAN]]
    BY <1>1 DEF CInv, TypeOK
  <2> QED BY <1>1, <2>1, <2>2, <2>3, <2>4 DEF CInv, TypeOK
<1>7. ASSUME NEW u \in CPUs, NEW s \in Requests
      PROVE  s \in Open(u)' <=> s \in Open(u) /\ s # r
  BY <1>1, <1>5 DEF Open
<1>8. Listed'
  <2> SUFFICES ASSUME NEW u \in CPUs
               PROVE  \E q \in [Anchors -> Seq(Requests)] : Lines(u, q)'
    BY DEF Listed
  <2>1. PICK q \in [Anchors -> Seq(Requests)] : Lines(u, q)
    BY DEF CInv, Listed
  <2>2. CASE u # c
    <3>1. \A a \in Anchors : Anchor(u, a)' = Anchor(u, a)
      BY <1>1, <1>5, <2>2 DEF Anchor, Anchors, Contexts
    <3>2. Open(u)' = Open(u)
      <4>1. Open(u)' \subseteq Requests /\ Open(u) \subseteq Requests /\ r \notin Open(u)
        BY <1>3, <2>2 DEF Open
      <4> QED BY <1>7, <4>1
    <3>3. Lines(u, q)'
      BY <1>1, <2>1, <3>1, <3>2, LinesSame
    <3> QED BY <3>3
  <2>3. CASE u = c
    <3>1. x \in Anchors /\ x # "inbox"
      BY DEF Anchors, Contexts
    <3>2. /\ \A a \in Anchors : Spells(next, Anchor(c, a), q[a])
          /\ \A a, b \in Anchors : a # b => Range(q[a]) \cap Range(q[b]) = {}
          /\ \A s \in Requests : s \in Open(c) <=> \E a \in Anchors : s \in Range(q[a])
      BY <2>1, <2>3 DEF Lines
    <3>3. Anchor(c, x) = r
      BY <3>1 DEF Anchor
    <3>4. Spells(next, r, q[x])
      BY <3>1, <3>2, <3>3
    <3>5. PICK v \in Seq(Requests) : Spells(next, next[r], v) /\ Range(v) = Range(q[x]) \ {r}
      <4> HIDE DEF r
      <4> QED BY <1>1, <3>4, SpellPop
    <3>6. r \in Range(q[x])
      <4> HIDE DEF r
      <4> QED BY <1>1, <3>4, SpellFacts
    <3> DEFINE w == [q EXCEPT ![x] = v]
    <3>7. w \in [Anchors -> Seq(Requests)]
      OBVIOUS
    <3>8. w[x] = v /\ \A a \in Anchors : a # x => w[a] = q[a]
      BY <3>1
    <3> HIDE DEF w
    <3>9. \A a \in Anchors :
            /\ Anchor(c, a)' = IF a = x THEN next[r] ELSE Anchor(c, a)
            /\ Range(w[a]) = IF a = x THEN Range(q[a]) \ {r} ELSE Range(q[a])
      <4>1. \A a \in Anchors : Anchor(c, a)' = IF a = x THEN next[r] ELSE Anchor(c, a)
        BY <1>1, <1>5, <3>1 DEF Anchor, Anchors, Contexts
      <4>2. \A a \in Anchors : Range(w[a]) = IF a = x THEN Range(q[a]) \ {r} ELSE Range(q[a])
        BY <3>5, <3>8
      <4> QED BY <4>1, <4>2
    <3>10. ASSUME NEW a \in Anchors PROVE Spells(next, Anchor(c, a)', w[a])
      <4> HIDE DEF r
      <4>1. CASE a = x
        <5>1. Anchor(c, a)' = next[r] /\ w[a] = v
          BY <3>8, <3>9, <4>1
        <5> QED BY <3>5, <5>1
      <4>2. CASE a # x
        <5>1. Anchor(c, a)' = Anchor(c, a) /\ w[a] = q[a]
          BY <3>8, <3>9, <4>2
        <5> QED BY <3>2, <5>1
      <4> QED BY <4>1, <4>2
    <3>11. \A a, b \in Anchors : a # b => Range(w[a]) \cap Range(w[b]) = {}
      BY <3>2, <3>9
    <3>12. ASSUME NEW s \in Requests
           PROVE  s \in Open(c)' <=> \E a \in Anchors : s \in Range(w[a])
      <4>1. s \in Open(c)' <=> s \in Open(c) /\ s # r
        BY <1>7
      <4>2. s \in Open(c) <=> \E a \in Anchors : s \in Range(q[a])
        BY <3>2
      <4>3. CASE s = r
        <5>1. \A a \in Anchors : a # x => r \notin Range(q[a])
          BY <3>1, <3>2, <3>6
        <5> QED BY <3>9, <4>1, <4>3, <5>1
      <4>4. CASE s # r
        BY <3>9, <4>1, <4>2, <4>4
      <4> QED BY <4>3, <4>4
    <3>13. Lines(c, w)'
      BY <1>1, <3>10, <3>11, <3>12 DEF Lines
    <3> QED BY <2>3, <3>7, <3>13
  <2> QED BY <2>2, <2>3
<1>9. Draining'
  <2> SUFFICES ASSUME NEW d \in CPUs, NEW y \in Contexts, called'[d][y]
               PROVE  list'[d][y] # Null /\ after'[d][y] = next'[list'[d][y]]
    BY DEF Draining
  <2>1. d # c \/ y # x
    BY <1>5
  <2> QED BY <1>1, <1>5, <2>1 DEF CInv, Draining
<1>10. Ran'
  <2>1. \A s \in Requests : s # r => Running(s)' = Running(s)
    BY <1>1, <1>5, RequestFacts DEF Running
  <2>2. ASSUME NEW s \in Requests, s \in Open(s[2])'
        PROVE  runs'[s] = IF Running(s)' THEN 1 ELSE 0
    <3>1. s \in Open(s[2]) /\ s # r
      BY <1>7, <2>2, RequestFacts
    <3> QED BY <1>1, <2>1, <3>1 DEF CInv, Ran
  <2>3. ASSUME NEW s \in Requests, s[2] \in asked'[s[1]] \ todo'[s[1]] /\ done'[s]
        PROVE  runs'[s] = 1
    <3>1. CASE s = r
      BY <1>1, <1>4, <3>1
    <3>2. CASE s # r
      BY <1>1, <1>5, <2>3, <3>2 DEF CInv, Ran
    <3> QED BY <3>1, <3>2
  <2> QED BY <2>2, <2>3 DEF Ran
<1>11. ASSUME NEW d \in CPUs PROVE Calling(d)'
  <2>1. Calling(d)
    BY DEF CInv
  <2>2. pc[d] = "push" => ~done'[<<d, target[d]>>]
    <3>1. pc[d] = "push" => <<d, target[d]>> \in Requests
      BY <2>1, RequestFacts DEF Calling
    <3> QED BY <1>3, <1>5, <2>1, <3>1 DEF Calling
  <2>3. \A t \in asked[d] : done[<<d, t>>] => done'[<<d, t>>]
    <3>1. \A t \in asked[d] : <<d, t>> \in Requests
      BY <2>1, RequestFacts DEF Calling
    <3> QED BY <1>5, <3>1
  <2>4. pc[d] # "check" => list'[d]["thread"] = Null
    <3>1. "thread" \in Contexts
      BY DEF Contexts
    <3>2. pc[d] # "check" => d # c \/ x # "thread"
      BY <1>1, <2>1 DEF Calling
    <3> QED BY <1>5, <2>1, <3>1, <3>2 DEF Calling
  <2> QED BY <1>1, <2>1, <2>2, <2>3, <2>4 DEF Calling
<1> QED BY <1>6, <1>8, <1>9, <1>10, <1>11 DEF CInv

----------------------------------------------------------------------------
(* The theorems *)

LEMMA NextCInv == CInv /\ [Next]_vars => CInv'
<1> SUFFICES ASSUME CInv, [Next]_vars PROVE CInv'
  OBVIOUS
<1>1. CASE UNCHANGED vars
  <2>1. \A t \in CPUs : Open(t)' = Open(t)
    BY <1>1 DEF Open, vars
  <2>2. /\ Listed' /\ Draining'
        /\ \A r \in Requests : r \in Open(r[2])' => runs'[r] = IF Running(r)' THEN 1 ELSE 0
    BY <1>1, <2>1, QuietStep DEF vars
  <2> QED BY <1>1, <2>2 DEF vars, CInv, TypeOK, Ran, Calling
<1>2. CASE Next
  <2>1. PICK c \in CPUs : Call(c) \/ Thread(c) \/ Interrupt(c) \/ Drain(c)
    BY <1>2 DEF Next
  <2>2. CASE Call(c)
    BY <2>2, CallCInv
  <2>3. CASE Load(c)
    BY <2>3, LoadCInv
  <2>4. CASE Push(c)
    <3>1. target[c] \in CPUs
      BY DEF CInv, TypeOK
    <3> QED BY <2>4, <3>1, PushedCInv, PushAgainCInv
  <2>5. CASE Send(c)
    BY <2>5, SendCInv
  <2>6. CASE WaitDrain(c)
    BY <2>6, WaitDrainCInv
  <2>7. CASE WaitCheck(c)
    BY <2>7, WaitCheckCInv
  <2>8. CASE Return(c)
    BY <2>8, ReturnCInv
  <2>9. CASE Interrupt(c)
    BY <2>9, InterruptCInv
  <2>10. CASE Drain(c)
    BY <2>10, DrainCallCInv, DrainAckCInv DEF Drain
  <2> QED BY <2>1, <2>2, <2>3, <2>4, <2>5, <2>6, <2>7, <2>8, <2>9, <2>10 DEF Thread
<1> QED BY <1>1, <1>2

LEMMA Invariant == Spec => []CInv
  BY InitCInv, NextCInv, PTL DEF Spec

(* For any number of CPUs and senders, what the inbox of a CPU and the lists
   its drains work through hold are the requests pushed on it by
   smp_call_queue_push() and not acknowledged, so none is lost and no pointer
   into the frame of a call that has returned is left. *)
THEOREM InboxesExact == Spec => []InboxExact
<1>1. ASSUME CInv, NEW t \in CPUs
      PROVE  Chain({head[t], list[t]["thread"], list[t]["irq"]}) = Open(t)
  <2> DEFINE S == {head[t], list[t]["thread"], list[t]["irq"]}
  <2>1. PICK q \in [Anchors -> Seq(Requests)] : Lines(t, q)
    BY <1>1 DEF CInv, Listed
  <2>2. /\ \A a \in Anchors : Anchor(t, a) \in S
        /\ \A p \in S : \E a \in Anchors : p = Anchor(t, a)
    BY DEF Anchors, Anchor
  <2> HIDE DEF S
  <2>3. \A a \in Anchors : Spells(next, Anchor(t, a), q[a]) /\ Range(q[a]) \subseteq Open(t)
    BY <2>1, SpellFacts DEF Lines
  <2>4. Open(t) \subseteq Requests
    BY DEF Open
  <2>5. S \ {Null} \subseteq Open(t)
    BY <2>2, <2>3, SpellFacts
  <2>6. Closed(Open(t))
    <3> SUFFICES ASSUME NEW r \in Open(t) PROVE next[r] \in Open(t) \cup {Null}
      BY DEF Closed
    <3>1. PICK a \in Anchors : r \in Range(q[a])
      BY <2>1, <2>4 DEF Lines
    <3>2. q[a] \in Seq(Requests) /\ DOMAIN q[a] = 1 .. Len(q[a]) /\ Len(q[a]) \in Nat
      BY LenProperties
    <3>3. PICK i \in 1 .. Len(q[a]) : q[a][i] = r
      BY <3>1, <3>2 DEF Range
    <3>4. next[r] = IF i = 1 THEN Null ELSE q[a][i - 1]
      BY <2>3, <3>3 DEF Spells
    <3>5. i # 1 => i - 1 \in 1 .. Len(q[a])
      BY <3>2, <3>3
    <3>6. i # 1 => q[a][i - 1] \in Range(q[a])
      BY <3>2, <3>5 DEF Range
    <3> QED BY <2>3, <3>4, <3>6
  <2>7. ASSUME NEW T \in SUBSET Requests, S \ {Null} \subseteq T, Closed(T)
        PROVE  Open(t) \subseteq T
    <3>1. \A a \in Anchors : Anchor(t, a) \in T \cup {Null}
      BY <2>2, <2>7
    <3>2. \A r \in T : next[r] \in T \cup {Null}
      BY <2>7 DEF Closed
    <3>3. \A a \in Anchors : Range(q[a]) \subseteq T
      BY <2>3, <3>1, <3>2, SpellReach
    <3> QED BY <2>1, <2>4, <3>3 DEF Lines
  <2>8. Chain(S) = Open(t)
    BY <2>4, <2>5, <2>6, <2>7 DEF Chain
  <2> QED BY <2>8 DEF S
<1>2. ASSUME CInv, NEW t \in CPUs
      PROVE  Open(t) = {<<c, t>> : c \in {d \in Senders : t \in waiting[d] /\ ~done[<<d, t>>]}}
  <2>1. \A d \in Senders : t \in waiting[d] => <<d, t>> \in Requests
    BY <1>2, SendersOnline, RequestFacts DEF CInv, Calling
  <2> DEFINE D == {d \in Senders : t \in waiting[d] /\ ~done[<<d, t>>]}
  <2>2. ASSUME NEW r \in Open(t) PROVE r[1] \in D /\ r = <<r[1], t>>
    <3>1. r \in Requests /\ r[2] = t /\ t \in waiting[r[1]] /\ ~done[r]
      BY DEF Open
    <3>2. r = <<r[1], t>> /\ r[1] \in Senders
      BY <3>1, RequestFacts
    <3> QED BY <3>1, <3>2
  <2>3. ASSUME NEW c \in D PROVE <<c, t>> \in Open(t)
    BY <2>1 DEF Open
  <2> HIDE DEF D
  <2>4. Open(t) = {<<c, t>> : c \in D}
    BY <2>2, <2>3
  <2> QED BY <2>4 DEF D
<1>3. CInv => InboxExact
  BY <1>1, <1>2 DEF CInv, InboxExact
<1> QED BY <1>3, Invariant, PTL

(* For any number of CPUs and senders, smp_call_function_mask() returns when
   func has run exactly once on each CPU of the mask. *)
THEOREM RunsOnceEach == Spec => OnceEach
<1>1. CInv /\ [Next]_vars =>
        [\A c \in CPUs : pc[c] # "idle" /\ pc'[c] = "idle"
                          => \A t \in asked[c] : runs[<<c, t>>] = 1]_vars
  <2> SUFFICES ASSUME CInv, Next, NEW c \in CPUs, pc[c] # "idle", pc'[c] = "idle",
                      NEW t \in asked[c]
               PROVE  runs[<<c, t>>] = 1
    BY DEF CInv
  <2>1. PICK d \in CPUs : Call(d) \/ Thread(d) \/ Interrupt(d) \/ Drain(d)
    BY DEF Next
  <2>2. Return(c)
    <3>1. ~Return(d) => \E l \in {"load", "push", "send", "drain", "check"} :
                          pc' = pc \/ pc' = [pc EXCEPT ![d] = l]
      BY <2>1 DEF Call, Thread, Load, Push, Send, WaitDrain, WaitCheck, Interrupt, Drain,
         DrainCall, DrainAck, Goto
    <3>2. Return(d)
      BY <3>1 DEF CInv, TypeOK
    <3>3. d = c
      BY <3>2 DEF CInv, TypeOK, Return, Goto
    <3> QED BY <3>2, <3>3
  <2>3. Calling(c) /\ c \in Senders
    BY DEF CInv, Calling
  <2>4. <<c, t>> \in Requests /\ t \notin todo[c] /\ done[<<c, t>>]
    BY <2>2, <2>3, RequestFacts DEF Calling, Return, At
  <2> QED BY <2>4 DEF CInv, Ran
<1> QED BY <1>1, Invariant, PTL DEF Spec, OnceEach
============================================================================
