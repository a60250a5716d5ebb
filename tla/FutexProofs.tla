---------------------------- MODULE FutexProofs ----------------------------
(* Proofs about the futexes for any number of threads, words, hash buckets
   and bits, every hash function and every load.

   EntriesFindable is nearly inductive: a walk keeps the order and unlinks
   only what it matched.  SleeperWakeable speaks of parked threads, but who
   is about to sleep depends on the same fact, so it is stated of everyone
   between publication and return whose flag is not set (Linked).  StoreSeen
   rests on both: a word that is woken dry has no waiter left whose flag is
   not set, because such a waiter is linked in the word's bucket (Seen).

   A walk along a bucket is a recursive function.  What it computes is shown
   by induction in the form of the least number at which a claim fails. *)
EXTENDS Futex, QueueLemmas

----------------------------------------------------------------------------
(* What the walk along a bucket computes *)

(* g is the walk along the first n entries of q. *)
IsWalk(g, q, S, n) ==
    g = [i \in 0 .. n |-> IF i = 0 THEN <<>>
                          ELSE IF q[i] \in S THEN Append(g[i - 1], q[i])
                          ELSE g[i - 1]]

LEMMA WalkExists ==
  ASSUME NEW q, NEW S, NEW n \in Nat
  PROVE  \E g : IsWalk(g, q, S, n)
<1> DEFINE T == {m \in Nat : ~\E g : IsWalk(g, q, S, m)}
<1> SUFFICES ASSUME T # {} PROVE FALSE
  OBVIOUS
<1>1. PICK m \in T : \A k \in T : m <= k
  <2> T \subseteq Nat
    OBVIOUS
  <2> HIDE DEF T
  <2> QED BY LeastNumber
<1>2. CASE m = 0
  <2> DEFINE h == [i \in 0 .. 0 |-> <<>>]
  <2>1. IsWalk(h, q, S, 0)
    BY DEF IsWalk
  <2> QED BY <1>1, <1>2, <2>1
<1>3. CASE m # 0
  <2>1. m \in Nat /\ m - 1 \in Nat /\ ~(m <= m - 1)
    BY <1>3
  <2>2. m - 1 \notin T
    BY <1>1, <2>1
  <2>3. PICK g : IsWalk(g, q, S, m - 1)
    BY <2>1, <2>2
  <2> DEFINE h == [i \in 0 .. m |-> IF i = 0 THEN <<>>
                                    ELSE IF q[i] \in S THEN Append(g[i - 1], q[i])
                                    ELSE g[i - 1]]
  <2>4. \A i \in 0 .. (m - 1) :
          g[i] = IF i = 0 THEN <<>>
                 ELSE IF q[i] \in S THEN Append(g[i - 1], q[i]) ELSE g[i - 1]
    BY <2>3 DEF IsWalk
  <2>5. \A i \in 0 .. (m - 1) : h[i] = g[i]
    BY <2>1, <2>4
  <2>6. \A i \in 0 .. m : h[i] = IF i = 0 THEN <<>>
                                 ELSE IF q[i] \in S THEN Append(h[i - 1], q[i])
                                 ELSE h[i - 1]
    <3> SUFFICES ASSUME NEW i \in 0 .. m, i # 0 PROVE h[i - 1] = g[i - 1]
      OBVIOUS
    <3>1. i - 1 \in 0 .. (m - 1)
      BY <2>1
    <3> QED BY <2>5, <3>1
  <2>7. h = [i \in 0 .. m |-> IF i = 0 THEN <<>>
                              ELSE IF q[i] \in S THEN Append(h[i - 1], q[i])
                              ELSE h[i - 1]]
    BY <2>6
  <2>8. \E g1 : IsWalk(g1, q, S, m)
    BY <2>7 DEF IsWalk
  <2> QED BY <1>1, <2>8
<1> QED BY <1>2, <1>3

(* What is left of a list once the walk along it is over. *)
LEMMA KeptFacts ==
  ASSUME NEW E, NEW q \in Seq(E), NEW S
  PROVE  /\ Kept(q, S) \in Seq(E)
         /\ Range(Kept(q, S)) = Range(q) \cap S
         /\ IsInjective(q) => IsInjective(Kept(q, S))
<1>0. Len(q) \in Nat /\ DOMAIN q = 1 .. Len(q) /\ \A i \in 1 .. Len(q) : q[i] \in E
  BY LenProperties, ElementOfSeq
<1> DEFINE f == CHOOSE g : g = [i \in 0 .. Len(q) |-> IF i = 0 THEN <<>>
                                ELSE IF q[i] \in S THEN Append(g[i - 1], q[i])
                                ELSE g[i - 1]]
<1>1. Kept(q, S) = f[Len(q)]
  BY Zenon DEF Kept
<1>2. \E g : g = [i \in 0 .. Len(q) |-> IF i = 0 THEN <<>>
                                ELSE IF q[i] \in S THEN Append(g[i - 1], q[i])
                                ELSE g[i - 1]]
  <2>1. PICK g : IsWalk(g, q, S, Len(q))
    BY <1>0, WalkExists
  <2> QED BY <2>1, Zenon DEF IsWalk
<1>3. f = [i \in 0 .. Len(q) |-> IF i = 0 THEN <<>>
                                ELSE IF q[i] \in S THEN Append(f[i - 1], q[i])
                                ELSE f[i - 1]]
  BY <1>2, Zenon
<1> HIDE DEF f
<1>4. /\ f[0] = <<>>
      /\ \A i \in 1 .. Len(q) : f[i] = IF q[i] \in S THEN Append(f[i - 1], q[i])
                                       ELSE f[i - 1]
  <2>1. \A i \in 0 .. Len(q) :
          f[i] = IF i = 0 THEN <<>>
                 ELSE IF q[i] \in S THEN Append(f[i - 1], q[i]) ELSE f[i - 1]
    BY <1>3
  <2>2. 0 \in 0 .. Len(q) /\ \A i \in 1 .. Len(q) : i \in 0 .. Len(q) /\ i # 0
    BY <1>0
  <2> QED BY <2>1, <2>2
<1> DEFINE Past(i) == {q[j] : j \in 1 .. i} \cap S
           OK(i) == /\ f[i] \in Seq(E)
                    /\ Range(f[i]) = Past(i)
                    /\ IsInjective(q) => IsInjective(f[i])
           T == {i \in 0 .. Len(q) : ~OK(i)}
<1>5. OK(0)
  <2>1. Past(0) = {}
    OBVIOUS
  <2>2. <<>> \in Seq(E) /\ Range(<<>>) = {} /\ IsInjective(<<>>)
    BY EmptySeq DEF Range, IsInjective
  <2> QED BY <1>4, <2>1, <2>2
<1>6. ASSUME NEW i \in 1 .. Len(q), OK(i - 1) PROVE OK(i)
  <2>1. i - 1 \in Nat /\ i \in Nat /\ i <= Len(q) /\ 1 .. i = (1 .. (i - 1)) \cup {i} /\ q[i] \in E
    BY <1>0
  <2>2. Past(i) = Past(i - 1) \cup ({q[i]} \cap S)
    BY <2>1
  <2>3. CASE q[i] \in S
    <3>1. f[i] = Append(f[i - 1], q[i])
      BY <1>4, <2>3
    <3>2. f[i] \in Seq(E) /\ Range(f[i]) = Range(f[i - 1]) \cup {q[i]}
      BY <1>6, <2>1, <3>1, AppendFacts
    <3>3. ASSUME IsInjective(q) PROVE IsInjective(f[i])
      <4>1. q[i] \notin Past(i - 1)
        BY <1>0, <2>1, <3>3 DEF IsInjective
      <4> QED BY <1>6, <2>1, <3>1, <3>3, <4>1, AppendFacts
    <3> QED BY <1>6, <2>2, <2>3, <3>2, <3>3
  <2>4. CASE q[i] \notin S
    <3>1. f[i] = f[i - 1]
      BY <1>4, <2>4
    <3>2. Past(i) = Past(i - 1)
      BY <2>2, <2>4
    <3> QED BY <1>6, <3>1, <3>2
  <2> QED BY <2>3, <2>4
<1>7. T = {}
  <2> SUFFICES ASSUME T # {} PROVE FALSE
    OBVIOUS
  <2>1. T \subseteq Nat
    BY <1>0
  <2>2. PICK m \in T : \A k \in T : m <= k
    <3> HIDE DEF T
    <3> QED BY <2>1, LeastNumber
  <2>3. m \in 0 .. Len(q) /\ ~OK(m)
    BY <2>2
  <2> HIDE DEF OK
  <2>4. m # 0
    BY <2>3, <1>5
  <2>5. m \in 1 .. Len(q) /\ m - 1 \in 0 .. Len(q) /\ ~(m <= m - 1)
    BY <1>0, <2>3, <2>4
  <2>6. OK(m - 1)
    BY <2>2, <2>5
  <2> QED BY <1>6, <2>3, <2>5, <2>6
<1>8. OK(Len(q))
  <2> HIDE DEF OK
  <2>1. Len(q) \in 0 .. Len(q)
    BY <1>0
  <2> QED BY <1>7, <2>1
<1>9. Past(Len(q)) = Range(q) \cap S
  BY <1>0 DEF Range
<1> QED BY <1>1, <1>8, <1>9

(* The first n elements. *)
LEMMA FirstFacts ==
  ASSUME NEW E, NEW q \in Seq(E), NEW n \in Nat
  PROVE  /\ First(q, n) \in Seq(E) /\ Len(First(q, n)) \in 0 .. Len(q)
         /\ Range(First(q, n)) \subseteq Range(q)
         /\ IsInjective(q) => IsInjective(First(q, n))
<1>0. Len(q) \in Nat
  BY LenProperties
<1> DEFINE k == IF n < Len(q) THEN n ELSE Len(q)
<1>1. k \in 0 .. Len(q) /\ First(q, n) = SubSeq(q, 1, k)
  BY <1>0 DEF First
<1> HIDE DEF k
<1> QED BY <1>1, PrefixFacts

(* Putting a list in front of another, in the opposite order. *)
LEMMA PushFacts ==
  ASSUME NEW E, NEW p \in Seq(E), NEW q \in Seq(E)
  PROVE  /\ Reverse(p) \o q \in Seq(E)
         /\ Range(Reverse(p) \o q) = Range(p) \cup Range(q)
         /\ IsInjective(p) /\ IsInjective(q) /\ Range(p) \cap Range(q) = {}
               => IsInjective(Reverse(p) \o q)
<1> DEFINE r == Reverse(p)
           c == r \o q
<1>0. /\ Len(p) \in Nat /\ DOMAIN p = 1 .. Len(p) /\ \A i \in 1 .. Len(p) : p[i] \in E
      /\ Len(q) \in Nat /\ DOMAIN q = 1 .. Len(q) /\ \A i \in 1 .. Len(q) : q[i] \in E
  BY LenProperties, ElementOfSeq
<1>1. /\ r \in Seq(E) /\ Len(r) = Len(p)
      /\ \A i \in 1 .. Len(p) : r[i] = p[(Len(p) - i) + 1]
  BY <1>0 DEF Reverse
<1> HIDE DEF r
<1>2. /\ c \in Seq(E) /\ Len(c) = Len(p) + Len(q)
      /\ \A i \in 1 .. (Len(p) + Len(q)) :
            c[i] = IF i <= Len(p) THEN r[i] ELSE q[i - Len(p)]
  <2>1. /\ c \in Seq(E) /\ Len(c) = Len(r) + Len(q)
        /\ \A i \in 1 .. (Len(r) + Len(q)) :
              c[i] = IF i <= Len(r) THEN r[i] ELSE q[i - Len(r)]
    <3>1. r \in Seq(E) /\ q \in Seq(E)
      BY <1>1
    <3> QED BY <3>1, ConcatProperties
  <2> HIDE DEF c
  <2> QED BY <1>1, <2>1
<1>3. DOMAIN c = 1 .. (Len(p) + Len(q))
  BY <1>2, LenProperties
<1> HIDE DEF c
<1>4. ASSUME NEW i \in 1 .. (Len(p) + Len(q))
      PROVE  \/ i <= Len(p) /\ (Len(p) - i) + 1 \in 1 .. Len(p) /\ c[i] = p[(Len(p) - i) + 1]
             \/ i > Len(p) /\ i - Len(p) \in 1 .. Len(q) /\ c[i] = q[i - Len(p)]
  BY <1>0, <1>1, <1>2
<1>5. Range(c) \subseteq Range(p) \cup Range(q)
  BY <1>0, <1>3, <1>4 DEF Range
<1>6. Range(p) \subseteq Range(c)
  <2> SUFFICES ASSUME NEW j \in 1 .. Len(p) PROVE p[j] \in Range(c)
    BY <1>0 DEF Range
  <2>1. (Len(p) - j) + 1 \in 1 .. Len(p) /\ (Len(p) - ((Len(p) - j) + 1)) + 1 = j
    BY <1>0
  <2>2. c[(Len(p) - j) + 1] = p[j] /\ (Len(p) - j) + 1 \in 1 .. (Len(p) + Len(q))
    BY <1>0, <1>1, <1>2, <2>1
  <2> QED BY <1>3, <2>2 DEF Range
<1>7. Range(q) \subseteq Range(c)
  <2> SUFFICES ASSUME NEW j \in 1 .. Len(q) PROVE q[j] \in Range(c)
    BY <1>0 DEF Range
  <2>1. c[Len(p) + j] = q[j] /\ Len(p) + j \in 1 .. (Len(p) + Len(q))
    BY <1>0, <1>2
  <2> QED BY <1>3, <2>1 DEF Range
<1>8. ASSUME IsInjective(p), IsInjective(q), Range(p) \cap Range(q) = {}
      PROVE  IsInjective(c)
  <2> SUFFICES ASSUME NEW i \in 1 .. (Len(p) + Len(q)), NEW j \in 1 .. (Len(p) + Len(q)),
                      c[i] = c[j]
               PROVE  i = j
    BY <1>3 DEF IsInjective
  <2>1. \A a, b \in 1 .. Len(p) : p[a] = p[b] => a = b
    BY <1>0, <1>8 DEF IsInjective
  <2>2. \A a, b \in 1 .. Len(q) : q[a] = q[b] => a = b
    BY <1>0, <1>8 DEF IsInjective
  <2>3. \A a \in 1 .. Len(p), b \in 1 .. Len(q) : p[a] # q[b]
    BY <1>0, <1>8 DEF Range
  <2>4. CASE i <= Len(p) /\ j <= Len(p)
    BY <1>0, <1>4, <2>1, <2>4
  <2>5. CASE i > Len(p) /\ j > Len(p)
    <3>1. /\ i - Len(p) \in 1 .. Len(q) /\ c[i] = q[i - Len(p)]
          /\ j - Len(p) \in 1 .. Len(q) /\ c[j] = q[j - Len(p)]
      BY <1>0, <1>4, <2>5
    <3>2. i - Len(p) = j - Len(p)
      BY <2>2, <3>1
    <3> QED BY <1>0, <3>2
  <2>6. CASE i <= Len(p) /\ j > Len(p)
    BY <1>0, <1>4, <2>3, <2>6
  <2>7. CASE i > Len(p) /\ j <= Len(p)
    BY <1>0, <1>4, <2>3, <2>7, SMTT(30)
  <2> QED BY <1>0, <2>4, <2>5, <2>6, <2>7
<1> QED BY <1>2, <1>5, <1>6, <1>7, <1>8 DEF c, r

----------------------------------------------------------------------------
(* The inductive invariant *)

Pcs == {"user", "publish", "check", "sleep", "leave", "opwrite", "opwake",
        "exit", "gone", "joined"}

Ops == [pc : Pcs, home : Seq(Words), words : Seq(Words), exp : Seq(Values),
        mask : SUBSET Bits, timed : BOOLEAN, at : {1, 2}, moved : BOOLEAN,
        cmp : BOOLEAN, new : Values]

Elems == Threads \X {1, 2}

Types ==
    /\ load \in Loads
    /\ value \in [Words -> Values]
    /\ table \in [Buckets -> Seq(Elems)]
    /\ op \in [Threads -> Ops]
    /\ woken \in [Threads -> BOOLEAN] /\ sig \in [Threads -> BOOLEAN]
    /\ owed \in [Words -> BOOLEAN]
    /\ park \in [Threads -> Phases]

(* Between the call and its return. *)
InWait(t) == op[t].pc = "publish" \/ Waiting(t)

(* What the place of a thread says of its call. *)
Call(t) ==
    /\ InWait(t) => /\ Len(op[t].words) \in {1, 2}
                    /\ Len(op[t].home) = Len(op[t].words)
                    /\ Len(op[t].exp) = Len(op[t].words)
                    /\ op[t].mask # {}
                    /\ op[t].moved \/ op[t].words = op[t].home
    /\ ~InWait(t) => op[t].words = <<>>
    /\ op[t].pc = "publish" => op[t].at = 1
    /\ op[t].pc = "check" => op[t].at <= Len(op[t].home)
    /\ op[t].pc \in {"opwrite", "opwake"} => Len(op[t].home) = 2
    /\ park[t] = "parked" => op[t].pc = "leave" /\ ~woken[t]

(* A bucket holds entries of waiters on words that hash to it, each once. *)
Found(b) ==
    /\ IsInjective(table[b])
    /\ \A e \in Range(table[b]) :
         Waiting(e[1]) /\ e[2] \in DOMAIN op[e[1]].words /\ Bucket(Uaddr(e)) = b

(* Until its flag is set all the entries of a waiter are linked. *)
Linked(t) ==
    Waiting(t) /\ ~woken[t] =>
        \A i \in DOMAIN op[t].words : <<t, i>> \in Range(table[Bucket(op[t].words[i])])

(* t has looked at its word i and means to sleep. *)
Checked(t, i) ==
    \/ op[t].pc = "check" /\ i < op[t].at
    \/ op[t].pc = "sleep"
    \/ park[t] = "parked"

Seen(t) ==
    ~op[t].moved /\ ~woken[t] =>
        \A i \in DOMAIN op[t].home :
            Checked(t, i) /\ value[op[t].home[i]] # op[t].exp[i] => owed[op[t].home[i]]

FInv ==
    /\ Types
    /\ \A t \in Threads : Call(t) /\ Linked(t) /\ Seen(t)
    /\ \A b \in Buckets : Found(b)

LEMMA LoadFacts ==
  ASSUME load \in Loads
  PROVE  /\ load.hash \in [Words -> Buckets] /\ load.tid \in Words
         /\ load.masks \subseteq (SUBSET Bits) \ {{}}
         /\ load.can \in [Threads -> SUBSET {"wait", "timed", "waitv", "store", "wake",
                                             "op", "requeue", "join", "exit"}]
         /\ \A w \in Words : Bucket(w) \in Buckets
  BY FutexAssumption DEF Bucket

LEMMA OutFacts ==
  /\ Out \in Ops /\ Out.pc = "user" /\ Out.words = <<>> /\ Out.home = <<>>
  /\ Out.at = 1 /\ ~Out.moved
<1>1. <<>> \in Seq(Words) /\ <<>> \in Seq(Values)
  BY EmptySeq
<1> QED BY <1>1, FutexAssumption DEF Out, Ops, Pcs

(* Steps that only move a thread on. *)
LEMMA PcFacts ==
  ASSUME NEW r \in Ops, NEW p \in Pcs
  PROVE  LET x == [r EXCEPT !.pc = p] IN
         /\ x \in Ops /\ x.pc = p /\ x.at = r.at
         /\ x.home = r.home /\ x.words = r.words /\ x.exp = r.exp /\ x.mask = r.mask
         /\ x.moved = r.moved /\ x.timed = r.timed /\ x.cmp = r.cmp /\ x.new = r.new
  BY DEF Ops

LEMMA PcStep ==
  ASSUME op \in [Threads -> Ops], NEW t \in Threads, NEW p \in Pcs,
         op' = [op EXCEPT ![t].pc = p]
  PROVE  /\ op' \in [Threads -> Ops] /\ op'[t].pc = p
         /\ op'[t].home = op[t].home /\ op'[t].words = op[t].words
         /\ op'[t].exp = op[t].exp /\ op'[t].mask = op[t].mask
         /\ op'[t].moved = op[t].moved /\ op'[t].at = op[t].at
         /\ \A s \in Threads \ {t} : op'[s] = op[s]
<1> DEFINE x == [op[t] EXCEPT !.pc = p]
<1>1. op[t] \in Ops
  OBVIOUS
<1>2. op'[t] = x
  OBVIOUS
<1> HIDE DEF x
<1>3. /\ x \in Ops /\ x.pc = p /\ x.at = op[t].at
      /\ x.home = op[t].home /\ x.words = op[t].words /\ x.exp = op[t].exp
      /\ x.mask = op[t].mask /\ x.moved = op[t].moved
  BY <1>1, PcFacts DEF x
<1>4. \A s \in Threads \ {t} : op'[s] = op[s]
  OBVIOUS
<1>5. op' \in [Threads -> Ops]
  BY <1>2, <1>3, <1>4
<1> QED BY <1>2, <1>3, <1>4, <1>5

LEMMA ToSetRange == ASSUME NEW s PROVE ToSet(s) = Range(s)
  BY DEF ToSet, Range

LEMMA InitFInv == Init => FInv
<1> SUFFICES ASSUME Init PROVE FInv
  OBVIOUS
<1> USE DEF Init
<1>1. <<>> \in Seq(Elems) /\ Range(<<>>) = {} /\ IsInjective(<<>>)
  BY EmptySeq DEF Range, IsInjective
<1>2. \A t \in Threads : op[t] = Out /\ ~woken[t] /\ park[t] = "run"
  BY DEF AllRun
<1>3. Types
  <2>1. value \in [Words -> Values]
    BY FutexAssumption
  <2>2. op \in [Threads -> Ops]
    BY OutFacts
  <2>3. table \in [Buckets -> Seq(Elems)]
    BY <1>1
  <2> QED BY <2>1, <2>2, <2>3 DEF Types, AllRun, Phases
<1>4. \A t \in Threads : Call(t) /\ Linked(t) /\ Seen(t)
  BY <1>2, OutFacts DEF Call, Linked, Seen, Checked, InWait, Waiting
<1>5. \A b \in Buckets : Found(b)
  BY <1>1 DEF Found
<1> QED BY <1>3, <1>4, <1>5 DEF FInv

----------------------------------------------------------------------------
(* Steps that leave the table alone *)

LEMMA Local ==
  ASSUME FInv, Types', NEW t \in Threads,
         load' = load, table' = table, woken'[t] = woken[t],
         \A s \in Threads \ {t} :
            op'[s] = op[s] /\ woken'[s] = woken[s] /\ park'[s] = park[s],
         Waiting(t)' <=> Waiting(t),
         Waiting(t) => op'[t].words = op[t].words,
         \A w \in Words : (value'[w] = value[w] \/ owed'[w]) /\ (owed[w] => owed'[w]),
         Call(t)', Seen(t)'
  PROVE  FInv'
<1> USE DEF FInv
<1>1. \A s \in Threads : Waiting(s)' <=> Waiting(s)
  BY DEF Waiting
<1>2. \A s \in Threads : Waiting(s) => op'[s].words = op[s].words
  OBVIOUS
<1>3. ASSUME NEW b \in Buckets PROVE Found(b)'
  <2>1. table[b] \in Seq(Elems)
    BY DEF Types
  <2>2. \A e \in Range(table[b]) : e[1] \in Threads
    BY <2>1, RangeOfSeq DEF Elems
  <2> QED BY <1>1, <1>2, <2>2 DEF Found, Uaddr, Bucket
<1>4. ASSUME NEW s \in Threads PROVE Linked(s)'
  BY <1>1, <1>2 DEF Linked, Bucket
<1>5. ASSUME NEW s \in Threads, s # t PROVE Call(s)' /\ Seen(s)'
  <2>1. Call(s) /\ Seen(s) /\ op'[s] = op[s] /\ woken'[s] = woken[s] /\ park'[s] = park[s]
    BY <1>5
  <2>2. Call(s)'
    BY <2>1 DEF Call, InWait, Waiting
  <2>3. \A i \in DOMAIN op[s].home : op[s].home[i] \in Words
    BY LenProperties, ElementOfSeq DEF Types, Ops
  <2>4. Seen(s)'
    BY <2>1, <2>3 DEF Seen, Checked
  <2> QED BY <2>2, <2>4
<1> QED BY <1>3, <1>4, <1>5

LEMMA AsksFInv ==
  ASSUME FInv, NEW t \in Threads, At(t, "user"),
         NEW kind, NEW words \in Seq(Words), NEW exp \in Seq(Values),
         Len(words) \in {1, 2}, Len(exp) = Len(words),
         NEW mask \in SUBSET Bits, mask # {},
         Asks(t, kind, words, exp, mask),
         UNCHANGED <<value, table, woken, sig, load, signals, owed, park>>
  PROVE  FInv'
<1> USE DEF FInv
<1>1. /\ op'[t].pc = "publish" /\ op'[t].home = words /\ op'[t].words = words
      /\ op'[t].exp = exp /\ op'[t].mask = mask /\ op'[t].at = 1 /\ ~op'[t].moved
      /\ op'[t] \in Ops
  BY OutFacts DEF Asks, Types, Out, Ops, Pcs
<1>2. \A s \in Threads \ {t} : op'[s] = op[s]
  BY DEF Asks, Types
<1>3. Types'
  <2>1. op' \in [Threads -> Ops]
    BY <1>1, <1>2 DEF Asks, Types
  <2> QED BY <2>1 DEF Types
<1>4. ~Waiting(t) /\ ~Waiting(t)' /\ park[t] # "parked"
  BY <1>1 DEF At, Waiting, Awake
<1>5. Call(t)' /\ Seen(t)'
  BY <1>1, <1>4 DEF Call, Seen, InWait, Waiting, Checked
<1> QED BY <1>1, <1>2, <1>3, <1>4, <1>5, Local

LEMMA WaitCallFInv ==
  ASSUME FInv, NEW t \in Threads, NEW w \in Words, NEW mask, WaitCall(t, w, mask)
  PROVE  FInv'
<1>1. PICK kind \in {"wait", "timed"} :
        May(t, kind) /\ Asks(t, kind, <<w>>, <<value[w]>>, mask)
  BY DEF WaitCall
<1>2. At(t, "user")
  BY <1>1 DEF May
<1>3. value[w] \in Values /\ mask \in SUBSET Bits /\ mask # {}
  BY LoadFacts DEF FInv, Types, WaitCall
<1>4. <<w>> \in Seq(Words) /\ <<value[w]>> \in Seq(Values) /\ Len(<<w>>) = 1
      /\ Len(<<value[w]>>) = 1
  BY <1>3
<1> QED BY <1>1, <1>2, <1>3, <1>4, AsksFInv DEF WaitCall

LEMMA JoinCallFInv ==
  ASSUME FInv, NEW t \in Threads, JoinCall(t)
  PROVE  FInv'
<1>0. At(t, "user") /\ load.tid \in Words
  BY LoadFacts DEF JoinCall, May, FInv, Types
<1>1. CASE value[load.tid] = 0
  <2>1. op' = [op EXCEPT ![t].pc = "joined"]
    BY <1>1 DEF JoinCall
  <2>2. "joined" \in Pcs /\ op \in [Threads -> Ops]
    BY DEF FInv, Types, Pcs
  <2>3. /\ op' \in [Threads -> Ops] /\ op'[t].pc = "joined" /\ op'[t].words = op[t].words
        /\ \A s \in Threads \ {t} : op'[s] = op[s]
    BY <2>1, <2>2, PcStep
  <2>4. Types'
    BY <2>3 DEF JoinCall, FInv, Types
  <2>5. ~InWait(t) /\ ~InWait(t)' /\ park[t] # "parked" /\ op[t].words = <<>>
    BY <1>0, <2>3 DEF At, InWait, Waiting, Awake, FInv, Call
  <2>6. Call(t)' /\ Seen(t)'
    BY <2>3, <2>5 DEF Call, Seen, Checked, JoinCall
  <2> QED BY <2>3, <2>4, <2>5, <2>6, Local DEF JoinCall, InWait
<1>2. CASE value[load.tid] # 0
  <2> DEFINE w == load.tid
  <2>1. Asks(t, "wait", <<w>>, <<value[w]>>, Bits)
    BY <1>2 DEF JoinCall
  <2>2. value[w] \in Values
    BY <1>0 DEF FInv, Types
  <2>3. <<w>> \in Seq(Words) /\ <<value[w]>> \in Seq(Values) /\ Len(<<w>>) = 1
        /\ Len(<<value[w]>>) = 1
    BY <1>0, <2>2
  <2>4. Bits \in SUBSET Bits /\ Bits # {}
    BY FutexAssumption
  <2> QED BY <1>0, <2>1, <2>3, <2>4, AsksFInv DEF JoinCall
<1> QED BY <1>1, <1>2

LEMMA WaitvCallFInv ==
  ASSUME FInv, NEW t \in Threads, NEW w1 \in Words, NEW w2 \in Words, WaitvCall(t, w1, w2)
  PROVE  FInv'
<1>1. PICK v1 \in Values, v2 \in Values : Asks(t, "waitv", <<w1, w2>>, <<v1, v2>>, Bits)
  BY DEF WaitvCall
<1>2. At(t, "user")
  BY DEF WaitvCall, May
<1>3. <<w1, w2>> \in Seq(Words) /\ <<v1, v2>> \in Seq(Values) /\ Len(<<w1, w2>>) = 2
      /\ Len(<<v1, v2>>) = 2
  OBVIOUS
<1>4. Bits \in SUBSET Bits /\ Bits # {}
  BY FutexAssumption
<1> QED BY <1>1, <1>2, <1>3, <1>4, AsksFInv DEF WaitvCall

LEMMA CheckFInv ==
  ASSUME FInv, NEW t \in Threads, Check(t)
  PROVE  FInv'
<1> DEFINE i == op[t].at
           n == Len(op[t].home)
           same == value[op[t].home[i]] = op[t].exp[i]
           p == IF ~same THEN "leave" ELSE IF i = n THEN "sleep" ELSE "check"
           k == IF same /\ i < n THEN i + 1 ELSE i
<1> USE DEF FInv
<1>0. /\ op[t] \in Ops /\ op[t].pc = "check" /\ park[t] # "parked"
      /\ Call(t) /\ Seen(t)
  BY DEF Check, At, Awake, Types
<1>1. /\ n \in {1, 2} /\ i \in {1, 2} /\ i <= n /\ DOMAIN op[t].home = 1 .. n
      /\ Len(op[t].words) = n /\ Len(op[t].exp) = n /\ op[t].mask # {}
      /\ op[t].moved \/ op[t].words = op[t].home
  BY <1>0, LenProperties DEF Call, InWait, Waiting, Ops
<1>2. k \in {1, 2} /\ p \in Pcs /\ (p = "check" => k <= n)
  <2> HIDE DEF i, n, same
  <2>1. CASE same
    BY <1>1, <2>1 DEF Pcs
  <2>2. CASE ~same
    BY <1>1, <2>2 DEF Pcs
  <2> QED BY <2>1, <2>2
<1>3. op' = [op EXCEPT ![t].pc = p, ![t].at = k]
  BY DEF Check
<1> HIDE DEF p, k
<1>4. /\ op'[t].pc = p /\ op'[t].at = k /\ op'[t].home = op[t].home
      /\ op'[t].words = op[t].words /\ op'[t].exp = op[t].exp
      /\ op'[t].mask = op[t].mask /\ op'[t].moved = op[t].moved
      /\ op'[t] \in Ops
  <2>1. op'[t] = [op[t] EXCEPT !.pc = p, !.at = k]
    BY <1>3 DEF Types
  <2>2. op[t] \in Ops /\ p \in Pcs /\ k \in {1, 2}
    BY <1>0, <1>2
  <2> HIDE DEF FInv, i, n, same
  <2> QED BY <2>1, <2>2 DEF Ops
<1>5. \A s \in Threads \ {t} : op'[s] = op[s]
  BY <1>3 DEF Types
<1>6. op' \in [Threads -> Ops]
  BY <1>3, <1>4, <1>5 DEF Types
<1>7. Types'
  BY <1>6 DEF Check, Types
<1>8. Waiting(t) /\ Waiting(t)' /\ p # "publish" /\ p \notin {"opwrite", "opwake"}
  BY <1>0, <1>4 DEF Waiting, p
<1>9. Call(t)'
  BY <1>0, <1>1, <1>2, <1>4, <1>8 DEF Call, InWait, Check
<1>10. Seen(t)'
  <2>1. \A j \in 1 .. n : j < i /\ value[op[t].home[j]] # op[t].exp[j]
                             => op[t].moved \/ woken[t] \/ owed[op[t].home[j]]
    BY <1>0, <1>1 DEF Seen, Checked
  <2>2. \A j \in 1 .. n : Checked(t, j)' => j < i \/ (j = i /\ same)
    <3>1. /\ p = IF ~same THEN "leave" ELSE IF i = n THEN "sleep" ELSE "check"
          /\ k = IF same /\ i < n THEN i + 1 ELSE i
      BY DEF p, k
    <3>2. park'[t] # "parked" /\ i \in Nat /\ n \in Nat /\ i <= n
      BY <1>0, <1>1 DEF Check
    <3> SUFFICES ASSUME NEW j \in 1 .. n, Checked(t, j)' PROVE j < i \/ (j = i /\ same)
      OBVIOUS
    <3>3. (p = "check" /\ j < k) \/ p = "sleep"
      BY <1>4, <3>2 DEF Checked
    <3> HIDE DEF same, i, n
    <3>4. same
      BY <3>1, <3>3
    <3>5. j <= i
      BY <3>1, <3>2, <3>3, <3>4
    <3> QED BY <3>2, <3>4, <3>5
  <2> HIDE DEF n
  <2>3. UNCHANGED <<value, woken, owed>>
    BY DEF Check
  <2>4. \A j \in 1 .. n : Checked(t, j)' /\ value[op[t].home[j]] # op[t].exp[j] => j < i
    BY <2>2
  <2> QED BY <1>1, <1>4, <2>1, <2>3, <2>4 DEF Seen
<1> QED BY <1>4, <1>5, <1>7, <1>8, <1>9, <1>10, Local DEF Check

LEMMA SleepFInv ==
  ASSUME FInv, NEW t \in Threads, Sleep(t)
  PROVE  FInv'
<1> USE DEF FInv
<1>0. op[t].pc = "sleep" /\ park[t] # "parked" /\ Call(t) /\ Seen(t) /\ "leave" \in Pcs
      /\ op \in [Threads -> Ops]
  BY DEF Sleep, At, Awake, Pcs, Types
<1>1. /\ op' \in [Threads -> Ops] /\ op'[t].pc = "leave"
      /\ op'[t].home = op[t].home /\ op'[t].words = op[t].words
      /\ op'[t].exp = op[t].exp /\ op'[t].mask = op[t].mask
      /\ op'[t].moved = op[t].moved
      /\ \A s \in Threads \ {t} : op'[s] = op[s]
  BY <1>0, PcStep DEF Sleep
<1>2. /\ park' \in [Threads -> Phases]
      /\ \A s \in Threads \ {t} : park'[s] = park[s]
      /\ park'[t] = "parked" => ~woken[t]
  BY DEF Sleep, Block, Types, Phases
<1>3. Types'
  BY <1>1, <1>2 DEF Sleep, Types
<1>4. Waiting(t) /\ Waiting(t)'
  BY <1>0, <1>1 DEF Waiting
<1>5. Call(t)'
  BY <1>0, <1>1, <1>2, <1>4 DEF Call, InWait, Sleep
<1>6. Seen(t)'
  BY <1>0, <1>1 DEF Seen, Checked, Sleep
<1> QED BY <1>1, <1>2, <1>3, <1>4, <1>5, <1>6, Local DEF Sleep

(* A wake-up from elsewhere. *)
LEMMA RousedFInv ==
  ASSUME FInv, NEW t \in Threads,
         park' = [park EXCEPT ![t] = IF @ = "parked" THEN "run" ELSE @],
         sig' \in [Threads -> BOOLEAN],
         UNCHANGED <<value, table, op, woken, load, owed>>
  PROVE  FInv'
<1> USE DEF FInv
<1>1. /\ park' \in [Threads -> Phases] /\ park'[t] # "parked"
      /\ \A s \in Threads \ {t} : park'[s] = park[s]
  BY DEF Types, Phases
<1>2. Types'
  BY <1>1 DEF Types
<1>3. Call(t)'
  BY <1>1 DEF Call, InWait, Waiting
<1>4. Seen(t)'
  BY <1>1 DEF Seen, Checked
<1> QED BY <1>1, <1>2, <1>3, <1>4, Local DEF Waiting

LEMMA TimeoutFInv ==
  ASSUME FInv, NEW t \in Threads, Timeout(t)
  PROVE  FInv'
  BY RousedFInv DEF Timeout, FInv, Types

LEMMA SignalFInv ==
  ASSUME FInv, NEW t \in Threads, Signal(t)
  PROVE  FInv'
  BY RousedFInv DEF Signal, Poke, FInv, Types

LEMMA StoreFInv ==
  ASSUME FInv, NEW t \in Threads, NEW w \in Words, NEW v \in Values, Store(t, w, v)
  PROVE  FInv'
<1> USE DEF FInv
<1>1. /\ \A u \in Words : (value'[u] = value[u] \/ owed'[u]) /\ (owed[u] => owed'[u])
      /\ value' \in [Words -> Values] /\ owed' \in [Words -> BOOLEAN]
  BY DEF Store, Types
<1>2. Types'
  BY <1>1 DEF Store, Types
<1>3. Call(t)'
  BY DEF Call, InWait, Waiting, Store
<1>4. op[t].pc = "user" /\ park[t] # "parked"
  BY DEF Store, May, At, Awake
<1>5. Seen(t)'
  BY <1>4 DEF Seen, Checked, Store
<1> QED BY <1>1, <1>2, <1>3, <1>5, Local DEF Waiting, Store

LEMMA OpReadFInv ==
  ASSUME FInv, NEW t \in Threads, NEW w1 \in Words, NEW w2 \in Words, OpRead(t, w1, w2)
  PROVE  FInv'
<1> USE DEF FInv
<1>1. PICK v \in Values, cmp \in BOOLEAN :
         op' = [op EXCEPT ![t] = [Out EXCEPT !.pc = IF v = value[w2] THEN "opwake"
                                                    ELSE "opwrite",
                                             !.home = <<w1, w2>>,
                                             !.new = v, !.cmp = cmp]]
  BY DEF OpRead
<1>2. op[t].pc = "user" /\ park[t] # "parked"
  BY DEF OpRead, May, At, Awake
<1>3. <<w1, w2>> \in Seq(Words) /\ Len(<<w1, w2>>) = 2
  OBVIOUS
<1>4. /\ op'[t] \in Ops /\ op'[t].pc \in {"opwake", "opwrite"}
      /\ op'[t].home = <<w1, w2>> /\ op'[t].words = <<>>
  BY <1>1, <1>3, OutFacts DEF Types, Out, Ops, Pcs
<1>5. \A s \in Threads \ {t} : op'[s] = op[s]
  BY <1>1 DEF Types
<1>6. op' \in [Threads -> Ops]
  BY <1>1, <1>4, <1>5 DEF Types
<1>7. Types'
  BY <1>6 DEF OpRead, Types
<1>8. ~Waiting(t) /\ ~InWait(t)' /\ ~Waiting(t)'
  BY <1>2, <1>4 DEF Waiting, InWait
<1>9. Call(t)' /\ Seen(t)'
  BY <1>2, <1>3, <1>4, <1>8 DEF Call, Seen, Checked, OpRead
<1> QED BY <1>5, <1>7, <1>8, <1>9, Local DEF OpRead

LEMMA OpWriteFInv ==
  ASSUME FInv, NEW t \in Threads, OpWrite(t)
  PROVE  FInv'
<1> USE DEF FInv
<1>0. op[t].pc = "opwrite" /\ park[t] # "parked" /\ Call(t) /\ op \in [Threads -> Ops]
      /\ "opwake" \in Pcs
  BY DEF OpWrite, At, Awake, Types, Pcs
<1>1. op[t].home[2] \in Words /\ op[t].new \in Values
  BY <1>0, ElementOfSeq DEF Call, Ops
<1>2. /\ \A u \in Words : (value'[u] = value[u] \/ owed'[u]) /\ (owed[u] => owed'[u])
      /\ value' \in [Words -> Values] /\ owed' \in [Words -> BOOLEAN]
  BY <1>1 DEF OpWrite, Types
<1>3. /\ op' \in [Threads -> Ops] /\ op'[t].pc = "opwake"
      /\ op'[t].home = op[t].home /\ op'[t].words = op[t].words
      /\ \A s \in Threads \ {t} : op'[s] = op[s]
  BY <1>0, PcStep DEF OpWrite
<1>4. Types'
  BY <1>2, <1>3 DEF OpWrite, Types
<1>5. ~InWait(t) /\ ~InWait(t)'
  BY <1>0, <1>3 DEF InWait, Waiting
<1>6. Call(t)' /\ Seen(t)'
  BY <1>0, <1>3, <1>5 DEF Call, Seen, Checked, OpWrite
<1> QED BY <1>2, <1>3, <1>4, <1>5, <1>6, Local DEF OpWrite, InWait

LEMMA ExitStoreFInv ==
  ASSUME FInv, NEW t \in Threads, ExitStore(t)
  PROVE  FInv'
<1> USE DEF FInv
<1>0. op[t].pc = "user" /\ park[t] # "parked" /\ Call(t) /\ op \in [Threads -> Ops]
      /\ "exit" \in Pcs /\ load.tid \in Words
  BY LoadFacts DEF ExitStore, May, At, Awake, Types, Pcs
<1>2. /\ \A u \in Words : (value'[u] = value[u] \/ owed'[u]) /\ (owed[u] => owed'[u])
      /\ value' \in [Words -> Values] /\ owed' \in [Words -> BOOLEAN]
  BY <1>0, FutexAssumption DEF ExitStore, Types
<1>3. /\ op' \in [Threads -> Ops] /\ op'[t].pc = "exit" /\ op'[t].words = op[t].words
      /\ \A s \in Threads \ {t} : op'[s] = op[s]
  BY <1>0, PcStep DEF ExitStore
<1>4. Types'
  BY <1>2, <1>3 DEF ExitStore, Types
<1>5. ~InWait(t) /\ ~InWait(t)'
  BY <1>0, <1>3 DEF InWait, Waiting
<1>6. Call(t)' /\ Seen(t)'
  BY <1>0, <1>3, <1>5 DEF Call, Seen, Checked, ExitStore
<1> QED BY <1>2, <1>3, <1>4, <1>5, <1>6, Local DEF ExitStore, InWait

----------------------------------------------------------------------------
(* Steps that link and unlink entries *)

(* Where an entry in the table is, and whose it is. *)
LEMMA EntryFacts ==
  ASSUME FInv, NEW b \in Buckets, NEW e \in Range(table[b])
  PROVE  /\ e[1] \in Threads /\ e[2] \in DOMAIN op[e[1]].words /\ e = <<e[1], e[2]>>
         /\ Waiting(e[1]) /\ Bucket(Uaddr(e)) = b /\ Uaddr(e) \in Words /\ e \in Elems
<1>1. e \in Elems
  BY RangeOfSeq DEF FInv, Types
<1>2. e[1] \in Threads /\ e = <<e[1], e[2]>>
  BY <1>1 DEF Elems
<1>3. Waiting(e[1]) /\ e[2] \in DOMAIN op[e[1]].words /\ Bucket(Uaddr(e)) = b
  BY DEF FInv, Found
<1>4. Uaddr(e) \in Words
  BY <1>2, <1>3, LenProperties, ElementOfSeq DEF FInv, Types, Ops, Uaddr
<1> QED BY <1>1, <1>2, <1>3, <1>4

LEMMA PublishFInv ==
  ASSUME FInv, NEW t \in Threads, Publish(t)
  PROVE  FInv'
<1> DEFINE mine == [i \in DOMAIN op[t].words |-> <<t, i>>]
           new(b) == {e \in Entries(t) : Bucket(Uaddr(e)) = b}
<1>0. /\ op[t].pc = "publish" /\ park[t] # "parked" /\ Call(t) /\ op \in [Threads -> Ops]
      /\ "check" \in Pcs /\ op[t].at = 1
  BY DEF Publish, At, Awake, FInv, Types, Pcs, Call
<1>1. /\ op[t].words \in Seq(Words) /\ Len(op[t].words) \in {1, 2}
      /\ DOMAIN op[t].words = 1 .. Len(op[t].words)
  BY <1>0, LenProperties DEF Call, InWait, Ops
<1>2. /\ mine \in Seq(Elems) /\ Range(mine) = Entries(t) /\ IsInjective(mine)
  <2>1. mine \in Seq(Elems)
    BY <1>1 DEF Elems
  <2>2. Range(mine) = Entries(t)
    BY DEF Range, Entries
  <2>3. IsInjective(mine)
    BY DEF IsInjective
  <2> QED BY <2>1, <2>2, <2>3
<1>3. /\ op' \in [Threads -> Ops] /\ op'[t].pc = "check"
      /\ op'[t].home = op[t].home /\ op'[t].words = op[t].words
      /\ op'[t].exp = op[t].exp /\ op'[t].mask = op[t].mask
      /\ op'[t].moved = op[t].moved /\ op'[t].at = op[t].at
      /\ \A s \in Threads \ {t} : op'[s] = op[s]
  BY <1>0, PcStep DEF Publish
<1>4. ~Waiting(t) /\ Waiting(t)'
  BY <1>0, <1>3 DEF Waiting
<1>5. ASSUME NEW b \in Buckets
      PROVE  /\ table'[b] \in Seq(Elems)
             /\ Range(table'[b]) = new(b) \cup Range(table[b])
             /\ IsInjective(table'[b])
  <2> DEFINE k == Kept(mine, new(b))
  <2>1. table'[b] = Reverse(k) \o table[b]
    BY DEF Publish
  <2>2. /\ k \in Seq(Elems) /\ Range(k) = Range(mine) \cap new(b) /\ IsInjective(k)
    <3> HIDE DEF mine, new
    <3> QED BY <1>2, KeptFacts
  <2>3. table[b] \in Seq(Elems) /\ IsInjective(table[b])
    BY DEF FInv, Types, Found
  <2>4. Range(k) = new(b)
    BY <1>2, <2>2
  <2>5. Range(k) \cap Range(table[b]) = {}
    <3>1. \A e \in Range(k) : e[1] = t
      BY <2>4 DEF Entries
    <3> QED BY <1>4, <3>1, EntryFacts
  <2> HIDE DEF k, mine, new
  <2>6. /\ Reverse(k) \o table[b] \in Seq(Elems)
        /\ Range(Reverse(k) \o table[b]) = Range(k) \cup Range(table[b])
        /\ IsInjective(Reverse(k) \o table[b])
    BY <2>2, <2>3, <2>5, PushFacts
  <2> QED BY <2>1, <2>4, <2>6
<1>6. Types'
  <2>1. table' \in [Buckets -> Seq(Elems)]
    BY <1>5 DEF Publish
  <2> QED BY <1>3, <2>1 DEF Publish, FInv, Types
<1>7. \A s \in Threads : Waiting(s) => Waiting(s)'
  BY <1>3, <1>4 DEF Waiting
<1>8. \A s \in Threads : op'[s].words = op[s].words
  BY <1>3
<1>9. ASSUME NEW b \in Buckets PROVE Found(b)'
  <2> SUFFICES ASSUME NEW e \in Range(table'[b])
               PROVE  /\ Waiting(e[1])' /\ e[2] \in DOMAIN op'[e[1]].words
                      /\ load'.hash[op'[e[1]].words[e[2]]] = b
    BY <1>5 DEF Found, Bucket, Uaddr
  <2>1. CASE e \in new(b)
    <3>1. PICK i \in DOMAIN op[t].words : e = <<t, i>>
      BY <2>1 DEF Entries
    <3>2. load.hash[op[t].words[i]] = b
      BY <2>1, <3>1 DEF Uaddr, Bucket
    <3> QED BY <1>3, <1>4, <3>1, <3>2 DEF Publish
  <2>2. CASE e \in Range(table[b])
    BY <1>7, <1>8, <2>2, EntryFacts DEF Uaddr, Bucket, Publish
  <2> QED BY <1>5, <2>1, <2>2
<1>10. ASSUME NEW s \in Threads PROVE Linked(s)'
  <2> SUFFICES ASSUME Waiting(s)', ~woken'[s], NEW i \in DOMAIN op'[s].words
               PROVE  <<s, i>> \in Range(table'[load'.hash[op'[s].words[i]]])
    BY DEF Linked, Bucket
  <2> DEFINE b == Bucket(op[s].words[i])
  <2>1. op'[s].words = op[s].words /\ load' = load /\ i \in DOMAIN op[s].words
    BY <1>8 DEF Publish
  <2>2. load'.hash[op'[s].words[i]] = b
    BY <2>1 DEF Bucket
  <2>3. op[s].words[i] \in Words
    BY <2>1, LenProperties, ElementOfSeq DEF FInv, Types, Ops
  <2>4. b \in Buckets
    BY <2>3, LoadFacts DEF FInv, Types
  <2>5. CASE s = t
    <3>1. <<s, i>> \in new(b)
      BY <2>1, <2>5 DEF Entries, Uaddr
    <3> QED BY <1>5, <2>2, <2>4, <3>1
  <2>6. CASE s # t
    <3>1. Waiting(s) /\ ~woken[s]
      BY <1>3, <2>6 DEF Waiting, Publish, FInv, Types
    <3>2. <<s, i>> \in Range(table[b])
      BY <2>1, <3>1 DEF FInv, Linked
    <3> QED BY <1>5, <2>2, <2>4, <3>2
  <2> QED BY <2>5, <2>6
<1>11. Call(t)' /\ Seen(t)'
  <2>1. park' = park /\ woken'[t] = FALSE
    BY DEF Publish, FInv, Types
  <2>2. Call(t)'
    <3>1. /\ Len(op[t].home) = Len(op[t].words) /\ Len(op[t].exp) = Len(op[t].words)
          /\ op[t].mask # {} /\ (op[t].moved \/ op[t].words = op[t].home)
          /\ Len(op[t].words) \in {1, 2}
      BY <1>0 DEF Call, InWait
    <3>2. 1 <= Len(op[t].home)
      <4>1. Len(op[t].home) \in {1, 2}
        BY <3>1
      <4>2. op[t].home \in Seq(Words)
        BY <1>0 DEF Ops
      <4> QED BY <4>1, <4>2, SMTT(30)
    <3> QED BY <1>0, <1>3, <1>4, <2>1, <3>1, <3>2 DEF Call, InWait
  <2>3. \A i \in DOMAIN op[t].home : ~(i < 1)
    <3>1. op[t].home \in Seq(Words)
      BY <1>0 DEF Ops
    <3>2. DOMAIN op[t].home = 1 .. Len(op[t].home) /\ Len(op[t].home) \in Nat
      BY <3>1, LenProperties
    <3> QED BY <3>2
  <2>4. Seen(t)'
    BY <1>0, <1>3, <2>1, <2>3 DEF Seen, Checked
  <2> QED BY <2>2, <2>4
<1>12. ASSUME NEW s \in Threads, s # t PROVE Call(s)' /\ Seen(s)'
  <2>1. Call(s) /\ Seen(s) /\ op'[s] = op[s] /\ woken'[s] = woken[s] /\ park' = park
        /\ value' = value /\ owed' = owed
    BY <1>3, <1>12 DEF FInv, Types, Publish
  <2> QED BY <2>1 DEF Call, Seen, InWait, Waiting, Checked
<1> QED BY <1>6, <1>9, <1>10, <1>11, <1>12 DEF FInv

LEMMA LeaveFInv ==
  ASSUME FInv, NEW t \in Threads, Leave(t)
  PROVE  FInv'
<1>0. op[t].pc = "leave" /\ park[t] # "parked" /\ op \in [Threads -> Ops]
  BY DEF Leave, At, Awake, FInv, Types
<1>1. /\ op' \in [Threads -> Ops] /\ op'[t] = Out
      /\ \A s \in Threads \ {t} : op'[s] = op[s]
  BY <1>0, OutFacts DEF Leave
<1>2. ~InWait(t)' /\ \A s \in Threads \ {t} : Waiting(s)' <=> Waiting(s)
  BY <1>1, OutFacts DEF Waiting, InWait
<1>3. ASSUME NEW b \in Buckets
      PROVE  /\ table'[b] \in Seq(Elems)
             /\ Range(table'[b]) = {e \in Range(table[b]) : e[1] # t}
             /\ IsInjective(table'[b])
  <2> DEFINE S == {e \in ToSet(table[b]) : ~(e[1] = t /\ Bucket(Uaddr(e)) = b)}
  <2>1. table'[b] = Kept(table[b], S)
    BY DEF Leave
  <2>2. S = {e \in Range(table[b]) : e[1] # t}
    BY EntryFacts, ToSetRange
  <2>3. table[b] \in Seq(Elems) /\ IsInjective(table[b])
    BY DEF FInv, Types, Found
  <2>4. Range(table[b]) \cap S = S
    BY <2>2
  <2> HIDE DEF S
  <2> QED BY <2>1, <2>2, <2>3, <2>4, KeptFacts
<1>4. Types'
  <2>1. table' \in [Buckets -> Seq(Elems)]
    BY <1>3 DEF Leave
  <2> QED BY <1>1, <2>1 DEF Leave, FInv, Types
<1>5. ASSUME NEW b \in Buckets PROVE Found(b)'
  <2> SUFFICES ASSUME NEW e \in Range(table'[b])
               PROVE  /\ Waiting(e[1])' /\ e[2] \in DOMAIN op'[e[1]].words
                      /\ load'.hash[op'[e[1]].words[e[2]]] = b
    BY <1>3 DEF Found, Bucket, Uaddr
  <2>1. e \in Range(table[b]) /\ e[1] # t
    BY <1>3
  <2> QED BY <1>1, <1>2, <2>1, EntryFacts DEF Uaddr, Bucket, Leave
<1>6. ASSUME NEW s \in Threads, s # t PROVE Linked(s)' /\ Call(s)' /\ Seen(s)'
  <2>1. /\ Call(s) /\ Seen(s) /\ Linked(s) /\ op'[s] = op[s]
        /\ UNCHANGED <<woken, park, value, owed, load>>
    BY <1>1, <1>6 DEF FInv, Leave
  <2>2. Call(s)' /\ Seen(s)'
    BY <2>1 DEF Call, Seen, InWait, Waiting, Checked
  <2>3. ASSUME Waiting(s)', ~woken'[s], NEW i \in DOMAIN op'[s].words
        PROVE  <<s, i>> \in Range(table'[load'.hash[op'[s].words[i]]])
    <3> DEFINE b == Bucket(op[s].words[i])
    <3>1. load'.hash[op'[s].words[i]] = b /\ i \in DOMAIN op[s].words
      BY <2>1, <2>3 DEF Bucket
    <3>2. op[s].words[i] \in Words
      BY <3>1, LenProperties, ElementOfSeq DEF FInv, Types, Ops
    <3>3. b \in Buckets
      BY <3>2, LoadFacts DEF FInv, Types
    <3>4. <<s, i>> \in Range(table[b])
      BY <1>2, <1>6, <2>1, <2>3, <3>1 DEF Linked
    <3>5. <<s, i>> \in Range(table'[b])
      BY <1>3, <1>6, <3>3, <3>4
    <3> QED BY <3>1, <3>5
  <2> QED BY <2>2, <2>3 DEF Linked, Bucket
<1>7. Linked(t)' /\ Call(t)' /\ Seen(t)'
  <2>1. park' = park
    BY DEF Leave
  <2> QED BY <1>0, <1>1, <1>2, <2>1, OutFacts DEF Call, Linked, Seen, InWait, Checked
<1> QED BY <1>4, <1>5, <1>6, <1>7 DEF FInv

(* The waiters of a word, and what a walk with a bitset finds of them. *)
On(w) == {e \in Range(table[Bucket(w)]) : Uaddr(e) = w}

LEMMA OnWordFacts ==
  ASSUME FInv, NEW w \in Words, NEW mask
  PROVE  /\ OnWord(w, mask) \in Seq(Elems) /\ IsInjective(OnWord(w, mask))
         /\ Range(OnWord(w, mask)) \subseteq On(w)
         /\ Range(OnWord(w, Bits)) = On(w)
         /\ Bucket(w) \in Buckets
<1> DEFINE q == table[Bucket(w)]
           S(m) == {e \in ToSet(q) : Uaddr(e) = w /\ op[e[1]].mask \cap m # {}}
<1>1. Bucket(w) \in Buckets
  BY LoadFacts DEF FInv, Types
<1>2. q \in Seq(Elems) /\ IsInjective(q)
  BY <1>1 DEF FInv, Types, Found
<1>3. \A m : OnWord(w, m) = Kept(q, S(m))
  BY DEF OnWord
<1>4. \A m : S(m) \subseteq Range(q) /\ S(m) \subseteq On(w)
  BY ToSetRange DEF On
<1>5. S(Bits) = On(w)
  <2> SUFFICES ASSUME NEW e \in On(w) PROVE e \in S(Bits)
    BY <1>4
  <2>1. e \in Range(q) /\ Uaddr(e) = w
    BY DEF On
  <2>2. e[1] \in Threads /\ Waiting(e[1])
    BY <1>1, <2>1, EntryFacts
  <2>3. op[e[1]].mask # {} /\ op[e[1]].mask \subseteq Bits
    BY <2>2 DEF FInv, Types, Ops, Call, InWait
  <2> QED BY <2>1, <2>3, ToSetRange
<1>6. ASSUME NEW m
      PROVE  /\ OnWord(w, m) \in Seq(Elems) /\ IsInjective(OnWord(w, m))
             /\ Range(OnWord(w, m)) = S(m)
  <2>1. OnWord(w, m) = Kept(q, S(m)) /\ S(m) \subseteq Range(q)
    BY <1>3, <1>4
  <2> HIDE DEF S, q
  <2>2. \A X : /\ Kept(q, X) \in Seq(Elems) /\ IsInjective(Kept(q, X))
               /\ Range(Kept(q, X)) = Range(q) \cap X
    BY <1>2, KeptFacts
  <2>3. Range(q) \cap S(m) = S(m)
    BY <2>1
  <2> QED BY <2>1, <2>2, <2>3
<1> HIDE DEF S, q
<1> QED BY <1>1, <1>4, <1>5, <1>6

(* A step that takes the entries in hit off word w with a wake-up and moves
   the entries in move from w to w2: the buckets, the debts and the threads. *)
Relinked(hit, move, w2) ==
    \A b \in Buckets :
        /\ IsInjective(table'[b])
        /\ Range(table'[b]) = (Range(table[b]) \ (hit \cup move))
                              \cup (IF b = Bucket(w2) THEN move ELSE {})

Settled(w, S) == \A u \in Words : owed[u] /\ ~owed'[u] => u = w /\ On(w) \subseteq S

Moved(s, move, w2) ==
    /\ op'[s].pc = op[s].pc /\ op'[s].home = op[s].home
    /\ op'[s].exp = op[s].exp /\ op'[s].mask = op[s].mask
    /\ op'[s].at = op[s].at
    /\ op'[s].moved <=> op[s].moved \/ \E e \in move : e[1] = s
    /\ op'[s].words = [i \in DOMAIN op[s].words |->
                          IF <<s, i>> \in move THEN w2 ELSE op[s].words[i]]

Elsewhere(s) == ~InWait(s) /\ ~InWait(s)' /\ Call(s)'

LEMMA Relink ==
  ASSUME FInv, Types', UNCHANGED <<load, value>>,
         NEW w \in Words, NEW w2 \in Words, NEW hit, NEW move,
         hit \cup move \subseteq On(w),
         Relinked(hit, move, w2), Release(hit), Settled(w, hit \cup move),
         \A s \in Threads : (InWait(s) /\ Moved(s, move, w2)) \/ Elsewhere(s)
  PROVE  FInv'
<1> USE DEF Relinked, Settled, Moved, Elsewhere
<1>0. ASSUME NEW e \in hit \cup move
      PROVE  /\ e[1] \in Threads /\ e = <<e[1], e[2]>> /\ Waiting(e[1])
             /\ e[2] \in DOMAIN op[e[1]].words /\ Uaddr(e) = w
             /\ e \in Range(table[Bucket(w)])
  <2>1. e \in Range(table[Bucket(w)]) /\ Uaddr(e) = w
    BY DEF On
  <2> QED BY <2>1, OnWordFacts, EntryFacts
<1>1. \A s \in Threads : (InWait(s)' <=> InWait(s)) /\ (Waiting(s)' <=> Waiting(s))
  BY DEF InWait, Waiting
<1>2. ASSUME NEW s \in Threads
      PROVE  /\ woken'[s] <=> woken[s] \/ \E e \in hit : e[1] = s
             /\ park'[s] = "parked" => park[s] = "parked" /\ ~\E e \in hit : e[1] = s
  <2> DEFINE T == {e[1] : e \in hit}
  <2>1. /\ woken' = [t \in Threads |-> woken[t] \/ t \in T]
        /\ park' = [t \in Threads |-> IF t \notin T THEN park[t]
                                      ELSE IF park[t] = "parked" THEN "run" ELSE "token"]
    BY DEF Release, Unblock
  <2>2. s \in T <=> \E e \in hit : e[1] = s
    OBVIOUS
  <2> HIDE DEF T
  <2>3. woken'[s] <=> woken[s] \/ s \in T
    BY <2>1, Zenon
  <2>4. park'[s] = "parked" => park[s] = "parked" /\ s \notin T
    BY <2>1
  <2> QED BY <2>2, <2>3, <2>4
<1>3. ASSUME NEW s \in Threads, InWait(s)
      PROVE  /\ DOMAIN op[s].words = 1 .. Len(op[s].words) /\ Len(op[s].words) \in {1, 2}
             /\ op[s].words \in Seq(Words)
             /\ DOMAIN op'[s].words = DOMAIN op[s].words
             /\ op'[s].words \in Seq(Words) /\ Len(op'[s].words) = Len(op[s].words)
             /\ \A i \in DOMAIN op[s].words :
                   op'[s].words[i] = IF <<s, i>> \in move THEN w2 ELSE op[s].words[i]
  <2>1. op[s].words \in Seq(Words) /\ op'[s].words \in Seq(Words)
    BY DEF FInv, Types, Ops
  <2>2. Len(op[s].words) \in {1, 2}
    BY <1>3 DEF FInv, Call
  <2>3. op'[s].words = [i \in DOMAIN op[s].words |->
                                    IF <<s, i>> \in move THEN w2 ELSE op[s].words[i]]
    BY <1>3
  <2>4. DOMAIN op'[s].words = DOMAIN op[s].words
    BY <2>3
  <2>5. /\ DOMAIN op[s].words = 1 .. Len(op[s].words) /\ Len(op[s].words) \in Nat
        /\ DOMAIN op'[s].words = 1 .. Len(op'[s].words) /\ Len(op'[s].words) \in Nat
    BY <2>1, LenProperties
  <2>6. Len(op'[s].words) = Len(op[s].words)
    BY <2>4, <2>5
  <2> QED BY <2>1, <2>2, <2>3, <2>4, <2>5, <2>6
<1>4. ASSUME NEW b \in Buckets PROVE Found(b)'
  <2> SUFFICES ASSUME NEW e \in Range(table'[b])
               PROVE  /\ Waiting(e[1])' /\ e[2] \in DOMAIN op'[e[1]].words
                      /\ load'.hash[op'[e[1]].words[e[2]]] = b
    BY DEF Found, Bucket, Uaddr
  <2>1. CASE e \in Range(table[b]) /\ e \notin hit \cup move
    <3>1. /\ e[1] \in Threads /\ e = <<e[1], e[2]>> /\ Waiting(e[1])
          /\ e[2] \in DOMAIN op[e[1]].words /\ Bucket(Uaddr(e)) = b
      BY <2>1, EntryFacts
    <3>2. op'[e[1]].words[e[2]] = op[e[1]].words[e[2]]
          /\ DOMAIN op'[e[1]].words = DOMAIN op[e[1]].words
      BY <1>3, <2>1, <3>1 DEF InWait
    <3> QED BY <1>1, <3>1, <3>2 DEF Uaddr, Bucket
  <2>2. CASE b = Bucket(w2) /\ e \in move
    <3>1. /\ e[1] \in Threads /\ e = <<e[1], e[2]>> /\ Waiting(e[1])
          /\ e[2] \in DOMAIN op[e[1]].words
      BY <1>0, <2>2
    <3>2. op'[e[1]].words[e[2]] = w2
          /\ DOMAIN op'[e[1]].words = DOMAIN op[e[1]].words
      BY <1>3, <2>2, <3>1 DEF InWait
    <3> QED BY <1>1, <2>2, <3>1, <3>2 DEF Bucket
  <2> QED BY <2>1, <2>2
<1>5. ASSUME NEW s \in Threads PROVE Linked(s)'
  <2> SUFFICES ASSUME Waiting(s)', ~woken'[s], NEW i \in DOMAIN op'[s].words
               PROVE  <<s, i>> \in Range(table'[load'.hash[op'[s].words[i]]])
    BY DEF Linked, Bucket
  <2>1. Waiting(s) /\ InWait(s) /\ ~woken[s] /\ <<s, i>> \notin hit
    BY <1>1, <1>2 DEF InWait
  <2>2. /\ i \in DOMAIN op[s].words
        /\ op'[s].words[i] = IF <<s, i>> \in move THEN w2 ELSE op[s].words[i]
    BY <1>3, <2>1
  <2>3. <<s, i>> \in Range(table[Bucket(op[s].words[i])])
    BY <2>1, <2>2 DEF FInv, Linked
  <2>4. op[s].words[i] \in Words
    BY <2>2, LenProperties, ElementOfSeq DEF FInv, Types, Ops
  <2>5. Bucket(op[s].words[i]) \in Buckets /\ Bucket(w2) \in Buckets
    BY <2>4, LoadFacts DEF FInv, Types
  <2>6. CASE <<s, i>> \in move
    BY <2>2, <2>5, <2>6 DEF Bucket
  <2>7. CASE <<s, i>> \notin move
    <3>1. <<s, i>> \in Range(table'[Bucket(op[s].words[i])])
      BY <2>1, <2>3, <2>5, <2>7
    <3> QED BY <2>2, <2>7, <3>1 DEF Bucket
  <2> QED BY <2>6, <2>7
<1>6. ASSUME NEW s \in Threads PROVE Call(s)'
  <2>1. CASE InWait(s)
    <3>0. op'[s].pc = op[s].pc /\ op'[s].home = op[s].home
               /\ op'[s].exp = op[s].exp /\ op'[s].mask = op[s].mask
               /\ op'[s].at = op[s].at
               /\ (op'[s].moved <=> op[s].moved \/ \E e \in move : e[1] = s)
               /\ op'[s].words = [i \in DOMAIN op[s].words |->
                                    IF <<s, i>> \in move THEN w2 ELSE op[s].words[i]]
      BY <2>1
    <3>1. Call(s) /\ InWait(s)'
      BY <1>1, <2>1 DEF FInv
    <3>2. park'[s] = "parked" => op'[s].pc = "leave" /\ ~woken'[s]
      BY <1>2, <3>0, <3>1 DEF Call
    <3>3. op'[s].moved \/ op'[s].words = op'[s].home
      <4> SUFFICES ASSUME ~op'[s].moved PROVE op'[s].words = op[s].home
        BY <3>0
      <4>1. \A i \in DOMAIN op[s].words : <<s, i>> \notin move
        BY <3>0
      <4>2. op[s].words = op[s].home
        BY <2>1, <3>0, <3>1 DEF Call
      <4>3. op'[s].words = [i \in DOMAIN op[s].words |-> op[s].words[i]]
        BY <3>0, <4>1
      <4>4. op[s].words = [i \in DOMAIN op[s].words |-> op[s].words[i]]
        BY <1>3, <2>1
      <4> QED BY <4>2, <4>3, <4>4
    <3>4. Len(op'[s].words) = Len(op[s].words)
      BY <1>3, <2>1
    <3> QED BY <2>1, <3>0, <3>1, <3>2, <3>3, <3>4 DEF Call
  <2>2. CASE ~InWait(s)
    BY <2>2
  <2> QED BY <2>1, <2>2
<1>7. ASSUME NEW s \in Threads PROVE Seen(s)'
  <2> SUFFICES ASSUME ~op'[s].moved, ~woken'[s], NEW i \in DOMAIN op'[s].home,
                      Checked(s, i)', value'[op'[s].home[i]] # op'[s].exp[i]
               PROVE  owed'[op'[s].home[i]]
    BY DEF Seen
  <2>1. InWait(s) /\ Waiting(s)
    BY <1>1, <1>6 DEF Checked, InWait, Waiting, Call
  <2>2. /\ op'[s].pc = op[s].pc /\ op'[s].home = op[s].home
        /\ op'[s].exp = op[s].exp /\ op'[s].at = op[s].at
        /\ ~op[s].moved /\ ~\E e \in move : e[1] = s
    BY <2>1
  <2>3. ~woken[s] /\ ~\E e \in hit : e[1] = s
    BY <1>2
  <2>4. Checked(s, i)
    BY <1>2, <2>2 DEF Checked
  <2>5. owed[op[s].home[i]]
    BY <2>2, <2>3, <2>4 DEF FInv, Seen
  <2>6. op[s].home[i] \in Words
    BY <2>2, LenProperties, ElementOfSeq DEF FInv, Types, Ops
  <2>7. op[s].words = op[s].home
    BY <2>1, <2>2 DEF FInv, Call
  <2>8. <<s, i>> \in Range(table[Bucket(op[s].home[i])]) /\ Uaddr(<<s, i>>) = op[s].home[i]
    BY <2>1, <2>2, <2>3, <2>7 DEF FInv, Linked, Uaddr
  <2>9. <<s, i>> \notin hit \cup move
    BY <2>2, <2>3
  <2>10. <<s, i>> \in On(op[s].home[i])
    BY <2>8 DEF On
  <2> QED BY <2>2, <2>5, <2>6, <2>9, <2>10
<1> QED BY <1>4, <1>5, <1>6, <1>7 DEF FInv

(* What the flags and wake-ups of some entries do. *)
LEMMA ReleaseTypes ==
  ASSUME FInv, NEW hit, Release(hit)
  PROVE  /\ woken' \in [Threads -> BOOLEAN] /\ park' \in [Threads -> Phases]
         /\ \A s \in Threads : park'[s] = "parked" => park[s] = "parked"
<1> DEFINE T == {e[1] : e \in hit}
<1>1. /\ woken' = [t \in Threads |-> woken[t] \/ t \in T]
      /\ park' = [t \in Threads |-> IF t \notin T THEN park[t]
                                    ELSE IF park[t] = "parked" THEN "run" ELSE "token"]
  BY DEF Release, Unblock
<1> HIDE DEF T
<1>2. woken \in [Threads -> BOOLEAN] /\ park \in [Threads -> Phases]
  BY DEF FInv, Types
<1>3. woken' \in [Threads -> BOOLEAN]
  BY <1>1, Zenon
<1> QED BY <1>1, <1>2, <1>3 DEF Phases

(* Unlinking some of the entries of a word. *)
Unlinked(w, S) == [table EXCEPT ![Bucket(w)] = Kept(@, ToSet(@) \ S)]

LEMMA UnlinkFacts ==
  ASSUME FInv, NEW w \in Words, NEW S, S \subseteq On(w)
  PROVE  /\ Unlinked(w, S) \in [Buckets -> Seq(Elems)]
         /\ \A b \in Buckets : /\ IsInjective(Unlinked(w, S)[b])
                                /\ Range(Unlinked(w, S)[b]) = Range(table[b]) \ S
<1> DEFINE tb == Unlinked(w, S)
<1> USE DEF Unlinked
<1>1. Bucket(w) \in Buckets
  BY OnWordFacts
<1>2. ASSUME NEW b \in Buckets
      PROVE  /\ tb[b] \in Seq(Elems) /\ IsInjective(tb[b])
             /\ Range(tb[b]) = Range(table[b]) \ S
  <2>1. table[b] \in Seq(Elems) /\ IsInjective(table[b])
    BY DEF FInv, Types, Found
  <2>2. CASE b = Bucket(w)
    <3>1. tb[b] = Kept(table[b], ToSet(table[b]) \ S)
      BY <2>2 DEF FInv, Types
    <3>2. ToSet(table[b]) = Range(table[b])
      BY ToSetRange
    <3>3. \A X : /\ Kept(table[b], X) \in Seq(Elems) /\ IsInjective(Kept(table[b], X))
                 /\ Range(Kept(table[b], X)) = Range(table[b]) \cap X
      BY <2>1, KeptFacts
    <3> QED BY <3>1, <3>2, <3>3
  <2>3. CASE b # Bucket(w)
    <3>1. tb[b] = table[b]
      BY <2>3 DEF FInv, Types
    <3>2. \A e \in Range(table[b]) : e \notin On(w)
      <4> SUFFICES ASSUME NEW e \in Range(table[b]), e \in On(w) PROVE FALSE
        OBVIOUS
      <4>1. Bucket(Uaddr(e)) = b /\ Uaddr(e) = w
        BY EntryFacts DEF On
      <4> QED BY <2>3, <4>1
    <3> QED BY <2>1, <3>1, <3>2
  <2> QED BY <2>2, <2>3
<1>3. tb \in [Buckets -> Seq(Elems)]
  BY <1>2 DEF FInv, Types
<1> QED BY <1>2, <1>3

LEMMA WakeAddrFInv ==
  ASSUME FInv, NEW w \in Words, NEW n \in Nat, NEW mask, WakeAddr(w, n, mask),
         UNCHANGED <<value, sig, load>>,
         op' \in [Threads -> Ops],
         \A s \in Threads : \/ op'[s] = op[s]
                            \/ ~InWait(s) /\ ~InWait(s)' /\ Call(s)'
  PROVE  FInv'
<1> DEFINE first == First(OnWord(w, mask), n)
           hit == ToSet(first)
           left == ToSet(OnWord(w, Bits)) \ hit
<1>1. Range(first) \subseteq On(w) /\ hit = Range(first) /\ Bucket(w) \in Buckets
  BY OnWordFacts, FirstFacts, ToSetRange
<1>2. /\ table' = Unlinked(w, hit)
      /\ Release(hit)
      /\ owed' = [owed EXCEPT ![w] = @ /\ left # {}]
  BY DEF WakeAddr, Settle, Unlinked
<1>3. left = On(w) \ hit
  BY OnWordFacts, ToSetRange
<1> HIDE DEF first, hit, left
<1>4. /\ table' \in [Buckets -> Seq(Elems)]
      /\ \A b \in Buckets : /\ IsInjective(table'[b])
                             /\ Range(table'[b]) = Range(table[b]) \ hit
  BY <1>1, <1>2, UnlinkFacts
<1>5. Types'
  <2>1. owed' \in [Words -> BOOLEAN]
    BY <1>2 DEF FInv, Types
  <2> QED BY <1>2, <1>4, <2>1, ReleaseTypes DEF FInv, Types
<1> DEFINE move == {}
<1> HIDE DEF move
<1>6. Settled(w, hit \cup move)
  BY <1>2, <1>3 DEF FInv, Types, move, Settled
<1>7. hit \cup move \subseteq On(w)
  BY <1>1 DEF move
<1>8. Relinked(hit, move, w)
  BY <1>4 DEF move, Relinked
<1>9. ASSUME NEW s \in Threads
      PROVE  (InWait(s) /\ Moved(s, move, w)) \/ Elsewhere(s)
  <2>1. CASE op'[s] = op[s] /\ InWait(s)
    <3>1. op[s].words \in Seq(Words)
      BY DEF FInv, Types, Ops
    <3>2. op[s].words = [i \in DOMAIN op[s].words |->
                           IF <<s, i>> \in move THEN w ELSE op[s].words[i]]
      BY <3>1 DEF move
    <3>3. ~\E e \in move : e[1] = s
      BY DEF move
    <3> QED BY <2>1, <3>2, <3>3 DEF Moved
  <2>2. CASE op'[s] = op[s] /\ ~InWait(s)
    <3>1. Call(s) /\ (park'[s] = "parked" => park[s] = "parked")
      BY <1>2, ReleaseTypes DEF FInv
    <3>2. ~InWait(s)' /\ park'[s] # "parked"
      BY <2>2, <3>1 DEF InWait, Waiting, Call
    <3> QED BY <2>2, <3>1, <3>2 DEF Call, Elsewhere
  <2>3. CASE ~InWait(s) /\ ~InWait(s)' /\ Call(s)'
    BY <2>3 DEF Elsewhere
  <2> QED BY <2>1, <2>2, <2>3
<1> QED BY <1>2, <1>5, <1>6, <1>7, <1>8, <1>9, Relink

LEMMA WakeFInv ==
  ASSUME FInv, NEW t \in Threads, NEW w \in Words, NEW n \in Counts, NEW mask,
         Wake(t, w, n, mask)
  PROVE  FInv'
<1>1. op' \in [Threads -> Ops] /\ \A s \in Threads : op'[s] = op[s]
  BY DEF Wake, FInv, Types
<1>2. n \in Nat
  BY DEF Counts
<1> QED BY <1>1, <1>2, WakeAddrFInv DEF Wake

LEMMA OpWakeFInv ==
  ASSUME FInv, NEW t \in Threads, OpWake(t)
  PROVE  FInv'
<1>0. op[t].pc = "opwake" /\ park[t] # "parked" /\ Call(t) /\ op \in [Threads -> Ops]
      /\ op[t] \in Ops
  BY DEF OpWake, At, Awake, FInv, Types
<1>1. Len(op[t].home) = 2 /\ op[t].home \in Seq(Words) /\ op[t].at \in {1, 2}
      /\ op[t].words = <<>>
  BY <1>0 DEF Call, Ops, InWait, Waiting
<1>2. op[t].home[op[t].at] \in Words
  BY <1>1, ElementOfSeq
<1>3. \A s \in Threads \ {t} : op'[s] = op[s]
  BY <1>0 DEF OpWake
<1>4. /\ op'[t] \in Ops /\ op'[t].pc \in {"user", "opwake"} /\ op'[t].words = <<>>
      /\ op'[t].pc = "opwake" => op'[t].home = op[t].home
  <2>1. CASE op[t].at = 1 /\ op[t].cmp
    <3>1. op'[t] = [op[t] EXCEPT !.at = 2]
      BY <1>0, <2>1 DEF OpWake
    <3> QED BY <1>0, <1>1, <3>1 DEF Ops
  <2>2. CASE ~(op[t].at = 1 /\ op[t].cmp)
    <3>1. op'[t] = Out
      BY <1>0, <2>2 DEF OpWake
    <3> QED BY <3>1, OutFacts
  <2> QED BY <2>1, <2>2
<1>5. op' \in [Threads -> Ops]
  BY <1>0, <1>3, <1>4 DEF OpWake
<1>6. park'[t] # "parked"
  BY <1>0, ReleaseTypes DEF OpWake, WakeAddr
<1>7. ~InWait(t) /\ ~InWait(t)' /\ Call(t)'
  BY <1>0, <1>1, <1>4, <1>6 DEF InWait, Waiting, Call
<1>8. \A s \in Threads : \/ op'[s] = op[s]
                         \/ ~InWait(s) /\ ~InWait(s)' /\ Call(s)'
  BY <1>3, <1>7
<1> QED BY <1>2, <1>5, <1>8, WakeAddrFInv DEF OpWake

LEMMA ExitWakeFInv ==
  ASSUME FInv, NEW t \in Threads, ExitWake(t)
  PROVE  FInv'
<1>0. op[t].pc = "exit" /\ park[t] # "parked" /\ Call(t) /\ op \in [Threads -> Ops]
      /\ "gone" \in Pcs /\ load.tid \in Words
  BY LoadFacts DEF ExitWake, At, Awake, FInv, Types, Pcs
<1>1. /\ op' \in [Threads -> Ops] /\ op'[t].pc = "gone" /\ op'[t].words = op[t].words
      /\ \A s \in Threads \ {t} : op'[s] = op[s]
  BY <1>0, PcStep DEF ExitWake
<1>2. park'[t] # "parked"
  BY <1>0, ReleaseTypes DEF ExitWake, WakeAddr
<1>3. ~InWait(t) /\ ~InWait(t)' /\ Call(t)'
  BY <1>0, <1>1, <1>2 DEF InWait, Waiting, Call
<1>4. \A s \in Threads : \/ op'[s] = op[s]
                         \/ ~InWait(s) /\ ~InWait(s)' /\ Call(s)'
  BY <1>1, <1>3
<1> QED BY <1>0, <1>1, <1>4, WakeAddrFInv DEF ExitWake

LEMMA RequeueFInv ==
  ASSUME FInv, NEW t \in Threads, NEW w1 \in Words, NEW w2 \in Words,
         NEW n \in {0, 1}, NEW m \in Counts, Requeue(t, w1, w2, n, m)
  PROVE  FInv'
<1> DEFINE all == OnWord(w1, Bits)
           hit == First(all, n)
           move == First(SubSeq(all, Len(hit) + 1, Len(all)), m)
           H == ToSet(hit)
           M == ToSet(move)
           rest == Unlinked(w1, H \cup M)
<1>1. /\ table' = [rest EXCEPT ![Bucket(w2)] = Reverse(move) \o @]
      /\ op' = [s \in Threads |->
                  [op[s] EXCEPT !.moved = @ \/ s \in {e[1] : e \in M},
                                !.words = [i \in DOMAIN @ |->
                                   IF <<s, i>> \in M THEN w2 ELSE @[i]]]]
      /\ Release(H)
      /\ owed' = [owed EXCEPT ![w1] = @ /\ (ToSet(all) \ (H \cup M)) # {}]
      /\ UNCHANGED <<value, sig, load>>
  BY DEF Requeue, Settle, Unlinked
<1>2. /\ all \in Seq(Elems) /\ IsInjective(all) /\ ToSet(all) = On(w1) /\ Range(all) = On(w1)
      /\ Bucket(w1) \in Buckets /\ Bucket(w2) \in Buckets
  BY OnWordFacts, ToSetRange
<1> HIDE DEF all
<1>3. hit \in Seq(Elems) /\ Len(hit) \in 0 .. Len(all) /\ Range(hit) \subseteq On(w1)
  <2>1. n \in Nat
    OBVIOUS
  <2> QED BY <1>2, <2>1, FirstFacts
<1> HIDE DEF hit
<1>4. move \in Seq(Elems) /\ IsInjective(move) /\ Range(move) \subseteq On(w1)
  <2> DEFINE d == SubSeq(all, Len(hit) + 1, Len(all))
  <2>1. d \in Seq(Elems) /\ Range(d) \subseteq Range(all) /\ IsInjective(d)
    BY <1>2, <1>3, DropFacts
  <2>2. m \in Nat
    BY DEF Counts
  <2> HIDE DEF d
  <2>3. First(d, m) \in Seq(Elems) /\ IsInjective(First(d, m)) /\ Range(First(d, m)) \subseteq Range(d)
    BY <2>1, <2>2, FirstFacts
  <2> QED BY <1>2, <2>1, <2>3 DEF d
<1> HIDE DEF move
<1>5. H = Range(hit) /\ M = Range(move) /\ H \cup M \subseteq On(w1)
  BY <1>3, <1>4, ToSetRange
<1> HIDE DEF H, M
<1>6. /\ rest \in [Buckets -> Seq(Elems)]
      /\ \A b \in Buckets : /\ IsInjective(rest[b])
                            /\ Range(rest[b]) = Range(table[b]) \ (H \cup M)
  BY <1>5, UnlinkFacts
<1> HIDE DEF rest
<1>7. /\ Reverse(move) \o rest[Bucket(w2)] \in Seq(Elems)
      /\ Range(Reverse(move) \o rest[Bucket(w2)]) = M \cup Range(rest[Bucket(w2)])
      /\ IsInjective(Reverse(move) \o rest[Bucket(w2)])
  <2>1. /\ rest[Bucket(w2)] \in Seq(Elems) /\ IsInjective(rest[Bucket(w2)])
        /\ Range(move) \cap Range(rest[Bucket(w2)]) = {}
    BY <1>2, <1>5, <1>6
  <2> QED BY <1>4, <1>5, <2>1, PushFacts
<1>8. /\ table' \in [Buckets -> Seq(Elems)]
      /\ table'[Bucket(w2)] = Reverse(move) \o rest[Bucket(w2)]
      /\ \A b \in Buckets : b # Bucket(w2) => table'[b] = rest[b]
  BY <1>1, <1>2, <1>6, <1>7
<1>9. Relinked(H, M, w2)
  <2> SUFFICES ASSUME NEW b \in Buckets
               PROVE  /\ IsInjective(table'[b])
                      /\ Range(table'[b]) = (Range(table[b]) \ (H \cup M))
                                            \cup (IF b = Bucket(w2) THEN M ELSE {})
    BY DEF Relinked
  <2>1. CASE b = Bucket(w2)
    BY <1>6, <1>7, <1>8, <2>1
  <2>2. CASE b # Bucket(w2)
    BY <1>6, <1>8, <2>2
  <2> QED BY <2>1, <2>2
<1>10. ASSUME NEW s \in Threads
       PROVE  op'[s] \in Ops /\ Moved(s, M, w2) /\ (~InWait(s) => Elsewhere(s))
  <2> DEFINE r == op[s]
             ws == [i \in DOMAIN r.words |-> IF <<s, i>> \in M THEN w2 ELSE r.words[i]]
             mv == r.moved \/ s \in {e[1] : e \in M}
  <2>1. op'[s] = [op[s] EXCEPT !.moved = mv, !.words = ws]
    BY <1>1 DEF FInv, Types
  <2>2. r \in Ops /\ r.words \in Seq(Words)
    BY DEF FInv, Types, Ops
  <2>3. ws \in Seq(Words)
    <3>1. /\ DOMAIN r.words = 1 .. Len(r.words) /\ Len(r.words) \in Nat
          /\ \A i \in 1 .. Len(r.words) : r.words[i] \in Words
      BY <2>2, LenProperties, ElementOfSeq
    <3>2. \A i \in 1 .. Len(r.words) : (IF <<s, i>> \in M THEN w2 ELSE r.words[i]) \in Words
      BY <3>1
    <3> HIDE DEF r
    <3> QED BY <3>1, <3>2
  <2>4. mv \in BOOLEAN /\ (mv <=> r.moved \/ \E e \in M : e[1] = s)
    OBVIOUS
  <2> HIDE DEF ws, mv
  <2>5. /\ op'[s] \in Ops /\ op'[s].pc = r.pc /\ op'[s].home = r.home
        /\ op'[s].exp = r.exp /\ op'[s].mask = r.mask /\ op'[s].at = r.at
        /\ op'[s].moved = mv /\ op'[s].words = ws
    BY <2>1, <2>2, <2>3, <2>4 DEF Ops
  <2>6. Moved(s, M, w2)
    BY <2>4, <2>5 DEF Moved, ws
  <2>7. ASSUME ~InWait(s) PROVE Elsewhere(s)
    <3>1. Call(s) /\ (park'[s] = "parked" => park[s] = "parked")
      BY <1>1, ReleaseTypes DEF FInv
    <3>2. ~InWait(s)' /\ park'[s] # "parked"
      BY <2>5, <2>7, <3>1 DEF InWait, Waiting, Call
    <3>3. r.words = <<>>
      BY <2>7, <3>1 DEF Call
    <3>4. ws = <<>>
      <4>1. Len(ws) = 0
        BY <2>2, <3>3 DEF ws
      <4> QED BY <2>3, <4>1, EmptySeq
    <3> QED BY <2>5, <2>7, <3>1, <3>2, <3>4 DEF Call, Elsewhere
  <2> QED BY <2>5, <2>6, <2>7
<1>11. Types'
  <2>1. op' \in [Threads -> Ops]
    BY <1>1, <1>10
  <2>2. owed' \in [Words -> BOOLEAN]
    BY <1>1 DEF FInv, Types
  <2> QED BY <1>1, <1>8, <2>1, <2>2, ReleaseTypes DEF FInv, Types
<1>12. Settled(w1, H \cup M)
  BY <1>1, <1>2 DEF FInv, Types, Settled
<1>13. \A s \in Threads : (InWait(s) /\ Moved(s, M, w2)) \/ Elsewhere(s)
  BY <1>10
<1> QED BY <1>1, <1>5, <1>9, <1>11, <1>12, <1>13, Relink

----------------------------------------------------------------------------
(* The invariant and the theorems *)

LEMMA NextFInv == FInv /\ [Next]_fvars => FInv'
<1> SUFFICES ASSUME FInv, [Next]_fvars PROVE FInv'
  OBVIOUS
<1>1. CASE Next
  <2>1. PICK t \in Threads :
    \/ \E w \in Words, m \in SUBSET Bits : WaitCall(t, w, m)
    \/ JoinCall(t)
    \/ \E w1, w2 \in Words : WaitvCall(t, w1, w2)
    \/ Publish(t)
    \/ Check(t)
    \/ Sleep(t)
    \/ Timeout(t)
    \/ Signal(t)
    \/ Leave(t)
    \/ \E w \in Words, v \in Values : Store(t, w, v)
    \/ \E w \in Words, n \in Counts, m \in SUBSET Bits : Wake(t, w, n, m)
    \/ \E w1, w2 \in Words : OpRead(t, w1, w2)
    \/ OpWrite(t)
    \/ OpWake(t)
    \/ \E w1, w2 \in Words, n \in {0, 1}, m \in Counts : Requeue(t, w1, w2, n, m)
    \/ ExitStore(t)
    \/ ExitWake(t)
    BY <1>1 DEF Next
  <2> QED
    BY <2>1, WaitCallFInv, JoinCallFInv, WaitvCallFInv, PublishFInv, CheckFInv, SleepFInv,
       TimeoutFInv, SignalFInv, LeaveFInv, StoreFInv, WakeFInv, OpReadFInv, OpWriteFInv,
       OpWakeFInv, RequeueFInv, ExitStoreFInv, ExitWakeFInv
<1>2. CASE UNCHANGED fvars
  <2>1. UNCHANGED <<value, table, op, woken, sig, load, owed, park>>
    BY <1>2 DEF fvars
  <2>2. Types'
    BY <2>1 DEF FInv, Types
  <2>3. \A t \in Threads : Call(t)' /\ Linked(t)' /\ Seen(t)'
    BY <2>1 DEF FInv, Call, Linked, Seen, InWait, Waiting, Checked, Bucket
  <2>4. \A b \in Buckets : Found(b)'
    BY <2>1 DEF FInv, Found, Waiting, Bucket, Uaddr
  <2> QED BY <2>2, <2>3, <2>4 DEF FInv
<1> QED BY <1>1, <1>2

LEMMA Invariant == Spec => []FInv
  BY InitFInv, NextFInv, PTL DEF Spec

(* For any number of threads, words and buckets and every hash function: the
   table points only into frames of threads inside their waits (while none is
   killed there: sched.c:3701-3705), no entry is linked twice, and each is in
   the bucket where futex_wake_addr() and the requeue operations look for its
   word, also after a requeue between buckets. *)
THEOREM TableSound == Spec => []EntriesFindable
<1>1. FInv => EntriesFindable
  <2> SUFFICES ASSUME FInv PROVE EntriesFindable
    OBVIOUS
  <2>1. TypeOK
    <3>1. \A t \in Threads : op[t] \in Ops /\ Call(t)
      BY DEF FInv, Types
    <3>2. ASSUME NEW t \in Threads PROVE Len(op[t].words) <= 2
      <4>1. Len(op[t].words) \in {0, 1, 2}
        BY <3>1, EmptySeq DEF Call
      <4> DEFINE k == Len(op[t].words)
      <4>2. k \in {0, 1, 2}
        BY <4>1
      <4> HIDE DEF k
      <4>3. k <= 2
        BY <4>2
      <4> QED BY <4>3 DEF k
    <3> QED BY <3>1, <3>2 DEF TypeOK, FInv, Types, Ops, Pcs, Elems
  <2>2. ASSUME NEW b \in Buckets
        PROVE  /\ \A i, j \in DOMAIN table[b] : table[b][i] = table[b][j] => i = j
               /\ \A e \in ToSet(table[b]) : Waiting(e[1]) /\ Bucket(Uaddr(e)) = b
    BY ToSetRange DEF FInv, Found, IsInjective
  <2> QED BY <2>1, <2>2 DEF EntriesFindable
<1> QED BY <1>1, Invariant, PTL

(* However many wakers, requeues, signals and timeouts there are: nobody sleeps
   in sched_wait_flag() whose flag has been set or one of whose entries has
   been unlinked. *)
THEOREM SleepersWakeable == Spec => []SleeperWakeable
<1>1. FInv => SleeperWakeable
  <2> SUFFICES ASSUME FInv, NEW t \in Threads, park[t] = "parked"
               PROVE  ~woken[t] /\ \A e \in Entries(t) : Queued(e)
    BY DEF SleeperWakeable
  <2>1. op[t].pc = "leave" /\ ~woken[t]
    BY DEF FInv, Call
  <2>2. ASSUME NEW i \in DOMAIN op[t].words PROVE Queued(<<t, i>>)
    <3>1. <<t, i>> \in Range(table[Bucket(op[t].words[i])])
      BY <2>1 DEF FInv, Linked, Waiting
    <3>2. op[t].words[i] \in Words
      BY LenProperties, ElementOfSeq DEF FInv, Types, Ops
    <3>3. Bucket(op[t].words[i]) \in Buckets
      BY <3>2, LoadFacts DEF FInv, Types
    <3> QED BY <3>1, <3>3, ToSetRange DEF Queued
  <2> QED BY <2>1, <2>2 DEF Entries
<1> QED BY <1>1, Invariant, PTL

(* "Publish before checking", for every instance: a thread asleep on a word
   that no longer holds what it expected is one whose wake-up the writer of
   the word still has to send. *)
THEOREM StoresSeen == Spec => []StoreSeen
<1>1. FInv => StoreSeen
  <2> SUFFICES ASSUME FInv, NEW t \in Threads, park[t] = "parked", ~op[t].moved,
                      NEW i \in DOMAIN op[t].home,
                      value[op[t].home[i]] # op[t].exp[i]
               PROVE  owed[op[t].home[i]]
    BY DEF StoreSeen
  <2>1. ~woken[t] /\ Checked(t, i)
    BY DEF FInv, Call, Checked
  <2> QED BY <2>1 DEF FInv, Seen
<1> QED BY <1>1, Invariant, PTL
=============================================================================
