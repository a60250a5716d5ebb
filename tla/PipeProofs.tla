----------------------------- MODULE PipeProofs -----------------------------
(* Proofs about the pipe for every size, every number of readers and writers
   and every load.

   The bytes (DInv).  AtomicWrites is not inductive: that a chunk is published
   whole depends on what the writer staged before it dropped the lock, so Good
   says of every operation in progress what of its request is in the pipe and
   what is staged.  OldestFirst needs Snapshot: until another reader commits,
   what a reader has copied is what the ring begins with.

   Sleep (SInv).  A wake-up is on its way to a thread that has been popped
   (Owed) or has a mark; the two queues' properties are stated of threads that
   are asleep or about to be (Asleep), with no wake-up on the way.  For readers
   it matters in addition that a wake-up goes to one that will use it: a reader
   that is not interrupted is on the queue, or popped, only while it rests
   (Quiet), so whoever is popped is bound to look (Committed). *)
EXTENDS Pipe, QueueLemmas

(* The list walks of the wait queues *)

LEMMA WithoutFacts ==
  ASSUME NEW S, NEW q \in Seq(S), IsInjective(q), NEW t
  PROVE  /\ Without(q, t) \in Seq(S) /\ IsInjective(Without(q, t))
         /\ Range(Without(q, t)) = Range(q) \ {t}
<1>1. CASE t \in Range(q)
  <2>1. \E i \in DOMAIN q : q[i] = t
    BY <1>1 DEF Range
  <2>2. Place(q, t) \in DOMAIN q /\ q[Place(q, t)] = t
    BY <2>1 DEF Place
  <2> QED BY <1>1, <2>2, RemoveAtFacts DEF Without
<1>2. CASE t \notin Range(q)
  BY <1>2 DEF Without
<1> QED BY <1>1, <1>2

LEMMA CutFacts ==
  ASSUME NEW S, NEW q \in Seq(S), IsInjective(q), NEW t
  PROVE  /\ Cut(q, t) \in Seq(S) /\ IsInjective(Cut(q, t))
         /\ Range(Cut(q, t)) \subseteq Range(q)
         /\ t \in Range(q) => t \in Range(Cut(q, t))
         /\ t \notin Range(q) => Cut(q, t) = q
<1>1. CASE t \in Range(q)
  <2>1. \E i \in DOMAIN q : q[i] = t
    BY <1>1 DEF Range
  <2> DEFINE k == Place(q, t)
             p == SubSeq(q, 1, k)
  <2>2. k \in DOMAIN q /\ q[k] = t
    BY <2>1 DEF Place
  <2>3. k \in 0 .. Len(q) /\ k \in 1 .. k
    BY <2>2, LenProperties
  <2>4. /\ p \in Seq(S) /\ Len(p) = k /\ \A i \in 1 .. k : p[i] = q[i]
        /\ Range(p) \subseteq Range(q) /\ IsInjective(p)
    BY <2>3, PrefixFacts
  <2> HIDE DEF k, p
  <2>5. DOMAIN p = 1 .. k
    BY <2>4, LenProperties
  <2>6. t \in Range(p)
    BY <2>2, <2>3, <2>4, <2>5 DEF Range
  <2> QED BY <1>1, <2>4, <2>6 DEF Cut, k, p
<1>2. CASE t \notin Range(q)
  BY <1>2 DEF Cut
<1> QED BY <1>1, <1>2

LEMMA PushFacts ==
  ASSUME NEW S, NEW q \in Seq(S), IsInjective(q), NEW t \in S
  PROVE  /\ Push(q, t) \in Seq(S) /\ IsInjective(Push(q, t))
         /\ Range(Push(q, t)) = Range(q) \cup {t}
<1>1. CASE t \in Range(q)
  BY <1>1 DEF Push
<1>2. CASE t \notin Range(q)
  BY <1>2, AppendFacts DEF Push
<1> QED BY <1>1, <1>2

(* pipe_wait_pop(), or no pop. *)
LEMMA PopFacts ==
  ASSUME NEW S, NEW q \in Seq(S), IsInjective(q), NEW e \in {First(q), <<>>}
  PROVE  /\ Drop(q, Len(e)) \in Seq(S) /\ IsInjective(Drop(q, Len(e)))
         /\ Range(Drop(q, Len(e))) = Range(q) \ Range(e)
         /\ Range(e) \subseteq Range(q)
         /\ \A x, y \in Range(e) : x = y
         /\ e = First(q) /\ q # <<>> => e # <<>> /\ \E x \in S : Range(e) = {x}
         /\ e = First(q) /\ Range(q) # {} => \E x \in S : Range(e) = {x}
         /\ e = <<>> <=> Range(e) = {}
<1>1. Range(<<>>) = {} /\ Len(<<>>) = 0
  BY DEF Range
<1>2. CASE e = <<>>
  <2>1. Drop(q, 0) = q
    <3>1. SubSeq(q, 1, Len(q)) = q
      BY SubSeqFull
    <3> QED BY <3>1 DEF Drop
  <2>2. First(q) = <<>> => q = <<>>
    BY DEF First
  <2>3. q = <<>> => Range(q) = {}
    BY DEF Range
  <2> QED BY <1>1, <1>2, <2>1, <2>2, <2>3
<1>3. CASE e # <<>>
  <2>1. q # <<>> /\ e = <<Head(q)>>
    BY <1>3 DEF First
  <2>2. Range(e) = {Head(q)} /\ Len(e) = 1
    BY <2>1 DEF Range
  <2>3. Drop(q, 1) = Tail(q)
    <3>1. Tail(q) = SubSeq(q, 2, Len(q))
      BY <2>1, TailIsSubSeq
    <3> QED BY <3>1 DEF Drop
  <2>4. /\ Tail(q) \in Seq(S) /\ Head(q) \in Range(q) /\ Head(q) \in S
        /\ Range(q) = Range(Tail(q)) \cup {Head(q)}
        /\ IsInjective(Tail(q)) /\ Head(q) \notin Range(Tail(q))
    BY <2>1, TailFacts, HeadTailProperties
  <2> QED BY <2>1, <2>2, <2>3, <2>4
<1> QED BY <1>2, <1>3

----------------------------------------------------------------------------
(* The bytes *)

Ats == {"out", "enter", "copy", "staged", "block", "blockStaged", "woken", "wokenStaged", "owe"}
StagedAts == {"copy", "staged", "blockStaged", "wokenStaged"}

Ops == [at : Ats, user : BOOLEAN, nonblock : BOOLEAN, len : Nat, done : Nat,
        part : Seq(Bytes), owe : SUBSET Threads]

(* What thread t's operation may be: a write of at most Size bytes has nothing
   in the pipe until it has everything, and what pipe_write_user() has staged
   are the next bytes of the request, all of them if it fits. *)
Good(t, o) ==
    /\ o \in Ops
    /\ o.done <= o.len /\ Len(o.part) <= Size
    /\ o.at # "owe" => o.owe = {}
    /\ t \in Readers => o.at \in {"out", "enter", "copy", "block", "woken", "owe"}
    /\ t \in Writers =>
        /\ o.len <= Size => o.done = IF o.at = "owe" THEN o.len ELSE 0
        /\ o.at \in StagedAts =>
            /\ Len(o.part) <= o.len - o.done
            /\ o.len <= Size => Len(o.part) = o.len
            /\ \A i \in 1 .. Len(o.part) : o.part[i] = <<t, o.done + i, o.len>>

OpsGood == \A t \in Threads : Good(t, op[t])

Types ==
    /\ park \in [Threads -> Phases]
    /\ ring \in Seq(Bytes) /\ Len(ring) <= Size
    /\ open \subseteq {"read", "write"}
    /\ read_wait \in Seq(Readers) /\ IsInjective(read_wait)
    /\ write_wait \in Seq(Writers) /\ IsInjective(write_wait)
    /\ op \in [Threads -> Ops]
    /\ stale \in [Readers -> BOOLEAN]
    /\ sig \in [Threads -> BOOLEAN]
    /\ load \in Loads

(* What a reader has copied is what the ring begins with, until another reader
   commits. *)
Snapshot ==
    \A t \in Readers : op[t].at = "copy" /\ ~stale[t] =>
        /\ Len(op[t].part) <= Len(ring)
        /\ \A i \in 1 .. Len(op[t].part) : op[t].part[i] = ring[i]

(* Wherever a byte of a small write is, the next one follows. *)
Whole(r) ==
    \A i \in 1 .. Len(r) :
        r[i][2] < r[i][3] /\ r[i][3] <= Size
            => i < Len(r) /\ r[i + 1] = <<r[i][1], r[i][2] + 1, r[i][3]>>

DInv == Types /\ OpsGood /\ Snapshot /\ Whole(ring)

LEMMA OutGood == ASSUME NEW t \in Threads PROVE Good(t, Out)
<1>1. <<>> \in Seq(Bytes) /\ Len(<<>>) = 0
  BY EmptySeq
<1>2. Size \in Nat
  BY Sizes
<1>3. Out \in Ops
  BY <1>1 DEF Out, Ops, Ats
<1> QED BY <1>1, <1>2, <1>3 DEF Good, Out, StagedAts

LEMMA PutGood ==
  ASSUME DInv, NEW t \in Threads, NEW o, Good(t, o), op' = [op EXCEPT ![t] = o]
  PROVE  op' \in [Threads -> Ops] /\ OpsGood'
<1>1. op \in [Threads -> Ops] /\ o \in Ops
  BY DEF DInv, Types, Good
<1>2. \A u \in Threads : op'[u] = IF u = t THEN o ELSE op[u]
  BY <1>1
<1>3. op' \in [Threads -> Ops]
  BY <1>1
<1>4. ASSUME NEW u \in Threads PROVE Good(u, op'[u])
  BY <1>2 DEF DInv, OpsGood
<1> QED BY <1>3, <1>4 DEF OpsGood

LEMMA ReturnGood ==
  ASSUME DInv, NEW t \in Threads, Return(t)
  PROVE  op' \in [Threads -> Ops] /\ OpsGood'
  BY OutGood, PutGood DEF Return

(* A move to l with nothing else changed. *)
LEMMA GotoGood ==
  ASSUME DInv, NEW t \in Threads, NEW l \in Ats, Goto(t, l),
         op[t].at # "owe", l # "owe",
         l \in StagedAts => op[t].at \in StagedAts /\ t \in Writers,
         t \in Readers => l \in {"out", "enter", "copy", "block", "woken", "owe"}
  PROVE  op' \in [Threads -> Ops] /\ OpsGood'
<1> DEFINE o == [op[t] EXCEPT !.at = l]
<1>1. Good(t, op[t]) /\ op[t] \in Ops
  BY DEF DInv, OpsGood, Good
<1>2. /\ o \in Ops /\ o.at = l /\ o.done = op[t].done /\ o.len = op[t].len
      /\ o.part = op[t].part /\ o.owe = op[t].owe
  BY <1>1 DEF Ops
<1>3. op' = [op EXCEPT ![t] = o]
  BY DEF Goto
<1> HIDE DEF o
<1>4. Good(t, o)
  BY <1>1, <1>2 DEF Good
<1> QED BY <1>3, <1>4, PutGood

(* The bytes of a request. *)
LEMMA DataFacts ==
  ASSUME DInv, NEW t \in Writers, NEW a \in Nat, NEW b \in Nat, a <= b, b <= op[t].len
  PROVE  LET s == SubSeq(Data(t), a + 1, b) IN
         /\ s \in Seq(Bytes) /\ Len(s) = b - a
         /\ \A i \in 1 .. (b - a) : s[i] = <<t, a + i, op[t].len>>
<1> DEFINE n == op[t].len
           d == Data(t)
           s == SubSeq(d, a + 1, b)
<1>1. t \in Threads /\ n \in Nat
  BY Ends DEF DInv, Types, Ops
<1>2. \A k \in 1 .. n : d[k] = <<t, k, n>> /\ d[k] \in Bytes
  BY <1>1 DEF Data, Bytes
<1> HIDE DEF d, n
<1>3. \A i \in (a + 1) .. b : i \in 1 .. n
  BY <1>1 DEF n
<1>4. /\ s \in Seq(Bytes)
      /\ Len(s) = IF a + 1 <= b THEN b - (a + 1) + 1 ELSE 0
      /\ \A i \in 1 .. (b - (a + 1) + 1) : s[i] = d[(a + 1) + i - 1]
  BY <1>2, <1>3, SubSeqProperties
<1> HIDE DEF s
<1>5. Len(s) = b - a
  BY <1>4
<1>6. ASSUME NEW i \in 1 .. (b - a) PROVE s[i] = <<t, a + i, n>>
  <2>1. (a + 1) + i - 1 = a + i /\ b - (a + 1) + 1 = b - a /\ a + i \in 1 .. n
    BY <1>3
  <2>2. s[i] = d[a + i]
    BY <1>4, <2>1
  <2> QED BY <1>2, <2>1, <2>2
<1> QED BY <1>4, <1>5, <1>6 DEF s, d, n

LEMMA Kinds ==
  /\ \A t \in Threads : t \in Readers <=> t \notin Writers
  /\ Readers \subseteq Threads /\ Writers \subseteq Threads
  BY Ends

LEMMA QueuesFacts ==
  ASSUME DInv
  PROVE  /\ Range(read_wait) \subseteq Readers /\ Range(write_wait) \subseteq Writers
         /\ Len(ring) \in Nat /\ Space \in Nat /\ Size \in Nat
         /\ Space = Size - Len(ring)
  BY RangeOfSeq, LenProperties, Sizes DEF DInv, Types, Space

(* What the operations in progress become. *)
LEMMA ReaderOps ==
  ASSUME DInv, NEW t \in Threads,
         \/ ReadEmpty(t) \/ KernelRead(t) \/ UserSnapshot(t) \/ UserCommit(t)
         \/ UserRetry(t) \/ (t \in Readers /\ UserReadFault(t))
  PROVE  op' \in [Threads -> Ops] /\ OpsGood'
<1>0. /\ Good(t, op[t]) /\ op[t] \in Ops
      /\ t \in Readers /\ t \notin Writers
  BY Kinds DEF DInv, OpsGood, Good, ReadEmpty, KernelRead, UserSnapshot, UserCommit, UserRetry
<1>1. CASE Return(t)
  BY <1>1, ReturnGood
<1>2. CASE ReadEmpty(t) /\ ~Return(t)
  <2>1. Goto(t, "block") /\ op[t].at = "enter"
    BY <1>2 DEF ReadEmpty, At
  <2> QED BY <2>1, GotoGood DEF Ats, StagedAts
<1>3. CASE KernelRead(t) /\ ~Return(t)
  <2>1. PICK e \in {First(read_wait), <<>>} :
          op' = [op EXCEPT ![t].at = "owe", ![t].owe = Range(e)]
    BY <1>3 DEF KernelRead
  <2> DEFINE o == [op[t] EXCEPT !.at = "owe", !.owe = Range(e)]
  <2>2. Range(e) \subseteq Threads
    BY PopFacts, QueuesFacts, Kinds DEF DInv, Types
  <2>3. /\ o \in Ops /\ o.at = "owe" /\ o.done = op[t].done /\ o.len = op[t].len
        /\ o.part = op[t].part
    BY <1>0, <2>2 DEF Ops, Ats
  <2>4. op' = [op EXCEPT ![t] = o]
    BY <2>1 DEF DInv, Types, Ops
  <2> HIDE DEF o
  <2>5. Good(t, o)
    BY <1>0, <2>3 DEF Good
  <2> QED BY <2>4, <2>5, PutGood
<1>4. CASE UserSnapshot(t)
  <2> DEFINE n == Smaller(op[t].len, Len(ring))
             p == SubSeq(ring, 1, n)
             o == [op[t] EXCEPT !.at = "copy", !.part = p]
  <2>1. n \in 0 .. Len(ring) /\ Len(ring) <= Size /\ ring \in Seq(Bytes)
    BY <1>0, QueuesFacts DEF Smaller, Ops, DInv, Types
  <2>2. p \in Seq(Bytes) /\ Len(p) <= Size
    <3> HIDE DEF n
    <3>1. p \in Seq(Bytes) /\ Len(p) = n
      BY <2>1, PrefixFacts
    <3> QED BY <2>1, <3>1, QueuesFacts
  <2>3. op' = [op EXCEPT ![t] = o] /\ op[t].at = "enter"
    BY <1>4 DEF UserSnapshot, At
  <2> HIDE DEF p
  <2>4. /\ o \in Ops /\ o.at = "copy" /\ o.done = op[t].done /\ o.len = op[t].len
        /\ o.part = p /\ o.owe = op[t].owe
    BY <1>0, <2>2 DEF Ops, Ats
  <2> HIDE DEF o
  <2>5. Good(t, o)
    BY <1>0, <2>2, <2>3, <2>4 DEF Good
  <2> QED BY <2>3, <2>5, PutGood
<1>5. CASE UserRetry(t) /\ ~Return(t)
  <2> DEFINE o == [op[t] EXCEPT !.at = "enter", !.part = <<>>]
  <2>1. op' = [op EXCEPT ![t] = o] /\ op[t].at = "copy"
    BY <1>5 DEF UserRetry, At
  <2>2. <<>> \in Seq(Bytes) /\ Len(<<>>) = 0
    BY EmptySeq
  <2>3. /\ o \in Ops /\ o.at = "enter" /\ o.done = op[t].done /\ o.len = op[t].len
        /\ o.part = <<>> /\ o.owe = op[t].owe
    BY <1>0, <2>2 DEF Ops, Ats
  <2> HIDE DEF o
  <2>4. Good(t, o)
    BY <1>0, <2>1, <2>2, <2>3, QueuesFacts DEF Good
  <2> QED BY <2>1, <2>4, PutGood
<1> QED BY <1>1, <1>2, <1>3, <1>4, <1>5 DEF UserCommit, UserReadFault

LEMMA WriterOps ==
  ASSUME DInv, NEW t \in Threads,
         \/ Broken(t) \/ WriteFull(t) \/ KernelWrite(t) \/ UserStage(t) \/ UserPublish(t)
         \/ (t \in Writers /\ UserWriteFault(t))
  PROVE  op' \in [Threads -> Ops] /\ OpsGood'
<1>0. /\ Good(t, op[t]) /\ op[t] \in Ops
      /\ t \in Writers /\ t \notin Readers
  BY Kinds DEF DInv, OpsGood, Good, Broken, WriteFull, KernelWrite, UserStage, UserPublish
<1>q. Space \in Nat /\ Size \in Nat /\ Space <= Size
  BY QueuesFacts
<1>1. CASE Return(t)
  BY <1>1, ReturnGood
<1>2. CASE WriteFull(t) /\ ~Return(t)
  <2>1. PICK l \in {"block", "blockStaged"} :
          Goto(t, l) /\ (l = "block" <=> op[t].at = "enter")
    BY <1>2 DEF WriteFull
  <2>2. op[t].at \in {"enter", "copy", "staged"}
    BY <1>2 DEF WriteFull, At
  <2> QED BY <1>0, <2>1, <2>2, GotoGood DEF Ats, StagedAts
<1>3. CASE KernelWrite(t)
  <2> DEFINE n == Smaller(op[t].len - op[t].done, Space)
             d == op[t].done + n
  <2>1. PICK a \in {First(read_wait), <<>>}, b \in {First(write_wait), <<>>} :
          op' = [op EXCEPT ![t].at = "owe", ![t].done = d, ![t].owe = Range(a) \cup Range(b)]
    BY <1>3 DEF KernelWrite
  <2>2. Range(a) \cup Range(b) \subseteq Threads
    <3>1. Range(a) \subseteq Threads
      BY PopFacts, QueuesFacts, Kinds DEF DInv, Types
    <3>2. Range(b) \subseteq Threads
      BY PopFacts, QueuesFacts, Kinds DEF DInv, Types
    <3> QED BY <3>1, <3>2
  <2>3. /\ op[t].at = "enter" /\ Room(t)
        /\ op[t].len \in Nat /\ op[t].done \in Nat /\ op[t].done <= op[t].len
    BY <1>0, <1>3 DEF KernelWrite, At, Good, Ops
  <2>4. d \in Nat /\ d <= op[t].len /\ (op[t].len <= Size => d = op[t].len)
    BY <1>0, <1>q, <2>3 DEF Smaller, Good, Room
  <2> DEFINE o == [op[t] EXCEPT !.at = "owe", !.done = d, !.owe = Range(a) \cup Range(b)]
  <2> HIDE DEF d
  <2>5. /\ o \in Ops /\ o.at = "owe" /\ o.done = d /\ o.len = op[t].len
        /\ o.part = op[t].part
    BY <1>0, <2>2, <2>4 DEF Ops, Ats
  <2>6. op' = [op EXCEPT ![t] = o]
    BY <2>1 DEF DInv, Types, Ops
  <2> HIDE DEF o
  <2>7. Good(t, o)
    BY <1>0, <2>4, <2>5 DEF Good, StagedAts
  <2> QED BY <2>6, <2>7, PutGood
<1>4. CASE UserStage(t)
  <2> DEFINE e == Smaller(op[t].len, op[t].done + Space)
             p == SubSeq(Data(t), op[t].done + 1, e)
             o == [op[t] EXCEPT !.at = "copy", !.part = p]
  <2>1. /\ op[t].at = "enter" /\ Room(t) /\ op' = [op EXCEPT ![t] = o]
        /\ op[t].len \in Nat /\ op[t].done \in Nat /\ op[t].done <= op[t].len
    BY <1>0, <1>4 DEF UserStage, At, Good, Ops
  <2>2. /\ e \in Nat /\ op[t].done <= e /\ e <= op[t].len /\ e - op[t].done <= Size
        /\ op[t].len <= Size => op[t].done = 0 /\ e = op[t].len
    BY <1>0, <1>q, <2>1 DEF Smaller, Good, Room
  <2> HIDE DEF e
  <2>3. /\ p \in Seq(Bytes) /\ Len(p) = e - op[t].done
        /\ \A i \in 1 .. (e - op[t].done) : p[i] = <<t, op[t].done + i, op[t].len>>
    BY <1>0, <2>1, <2>2, DataFacts
  <2> HIDE DEF p
  <2>4. /\ o \in Ops /\ o.at = "copy" /\ o.done = op[t].done /\ o.len = op[t].len
        /\ o.part = p /\ o.owe = op[t].owe
    BY <1>0, <2>3 DEF Ops, Ats
  <2> HIDE DEF o
  <2>5. Good(t, o)
    <3>1. Len(p) <= Size /\ Len(p) <= op[t].len - op[t].done
      BY <2>1, <2>2, <2>3
    <3>2. op[t].len <= Size => Len(p) = op[t].len
      BY <2>1, <2>2, <2>3
    <3>3. o.owe = {} /\ (o.len <= Size => o.done = 0) /\ o.done <= o.len
      BY <1>0, <2>1, <2>4 DEF Good
    <3>4. \A i \in 1 .. Len(o.part) : o.part[i] = <<t, o.done + i, o.len>>
      BY <2>3, <2>4
    <3> QED BY <1>0, <2>4, <3>1, <3>2, <3>3, <3>4 DEF Good
  <2> QED BY <2>1, <2>5, PutGood
<1>5. CASE UserPublish(t) /\ ~Return(t)
  <2> DEFINE n == Smaller(Len(op[t].part), Space)
             d == op[t].done + n
             o == [op[t] EXCEPT !.at = "enter", !.done = d, !.part = <<>>]
  <2>1. /\ op[t].at \in StagedAts /\ Room(t) /\ d # op[t].len
        /\ op' = [op EXCEPT ![t].at = "enter", ![t].done = d, ![t].part = <<>>]
    BY <1>5 DEF UserPublish, At, StagedAts
  <2>2. /\ Len(op[t].part) \in Nat /\ op[t].done \in Nat /\ op[t].len \in Nat
        /\ Len(op[t].part) <= op[t].len - op[t].done
        /\ op[t].len <= Size => op[t].done = 0 /\ Len(op[t].part) = op[t].len
    BY <1>0, <2>1, LenProperties DEF Good, Ops, StagedAts
  <2>n. /\ n \in Nat /\ n <= Len(op[t].part)
        /\ op[t].len <= Size => n = Len(op[t].part)
    <3> HIDE DEF o
    <3>1. n = Len(op[t].part) \/ (n = Space /\ ~(Len(op[t].part) < Space))
      BY DEF Smaller
    <3>2. op[t].len <= Size => Space >= op[t].len
      BY <1>q, <2>1, <2>2 DEF Room
    <3> HIDE DEF n
    <3> QED BY <1>q, <2>2, <3>1, <3>2
  <2>3. d \in Nat /\ d <= op[t].len /\ ~(op[t].len <= Size)
    <3> HIDE DEF n, o
    <3>1. d \in Nat /\ d <= op[t].len
      BY <2>2, <2>n
    <3>2. op[t].len <= Size => d = op[t].len
      BY <2>2, <2>n
    <3> QED BY <2>1, <3>1, <3>2
  <2> HIDE DEF d
  <2>4. <<>> \in Seq(Bytes) /\ Len(<<>>) = 0
    BY EmptySeq
  <2>5. /\ o \in Ops /\ o.at = "enter" /\ o.done = d /\ o.len = op[t].len
        /\ o.part = <<>> /\ o.owe = op[t].owe
    BY <1>0, <2>3, <2>4 DEF Ops, Ats
  <2>6. op' = [op EXCEPT ![t] = o]
    BY <2>1 DEF DInv, Types, Ops
  <2> HIDE DEF o
  <2>7. Good(t, o)
    BY <1>0, <1>q, <2>1, <2>3, <2>4, <2>5 DEF Good, StagedAts
  <2> QED BY <2>6, <2>7, PutGood
<1> QED BY <1>1, <1>2, <1>3, <1>4, <1>5 DEF Broken, UserWriteFault

LEMMA OtherOps ==
  ASSUME DInv, NEW t \in Threads, Enter(t) \/ Owe(t) \/ SchedBlock(t) \/ Woken(t)
  PROVE  op' \in [Threads -> Ops] /\ OpsGood'
<1>0. Good(t, op[t]) /\ op[t] \in Ops
  BY DEF DInv, OpsGood, Good
<1>k. t \in Readers <=> t \notin Writers
  BY Kinds
<1>1. CASE Return(t)
  BY <1>1, ReturnGood
<1>2. CASE Enter(t)
  <2>1. PICK r \in load.calls[t] :
          op' = [op EXCEPT ![t] = [Out EXCEPT !.at = "enter", !.user = r.user, !.len = r.len,
                                              !.nonblock = r.nonblock]]
    BY <1>2 DEF Enter
  <2>2. r \in Calls
    BY LoadsOK DEF DInv, Types
  <2> DEFINE o == [Out EXCEPT !.at = "enter", !.user = r.user, !.len = r.len,
                              !.nonblock = r.nonblock]
  <2>3. <<>> \in Seq(Bytes) /\ Len(<<>>) = 0 /\ Size \in Nat
    BY EmptySeq, Sizes
  <2>4. /\ o \in Ops /\ o.at = "enter" /\ o.done = 0 /\ o.owe = {} /\ o.part = <<>>
        /\ o.len \in Nat
    BY <2>2, <2>3 DEF Out, Ops, Ats, Calls
  <2> HIDE DEF o
  <2>5. Good(t, o)
    BY <2>3, <2>4 DEF Good, StagedAts
  <2> QED BY <2>1, <2>5, PutGood DEF o
<1>3. CASE Owe(t) /\ ~Return(t)
  <2> DEFINE o == [op[t] EXCEPT !.at = "enter", !.owe = {}]
  <2>1. /\ op[t].at = "owe" /\ t \notin Readers /\ op[t].done # op[t].len
        /\ op' = [op EXCEPT ![t].at = "enter", ![t].owe = {}]
    BY <1>3 DEF Owe, At
  <2>2. /\ o \in Ops /\ o.at = "enter" /\ o.done = op[t].done /\ o.len = op[t].len
        /\ o.part = op[t].part /\ o.owe = {}
    BY <1>0 DEF Ops, Ats
  <2>3. op' = [op EXCEPT ![t] = o]
    BY <2>1 DEF DInv, Types, Ops
  <2> HIDE DEF o
  <2>4. Good(t, o)
    BY <1>0, <1>k, <2>1, <2>2 DEF Good, StagedAts
  <2> QED BY <2>3, <2>4, PutGood
<1>4. CASE SchedBlock(t)
  <2>1. PICK l \in {"woken", "wokenStaged"} : Goto(t, l) /\ (l = "woken" <=> op[t].at = "block")
    BY <1>4 DEF SchedBlock
  <2>2. op[t].at \in {"block", "blockStaged"}
    BY <1>4 DEF SchedBlock, At
  <2> QED BY <1>0, <1>k, <2>1, <2>2, GotoGood DEF Ats, StagedAts, Good
<1>5. CASE Woken(t) /\ ~Return(t)
  <2>1. PICK l \in {"enter", "staged"} : Goto(t, l) /\ (l = "enter" <=> op[t].at = "woken")
    BY <1>5 DEF Woken
  <2>2. op[t].at \in {"woken", "wokenStaged"}
    BY <1>5 DEF Woken, At
  <2> QED BY <1>0, <1>k, <2>1, <2>2, GotoGood DEF Ats, StagedAts, Good
<1> QED BY <1>1, <1>2, <1>3, <1>4, <1>5

LEMMA OpsGoodNext ==
  ASSUME DInv, [Next]_vars
  PROVE  op' \in [Threads -> Ops] /\ OpsGood'
<1>1. ASSUME op' = op PROVE op' \in [Threads -> Ops] /\ OpsGood'
  BY <1>1 DEF DInv, Types, OpsGood
<1>2. CASE \E t \in Threads : Enter(t) \/ Step(t)
  BY <1>2, ReaderOps, WriterOps, OtherOps DEF Step
<1>3. CASE \E t \in Readers : UserReadFault(t)
  BY <1>3, Kinds, ReaderOps
<1>4. CASE \E t \in Writers : UserWriteFault(t)
  BY <1>4, Kinds, WriterOps
<1>5. CASE \/ \E t \in Threads, s \in BOOLEAN : Interrupt(t, s)
           \/ CloseRead \/ CloseWrite \/ Create
           \/ UNCHANGED vars
  BY <1>1, <1>5 DEF Interrupt, CloseRead, CloseWrite, Create, vars
<1> QED BY <1>2, <1>3, <1>4, <1>5 DEF Next

(* The ring and what readers have copied of it *)

LEMMA DropWhole ==
  ASSUME DInv, NEW n \in 0 .. Len(ring)
  PROVE  /\ Drop(ring, n) \in Seq(Bytes) /\ Len(Drop(ring, n)) = Len(ring) - n
         /\ Whole(Drop(ring, n))
<1> DEFINE d == SubSeq(ring, n + 1, Len(ring))
<1>1. Len(ring) \in Nat /\ n \in Nat /\ n <= Len(ring)
  BY QueuesFacts
<1>2. /\ d \in Seq(Bytes) /\ Len(d) = Len(ring) - n
      /\ \A i \in 1 .. (Len(ring) - n) : d[i] = ring[n + i]
  BY DropFacts DEF DInv, Types
<1> HIDE DEF d
<1>3. Whole(d)
  <2> SUFFICES ASSUME NEW i \in 1 .. Len(d), d[i][2] < d[i][3], d[i][3] <= Size
               PROVE  i < Len(d) /\ d[i + 1] = <<d[i][1], d[i][2] + 1, d[i][3]>>
    BY DEF Whole
  <2> DEFINE k == n + i
  <2>1. k \in 1 .. Len(ring) /\ d[i] = ring[k]
    BY <1>1, <1>2
  <2>2. k < Len(ring) /\ ring[k + 1] = <<ring[k][1], ring[k][2] + 1, ring[k][3]>>
    BY <2>1 DEF DInv, Whole
  <2>3. i + 1 \in 1 .. (Len(ring) - n) /\ n + (i + 1) = k + 1 /\ i < Len(d)
    BY <1>1, <1>2, <2>2
  <2>4. d[i + 1] = ring[k + 1]
    BY <1>2, <2>3
  <2> QED BY <2>1, <2>2, <2>3, <2>4
<1> QED BY <1>2, <1>3 DEF d, Drop

(* The next bytes s of a request of len bytes: all of it if it is small. *)
Chunk(t, len, done, s) ==
    /\ len \in Nat /\ done \in Nat /\ s \in Seq(Bytes) /\ Len(s) <= Space
    /\ \A i \in 1 .. Len(s) : s[i] = <<t, done + i, len>>
    /\ len <= Size => done + Len(s) = len

LEMMA AddWhole ==
  ASSUME DInv, NEW t, NEW len, NEW done, NEW s, Chunk(t, len, done, s)
  PROVE  /\ ring \o s \in Seq(Bytes) /\ Len(ring \o s) <= Size
         /\ Len(ring \o s) = Len(ring) + Len(s)
         /\ \A i \in 1 .. Len(ring) : (ring \o s)[i] = ring[i]
         /\ Whole(ring \o s)
<1> USE DEF Chunk
<1> DEFINE r == ring \o s
<1>1. /\ Len(ring) \in Nat /\ Len(s) \in Nat /\ Len(ring) + Len(s) <= Size /\ Size \in Nat
  BY QueuesFacts, LenProperties
<1>2. /\ r \in Seq(Bytes) /\ Len(r) = Len(ring) + Len(s)
      /\ \A i \in 1 .. Len(ring) + Len(s) :
            r[i] = IF i <= Len(ring) THEN ring[i] ELSE s[i - Len(ring)]
  BY ConcatProperties DEF DInv, Types
<1> HIDE DEF r
<1>3. \A i \in 1 .. Len(ring) : r[i] = ring[i]
  BY <1>1, <1>2
<1>4. Whole(r)
  <2> SUFFICES ASSUME NEW i \in 1 .. Len(r), r[i][2] < r[i][3], r[i][3] <= Size
               PROVE  i < Len(r) /\ r[i + 1] = <<r[i][1], r[i][2] + 1, r[i][3]>>
    BY DEF Whole
  <2>1. CASE i <= Len(ring)
    <3>1. i \in 1 .. Len(ring) /\ r[i] = ring[i]
      BY <1>1, <1>2, <2>1
    <3>2. i < Len(ring) /\ ring[i + 1] = <<ring[i][1], ring[i][2] + 1, ring[i][3]>>
      BY <3>1 DEF DInv, Whole
    <3>3. i + 1 \in 1 .. Len(ring) /\ i < Len(r)
      BY <1>1, <1>2, <3>2
    <3>4. r[i + 1] = ring[i + 1]
      BY <1>3, <3>3
    <3> QED BY <3>1, <3>2, <3>3, <3>4
  <2>2. CASE i > Len(ring)
    <3> DEFINE k == i - Len(ring)
    <3>1. k \in 1 .. Len(s) /\ r[i] = s[k]
      BY <1>1, <1>2, <2>2
    <3>2. r[i] = <<t, done + k, len>>
      BY <3>1
    <3>3. done + k < len /\ len <= Size
      BY <3>2
    <3>4. k < Len(s)
      BY <1>1, <3>1, <3>3
    <3>5. /\ k + 1 \in 1 .. Len(s) /\ i + 1 \in 1 .. Len(ring) + Len(s)
          /\ ~(i + 1 <= Len(ring)) /\ i + 1 - Len(ring) = k + 1 /\ i < Len(r)
      BY <1>1, <1>2, <2>2, <3>4
    <3>6. r[i + 1] = s[k + 1]
      BY <1>2, <3>5, SMTT(30)
    <3>7. s[k + 1] = <<t, (done + k) + 1, len>>
      <4>1. done + (k + 1) = (done + k) + 1
        BY <3>1
      <4> QED BY <3>5, <4>1
    <3> QED BY <3>2, <3>5, <3>6, <3>7
  <2> QED BY <1>1, <1>2, <2>1, <2>2
<1> QED BY <1>1, <1>2, <1>3, <1>4 DEF r

RingOK ==
    /\ ring \in Seq(Bytes) /\ Len(ring) <= Size
    /\ Whole(ring)
    /\ stale \in [Readers -> BOOLEAN]
    /\ Snapshot

LEMMA RingRead ==
  ASSUME DInv, NEW t \in Threads, KernelRead(t) \/ UserCommit(t)
  PROVE  RingOK'
<1> USE DEF DInv, Types
<1>0. t \in Readers /\ op[t] \in Ops /\ Len(ring) \in Nat /\ Size \in Nat
  BY QueuesFacts DEF KernelRead, UserCommit
<1>1. PICK n \in 0 .. Len(ring) : ring' = Drop(ring, n) /\ Moved(t)
  <2>1. CASE KernelRead(t)
    <3>1. Smaller(op[t].len, Len(ring)) \in 0 .. Len(ring)
      BY <1>0 DEF Smaller, Ops
    <3> QED BY <2>1, <3>1 DEF KernelRead
  <2>2. CASE UserCommit(t)
    <3>1. Len(op[t].part) \in 0 .. Len(ring)
      <4>1. Len(op[t].part) \in Nat
        BY <1>0, LenProperties DEF Ops
      <4>2. Len(op[t].part) <= Len(ring)
        BY <1>0, <2>2 DEF Snapshot, UserCommit, At
      <4> QED BY <1>0, <4>1, <4>2
    <3> QED BY <2>2, <3>1 DEF UserCommit
  <2> QED BY <2>1, <2>2
<1>2. op'[t].at # "copy" /\ \A r \in Readers : r # t => op'[r] = op[r]
  <2>1. CASE Return(t)
    BY <2>1, <1>0, Kinds DEF Return, Out
  <2>2. CASE ~Return(t)
    <3>1. \E e : op' = [op EXCEPT ![t].at = "owe", ![t].owe = e]
      BY <2>2 DEF KernelRead, UserCommit
    <3> QED BY <1>0, <3>1, Kinds DEF Ops
  <2> QED BY <2>1, <2>2
<1>3. /\ stale' \in [Readers -> BOOLEAN]
      /\ \A r \in Readers : stale'[r] = (r # t /\ (stale[r] \/ op[r].at = "copy"))
  BY <1>1 DEF Moved
<1>4. Snapshot'
  BY <1>2, <1>3 DEF Snapshot
<1>5. /\ Drop(ring, n) \in Seq(Bytes) /\ Len(Drop(ring, n)) = Len(ring) - n
      /\ Whole(Drop(ring, n))
  BY DropWhole
<1>6. Len(Drop(ring, n)) <= Size
  BY <1>0, <1>5
<1> QED BY <1>1, <1>3, <1>4, <1>5, <1>6 DEF RingOK

LEMMA RingAppend ==
  ASSUME DInv, NEW t \in Writers, NEW len, NEW done, NEW s, Chunk(t, len, done, s),
         ring' = ring \o s, stale' = stale,
         \A r \in Readers : op'[r] = op[r]
  PROVE  RingOK' /\ Len(ring') >= Len(ring)
<1>a. /\ ring \o s \in Seq(Bytes) /\ Len(ring \o s) <= Size
      /\ Len(ring \o s) = Len(ring) + Len(s)
      /\ \A i \in 1 .. Len(ring) : (ring \o s)[i] = ring[i]
      /\ Whole(ring \o s)
  BY AddWhole
<1>1. /\ ring' \in Seq(Bytes) /\ Len(ring') <= Size
      /\ Len(ring') = Len(ring) + Len(s)
      /\ \A i \in 1 .. Len(ring) : ring'[i] = ring[i]
      /\ Whole(ring')
  BY <1>a
<1>2. Snapshot'
  <2> SUFFICES ASSUME NEW r \in Readers, op'[r].at = "copy", ~stale'[r]
               PROVE  /\ Len(op'[r].part) <= Len(ring')
                      /\ \A i \in 1 .. Len(op'[r].part) : op'[r].part[i] = ring'[i]
    BY DEF Snapshot
  <2>0. op'[r] = op[r] /\ op[r].at = "copy" /\ ~stale[r] /\ Snapshot
    BY DEF DInv
  <2>1. /\ Len(op[r].part) <= Len(ring)
        /\ \A i \in 1 .. Len(op[r].part) : op[r].part[i] = ring[i]
    BY <2>0 DEF Snapshot
  <2>2. Len(op[r].part) \in Nat /\ Len(ring) \in Nat /\ Len(s) \in Nat
    BY Kinds, LenProperties DEF DInv, Types, Ops, Chunk
  <2>3. \A i \in 1 .. Len(op[r].part) : i \in 1 .. Len(ring)
    BY <2>1, <2>2
  <2> QED BY <1>1, <2>0, <2>1, <2>2, <2>3
<1>3. Len(ring') >= Len(ring)
  BY <1>1, QueuesFacts, LenProperties DEF Chunk
<1> QED BY <1>1, <1>2, <1>3 DEF RingOK, DInv, Types

LEMMA RingKernelWrite ==
  ASSUME DInv, NEW t \in Threads, KernelWrite(t)
  PROVE  RingOK' /\ Len(ring') >= Len(ring)
<1> DEFINE n == Smaller(op[t].len - op[t].done, Space)
           d == op[t].done + n
           s == SubSeq(Data(t), op[t].done + 1, d)
<1>0. t \in Writers /\ op[t] \in Ops /\ Good(t, op[t]) /\ op[t].at = "enter" /\ Room(t)
  BY DEF KernelWrite, DInv, Types, OpsGood, At
<1>1. /\ op[t].len \in Nat /\ op[t].done \in Nat /\ op[t].done <= op[t].len
      /\ Space \in Nat
      /\ op[t].len <= Size => op[t].done = 0 /\ Space >= op[t].len
  BY <1>0, QueuesFacts DEF Good, Ops, Room
<1>2. /\ n \in Nat /\ n <= Space /\ n <= op[t].len - op[t].done
      /\ op[t].len <= Size => n = op[t].len
  BY <1>1 DEF Smaller
<1> HIDE DEF n
<1>3. d \in Nat /\ op[t].done <= d /\ d <= op[t].len /\ d - op[t].done = n
  BY <1>1, <1>2
<1> HIDE DEF d
<1>4. /\ s \in Seq(Bytes) /\ Len(s) = n
      /\ \A i \in 1 .. n : s[i] = <<t, op[t].done + i, op[t].len>>
  BY <1>0, <1>1, <1>3, DataFacts
<1>5. ring' = ring \o s /\ stale' = stale
  BY DEF KernelWrite, n, d
<1> HIDE DEF s
<1>6. \A r \in Readers : op'[r] = op[r]
  <2>1. PICK x, y : op' = [op EXCEPT ![t].at = "owe", ![t].done = x, ![t].owe = y]
    BY DEF KernelWrite
  <2>2. op' = [op EXCEPT ![t] = [op[t] EXCEPT !.at = "owe", !.done = x, !.owe = y]]
    BY <1>0, <2>1 DEF DInv, Types, Ops
  <2> QED BY <1>0, <2>2, Kinds DEF DInv, Types
<1>7. Chunk(t, op[t].len, op[t].done, s)
  <2>1. op[t].len <= Size => op[t].done + Len(s) = op[t].len
    BY <1>1, <1>2, <1>4
  <2> QED BY <1>1, <1>2, <1>4, <2>1 DEF Chunk
<1> QED BY <1>0, <1>5, <1>6, <1>7, RingAppend

LEMMA RingUserPublish ==
  ASSUME DInv, NEW t \in Threads, UserPublish(t)
  PROVE  RingOK' /\ Len(ring') >= Len(ring)
<1> DEFINE part == op[t].part
           n == Smaller(Len(part), Space)
           s == SubSeq(part, 1, n)
<1>0. t \in Writers /\ op[t] \in Ops /\ Good(t, op[t]) /\ op[t].at \in StagedAts /\ Room(t)
  BY DEF UserPublish, DInv, Types, OpsGood, At, StagedAts
<1>1. /\ op[t].len \in Nat /\ op[t].done \in Nat /\ Space \in Nat
      /\ part \in Seq(Bytes) /\ Len(part) \in Nat
      /\ \A i \in 1 .. Len(part) : part[i] = <<t, op[t].done + i, op[t].len>>
      /\ op[t].len <= Size => op[t].done = 0 /\ Len(part) = op[t].len /\ Space >= op[t].len
  BY <1>0, QueuesFacts, LenProperties DEF Good, Ops, Room, StagedAts
<1> HIDE DEF part
<1>2. /\ n \in 0 .. Len(part) /\ n <= Space
      /\ op[t].len <= Size => n = op[t].len
  BY <1>1 DEF Smaller
<1>3. ring' = ring \o s /\ stale' = stale
  BY DEF UserPublish, part
<1> HIDE DEF n
<1>4. s \in Seq(Bytes) /\ Len(s) = n /\ \A i \in 1 .. n : s[i] = part[i]
  BY <1>1, <1>2, PrefixFacts
<1> HIDE DEF s
<1>5. \A i \in 1 .. Len(s) : s[i] = <<t, op[t].done + i, op[t].len>>
  <2>1. \A i \in 1 .. Len(s) : i \in 1 .. n /\ i \in 1 .. Len(part)
    BY <1>1, <1>2, <1>4
  <2> QED BY <1>1, <1>4, <2>1
<1>6. \A r \in Readers : op'[r] = op[r]
  <2>1. \/ op' = [op EXCEPT ![t] = Out]
        \/ \E x, y : op' = [op EXCEPT ![t].at = "enter", ![t].done = x, ![t].part = y]
    BY DEF UserPublish, Return
  <2> QED BY <1>0, <2>1, Kinds DEF DInv, Types
<1>7. op[t].len <= Size => op[t].done + Len(s) = op[t].len
  BY <1>1, <1>2, <1>4
<1>8. Chunk(t, op[t].len, op[t].done, s)
  BY <1>1, <1>2, <1>4, <1>5, <1>7 DEF Chunk
<1> QED BY <1>0, <1>3, <1>6, <1>8, RingAppend

(* The ring stays, and no reader copies anything but what it is beginning
   with. *)
LEMMA RingStays ==
  ASSUME DInv, ring' = ring, stale' \in [Readers -> BOOLEAN],
         \A r \in Readers : op'[r].at = "copy" =>
            \/ op[r].at = "copy" /\ op'[r].part = op[r].part /\ (stale[r] => stale'[r])
            \/ \E n \in 0 .. Len(ring) : op'[r].part = SubSeq(ring, 1, n)
  PROVE  RingOK'
<1>1. Snapshot'
  <2> SUFFICES ASSUME NEW r \in Readers, op'[r].at = "copy", ~stale'[r]
               PROVE  /\ Len(op'[r].part) <= Len(ring)
                      /\ \A i \in 1 .. Len(op'[r].part) : op'[r].part[i] = ring[i]
    BY DEF Snapshot
  <2>1. CASE op[r].at = "copy" /\ op'[r].part = op[r].part /\ (stale[r] => stale'[r])
    BY <2>1 DEF DInv, Snapshot
  <2>2. ASSUME NEW n \in 0 .. Len(ring), op'[r].part = SubSeq(ring, 1, n)
        PROVE  /\ Len(op'[r].part) <= Len(ring)
               /\ \A i \in 1 .. Len(op'[r].part) : op'[r].part[i] = ring[i]
    <3>1. /\ Len(SubSeq(ring, 1, n)) = n
          /\ \A i \in 1 .. n : SubSeq(ring, 1, n)[i] = ring[i]
      BY PrefixFacts DEF DInv, Types
    <3>2. n <= Len(ring)
      BY QueuesFacts
    <3> QED BY <2>2, <3>1, <3>2
  <2> QED BY <2>1, <2>2
<1> QED BY <1>1 DEF DInv, Types, RingOK

LEMMA RingNext ==
  ASSUME DInv, [Next]_vars
  PROVE  RingOK'
<1> USE DEF DInv, Types
<1>s. stale \in [Readers -> BOOLEAN]
  OBVIOUS
<1>1. ASSUME op' = op, UNCHANGED <<ring, stale>> PROVE RingOK'
  BY <1>1, RingStays
<1>2. ASSUME NEW t \in Threads, NEW o, o.at # "copy",
             op' = [op EXCEPT ![t] = o], ring' = ring,
             stale' \in [Readers -> BOOLEAN], \A r \in Readers : r # t => stale'[r] = stale[r]
      PROVE  RingOK'
  <2>1. \A r \in Readers : op'[r].at = "copy" =>
            op[r].at = "copy" /\ op'[r].part = op[r].part /\ (stale[r] => stale'[r])
    BY <1>2, Kinds
  <2> QED BY <1>2, <2>1, RingStays
<1>3. ASSUME NEW t \in Threads, Return(t), ring' = ring,
             stale' \in [Readers -> BOOLEAN], \A r \in Readers : r # t => stale'[r] = stale[r]
      PROVE  RingOK'
  <2>1. Out.at # "copy"
    BY DEF Out
  <2> QED BY <1>2, <1>3, <2>1 DEF Return
<1>4. ASSUME NEW t \in Threads, NEW l, l # "copy", Goto(t, l), UNCHANGED <<ring, stale>>
      PROVE  RingOK'
  <2> DEFINE o == [op[t] EXCEPT !.at = l]
  <2>1. op' = [op EXCEPT ![t] = o] /\ o.at # "copy"
    BY <1>4 DEF Goto, Ops
  <2> QED BY <1>2, <1>4, <1>s, <2>1
<1>5. ASSUME NEW t \in Threads, ReadEmpty(t) \/ WriteFull(t) \/ SchedBlock(t) \/ Woken(t)
      PROVE  RingOK'
  BY <1>3, <1>4, <1>5, <1>s DEF ReadEmpty, WriteFull, SchedBlock, Woken
<1>6. ASSUME NEW t \in Threads, Broken(t) PROVE RingOK'
  BY <1>3, <1>6, <1>s DEF Broken
<1>7. ASSUME NEW t \in Threads, KernelRead(t) \/ UserCommit(t) \/ KernelWrite(t) \/ UserPublish(t)
      PROVE  RingOK'
  BY <1>7, RingRead, RingKernelWrite, RingUserPublish
<1>8. ASSUME NEW t \in Threads, UserSnapshot(t) PROVE RingOK'
  <2> DEFINE n == Smaller(op[t].len, Len(ring))
  <2>1. n \in 0 .. Len(ring)
    BY QueuesFacts DEF Smaller, Ops
  <2>2. /\ op'[t].part = SubSeq(ring, 1, n)
        /\ ring' = ring /\ stale' = [stale EXCEPT ![t] = FALSE]
        /\ \A r \in Readers : r # t => op'[r] = op[r]
    BY <1>8, Kinds DEF UserSnapshot, Ops
  <2>3. \A r \in Readers : r # t => stale'[r] = stale[r]
    BY <2>2
  <2>4. stale' \in [Readers -> BOOLEAN]
    BY <2>2
  <2> HIDE DEF n
  <2> QED BY <2>1, <2>2, <2>3, <2>4, RingStays
<1>9. ASSUME NEW t \in Threads, UserRetry(t) PROVE RingOK'
  <2>1. /\ ring' = ring /\ stale' \in [Readers -> BOOLEAN]
        /\ \A r \in Readers : r # t => stale'[r] = stale[r]
    BY <1>9 DEF UserRetry
  <2>2. CASE Return(t)
    BY <1>3, <2>1, <2>2
  <2>3. CASE ~Return(t)
    <3>1. /\ op'[t].at = "enter" /\ \A r \in Readers : r # t => op'[r] = op[r]
      BY <1>9, <2>3, Kinds DEF UserRetry, Ops
    <3> QED BY <2>1, <3>1, RingStays
  <2> QED BY <2>2, <2>3
<1>10. ASSUME NEW t \in Readers, UserReadFault(t) PROVE RingOK'
  BY <1>3, <1>10, Kinds DEF UserReadFault
<1>11. ASSUME NEW t \in Writers, UserWriteFault(t) PROVE RingOK'
  BY <1>3, <1>11, <1>s, Kinds DEF UserWriteFault
<1>12. ASSUME NEW t \in Threads, UserStage(t) PROVE RingOK'
  <2>1. t \notin Readers /\ UNCHANGED <<ring, stale>> /\ \A r \in Readers : op'[r] = op[r]
    BY <1>12, Kinds DEF UserStage
  <2> QED BY <2>1, RingStays
<1>13. ASSUME NEW t \in Threads, Owe(t) PROVE RingOK'
  <2>1. UNCHANGED <<ring, stale>>
    BY <1>13 DEF Owe
  <2>2. CASE Return(t)
    BY <1>3, <1>s, <2>1, <2>2
  <2>3. CASE ~Return(t)
    <3>1. op'[t].at = "enter" /\ \A r \in Readers : r # t => op'[r] = op[r]
      BY <1>13, <2>3, Kinds DEF Owe, Ops
    <3> QED BY <2>1, <3>1, RingStays
  <2> QED BY <2>2, <2>3
<1>14. ASSUME NEW t \in Threads, Enter(t) PROVE RingOK'
  <2>1. UNCHANGED <<ring, stale>>
    BY <1>14 DEF Enter
  <2>2. op'[t].at = "enter" /\ \A r \in Readers : r # t => op'[r] = op[r]
    BY <1>14, Kinds DEF Enter, Out
  <2> QED BY <2>1, <2>2, RingStays
<1>15. CASE Create
  <2>1. \A r \in Readers : op'[r].at # "copy"
    BY <1>15, Kinds DEF Create
  <2>2. <<>> \in Seq(Bytes) /\ Len(<<>>) = 0 /\ Size \in Nat
    BY EmptySeq, Sizes
  <2>3. Whole(<<>>)
    BY <2>2 DEF Whole
  <2> QED BY <1>15, <2>1, <2>2, <2>3 DEF Create, RingOK, Snapshot
<1>16. CASE \/ \E t \in Threads, s \in BOOLEAN : Interrupt(t, s)
            \/ CloseRead \/ CloseWrite \/ UNCHANGED vars
  BY <1>1, <1>16 DEF Interrupt, CloseRead, CloseWrite, vars
<1>17. CASE \E t \in Threads : Enter(t) \/ Step(t)
  BY <1>17, <1>5, <1>6, <1>7, <1>8, <1>9, <1>12, <1>13, <1>14 DEF Step
<1> QED BY <1>10, <1>11, <1>15, <1>16, <1>17 DEF Next

----------------------------------------------------------------------------
(* The queues and the rest of the state *)

QueuesOK ==
    /\ park \in [Threads -> Phases]
    /\ open \subseteq {"read", "write"}
    /\ read_wait \in Seq(Readers) /\ IsInjective(read_wait)
    /\ write_wait \in Seq(Writers) /\ IsInjective(write_wait)
    /\ sig \in [Threads -> BOOLEAN]
    /\ load \in Loads

LEMMA EmptyQueue == ASSUME NEW S PROVE <<>> \in Seq(S) /\ IsInjective(<<>>)
  BY EmptySeq DEF IsInjective

LEMMA QueuesStay == ASSUME DInv PROVE QueuesOK
  BY DEF DInv, Types, QueuesOK

(* What sched_unblock(), sched_block() and a signal leave of park. *)
LEMMA ParkTypes ==
  ASSUME DInv, (\E S : Unblock(S)) \/ (\E t \in Threads : Block(t) \/ Poke(t)) \/ park' = park
  PROVE  park' \in [Threads -> Phases]
<1>0. park \in [Threads -> Phases]
  BY DEF DInv, Types
<1>1. CASE \E S : Unblock(S)
  BY <1>0, <1>1 DEF Unblock, Phases
<1>2. ASSUME NEW t \in Threads, Block(t) \/ Poke(t) PROVE park' \in [Threads -> Phases]
  BY <1>0, <1>2 DEF Block, Poke, Phases
<1> QED BY <1>0, <1>1, <1>2

LEMMA QueuesNext ==
  ASSUME DInv, [Next]_vars
  PROVE  QueuesOK'
<1> DEFINE RQ == read_wait' \in Seq(Readers) /\ IsInjective(read_wait')
           WQ == write_wait' \in Seq(Writers) /\ IsInjective(write_wait')
           Same == read_wait' = read_wait /\ write_wait' = write_wait
           SG == sig' \in [Threads -> BOOLEAN]
<1>0. /\ read_wait \in Seq(Readers) /\ IsInjective(read_wait)
      /\ write_wait \in Seq(Writers) /\ IsInjective(write_wait)
      /\ sig \in [Threads -> BOOLEAN] /\ open \subseteq {"read", "write"} /\ load \in Loads
  BY DEF DInv, Types
<1>k. \A t \in Threads : Return(t) \/ UNCHANGED sig => SG
  BY <1>0 DEF Return
<1>w. ASSUME NEW a, NEW b, WakeAll(a, b) PROVE RQ /\ WQ /\ \E S : Unblock(S)
  BY <1>0, <1>w, EmptyQueue DEF WakeAll
<1>p. ASSUME NEW e \in {First(read_wait), <<>>}, read_wait' = Drop(read_wait, Len(e))
      PROVE  RQ
  BY <1>0, <1>p, PopFacts
<1>q. ASSUME NEW e \in {First(write_wait), <<>>}, write_wait' = Drop(write_wait, Len(e))
      PROVE  WQ
  BY <1>0, <1>q, PopFacts
<1>1. ASSUME NEW t \in Threads,
             Enter(t) \/ UserSnapshot(t) \/ UserRetry(t) \/ Broken(t) \/ UserStage(t)
      PROVE  QueuesOK'
  <2>1. /\ UNCHANGED <<park, open, read_wait, write_wait, load>>
        /\ UNCHANGED sig \/ Return(t)
    BY <1>1 DEF Enter, UserSnapshot, UserRetry, Broken, UserStage
  <2> QED BY <1>0, <1>k, <2>1, ParkTypes DEF QueuesOK
<1>2. ASSUME NEW t \in Threads, ReadEmpty(t) PROVE QueuesOK'
  <2>1. /\ UNCHANGED <<park, open, write_wait, load>> /\ t \in Readers
        /\ UNCHANGED sig \/ Return(t)
        /\ read_wait' = read_wait \/ read_wait' = Push(read_wait, t)
    BY <1>2 DEF ReadEmpty
  <2>2. RQ
    BY <1>0, <2>1, PushFacts
  <2> QED BY <1>0, <1>k, <2>1, <2>2, ParkTypes DEF QueuesOK
<1>3. ASSUME NEW t \in Threads, WriteFull(t) PROVE QueuesOK'
  <2>1. /\ UNCHANGED <<park, open, read_wait, load>> /\ t \in Writers
        /\ UNCHANGED sig \/ Return(t)
        /\ write_wait' = write_wait \/ write_wait' = Push(write_wait, t)
    BY <1>3 DEF WriteFull
  <2>2. WQ
    BY <1>0, <2>1, PushFacts
  <2> QED BY <1>0, <1>k, <2>1, <2>2, ParkTypes DEF QueuesOK
<1>4. ASSUME NEW t \in Threads, KernelRead(t) PROVE QueuesOK'
  <2>1. /\ UNCHANGED <<open, load>> /\ (UNCHANGED sig \/ Return(t))
        /\ \E S : Unblock(S)
        /\ \E e \in {First(read_wait), <<>>} : read_wait' = Drop(read_wait, Len(e))
        /\ write_wait' = <<>>
    BY <1>4 DEF KernelRead
  <2>2. RQ
    BY <1>p, <2>1
  <2> QED BY <1>0, <1>k, <2>1, <2>2, ParkTypes, EmptyQueue DEF QueuesOK
<1>5. ASSUME NEW t \in Threads,
             UserCommit(t) \/ UserReadFault(t) \/ UserWriteFault(t) \/ UserPublish(t)
      PROVE  QueuesOK'
  <2>1. /\ UNCHANGED <<open, load>> /\ (UNCHANGED sig \/ Return(t))
        /\ \E a, b : WakeAll(a, b)
    BY <1>5 DEF UserCommit, UserReadFault, UserWriteFault, UserPublish
  <2> QED BY <1>0, <1>k, <1>w, <2>1, ParkTypes DEF QueuesOK
<1>6. ASSUME NEW t \in Threads, KernelWrite(t) PROVE QueuesOK'
  <2>1. /\ UNCHANGED <<park, open, sig, load>>
        /\ \E e \in {First(read_wait), <<>>} : read_wait' = Drop(read_wait, Len(e))
        /\ \E e \in {First(write_wait), <<>>} : write_wait' = Drop(write_wait, Len(e))
    BY <1>6 DEF KernelWrite
  <2>2. RQ /\ WQ
    BY <1>p, <1>q, <2>1
  <2> QED BY <1>0, <2>1, <2>2, ParkTypes DEF QueuesOK
<1>7. ASSUME NEW t \in Threads, Owe(t) \/ SchedBlock(t) PROVE QueuesOK'
  <2>1. /\ UNCHANGED <<open, read_wait, write_wait, load>> /\ (UNCHANGED sig \/ Return(t))
        /\ (\E S : Unblock(S)) \/ Block(t)
    BY <1>7 DEF Owe, SchedBlock
  <2> QED BY <1>0, <1>k, <2>1, ParkTypes DEF QueuesOK
<1>8. ASSUME NEW t \in Threads, Woken(t) PROVE QueuesOK'
  <2>1. /\ UNCHANGED <<park, open, load>> /\ (UNCHANGED sig \/ Return(t))
        /\ read_wait' = read_wait \/ read_wait' = Without(read_wait, t)
        /\ write_wait' = write_wait \/ write_wait' = Without(write_wait, t)
    BY <1>8 DEF Woken
  <2>2. RQ
    BY <1>0, <2>1, WithoutFacts
  <2>3. WQ
    BY <1>0, <2>1, WithoutFacts
  <2> QED BY <1>0, <1>k, <2>1, <2>2, <2>3, ParkTypes DEF QueuesOK
<1>9. ASSUME NEW t \in Threads, NEW s \in BOOLEAN, Interrupt(t, s) PROVE QueuesOK'
  <2>1. /\ UNCHANGED <<open, load>> /\ Poke(t)
        /\ read_wait' = read_wait \/ read_wait' = Cut(read_wait, t)
        /\ write_wait' = write_wait \/ write_wait' = Cut(write_wait, t)
        /\ sig' = [sig EXCEPT ![t] = @ \/ s]
    BY <1>9 DEF Interrupt
  <2>2. RQ
    BY <1>0, <2>1, CutFacts
  <2>3. WQ
    BY <1>0, <2>1, CutFacts
  <2>4. SG
    BY <1>0, <2>1
  <2> QED BY <1>0, <2>1, <2>2, <2>3, <2>4, ParkTypes DEF QueuesOK
<1>10. CASE CloseRead \/ CloseWrite
  <2>1. /\ UNCHANGED <<sig, load>> /\ open' \subseteq open
        /\ \E a, b : WakeAll(a, b)
    BY <1>10 DEF CloseRead, CloseWrite
  <2> QED BY <1>0, <1>w, <2>1, ParkTypes DEF QueuesOK
<1>11. CASE Create
  BY <1>0, <1>11, ParkTypes, EmptyQueue DEF Create, QueuesOK
<1>12. CASE UNCHANGED vars
  BY <1>0, <1>12, ParkTypes DEF vars, QueuesOK
<1> QED
  BY <1>1, <1>2, <1>3, <1>4, <1>5, <1>6, <1>7, <1>8, <1>9, <1>10, <1>11, <1>12, Kinds
     DEF Next, Step

LEMMA DInvInit == Init => DInv
<1> SUFFICES ASSUME Init PROVE DInv
  OBVIOUS
<1> USE DEF Init
<1>1. Size \in Nat /\ <<>> \in Seq(Bytes) /\ Len(<<>>) = 0
  BY Sizes, EmptySeq
<1>2. \A t \in Threads : op[t] = Out /\ Good(t, op[t])
  BY OutGood
<1>3. op \in [Threads -> Ops] /\ OpsGood
  BY <1>2, OutGood DEF OpsGood, Good
<1>4. Snapshot
  BY <1>2, Kinds DEF Snapshot, Out
<1>5. Whole(ring)
  BY <1>1 DEF Whole
<1>6. Types
  BY <1>1, <1>3, EmptyQueue DEF Types, AllRun, Phases
<1> QED BY <1>3, <1>4, <1>5, <1>6 DEF DInv

LEMMA DInvNext == DInv /\ [Next]_vars => DInv'
  BY OpsGoodNext, RingNext, QueuesNext DEF DInv, Types, RingOK, QueuesOK

LEMMA DInvTypes == DInv => TypeOK
<1> SUFFICES ASSUME DInv PROVE TypeOK
  OBVIOUS
<1>1. ASSUME NEW t \in Threads
      PROVE  /\ op[t].at \in {"out", "enter", "copy", "staged", "block", "blockStaged",
                              "woken", "wokenStaged", "owe"}
             /\ op[t].len \in Nat /\ op[t].done \in 0 .. op[t].len
             /\ op[t].part \in Seq(Bytes) /\ Len(op[t].part) <= Size
             /\ op[t].owe \subseteq Threads
  BY DEF DInv, OpsGood, Good, Ops, Ats
<1> QED BY <1>1 DEF TypeOK, DInv, Types

(* For every pipe size, every set of readers and writers and whatever they do:
   a write of at most PIPE_BUFFER_SIZE bytes is never split or interleaved,
   although pipe_write_user() drops the lock between its check for room and
   the publication of the chunk. *)
THEOREM SmallWritesWhole == Spec => []AtomicWrites
<1>1. DInv => AtomicWrites
  <2> SUFFICES ASSUME DInv PROVE AtomicWrites
    OBVIOUS
  <2>1. DOMAIN ring = 1 .. Len(ring)
    BY LenProperties DEF DInv, Types
  <2> QED BY <2>1, DInvTypes DEF AtomicWrites, DInv, Whole
<1> QED BY <1>1, DInvInit, DInvNext, PTL DEF Spec

(* A commit takes from the ring what the reader copied. *)
LEMMA CommitTakes ==
  ASSUME DInv, NEW t \in Threads, UserCommit(t)
  PROVE  ring = op[t].part \o ring'
<1> DEFINE p == op[t].part
           d == SubSeq(ring, Len(p) + 1, Len(ring))
<1>1. /\ t \in Readers /\ ring' = d /\ ring \in Seq(Bytes) /\ p \in Seq(Bytes)
      /\ Len(p) <= Len(ring) /\ \A i \in 1 .. Len(p) : p[i] = ring[i]
  BY DEF UserCommit, At, DInv, Types, Ops, Snapshot, Drop
<1> HIDE DEF p
<1>2. Len(p) \in Nat /\ Len(ring) \in Nat /\ Len(p) \in 0 .. Len(ring)
  BY <1>1, LenProperties
<1>3. /\ d \in Seq(Bytes) /\ Len(d) = Len(ring) - Len(p)
      /\ \A i \in 1 .. (Len(ring) - Len(p)) : d[i] = ring[Len(p) + i]
  BY <1>1, <1>2, DropFacts
<1> HIDE DEF d
<1>4. /\ p \o d \in Seq(Bytes) /\ Len(p \o d) = Len(p) + Len(d)
      /\ \A i \in 1 .. (Len(p) + Len(d)) :
            (p \o d)[i] = IF i <= Len(p) THEN p[i] ELSE d[i - Len(p)]
  BY <1>1, <1>3, ConcatProperties
<1>5. Len(p) + Len(d) = Len(ring)
  <2>1. Len(p) + (Len(ring) - Len(p)) = Len(ring)
    BY <1>2
  <2> QED BY <1>3, <2>1
<1>6. ASSUME NEW i \in 1 .. Len(ring) PROVE (p \o d)[i] = ring[i]
  <2>1. CASE i <= Len(p)
    BY <1>1, <1>2, <1>4, <1>5, <2>1
  <2>2. CASE ~(i <= Len(p))
    <3>1. i - Len(p) \in 1 .. (Len(ring) - Len(p)) /\ Len(p) + (i - Len(p)) = i
      BY <1>2, <2>2
    <3> QED BY <1>3, <1>4, <1>5, <2>2, <3>1
  <2> QED BY <2>1, <2>2
<1>7. p \o d = ring
  BY <1>1, <1>2, <1>4, <1>5, <1>6, SeqEqual
<1> QED BY <1>1, <1>7 DEF p

(* For every pipe size and number of readers: what pipe_read_user() removes
   are the bytes it copied out without the lock, and they are the oldest. *)
THEOREM ReadsOldestFirst == Spec => OldestFirst
<1>1. ASSUME DInv, [Next]_vars, NEW r \in Readers,
             op[r].at = "copy", op'[r].at = "out", ring' # ring
      PROVE  ring = op[r].part \o ring'
  <2>0. r \in Threads /\ r \notin Writers
    BY Kinds
  <2>1. CASE UserCommit(r)
    BY <1>1, <2>0, <2>1, CommitTakes
  <2>2. CASE \E t \in Threads : t # r /\ (KernelRead(t) \/ UserCommit(t) \/ KernelWrite(t) \/ UserPublish(t))
    <3>1. PICK t \in Threads : t # r /\ (KernelRead(t) \/ UserCommit(t) \/ KernelWrite(t) \/ UserPublish(t))
      BY <2>2
    <3>2. \E o : op' = [op EXCEPT ![t] = o]
      <4>1. CASE Return(t)
        BY <4>1 DEF Return
      <4>2. CASE KernelRead(t) /\ ~Return(t)
        <5>1. PICK e : op' = [op EXCEPT ![t].at = "owe", ![t].owe = e]
          BY <4>2 DEF KernelRead
        <5>2. op' = [op EXCEPT ![t] = [op[t] EXCEPT !.at = "owe", !.owe = e]]
          BY <1>1, <5>1 DEF DInv, Types, Ops
        <5> QED BY <5>2
      <4>3. CASE KernelWrite(t)
        <5>1. PICK x, y : op' = [op EXCEPT ![t].at = "owe", ![t].done = x, ![t].owe = y]
          BY <4>3 DEF KernelWrite
        <5>2. op' = [op EXCEPT ![t] = [op[t] EXCEPT !.at = "owe", !.done = x, !.owe = y]]
          BY <1>1, <5>1 DEF DInv, Types, Ops
        <5> QED BY <5>2
      <4>4. CASE UserPublish(t) /\ ~Return(t)
        <5>1. PICK x, y : op' = [op EXCEPT ![t].at = "enter", ![t].done = x, ![t].part = y]
          BY <4>4 DEF UserPublish
        <5>2. op' = [op EXCEPT ![t] = [op[t] EXCEPT !.at = "enter", !.done = x, !.part = y]]
          BY <1>1, <5>1 DEF DInv, Types, Ops
        <5> QED BY <5>2
      <4> QED BY <3>1, <4>1, <4>2, <4>3, <4>4 DEF UserCommit
    <3>3. op'[r] = op[r]
      BY <1>1, <2>0, <3>1, <3>2 DEF DInv, Types
    <3> QED BY <1>1, <3>3
  <2>3. ~KernelRead(r) /\ ~KernelWrite(r) /\ ~UserPublish(r)
    BY <1>1, <2>0 DEF KernelRead, KernelWrite, UserPublish, At
  <2>4. CASE \/ \E t \in Threads :
                   \/ Enter(t) \/ ReadEmpty(t) \/ UserSnapshot(t) \/ UserRetry(t) \/ Broken(t)
                   \/ WriteFull(t) \/ Owe(t) \/ UserStage(t) \/ SchedBlock(t) \/ Woken(t)
             \/ \E t \in Readers : UserReadFault(t)
             \/ \E t \in Writers : UserWriteFault(t)
             \/ \E t \in Threads, s \in BOOLEAN : Interrupt(t, s)
             \/ CloseRead \/ CloseWrite \/ UNCHANGED vars
    <3>1. ring' = ring
      BY <2>4 DEF Enter, ReadEmpty, UserSnapshot, UserRetry, Broken, WriteFull, Owe, UserStage,
                  SchedBlock, Woken, UserReadFault, UserWriteFault, Interrupt, CloseRead,
                  CloseWrite, vars
    <3> QED BY <1>1, <3>1
  <2>5. CASE Create
    <3>1. op[r].at = "out"
      BY <2>0, <2>5 DEF Create
    <3> QED BY <1>1, <3>1
  <2> QED BY <1>1, <2>1, <2>2, <2>3, <2>4, <2>5 DEF Next, Step
<1>2. DInv /\ [Next]_vars =>
        [\A t \in Readers :
            op[t].at = "copy" /\ op'[t].at = "out" /\ ring' # ring
                => ring = op[t].part \o ring']_vars
  BY <1>1
<1>3. Spec => []DInv
  BY DInvInit, DInvNext, PTL DEF Spec
<1> QED BY <1>2, <1>3, PTL DEF Spec, OldestFirst

----------------------------------------------------------------------------
(* Sleep and wake-ups *)

(* Whoever is interrupted is alone in its queue: at its end of the pipe nobody
   else makes a call that sleeps.  Without that an interrupted sleeper cuts the
   others off the queue. *)
Alone ==
    \A l \in Loads : \A u \in l.hit, v \in Threads :
        u # v /\ (u \in Readers <=> v \in Readers) => \A c \in l.calls[v] : c.nonblock

(* t makes calls that sleep. *)
Sleeps(t) == \E c \in load.calls[t] : ~c.nonblock

(* t is in sched_block(), or on its way there, and no wake-up is on its way. *)
Asleep(t) ==
    /\ ~Owed(t)
    /\ park[t] = "parked" \/ (op[t].at \in {"block", "blockStaged"} /\ park[t] = "run")

Called ==
    \A t \in Threads :
        /\ op[t].at # "out" => \E c \in load.calls[t] : c.nonblock = op[t].nonblock
        /\ t \in Range(read_wait) \cup Range(write_wait) => Sleeps(t)
        /\ park[t] = "parked" => op[t].at \in {"woken", "wokenStaged"}
        /\ sig[t] => t \in load.hit

WritersAsleep ==
    \A t \in Writers : Asleep(t) => t \in Range(write_wait) /\ "read" \in open /\ ~Room(t)

(* A reader that is bound to look at the ring, or to pass its wake-up on. *)
Committed(x) ==
    /\ ~op[x].nonblock /\ op[x].at \notin {"out", "owe"}
    /\ Owed(x) \/ park[x] = "token" \/ (park[x] = "run" /\ op[x].at # "block")

ReadersAsleep ==
    \A t \in Readers : Asleep(t) =>
        /\ t \in Range(read_wait) /\ "write" \in open
        /\ ring # <<>> => \E x \in Readers : Committed(x)

Resting(y) ==
    /\ ~op[y].nonblock
    /\ (op[y].at = "block" /\ park[y] = "run") \/ (op[y].at = "woken" /\ park[y] = "parked")

(* A reader that nothing interrupts is in the queue, or popped and owed one
   wake-up, only while it rests: no wake-up goes to one that will not use it. *)
Quiet ==
    \A y \in Readers \ load.hit :
        /\ y \in Range(read_wait) => Resting(y) /\ ~Owed(y)
        /\ \A u \in Threads : y \in op[u].owe => Resting(y)
        /\ \A u, v \in Threads : y \in op[u].owe /\ y \in op[v].owe => u = v
        /\ park[y] = "token" => op[y].at = "block"

SInv == Called /\ WritersAsleep /\ ReadersAsleep /\ Quiet

(* A step of t changes no other thread's operation and keeps the call's kind
   and length while it lasts. *)
Keeps(t) == \A u \in Threads : u # t => op'[u] = op[u]
SameCall(t) ==
    /\ op[t].at # "out" /\ op'[t].at # "out"
    /\ op'[t].nonblock = op[t].nonblock /\ op'[t].len = op[t].len

Acts(t) ==
    \/ Enter(t) \/ Step(t)
    \/ (t \in Readers /\ UserReadFault(t)) \/ (t \in Writers /\ UserWriteFault(t))

LEMMA Changed ==
  ASSUME DInv, NEW t \in Threads, op[t].at # "out", NEW l \in Ats \ {"out"}, NEW x, NEW y,
         \/ op' = [op EXCEPT ![t].at = l]
         \/ op' = [op EXCEPT ![t].at = l, ![t].owe = x]
         \/ op' = [op EXCEPT ![t].at = l, ![t].part = x]
         \/ op' = [op EXCEPT ![t].at = l, ![t].done = x, ![t].owe = y]
         \/ op' = [op EXCEPT ![t].at = l, ![t].done = x, ![t].part = y]
  PROVE  Keeps(t) /\ SameCall(t) /\ op'[t].at = l
<1>0. op \in [Threads -> Ops]
  BY DEF DInv, Types
<1>1. CASE op' = [op EXCEPT ![t].at = l]
  BY <1>0, <1>1 DEF Keeps, SameCall, Ops
<1>2. CASE op' = [op EXCEPT ![t].at = l, ![t].owe = x]
  BY <1>0, <1>2 DEF Keeps, SameCall, Ops
<1>3. CASE op' = [op EXCEPT ![t].at = l, ![t].part = x]
  BY <1>0, <1>3 DEF Keeps, SameCall, Ops
<1>4. CASE op' = [op EXCEPT ![t].at = l, ![t].done = x, ![t].owe = y]
  <2>1. op' = [op EXCEPT ![t] = [op[t] EXCEPT !.at = l, !.done = x, !.owe = y]]
    BY <1>0, <1>4 DEF Ops
  <2> QED BY <1>0, <2>1 DEF Keeps, SameCall, Ops
<1>5. CASE op' = [op EXCEPT ![t].at = l, ![t].done = x, ![t].part = y]
  <2>1. op' = [op EXCEPT ![t] = [op[t] EXCEPT !.at = l, !.done = x, !.part = y]]
    BY <1>0, <1>5 DEF Ops
  <2> QED BY <1>0, <2>1 DEF Keeps, SameCall, Ops
<1> QED BY <1>1, <1>2, <1>3, <1>4, <1>5

LEMMA Returned ==
  ASSUME DInv, NEW t \in Threads, Return(t)
  PROVE  Keeps(t) /\ op'[t] = Out /\ op'[t].at = "out" /\ op'[t].owe = {} /\ sig'[t] = FALSE
         /\ \A u \in Threads : u # t => sig'[u] = sig[u]
  BY DEF DInv, Types, Keeps, Return, Out

(* Where each step leads. *)
LEMMA Moves ==
  ASSUME DInv, NEW t \in Threads, Acts(t)
  PROVE  /\ Keeps(t) /\ load' = load /\ Awake(t)
         /\ Return(t) => op'[t].at = "out"
         /\ ~Return(t) /\ ~Enter(t) => SameCall(t) /\ sig' = sig
         /\ Enter(t) => /\ op[t].at = "out" /\ op'[t].at = "enter" /\ sig' = sig
                        /\ \E c \in load.calls[t] : c.nonblock = op'[t].nonblock
         /\ op'[t].at \in {"block", "blockStaged"} => ReadEmpty(t) \/ WriteFull(t)
         /\ op'[t].at \in {"woken", "wokenStaged"} => SchedBlock(t)
         /\ op'[t].at = "owe" => KernelRead(t) \/ KernelWrite(t)
         /\ op[t].at \in {"block", "blockStaged"} => SchedBlock(t)
         /\ op[t].at \in {"woken", "wokenStaged"} => Woken(t)
         /\ op[t].at = "owe" => Owe(t)
<1>0. op \in [Threads -> Ops] /\ op[t] \in Ops /\ Awake(t) /\ load' = load
  BY DEF DInv, Types, Acts, Step, Enter, ReadEmpty, KernelRead, UserSnapshot, UserCommit, UserRetry,
         Broken, WriteFull, KernelWrite, Owe, UserStage, UserPublish, SchedBlock, Woken,
         UserReadFault, UserWriteFault, At
<1>1. CASE Enter(t)
  <2>1. PICK r \in load.calls[t] :
          op' = [op EXCEPT ![t] = [Out EXCEPT !.at = "enter", !.user = r.user, !.len = r.len,
                                              !.nonblock = r.nonblock]]
    BY <1>1 DEF Enter
  <2>2. Keeps(t) /\ op'[t].at = "enter" /\ op'[t].nonblock = r.nonblock
    BY <1>0, <2>1 DEF Keeps, Out
  <2>3. op[t].at = "out" /\ sig' = sig
    BY <1>1 DEF Enter, At
  <2>4. ~Return(t)
    BY <2>2, Returned
  <2> QED BY <1>0, <1>1, <2>2, <2>3, <2>4
<1>2. CASE Return(t)
  <2>1. ~SchedBlock(t)
    <3> SUFFICES ASSUME SchedBlock(t) PROVE FALSE
      OBVIOUS
    <3>1. PICK l \in {"woken", "wokenStaged"} : op' = [op EXCEPT ![t].at = l] /\ op[t].at # "out"
      BY DEF SchedBlock, Goto, At
    <3>2. op'[t].at = l
      BY <1>0, <3>1 DEF Ops
    <3> QED BY <1>2, <3>2, Returned
  <2>2. CASE Enter(t)
    BY <1>1, <2>2
  <2>3. CASE ~Enter(t)
    <3>1. /\ op[t].at \notin {"block", "blockStaged"}
          /\ op[t].at \in {"woken", "wokenStaged"} => Woken(t)
          /\ op[t].at = "owe" => Owe(t)
      BY <2>1, <2>3 DEF Acts, Step, ReadEmpty, KernelRead, UserSnapshot, UserCommit, UserRetry,
             Broken, WriteFull, KernelWrite, Owe, UserStage, UserPublish, Woken,
             UserReadFault, UserWriteFault, At
    <3> QED BY <1>0, <1>2, <2>3, <3>1, Returned
  <2> QED BY <2>2, <2>3
<1>3. CASE ~Return(t) /\ ~Enter(t)
  <2> DEFINE F(l) == Keeps(t) /\ SameCall(t) /\ op'[t].at = l /\ sig' = sig
  <2>1. CASE ReadEmpty(t)
    <3>1. Goto(t, "block") /\ op[t].at = "enter" /\ sig' = sig
      BY <1>3, <2>1 DEF ReadEmpty, At
    <3>2. F("block")
      BY <3>1, Changed DEF Goto, Ats
    <3> QED BY <1>0, <1>3, <2>1, <3>1, <3>2
  <2>2. CASE KernelRead(t)
    <3>1. op[t].at = "enter" /\ sig' = sig /\ \E e : op' = [op EXCEPT ![t].at = "owe", ![t].owe = e]
      BY <1>3, <2>2 DEF KernelRead, At
    <3>2. F("owe")
      BY <3>1, Changed DEF Ats
    <3> QED BY <1>0, <1>3, <2>2, <3>1, <3>2
  <2>3. CASE UserSnapshot(t)
    <3>1. op[t].at = "enter" /\ sig' = sig /\ \E e : op' = [op EXCEPT ![t].at = "copy", ![t].part = e]
      BY <1>3, <2>3 DEF UserSnapshot, At
    <3>2. F("copy")
      BY <3>1, Changed DEF Ats
    <3> QED BY <1>0, <1>3, <2>3, <3>1, <3>2
  <2>4. CASE UserRetry(t)
    <3>1. op[t].at = "copy" /\ sig' = sig /\ \E e : op' = [op EXCEPT ![t].at = "enter", ![t].part = e]
      BY <1>3, <2>4 DEF UserRetry, At
    <3>2. F("enter")
      BY <3>1, Changed DEF Ats
    <3> QED BY <1>0, <1>3, <2>4, <3>1, <3>2
  <2>5. CASE WriteFull(t)
    <3>1. /\ op[t].at \in {"enter", "copy", "staged"} /\ sig' = sig
          /\ \E l \in {"block", "blockStaged"} : Goto(t, l)
      BY <1>3, <2>5 DEF WriteFull, At
    <3>2. \E l \in {"block", "blockStaged"} : F(l)
      BY <3>1, Changed DEF Goto, Ats
    <3> QED BY <1>0, <1>3, <2>5, <3>1, <3>2
  <2>6. CASE KernelWrite(t)
    <3>1. op[t].at = "enter" /\ sig' = sig
      BY <1>3, <2>6 DEF KernelWrite, At
    <3>x. PICK x, y : op' = [op EXCEPT ![t].at = "owe", ![t].done = x, ![t].owe = y]
      BY <1>3, <2>6 DEF KernelWrite
    <3>2. F("owe")
      BY <3>1, <3>x, Changed DEF Ats
    <3> QED BY <1>0, <1>3, <2>6, <3>1, <3>2
  <2>7. CASE Owe(t)
    <3>1. op[t].at = "owe" /\ sig' = sig /\ \E e : op' = [op EXCEPT ![t].at = "enter", ![t].owe = e]
      BY <1>3, <2>7 DEF Owe, At
    <3>2. F("enter")
      BY <3>1, Changed DEF Ats
    <3> QED BY <1>0, <1>3, <2>7, <3>1, <3>2
  <2>8. CASE UserStage(t)
    <3>1. op[t].at = "enter" /\ sig' = sig /\ \E e : op' = [op EXCEPT ![t].at = "copy", ![t].part = e]
      BY <1>3, <2>8 DEF UserStage, At
    <3>2. F("copy")
      BY <3>1, Changed DEF Ats
    <3> QED BY <1>0, <1>3, <2>8, <3>1, <3>2
  <2>9. CASE UserPublish(t)
    <3>1. op[t].at \in {"copy", "staged"} /\ sig' = sig
      BY <1>3, <2>9 DEF UserPublish, At
    <3>x. PICK x, y : op' = [op EXCEPT ![t].at = "enter", ![t].done = x, ![t].part = y]
      BY <1>3, <2>9 DEF UserPublish
    <3>2. F("enter")
      BY <3>1, <3>x, Changed DEF Ats
    <3> QED BY <1>0, <1>3, <2>9, <3>1, <3>2
  <2>10. CASE SchedBlock(t)
    <3>1. /\ op[t].at \in {"block", "blockStaged"} /\ sig' = sig
          /\ \E l \in {"woken", "wokenStaged"} : Goto(t, l)
      BY <1>3, <2>10 DEF SchedBlock, At
    <3>2. \E l \in {"woken", "wokenStaged"} : F(l)
      BY <3>1, Changed DEF Goto, Ats
    <3> QED BY <1>0, <1>3, <2>10, <3>1, <3>2
  <2>11. CASE Woken(t)
    <3>1. /\ op[t].at \in {"woken", "wokenStaged"} /\ sig' = sig
          /\ \E l \in {"enter", "staged"} : Goto(t, l)
      BY <1>3, <2>11 DEF Woken, At
    <3>2. \E l \in {"enter", "staged"} : F(l)
      BY <3>1, Changed DEF Goto, Ats
    <3> QED BY <1>0, <1>3, <2>11, <3>1, <3>2
  <2> QED
    BY <1>3, <2>1, <2>2, <2>3, <2>4, <2>5, <2>6, <2>7, <2>8, <2>9, <2>10, <2>11
       DEF Acts, Step, UserCommit, Broken, UserReadFault, UserWriteFault
<1> QED BY <1>1, <1>2, <1>3

(* t queues up to sleep. *)
Joins(t, l) ==
    /\ op[t].at \in {"enter", "copy", "staged"} /\ ~op[t].nonblock
    /\ l \in {"block", "blockStaged"} /\ Goto(t, l) /\ park' = park
    /\ t \in Readers => op[t].at = "enter"

(* Only a call that sleeps is put on a queue, and only by itself. *)
LEMMA QueueGrows ==
  ASSUME DInv, NEW t \in Threads, Acts(t)
  PROVE  /\ \A x \in Range(read_wait') : x \in Range(read_wait) \/ (x = t /\ Joins(t, "block"))
         /\ \A x \in Range(write_wait') : x \in Range(write_wait) \/ (x = t /\ \E l : Joins(t, l))
<1>0. /\ read_wait \in Seq(Readers) /\ IsInjective(read_wait)
      /\ write_wait \in Seq(Writers) /\ IsInjective(write_wait)
  BY DEF DInv, Types
<1>e. Range(<<>>) = {}
  BY DEF Range
<1>1. CASE ReadEmpty(t)
  <2>1. /\ t \in Readers /\ write_wait' = write_wait
        /\ read_wait' = read_wait \/ (read_wait' = Push(read_wait, t) /\ Joins(t, "block"))
    BY <1>1 DEF ReadEmpty, At, Joins
  <2>2. Range(Push(read_wait, t)) = Range(read_wait) \cup {t}
    BY <1>0, <2>1, PushFacts
  <2> QED BY <2>1, <2>2
<1>2. CASE WriteFull(t)
  <2>1. /\ t \in Writers /\ read_wait' = read_wait
        /\ write_wait' = write_wait \/ (write_wait' = Push(write_wait, t) /\ \E l : Joins(t, l))
    BY <1>2, Kinds DEF WriteFull, At, Joins
  <2>2. Range(Push(write_wait, t)) = Range(write_wait) \cup {t}
    BY <1>0, <2>1, PushFacts
  <2> QED BY <2>1, <2>2
<1>3. CASE KernelRead(t) \/ KernelWrite(t)
  <2>1. /\ \E e \in {First(read_wait), <<>>} : read_wait' = Drop(read_wait, Len(e))
        /\ write_wait' = <<>>
           \/ \E e \in {First(write_wait), <<>>} : write_wait' = Drop(write_wait, Len(e))
    BY <1>3 DEF KernelRead, KernelWrite
  <2>2. Range(read_wait') \subseteq Range(read_wait)
    BY <1>0, <2>1, PopFacts
  <2>3. CASE write_wait' = <<>>
    BY <1>e, <2>2, <2>3
  <2>4. CASE \E e \in {First(write_wait), <<>>} : write_wait' = Drop(write_wait, Len(e))
    <3>1. Range(write_wait') \subseteq Range(write_wait)
      BY <1>0, <2>4, PopFacts
    <3> QED BY <2>2, <3>1
  <2> QED BY <2>1, <2>3, <2>4
<1>4. CASE UserCommit(t) \/ UserReadFault(t) \/ UserWriteFault(t) \/ UserPublish(t)
  <2>1. read_wait' \in {read_wait, <<>>} /\ write_wait' \in {write_wait, <<>>}
    BY <1>4 DEF UserCommit, UserReadFault, UserWriteFault, UserPublish, WakeAll
  <2> QED BY <1>e, <2>1
<1>5. CASE Woken(t)
  <2>1. /\ read_wait' = read_wait \/ read_wait' = Without(read_wait, t)
        /\ write_wait' = write_wait \/ write_wait' = Without(write_wait, t)
    BY <1>5 DEF Woken
  <2>2. Range(Without(read_wait, t)) = Range(read_wait) \ {t}
    BY <1>0, WithoutFacts
  <2>3. Range(Without(write_wait, t)) = Range(write_wait) \ {t}
    BY <1>0, WithoutFacts
  <2> QED BY <2>1, <2>2, <2>3
<1>6. CASE \/ Enter(t) \/ UserSnapshot(t) \/ UserRetry(t) \/ Broken(t) \/ UserStage(t)
           \/ Owe(t) \/ SchedBlock(t)
  BY <1>6 DEF Enter, UserSnapshot, UserRetry, Broken, UserStage, Owe, SchedBlock
<1> QED BY <1>1, <1>2, <1>3, <1>4, <1>5, <1>6 DEF Acts, Step

(* A step parks nobody but the thread that blocks. *)
LEMMA Parks ==
  ASSUME DInv, NEW t \in Threads, Acts(t), ~SchedBlock(t)
  PROVE  \A u \in Threads : park'[u] = "parked" => park[u] = "parked"
<1>1. (\E S : Unblock(S)) \/ park' = park
  BY DEF Acts, Step, Enter, ReadEmpty, KernelRead, UserSnapshot, UserCommit, UserRetry,
         Broken, WriteFull, KernelWrite, Owe, UserStage, UserPublish, Woken,
         UserReadFault, UserWriteFault, WakeAll
<1>2. CASE \E S : Unblock(S)
  BY <1>2 DEF Unblock
<1> QED BY <1>1, <1>2

LEMMA CalledNext ==
  ASSUME DInv, Called, [Next]_vars
  PROVE  Called'
<1>0. /\ sig \in [Threads -> BOOLEAN] /\ park \in [Threads -> Phases] /\ op \in [Threads -> Ops]
      /\ read_wait \in Seq(Readers) /\ IsInjective(read_wait)
      /\ write_wait \in Seq(Writers) /\ IsInjective(write_wait)
  BY DEF DInv, Types
<1>e. Range(<<>>) = {}
  BY DEF Range
<1>1. ASSUME NEW t \in Threads, Acts(t) PROVE Called'
  <2> SUFFICES ASSUME NEW u \in Threads
               PROVE /\ op'[u].at # "out" => \E c \in load.calls[u] : c.nonblock = op'[u].nonblock
                     /\ u \in Range(read_wait') \cup Range(write_wait') => Sleeps(u)
                     /\ park'[u] = "parked" => op'[u].at \in {"woken", "wokenStaged"}
                     /\ sig'[u] => u \in load.hit
    BY <1>1, Moves DEF Called, Sleeps
  <2>1. op'[u].at # "out" => \E c \in load.calls[u] : c.nonblock = op'[u].nonblock
    BY <1>1, Moves, Returned DEF Called, Keeps, SameCall
  <2>2. u \in Range(read_wait') \cup Range(write_wait') => Sleeps(u)
    <3>1. op[u].at # "out" /\ ~op[u].nonblock => Sleeps(u)
      BY DEF Called, Sleeps
    <3> QED BY <1>1, <3>1, QueueGrows DEF Called, Joins
  <2>3. park'[u] = "parked" => op'[u].at \in {"woken", "wokenStaged"}
    <3>1. CASE SchedBlock(t)
      <4>1. /\ \E l \in {"woken", "wokenStaged"} : op' = [op EXCEPT ![t].at = l]
            /\ \A v \in Threads : v # t => park'[v] = park[v]
        BY <1>0, <3>1 DEF SchedBlock, Goto, Block
      <4> QED BY <1>0, <4>1 DEF Called, Ops
    <3>2. CASE ~SchedBlock(t)
      <4>1. CASE u = t
        BY <1>1, <3>2, <4>1, Moves, Parks DEF Awake
      <4>2. CASE u # t
        BY <1>1, <3>2, <4>2, Moves, Parks DEF Called, Keeps
      <4> QED BY <4>1, <4>2
    <3> QED BY <3>1, <3>2
  <2>4. sig'[u] => u \in load.hit
    BY <1>1, Moves, Returned DEF Called
  <2> QED BY <2>1, <2>2, <2>3, <2>4
<1>2. ASSUME NEW t \in Threads, NEW s \in BOOLEAN, Interrupt(t, s) PROVE Called'
  <2>1. /\ op' = op /\ load' = load /\ t \in load.hit /\ Poke(t)
        /\ read_wait' = read_wait \/ read_wait' = Cut(read_wait, t)
        /\ write_wait' = write_wait \/ write_wait' = Cut(write_wait, t)
        /\ sig' = [sig EXCEPT ![t] = @ \/ s]
    BY <1>2 DEF Interrupt
  <2>2. Range(read_wait') \subseteq Range(read_wait)
    BY <1>0, <2>1, CutFacts
  <2>3. Range(write_wait') \subseteq Range(write_wait)
    BY <1>0, <2>1, CutFacts
  <2>4. \A u \in Threads : /\ park'[u] = "parked" => park[u] = "parked"
                           /\ sig'[u] => sig[u] \/ u = t
    BY <1>0, <2>1 DEF Poke
  <2> QED BY <2>1, <2>2, <2>3, <2>4 DEF Called, Sleeps
<1>3. CASE CloseRead \/ CloseWrite
  <2>1. /\ op' = op /\ load' = load /\ sig' = sig
        /\ read_wait' \in {read_wait, <<>>} /\ write_wait' \in {write_wait, <<>>}
        /\ \E S : Unblock(S)
    BY <1>3 DEF CloseRead, CloseWrite, WakeAll
  <2>2. \A u \in Threads : park'[u] = "parked" => park[u] = "parked"
    BY <2>1 DEF Unblock
  <2> QED BY <1>e, <2>1, <2>2 DEF Called, Sleeps
<1>4. CASE Create
  BY <1>4, <1>e DEF Create, Called, Sleeps
<1>5. CASE UNCHANGED vars
  BY <1>5 DEF vars, Called, Sleeps
<1> QED BY <1>1, <1>2, <1>3, <1>4, <1>5, Kinds DEF Next, Acts

(* An interrupt cuts nobody off. *)
LEMMA CutSame ==
  ASSUME Alone, DInv, Called, NEW t \in Threads, NEW s \in BOOLEAN, Interrupt(t, s)
  PROVE  Range(read_wait') = Range(read_wait) /\ Range(write_wait') = Range(write_wait)
<1>0. /\ read_wait \in Seq(Readers) /\ IsInjective(read_wait) /\ Range(read_wait) \subseteq Readers
      /\ write_wait \in Seq(Writers) /\ IsInjective(write_wait) /\ Range(write_wait) \subseteq Writers
      /\ load \in Loads
  BY QueuesFacts DEF DInv, Types
<1>1. /\ t \in load.hit
      /\ read_wait' = read_wait \/ read_wait' = Cut(read_wait, t)
      /\ write_wait' = write_wait \/ write_wait' = Cut(write_wait, t)
  BY DEF Interrupt
<1>2. \A v \in Threads : v # t /\ (v \in Readers <=> t \in Readers) => ~Sleeps(v)
  BY <1>0, <1>1 DEF Alone, Sleeps
<1>3. t \in Range(read_wait) => Range(read_wait) = {t}
  BY <1>0, <1>2, Kinds DEF Called
<1>4. t \in Range(write_wait) => Range(write_wait) = {t}
  BY <1>0, <1>2, Kinds DEF Called
<1>5. Range(Cut(read_wait, t)) = Range(read_wait)
  BY <1>0, <1>3, CutFacts
<1>6. Range(Cut(write_wait, t)) = Range(write_wait)
  BY <1>0, <1>4, CutFacts
<1> QED BY <1>1, <1>5, <1>6

LEMMA Woke ==
  ASSUME DInv, Called, NEW S, Unblock(S), NEW u \in Threads, u \in S, op'[u] = op[u]
  PROVE  /\ ~Asleep(u)' /\ park'[u] # "parked"
         /\ park'[u] = "token" \/ (park'[u] = "run" /\ op[u].at \in {"woken", "wokenStaged"})
<1>1. park'[u] = IF park[u] = "parked" THEN "run" ELSE "token"
  BY DEF Unblock
<1>2. park[u] = "parked" => op[u].at \in {"woken", "wokenStaged"}
  BY DEF Called
<1> QED BY <1>1, <1>2 DEF Asleep

LEMMA OwedStays ==
  ASSUME DInv, NEW t \in Threads, Acts(t), NEW x, Owed(x), ~(op[t].at = "owe" /\ x \in op[t].owe)
  PROVE  Owed(x)'
<1>1. PICK v \in Threads : x \in op[v].owe
  BY DEF Owed
<1>2. v # t
  BY <1>1 DEF DInv, OpsGood, Good
<1>3. op'[v] = op[v]
  BY <1>2, Moves DEF Keeps
<1> QED BY <1>1, <1>3 DEF Owed

Stays(u) ==
    /\ u \in Range(read_wait) => u \in Range(read_wait')
    /\ u \in Range(write_wait) => u \in Range(write_wait')

(* Whoever is asleep after a step of another thread was asleep before and is
   still on its queue. *)
LEMMA OthersSleep ==
  ASSUME DInv, Called, NEW t \in Threads, Acts(t), NEW u \in Threads, u # t, Asleep(u)'
  PROVE  Asleep(u) /\ Stays(u) /\ op'[u] = op[u] /\ park'[u] = park[u]
<1>0. /\ read_wait \in Seq(Readers) /\ IsInjective(read_wait)
      /\ write_wait \in Seq(Writers) /\ IsInjective(write_wait)
      /\ park \in [Threads -> Phases]
  BY DEF DInv, Types
<1>1. op'[u] = op[u] /\ op' \in [Threads -> Ops]
  BY Moves, OpsGoodNext, Kinds DEF Keeps, Acts, Next
<1>2. ASSUME NEW S, Unblock(S) PROVE u \notin S /\ park'[u] = park[u]
  <2>1. u \notin S
    BY <1>1, <1>2, Woke
  <2> QED BY <1>2, <2>1 DEF Unblock
<1>3. park'[u] = park[u]
  <2>1. (\E S : Unblock(S)) \/ park' = park \/ Block(t)
    BY DEF Acts, Step, Enter, ReadEmpty, KernelRead, UserSnapshot, UserCommit, UserRetry,
           Broken, WriteFull, KernelWrite, Owe, UserStage, UserPublish, Woken, SchedBlock,
           UserReadFault, UserWriteFault, WakeAll
  <2> QED BY <1>0, <1>2, <2>1 DEF Block
<1>4. ~Owed(u)
  <2>1. ~(op[t].at = "owe" /\ u \in op[t].owe)
    <3>1. op[t].at = "owe" => Unblock(op[t].owe)
      BY Moves DEF Owe
    <3> QED BY <1>2, <3>1
  <2> QED BY <2>1, OwedStays DEF Asleep
<1>5. Asleep(u)
  BY <1>1, <1>3, <1>4 DEF Asleep
<1>o. u \notin op'[t].owe
  BY <1>1 DEF Asleep, Owed
<1>6. Stays(u)
  <2>1. CASE ReadEmpty(t)
    <3>1. /\ t \in Readers /\ write_wait' = write_wait
          /\ read_wait' = read_wait \/ read_wait' = Push(read_wait, t)
      BY <2>1 DEF ReadEmpty
    <3>2. Range(Push(read_wait, t)) = Range(read_wait) \cup {t}
      BY <1>0, <3>1, PushFacts
    <3> QED BY <3>1, <3>2 DEF Stays
  <2>2. CASE WriteFull(t)
    <3>1. /\ t \in Writers /\ read_wait' = read_wait
          /\ write_wait' = write_wait \/ write_wait' = Push(write_wait, t)
      BY <2>2 DEF WriteFull
    <3>2. Range(Push(write_wait, t)) = Range(write_wait) \cup {t}
      BY <1>0, <3>1, PushFacts
    <3> QED BY <3>1, <3>2 DEF Stays
  <2>3. CASE KernelRead(t)
    <3>1. PICK e \in {First(read_wait), <<>>} :
            /\ read_wait' = Drop(read_wait, Len(e)) /\ Unblock(Range(write_wait))
            /\ e = <<>> \/ op'[t].owe = Range(e)
      <4>1. \/ Return(t)
            \/ \E e : op' = [op EXCEPT ![t].at = "owe", ![t].owe = Range(e)] /\ ~Return(t)
        BY <2>3 DEF KernelRead
      <4>2. \A e : op' = [op EXCEPT ![t].at = "owe", ![t].owe = Range(e)] => op'[t].owe = Range(e)
        BY DEF DInv, Types, Ops
      <4> QED BY <2>3, <4>2 DEF KernelRead
    <3>2. Range(read_wait') = Range(read_wait) \ Range(e) /\ (e = <<>> => Range(e) = {})
      BY <1>0, <3>1, PopFacts
    <3>3. u \notin Range(write_wait)
      BY <1>2, <3>1
    <3> QED BY <1>o, <3>1, <3>2, <3>3 DEF Stays
  <2>4. CASE KernelWrite(t)
    <3>1. PICK a \in {First(read_wait), <<>>}, b \in {First(write_wait), <<>>} :
            /\ read_wait' = Drop(read_wait, Len(a)) /\ write_wait' = Drop(write_wait, Len(b))
            /\ \E d : op' = [op EXCEPT ![t].at = "owe", ![t].done = d, ![t].owe = Range(a) \cup Range(b)]
      BY <2>4 DEF KernelWrite
    <3>2. op'[t].owe = Range(a) \cup Range(b)
      BY <3>1 DEF DInv, Types, Ops
    <3>3. Range(read_wait') = Range(read_wait) \ Range(a)
      BY <1>0, <3>1, PopFacts
    <3>4. Range(write_wait') = Range(write_wait) \ Range(b)
      BY <1>0, <3>1, PopFacts
    <3> QED BY <1>o, <3>2, <3>3, <3>4 DEF Stays
  <2>5. CASE UserCommit(t) \/ UserReadFault(t) \/ UserWriteFault(t) \/ UserPublish(t)
    <3>1. \E a, b : WakeAll(a, b)
      BY <2>5 DEF UserCommit, UserReadFault, UserWriteFault, UserPublish
    <3>2. PICK a, b : WakeAll(a, b)
      BY <3>1
    <3>3. (a => u \notin Range(read_wait)) /\ (b => u \notin Range(write_wait))
      BY <1>2, <3>2 DEF WakeAll
    <3> QED BY <3>2, <3>3 DEF Stays, WakeAll
  <2>6. CASE Woken(t)
    <3>1. /\ read_wait' = read_wait \/ read_wait' = Without(read_wait, t)
          /\ write_wait' = write_wait \/ write_wait' = Without(write_wait, t)
      BY <2>6 DEF Woken
    <3>2. Range(Without(read_wait, t)) = Range(read_wait) \ {t}
      BY <1>0, WithoutFacts
    <3>3. Range(Without(write_wait, t)) = Range(write_wait) \ {t}
      BY <1>0, WithoutFacts
    <3> QED BY <3>1, <3>2, <3>3 DEF Stays
  <2>7. CASE \/ Enter(t) \/ UserSnapshot(t) \/ UserRetry(t) \/ Broken(t) \/ UserStage(t)
             \/ Owe(t) \/ SchedBlock(t)
    BY <2>7 DEF Enter, UserSnapshot, UserRetry, Broken, UserStage, Owe, SchedBlock, Stays
  <2> QED BY <2>1, <2>2, <2>3, <2>4, <2>5, <2>6, <2>7 DEF Acts, Step
<1> QED BY <1>1, <1>3, <1>5, <1>6

(* A thread that is asleep after its own step has just queued up, for good
   reason, or was on its way. *)
LEMMA ActorSleeps ==
  ASSUME DInv, Called, NEW t \in Threads, Acts(t), Asleep(t)'
  PROVE  \/ SchedBlock(t) /\ Asleep(t) /\ Stays(t) /\ op'[t].len = op[t].len
         \/ /\ ReadEmpty(t) /\ t \in Readers /\ t \in Range(read_wait')
            /\ "write" \in open' /\ ring' = <<>>
         \/ /\ WriteFull(t) /\ t \in Writers /\ t \in Range(write_wait')
            /\ "read" \in open' /\ ~Room(t)'
<1>0. /\ read_wait \in Seq(Readers) /\ IsInjective(read_wait)
      /\ write_wait \in Seq(Writers) /\ IsInjective(write_wait)
      /\ park \in [Threads -> Phases] /\ op \in [Threads -> Ops]
  BY DEF DInv, Types
<1>1. op'[t].at \in {"block", "blockStaged"} \/ SchedBlock(t)
  BY Moves, Parks DEF Asleep, Awake
<1>2. CASE SchedBlock(t)
  <2>1. /\ op[t].at \in {"block", "blockStaged"} /\ park[t] # "parked"
        /\ park' = [park EXCEPT ![t] = IF @ = "token" THEN "run" ELSE "parked"]
        /\ UNCHANGED <<read_wait, write_wait>>
        /\ \E l \in {"woken", "wokenStaged"} : op' = [op EXCEPT ![t].at = l]
    BY <1>2 DEF SchedBlock, At, Awake, Block, Goto
  <2>2. op'[t].len = op[t].len /\ op'[t].at \in {"woken", "wokenStaged"}
    BY <1>0, <2>1 DEF Ops
  <2>3. park'[t] = "parked" /\ park[t] = "run"
    BY <1>0, <2>1, <2>2 DEF Asleep, Phases
  <2>4. ~Owed(t)
    BY <2>1, OwedStays DEF Asleep
  <2> QED BY <1>2, <2>1, <2>2, <2>3, <2>4 DEF Asleep, Stays
<1>3. CASE ReadEmpty(t) /\ ~SchedBlock(t)
  <2>1. ~Return(t)
    BY <1>1, <1>3, Returned
  <2>2. /\ t \in Readers /\ read_wait' = Push(read_wait, t) /\ "write" \in open
        /\ ring = <<>> /\ UNCHANGED <<ring, open>>
    BY <1>3, <2>1 DEF ReadEmpty
  <2>3. t \in Range(read_wait')
    BY <1>0, <2>2, PushFacts
  <2> QED BY <1>3, <2>2, <2>3
<1>4. CASE WriteFull(t) /\ ~SchedBlock(t)
  <2>1. ~Return(t) /\ ~Enter(t)
    BY <1>1, <1>4, Returned, Moves
  <2>2. /\ t \in Writers /\ write_wait' = Push(write_wait, t) /\ "read" \in open
        /\ ~Room(t) /\ UNCHANGED <<ring, open>>
    BY <1>4, <2>1 DEF WriteFull
  <2>3. t \in Range(write_wait')
    BY <1>0, <2>2, PushFacts
  <2>4. op'[t].len = op[t].len
    BY <2>1, Moves DEF SameCall
  <2>5. ~Room(t)'
    BY <2>2, <2>4 DEF Room, Space
  <2> QED BY <1>4, <2>2, <2>3, <2>5
<1> QED BY <1>1, <1>2, <1>3, <1>4, Moves

(* Whoever is asleep after an interrupt, a close or another pipe's creation
   was asleep before, and was not on a queue that was emptied. *)
LEMMA OutsideSleep ==
  ASSUME DInv, Called, NEW u \in Threads, Asleep(u)', op' = op,
         \/ \E t \in Threads : Poke(t)
         \/ \E a, b : WakeAll(a, b)
         \/ park' = park
  PROVE  /\ Asleep(u) /\ op[u].at # "out"
         /\ \A a, b : WakeAll(a, b) => (a => u \notin Range(read_wait)) /\ (b => u \notin Range(write_wait))
<1>0. park \in [Threads -> Phases] /\ (park[u] = "parked" => op[u].at \in {"woken", "wokenStaged"})
  BY DEF DInv, Types, Called
<1>1. Owed(u)' <=> Owed(u)
  BY DEF Owed
<1>2. ASSUME NEW a, NEW b, WakeAll(a, b)
      PROVE  /\ (a => u \notin Range(read_wait)) /\ (b => u \notin Range(write_wait))
             /\ park'[u] = park[u]
  <2> DEFINE S == (IF a THEN Range(read_wait) ELSE {}) \cup (IF b THEN Range(write_wait) ELSE {})
  <2>1. Unblock(S)
    BY <1>2 DEF WakeAll
  <2>2. u \notin S
    BY <2>1, Woke
  <2>3. park'[u] = park[u]
    BY <2>1, <2>2 DEF Unblock
  <2> QED BY <2>2, <2>3
<1>3. park'[u] = park[u] \/ (park[u] = "parked" /\ park'[u] = "run")
  BY <1>0, <1>2 DEF Poke
<1> QED BY <1>0, <1>1, <1>2, <1>3 DEF Asleep

LEMMA ActsKeepOpen ==
  ASSUME NEW t, Acts(t)
  PROVE  open' = open
  BY DEF Acts, Step, Enter, ReadEmpty, KernelRead, UserSnapshot, UserCommit, UserRetry,
         Broken, WriteFull, KernelWrite, Owe, UserStage, UserPublish, Woken, SchedBlock,
         UserReadFault, UserWriteFault

LEMMA WritersNext ==
  ASSUME Alone, DInv, Called, WritersAsleep, [Next]_vars
  PROVE  WritersAsleep'
<1> SUFFICES ASSUME NEW u \in Writers, Asleep(u)'
             PROVE  u \in Range(write_wait') /\ "read" \in open' /\ ~Room(u)'
  BY DEF WritersAsleep
<1>0. u \in Threads /\ u \notin Readers
  BY Kinds
<1>e. Range(<<>>) = {}
  BY DEF Range
<1>1. ASSUME NEW t \in Threads, Acts(t)
      PROVE  u \in Range(write_wait') /\ "read" \in open' /\ ~Room(u)'
  <2>1. CASE u = t /\ ~SchedBlock(t)
    BY <1>0, <1>1, <2>1, ActorSleeps
  <2>2. CASE u # t \/ SchedBlock(t)
    <3>1. Asleep(u) /\ Stays(u) /\ op'[u].len = op[u].len
      <4>1. CASE u # t
        BY <1>0, <1>1, <4>1, OthersSleep
      <4>2. CASE u = t
        BY <1>0, <1>1, <2>2, <4>2, ActorSleeps DEF SchedBlock, ReadEmpty, WriteFull, At
      <4> QED BY <4>1, <4>2
    <3>2. u \in Range(write_wait) /\ "read" \in open /\ ~Room(u)
      BY <3>1 DEF WritersAsleep
    <3>3. u \in Range(write_wait') /\ write_wait' # <<>>
      BY <1>e, <3>1, <3>2 DEF Stays
    <3>4. Len(ring') >= Len(ring) /\ Len(ring') \in Nat
      <4>1. ~KernelRead(t) /\ ~UserCommit(t)
        BY <3>3 DEF KernelRead, UserCommit, WakeAll
      <4>2. CASE KernelWrite(t) \/ UserPublish(t)
        <5>1. RingOK' /\ Len(ring') >= Len(ring)
          BY <1>1, <4>2, RingKernelWrite, RingUserPublish
        <5> QED BY <5>1, LenProperties DEF RingOK
      <4>3. CASE ~KernelWrite(t) /\ ~UserPublish(t)
        <5>1. ring' = ring
          BY <1>1, <4>1, <4>3
             DEF Acts, Step, Enter, ReadEmpty, UserSnapshot, UserRetry, Broken, WriteFull,
                 Owe, UserStage, Woken, SchedBlock, UserReadFault, UserWriteFault
        <5> QED BY <5>1, QueuesFacts
      <4> QED BY <4>2, <4>3
    <3>5. ~Room(u)'
      <4>1. op[u].len \in Nat /\ Len(ring) \in Nat /\ Size \in Nat
        BY <1>0, QueuesFacts DEF DInv, Types, Ops
      <4> QED BY <3>1, <3>2, <3>4, <4>1 DEF Room, Space
    <3> QED BY <1>1, <3>2, <3>3, <3>5, ActsKeepOpen
  <2> QED BY <2>1, <2>2
<1>2. ASSUME op' = op, ring' = ring, Asleep(u), Range(write_wait') = Range(write_wait),
             "read" \in open => "read" \in open'
      PROVE  u \in Range(write_wait') /\ "read" \in open' /\ ~Room(u)'
  BY <1>2 DEF WritersAsleep, Room, Space
<1>3. ASSUME NEW t \in Threads, NEW s \in BOOLEAN, Interrupt(t, s)
      PROVE  u \in Range(write_wait') /\ "read" \in open' /\ ~Room(u)'
  <2>1. Poke(t) /\ op' = op /\ ring' = ring /\ open' = open
    BY <1>3 DEF Interrupt
  <2>2. Asleep(u)
    BY <1>0, <2>1, OutsideSleep
  <2> QED BY <1>2, <1>3, <2>1, <2>2, CutSame
<1>4. CASE CloseWrite
  <2>1. WakeAll(TRUE, FALSE) /\ op' = op /\ ring' = ring /\ ("read" \in open => "read" \in open')
    BY <1>4 DEF CloseWrite
  <2>2. Asleep(u) /\ write_wait' = write_wait
    BY <1>0, <2>1, OutsideSleep DEF WakeAll
  <2> QED BY <1>2, <2>1, <2>2
<1>5. CASE CloseRead
  <2>1. WakeAll(FALSE, TRUE) /\ op' = op
    BY <1>5 DEF CloseRead
  <2>2. Asleep(u) /\ u \notin Range(write_wait)
    BY <1>0, <2>1, OutsideSleep
  <2> QED BY <2>2 DEF WritersAsleep
<1>6. CASE Create
  BY <1>0, <1>6, OutsideSleep DEF Create
<1>7. CASE UNCHANGED vars
  BY <1>0, <1>2, <1>7, OutsideSleep DEF vars
<1> QED BY <1>1, <1>3, <1>4, <1>5, <1>6, <1>7, Kinds DEF Next, Acts

(* Whom a step of t wakes, and whom it owes a wake-up. *)
LEMMA Wakes ==
  ASSUME DInv, NEW t \in Threads, Acts(t), ~SchedBlock(t)
  PROVE  \E S : /\ Unblock(S)
                /\ \A y \in Readers : y \in S =>
                     \/ y \in Range(read_wait) /\ read_wait' = <<>> /\ op[t].at \in {"copy", "staged"}
                     \/ op[t].at = "owe" /\ y \in op[t].owe
<1>0. park \in [Threads -> Phases] /\ \A y \in Readers : y \notin Range(write_wait)
  BY QueuesFacts, Kinds DEF DInv, Types
<1>1. CASE park' = park
  <2>1. Unblock({})
    BY <1>0, <1>1 DEF Unblock
  <2> QED BY <2>1
<1>2. CASE KernelRead(t)
  BY <1>0, <1>2 DEF KernelRead
<1>3. CASE Owe(t)
  BY <1>3 DEF Owe, At
<1>4. CASE UserCommit(t) \/ UserReadFault(t) \/ UserWriteFault(t) \/ UserPublish(t)
  <2>1. PICK a, b : WakeAll(a, b) /\ op[t].at \in {"copy", "staged"}
    <3>1. /\ op[t].at \in {"copy", "staged"}
          /\ \E a, b : WakeAll(a, b)
      BY <1>4 DEF UserCommit, UserReadFault, UserWriteFault, UserPublish, At
    <3> QED BY <3>1
  <2> DEFINE S == (IF a THEN Range(read_wait) ELSE {}) \cup (IF b THEN Range(write_wait) ELSE {})
  <2>2. Unblock(S)
    BY <2>1 DEF WakeAll
  <2>3. \A y \in Readers : y \in S => y \in Range(read_wait) /\ read_wait' = <<>>
    BY <1>0, <2>1 DEF WakeAll
  <2> QED BY <2>1, <2>2, <2>3
<1> QED
  BY <1>1, <1>2, <1>3, <1>4
     DEF Acts, Step, Enter, ReadEmpty, UserSnapshot, UserRetry, Broken, WriteFull, KernelWrite,
         UserStage, Woken

LEMMA Owes ==
  ASSUME DInv, NEW t \in Threads, Acts(t)
  PROVE  /\ \A y \in Readers : y \in op'[t].owe =>
               y \in Range(read_wait) /\ y \notin Range(read_wait') /\ op[t].at = "enter"
         /\ KernelWrite(t) /\ Range(read_wait) # {} =>
               \E y \in Readers : y \in op'[t].owe
         /\ KernelRead(t) /\ ring' # <<>> /\ Range(read_wait) # {} =>
               \E y \in Readers : y \in op'[t].owe
<1>0. /\ read_wait \in Seq(Readers) /\ IsInjective(read_wait) /\ Range(read_wait) \subseteq Readers
      /\ write_wait \in Seq(Writers) /\ IsInjective(write_wait) /\ Range(write_wait) \subseteq Writers
      /\ op \in [Threads -> Ops]
  BY QueuesFacts DEF DInv, Types
<1>1. CASE KernelWrite(t)
  <2>1. PICK b \in {First(write_wait), <<>>} :
          /\ read_wait' = Drop(read_wait, Len(First(read_wait)))
          /\ op[t].at = "enter"
          /\ \E d : op' = [op EXCEPT ![t].at = "owe", ![t].done = d,
                                     ![t].owe = Range(First(read_wait)) \cup Range(b)]
    BY <1>1 DEF KernelWrite, At
  <2>2. op'[t].owe = Range(First(read_wait)) \cup Range(b)
    BY <1>0, <2>1 DEF Ops
  <2>3. Range(b) \subseteq Range(write_wait)
    BY <1>0, PopFacts
  <2>4. /\ Range(read_wait') = Range(read_wait) \ Range(First(read_wait))
        /\ Range(First(read_wait)) \subseteq Range(read_wait)
        /\ Range(read_wait) # {} => \E x \in Readers : Range(First(read_wait)) = {x}
    BY <1>0, <2>1, PopFacts
  <2>5. ~KernelRead(t)
    BY <1>1, Kinds DEF KernelRead, KernelWrite
  <2> QED BY <1>0, <2>1, <2>2, <2>3, <2>4, <2>5, Kinds
<1>2. CASE KernelRead(t)
  <2> DEFINE n == Smaller(op[t].len, Len(ring))
  <2>0. ~KernelWrite(t) /\ op[t].at = "enter"
    BY <1>2, Kinds DEF KernelRead, KernelWrite, At
  <2>1. PICK e \in {First(read_wait), <<>>} :
          /\ e = (IF Len(ring) > n THEN First(read_wait) ELSE <<>>)
          /\ read_wait' = Drop(read_wait, Len(e))
          /\ IF e = <<>> THEN Return(t)
             ELSE op' = [op EXCEPT ![t].at = "owe", ![t].owe = Range(e)]
    BY <1>2 DEF KernelRead
  <2>2. op'[t].owe = Range(e)
    <3>1. CASE e = <<>>
      <4>1. Range(<<>>) = {}
        BY DEF Range
      <4>2. op'[t].owe = {}
        BY <2>1, <3>1, Returned
      <4> QED BY <3>1, <4>1, <4>2
    <3>2. CASE e # <<>>
      BY <1>0, <2>1, <3>2 DEF Ops
    <3> QED BY <3>1, <3>2
  <2>3. /\ Range(read_wait') = Range(read_wait) \ Range(e)
        /\ Range(e) \subseteq Range(read_wait)
        /\ e = First(read_wait) /\ Range(read_wait) # {} => \E x \in Readers : Range(e) = {x}
    BY <1>0, <2>1, PopFacts
  <2>4. ring' # <<>> => Len(ring) > n
    <3> SUFFICES ASSUME ~(Len(ring) > n) PROVE ring' = <<>>
      OBVIOUS
    <3>1. n \in 0 .. Len(ring) /\ n = Len(ring) /\ Len(ring) \in Nat
      BY <1>0, QueuesFacts DEF Smaller, Ops
    <3>2. ring' = Drop(ring, n)
      BY <1>2 DEF KernelRead
    <3> HIDE DEF n
    <3>3. Drop(ring, n) \in Seq(Bytes) /\ Len(Drop(ring, n)) = Len(ring) - n
      BY <3>1, DropWhole
    <3>4. Len(Drop(ring, n)) = 0
      BY <3>1, <3>3
    <3> QED BY <3>2, <3>3, <3>4, EmptySeq
  <2> QED BY <1>0, <2>0, <2>1, <2>2, <2>3, <2>4
<1>3. CASE ~KernelRead(t) /\ ~KernelWrite(t)
  <2>1. op'[t].at # "owe"
    BY <1>3, Moves
  <2>2. OpsGood'
    BY OpsGoodNext, Kinds DEF Acts, Next
  <2>3. op'[t].owe = {}
    BY <2>1, <2>2 DEF OpsGood, Good
  <2> QED BY <1>3, <2>3
<1> QED BY <1>1, <1>2, <1>3

(* A reader that is bound to look stays so until it has looked. *)
LEMMA CommittedStays ==
  ASSUME DInv, Called, NEW t \in Threads, Acts(t), NEW x \in Readers, Committed(x),
         x = t => /\ ~KernelRead(t) /\ ~UserCommit(t) /\ ~UserReadFault(t) /\ ~ReadEmpty(t)
                  /\ ~sig[t]
  PROVE  Committed(x)'
<1>0. x \in Threads /\ park \in [Threads -> Phases] /\ op \in [Threads -> Ops] /\ x \notin Writers
  BY Kinds DEF DInv, Types
<1>1. CASE x # t
  <2>1. op'[x] = op[x]
    BY <1>0, <1>1, Moves DEF Keeps
  <2>2. CASE SchedBlock(t)
    <3>1. park'[x] = park[x] /\ op[t].at # "owe"
      BY <1>0, <1>1, <2>2 DEF SchedBlock, Block, At
    <3>2. Owed(x) => Owed(x)'
      BY <3>1, OwedStays
    <3> QED BY <2>1, <3>1, <3>2 DEF Committed
  <2>3. CASE ~SchedBlock(t)
    <3>1. PICK S : /\ Unblock(S)
                   /\ \A y \in Readers : y \in S =>
                        \/ y \in Range(read_wait) /\ read_wait' = <<>> /\ op[t].at \in {"copy", "staged"}
                        \/ op[t].at = "owe" /\ y \in op[t].owe
      BY <2>3, Wakes
    <3>2. ASSUME NEW W, Unblock(W), x \in W PROVE Committed(x)'
      <4>1. park'[x] = "token" \/ (park'[x] = "run" /\ op[x].at \in {"woken", "wokenStaged"})
        BY <1>0, <2>1, <3>2, Woke
      <4> QED BY <2>1, <4>1 DEF Committed
    <3>3. CASE op[t].at = "owe" /\ x \in op[t].owe
      <4>1. Unblock(op[t].owe)
        BY <3>3, Moves DEF Owe
      <4> QED BY <3>2, <3>3, <4>1
    <3>4. CASE x \notin S /\ ~(op[t].at = "owe" /\ x \in op[t].owe)
      <4>1. park'[x] = park[x]
        BY <1>0, <3>1, <3>4 DEF Unblock
      <4>2. Owed(x) => Owed(x)'
        BY <3>4, OwedStays
      <4> QED BY <2>1, <4>1, <4>2 DEF Committed
    <3> QED BY <3>1, <3>2, <3>3, <3>4
  <2> QED BY <2>2, <2>3
<1>2. CASE x = t
  <2>0. Awake(t) /\ op[t].at \notin {"out", "owe"} /\ ~op[t].nonblock
    BY <1>2, Moves DEF Committed
  <2>1. CASE SchedBlock(t)
    <3>1. /\ op[t].at = "block" \/ op[t].at = "blockStaged"
          /\ park'[t] = IF park[t] = "token" THEN "run" ELSE "parked"
          /\ \E l \in {"woken", "wokenStaged"} : op' = [op EXCEPT ![t].at = l]
      BY <1>0, <2>1 DEF SchedBlock, Block, At, Goto
    <3>2. op[t].at = "block"
      BY <1>0, <1>2, <3>1 DEF DInv, OpsGood, Good
    <3>3. op'[t].at \in {"woken", "wokenStaged"} /\ op'[t].nonblock = op[t].nonblock
      BY <1>0, <3>1 DEF Ops
    <3>4. Owed(t) => Owed(t)'
      BY <2>0, OwedStays
    <3> QED BY <1>2, <2>0, <3>1, <3>2, <3>3, <3>4 DEF Committed
  <2>2. CASE Woken(t) \/ UserSnapshot(t) \/ UserRetry(t)
    <3>1. ~Return(t) /\ ~Enter(t) /\ park' = park /\ ~SchedBlock(t)
      <4>1. op'[t].at # "out"
        <5>1. CASE Woken(t)
          <6>1. \E l \in {"enter", "staged"} : op' = [op EXCEPT ![t].at = l]
            BY <1>2, <5>1 DEF Woken, Goto
          <6> QED BY <1>0, <6>1 DEF Ops
        <5>2. CASE UserSnapshot(t) \/ UserRetry(t)
          <6>1. PICK l \in {"copy", "enter"} : \E p : op' = [op EXCEPT ![t].at = l, ![t].part = p]
            BY <1>2, <5>2 DEF UserSnapshot, UserRetry
          <6>2. PICK p : op' = [op EXCEPT ![t].at = l, ![t].part = p]
            BY <6>1
          <6>3. l \in Ats \ {"out"} /\ l # "out"
            BY DEF Ats
          <6> QED BY <2>0, <6>2, <6>3, Changed
        <5> QED BY <2>2, <5>1, <5>2
      <4>2. ~Return(t)
        BY <4>1, Returned
      <4>3. ~Enter(t) /\ ~SchedBlock(t) /\ park' = park
        BY <2>0, <2>2 DEF Enter, At, SchedBlock, Woken, UserSnapshot, UserRetry
      <4> QED BY <4>2, <4>3
    <3>2. SameCall(t)
      BY <3>1, Moves
    <3>3. op'[t].at \notin {"block", "owe"}
      <4>1. ~KernelRead(t) /\ ~KernelWrite(t) /\ ~ReadEmpty(t) /\ ~WriteFull(t)
        BY <1>0, <1>2 DEF KernelWrite, WriteFull
      <4> QED BY <4>1, Moves
    <3>4. park'[t] \in {"run", "token"}
      BY <1>0, <2>0, <3>1 DEF Awake, Phases
    <3> QED BY <1>2, <2>0, <3>2, <3>3, <3>4 DEF Committed, SameCall
  <2> QED
    BY <1>0, <1>2, <2>0, <2>1, <2>2
       DEF Acts, Step, Enter, At, Broken, WriteFull, KernelWrite, Owe, UserStage, UserPublish
<1> QED BY <1>1, <1>2

(* Two readers of which one is interrupted do not both sleep. *)
LEMMA NotBoth ==
  ASSUME Alone, DInv, Called, NEW x \in Readers, NEW u \in Readers, x # u,
         x \in load.hit, u \in Range(read_wait)
  PROVE  FALSE
<1>1. x \in Threads /\ u \in Threads /\ Sleeps(u) /\ load \in Loads
  BY Kinds DEF DInv, Types, Called
<1> QED BY <1>1 DEF Alone, Sleeps

(* Whoever a step pops off the readers' queue is bound to look. *)
LEMMA OwedCommits ==
  ASSUME Alone, DInv, Called, Quiet, NEW t \in Threads, Acts(t),
         NEW y \in Readers, y \in op'[t].owe, NEW u \in Readers, u # y, u \in Range(read_wait)
  PROVE  Committed(y)'
<1>1. y \in Threads /\ y \in Range(read_wait) /\ op[t].at = "enter"
  BY Owes, Kinds
<1>2. y \notin load.hit
  BY NotBoth
<1>3. Resting(y)
  BY <1>1, <1>2 DEF Quiet
<1>4. y # t
  BY <1>1, <1>3 DEF Resting
<1>5. op'[y] = op[y]
  BY <1>1, <1>4, Moves DEF Keeps
<1>6. Owed(y)'
  BY DEF Owed
<1> QED BY <1>3, <1>5, <1>6 DEF Committed, Resting

LEMMA ReadersNext ==
  ASSUME Alone, DInv, Called, Quiet, ReadersAsleep, [Next]_vars
  PROVE  ReadersAsleep'
<1> DEFINE G(u) == /\ u \in Range(read_wait') /\ "write" \in open'
                   /\ ring' # <<>> => \E x \in Readers : Committed(x)'
<1> SUFFICES ASSUME NEW u \in Readers, Asleep(u)' PROVE G(u)
  BY DEF ReadersAsleep
<1>0. u \in Threads /\ u \notin Writers
  BY Kinds
<1>e. Range(<<>>) = {}
  BY DEF Range
<1>1. ASSUME NEW t \in Threads, Acts(t) PROVE G(u)
  <2>1. CASE u = t /\ ~SchedBlock(t)
    BY <1>0, <1>1, <2>1, ActorSleeps
  <2>2. CASE u # t \/ SchedBlock(t)
    <3>1. Asleep(u) /\ Stays(u)
      <4>1. CASE u # t
        BY <1>0, <1>1, <4>1, OthersSleep
      <4>2. CASE u = t
        BY <1>0, <1>1, <2>2, <4>2, ActorSleeps DEF SchedBlock, ReadEmpty, WriteFull, At
      <4> QED BY <4>1, <4>2
    <3>2. /\ u \in Range(read_wait) /\ "write" \in open
          /\ ring # <<>> => \E x \in Readers : Committed(x)
      BY <3>1 DEF ReadersAsleep
    <3>3. u \in Range(read_wait') /\ read_wait' # <<>> /\ open' = open
      BY <1>1, <1>e, <3>1, <3>2, ActsKeepOpen DEF Stays
    <3>4. ASSUME ring' # <<>> PROVE \E x \in Readers : Committed(x)'
      <4>0. ~UserCommit(t) /\ ~UserReadFault(t) /\ ~UserPublish(t) /\ ~ReadEmpty(t)
        BY <3>3, <3>4 DEF UserCommit, UserReadFault, UserPublish, ReadEmpty, WakeAll
      <4>1. CASE KernelRead(t) \/ KernelWrite(t)
        <5>1. PICK y \in Readers : y \in op'[t].owe
          BY <1>1, <3>2, <3>4, <4>1, Owes
        <5>2. u # y
          BY <1>1, <3>3, <5>1, Owes
        <5>3. Committed(y)'
          BY <1>1, <3>2, <5>1, <5>2, OwedCommits
        <5> QED BY <5>3
      <4>2. CASE ~KernelRead(t) /\ ~KernelWrite(t)
        <5>1. ring' = ring
          BY <1>1, <4>0, <4>2
             DEF Acts, Step, Enter, UserSnapshot, UserRetry, Broken, WriteFull,
                 Owe, UserStage, Woken, SchedBlock, UserWriteFault
        <5>2. PICK x \in Readers : Committed(x)
          BY <3>2, <3>4, <5>1
        <5>3. x = t => ~sig[t]
          <6> SUFFICES ASSUME x = t, sig[t] PROVE FALSE
            OBVIOUS
          <6>1. t \in load.hit
            BY DEF Called
          <6>2. u = t
            BY <3>2, <6>1, NotBoth
          <6>3. SchedBlock(t) /\ Awake(t)
            BY <1>1, <2>2, <6>2, Moves
          <6>4. op[t].at \in {"block", "blockStaged"} /\ op[t].at = "block" /\ park[t] \in {"run", "token"}
            BY <1>0, <6>2, <6>3 DEF SchedBlock, At, Awake, DInv, OpsGood, Good, Types, Phases
          <6>5. park[t] = "run" /\ ~Owed(t)
            BY <3>1, <6>2, <6>4 DEF Asleep
          <6> QED BY <5>2, <6>4, <6>5 DEF Committed
        <5> QED BY <1>1, <4>0, <4>2, <5>2, <5>3, CommittedStays
      <4> QED BY <4>1, <4>2
    <3> QED BY <3>2, <3>3, <3>4
  <2> QED BY <2>1, <2>2
<1>2. ASSUME op' = op, ring' = ring, open' = open, Asleep(u), Range(read_wait') = Range(read_wait),
             \A x \in Threads : park[x] \in {"run", "token"} => park'[x] = park[x]
      PROVE  G(u)
  <2>1. /\ u \in Range(read_wait) /\ "write" \in open
        /\ ring # <<>> => \E x \in Readers : Committed(x)
    BY <1>2 DEF ReadersAsleep
  <2>2. ASSUME NEW x \in Readers, Committed(x) PROVE Committed(x)'
    <3>1. Owed(x) => Owed(x)'
      BY <1>2 DEF Owed
    <3> QED BY <1>2, <2>2, <3>1, Kinds DEF Committed
  <2> QED BY <1>2, <2>1, <2>2
<1>3. ASSUME NEW t \in Threads, NEW s \in BOOLEAN, Interrupt(t, s) PROVE G(u)
  <2>1. Poke(t) /\ op' = op /\ ring' = ring /\ open' = open
    BY <1>3 DEF Interrupt
  <2>2. Asleep(u)
    BY <1>0, <2>1, OutsideSleep
  <2>3. \A x \in Threads : park[x] \in {"run", "token"} => park'[x] = park[x]
    BY <2>1 DEF Poke, DInv, Types
  <2> QED BY <1>2, <1>3, <2>1, <2>2, <2>3, CutSame
<1>4. CASE CloseWrite
  <2>1. WakeAll(TRUE, FALSE) /\ op' = op
    BY <1>4 DEF CloseWrite
  <2>2. Asleep(u) /\ u \notin Range(read_wait)
    BY <1>0, <2>1, OutsideSleep
  <2> QED BY <2>2 DEF ReadersAsleep
<1>5. CASE CloseRead
  <2>1. WakeAll(FALSE, TRUE) /\ op' = op /\ op[u].at = "out"
    BY <1>5 DEF CloseRead
  <2> QED BY <1>0, <2>1, OutsideSleep
<1>6. CASE Create
  BY <1>0, <1>6, OutsideSleep DEF Create
<1>7. CASE UNCHANGED vars
  BY <1>0, <1>2, <1>7, OutsideSleep DEF vars
<1> QED BY <1>1, <1>3, <1>4, <1>5, <1>6, <1>7, Kinds DEF Next, Acts

LEMMA QuietNext ==
  ASSUME Alone, DInv, Called, Quiet, [Next]_vars
  PROVE  Quiet'
<1> DEFINE G(y) ==
             /\ y \in Range(read_wait') => Resting(y)' /\ ~Owed(y)'
             /\ \A u \in Threads : y \in op'[u].owe => Resting(y)'
             /\ \A u, v \in Threads : y \in op'[u].owe /\ y \in op'[v].owe => u = v
             /\ park'[y] = "token" => op'[y].at = "block"
<1>0. load' = load
  BY Moves DEF Next, Acts, Enter, Step, Interrupt, CloseRead, CloseWrite, Create, vars,
               ReadEmpty, KernelRead, UserSnapshot, UserCommit, UserRetry, Broken, WriteFull,
               KernelWrite, Owe, UserStage, UserPublish, SchedBlock, Woken,
               UserReadFault, UserWriteFault
<1> SUFFICES ASSUME NEW y \in Readers, y \notin load.hit PROVE G(y)
  BY <1>0 DEF Quiet
<1>1. /\ y \in Threads /\ y \notin Writers /\ y \notin Range(write_wait)
      /\ park \in [Threads -> Phases] /\ op \in [Threads -> Ops]
  BY Kinds, QueuesFacts DEF DInv, Types
<1>2. /\ y \in Range(read_wait) => Resting(y) /\ ~Owed(y)
      /\ \A u \in Threads : y \in op[u].owe => Resting(y)
      /\ \A u, v \in Threads : y \in op[u].owe /\ y \in op[v].owe => u = v
      /\ park[y] = "token" => op[y].at = "block"
  BY DEF Quiet
<1>e. Range(<<>>) = {}
  BY DEF Range
<1>3. ASSUME NEW t \in Threads, Acts(t), y # t PROVE G(y)
  <2>1. op'[y] = op[y] /\ \A u \in Threads : u # t => op'[u] = op[u]
    BY <1>1, <1>3, Moves DEF Keeps
  <2>2. y \in Range(read_wait') => y \in Range(read_wait)
    BY <1>3, QueueGrows
  <2>3. y \in op'[t].owe => y \in Range(read_wait) /\ y \notin Range(read_wait') /\ op[t].at = "enter"
    BY <1>3, Owes
  <2>4. CASE park'[y] = park[y] /\ ~(op[t].at = "owe" /\ y \in op[t].owe)
    <3>1. Resting(y) => Resting(y)'
      BY <2>1, <2>4 DEF Resting
    <3>2. y \in Range(read_wait') => ~Owed(y)'
      BY <1>2, <2>1, <2>2, <2>3 DEF Owed
    <3>3. ASSUME NEW u \in Threads, NEW v \in Threads, y \in op'[u].owe, y \in op'[v].owe, u # v
          PROVE  FALSE
      BY <1>2, <2>1, <2>3, <3>3 DEF Owed
    <3> QED BY <1>2, <2>1, <2>2, <2>3, <2>4, <3>1, <3>2, <3>3
  <2>5. ASSUME NEW S, Unblock(S), y \in S,
               \/ y \in Range(read_wait) /\ read_wait' = <<>> /\ op[t].at \in {"copy", "staged"}
               \/ op[t].at = "owe" /\ y \in op[t].owe
        PROVE  G(y)
    <3>1. Resting(y) /\ y \notin Range(read_wait')
      BY <1>2, <1>e, <2>2, <2>5 DEF Owed
    <3>2. y \notin op'[t].owe
      BY <2>3, <2>5
    <3>3. \A u \in Threads : y \notin op'[u].owe
      BY <1>2, <2>1, <2>5, <3>2 DEF Owed
    <3>4. park'[y] = "token" => op'[y].at = "block"
      BY <1>1, <2>1, <2>5, <3>1 DEF Unblock, Resting
    <3> QED BY <3>1, <3>3, <3>4
  <2>6. CASE SchedBlock(t)
    <3>1. park'[y] = park[y] /\ op[t].at # "owe"
      BY <1>1, <1>3, <2>6 DEF SchedBlock, Block, At
    <3> QED BY <2>4, <3>1
  <2>7. CASE ~SchedBlock(t)
    <3>1. PICK S : /\ Unblock(S)
                   /\ \A z \in Readers : z \in S =>
                        \/ z \in Range(read_wait) /\ read_wait' = <<>> /\ op[t].at \in {"copy", "staged"}
                        \/ op[t].at = "owe" /\ z \in op[t].owe
      BY <1>3, <2>7, Wakes
    <3>2. CASE y \in S
      BY <2>5, <3>1, <3>2
    <3>3. CASE op[t].at = "owe" /\ y \in op[t].owe
      <4>1. Unblock(op[t].owe)
        BY <1>3, <3>3, Moves DEF Owe
      <4> QED BY <2>5, <3>3, <4>1
    <3>4. CASE y \notin S /\ ~(op[t].at = "owe" /\ y \in op[t].owe)
      <4>1. park'[y] = park[y]
        BY <1>1, <3>1, <3>4 DEF Unblock
      <4> QED BY <2>4, <3>4, <4>1
    <3> QED BY <3>2, <3>3, <3>4
  <2> QED BY <2>6, <2>7
<1>4. ASSUME Acts(y) PROVE G(y)
  <2>0. Awake(y) /\ park[y] \in {"run", "token"} /\ \A u \in Threads : u # y => op'[u] = op[u]
    BY <1>1, <1>4, Moves DEF Keeps, Awake, Phases
  <2>1. Resting(y) => op[y].at = "block" /\ park[y] = "run" /\ SchedBlock(y)
    BY <1>1, <1>4, <2>0, Moves DEF Resting
  <2>2. y \in op'[y].owe => FALSE
    BY <1>1, <1>2, <1>4, <2>1, Owes
  <2>3. Owed(y)' => \E u \in Threads : u # y /\ y \in op[u].owe
    BY <2>0, <2>2 DEF Owed
  <2>4. CASE SchedBlock(y)
    <3>1. /\ op[y].at = "block" \/ op[y].at = "blockStaged"
          /\ park'[y] = IF park[y] = "token" THEN "run" ELSE "parked"
          /\ read_wait' = read_wait
          /\ op' = [op EXCEPT ![y].at = IF op[y].at = "block" THEN "woken" ELSE "wokenStaged"]
      BY <1>1, <2>4 DEF SchedBlock, Block, At, Goto
    <3>2. op'[y].nonblock = op[y].nonblock /\ (op[y].at = "block" => op'[y].at = "woken")
      BY <1>1, <3>1 DEF Ops
    <3>3. Resting(y) => Resting(y)'
      BY <2>1, <3>1, <3>2 DEF Resting
    <3>4. y \in Range(read_wait') => ~Owed(y)'
      BY <1>2, <2>3, <3>1 DEF Owed
    <3>5. park'[y] # "token"
      BY <3>1
    <3> QED BY <1>2, <2>0, <2>2, <3>1, <3>3, <3>4, <3>5
  <2>5. CASE ~SchedBlock(y)
    <3>1. ~Resting(y) /\ y \notin Range(read_wait) /\ \A u \in Threads : y \notin op[u].owe
      BY <1>2, <2>1, <2>5
    <3>2. \A u \in Threads : y \notin op'[u].owe
      BY <2>0, <2>2, <3>1
    <3>3. park[y] = "run"
      <4>1. park[y] = "token" => SchedBlock(y)
        BY <1>1, <1>2, <1>4, Moves
      <4> QED BY <2>0, <2>5, <4>1
    <3>4. park'[y] = "run"
      <4>1. PICK S : /\ Unblock(S)
                     /\ \A z \in Readers : z \in S =>
                          \/ z \in Range(read_wait) /\ read_wait' = <<>> /\ op[y].at \in {"copy", "staged"}
                          \/ op[y].at = "owe" /\ z \in op[y].owe
        BY <1>1, <1>4, <2>5, Wakes
      <4>2. y \notin S
        BY <1>1, <3>1, <4>1
      <4> QED BY <1>1, <3>3, <4>1, <4>2 DEF Unblock
    <3>5. y \in Range(read_wait') => Resting(y)'
      <4>1. y \in Range(read_wait') => Joins(y, "block")
        BY <1>1, <1>4, <3>1, QueueGrows
      <4>2. Joins(y, "block") => op'[y].at = "block" /\ ~op'[y].nonblock
        BY <1>1 DEF Joins, Goto, Ops
      <4> QED BY <3>4, <4>1, <4>2 DEF Resting
    <3> QED BY <3>2, <3>4, <3>5 DEF Owed
  <2> QED BY <2>4, <2>5
<1>5. ASSUME op' = op, Range(read_wait') \subseteq Range(read_wait), park'[y] = park[y] PROVE G(y)
  <2>1. (Resting(y) => Resting(y)') /\ (~Owed(y) => ~Owed(y)')
    BY <1>5 DEF Resting, Owed
  <2> QED BY <1>2, <1>5, <2>1
<1>6. ASSUME NEW t \in Threads, NEW s \in BOOLEAN, Interrupt(t, s) PROVE G(y)
  <2>1. op' = op /\ t \in load.hit /\ Poke(t)
    BY <1>6 DEF Interrupt
  <2>2. park'[y] = park[y]
    BY <1>1, <2>1 DEF Poke
  <2>3. Range(read_wait') = Range(read_wait)
    BY <1>6, CutSame
  <2> QED BY <1>5, <2>1, <2>2, <2>3
<1>7. CASE CloseRead
  <2>1. op' = op /\ Unblock(Range(write_wait)) /\ read_wait' = read_wait
    BY <1>7 DEF CloseRead, WakeAll
  <2>2. park'[y] = park[y]
    BY <1>1, <2>1 DEF Unblock
  <2> QED BY <1>5, <2>1, <2>2
<1>8. CASE CloseWrite
  <2>1. op' = op /\ Unblock(Range(read_wait)) /\ read_wait' = <<>>
    BY <1>8 DEF CloseWrite, WakeAll
  <2>2. CASE y \notin Range(read_wait)
    <3>1. park'[y] = park[y]
      BY <1>1, <2>1, <2>2 DEF Unblock
    <3> QED BY <1>5, <1>e, <2>1, <3>1
  <2>3. CASE y \in Range(read_wait)
    <3>1. Resting(y) /\ \A u \in Threads : y \notin op'[u].owe
      BY <1>2, <2>1, <2>3 DEF Owed
    <3>2. park'[y] = "token" => op'[y].at = "block"
      BY <1>1, <2>1, <2>3, <3>1 DEF Unblock, Resting
    <3> QED BY <1>e, <2>1, <3>1, <3>2
  <2> QED BY <2>2, <2>3
<1>9. CASE Create
  BY <1>5, <1>9, <1>e DEF Create
<1>10. CASE UNCHANGED vars
  BY <1>5, <1>10 DEF vars
<1> QED BY <1>3, <1>4, <1>6, <1>7, <1>8, <1>9, <1>10, Kinds DEF Next, Acts

LEMMA SInvInit == Init => SInv
<1> SUFFICES ASSUME Init PROVE SInv
  OBVIOUS
<1>1. /\ Range(read_wait) = {} /\ Range(write_wait) = {}
      /\ \A t \in Threads : /\ park[t] = "run" /\ sig[t] = FALSE
                            /\ op[t].at = "out" /\ op[t].owe = {}
  BY DEF Init, Range, AllRun, Out
<1>2. \A t \in Threads : ~Asleep(t)
  BY <1>1 DEF Asleep
<1> QED BY <1>1, <1>2, Kinds DEF SInv, Called, WritersAsleep, ReadersAsleep, Quiet

LEMMA SInvAlways == ASSUME Alone PROVE Spec => [](DInv /\ SInv)
<1>1. Init => DInv /\ SInv
  BY DInvInit, SInvInit
<1>2. DInv /\ SInv /\ [Next]_vars => (DInv /\ SInv)'
  BY DInvNext, CalledNext, WritersNext, ReadersNext, QuietNext DEF SInv
<1> QED BY <1>1, <1>2, PTL DEF Spec

(* However many readers and writers there are, if whoever is interrupted is
   alone in its queue: a writer sleeps in pipe_write() or pipe_write_user()
   only while its request does not fit and somebody may read. *)
THEOREM WritersWake == ASSUME Alone PROVE Spec => []WriterNotStranded
<1>1. DInv /\ SInv => WriterNotStranded
  BY DEF SInv, WritersAsleep, Asleep, Awake, WriterNotStranded
<1> QED BY <1>1, SInvAlways, PTL

(* However many readers and writers there are, if whoever is interrupted is
   alone in its queue: a reader sleeps in pipe_read() or pipe_read_user() over
   a pipe with bytes only while another reader is about to look, and never
   after the last writer has gone. *)
THEOREM ReadersWake == ASSUME Alone PROVE Spec => []ReaderNotStranded
<1>1. DInv /\ SInv => ReaderNotStranded
  <2> SUFFICES ASSUME DInv, SInv, NEW t \in Readers, ~Awake(t), ~Owed(t)
               PROVE  /\ t \in Range(read_wait) /\ "write" \in open
                      /\ ring # <<>> => \E u \in Readers : Looking(u)
    BY DEF ReaderNotStranded
  <2>1. Asleep(t)
    BY DEF Asleep, Awake
  <2>2. \A x \in Readers : Committed(x) => Looking(x)
    BY DEF Committed, Looking, Awake
  <2> QED BY <2>1, <2>2 DEF SInv, ReadersAsleep
<1> QED BY <1>1, SInvAlways, PTL
=============================================================================
