------------------------------- MODULE Futex -------------------------------
(***************************************************************************)
(* futex(2), futex_waitv(2) and the futex2 calls of                        *)
(* kernel/syscall/sys_ipc.c over the scheduler's sched_wait_flag(), for    *)
(* the threads of one process (a queue entry matches only its own          *)
(* process).  A waiter puts one entry per word, living on its own kernel   *)
(* stack, at the head of the word's hash bucket, only then looks at the    *)
(* words, and sleeps on a flag that a waker sets.  Everything done under   *)
(* bucket locks is one step.                                               *)
(*                                                                         *)
(* User code is part of the model where the protocol needs it: threads     *)
(* store to words, and a joiner waits in a loop for the word that          *)
(* thread_clear_child_tid() zeroes.                                        *)
(***************************************************************************)
EXTENDS Blocking

CONSTANTS Words,       \* user addresses
          Values,      \* what a word can hold; 0 is among them
          Buckets,     \* FUTEX_HASH_SIZE of them
          Bits,        \* the bits of a bitset
          Loads        \* what the threads do: see load

ASSUME FutexAssumption ==
    /\ 0 \in Values /\ \E v \in Values : v # 0
    /\ Bits # {}
    /\ \A l \in Loads :
         /\ l.can \in [Threads -> SUBSET {"wait", "timed", "waitv", "store", "wake",
                                          "op", "requeue", "join", "exit"}]
         /\ l.calls \in Nat /\ l.signals \in Nat
         /\ l.masks \subseteq (SUBSET Bits) \ {{}}
         /\ l.hash \in [Words -> Buckets]
         /\ l.tid \in Words

VARIABLES
    value,     \* the words in user memory
    table,     \* g_futex_table: entries <<thread, index>>, newest first
    op,        \* the call each thread is in
    woken,     \* the flag each waiter sleeps on
    sig,       \* a signal is pending
    load,      \* how words hash, which calls each thread makes, bounds on the
               \* number of calls and signals, the word a joiner waits on
    calls,     \* calls made so far
    signals,   \* signals sent so far
    owed       \* words stored to since they were last woken dry

fvars == <<value, table, op, woken, sig, load, calls, signals, owed, park>>

\* futex_hash()
Bucket(w) == load.hash[w]

\* `words` are the uaddr fields of the thread's entries, which a requeue
\* moves (`moved`); `home` the words the call named.
Out == [pc |-> "user", home |-> <<>>, words |-> <<>>, exp |-> <<>>, mask |-> Bits,
        timed |-> FALSE, at |-> 1, moved |-> FALSE, cmp |-> FALSE, new |-> 0]

Init ==
    /\ load \in Loads
    /\ value = [w \in Words |-> IF w = load.tid THEN CHOOSE v \in Values : v # 0
                                ELSE 0]
    /\ table = [b \in Buckets |-> <<>>]
    /\ op = [t \in Threads |-> Out]
    /\ woken = [t \in Threads |-> FALSE]
    /\ sig = [t \in Threads |-> FALSE]
    /\ calls = 0 /\ signals = 0
    /\ owed = [w \in Words |-> FALSE]
    /\ park = AllRun

At(t, pc) == op[t].pc = pc /\ Awake(t)

\* A thread in user mode makes a call of this kind; a joiner's calls repeat
\* and are not counted.
May(t, kind) ==
    /\ At(t, "user") /\ kind \in load.can[t]
    /\ IF kind = "join" THEN UNCHANGED calls
       ELSE calls < load.calls /\ calls' = calls + 1

-----------------------------------------------------------------------------
(* Waiting                                                                 *)

Uaddr(e) == op[e[1]].words[e[2]]
Entries(t) == {<<t, i>> : i \in DOMAIN op[t].words}
Queued(e) == \E b \in Buckets : e \in ToSet(table[b])

Asks(t, kind, words, exp, mask) ==
    op' = [op EXCEPT ![t] = [Out EXCEPT !.pc = "publish", !.home = words,
                                        !.words = words, !.exp = exp,
                                        !.mask = mask, !.timed = kind = "timed"]]

\* FUTEX_WAIT, FUTEX_WAIT_BITSET, futex_wait(2): the value is looked at once
\* before anything else, and a different one returns -EAGAIN at once.
WaitCall(t, w, mask) ==
    /\ w # load.tid /\ mask \in load.masks
    /\ \E kind \in {"wait", "timed"} :
         May(t, kind) /\ Asks(t, kind, <<w>>, <<value[w]>>, mask)
    /\ UNCHANGED <<value, table, woken, sig, load, signals, owed, park>>

\* pthread_join(): wait while the word is not zero.
JoinCall(t) ==
    /\ May(t, "join")
    /\ IF value[load.tid] = 0
         THEN op' = [op EXCEPT ![t].pc = "joined"]
         ELSE Asks(t, "wait", <<load.tid>>, <<value[load.tid]>>, Bits)
    /\ UNCHANGED <<value, table, woken, sig, load, signals, owed, park>>

\* futex_waitv(2) takes several words and looks at none of them yet.
WaitvCall(t, w1, w2) ==
    /\ w1 # w2 /\ load.tid \notin {w1, w2}
    /\ May(t, "waitv")
    /\ \E v1, v2 \in Values : Asks(t, "waitv", <<w1, w2>>, <<v1, v2>>, Bits)
    /\ UNCHANGED <<value, table, woken, sig, load, signals, owed, park>>

\* The entries of bucket q that are in S, in order: what a walk along the list
\* takes, or leaves, when S is what it matches or does not match.
Kept(q, S) ==
    LET f[i \in 0 .. Len(q)] == IF i = 0 THEN <<>>
                                ELSE IF q[i] \in S THEN Append(f[i - 1], q[i])
                                ELSE f[i - 1]
    IN  f[Len(q)]

\* The entries go to the head of their buckets, in the order of the words.
Publish(t) ==
    /\ At(t, "publish")
    /\ table' = [b \in Buckets |->
                   Reverse(Kept([i \in DOMAIN op[t].words |-> <<t, i>>],
                                {e \in Entries(t) : Bucket(Uaddr(e)) = b}))
                   \o table[b]]
    /\ woken' = [woken EXCEPT ![t] = FALSE]
    /\ op' = [op EXCEPT ![t].pc = "check"]
    /\ UNCHANGED <<value, sig, load, calls, signals, owed, park>>

Check_Trusts(t) ==
    /\ At(t, "check")
    /\ op' = [op EXCEPT ![t].pc = "sleep"]
    /\ UNCHANGED <<value, table, woken, sig, load, calls, signals, owed, park>>

\* Each word is read after publication; one that differs ends the wait.
Check(t) ==
    /\ At(t, "check")
    /\ LET i == op[t].at
           same == value[op[t].home[i]] = op[t].exp[i] IN
       op' = [op EXCEPT ![t].pc = IF ~same THEN "leave"
                                  ELSE IF i = Len(op[t].home) THEN "sleep" ELSE "check",
                        ![t].at = IF same /\ i < Len(op[t].home) THEN i + 1 ELSE i]
    /\ UNCHANGED <<value, table, woken, sig, load, calls, signals, owed, park>>

Sleep_NoFlag(t) ==
    /\ At(t, "sleep")
    /\ IF op[t].timed THEN park' = [park EXCEPT ![t] = "parked"] ELSE Block(t)
    /\ op' = [op EXCEPT ![t].pc = "leave"]
    /\ UNCHANGED <<value, table, woken, sig, load, calls, signals, owed>>

\* sched_wait_flag(): under the scheduler lock, a flag already set consumes
\* the wake-up mark; a timed sleep goes ahead in spite of a mark, an untimed
\* one returns on it.
Sleep(t) ==
    /\ At(t, "sleep")
    /\ IF woken[t]
         THEN park' = [park EXCEPT ![t] = "run"]
         ELSE IF op[t].timed THEN park' = [park EXCEPT ![t] = "parked"]
         ELSE Block(t)
    /\ op' = [op EXCEPT ![t].pc = "leave"]
    /\ UNCHANGED <<value, table, woken, sig, load, calls, signals, owed>>

\* The tick ends a timed sleep.
Timeout(t) ==
    /\ park[t] = "parked" /\ op[t].timed
    /\ park' = [park EXCEPT ![t] = "run"]
    /\ UNCHANGED <<value, table, op, woken, sig, load, calls, signals, owed>>

\* A signal pulls a sleeper out; a running thread gets no mark.
Signal(t) ==
    /\ signals < load.signals /\ ~sig[t] /\ op[t].pc # "gone"
    /\ sig' = [sig EXCEPT ![t] = TRUE]
    /\ signals' = signals + 1
    /\ Poke(t)
    /\ UNCHANGED <<value, table, op, woken, load, calls, owed>>

\* However the sleep ended, whatever is still queued is taken out, under all
\* the bucket locks, from the bucket of the entry's current word.
Leave(t) ==
    /\ At(t, "leave")
    /\ table' = [b \in Buckets |->
                   Kept(table[b], {e \in ToSet(table[b]) :
                                     ~(e[1] = t /\ Bucket(Uaddr(e)) = b)})]
    /\ op' = [op EXCEPT ![t] = Out]
    /\ sig' = [sig EXCEPT ![t] = FALSE]
    /\ UNCHANGED <<value, woken, load, calls, signals, owed, park>>

-----------------------------------------------------------------------------
(* Waking                                                                  *)

\* The entries on word w, in queue order, that a wake of this mask may take.
OnWord(w, mask) ==
    LET q == table[Bucket(w)] IN
    Kept(q, {e \in ToSet(q) : Uaddr(e) = w /\ op[e[1]].mask \cap mask # {}})

First(s, n) == SubSeq(s, 1, IF n < Len(s) THEN n ELSE Len(s))

\* The flags and wake-ups of the entries in S; the ones in S are unlinked.
Release(S) ==
    LET T == {e[1] : e \in S} IN
    /\ woken' = [t \in Threads |-> woken[t] \/ t \in T]
    /\ Unblock(T)

\* Word w counts as woken dry when nobody is left waiting on it.
Settle(w, left) == owed' = [owed EXCEPT ![w] = @ /\ left # {}]

\* futex_wake_addr()
WakeAddr(w, n, mask) ==
    LET hit == ToSet(First(OnWord(w, mask), n)) IN
    /\ table' = [table EXCEPT ![Bucket(w)] = Kept(@, ToSet(@) \ hit)]
    /\ Release(hit)
    /\ Settle(w, ToSet(OnWord(w, Bits)) \ hit)

\* A plain store by user code.
Store(t, w, v) ==
    /\ May(t, "store")
    /\ w # load.tid /\ value[w] # v
    /\ value' = [value EXCEPT ![w] = v]
    /\ owed' = [owed EXCEPT ![w] = TRUE]
    /\ UNCHANGED <<table, op, woken, sig, load, signals, park>>

\* FUTEX_WAKE, FUTEX_WAKE_BITSET, futex_wake(2).
Wake(t, w, n, mask) ==
    /\ mask \in load.masks
    /\ May(t, "wake")
    /\ WakeAddr(w, n, mask)
    /\ UNCHANGED <<value, op, sig, load, signals>>

\* FUTEX_WAKE_OP reads the second word, ...
OpRead(t, w1, w2) ==
    /\ w1 # w2 /\ w2 # load.tid
    /\ May(t, "op")
    /\ \E v \in Values, cmp \in BOOLEAN :
         op' = [op EXCEPT ![t] = [Out EXCEPT !.pc = IF v = value[w2] THEN "opwake"
                                                    ELSE "opwrite",
                                             !.home = <<w1, w2>>,
                                             !.new = v, !.cmp = cmp]]
    /\ UNCHANGED <<value, table, woken, sig, load, signals, owed, park>>

\* ... writes the result back in a second access, ...
OpWrite(t) ==
    /\ At(t, "opwrite")
    /\ value' = [value EXCEPT ![op[t].home[2]] = op[t].new]
    /\ owed' = [owed EXCEPT ![op[t].home[2]] = TRUE]
    /\ op' = [op EXCEPT ![t].pc = "opwake"]
    /\ UNCHANGED <<table, woken, sig, load, calls, signals, park>>

\* ... wakes the first word's waiters and, if the old value compares, the
\* second's.
OpWake(t) ==
    /\ At(t, "opwake")
    /\ WakeAddr(op[t].home[op[t].at], 1, Bits)
    /\ op' = [op EXCEPT ![t] = IF op[t].at = 1 /\ op[t].cmp THEN [@ EXCEPT !.at = 2]
                               ELSE Out]
    /\ UNCHANGED <<value, sig, load, calls, signals>>

Requeue_InPlace(t, w1, w2, n, m) ==
    /\ w1 # w2 /\ load.tid \notin {w1, w2}
    /\ May(t, "requeue")
    /\ LET all  == OnWord(w1, Bits)
           hit  == First(all, n)
           move == First(SubSeq(all, Len(hit) + 1, Len(all)), m)
       IN /\ table' = [table EXCEPT ![Bucket(w1)] =
                          Kept(@, ToSet(@) \ ToSet(hit))]
          /\ op' = [s \in Threads |->
                      [op[s] EXCEPT !.moved = @ \/ s \in {e[1] : e \in ToSet(move)},
                                    !.words = [i \in DOMAIN @ |->
                                       IF <<s, i>> \in ToSet(move) THEN w2 ELSE @[i]]]]
          /\ Release(ToSet(hit))
          /\ Settle(w1, ToSet(all) \ (ToSet(hit) \cup ToSet(move)))
    /\ UNCHANGED <<value, sig, load, signals>>

\* FUTEX_REQUEUE, FUTEX_CMP_REQUEUE, futex_requeue(2): the first n entries of
\* w1, of any bitset, are woken and the next m move to w2, each to the head of
\* its bucket.  (A requeue of a word onto itself is left out.)
Requeue(t, w1, w2, n, m) ==
    /\ w1 # w2 /\ load.tid \notin {w1, w2}
    /\ May(t, "requeue")
    /\ LET all  == OnWord(w1, Bits)
           hit  == First(all, n)
           move == First(SubSeq(all, Len(hit) + 1, Len(all)), m)
           away == ToSet(hit) \cup ToSet(move)
           rest == [table EXCEPT ![Bucket(w1)] = Kept(@, ToSet(@) \ away)]
       IN /\ table' = [rest EXCEPT ![Bucket(w2)] = Reverse(move) \o @]
          /\ op' = [s \in Threads |->
                      [op[s] EXCEPT !.moved = @ \/ s \in {e[1] : e \in ToSet(move)},
                                    !.words = [i \in DOMAIN @ |->
                                       IF <<s, i>> \in ToSet(move) THEN w2 ELSE @[i]]]]
          /\ Release(ToSet(hit))
          /\ Settle(w1, ToSet(all) \ away)
    /\ UNCHANGED <<value, sig, load, signals>>

ExitStore_WakeOnly(t) ==
    /\ May(t, "exit")
    /\ owed' = [owed EXCEPT ![load.tid] = TRUE]
    /\ op' = [op EXCEPT ![t].pc = "exit"]
    /\ UNCHANGED <<value, table, woken, sig, load, signals, park>>

\* sched_exit_thread() -> thread_clear_child_tid(): the registered word is
\* zeroed, then one waiter woken.
ExitStore(t) ==
    /\ May(t, "exit")
    /\ value' = [value EXCEPT ![load.tid] = 0]
    /\ owed' = [owed EXCEPT ![load.tid] = TRUE]
    /\ op' = [op EXCEPT ![t].pc = "exit"]
    /\ UNCHANGED <<table, woken, sig, load, signals, park>>

ExitWake(t) ==
    /\ At(t, "exit")
    /\ WakeAddr(load.tid, 1, Bits)
    /\ op' = [op EXCEPT ![t].pc = "gone"]
    /\ UNCHANGED <<value, sig, load, calls, signals>>

-----------------------------------------------------------------------------
Counts == {1, 2}

Next == \E t \in Threads :
    \/ \E w \in Words, m \in SUBSET Bits : WaitCall(t, w, m)
    \/ JoinCall(t)
    \/ \E w1, w2 \in Words : WaitvCall(t, w1, w2)
    \/ Publish(t)
    \/ Check(t)
    \/ Sleep(t)
    \/ Timeout(t)
    \/ Signal(t)
    \/ Leave(t)
    \/ \E w \in Words, v \in Values : Store(t, w, v)
    \/ \E w \in Words, n \in Counts, m \in SUBSET Bits : Wake(t, w, n, m)
    \/ \E w1, w2 \in Words : OpRead(t, w1, w2)
    \/ OpWrite(t)
    \/ OpWake(t)
    \/ \E w1, w2 \in Words, n \in {0, 1}, m \in Counts : Requeue(t, w1, w2, n, m)
    \/ ExitStore(t)
    \/ ExitWake(t)

Spec == Init /\ [][Next]_fvars

\* What a thread does by itself once it has entered the kernel, and the
\* joiner's loop.
Runs(t) == JoinCall(t) \/ Publish(t) \/ Check(t) \/ Sleep(t) \/ Leave(t)
           \/ OpWrite(t) \/ OpWake(t) \/ ExitWake(t) \/ Timeout(t)

LiveSpec == Spec /\ \A t \in Threads : WF_fvars(Runs(t))

-----------------------------------------------------------------------------
(* Properties                                                              *)

Waiting(t) == op[t].pc \in {"check", "sleep", "leave"}

TypeOK ==
    /\ value \in [Words -> Values]
    /\ table \in [Buckets -> Seq(Threads \X {1, 2})]
    /\ \A t \in Threads :
         /\ op[t].pc \in {"user", "publish", "check", "sleep", "leave", "opwrite",
                          "opwake", "exit", "gone", "joined"}
         /\ op[t].words \in Seq(Words) /\ Len(op[t].words) <= 2
         /\ op[t].mask \subseteq Bits
    /\ woken \in [Threads -> BOOLEAN] /\ sig \in [Threads -> BOOLEAN]
    /\ owed \in [Words -> BOOLEAN]
    /\ park \in [Threads -> Phases]

\* The table holds pointers into kernel stacks.  Every entry belongs to a
\* thread that is still inside its wait, is linked once, and sits in the bucket
\* of the word it now names, where the next wake will look for it, also after a
\* requeue.  No thread is killed here: a fatal signal takes a parked waiter away
\* with its entry linked (sched.c:3701-3705), and then the frame is gone.  (With
\* the types.)
EntriesFindable ==
    /\ TypeOK
    /\ \A b \in Buckets : LET s == table[b] IN
        /\ \A i, j \in DOMAIN s : s[i] = s[j] => i = j
        /\ \A e \in ToSet(s) : Waiting(e[1]) /\ Bucket(Uaddr(e)) = b

\* A thread that sleeps can still be woken: nobody has set its flag or
\* unlinked one of its entries without waking it ("any later wake sets the
\* stable predicate").
SleeperWakeable ==
    \A t \in Threads : park[t] = "parked" =>
        ~woken[t] /\ \A e \in Entries(t) : Queued(e)

\* "Publish before checking": a thread that sleeps on a word whose value is no
\* longer the expected one is only waiting for a wake-up that the writer has
\* yet to send; a store followed by a wake of everyone never leaves a sleeper.
\* (A requeued thread waits for another word's wake-up whatever its value.)
StoreSeen ==
    \A t \in Threads : park[t] = "parked" /\ ~op[t].moved =>
        \A i \in DOMAIN op[t].home :
            value[op[t].home[i]] # op[t].exp[i] => owed[op[t].home[i]]

\* A joiner comes back once the thread it waits for has exited, whatever
\* signals and stray wake-ups it gets ("a joiner that only ever sees the futex
\* wake, with the word still holding the dead tid, spins straight back into
\* the wait").
JoinReturns ==
    []<>(\A t, x \in Threads :
            "join" \in load.can[t] /\ op[x].pc = "gone" => op[t].pc = "joined")
=============================================================================
