-------------------------------- MODULE Pipe --------------------------------
(* fs/pipe.c: a ring of Size bytes, two kinds of callers (pipe_read() and
   pipe_write() copy under the lock, pipe_read_user() and pipe_write_user()
   copy to or from user memory without it) and the two ends' release.

   Each section under pipe->lock is one step; so is a copy, which may fault.
   A byte is <<writer, index in its write, length of that write>>.  The wait
   queues are linked through thread_t.next, which enqueue_ready() clears
   whenever it makes a thread runnable: a queued thread that is made runnable by
   anything but a pop cuts off what is queued behind it. *)
EXTENDS Blocking

CONSTANTS Readers, Writers,
          Size,            \* PIPE_BUFFER_SIZE
          Loads            \* what the threads may do; a behaviour has one of them


ASSUME Ends == Readers \cup Writers = Threads /\ Readers \cap Writers = {}
ASSUME Sizes == Size \in Nat \ {0}

(* A call: which kind, how many bytes, whether the file has O_NONBLOCK. *)
Calls == [user : BOOLEAN, len : Nat \ {0}, nonblock : BOOLEAN]

(* The calls of each thread and the threads that are interrupted. *)
ASSUME LoadsOK ==
    \A l \in Loads : l.calls \in [Threads -> SUBSET Calls] /\ l.hit \subseteq Threads

VARIABLES
    ring,         \* the bytes from read_pos on, count of them
    open,         \* the ends that are open: readers > 0, writers > 0
    read_wait, write_wait,
    op,           \* the operation each thread executes
    stale,        \* read_seq has moved since the thread's snapshot
    sig,          \* the thread has an unblocked signal pending
    load          \* the load of this behaviour

vars == <<park, ring, open, read_wait, write_wait, op, stale, sig, load>>

Out == [at |-> "out", user |-> FALSE, nonblock |-> FALSE, len |-> 0, done |-> 0, part |-> <<>>, owe |-> {}]

Bytes == Writers \X (Nat \ {0}) \X (Nat \ {0})

TypeOK ==
    /\ park \in [Threads -> Phases]
    /\ ring \in Seq(Bytes) /\ Len(ring) <= Size
    /\ open \subseteq {"read", "write"}
    /\ read_wait \in Seq(Readers) /\ IsInjective(read_wait)
    /\ write_wait \in Seq(Writers) /\ IsInjective(write_wait)
    /\ stale \in [Readers -> BOOLEAN]
    /\ sig \in [Threads -> BOOLEAN]
    /\ \A t \in Threads :
        /\ op[t].at \in {"out", "enter", "copy", "staged", "block", "blockStaged",
                         "woken", "wokenStaged", "owe"}
        /\ op[t].len \in Nat /\ op[t].done \in 0 .. op[t].len
        /\ op[t].part \in Seq(Bytes) /\ Len(op[t].part) <= Size
        /\ op[t].owe \subseteq Threads

Init ==
    /\ park = AllRun
    /\ ring = <<>>
    /\ open = {"read", "write"}
    /\ read_wait = <<>>
    /\ write_wait = <<>>
    /\ op = [t \in Threads |-> Out]
    /\ stale = [t \in Readers |-> FALSE]
    /\ sig = [t \in Threads |-> FALSE]
    /\ load \in Loads

----------------------------------------------------------------------------
Smaller(a, b) == IF a < b THEN a ELSE b
Drop(q, n) == SubSeq(q, n + 1, Len(q))
First(q) == IF q = <<>> THEN <<>> ELSE <<Head(q)>>            \* pipe_wait_pop()
Push(q, t) == IF t \in Range(q) THEN q ELSE Append(q, t)      \* pipe_wait_push()
Place(q, t) == CHOOSE i \in DOMAIN q : q[i] = t
Without(q, t) == IF t \in Range(q) THEN RemoveAt(q, Place(q, t)) ELSE q   \* pipe_wait_remove()
Cut(q, t) == IF t \in Range(q) THEN SubSeq(q, 1, Place(q, t)) ELSE q

At(t, l) == op[t].at = l /\ Awake(t)
Goto(t, l) == op' = [op EXCEPT ![t].at = l]
Return(t) == op' = [op EXCEPT ![t] = Out] /\ sig' = [sig EXCEPT ![t] = FALSE]

(* A read is committed: read_seq moves. *)
Moved(t) == stale' = [r \in Readers |-> r # t /\ (stale[r] \/ op[r].at = "copy")]

(* pipe_wake_all() on both queues as far as told. *)
WakeAll(readers, writers) ==
    /\ Unblock((IF readers THEN Range(read_wait) ELSE {})
                   \cup (IF writers THEN Range(write_wait) ELSE {}))
    /\ read_wait' = IF readers THEN <<>> ELSE read_wait
    /\ write_wait' = IF writers THEN <<>> ELSE write_wait

(* A thread enters a read or a write through its open end. *)
Enter(t) ==
    /\ At(t, "out")
    /\ (IF t \in Readers THEN "read" ELSE "write") \in open
    /\ \E r \in load.calls[t] :
           op' = [op EXCEPT ![t] = [Out EXCEPT !.at = "enter", !.user = r.user, !.len = r.len,
                                               !.nonblock = r.nonblock]]
    /\ UNCHANGED <<park, ring, open, read_wait, write_wait, stale, sig, load>>

----------------------------------------------------------------------------
(* READ *)

(* The ring is empty: end of file, EAGAIN, EINTR, or queue up to sleep. *)
ReadEmpty(t) ==
    LET quit == "write" \notin open \/ op[t].nonblock \/ (op[t].user /\ sig[t]) IN
    /\ At(t, "enter") /\ t \in Readers
    /\ ring = <<>>
    /\ IF quit THEN Return(t) /\ UNCHANGED read_wait
       ELSE /\ read_wait' = Push(read_wait, t)
            /\ Goto(t, "block")
            /\ UNCHANGED sig
    /\ UNCHANGED <<park, ring, open, write_wait, stale, load>>

(* Mutant: pipe_read() does not advance read_seq. *)
KernelRead_NoSeq(t) ==
    LET n == Smaller(op[t].len, Len(ring))
        next == IF Len(ring) > n THEN First(read_wait) ELSE <<>>
    IN
    /\ At(t, "enter") /\ t \in Readers /\ ~op[t].user
    /\ ring # <<>>
    /\ ring' = Drop(ring, n)
    /\ Unblock(Range(write_wait))
    /\ write_wait' = <<>>
    /\ read_wait' = Drop(read_wait, Len(next))
    /\ IF next = <<>> THEN Return(t)
       ELSE op' = [op EXCEPT ![t].at = "owe", ![t].owe = Range(next)] /\ UNCHANGED sig
    /\ UNCHANGED <<open, stale, load>>

(* Mutant: pipe_read() wakes one writer. *)
KernelRead_OneWriter(t) ==
    LET n == Smaller(op[t].len, Len(ring))
        next == IF Len(ring) > n THEN First(read_wait) ELSE <<>>
    IN
    /\ At(t, "enter") /\ t \in Readers /\ ~op[t].user
    /\ ring # <<>>
    /\ ring' = Drop(ring, n)
    /\ Moved(t)
    /\ Unblock(Range(First(write_wait)))
    /\ write_wait' = Drop(write_wait, Len(First(write_wait)))
    /\ read_wait' = Drop(read_wait, Len(next))
    /\ IF next = <<>> THEN Return(t)
       ELSE op' = [op EXCEPT ![t].at = "owe", ![t].owe = Range(next)] /\ UNCHANGED sig
    /\ UNCHANGED <<open, load>>

(* pipe_read() takes what is there, wakes the writers and, if bytes are left,
   pops one more reader, to be woken after the lock is dropped. *)
KernelRead(t) ==
    LET n == Smaller(op[t].len, Len(ring))
        next == IF Len(ring) > n THEN First(read_wait) ELSE <<>>
    IN
    /\ At(t, "enter") /\ t \in Readers /\ ~op[t].user
    /\ ring # <<>>
    /\ ring' = Drop(ring, n)
    /\ Moved(t)
    /\ Unblock(Range(write_wait))
    /\ write_wait' = <<>>
    /\ read_wait' = Drop(read_wait, Len(next))
    /\ IF next = <<>> THEN Return(t)
       ELSE op' = [op EXCEPT ![t].at = "owe", ![t].owe = Range(next)] /\ UNCHANGED sig
    /\ UNCHANGED <<open, load>>

(* pipe_read_user() takes a snapshot ... *)
UserSnapshot(t) ==
    /\ At(t, "enter") /\ t \in Readers /\ op[t].user
    /\ ring # <<>>
    /\ op' = [op EXCEPT ![t].at = "copy",
                        ![t].part = SubSeq(ring, 1, Smaller(op[t].len, Len(ring)))]
    /\ stale' = [stale EXCEPT ![t] = FALSE]
    /\ UNCHANGED <<park, ring, open, read_wait, write_wait, sig, load>>

(* ... copies it out, and commits the read if no other was committed since,
   else starts again. *)
UserCommit(t) ==
    LET left == Drop(ring, Len(op[t].part)) IN
    /\ At(t, "copy") /\ t \in Readers
    /\ ~stale[t]
    /\ ring' = left
    /\ Moved(t)
    /\ WakeAll(left # <<>>, TRUE)
    /\ Return(t)
    /\ UNCHANGED <<open, load>>

UserRetry(t) ==
    /\ At(t, "copy") /\ t \in Readers
    /\ stale[t]
    /\ IF sig[t] THEN Return(t)
       ELSE op' = [op EXCEPT ![t].at = "enter", ![t].part = <<>>] /\ UNCHANGED sig
    /\ stale' = [stale EXCEPT ![t] = FALSE]
    /\ UNCHANGED <<park, ring, open, read_wait, write_wait, load>>

(* Mutant: a faulting reader keeps the wake-up it got. *)
UserReadFault_Keep(t) ==
    /\ At(t, "copy") /\ t \in Readers
    /\ Return(t)
    /\ stale' = [stale EXCEPT ![t] = FALSE]
    /\ UNCHANGED <<park, ring, open, read_wait, write_wait, load>>

(* The copy faults: the bytes stay, and the other readers are told. *)
UserReadFault(t) ==
    /\ At(t, "copy") /\ t \in Readers
    /\ WakeAll(ring # <<>>, FALSE)
    /\ Return(t)
    /\ stale' = [stale EXCEPT ![t] = FALSE]
    /\ UNCHANGED <<ring, open, load>>

----------------------------------------------------------------------------
(* WRITE *)

Data(t) == [k \in 1 .. op[t].len |-> <<t, k, op[t].len>>]
Space == Size - Len(ring)

(* A request of at most Size bytes waits for room for all of it. *)
Room(t) == Space > 0 /\ (op[t].len > Size \/ Space >= op[t].len)

(* Mutant: the readers are looked for only before the copy. *)
Broken_Early(t) ==
    /\ At(t, "enter") /\ t \in Writers
    /\ "read" \notin open
    /\ Return(t)
    /\ UNCHANGED <<park, ring, open, read_wait, write_wait, stale, load>>

(* No reader is left: EPIPE and SIGPIPE. *)
Broken(t) ==
    /\ (At(t, "enter") \/ At(t, "copy") \/ At(t, "staged")) /\ t \in Writers
    /\ "read" \notin open
    /\ Return(t)
    /\ UNCHANGED <<park, ring, open, read_wait, write_wait, stale, load>>

(* No room: EAGAIN, EINTR, or queue up to sleep. *)
WriteFull(t) ==
    /\ (At(t, "enter") \/ At(t, "copy") \/ At(t, "staged")) /\ t \in Writers
    /\ "read" \in open
    /\ ~Room(t)
    /\ IF op[t].nonblock \/ (op[t].user /\ sig[t]) THEN Return(t) /\ UNCHANGED write_wait
       ELSE /\ write_wait' = Push(write_wait, t)
            /\ Goto(t, IF op[t].at = "enter" THEN "block" ELSE "blockStaged")
            /\ UNCHANGED sig
    /\ UNCHANGED <<park, ring, open, read_wait, stale, load>>

(* pipe_write() copies what fits, or all, and pops one reader and, if there is
   room left, one writer, to be woken after the lock is dropped. *)
KernelWrite(t) ==
    LET n == Smaller(op[t].len - op[t].done, Space)
        reader == First(read_wait)
        writer == IF Space > n THEN First(write_wait) ELSE <<>>
        done == op[t].done + n
    IN
    /\ At(t, "enter") /\ t \in Writers /\ ~op[t].user
    /\ "read" \in open
    /\ Room(t)
    /\ ring' = ring \o SubSeq(Data(t), op[t].done + 1, done)
    /\ read_wait' = Drop(read_wait, Len(reader))
    /\ write_wait' = Drop(write_wait, Len(writer))
    /\ op' = [op EXCEPT ![t].at = "owe", ![t].done = done,
                        ![t].owe = Range(reader) \cup Range(writer)]
    /\ UNCHANGED <<park, open, stale, sig, load>>

(* The wake-ups after the lock is dropped.  The call is over, or a partial
   write goes on. *)
Owe(t) ==
    LET over == t \in Readers \/ op[t].nonblock \/ op[t].done = op[t].len IN
    /\ At(t, "owe")
    /\ Unblock(op[t].owe)
    /\ IF over THEN Return(t)
       ELSE op' = [op EXCEPT ![t].at = "enter", ![t].owe = {}] /\ UNCHANGED sig
    /\ UNCHANGED <<ring, open, read_wait, write_wait, stale, load>>

(* pipe_write_user() copies a chunk in, without the lock ... *)
UserStage(t) ==
    /\ At(t, "enter") /\ t \in Writers /\ op[t].user
    /\ "read" \in open
    /\ Room(t)
    /\ op' = [op EXCEPT ![t].at = "copy",
                        ![t].part = SubSeq(Data(t), op[t].done + 1,
                                           Smaller(op[t].len, op[t].done + Space))]
    /\ UNCHANGED <<park, ring, open, read_wait, write_wait, stale, sig, load>>

UserWriteFault(t) ==
    /\ At(t, "copy") /\ t \in Writers
    /\ WakeAll(FALSE, Space > 0)
    /\ Return(t)
    /\ UNCHANGED <<ring, open, stale, load>>

(* Mutant: the room is not checked again after the copy. *)
UserPublish_NoRecheck(t) ==
    LET n == Smaller(Len(op[t].part), Space)
        done == op[t].done + n
    IN
    /\ (At(t, "copy") \/ At(t, "staged")) /\ t \in Writers
    /\ "read" \in open
    /\ Space > 0
    /\ ring' = ring \o SubSeq(op[t].part, 1, n)
    /\ WakeAll(TRUE, Space > n)
    /\ IF op[t].nonblock \/ done = op[t].len \/ sig[t] THEN Return(t)
       ELSE /\ op' = [op EXCEPT ![t].at = "enter", ![t].done = done, ![t].part = <<>>]
            /\ UNCHANGED sig
    /\ UNCHANGED <<open, stale, load>>

(* ... and publishes it if there is room still. *)
UserPublish(t) ==
    LET n == Smaller(Len(op[t].part), Space)
        done == op[t].done + n
    IN
    /\ (At(t, "copy") \/ At(t, "staged")) /\ t \in Writers
    /\ "read" \in open
    /\ Room(t)
    /\ ring' = ring \o SubSeq(op[t].part, 1, n)
    /\ WakeAll(TRUE, Space > n)
    /\ IF op[t].nonblock \/ done = op[t].len \/ sig[t] THEN Return(t)
       ELSE /\ op' = [op EXCEPT ![t].at = "enter", ![t].done = done, ![t].part = <<>>]
            /\ UNCHANGED sig
    /\ UNCHANGED <<open, stale, load>>

----------------------------------------------------------------------------
(* SLEEP, SIGNALS, CLOSE *)

SchedBlock(t) ==
    /\ At(t, "block") \/ At(t, "blockStaged")
    /\ Block(t)
    /\ Goto(t, IF op[t].at = "block" THEN "woken" ELSE "wokenStaged")
    /\ UNCHANGED <<ring, open, read_wait, write_wait, stale, sig, load>>

(* Back from sched_block().  pipe_sleep_locked() unlinks the thread whoever
   woke it; pipe_read() and pipe_write() do so only for a signal. *)
Woken(t) ==
    /\ At(t, "woken") \/ At(t, "wokenStaged")
    /\ IF op[t].user \/ sig[t]
       THEN read_wait' = Without(read_wait, t) /\ write_wait' = Without(write_wait, t)
       ELSE UNCHANGED <<read_wait, write_wait>>
    /\ IF sig[t] THEN Return(t)
       ELSE Goto(t, IF op[t].at = "woken" THEN "enter" ELSE "staged") /\ UNCHANGED sig
    /\ UNCHANGED <<park, ring, open, stale, load>>

(* A caught signal (s) or a stop and continue meets t in its operation, or t is
   preempted in user mode.  If that takes t through enqueue_ready(), the link
   to what is queued behind t is gone. *)
Interrupt(t, s) ==
    /\ t \in load.hit
    /\ op[t].at # "out" \/ ~s
    /\ sig' = [sig EXCEPT ![t] = @ \/ s]
    /\ Poke(t)
    /\ IF park[t] = "parked" \/ op[t].at = "out"
       THEN read_wait' = Cut(read_wait, t) /\ write_wait' = Cut(write_wait, t)
       ELSE UNCHANGED <<read_wait, write_wait>>
    /\ UNCHANGED <<ring, open, op, stale, load>>

(* The last descriptor of an end is closed; a running operation holds one. *)
CloseWrite ==
    /\ "write" \in open
    /\ \A t \in Writers : op[t].at = "out"
    /\ open' = open \ {"write"}
    /\ WakeAll(TRUE, FALSE)
    /\ UNCHANGED <<ring, op, stale, sig, load>>

CloseRead ==
    /\ "read" \in open
    /\ \A t \in Readers : op[t].at = "out"
    /\ open' = open \ {"read"}
    /\ WakeAll(FALSE, TRUE)
    /\ UNCHANGED <<ring, op, stale, sig, load>>

(* Both ends are closed, the pipe is freed and another one is created. *)
Create ==
    /\ open = {}
    /\ \A t \in Threads : op[t].at = "out"
    /\ ring' = <<>>
    /\ open' = {"read", "write"}
    /\ read_wait' = <<>>
    /\ write_wait' = <<>>
    /\ UNCHANGED <<park, op, stale, sig, load>>

Step(t) ==
    \/ ReadEmpty(t) \/ KernelRead(t) \/ UserSnapshot(t) \/ UserCommit(t) \/ UserRetry(t)
    \/ Broken(t) \/ WriteFull(t) \/ KernelWrite(t) \/ Owe(t) \/ UserStage(t) \/ UserPublish(t)
    \/ SchedBlock(t) \/ Woken(t)

Next ==
    \/ \E t \in Threads : Enter(t) \/ Step(t)
    \/ \E t \in Readers : UserReadFault(t)
    \/ \E t \in Writers : UserWriteFault(t)
    \/ \E t \in Threads, s \in BOOLEAN : Interrupt(t, s)
    \/ CloseRead \/ CloseWrite \/ Create

Spec == Init /\ [][Next]_vars

(* A thread that is not parked executes. *)
LiveSpec == Spec /\ \A t \in Threads : WF_vars(Step(t))

----------------------------------------------------------------------------
(* PROPERTIES *)

(* A write of at most PIPE_BUFFER_SIZE bytes is never split or interleaved with
   another: wherever one of its bytes is, the next one follows.  The user path
   checks for room, copies unlocked and must check again.  The ring never holds
   more than Size (with the types). *)
AtomicWrites ==
    /\ TypeOK
    /\ \A i \in DOMAIN ring :
         LET b == ring[i] IN
         b[2] < b[3] /\ b[3] <= Size => i < Len(ring) /\ ring[i + 1] = <<b[1], b[2] + 1, b[3]>>

(* What a read_user() call hands to its caller are the oldest bytes of the pipe
   at the moment it removes them, although they were copied earlier and other
   readers ran in between: no byte is delivered twice or skipped. *)
OldestFirst ==
    [][\A t \in Readers :
          op[t].at = "copy" /\ op'[t].at = "out" /\ ring' # ring
              => ring = op[t].part \o ring']_vars

Owed(t) == \E u \in Threads : t \in op[u].owe

(* A blocking reader that will look at the ring, or pass its wake-up on. *)
Looking(t) == t \in Readers /\ ~op[t].nonblock /\ op[t].at # "out" /\ (Awake(t) \/ Owed(t))

(* A reader sleeps only over an empty pipe that can still be written, or while
   another reader is about to look: a writer, a reader or a fault that leaves
   bytes behind always leaves somebody awake to take them. *)
ReaderNotStranded ==
    \A t \in Readers : ~Awake(t) /\ ~Owed(t) =>
        /\ t \in Range(read_wait)
        /\ "write" \in open
        /\ ring # <<>> => \E u \in Readers : Looking(u)

(* A writer sleeps only while its request does not fit and somebody may read. *)
WriterNotStranded ==
    \A t \in Writers : ~Awake(t) /\ ~Owed(t) =>
        t \in Range(write_wait) /\ "read" \in open /\ ~Room(t)

(* Once the other end is closed every operation returns. *)
ClosedEnds ==
    /\ \A t \in Readers : (op[t].at # "out" /\ "write" \notin open) ~> op[t].at = "out"
    /\ \A t \in Writers : (op[t].at # "out" /\ "read" \notin open) ~> op[t].at = "out"

(* "Wake up any readers blocked on empty pipe so they see EOF": no reader is
   left asleep when the last writer has closed. *)
EofWakes == "write" \notin open => \A t \in Readers : Awake(t)
=============================================================================
