----------------------------- MODULE WaitQueue -----------------------------
(* kernel/wait.c and the wait_event macros of kernel/wait.h on top of the
   scheduler: threads that issue a command to a device and sleep on one shared
   queue until their command is done, as drivers/block/ahci.c does, and the
   device's interrupt handler, which wakes the whole queue.

   A thread in Timed uses wait_event_timeout(), any other wait_event().  The
   queue holds on-stack entries, so a thread stands for its entry.  Kernel
   code is not preempted, so inside the wait a thread leaves its CPU only by
   sched_block() or a sleep.

   A signal may reach a user thread anywhere.  One killed off its CPU never
   runs again and leaves its entry linked; its struct and its stack stay as
   they are here, since what a waker reads there once the reaper has freed them
   is undefined. *)
EXTENDS Sched, Sequences, SequencesExt

CONSTANTS Timed,         \* the threads that wait with a timeout
          Users          \* the threads of user processes, one each; the others
                         \* are kernel threads, which no signal reaches
ASSUME TimedThreads == Timed \subseteq Threads
ASSUME UserThreads == Users \subseteq Threads
ASSUME NoneIsNoCPU == None \notin CPUs

VARIABLES
    wq,      \* wait_queue_head_t: the queued entries, in order
    wpc,     \* where each thread is in its wait loop
    cond,    \* the condition each thread waits for: its command is done
    late,    \* the deadline of each timed wait has passed
    irq,     \* the device has raised its interrupt
    waking   \* the CPU inside wake_up_all()'s loop, which holds wq->lock

wvars == <<wq, wpc, cond, late, irq, waking>>
waitvars == <<vars, wvars>>

WTypeOK ==
    /\ TypeOK
    /\ wq \in Seq(Threads)
    /\ wpc \in [Threads -> {"out", "test", "insert", "block", "remove"}]
    /\ cond \in [Threads -> BOOLEAN]
    /\ late \in [Threads -> BOOLEAN]
    /\ irq \in BOOLEAN
    /\ waking \in CPUs \cup {None}

WInit ==
    /\ Init
    /\ wq = <<>>
    /\ wpc = [t \in Threads |-> "out"]
    /\ cond = [t \in Threads |-> FALSE]
    /\ late = [t \in Threads |-> FALSE]
    /\ irq = FALSE
    /\ waking = None

(* Thread t executes on c at pc. *)
WAt(c, t, pc) == Awake(c) /\ waking # c /\ current[c] = t /\ wpc[t] = pc
WGoto(t, pc) == wpc' = [wpc EXCEPT ![t] = pc]

(* The command is issued: port_run_slot0(), the start of the NCQ path. *)
Issue(c, t) ==
    /\ WAt(c, t, "out")
    /\ WGoto(t, "test")
    /\ cond' = [cond EXCEPT ![t] = FALSE]
    /\ late' = [late EXCEPT ![t] = FALSE]
    /\ UNCHANGED <<vars, wq, irq, waking>>

(* Mutant: the deadline is forgotten. *)
Test_NoDeadline(c, t) ==
    /\ WAt(c, t, "test")
    /\ WGoto(t, IF cond[t] THEN "out" ELSE "insert")
    /\ UNCHANGED <<vars, wq, cond, late, irq, waking>>

(* The loop test of wait_event() and wait_event_timeout(). *)
Test(c, t) ==
    /\ WAt(c, t, "test")
    /\ WGoto(t, IF cond[t] \/ (t \in Timed /\ late[t]) THEN "out" ELSE "insert")
    /\ UNCHANGED <<vars, wq, cond, late, irq, waking>>

(* The first locked section of __wait_event_sleep() and its timeout form. *)
Insert(c, t) ==
    /\ WAt(c, t, "insert")
    /\ waking = None
    /\ wq' = Append(wq, t)
    /\ WGoto(t, "block")
    /\ UNCHANGED <<vars, cond, late, irq, waking>>

(* sched_block(THREAD_SLEEPING): an untimed wait. *)
BlockOn(c, t) ==
    /\ WAt(c, t, "block")
    /\ t \notin Timed
    /\ Block(c, FALSE)
    /\ WGoto(t, "remove")
    /\ UNCHANGED <<wq, cond, late, irq, waking>>

(* sched_sleep_until_ns() for at most a millisecond, unless the deadline is
   past already; it only yields when its own clock read says so. *)
SleepOn(c, t) ==
    /\ WAt(c, t, "block")
    /\ t \in Timed
    /\ \/ late[t] /\ UNCHANGED vars
       \/ ~late[t] /\ \E h \in BOOLEAN : Sleep(c, FALSE, h)
       \/ Yield(c)
    /\ WGoto(t, "remove")
    /\ UNCHANGED <<wq, cond, late, irq, waking>>

(* Mutant: the waiter trusts the waker to have unlinked its entry. *)
Unlink_Skip(c, t) ==
    /\ WAt(c, t, "remove")
    /\ waking = None
    /\ WGoto(t, "test")
    /\ UNCHANGED <<vars, wq, cond, late, irq, waking>>

(* The last locked section: walk the queue and unlink the entry if a waker
   has not. *)
Unlink(c, t) ==
    /\ WAt(c, t, "remove")
    /\ waking = None
    /\ IF t \in Range(wq)
       THEN \E i \in DOMAIN wq : wq[i] = t /\ wq' = RemoveAt(wq, i)
       ELSE UNCHANGED wq
    /\ WGoto(t, "test")
    /\ UNCHANGED <<vars, cond, late, irq, waking>>

----------------------------------------------------------------------------
(* The device finishes a command and raises its interrupt (external). *)
Finish(t) ==
    /\ wpc[t] # "out"
    /\ ~cond[t]
    /\ cond' = [cond EXCEPT ![t] = TRUE]
    /\ irq' = TRUE
    /\ UNCHANGED <<vars, wq, wpc, late, waking>>

(* The interrupt handler of the device calls wake_up_all(): wq->lock is taken,
   entries are unlinked and woken one sched_unblock() at a time. *)
WakeAllEnter(c) ==
    /\ Awake(c)
    /\ irq
    /\ waking = None
    /\ irq' = FALSE
    /\ waking' = c
    /\ UNCHANGED <<vars, wq, wpc, cond, late>>

WakeAllPop(c) ==
    /\ waking = c
    /\ wq # <<>>
    /\ Wake(Head(wq))
    /\ wq' = Tail(wq)
    /\ UNCHANGED <<current, prev, hand, wpc, cond, late, irq, waking>>

WakeAllLeave(c) ==
    /\ waking = c
    /\ wq = <<>>
    /\ waking' = None
    /\ UNCHANGED <<vars, wq, wpc, cond, late, irq>>

(* wake_up(): one entry, for any reason of the caller's. *)
WakeUp(c) ==
    /\ Awake(c)
    /\ waking = None
    /\ wq # <<>>
    /\ Wake(Head(wq))
    /\ wq' = Tail(wq)
    /\ UNCHANGED <<current, prev, hand, wpc, cond, late, irq, waking>>

(* The clock passes a deadline. *)
Deadline(t) ==
    /\ t \in Timed
    /\ wpc[t] # "out"
    /\ ~late[t]
    /\ late' = [late EXCEPT ![t] = TRUE]
    /\ UNCHANGED <<vars, wq, wpc, cond, irq, waking>>

(* A signal, sent by a thread or an interrupt handler on c, that kills t:
   sched_kill_process(), and sched_exit_group_mark() for another thread of a
   group.  Off its CPU t is dead at once and its stack is abandoned; on its CPU
   or on the way off it, t dies when it has been switched away. *)
KillThread(c, t) ==
    /\ Awake(c)
    /\ waking # c
    /\ t \in Users
    /\ \/ /\ state[t] \in {"BLOCKED", "SLEEPING", "READY"}
          /\ state' = [state EXCEPT ![t] = "ZOMBIE"]
          /\ rq' = rq \ {t}
          /\ tree' = [tree EXCEPT ![t] = IF state[t] = "SLEEPING" THEN Unlinked(t) ELSE @]
          /\ hr' = [hr EXCEPT ![t] = @ /\ state[t] # "SLEEPING"]
       \/ /\ state[t] \in Pending \cup {"RUNNING"}
          /\ state' = [state EXCEPT ![t] = "DYING"]
          /\ UNCHANGED <<hr, tree, rq>>
    /\ UNCHANGED <<unblock_pending, current, prev, hand, wvars>>

(* A signal that t catches takes it out of its sleep; the loop of the wait
   looks at its condition and sleeps again. *)
CatchSignal(c, t) ==
    /\ Awake(c)
    /\ waking # c
    /\ t \in Users
    /\ state[t] \in {"BLOCKED", "SLEEPING"} \cup Pending
    /\ Wake(t)
    /\ UNCHANGED <<current, prev, hand, wvars>>

(* The scheduler's own steps.  Only the idle loop and a thread outside the
   wait yield. *)
SchedStep(c) ==
    /\ waking # c
    /\ \/ StartPick(c) \/ StartRun(c)
       \/ (\E t \in Threads : Create(c, t))
       \/ (current[c] \in Threads => wpc[current[c]] = "out") /\ (Yield(c) \/ YieldKeep(c))
       \/ (\E due \in BOOLEAN : PostSwitch(c, due))
       \/ (\E D \in SUBSET Threads : Expire(c, D))
    /\ UNCHANGED wvars

WNext ==
    \/ \E c \in CPUs, t \in Threads :
           \/ Issue(c, t) \/ Test(c, t) \/ Insert(c, t)
           \/ BlockOn(c, t) \/ SleepOn(c, t) \/ Unlink(c, t)
           \/ KillThread(c, t) \/ CatchSignal(c, t)
    \/ \E c \in CPUs : \/ WakeAllEnter(c) \/ WakeAllPop(c) \/ WakeAllLeave(c)
                       \/ WakeUp(c) \/ SchedStep(c)
    \/ \E t \in Threads : Finish(t) \/ Deadline(t)

WSpec == WInit /\ [][WNext]_waitvars

(* Thread t gets on: it is picked from a run queue, takes a step of its wait or
   is woken by its timer.  Its state allows at most one of the three. *)
Advance(t) ==
    \/ \E c \in CPUs : \/ Test(c, t) \/ Insert(c, t)
                       \/ BlockOn(c, t) \/ SleepOn(c, t) \/ Unlink(c, t)
    \/ \E c \in CPUs, D \in SUBSET Threads :
           t \in D /\ Expire(c, D) /\ waking # c /\ UNCHANGED wvars
    \/ /\ t \in rq
       /\ \E c \in CPUs : /\ \/ SchedStep(c)
                             \/ \E u \in Threads : BlockOn(c, u) \/ SleepOn(c, u)
                          /\ current'[c] = t

(* A thread that can get on again and again, between interrupts and between the
   turns of others, does; the clock runs; an interrupt handler and a context
   switch finish.  The device owes nothing. *)
WFairness ==
    /\ \A t \in Threads : SF_waitvars(Advance(t)) /\ WF_waitvars(Deadline(t))
    /\ \A c \in CPUs :
        /\ WF_waitvars(WakeAllEnter(c))
        /\ WF_waitvars(WakeAllPop(c) \/ WakeAllLeave(c))
        /\ WF_waitvars((\E due \in BOOLEAN : PostSwitch(c, due)) /\ UNCHANGED wvars)
        /\ WF_waitvars((StartPick(c) \/ StartRun(c)) /\ UNCHANGED wvars)

LiveWSpec == WSpec /\ WFairness

----------------------------------------------------------------------------
(* PROPERTIES *)

(* Every queued entry is on the stack of a thread that has not come out of its
   wait, and is queued once: what wake_up() finds is never the frame of a wait
   that returned, and it never wakes a thread for a wait that is over.  It says
   nothing of a thread killed in its wait.  (With the types.) *)
EntriesOfWaiters ==
    /\ WTypeOK
    /\ \A t \in Range(wq) : wpc[t] \in {"block", "remove"}
    /\ IsInjective(wq)

(* The stronger claim does not hold: the entry of a thread killed while it is
   parked stays linked, on a stack the reaper frees. *)
EntriesLive ==
    \A t \in Range(wq) : state[t] \notin {"ZOMBIE", "FREE"}

(* A thread that is parked, or will be, in an untimed wait is still queued:
   a waker never unlinks an entry without its wake-up taking effect, however
   it interleaves with the block. *)
ParkedIsQueued ==
    \A t \in Threads :
        (wpc[t] = "remove" /\ (state[t] = "BLOCKED"
                               \/ (state[t] = "BLOCKED_PENDING" /\ ~unblock_pending[t])))
            => t \in Range(wq)

(* wait_event_timeout() always ends, whatever the device and the wakers do,
   unless its thread is killed. *)
TimedWaitEnds == \A t \in Timed : wpc[t] # "out" ~> wpc[t] = "out" \/ state[t] = "ZOMBIE"

(* wait_event() sleeps until its condition is true: once the command is done
   and the waiter was told, the wait ends. *)
WaitEventReturns ==
    \A t \in Threads \ Timed : (wpc[t] # "out" /\ cond[t]) ~> wpc[t] = "out" \/ state[t] = "ZOMBIE"
=============================================================================
