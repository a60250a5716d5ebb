------------------------------- MODULE Sched -------------------------------
(* The core of kernel/sched/sched.c: how a thread gets on and off a CPU, how
   it blocks, sleeps and is woken, for the threads of the kernel process
   (which are never killed from outside; SchedProc adds user processes).

   Every g_sched_lock critical section is one step.  A context switch is two:
   the section that picks the successor and records the thread being left in
   cpu->prev_thread, and sched_post_switch(), which runs on the far side of
   switch_to_asm() and only then makes the left thread visible to other CPUs.
   Between the two, interrupts are masked on that CPU (Busy).  Periodic
   balancing and the boot-time hand-over take a thread off a run queue
   outside g_sched_lock, so they are two steps as well.

   Which run queue a runnable thread is linked on, its virtual runtime and
   its priority are abstracted: dequeue_ready() may return any queued thread
   or none (affinity masks and the stealing heuristics can hide every one). *)
EXTENDS FiniteSets

CONSTANTS CPUs,      \* online CPUs
          Threads,   \* thread_t structures, the idle threads apart
          Idle,      \* stands for g_idle_threads[c]: it only ever runs on c
          None       \* NULL

ASSUME CPUsFinite == IsFiniteSet(CPUs) /\ CPUs # {}
ASSUME SentinelsDistinct == Idle # None /\ Idle \notin Threads /\ None \notin Threads

VARIABLES
    state,             \* thread_t.state; "FREE" is a struct without THREAD_MAGIC
    unblock_pending,   \* thread_t.unblock_pending
    hr,                \* thread_t.sleep_deadline_ns # 0
    tree,              \* the sleep tree the thread is linked in, or "none"
    rq,                \* threads linked on some run queue (rq_cpu # -1)
    current,           \* cpu_info_t.current_thread, None before sched_start()
    prev,              \* cpu_info_t.prev_thread
    hand               \* a thread this CPU unlinked outside g_sched_lock

vars == <<state, unblock_pending, hr, tree, rq, current, prev, hand>>

States == {"FREE", "READY", "RUNNING", "BLOCKED_PENDING", "BLOCKED",
           "SLEEPING_PENDING", "SLEEPING", "DYING", "ZOMBIE"}
Pending == {"BLOCKED_PENDING", "SLEEPING_PENDING"}

TypeOK ==
    /\ state \in [Threads -> States]
    /\ unblock_pending \in [Threads -> BOOLEAN]
    /\ hr \in [Threads -> BOOLEAN]
    /\ tree \in [Threads -> {"none", "tick", "hr"}]
    /\ rq \subseteq Threads
    /\ current \in [CPUs -> Threads \cup {Idle, None}]
    /\ prev \in [CPUs -> Threads \cup {Idle, None}]
    /\ hand \in [CPUs -> Threads \cup {Idle, None}]

----------------------------------------------------------------------------
(* Every CPU is about to call sched_start(); sched_init() has run and no
   kernel thread but the idle ones exists yet. *)
Init ==
    /\ state = [t \in Threads |-> "FREE"]
    /\ unblock_pending = [t \in Threads |-> FALSE]
    /\ hr = [t \in Threads |-> FALSE]
    /\ tree = [t \in Threads |-> "none"]
    /\ rq = {}
    /\ current = [c \in CPUs |-> None]
    /\ prev = [c \in CPUs |-> None]
    /\ hand = [c \in CPUs |-> None]

(* Interrupts are masked on c and its code is in the middle of a hand-over. *)
Busy(c) == prev[c] # None \/ hand[c] # None

(* c executes the code of its current thread, or an interrupt on top of it. *)
Awake(c) == current[c] # None /\ ~Busy(c)

(* What dequeue_ready() may return; Idle stands for the fallback on NULL. *)
Dequeue == rq \cup {Idle}

(* Mutant: the thread left is queued inside the switch, as before the fix
   sched_yield() records ("Enqueue moved to sched_post_switch"). *)
Switch_EnqueueEarly(c, s) ==
    \E next \in Dequeue \ {current[c]} :
        /\ state' = [t \in Threads |-> IF t = next THEN "RUNNING"
                                       ELSE IF t = current[c] THEN s ELSE state[t]]
        /\ rq' = (rq \ {next}) \cup (IF s = "READY" THEN {current[c]} \ {Idle} ELSE {})
        /\ prev' = [prev EXCEPT ![c] = current[c]]
        /\ current' = [current EXCEPT ![c] = next]
        /\ UNCHANGED hand

(* The common tail of sched_yield, sched_block_common, sched_sleep_common and
   sched_exit_thread: the current thread is left in state s and the CPU goes to
   a successor.  The thread left is parked in prev_thread, not on a queue. *)
Switch(c, s) ==
    \E next \in Dequeue \ {current[c]} :
        /\ state' = [t \in Threads |-> IF t = next THEN "RUNNING"
                                       ELSE IF t = current[c] THEN s ELSE state[t]]
        /\ rq' = rq \ {next}
        /\ prev' = [prev EXCEPT ![c] = current[c]]
        /\ current' = [current EXCEPT ![c] = next]
        /\ UNCHANGED hand

(* The state a thread asking for s is left in: a DYING thread stays DYING. *)
Unless(t, s) == IF state[t] = "DYING" THEN "DYING" ELSE s

(* enqueue_ready() on a set of threads: a ZOMBIE or a struct without its
   magic is refused. *)
Enqueueable(T) == {t \in T : state[t] \notin {"ZOMBIE", "FREE"}}

----------------------------------------------------------------------------
(* sched_start(): the first thread of a CPU is dequeued in one g_sched_lock
   section and made RUNNING in a second one. *)
StartPick(c) ==
    /\ current[c] = None
    /\ hand[c] = None
    /\ \E next \in Dequeue : /\ hand' = [hand EXCEPT ![c] = next]
                             /\ rq' = rq \ {next}
    /\ UNCHANGED <<state, unblock_pending, hr, tree, current, prev>>

StartRun(c) ==
    /\ current[c] = None
    /\ hand[c] # None
    /\ state' = [t \in Threads |-> IF t = hand[c] THEN "RUNNING" ELSE state[t]]
    /\ current' = [current EXCEPT ![c] = hand[c]]
    /\ hand' = [hand EXCEPT ![c] = None]
    /\ UNCHANGED <<unblock_pending, hr, tree, rq, prev>>

(* thread_create_ex() / sched_enqueue_thread(): nobody can name the struct
   before it is linked, so its initialisation is one step with the enqueue. *)
Create(c, t) ==
    /\ ~Busy(c)
    /\ state[t] = "FREE"
    /\ state' = [state EXCEPT ![t] = "READY"]
    /\ unblock_pending' = [unblock_pending EXCEPT ![t] = FALSE]
    /\ hr' = [hr EXCEPT ![t] = FALSE]
    /\ rq' = rq \cup {t}
    /\ UNCHANGED <<tree, current, prev, hand>>

(* sched_yield() that gives the CPU away; the idle loop calls it too. *)
Yield(c) ==
    /\ Awake(c)
    /\ Switch(c, IF current[c] \in Threads THEN Unless(current[c], "READY") ELSE "READY")
    /\ UNCHANGED <<unblock_pending, hr, tree>>

(* sched_yield() of a real-time thread that sched_should_switch() keeps: the
   successor is pushed back where it came from. *)
YieldKeep(c) ==
    LET t == current[c] IN
    /\ Awake(c)
    /\ t \in Threads
    /\ state[t] # "DYING"
    /\ rq # {}
    /\ state' = [state EXCEPT ![t] = "RUNNING"]
    /\ UNCHANGED <<unblock_pending, hr, tree, rq, current, prev, hand>>

(* A block or a timed wait that returns at once: the caller's *woken flag is
   set, or (block only) sched_unblock() left its READY mark on the thread. *)
Abort(c) ==
    LET t == current[c] IN
    /\ state' = [state EXCEPT ![t] = IF @ = "READY" THEN "RUNNING" ELSE @]
    /\ unblock_pending' = [unblock_pending EXCEPT ![t] = FALSE]
    /\ UNCHANGED <<hr, tree, rq, current, prev, hand>>

(* The part of sched_block_common() and sched_sleep_common() that commits. *)
Commit(c, s) ==
    LET t == current[c] IN
    /\ Switch(c, Unless(t, s))
    /\ unblock_pending' = [unblock_pending EXCEPT
                             ![t] = IF state[t] = "DYING" THEN @ ELSE FALSE]
    /\ UNCHANGED tree

(* Mutant: without the BUG-I test of the READY mark. *)
Block_IgnoreMark(c, woken) ==
    /\ Awake(c)
    /\ current[c] \in Threads
    /\ IF woken THEN Abort(c)
                ELSE Commit(c, "BLOCKED_PENDING") /\ UNCHANGED hr

(* sched_block() (woken = FALSE) and sched_wait_flag(&woken, 0). *)
Block(c, woken) ==
    LET t == current[c] IN
    /\ Awake(c)
    /\ t \in Threads
    /\ IF woken \/ state[t] = "READY"
       THEN Abort(c)
       ELSE Commit(c, "BLOCKED_PENDING") /\ UNCHANGED hr

(* sched_sleep(), sched_sleep_until_ns() (high = TRUE) and
   sched_wait_flag(&woken, ticks).  Unlike a block, a sleep does not look at
   the READY mark: only the caller's own flag can cancel it. *)
Sleep(c, woken, high) ==
    LET t == current[c] IN
    /\ Awake(c)
    /\ t \in Threads
    /\ IF woken
       THEN Abort(c)
       ELSE /\ Commit(c, "SLEEPING_PENDING")
            /\ hr' = [hr EXCEPT ![t] = IF state[t] = "DYING" THEN @ ELSE high]

(* sched_exit_thread() of a kernel thread. *)
Exit(c) ==
    /\ Awake(c)
    /\ current[c] \in Threads
    /\ Switch(c, "DYING")
    /\ UNCHANGED <<unblock_pending, hr, tree>>

(* sched_post_switch(): the thread left behind becomes what its state asks
   for; due says that a sleeper's deadline has passed already. *)
Settled(t, due) ==
    CASE state[t] = "DYING" -> "ZOMBIE"
      [] state[t] = "SLEEPING_PENDING" ->
             IF unblock_pending[t] \/ due THEN "READY" ELSE "SLEEPING"
      [] state[t] = "BLOCKED_PENDING" ->
             IF unblock_pending[t] THEN "READY" ELSE "BLOCKED"
      [] OTHER -> state[t]

(* Mutant: a wake-up that came mid-switch marks the thread but does not link it. *)
SettleThread_NoEnqueue(t, due) ==
    LET s == Settled(t, due) IN
    /\ state' = [state EXCEPT ![t] = s]
    /\ rq' = IF state[t] = "READY" THEN rq \cup {t} ELSE rq
    /\ tree' = [tree EXCEPT ![t] = IF s # "SLEEPING" THEN @
                                   ELSE IF hr[t] THEN "hr" ELSE "tick"]
    /\ unblock_pending' = [unblock_pending EXCEPT
                             ![t] = IF state[t] \in Pending THEN FALSE ELSE @]
    /\ hr' = [hr EXCEPT ![t] = IF state[t] = "SLEEPING_PENDING" /\ s = "READY"
                               THEN FALSE ELSE @]

SettleThread(t, due) ==
    LET s == Settled(t, due) IN
    /\ state' = [state EXCEPT ![t] = s]
    /\ rq' = IF s = "READY" THEN rq \cup {t} ELSE rq
    /\ tree' = [tree EXCEPT ![t] = IF s # "SLEEPING" THEN @
                                   ELSE IF hr[t] THEN "hr" ELSE "tick"]
    /\ unblock_pending' = [unblock_pending EXCEPT
                             ![t] = IF state[t] \in Pending THEN FALSE ELSE @]
    /\ hr' = [hr EXCEPT ![t] = IF state[t] = "SLEEPING_PENDING" /\ s = "READY"
                               THEN FALSE ELSE @]

(* Mutant: the idle thread is queued like any other. *)
PostSwitch_QueueIdle(c, due) ==
    /\ prev[c] # None
    /\ prev' = [prev EXCEPT ![c] = None]
    /\ IF prev[c] = Idle
       THEN rq' = rq \cup {Idle} /\ UNCHANGED <<state, tree, unblock_pending, hr>>
       ELSE SettleThread(prev[c], due)
    /\ UNCHANGED <<current, hand>>

PostSwitch(c, due) ==
    /\ prev[c] # None
    /\ prev' = [prev EXCEPT ![c] = None]
    /\ IF prev[c] = Idle THEN UNCHANGED <<state, rq, tree, unblock_pending, hr>>
                         ELSE SettleThread(prev[c], due)
    /\ UNCHANGED <<current, hand>>

(* Mutant: sleep_deadline_ns is cleared before it is used to choose the tree. *)
Unlinked_ClearFirst(t) == IF tree[t] = "tick" THEN "none" ELSE tree[t]

(* sleep_queue_remove_locked(): sleep_deadline_ns chooses the tree the node is
   erased from, so a node linked in the other tree would stay linked. *)
Unlinked(t) == IF tree[t] = (IF hr[t] THEN "hr" ELSE "tick") THEN "none" ELSE tree[t]

(* Mutant: a wake-up that finds the thread mid-switch is dropped. *)
Wake_DropPending(t) ==
    \/ /\ state[t] \in {"BLOCKED", "SLEEPING"}
       /\ tree' = [tree EXCEPT ![t] = IF state[t] = "SLEEPING" THEN Unlinked(t) ELSE @]
       /\ hr' = [hr EXCEPT ![t] = IF state[t] = "SLEEPING" THEN FALSE ELSE @]
       /\ state' = [state EXCEPT ![t] = "READY"]
       /\ rq' = rq \cup {t}
       /\ UNCHANGED unblock_pending
    \/ /\ state[t] = "RUNNING"
       /\ state' = [state EXCEPT ![t] = "READY"]
       /\ UNCHANGED <<unblock_pending, hr, tree, rq>>
    \/ /\ state[t] \notin {"BLOCKED", "SLEEPING", "RUNNING"}
       /\ UNCHANGED <<state, unblock_pending, hr, tree, rq>>

(* sched_unblock(), from any thread or interrupt handler.  A thread that is
   already runnable, dying or dead is left alone. *)
Wake(t) ==
    \/ /\ state[t] \in {"BLOCKED", "SLEEPING"}
       /\ tree' = [tree EXCEPT ![t] = IF state[t] = "SLEEPING" THEN Unlinked(t) ELSE @]
       /\ hr' = [hr EXCEPT ![t] = IF state[t] = "SLEEPING" THEN FALSE ELSE @]
       /\ state' = [state EXCEPT ![t] = "READY"]
       /\ rq' = rq \cup {t}
       /\ UNCHANGED unblock_pending
    \/ /\ state[t] \in Pending
       /\ unblock_pending' = [unblock_pending EXCEPT ![t] = TRUE]
       /\ UNCHANGED <<state, hr, tree, rq>>
    \/ /\ state[t] = "RUNNING"
       /\ state' = [state EXCEPT ![t] = "READY"]
       /\ UNCHANGED <<unblock_pending, hr, tree, rq>>
    \/ /\ state[t] \in {"READY", "DYING", "ZOMBIE", "FREE"}
       /\ UNCHANGED <<state, unblock_pending, hr, tree, rq>>

Unblock(c, t) ==
    /\ Awake(c)
    /\ Wake(t)
    /\ UNCHANGED <<current, prev, hand>>

(* The wake-up half of sched_tick() and hr_expire_locked(): the sleepers in D
   are due.  Deadlines are abstracted, so any set of sleepers may be. *)
Expire(c, D) ==
    /\ Awake(c)
    /\ D # {}
    /\ D \subseteq {t \in Threads : tree[t] # "none"}
    /\ tree' = [t \in Threads |-> IF t \in D THEN "none" ELSE tree[t]]
    /\ hr' = [t \in Threads |-> IF t \in D /\ tree[t] = "hr" THEN FALSE ELSE hr[t]]
    /\ state' = [t \in Threads |-> IF t \in Enqueueable(D) THEN "READY" ELSE state[t]]
    /\ rq' = rq \cup Enqueueable(D)
    /\ UNCHANGED <<unblock_pending, current, prev, hand>>

(* sched_balance_tick(): rq_steal_from() a neighbour, then link the thread on
   the local queue, each under a run-queue lock but not under g_sched_lock. *)
BalancePull(c) ==
    /\ Awake(c)
    /\ \E t \in rq : /\ hand' = [hand EXCEPT ![c] = t]
                     /\ rq' = rq \ {t}
    /\ UNCHANGED <<state, unblock_pending, hr, tree, current, prev>>

BalancePush(c) ==
    /\ current[c] # None
    /\ hand[c] # None
    /\ rq' = rq \cup {hand[c]}
    /\ hand' = [hand EXCEPT ![c] = None]
    /\ UNCHANGED <<state, unblock_pending, hr, tree, current, prev>>

----------------------------------------------------------------------------
Next ==
    \E c \in CPUs :
        \/ StartPick(c)
        \/ StartRun(c)
        \/ Yield(c)
        \/ YieldKeep(c)
        \/ \E w \in BOOLEAN : Block(c, w)
        \/ \E w, h \in BOOLEAN : Sleep(c, w, h)
        \/ Exit(c)
        \/ \E due \in BOOLEAN : PostSwitch(c, due)
        \/ \E t \in Threads : Create(c, t)
        \/ \E t \in Threads : Unblock(c, t)
        \/ \E D \in SUBSET Threads : Expire(c, D)
        \/ BalancePull(c)
        \/ BalancePush(c)

Spec == Init /\ [][Next]_vars

(* Scheduling assumptions.  An interrupts-off hand-over always finishes; a CPU
   that has booted gets to run; and a thread that stays queued is picked
   eventually, which is what ordering the tree by vruntime is for. *)
Picks(c, t) == Next /\ t \in rq /\ current'[c] = t
Fairness ==
    /\ \A c \in CPUs : /\ WF_vars(\E due \in BOOLEAN : PostSwitch(c, due))
                       /\ WF_vars(BalancePush(c))
                       /\ WF_vars(StartPick(c) \/ StartRun(c))
    /\ \A t \in Threads : SF_vars(\E c \in CPUs : Picks(c, t))

LiveSpec == Spec /\ Fairness

----------------------------------------------------------------------------
(* PROPERTIES *)

On(t, c) == current[c] = t \/ prev[c] = t \/ hand[c] = t

(* A thread is in the hands of at most one CPU (running there, being left
   there or being moved there), and a thread some CPU has is not linked on a
   run queue, from which another CPU could run it on the same kernel stack.
   This is why sched_yield() leaves the enqueue to sched_post_switch(). *)
StackExclusive ==
    \A t \in Threads : \A c \in CPUs :
        On(t, c) => /\ t \notin rq
                    /\ \A d \in CPUs : On(t, d) => c = d
                    /\ current[c] # t \/ prev[c] # t

(* "No CPU will switch_to it again", "no CPU holds prev_thread on any of them":
   a zombie, whose stack may be freed at any moment, is on no CPU.  The threads
   of this module are never killed; those of WaitQueue and SchedProc are. *)
ZombieOffCPU ==
    \A t \in Threads : state[t] \in {"ZOMBIE", "FREE"} => \A c \in CPUs : ~On(t, c)

(* No thread is lost, and none is where its state says it is not: a READY one
   is queued or held by a CPU, RUNNING means current, a pending one is still
   being left, SLEEPING means linked in the sleep tree sleep_deadline_ns names,
   and a blocked or dead one is out of every structure. *)
Placed ==
    \A t \in Threads :
        /\ state[t] = "READY" => t \in rq \/ \E c \in CPUs : On(t, c)
        /\ state[t] = "RUNNING" => \E c \in CPUs : current[c] = t
        /\ state[t] \in Pending \cup {"DYING"} => \E c \in CPUs : prev[c] = t
        /\ tree[t] = (IF state[t] # "SLEEPING" THEN "none"
                      ELSE IF hr[t] THEN "hr" ELSE "tick")
        /\ t \in rq => state[t] = "READY"
        /\ state[t] \in {"BLOCKED", "SLEEPING", "ZOMBIE", "FREE"}
              => \A c \in CPUs : ~On(t, c)
        /\ unblock_pending[t] => state[t] \in Pending

(* The blocking protocol of sched_block()/sched_unblock(), as Park states it:
   a wake-up given between a thread's decision to block and its being parked
   is never dropped, except by a timed sleep. *)
Phase(t) ==
    CASE state[t] = "READY" ->
             IF \E c \in CPUs : current[c] = t THEN "token" ELSE "ready"
      [] state[t] = "BLOCKED_PENDING" ->
             IF unblock_pending[t] THEN "pendingWoken" ELSE "pending"
      [] state[t] = "SLEEPING_PENDING" ->
             IF unblock_pending[t] THEN "dozingWoken" ELSE "dozing"
      [] OTHER -> state[t]

P == INSTANCE Park WITH phase <- [t \in Threads |-> Phase(t)]
ImplementsPark == P!Spec

(* A thread that becomes runnable eventually runs: no wake-up path leaves a
   READY thread where no CPU looks for it. *)
ReadyRuns == \A t \in Threads : Phase(t) = "ready" ~> Phase(t) = "RUNNING"
=============================================================================
