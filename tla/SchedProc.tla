----------------------------- MODULE SchedProc -----------------------------
(* User processes on top of the scheduler: fatal signals, exit_group and exec,
   waitpid and the reaper, and job-control stop and resume (kernel/sched/sched.c
   from sched_exit_group_mark() on, with the process half of
   sched_post_switch()).  Each g_sched_lock section is one step.

   A user thread at "run" is anywhere in its own code: it may yield, block,
   sleep, exit or enter one of the operations below, and inside one of those it
   leaves its CPU only where the operation blocks or yields, because kernel
   code is not preempted.  The reaper is a kernel thread; its sections happen
   on a CPU that runs no user thread.  waitpid() waits for any child.  Tracers,
   hold counts and vfork are not modelled, and no process is created.  Procs are
   none of those that adopt orphans (pid 1, pid 2, subreapers): for them
   sched_find_reaper() finds nobody, so the children of a process that goes away
   are left without a parent, and the wake-up of an adopter is not modelled. *)
EXTENDS Sched

CONSTANTS Procs,     \* user processes, all alive at the start
          ParentOf,  \* process_t.parent at the start, None for no parent
          Worlds     \* the starting points; a behaviour has one of them

ASSUME ProcessTree ==
    /\ ParentOf \in [Procs -> Procs \cup {None}]
    /\ None \notin Procs
    /\ \A p \in Procs : ParentOf[p] # p

(* The threads there are, the process of each (thread_t.proc), which signals
   are sent, and the threads that pass WUNTRACED and WCONTINUED to waitpid(). *)
ASSUME WorldsOK ==
    Worlds \subseteq [threads : SUBSET Threads, proc : [Threads -> Procs],
                     signals : SUBSET {"KILL", "STOP", "CONT"}, untraced : SUBSET Threads]

VARIABLES
    upc,            \* where each thread is
    listed,         \* g_process_list
    linked,         \* threads linked in process_t.threads
    dead,           \* private lists of threads to free, per reaping thread
                    \* (Idle stands for the reaper)
    parent, is_zombie, wait_thread,
    term,           \* process_t.term_signal # 0
    stop_state,     \* process_t.stop_state # PROC_STOP_NONE
    stop_notified, cont_pending,
    stopped,        \* thread_t.stopped
    world           \* the starting point of this behaviour

tree_vars == <<listed, linked, dead, parent, is_zombie>>
stop_vars == <<stop_state, stop_notified, cont_pending, stopped>>
pvars == <<upc, tree_vars, wait_thread, term, stop_vars, world>>
allvars == <<vars, pvars>>

ProcOf == world.proc

Locations == {"run", "exit", "dethread", "scan", "wait", "woken", "free",
              "stop", "mark", "announce", "park", "unpark"}

PTypeOK ==
    /\ TypeOK
    /\ upc \in [Threads -> Locations]
    /\ listed \subseteq Procs
    /\ linked \subseteq Threads
    /\ dead \in [Threads \cup {Idle} -> SUBSET Threads]
    /\ parent \in [Procs -> Procs \cup {None}]
    /\ wait_thread \in [Procs -> Threads \cup {None}]
    /\ {is_zombie, term, stop_state, stop_notified, cont_pending} \subseteq [Procs -> BOOLEAN]
    /\ stopped \in [Threads -> BOOLEAN]

(* A running system: every CPU in its idle loop, every user thread queued. *)
PInit ==
    /\ world \in Worlds
    /\ state = [t \in Threads |-> IF t \in world.threads THEN "READY" ELSE "FREE"]
    /\ unblock_pending = [t \in Threads |-> FALSE]
    /\ hr = [t \in Threads |-> FALSE]
    /\ tree = [t \in Threads |-> "none"]
    /\ rq = world.threads
    /\ current = [c \in CPUs |-> Idle]
    /\ prev = [c \in CPUs |-> None]
    /\ hand = [c \in CPUs |-> None]
    /\ upc = [t \in Threads |-> "run"]
    /\ listed = Procs
    /\ linked = world.threads
    /\ dead = [t \in Threads \cup {Idle} |-> {}]
    /\ parent = ParentOf
    /\ wait_thread = [p \in Procs |-> None]
    /\ \E no \in {[p \in Procs |-> FALSE]} :
           /\ is_zombie = no /\ term = no
           /\ stop_state = no /\ stop_notified = no /\ cont_pending = no
    /\ stopped = [t \in Threads |-> FALSE]

----------------------------------------------------------------------------
(* c executes user thread t at location l. *)
At(c, t, l) == Awake(c) /\ current[c] = t /\ t \in Threads /\ upc[t] = l
Goto(t, l) == upc' = [upc EXCEPT ![t] = l]

(* c may execute a system call that acts on other threads, or a kernel thread. *)
MayAct(c) == Awake(c) /\ (current[c] \in Threads => upc[current[c]] = "run")

ThreadsOf(p) == {t \in linked : ProcOf[t] = p}
Children(p) == {q \in listed : parent[q] = p}

(* Mutant: a waiter that is still running is not marked. *)
Rouse_NoMark(N, M, Z, D) ==
    LET off == {t \in Threads : state[t] \in {"BLOCKED", "SLEEPING"}} IN
    /\ state' = [t \in Threads |->
                    IF t \in Z THEN "ZOMBIE"
                    ELSE IF t \in D THEN "DYING"
                    ELSE IF t \in N \cap off THEN "READY"
                    ELSE state[t]]
    /\ unblock_pending' = [t \in Threads |-> unblock_pending[t] \/ (t \in N /\ state[t] \in Pending)]
    /\ rq' = (rq \ Z) \cup (N \cap off)
    /\ tree' = [t \in Threads |-> IF t \in N \cup Z /\ state[t] = "SLEEPING" THEN Unlinked(t) ELSE tree[t]]
    /\ hr' = [t \in Threads |-> hr[t] /\ ~(t \in N \cup Z /\ state[t] = "SLEEPING")]

(* The state changes made by walking a thread list in one section: the threads
   in N are woken if off the CPU or on their way off it, those in M get the READY
   mark if running, those in Z are zombified and those in D made to die. *)
Rouse(N, M, Z, D) ==
    LET off == {t \in Threads : state[t] \in {"BLOCKED", "SLEEPING"}} IN
    /\ state' = [t \in Threads |->
                    IF t \in Z THEN "ZOMBIE"
                    ELSE IF t \in D THEN "DYING"
                    ELSE IF t \in (N \cap off) \/ (t \in M /\ state[t] = "RUNNING") THEN "READY"
                    ELSE state[t]]
    /\ unblock_pending' = [t \in Threads |-> unblock_pending[t] \/ (t \in N /\ state[t] \in Pending)]
    /\ rq' = (rq \ Z) \cup (N \cap off)
    /\ tree' = [t \in Threads |-> IF t \in N \cup Z /\ state[t] = "SLEEPING" THEN Unlinked(t) ELSE tree[t]]
    /\ hr' = [t \in Threads |-> hr[t] /\ ~(t \in N \cup Z /\ state[t] = "SLEEPING")]

(* notify_waiter_locked(): whom it wakes for p; the back-pointer is cleared. *)
WaiterOf(p) ==
    LET q == parent[p] IN
    {t \in Threads : q # None /\ ~is_zombie[q] /\ wait_thread[q] = t}
Forget(T) ==
    wait_thread' = [q \in Procs |-> IF wait_thread[q] \in T THEN None ELSE wait_thread[q]]

(* Mutant: THREAD_ZOMBIE is set by hand. *)
Zombified_ByHand(Z) == {}

(* thread_zombify_locked(): a thread that dies in waitpid() is taken out of its
   process's wait_thread. *)
Zombified(Z) == {t \in Z : wait_thread[ProcOf[t]] = t}

----------------------------------------------------------------------------
(* The process half of sched_post_switch(): a dying thread is zombified, and
   the last one of its process makes the process a zombie. *)
ProcPostSwitch(c, due) ==
    LET t == prev[c]
        last == \A u \in ThreadsOf(ProcOf[t]) : u = t \/ state[u] = "ZOMBIE"
        W == IF last THEN WaiterOf(ProcOf[t]) ELSE {}
    IN
    \/ /\ t \in Threads
       /\ state[t] = "DYING"
       /\ prev' = [prev EXCEPT ![c] = None]
       /\ Rouse(W, W, {t}, {})
       /\ Forget(W \cup Zombified({t}))
       /\ is_zombie' = [is_zombie EXCEPT ![ProcOf[t]] = @ \/ last]
       /\ UNCHANGED <<current, hand, upc, listed, linked, dead, parent, term, world, stop_vars>>
    \/ /\ t \in Threads => state[t] # "DYING"
       /\ PostSwitch(c, due)
       /\ UNCHANGED pvars

(* A fatal signal: sched_kill_process() past its dispositions.  The victim's
   stopped threads are let out of the stop to exit by themselves. *)
Kill(c, p) ==
    LET T == ThreadsOf(p)
        S == {t \in T : stopped[t]}
        Z == {t \in T \ S : state[t] \in {"BLOCKED", "SLEEPING", "READY"}}
        D == {t \in T \ S : state[t] \in Pending \cup {"RUNNING"}}
        gone == \A t \in T : t \in Z \/ state[t] = "ZOMBIE"
        W == IF gone THEN WaiterOf(p) ELSE {}
    IN
    /\ "KILL" \in world.signals
    /\ MayAct(c)
    /\ p \in listed
    /\ term' = [term EXCEPT ![p] = TRUE]
    /\ stop_state' = [stop_state EXCEPT ![p] = FALSE]
    /\ Rouse(S \cup W, S \cup W, Z, D)
    /\ is_zombie' = [is_zombie EXCEPT ![p] = @ \/ gone]
    /\ Forget(W \cup Zombified(Z))
    /\ upc' = [t \in Threads |-> IF t = current[c] /\ ProcOf[t] = p THEN "exit" ELSE upc[t]]
    /\ UNCHANGED <<current, prev, hand, listed, linked, dead, parent,
                   stop_notified, cont_pending, stopped, world>>

(* sched_exit_group_mark(), for exit_group(2) or exec. *)
ExitGroup(c, t) ==
    LET T == ThreadsOf(ProcOf[t]) \ {t}
        Z == {u \in T : state[u] \in {"BLOCKED", "SLEEPING", "READY"}}
        D == {u \in T : state[u] \in Pending \cup {"RUNNING"}}
    IN
    /\ At(c, t, "run")
    /\ Rouse({}, {}, Z, D)
    /\ Forget(Zombified(Z))
    /\ \E l \in {"exit", "dethread"} : Goto(t, l)
    /\ UNCHANGED <<current, prev, hand, tree_vars, term, world, stop_vars>>

(* sched_exit_thread(). *)
ExitThread(c, t) ==
    /\ At(c, t, "run") \/ At(c, t, "exit")
    /\ Exit(c)
    /\ UNCHANGED pvars

(* sched_dethread_reap(), after sched_dethread_wait() has returned: it gives up
   after five seconds, so possibly with live siblings. *)
DethreadReap(c, t) ==
    LET Z == {u \in ThreadsOf(ProcOf[t]) \ {t} : state[u] = "ZOMBIE"} IN
    /\ At(c, t, "dethread")
    /\ linked' = linked \ Z
    /\ dead' = [dead EXCEPT ![t] = Z]
    /\ Goto(t, IF Z = {} THEN "run" ELSE "free")
    /\ UNCHANGED <<vars, listed, parent, is_zombie, wait_thread, term, world, stop_vars>>

----------------------------------------------------------------------------
(* sched_waitpid(): the scan of the process list, in one section. *)
Scanning(c, t) == At(c, t, "run") \/ At(c, t, "scan")
Zombies(t) == {q \in Children(ProcOf[t]) : is_zombie[q]}

(* A stop that is to be reported: some thread has parked in it. *)
Reportable(q) ==
    stop_state[q] /\ ~stop_notified[q] /\ \E u \in ThreadsOf(q) : stopped[u]

(* The scan finds no child to reap or to report. *)
NothingToReport(t) ==
    /\ Zombies(t) = {}
    /\ t \in world.untraced => \A q \in Children(ProcOf[t]) : ~Reportable(q) /\ ~cont_pending[q]

(* Mutant: the thread list is not detached with the process. *)
WaitReap_KeepList(c, t) ==
    /\ Scanning(c, t)
    /\ \E q \in Zombies(t) :
        /\ \A u \in ThreadsOf(q) : state[u] = "ZOMBIE"
        /\ dead' = [dead EXCEPT ![t] = ThreadsOf(q)]
        /\ Goto(t, IF ThreadsOf(q) = {} THEN "run" ELSE "free")
    /\ UNCHANGED <<vars, listed, linked, parent, is_zombie, wait_thread, term, world, stop_vars>>

(* A zombie child whose threads are all dead is unlinked and its threads are
   detached; they are freed outside the lock.  proc_destroy() then hands its
   children on, here to nobody, which nobody can observe in between. *)
WaitReap(c, t) ==
    /\ Scanning(c, t)
    /\ \E q \in Zombies(t) :
        /\ \A u \in ThreadsOf(q) : state[u] = "ZOMBIE"
        /\ listed' = listed \ {q}
        /\ linked' = linked \ ThreadsOf(q)
        /\ dead' = [dead EXCEPT ![t] = ThreadsOf(q)]
        /\ parent' = [p \in Procs |-> IF parent[p] = q THEN None ELSE parent[p]]
        /\ Goto(t, IF ThreadsOf(q) = {} THEN "run" ELSE "free")
    /\ UNCHANGED <<vars, is_zombie, wait_thread, term, world, stop_vars>>

(* Not all of them are dead yet, or another thread of this process waits
   already: yield and scan again. *)
WaitRetry(c, t) ==
    /\ Scanning(c, t)
    /\ \/ \E q \in Zombies(t) : \E u \in ThreadsOf(q) : state[u] # "ZOMBIE"
       \/ NothingToReport(t) /\ wait_thread[ProcOf[t]] \notin {None, t}
    /\ Yield(c)
    /\ Goto(t, "scan")
    /\ UNCHANGED <<tree_vars, wait_thread, term, world, stop_vars>>

(* Nothing to reap: a stopped or a continued child is reported to a caller that
   asks for it ... *)
WaitReport(c, t) ==
    /\ Scanning(c, t)
    /\ Zombies(t) = {}
    /\ t \in world.untraced
    /\ \E q \in Children(ProcOf[t]) :
           \/ /\ Reportable(q)
              /\ stop_notified' = [stop_notified EXCEPT ![q] = TRUE]
              /\ UNCHANGED cont_pending
           \/ /\ cont_pending[q]
              /\ \A r \in Children(ProcOf[t]) : ~Reportable(r)
              /\ cont_pending' = [cont_pending EXCEPT ![q] = FALSE]
              /\ UNCHANGED stop_notified
    /\ Goto(t, "run")
    /\ UNCHANGED <<vars, tree_vars, wait_thread, term, world, stop_state, stopped>>

(* ... else the call returns at once (no child, WNOHANG) ... *)
WaitReturn(c, t) ==
    /\ Scanning(c, t)
    /\ NothingToReport(t)
    /\ Goto(t, "run")
    /\ UNCHANGED <<vars, tree_vars, wait_thread, term, world, stop_vars>>

(* ... or the caller registers itself in wait_thread, in the section of the
   scan ... *)
WaitRegister(c, t) ==
    /\ Scanning(c, t)
    /\ NothingToReport(t)
    /\ Children(ProcOf[t]) # {}
    /\ wait_thread[ProcOf[t]] \in {None, t}
    /\ wait_thread' = [wait_thread EXCEPT ![ProcOf[t]] = t]
    /\ Goto(t, "wait")
    /\ UNCHANGED <<vars, tree_vars, term, world, stop_vars>>

(* ... blocks ... *)
WaitBlock(c, t) ==
    /\ At(c, t, "wait")
    /\ Block(c, FALSE)
    /\ Goto(t, "woken")
    /\ UNCHANGED <<tree_vars, wait_thread, term, world, stop_vars>>

(* ... and scans again, or returns -EINTR. *)
WaitWoken(c, t) ==
    /\ At(c, t, "woken")
    /\ wait_thread' = [wait_thread EXCEPT ![ProcOf[t]] = IF @ = t THEN None ELSE @]
    /\ \E l \in {"scan", "run"} : Goto(t, l)
    /\ UNCHANGED <<vars, tree_vars, term, world, stop_vars>>

(* kstack_free() and thread_free() of one thread of a private list. *)
FreeOne(holder, u) ==
    /\ u \in dead[holder]
    /\ state' = [state EXCEPT ![u] = "FREE"]
    /\ dead' = [dead EXCEPT ![holder] = @ \ {u}]
    /\ UNCHANGED <<unblock_pending, hr, tree, rq, current, prev, hand, listed, linked,
                   parent, is_zombie, wait_thread, term, world, stop_vars>>

WaitFree(c, t) ==
    /\ At(c, t, "free")
    /\ \E u \in Threads : FreeOne(t, u)
    /\ Goto(t, IF dead'[t] = {} THEN "run" ELSE "free")

(* sched_reaper_loop(): a dead process is left to its parent, or unlinked and
   its children handed on, here to nobody; the dead threads of a live one are
   collected. *)
ReaperSweep(c, p) ==
    LET T == ThreadsOf(p)
        Z == {t \in T : state[t] = "ZOMBIE"}
        kept == Z = T /\ parent[p] # None /\ ~is_zombie[parent[p]]
    IN
    /\ Awake(c)
    /\ current[c] = Idle
    /\ dead[Idle] = {}
    /\ p \in listed
    /\ Z # {}
    /\ IF kept THEN is_zombie' = [is_zombie EXCEPT ![p] = TRUE]
               ELSE UNCHANGED is_zombie
    /\ linked' = IF kept THEN linked ELSE linked \ Z
    /\ dead' = [dead EXCEPT ![Idle] = IF kept THEN {} ELSE Z]
    /\ listed' = IF Z = T /\ ~kept THEN listed \ {p} ELSE listed
    /\ parent' = [q \in Procs |-> IF Z = T /\ ~kept /\ parent[q] = p THEN None ELSE parent[q]]
    /\ UNCHANGED <<vars, upc, wait_thread, term, world, stop_vars>>

ReaperFree(c) ==
    /\ Awake(c)
    /\ current[c] = Idle
    /\ \E u \in Threads : FreeOne(Idle, u)
    /\ UNCHANGED upc

----------------------------------------------------------------------------
(* request_stop_locked(): a stop signal. *)
Stop(c, p) ==
    /\ "STOP" \in world.signals
    /\ MayAct(c)
    /\ p \in listed
    /\ ~is_zombie[p]
    /\ stop_state' = [stop_state EXCEPT ![p] = TRUE]
    /\ stop_notified' = [stop_notified EXCEPT ![p] = FALSE]
    /\ cont_pending' = [cont_pending EXCEPT ![p] = FALSE]
    /\ Rouse(ThreadsOf(p), {}, {}, {})
    /\ UNCHANGED <<current, prev, hand, upc, tree_vars, wait_thread, term, world, stopped>>

(* Mutant: the waiter is not told. *)
Continue_Silent(c, p) ==
    LET S == {t \in ThreadsOf(p) : stopped[t] /\ state[t] # "SLEEPING"}
    IN
    /\ "CONT" \in world.signals
    /\ MayAct(c)
    /\ p \in listed
    /\ stop_state[p]
    /\ stop_state' = [stop_state EXCEPT ![p] = FALSE]
    /\ stop_notified' = [stop_notified EXCEPT ![p] = FALSE]
    /\ cont_pending' = [cont_pending EXCEPT ![p] = TRUE]
    /\ Rouse(S, S, {}, {})
    /\ UNCHANGED <<current, prev, hand, upc, tree_vars, wait_thread, term, world, stopped>>

(* SIGCONT: the stop is over.  Only the threads marked stopped are woken. *)
Continue(c, p) ==
    LET S == {t \in ThreadsOf(p) : stopped[t] /\ state[t] # "SLEEPING"}
        W == WaiterOf(p)
    IN
    /\ "CONT" \in world.signals
    /\ MayAct(c)
    /\ p \in listed
    /\ stop_state[p]
    /\ stop_state' = [stop_state EXCEPT ![p] = FALSE]
    /\ stop_notified' = [stop_notified EXCEPT ![p] = FALSE]
    /\ cont_pending' = [cont_pending EXCEPT ![p] = TRUE]
    /\ Rouse(S \cup W, S \cup W, {}, {})
    /\ Forget(W)
    /\ UNCHANGED <<current, prev, hand, upc, tree_vars, term, world, stopped>>

(* sched_stop_current(), on the way back to user mode: the loop test ... *)
StopTest(c, t) ==
    LET p == ProcOf[t]
        out == state[t] = "DYING" \/ is_zombie[p]
    IN
    /\ (At(c, t, "run") /\ stop_state[p]) \/ At(c, t, "stop")
    /\ \/ stop_state[p] /\ ~out /\ Goto(t, "mark")
       \/ /\ ~stop_state[p] \/ out
          /\ Goto(t, IF term[p] /\ ~out THEN "exit" ELSE "run")
    /\ UNCHANGED <<vars, tree_vars, wait_thread, term, world, stop_vars>>

StopMark(c, t) ==
    /\ At(c, t, "mark")
    /\ stopped' = [stopped EXCEPT ![t] = TRUE]
    /\ Goto(t, "announce")
    /\ UNCHANGED <<vars, tree_vars, wait_thread, term, world, stop_state, stop_notified, cont_pending>>

(* ... sched_notify_parent() ... *)
StopAnnounce(c, t) ==
    LET W == WaiterOf(ProcOf[t]) IN
    /\ At(c, t, "announce")
    /\ Rouse(W, W, {}, {})
    /\ Forget(W)
    /\ Goto(t, "park")
    /\ UNCHANGED <<current, prev, hand, tree_vars, term, world, stop_vars>>

(* ... and the block. *)
StopPark(c, t) ==
    /\ At(c, t, "park")
    /\ Block(c, FALSE)
    /\ Goto(t, "unpark")
    /\ UNCHANGED <<tree_vars, wait_thread, term, world, stop_vars>>

StopUnpark(c, t) ==
    /\ At(c, t, "unpark")
    /\ stopped' = [stopped EXCEPT ![t] = FALSE]
    /\ Goto(t, "stop")
    /\ UNCHANGED <<vars, tree_vars, wait_thread, term, world, stop_state, stop_notified, cont_pending>>

----------------------------------------------------------------------------
(* What else a user thread and the interrupts do, as in Sched. *)
Ordinary(c) ==
    /\ \/ /\ MayAct(c)
          /\ \/ Yield(c) \/ Block(c, FALSE) \/ Sleep(c, FALSE, FALSE)
       \/ \E t \in Threads : Unblock(c, t)
       \/ \E t \in Threads : Expire(c, {t})
    /\ UNCHANGED pvars

PNext ==
    \E c \in CPUs :
        \/ \E due \in BOOLEAN : ProcPostSwitch(c, due)
        \/ Ordinary(c)
        \/ \E p \in Procs : Kill(c, p)
        \/ \E p \in Procs : Stop(c, p)
        \/ \E p \in Procs : Continue(c, p)
        \/ \E p \in Procs : ReaperSweep(c, p)
        \/ ReaperFree(c)
        \/ \E t \in Threads :
             \/ ExitGroup(c, t) \/ ExitThread(c, t) \/ DethreadReap(c, t)
             \/ WaitReap(c, t) \/ WaitRetry(c, t) \/ WaitReport(c, t) \/ WaitReturn(c, t)
             \/ WaitRegister(c, t) \/ WaitBlock(c, t) \/ WaitWoken(c, t)
             \/ WaitFree(c, t)
             \/ StopTest(c, t) \/ StopMark(c, t) \/ StopAnnounce(c, t)
             \/ StopPark(c, t) \/ StopUnpark(c, t)

PSpec == PInit /\ [][PNext]_allvars

----------------------------------------------------------------------------
(* PROPERTIES *)

Parked(t) == state[t] = "BLOCKED" \/ (state[t] = "BLOCKED_PENDING" /\ ~unblock_pending[t])

(* A parent is never parked in waitpid() with a dead child to collect, and its
   registration is in place for the next one to find, however the child's last
   steps and the parent's scan, registration and block interleave. *)
WaiterNotStranded ==
    \A t \in Threads :
        upc[t] = "woken" /\ Parked(t)
            => Zombies(t) = {} /\ wait_thread[ProcOf[t]] = t

(* No report of a continue is missed: a parent parked in a waitpid() that asks
   for them has none to collect.  SIGCONT may come between its scan of the
   children, its registration and its block. *)
ContinueSeen ==
    \A t \in world.untraced :
        upc[t] = "woken" /\ Parked(t)
            => \A q \in Children(ProcOf[t]) : ~cont_pending[q]

(* wait_thread never outlives the thread it names. *)
WaitThreadLive ==
    \A p \in Procs : wait_thread[p] # None =>
        /\ state[wait_thread[p]] \notin {"ZOMBIE", "FREE"}
        /\ upc[wait_thread[p]] \in {"wait", "woken"}

(* A thread is freed once: waitpid(), the reaper and exec, which all collect
   dead threads and free them outside the lock, never hold the same one.
   (With the types.) *)
FreedOnce ==
    /\ PTypeOK
    /\ \A h \in DOMAIN dead : \A t \in dead[h] :
        /\ state[t] = "ZOMBIE"
        /\ t \notin linked
        /\ \A g \in DOMAIN dead : t \in dead[g] => g = h

(* SIGCONT ends a stop: no thread stays parked in a stop that is over. *)
ResumeWakes ==
    \A t \in Threads : upc[t] = "unpark" /\ Parked(t) => stop_state[ProcOf[t]]

(* "SIGKILL still gets out" of a stop: no thread of a killed process is parked
   in one. *)
KillGetsOut ==
    \A t \in Threads : upc[t] = "unpark" /\ term[ProcOf[t]] => ~Parked(t)
=============================================================================
