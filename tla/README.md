# A verification project for the AzamiOS kernel

AzamiOS is a 64-bit SMP kernel with a Linux-like system call interface, a C
library and a userland. This directory models the part of it on which all the
rest depends and which is hardest to test: how threads get on and off CPUs, how
they block and are woken, how processes die and are collected, how they are
stopped and continued, how CPUs call each other and keep their TLBs in step, and
the three blocking services most programs rest on: pipes, futexes and TCP. The
models are TLA+
modules; TLC checks them on small instances, and TLAPS proves the safety
properties for every instance.

The models are written from the source. `PROJECT.json` gives, for each
definition, the lines it translates.

## 1. Inventory

### 1.1 The parts and their state

| part | code | state | operations |
|---|---|---|---|
| scheduler core | `kernel/sched/sched.c` | `thread_t.state`, `unblock_pending`, `sleep_deadline_ns`; per-CPU run queues; two sleep trees; per-CPU `current_thread` and `prev_thread` | create, start, yield, block, sleep, wake, tick, balance, exit, post-switch |
| processes | `kernel/sched/sched.c` | `g_process_list`, `process_t.threads`, `parent`, `is_zombie`, `wait_thread`, `term_signal` | kill, exit_group, exec's de-threading, waitpid, reaper |
| job control | `kernel/sched/sched.c` | `stop_state`, `stop_notified`, `cont_pending`, `thread_t.stopped` | stop, continue, `sched_stop_current`, reports |
| wait queues | `kernel/wait.c`, `kernel/wait.h` | a locked list of on-stack entries | wait_event, wait_event_timeout, wake_up, wake_up_all |
| SMP calls | `arch/x86_64/cpu/smp.c` | a lock-free inbox per CPU, requests on the sender's stack | call, push, drain, wait |
| bounded SMP requests | `arch/x86_64/cpu/smp_rpc.c`, `smp_rpc_state.h` | one slot per CPU with a tagged ownership word | call, drain, cancel, complete |
| deferred work | `completion.c`, `workqueue.c`, `kthread.c`, `softirq.c` | counters and lists under small locks | complete, wait; queue, flush, destroy; run, stop; schedule, kill |
| timers | `ktimer.c`, `timer_list.c`, `time/timekeeping.c` | armed timers, clocks | arm, cancel, expire |
| signals and ptrace | `signal.c`, `ptrace.c` | pending and blocked sets, tracer links | send, deliver, attach, resume |
| pipes | `fs/pipe.c` | a ring, its counters, `read_seq`, two wait queues linked through `thread_t.next` | read, write (kernel and user buffers), release of either end |
| futexes | `kernel/syscall/sys_ipc.c` | a hash table of on-stack entries | wait, waitv, wake, wake-op, requeue, clear the thread id |
| other IPC | `kernel/ipc/*` | bounded buffers, semaphores, bare `thread_t*` wait slots | send, receive, wait, post, close |
| TLB shootdown | `arch/x86_64/mm/tlb.c`, `vmm.c`, `vmm.h` | per-CPU descriptors (`req`, `done`, scope), per-process PCID and `pcid_primed` | map, unmap, switch, queue, send, wait, handle |
| memory | `kernel/mm/*`, `arch/x86_64/mm/*` | page allocator with per-CPU caches, heap, page tables | allocate, free, map, unmap |
| TCP | `kernel/net/tcp.c` | control blocks in a list and a hash, backlog, receive ring, three wait slots, reference count | connect, accept, send, receive, shutdown, close, segment input, timer tick |
| rest of the network | `kernel/net/*` | sockets, datagram queues, routes | send, receive |
| files and devices | `fs/*`, `drivers/*`, `hal/*` | dentries, inodes, caches, device queues | open, read, write, ... |
| userland | `userland/*` | separate programs | |

### 1.2 How they interact

Everything that waits ends in the scheduler: `sched_block()`, `sched_sleep*()`
and `sched_unblock()`. Most subsystems keep a bare `thread_t *` or a wait queue
next to the condition they wait for, take their own lock, and call
`sched_unblock()` under it. The scheduler has one lock, `g_sched_lock`; run
queues and sleep trees have locks of their own below it. Interrupt handlers
(timer, devices, IPIs) call into the scheduler as well. Kernel code is not
preempted: a thread leaves its CPU only by a call that blocks or yields, or on
its way back to user mode.

The far side of a context switch is the delicate part. The thread being left is
recorded in `cpu->prev_thread`; only `sched_post_switch()`, executed by the next
thread on its own stack, queues, parks, files or buries it.

Processes use the scheduler from above: killing changes other threads' states
directly, `waitpid()` blocks, the reaper frees. SMP calls are below: membarrier,
the page allocator and perf use them, with interrupts masked or not. TLB shootdown
has its own descriptors and IPI; the scheduler tells it which CPUs a process has
run on, and the memory code frees a frame when it returns.

Pipes, futexes and TCP keep their waiters in three different ways: a list through
`thread_t.next`, a table of entries on the waiters' stacks, and one bare pointer per
socket. All three are woken by `sched_unblock()`; a signal wakes a thread past
them, and the thread has to take itself out.

### 1.3 What is hard

* A wake-up that meets a thread which has decided to block but is still on its
  stack, or already off the queue and not yet parked.
* A thread that is READY but on no run queue: marked by `sched_unblock()` while
  running, being left by `sched_yield()`, or in the balancer's hands.
* A parent that scans, registers and blocks while its child dies, and two
  collectors (parent, reaper, exec) that free outside the lock.
* Flags of the stop protocol that are read and written without the lock under
  which the continue signal looks at them.
* Conditions tested under one lock and slept on after it: who changes them must
  find the sleeper, whichever list, table or slot it is in.
* Copies to and from user memory made without the lock, over data that another
  thread may take meanwhile, and that may fault after a wake-up was consumed.
* Translations that outlive the mapping: merged requests, acknowledgements for a
  flush that came too early, dropped IPIs, masks that are too small.
* Lost, duplicated and reordered segments against a handshake with a timer, a
  backlog and a listener that may close at any time.
* Requests whose storage belongs to a sender that may time out, return and
  reuse it while the receiver still works on it; lost IPIs; CPUs that wait for
  each other with interrupts masked.

`PROJECT.json` lists these hazards one by one, each at its line, with the
property that covers it.

### 1.4 What makes each part correct

* Scheduler: one CPU per stack; no thread lost; no wake-up lost; a runnable
  thread runs.
* Processes: a dead child wakes its parent; a thread is freed once and not while
  a CPU runs on it; back-pointers do not dangle.
* Job control: a stop parks, a continue un-parks, a kill gets out.
* Wait queues: no entry of a wait that is over; who is parked is queued; a timed
  wait ends.
* SMP calls: each request runs exactly once, no pointer into a dead frame, no
  mutual wait.
* TLB shootdown: when it returns no CPU reaches the old frame; it returns.
* Pipes: bytes once and in order, small writes whole, nobody asleep over data,
  room or a closed end.
* Futexes: no store-and-wake is slept through; entries are found and unlinked
  wherever a requeue put them; a join returns.
* TCP: the stream is a prefix; every counted reference has a holder; a child has one owner; nobody
  sleeps over what it waits for; handshakes end.
* Bounded requests: at most once, cancellation is final, the data belongs to one
  owner, the caller always comes back.

## 2. The modules

```
Park          what block / wake-up promise            (abstract)
Sched         the scheduler core            implements Park
  WaitQueue     wait.c on top of Sched
  SchedProc     processes and job control on top of Sched
    SchedProofs      the theorems of the three
SmpRpc        bounded cross-CPU requests
  SmpRpcProofs  its theorems
SmpCall       cross-CPU function calls
  SmpCallProofs its theorems
Tlb           TLB shootdown, address-space switch, freeing of frames
  TlbProofs     its theorems
Blocking      block / wake-up as seen by a client (Park with the token)
  Pipe          fs/pipe.c
    PipeProofs    its theorems
  Futex         the futex part of sys_ipc.c
    FutexProofs   its theorems
  Tcp           both ends of tcp.c and the network between them
    TcpInv        its inductive invariants
    TcpProofs     its theorems
QueueLemmas   facts about sequences used as queues, for the proofs
MC*           instances for TLC
```

### Park

The contract of `sched_block()`/`sched_unblock()` for one thread at a time,
without CPUs or queues: a thread is running, runnable, on its way to a block or a
sleep, parked or dead. A wake-up given to a running thread leaves a token; one
given on the way to a block turns the block into "runnable". `Sched` implements
it with the mapping `Phase`: the token is "READY and current on a CPU", a kept
wake-up is `unblock_pending`.

The contract records one weakness of the code. A timed sleep does not look at
the READY mark (`sched_sleep_common()` tests only the caller's own flag), so a
token is consumed by going to sleep; the deadline ends the sleep instead.

### Sched

One variable per field that decides where a thread is. `rq` is the union of all
run queues; `hand[c]` is a thread that CPU `c` has unlinked outside
`g_sched_lock` (balancing, `sched_start()`). Every `g_sched_lock` section is one
step, a context switch is two (`Switch`, then `PostSwitch`), and so are
`sched_balance_tick()` and `sched_start()`, whose two halves hold different locks.
`Busy(c)` says that CPU `c` has interrupts masked in the middle of one.

Abstracted: which queue a thread is on, vruntime, priorities and affinity
(`dequeue_ready()` may return any queued thread, or none although some are
queued), deadlines (any sleeper may be due), CPU-time accounting, address-space
and FPU switches.

| action | code |
|---|---|
| `StartPick`, `StartRun` | `sched_start()` |
| `Create` | `thread_create_ex()`, `sched_enqueue_thread()` |
| `Yield`, `YieldKeep` | `sched_yield()` |
| `Block(c, woken)` | `sched_block()`, `sched_wait_flag(.., 0)` |
| `Sleep(c, woken, high)` | `sched_sleep()`, `sched_sleep_until_ns()`, `sched_wait_flag()` |
| `Exit` | `sched_exit_thread()` |
| `PostSwitch` | `sched_post_switch()` |
| `Unblock` | `sched_unblock()` |
| `Expire` | the wake-up half of `sched_tick()` and of the high-resolution timer |
| `BalancePull`, `BalancePush` | `sched_balance_tick()` |

### WaitQueue

`Sched` with threads that issue a command and wait on one shared queue, the way
`drivers/block/ahci.c` does, timed or untimed. Entries are on the waiters'
stacks, so a thread stands for its entry. Each `wq->lock` section is one step,
except that `wake_up_all()` wakes one entry per step while it holds the lock.
`Finish` (the device) and `Deadline` (the clock) are external. Signals reach the
waiters in `Users`: `KillThread` is the fatal path of `sched_kill_process()`, which
makes a parked waiter a zombie where it is, with its entry linked, and `CatchSignal`
ends a sleep, after which the wait loop goes on.

### SchedProc

`Sched` with user processes: `upc` says where each user thread is in the
operation it executes; `listed`, `linked` and `dead` are the process list, the
thread lists and the private lists of threads about to be freed. Each
`g_sched_lock` section is one step; freeing happens one thread at a time outside
the lock. `Rouse` is the state dispatch that `poke_threads_locked()`,
`notify_waiter_locked()`, SIGCONT and the fatal path all perform on lists of
threads. The stop loop of `sched_stop_current()` is five steps, one per access
that another CPU can observe. A behaviour has one of `Worlds` (variable `world`):
which threads belong to which process, which signals are sent, and which threads
pass WUNTRACED and WCONTINUED to `waitpid()`. No process of a world is an adopter
(a subreaper, pid 1 or 2), so `sched_find_reaper()` returns NULL and the children of
a dead parent are handed to nobody.

### SmpRpc

One slot and its ownership word `(state, tag)`; every compare-and-swap, the copies
into and out of the slot and the start and end of the callback are steps.
`MaxCalls` bounds the number of calls (the tag counter). The spin limit and the
deadline are abstracted: any pass of the wait loop may give up.

### SmpCall

One request per (sender, target), as in the array on the sender's stack, with
its `next` and `done`. A CPU drains in two contexts: the wait loop and, unless
interrupts are masked, the interrupt on top of it. An IPI may be lost (`MaxLost`).
A behaviour has one of `Loads`: the masks each sender calls and how often.

### Tlb

An address space has one user page and the kernel half one global page; a CPU
caches at most one translation of each per tag. `Edit` is a page-table change that
replaces a frame (map over, fork's write protection, copy on write), `Exec` the
replacement of a space; `Aim`, `Queue`, `Send`, `Await`, `Resend` and `Return` are
`tlb_shootdown_mask()` and its callers step by step, and `Enter`, `Snapshot`,
`Flush`, `Ack`, `Eoi` the interrupt handler. `Merge` is how a second request widens
the descriptor of a target. `Post` is the local APICs: an interrupt that meets its
own handler in service may be dropped, and `maxLost` more may be lost. `Return`
frees the old frame. CPUs start as they boot: on the kernel's page tables, which
`sched_start()` does not load again, and primed for no process. The history variable
`missed`, which no guard reads, holds the CPUs that a shootdown of the kernel half did
not ask and that have not flushed everything since. A translation is cached as early as the processor may cache
it, at the switch and after every change: an entry cached later can only be newer.

### Blocking, Pipe, Futex, Tcp

`Blocking` restates what `Sched` is shown to implement for a thread that blocks: it
is awake, awake with a wake-up kept for its next block, or asleep.

`Pipe`: one step per section under `pipe->lock`, one per unlocked copy. `read_wait`
and `write_wait` are sequences; `Cut` is what `enqueue_ready()` does to one when it
makes a thread runnable that nobody popped. `stale` says that `read_seq` has moved
since a reader's snapshot. A user write stages at most `Size` bytes, sleeps for
room, looks again and publishes.

`Futex`: entries `<<thread, index>>` in buckets; `Publish`, `Check`, `Sleep`, `Leave`
are the waiter; `WakeAddr` and `Requeue` hold the bucket locks. `Kept` is a walk
along a bucket that unlinks what it matches and keeps the rest in order. `Release` is split
from the waiter's return as in the code: a waker sets the flag and wakes; the waiter
unlinks itself under all bucket locks. `FUTEX_WAKE_OP` is three steps, since nothing
is held between its read, its write and its two wakes. `Store` and `JoinCall` are
user code.

`Tcp`: a server machine and client machines. `tcp_input()` is cut at its locks:
`RxLookup` under `g_tcp_lock`, one action per state under the socket lock, and
separate steps for creating a child (`RxChild`), putting it in the backlog
(`RxBacklog`) or closing it (`RxClosed`) and waking the acceptor (`RxNotify`). The
timer is a context of its own (`TickTake`, `TickAgain`, `TickGiveUp`, `TickSplice`,
`TickEnd`), and so is each thread in a call. `tcp_socket_close()` is a list of
`job`s, because a closing listener closes its children. Sequence numbers are modulo
`Wrap` and start two below the wrap-around. The module assumes that no call but an
`accept()` that holds its reference meets a close of its socket by another thread;
section 5 says where the code does not see to that. Options, checksums, windows and the
tick count are abstracted: an armed retransmission may be due at any time at which
the receive path is not in the middle of arming it.

In the three modules a behaviour has one of `Loads`: what each thread may call, and
bounds on calls, bytes, losses, duplicates and signals.

## 3. Runs

| run | instance | checks |
|---|---|---|
| `sched` | 2 CPUs, 3 threads | `TypeOK`, `StackExclusive`, `Placed`, `ImplementsPark`, `ReadyRuns` |
| `waitqueue` | 2 CPUs, a timed and an untimed waiter, either may be signalled or killed | `EntriesOfWaiters`, `ParkedIsQueued`, `TimedWaitEnds` |
| `smp_rpc` | 3 senders, 3 calls | `TypeOK`, `NoSecondRun`, `CancelledNeverRuns`, `PayloadStable`, `OwnResult`, `CallsReturn`, `AbandonedRecovers` |
| `smp_call` | 2 CPUs calling each other, 2 sharing a third's inbox, crossing calls; 1 lost IPI | `InboxExact`, `OnceEach`, `CallReturns` |
| `proc` | 2 CPUs; a child of 2 threads; a parent of 2; stop and continue | `WaiterNotStranded`, `FreedOnce`, `WaitThreadLive`, `ContinueSeen` |
| `pipe` | 2-byte ring, requests of 1 to 3 bytes, up to 2 readers or 2 writers | `AtomicWrites`, `OldestFirst`, `ReaderNotStranded`, `WriterNotStranded`, `ClosedEnds` |
| `tlb` | 2 CPUs with 2 edits, 3 with 1; 2 processes and the kernel; 0 or 1 lost IPIs | `FreedUnreachable`, `StaleIsOwed`, `ShootdownsEnd` |
| `futex` | 3 threads, 3 words, 2 buckets, 3 or 4 calls, 1 signal | `EntriesFindable`, `SleeperWakeable`, `StoreSeen`, `JoinReturns` |
| `tcp` | 2 clients, a listener with a backlog of 1, up to 3 bytes, 1 loss or duplicate, 0 or 1 retries | `StreamInOrder`, `RefsExact`, `OneOwner`, `NobodyStranded`, `DeadChildSpliced`, `HandshakesEnd` |

Three more runs are expected to fail; see section 5. In every module but `Sched` and
`SmpRpc` the type invariant is a conjunct of the invariant about the module's
bookkeeping (`EntriesOfWaiters`, `InboxExact`, `FreedOnce`,
`AtomicWrites`, `StaleIsOwed`, `EntriesFindable`, `RefsExact`).

Why the bounds are enough for the questions asked. In `Sched` every hazard
involves one thread, the CPU that leaves it, and a CPU that wakes, takes or
balances it; two CPUs and three threads let each of them be busy with another
thread as well. A wait queue needs two entries for order and removal from the
middle. The slot of `SmpRpc` needs a slow drain, the sender it belonged to and a
sender that reuses it, and a third call to reuse it again. `SmpCall` needs two
senders racing on one inbox and a target that is neither. In `SchedProc` a second
thread in the child makes "the last one dies" a race, and a second one in the
parent makes `wait_thread` contended.

`Pipe` needs requests shorter than the ring (whole or not at all), as long and
longer (in pieces), and two callers at one end for a stolen snapshot or a wake-up
that goes to the wrong one. `Tlb` needs two requests to meet in one descriptor, two
tags to meet in one request, and a CPU that is no target. `Futex` needs words that
share a bucket and words that do not, a waiter behind the one that is woken or moved,
and a waker that comes back. `Tcp` needs a backlog that fills up, a child whose
listener closes, a segment of more than is left of the ring, and each fault once.

Named bounds on behaviour: `MaxCalls` (`SmpRpc`), `calls` and `MaxLost` (`SmpCall`),
`maxEdits` and `maxLost` (`Tlb`), `calls` and `signals` (`Futex`), `bytes`, `lose`,
`dup`, `signals` and `kids` (`Tcp`). Where a bound or a peer that has nothing more to
do may end a behaviour (`smp_rpc`, `smp_call`, `tlb`, `futex`, `tcp`), the run does not
check for deadlock; `sched`, `proc` and `pipe` do. Nor does `waitqueue`, where every
thread may be killed.

In the `pipe` run nobody else sleeps at the end where a thread is interrupted: with
another sleeper behind it the race of `pipe_cut` breaks the list. In the `tcp` run a
socket has one acceptor and one reader.

The `proc` and `waitqueue` runs carry the state constraint `ZombieOffCPU`:
behaviours are followed up to the first state in which a thread has been
zombified on its CPU, a race of the code that has a run of its own. What happens
after it (a stack freed under a running thread) has no defined continuation, and
the other properties are about executions in which it has not happened. In
`waitqueue` only `KillThread`, of which no fairness is assumed, makes such a state, so
cutting there loses no fair behaviour that `TimedWaitEnds` is about.

`ContinueSeen` speaks of continues only. The same is not true of stops: a thread
that has missed a SIGCONT (section 5) is already marked stopped when the next
stop signal comes, and that stop is announced only after the thread's next turn of
the loop, if it has one.

### Fairness

* `Sched`: a hand-over with interrupts masked finishes; a booted CPU runs; a
  thread that is queued again and again is picked eventually. The last one is what
  ordering by virtual runtime and the balancer provide for CFS threads; a real-time
  thread that never blocks can starve the others, and that is not claimed.
* `WaitQueue`: a thread that can again and again be picked, take a step of its wait
  or be woken by its timer does so; the clock runs; interrupt handlers and context
  switches finish. The device owes nothing.
* `SmpRpc`: a caller's loop is bounded by its spin count, and a drain that has
  begun finishes. The target need not ever begin one.
* `SmpCall`: CPUs execute, pending interrupts are taken when unmasked, and an IPI
  sent again and again arrives, the premise of the re-send in `smp_call_wait()`.
* `Tlb`: CPUs execute and take pending interrupts; losses are bounded.
* `Pipe`: a thread that is awake inside a call goes on; nobody need make a call or
  close an end.
* `Futex`: a thread inside the kernel, and a joiner's loop, go on; a deadline passes.
* `Tcp`: each machine's receive path and timer go on, and a client inside
  `connect()` runs when it is awake. The wire owes nothing: a segment that is not
  lost arrives because the receiver goes on taking what is there, and losses are
  bounded by the load.

## 4. Proofs

`SchedProofs` proves, for every finite non-empty set of CPUs and every set of
threads (assumptions `CPUsFinite` and `SentinelsDistinct`):

* `TypeCorrect`, `StackExclusion`, `NoThreadLost`: the invariants `TypeOK`,
  `StackExclusive` and `Placed`;
* `Refinement`: `Spec` implements `Park`.

`StackExclusive` and `Placed` are not inductive alone. That a queued thread is on no
CPU follows from where each state may be; that a state is where it should be
follows from no other CPU having the thread. `Handover` adds what is true while a
thread is between queues: it is READY, and the CPU is not switching from or to it.
`IInv` is the conjunction. The proof has one case per action; the four actions that
switch share the lemma `SwitchIInv`. The refinement goes action by action over the
phase of a single thread (`StepPark`), with `MoveStep` and `SwitchPark` for the
common shapes.

Its second part proves `EntriesOfWaiters` and `ParkedIsQueued` for any CPUs, threads,
choice of timed waiters and of waiters that signals reach (it assumes besides that
`None` is no CPU), in behaviours with `[]ZombieOffCPU`, the constraint of the run. A kill
puts a thread in a state the scheduler alone does not, so the part rests on `SInv`, which
`IInv` implies: a thread is placed as its state says or is dying (`PlacedOrDying`).
`WaitersKeepTheirStacks` is stack exclusion in spite of the kills. For kernel threads
(`Users = {}`) `UsesScheduler` shows `WSpec => Spec`: the wait queue then uses the
scheduler only through the scheduler's own actions, so `SchedulerKept` gets stack
exclusion, placement and the refinement of `Park` for nothing. `WIInv` adds to `SInv` that an
entry is queued once and only between the waiter's two locked sections (`Queued`),
and that a waiter about to block is queued or carries the READY mark of the waker
that unlinked it (`Waiting`); without the second, a parked thread could be one that
was unlinked before it blocked.

`SmpRpcProofs` proves, for any set of callers and any `MaxCalls \in Nat`, the five
invariants of `SmpRpc`. Each of them speaks about the moment the callback runs and
depends on who owned the slot before, so `IInv` records the ownership: what a
sender may conclude from its place in `smp_rpc_call()` (`Own`), what the word says of
the slot's contents (`Contents`), what the target may conclude from its place in
`smp_rpc_drain()` (`Target`), and that tags are never handed out twice (`TagInv`).

`SmpCallProofs` proves `InboxExact` and `OnceEach` for any CPUs, senders, masks and number
of calls and of lost interrupts. `InboxExact` speaks about what the `next` pointers reach;
a step changes pointers inside a structure of which the reached set says too little,
so `CInv` says that there are sequences the pointers spell (`Spells`), one for the inbox
and one for each context of a CPU, which share no request and hold the open ones (`Listed`).
A push appends to one, a drain moves one whole, an acknowledgement takes the end off;
a request whose pointer is still being written is in none. `Ran` counts the runs of
each request and `Calling` says what a sender may conclude from its place in the
call. Reachability is defined by the closed sets, so no induction on steps along
the pointers is needed but the one by which a closed set holds a whole list
(`SpellReach`).

The third part of `SchedProofs` proves `FreedOnce`, `WaitThreadLive`, `WaiterNotStranded` and
`ContinueSeen` for any CPUs, threads, process tree in which no process is its own
parent (`ProcessTree`) and worlds (`WorldsOK`). Each theorem has the hypothesis
`[]ZombieOffCPU`, the state constraint of the `proc` run: it speaks of behaviours in
which no zombie has a CPU on its stack, and `zombie_stack` shows that the code has
others. `PInv` says where a thread may be (`Where`), that a detached thread is dead and
on one list (`Detached`), that a live thread is linked and a process is a zombie
exactly when its threads are (`Linked`, `ZombieProcs`), and, for a parent,
that `wait_thread` names a live thread inside its wait (`Registered`), that it stays on
its CPU between registering and blocking (`OnTheWay`), and that as long as no wake-up has
reached it, it is the registered one and there is nothing to report (`Seen`). The
last is what no single critical section shows: a second waiter of the same process
takes the registration away, and must wake the first.

`TlbProofs` proves `StaleIsOwed` and `FreedUnreachable` for any CPUs, processes, frames
and loads that satisfy `Separate`: no two processes share a space or a tag, and nobody
edits another process's space. The `tlb` run's instance satisfies it. `tlb_shared` shows
that the first part is needed; reused PCIDs and ptrace's edits, named in section 5, are
where the code leaves the others. Nothing is assumed of which CPUs have run what: for user
spaces both properties hold without exception, since a CPU that runs a user process has
loaded its space and is primed; for the kernel half they speak of the CPUs not in
`missed`, and section 5 shows what happens to the others. `TInv` follows a request from its
initiator to the flush: an initiator stays on the space it edits, or the space is
gone (`Owner`), a request not yet taken up is within the descriptor's scope and one
being handled within the scope of the flush (`Tickets`), every entry of a primed tag,
not only of the loaded one, is current or owed a flush (`Fresh`), and a frame has
one holder (`Held`). `Tickets` is where `Merge` is shown not to narrow a pending scope.

`PipeProofs` proves `AtomicWrites` and `OldestFirst` for any readers, writers, ring
size and load (`DInv`: what a writer has staged are the next bytes of its request, all
of them if it fits; what a reader has copied is what the ring begins with until another
reader commits; wherever a byte of a small write is, the next follows). It proves
`WriterNotStranded` and `ReaderNotStranded` when whoever may be interrupted is the only
one that sleeps at its end (`Alone`), as in the loads of the `pipe` run; `pipe_cut` shows
that this is needed. `SInv`: who sleeps, or is about to, is in the queue and has a
reason (`WritersAsleep`, `ReadersAsleep`). For readers the reason may be gone when another
reader is bound to look at the ring (`Committed`), and that such a wake-up goes to a
reader that will use it is `Quiet`.

`FutexProofs` proves `EntriesFindable`, `SleeperWakeable` and `StoreSeen` for any threads,
words, values, buckets, bits, hash function and load. `FInv`: each bucket holds entries of
waiters on words that hash to it, each once (`Found`); until its flag is set a waiter's
entries are all linked (`Linked`), from publication on and not only while it is
parked; a waiter that has looked at its word and means to sleep is owed a wake-up when
the word has changed since (`Seen`). The walk `Kept` is a recursive function; what it
computes is shown by taking the least position at which a claim fails
(`LeastNumber`), which replaces the induction theorems.

`TcpProofs` proves `RefsExact`, `OneOwner` and `DeadChildSpliced` for any clients, server
threads and children, any wrap of the sequence numbers, any increment of the initial ones
smaller than it, ring size, segment size and load (`TcpNames`, `TcpSizes`, `TcpLoads`). The
three share one inductive invariant, `RInv`. `RefsExact` needs to know who may hold a
socket at each place of the receive path, the timer and the calls (`RxOK`, `TimerOK`,
`CallsOK`); then each step moves one holder and changes the count by one (`Counted`, with a
lemma for each kind of holder). `OneOwner` needs more than the count of owners: that
the owners are different places (`Apart`: a socket is not in two jobs, twice in one, in the
backlog and at a thread) and that a socket in the lists has one unless it was given up
half open (`OwnedOK`). The new child is its creator's alone until it is in the backlog
(`FreshOK`): the timer may not take it (`TickTake` requires so), or it could be given up
and never spliced out. `SocksOK` says what the state of a socket implies for its other
fields: a child still half open is the only one whose `una` is its `iss`, and a closed
listener has an empty backlog, which is why nothing is lost when the splice of a dead
child finds the listener closed.

It also proves `NobodyStranded` when one thread accepts (`OneAcceptor`), as in the loads of
the `tcp` run: a listener has one slot for the thread that waits on it, and section 5
says what happens to a second. `NobodyStranded` speaks of a thread already parked, and no
step keeps that by itself: what is invariant (`NInv`) holds from the registration on, when
the thread is still awake and a wake-up may come before it parks (`Dozes`). Until it is
told, it is the one registered, the listener listens and no child is ready, or the child
is the one the receive path holds and is about to notify of (`AcceptorOK`); a reader's
ring is empty and no end of file has come (`ReaderOK`). That a reader's socket cannot come
to an end of file without a notification needs what a socket with a descriptor cannot be:
not yet connected, or one whose close has begun (`UsableOK`).

And it proves `StreamInOrder` as long as sequence numbers do not run into each other
(`SeqsApart`): a connection sends fewer bytes than `generate_isn()` adds for the next, and
the connections of one machine together fewer than the wrap. It holds in the `tcp` run
(wrap 16, increment 5, at most 3 bytes and 2 children; `MCTcp` has TLC evaluate both
hypotheses, `OneAcceptor` and `SeqsApart`, on its loads). The code guarantees it for
2^16 connections of less than 64 KB each, and no further: a connection that sends more
reaches the numbers of the machine's next one, where a late segment of it can look new.
A segment names the two machines and a number, so what is invariant (`SInv`) must say
which stream the number belongs to. No variable of the model records that; it follows
from the order in which the children were made, which is an existential in the
invariant (`Orders`, extended by `RxChild` alone, `LastMade`). From the order one has the
number of each byte of each stream before the wrap (`SeqNo`), and in its terms what each
segment on the wire carries (`SegOK`: its sender's bytes, from its number on), where each
socket sends and what it expects (`EndOK`), and that the segment in a section of the
receive path is from the socket's peer (`Matched`). The step that stores a segment is
then `SameNumber`: two bytes of one machine that have the same number modulo the wrap are one.

`QueueLemmas` holds what these proofs share: what linking at the tail, taking the first
and unlinking from the middle do to the elements of a queue and to their being distinct,
and `LeastNumber`.

The inductive invariants were checked with TLC on the runs' instances before they
were proved.

Only model-checked: all liveness (`ReadyRuns`, `TimedWaitEnds`, `CallsReturn`,
`AbandonedRecovers`, `CallReturns`, `ShootdownsEnd`, `ClosedEnds`, `JoinReturns`,
`HandshakesEnd`), which needs fairness and ENABLED, out of the prover's reach.

## 5. Where the code and its comments disagree

Each of these is a run that fails, checking what a comment promises.

* `zombie_stack`. Killing treats READY as "off every CPU". A running thread with
  the READY mark of `sched_unblock()`, or one left by `sched_yield()` and not
  queued yet, is READY too; it becomes a zombie, free to be collected, with a CPU
  on its stack.
* `pipe_cut`. `thread_t.next` links the run queues and the waiters of a pipe. A
  caught signal makes a waiting thread runnable with `enqueue_ready()`, which clears
  `next`; the readers behind it are no longer in the queue, and "Wake up any readers
  blocked on empty pipe so they see EOF" does not reach them.
* `tlb_shared`. "A core whose bit is clear here has never loaded this pml4": after
  `clone(CLONE_VM)` two processes have the same page tables and a mask each, and a
  shootdown uses the mask of the one that edits. A core that ran the other keeps its
  translation of a frame that is freed.

TLC also refutes the following formulas, which stand in the modules next to the
properties that hold:

* `WaitQueue!WaitEventReturns`: `wait_event()` tests its condition, then queues its
  entry, then blocks, with no second test; a completion in between is missed. The
  timed form polls each millisecond; the untimed one has no caller in the tree.
* `WaitQueue!EntriesLive`: the thread of a queued entry is alive. A fatal signal or
  `exit_group()` makes a waiter parked in `wait.c` a zombie at once (sched.c:3701-3705),
  and `__wait_event_sleep()` never comes to unlink its entry: it stays in the queue on a
  stack that the reaper frees, and the next `wake_up()` follows it. `EntriesOfWaiters`
  says what is left: entries of waits that returned are gone.
* `Tlb!KernelFreedUnreachable`: after the shootdown of a kernel-half edit no CPU reaches
  the freed frame. A kernel thread's edit (`kstack_free()` in `sched_reaper_loop()`) asks
  the CPUs primed for the kernel process (sched.c:1250-1260), but global translations are
  used under every CR3, and a CPU idle since boot was never primed: `sched_start()` and
  `sched_yield()` prime only when CR3 changes (sched.c:2088, 2215). As soon as another
  CPU has gone back to the kernel process the mask is not empty and leaves the first out,
  against "never less safe, only sometimes less targeted" (tlb.h:53). The cause is that of
  `tlb_shared`, a mask per process for page tables that are shared.
* `SchedProc!ResumeWakes`: `sched_stop_current()` reads `stop_state` and sets `stopped`
  without the lock; a SIGCONT in between wakes nobody and the thread parks after it.
* `SchedProc!KillGetsOut`: a stop signal between a SIGKILL and the killed thread's next
  test of the stop loop parks it again, against "SIGKILL still gets out".

What else the modelling showed, without a run of its own:

* Stop loop: "Announce only once we are genuinely parked". The announcement precedes
  `sched_block()`, so `waitpid()` may report a stop while the thread is on its CPU.
* TLB: an edit of another process's space (ptrace) leaves the editor's own CPU with
  its old translation under the other tag until the next flush; PCIDs are reused
  modulo 4095 without a flush; requests made with interrupts off are not re-sent.
* Futex: FUTEX_WAKE_OP is not "atomically" applied; a wake-up can be consumed by a
  waiter that returns -EAGAIN, or for another word of a `futex_waitv`; a signal that
  comes between the check and the sleep is not noticed until the sleep ends; a killed
  waiter's entry stays linked on an abandoned stack (`Futex` has no kills, and
  `EntriesFindable` is about executions without them).
* TCP: `sock_get_from_fd()` takes no reference on the descriptor (socket.c:667-683).
  `tcp_accept()` tests the listener without a lock and takes its reference outside
  `g_tcp_lock` (tcp.c:489-491), against "must only be called while still holding
  g_tcp_lock" (tcp.c:282); `tcp_recv()` takes its own the same way (643); `tcp_connect()`
  sleeps without one (580-595), and `tcp_send()` and `tcp_shutdown()` have none. A close by
  another thread that shares the descriptor may free the socket under any of them. `Tcp`
  assumes it does not come, and `RefsExact` says only that the references that are counted
  have one holder each and that the last of these frees.
* TCP: the step to TIME_WAIT wakes no reader (`NobodyStranded` excepts it, and fails
  without the exception). A child reset after its handshake stays CLOSED in the
  backlog, where `tcp_accept()` skips it and nothing removes it; `DeadChildSpliced`
  is about half-open children, the ones the comment speaks of. A child given up is
  never freed and keeps its address pair in the hash. Two acceptors share one wait
  slot and the first is not woken (`NobodyStranded` fails for two). With two
  receive contexts an acceptor could be notified before the child is in the backlog.
  A simultaneous close never reaches CLOSING. `snd_una` does not advance in
  ESTABLISHED. Data or a FIN on the segment that completes the handshake is dropped.
  A connection to the machine's own address takes its socket lock twice, since
  `ipv4_deliver()` hands the segment to `tcp_input()` inside the send.

## 6. Not modelled

The lock implementation: a critical section is one step. Memory order: every
shared access the models separate is an acquire, release or sequentially
consistent operation or under a lock, except the flags of the stop loop, which
are modelled one access per step. CPU hot-plug, which the kernel does not have. In
`SchedProc`: process creation, adopters of orphans (sched.c:1932-1944 with one present),
tracers, `hold_count`, vfork and what
`proc_destroy()` releases. In `Tlb`: the shape of page tables, huge pages, more than
one page per space. In `Pipe`: `poll`, `ioctl`, descriptors. In `Futex`: other
processes' entries (they never match), priority inheritance (refused by the code),
robust lists. In `Tcp`: options, checksums, windows, `poll`, memory that runs out
anywhere but in the creation of a child.

Deferred work (`workqueue.c`, `softirq.c`'s tasklets, `timer_list.c`, `kthread.c`) has
no caller in the tree, and completions have one, vfork: a model would be about code
that never runs. Their hazards are listed. The file systems, the drivers, the
graphics stack, the C library and the programs of `userland/`, most of the
repository by size, are sequential code over large data, or separate programs; no
small instance says much about them. Everything listed as not modelled in `PROJECT.json`, with
its reason.

## 7. Plan

1. done: `Sched`, `Park`, `WaitQueue`, `SmpRpc`, `SmpCall`, `SchedProc`, `Tlb`, `Pipe`,
   `Futex`, `Tcp`; the proofs of all safety properties.
2. Models: POSIX semaphores, message queues and IPC channels over `Blocking`; the
   page caches of `pmm.c`, which reclaim through `SmpRpc`; `RunQueue` (per-queue
   counters, `min_vruntime`, affinity) refining the `rq` of `Sched`; a ticket lock;
   POSIX timers; signals and ptrace.

Abstract specifications worth stating: a bounded buffer for pipes and message
queues, a counting semaphore, a mutex for the ticket lock.
