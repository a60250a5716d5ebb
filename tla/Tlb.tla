-------------------------------- MODULE Tlb --------------------------------
(***************************************************************************)
(* Cross-CPU TLB shootdown (arch/x86_64/mm/tlb.c) with the edits that ask  *)
(* for it (arch/x86_64/mm/vmm.c), the tagged address-space switch          *)
(* (vmm_switch_proc() in vmm.h) and the scheduler's bridge that narrows    *)
(* the targets (sched_tlb_current_space_mask() in sched.c).                *)
(*                                                                         *)
(* Every address space has one user page and the kernel half one global    *)
(* page; a page table is the frame that page maps to.  A CPU caches at     *)
(* most one translation of the user page per PCID tag, and one of the      *)
(* kernel page.  The processor may walk the tables ahead of any access; the *)
(* model caches a translation as early as it can be cached, since the      *)
(* earliest walk is the one that goes stale first.                         *)
(*                                                                         *)
(* Kernel code is not preempted, so an initiator stays on its CPU, but the *)
(* shootdown interrupt is taken between its steps while its interrupts are *)
(* on.  An interrupt that arrives while the handler is still in service    *)
(* may be dropped, and a few more may be lost anywhere.                  *)
(***************************************************************************)
EXTENDS Naturals, FiniteSets

CONSTANTS CPUs,
          Kernel,      \* g_kernel_proc
          Users,       \* the user processes
          Spaces,      \* PML4s; those no process starts with are for execve()
          SpaceOf,     \* the address space each process starts with
          Tag,         \* process_t::pcid; the kernel's is 0
          Foreign,     \* may a process edit another one's space (ptrace)?
          Loads,       \* which CPUs are online, which processes run, which
                       \* spaces are edited and how, and two bounds: how many
                       \* edits, how many interrupts lost out of service
          Frames,
          None         \* no cached translation

Procs == Users \cup {Kernel}
Tags == {Tag[p] : p \in Users}
Kinds == {"map", "clone", "fault"}
All == 0                            \* "could not narrow it": flush everything

ASSUME TlbAssumption ==
    /\ Kernel \notin Users
    /\ SpaceOf \in [Procs -> Spaces]
    /\ Tag \in [Procs -> Nat]
    /\ \A p \in Users : Tag[p] # 0 /\ SpaceOf[p] # SpaceOf[Kernel]
    /\ Tag[Kernel] = 0
    /\ Foreign \in BOOLEAN
    /\ Loads \subseteq [online : SUBSET CPUs, runs : SUBSET Procs,
                         edits : SUBSET Spaces, kinds : SUBSET Kinds,
                         maxEdits : Nat, maxLost : Nat]
    /\ IsFiniteSet(CPUs)
    /\ \E f \in [Spaces -> Frames] : \A s, t \in Spaces : f[s] = f[t] => s = t
    /\ None \notin Frames

VARIABLES
    pte,      \* the frame each space's page maps to
    space,    \* process_t::pml4_phys
    primed,   \* process_t::pcid_primed
    cur,      \* the process each CPU runs
    cr3,      \* the space and tag each CPU has loaded
    tlb,      \* cached user translation of each CPU, by tag
    gtlb,     \* cached global (kernel) translation of each CPU
    frames,   \* the allocator's free frames
    desc,     \* tlb_cpu_state_t: req, done, pcid, flush_all
    ipi,      \* shootdown interrupt pending at the LAPIC
    isr,      \* tlb_shootdown_ipi() on each CPU
    op,       \* the edit and shootdown each CPU has under way
    load,     \* the load, chosen once
    late,     \* requests issued without waiting
    missed,   \* history, read by no guard: the CPUs some shootdown of the
              \* kernel half did not ask and that have not flushed since
    edits,    \* shootdowns started so far
    lost      \* interrupts lost so far

mm == <<pte, space, primed, cur, cr3>>
vars == <<pte, space, primed, cur, cr3, tlb, gtlb, frames, desc, ipi, isr,
          op, load, late, missed, edits, lost>>

KSpace == SpaceOf[Kernel]
Idle == [pc |-> "idle", space |-> KSpace, old |-> None, narrow |-> FALSE,
         tag |-> All, wait |-> TRUE, left |-> {}, ticket |-> [i \in CPUs |-> 0]]
Quiet == [pc |-> "out", seen |-> 0, tag |-> All]

\* An injective placement of the first frames.
Placed == CHOOSE f \in [Spaces -> Frames] :
              \A s, t \in Spaces : f[s] = f[t] => s = t

Init ==
    /\ pte = Placed
    /\ space = SpaceOf
    /\ primed = [p \in Procs |-> {}]
    /\ cur = [c \in CPUs |-> Kernel]
    /\ cr3 = [c \in CPUs |-> [space |-> KSpace, tag |-> 0]]
    /\ tlb = [c \in CPUs |-> [g \in Tags |-> None]]
    /\ gtlb = [c \in CPUs |-> Placed[KSpace]]
    /\ frames = Frames \ {Placed[s] : s \in Spaces}
    /\ desc = [c \in CPUs |-> [req |-> 0, done |-> 0, pcid |-> 0, all |-> FALSE]]
    /\ ipi = [c \in CPUs |-> FALSE]
    /\ isr = [c \in CPUs |-> Quiet]
    /\ op = [c \in CPUs |-> Idle]
    /\ load \in Loads
    /\ late = {} /\ missed = {}
    /\ edits = 0 /\ lost = 0

\* No interrupt handler runs on c: thread code may take a step.
ThreadRuns(c) == c \in load.online /\ isr[c].pc = "out"

-----------------------------------------------------------------------------
(* Running a process: context switch and memory access                     *)

\* The context switch loads CR3 only when the space differs, and
\* vmm_switch_proc() keeps the tag's entries when this CPU is primed.
Switch(c, p) ==
    /\ ThreadRuns(c) /\ op[c].pc = "idle"
    /\ p \in load.runs /\ cur[c] # p
    /\ cur' = [cur EXCEPT ![c] = p]
    /\ IF cr3[c].space = space[p]
         THEN UNCHANGED <<cr3, primed, tlb>>
         ELSE /\ cr3' = [cr3 EXCEPT ![c] = [space |-> space[p], tag |-> Tag[p]]]
              /\ primed' = [primed EXCEPT ![p] = @ \cup {c}]
              /\ tlb' = IF p = Kernel THEN tlb
                        ELSE [tlb EXCEPT ![c][Tag[p]] =
                                IF c \in primed[p] /\ @ # None THEN @
                                ELSE pte[space[p]]]
    /\ UNCHANGED <<pte, space, gtlb, frames, desc, ipi, isr, op, late, load, missed, edits, lost>>

-----------------------------------------------------------------------------
(* The initiator                                                           *)

\* vmm_map() over a present entry, vmm_unmap_range(), vmm_set_flags(),
\* vmm_cow_fault(): under the space's lock the entry changes to a frame f that
\* pmm_alloc_page() found free, and INVLPG drops the page from the current tag
\* of this CPU; without a free frame nothing changes.  "map" ends in
\* tlb_shootdown_user(), "clone" (vmm_clone_space() making a parent's pages
\* copy-on-write) in tlb_shootdown_space(), and "fault" (vmm_cow_fault(),
\* whose old frame stays with the other sharer) in tlb_shootdown_user() with
\* interrupts off, where waiting is not allowed.
Edit(c, s, kind, f) ==
    /\ ThreadRuns(c) /\ op[c].pc = "idle" /\ edits < load.maxEdits
    /\ s \in load.edits /\ kind \in load.kinds /\ f \in frames
    /\ s = KSpace \/ s = space[cur[c]] \/ (Foreign /\ \E p \in Users : s = space[p])
    /\ kind # "map" => s = space[cur[c]] /\ s # KSpace
    /\ pte' = [pte EXCEPT ![s] = f]
    /\ frames' = frames \ {f}
    /\ IF s = KSpace
         THEN gtlb' = [gtlb EXCEPT ![c] = f] /\ UNCHANGED tlb
         ELSE /\ tlb' = IF cr3[c].tag = 0 THEN tlb
                        ELSE [tlb EXCEPT ![c][cr3[c].tag] = pte'[cr3[c].space]]
              /\ UNCHANGED gtlb
    /\ op' = [op EXCEPT ![c] = [Idle EXCEPT !.pc = "aim", !.space = s,
                                            !.old = pte[s],
                                            !.narrow = kind # "clone",
                                            !.wait = kind # "fault"]]
    /\ edits' = edits + 1
    /\ UNCHANGED <<space, primed, cur, cr3, desc, ipi, isr, late, load, missed, lost>>

\* execve(): the siblings are gone; the same tag gets a new space, the primed
\* mask is cleared, this CPU's load flushes the tag, and the old space is
\* destroyed once every other CPU has been told.
Exec(c, s) ==
    /\ ThreadRuns(c) /\ op[c].pc = "idle" /\ edits < load.maxEdits
    /\ cur[c] \in Users
    /\ \A d \in CPUs \ {c} : cur[d] # cur[c]
    /\ s \in load.edits \ {SpaceOf[p] : p \in Procs} /\ pte[s] # None
    /\ \A p \in Procs : space[p] # s
    /\ \A p \in Users \ {cur[c]} : space[p] # space[cur[c]]
    /\ LET me == cur[c] IN
         /\ space' = [space EXCEPT ![me] = s]
         /\ pte' = [pte EXCEPT ![space[me]] = None]
         /\ primed' = [primed EXCEPT ![me] = {c}]
         /\ cr3' = [cr3 EXCEPT ![c] = [space |-> s, tag |-> Tag[me]]]
         /\ tlb' = [tlb EXCEPT ![c][Tag[me]] = pte[s]]
         /\ op' = [op EXCEPT ![c] = [Idle EXCEPT !.pc = "aim",
                                                 !.space = space[me],
                                                 !.old = pte[space[me]]]]
    /\ edits' = edits + 1
    /\ UNCHANGED <<cur, gtlb, frames, desc, ipi, isr, late, load, missed, lost>>

\* sched_tlb_current_space_mask(): the CPUs primed for the running process,
\* if the space is its own and any is; otherwise all of them.  Every CPU boots
\* on the kernel's page tables and sched_start() does not load them again, so a
\* CPU that never left them is not primed for the kernel process.
Mask(c, s) ==
    IF space[cur[c]] = s /\ primed[cur[c]] # {} THEN primed[cur[c]] ELSE CPUs

\* sched_tlb_space_pcid(), asked only for a user range.
Pcid(c) ==
    IF op[c].narrow /\ op[c].space # KSpace /\ space[cur[c]] = op[c].space
      THEN Tag[cur[c]] ELSE All

\* Back in the caller, which gives the old frame to the allocator unless
\* another sharer keeps it (the copy-on-write fault).
Return(c) ==
    /\ frames' = IF op[c].wait THEN frames \cup {op[c].old} ELSE frames
    /\ op' = [op EXCEPT ![c] = Idle]

\* tlb_shootdown_space(), tlb_shootdown_user(): whom to ask, and for what.
Aim(c) ==
    /\ ThreadRuns(c) /\ op[c].pc = "aim"
    /\ LET targets == (Mask(c, op[c].space) \cap load.online) \ {c} IN
         IF targets = {}
           THEN Return(c)
           ELSE /\ op' = [op EXCEPT ![c].tag = Pcid(c), ![c].left = targets,
                                    ![c].pc = "queue"]
                /\ UNCHANGED frames
    /\ missed' = IF op[c].space = KSpace
                   THEN missed \cup (load.online \ (Mask(c, KSpace) \cup {c}))
                   ELSE missed
    /\ UNCHANGED <<mm, tlb, gtlb, desc, ipi, isr, late, load, edits, lost>>

Merge_KeepFirst(d, tag) ==
    IF d.all THEN d
    ELSE IF tag = All THEN [d EXCEPT !.all = TRUE, !.pcid = 0]
    ELSE IF d.pcid = 0 THEN [d EXCEPT !.pcid = tag]
    ELSE d

\* tlb_queue_pcid(): merge one request into a target's pending scope.
Merge(d, tag) ==
    IF d.all THEN d
    ELSE IF tag = All \/ (d.pcid # 0 /\ d.pcid # tag)
           THEN [d EXCEPT !.all = TRUE, !.pcid = 0]
           ELSE [d EXCEPT !.pcid = tag]

\* tlb_shootdown_mask(): under the target's lock, scope first, ticket second.
Queue(c, i) ==
    /\ ThreadRuns(c) /\ op[c].pc = "queue" /\ i \in op[c].left
    /\ desc' = [desc EXCEPT ![i] = [Merge(@, op[c].tag) EXCEPT !.req = @ + 1]]
    /\ op' = [op EXCEPT ![c].ticket[i] = desc[i].req + 1,
                        ![c].left = @ \ {i},
                        ![c].pc = IF op[c].left = {i} THEN "send" ELSE "queue"]
    /\ UNCHANGED <<mm, tlb, gtlb, frames, ipi, isr, late, load, missed, edits, lost>>

Sent(c) == {i \in CPUs : op[c].ticket[i] > 0}

\* Interrupts posted to S arrive, except those dropped on a CPU whose handler
\* is still in service and those lost some other way.
Post(S) ==
    \E gone \in SUBSET S :
        LET stray == {i \in gone : isr[i].pc = "out"} IN
        /\ lost + Cardinality(stray) <= load.maxLost
        /\ lost' = lost + Cardinality(stray)
        /\ ipi' = [i \in CPUs |-> ipi[i] \/ i \in S \ gone]

\* One send for the whole set; a caller with interrupts off returns here.
Send(c) ==
    /\ ThreadRuns(c) /\ op[c].pc = "send"
    /\ Post(Sent(c))
    /\ IF op[c].wait
         THEN /\ op' = [op EXCEPT ![c].pc = "wait", ![c].left = Sent(c)]
              /\ UNCHANGED late
         ELSE /\ op' = [op EXCEPT ![c] = Idle]
              /\ late' = late \cup {[space |-> op[c].space, old |-> op[c].old,
                                     ticket |-> op[c].ticket]}
    /\ UNCHANGED <<mm, tlb, gtlb, frames, desc, isr, load, missed, edits>>

Await_OffByOne(c, i) ==
    /\ ThreadRuns(c) /\ op[c].pc = "wait" /\ i \in op[c].left
    /\ desc[i].done + 1 >= op[c].ticket[i]
    /\ IF op[c].left = {i}
         THEN Return(c)
         ELSE op' = [op EXCEPT ![c].left = @ \ {i}] /\ UNCHANGED frames
    /\ UNCHANGED <<mm, tlb, gtlb, desc, ipi, isr, late, load, missed, edits, lost>>

\* The wait loop moves on when the target's done counter reaches the ticket.
Await(c, i) ==
    /\ ThreadRuns(c) /\ op[c].pc = "wait" /\ i \in op[c].left
    /\ desc[i].done >= op[c].ticket[i]
    /\ IF op[c].left = {i}
         THEN Return(c)
         ELSE op' = [op EXCEPT ![c].left = @ \ {i}] /\ UNCHANGED frames
    /\ UNCHANGED <<mm, tlb, gtlb, desc, ipi, isr, late, load, missed, edits, lost>>

Resend_Never(c, i) ==
    /\ ThreadRuns(c) /\ op[c].pc = "wait" /\ i \in op[c].left
    /\ desc[i].done < op[c].ticket[i]
    /\ ~ipi[i]
    /\ UNCHANGED vars

\* The budget ran out: a fresh interrupt for the same request.
Resend(c, i) ==
    /\ ThreadRuns(c) /\ op[c].pc = "wait" /\ i \in op[c].left
    /\ desc[i].done < op[c].ticket[i]
    /\ ~ipi[i]
    /\ Post({i})
    /\ UNCHANGED <<mm, tlb, gtlb, frames, desc, isr, op, late, load, missed, edits>>

-----------------------------------------------------------------------------
(* The target: tlb_shootdown_ipi()                                         *)

Enter(c) ==
    /\ isr[c].pc = "out" /\ ipi[c]
    /\ op[c].pc # "idle" => op[c].wait          \* interrupts are on
    /\ ipi' = [ipi EXCEPT ![c] = FALSE]
    /\ isr' = [isr EXCEPT ![c].pc = "snap"]
    /\ UNCHANGED <<mm, tlb, gtlb, frames, desc, op, late, load, missed, edits, lost>>

\* Counter and scope are read, and the scope cleared, under one lock.
Snapshot(c) ==
    /\ isr[c].pc = "snap"
    /\ isr' = [isr EXCEPT ![c] = [pc |-> "flush", seen |-> desc[c].req,
                                  tag |-> IF desc[c].all THEN All
                                          ELSE desc[c].pcid]]
    /\ desc' = [desc EXCEPT ![c].all = FALSE, ![c].pcid = 0]
    /\ UNCHANGED <<mm, tlb, gtlb, frames, ipi, op, late, load, missed, edits, lost>>

\* What a flushed tag holds again at the next walk, if it is the loaded one.
Reload(c, g) == IF g = cr3[c].tag THEN pte[cr3[c].space] ELSE None

\* INVPCID of one context, or tlb_flush_local_global().
Flush(c) ==
    /\ isr[c].pc = "flush"
    /\ IF isr[c].tag # All
         THEN /\ tlb' = [tlb EXCEPT ![c][isr[c].tag] = Reload(c, isr[c].tag)]
              /\ UNCHANGED <<gtlb, missed>>
         ELSE /\ tlb' = [tlb EXCEPT ![c] = [g \in Tags |-> Reload(c, g)]]
              /\ gtlb' = [gtlb EXCEPT ![c] = pte[KSpace]]
              /\ missed' = missed \ {c}
    /\ isr' = [isr EXCEPT ![c].pc = "ack"]
    /\ UNCHANGED <<mm, frames, desc, ipi, op, late, load, edits, lost>>

\* Publish done, then look again: a request that came in meanwhile may have
\* had its interrupt dropped.
Ack(c) ==
    /\ isr[c].pc = "ack"
    /\ desc' = [desc EXCEPT ![c].done = isr[c].seen]
    /\ isr' = [isr EXCEPT ![c].pc = IF desc[c].req = isr[c].seen
                                      THEN "eoi" ELSE "snap"]
    /\ UNCHANGED <<mm, tlb, gtlb, frames, ipi, op, late, load, missed, edits, lost>>

Eoi(c) ==
    /\ isr[c].pc = "eoi"
    /\ isr' = [isr EXCEPT ![c] = Quiet]
    /\ UNCHANGED <<mm, tlb, gtlb, frames, desc, ipi, op, late, load, missed, edits, lost>>

Handler(c) == Enter(c) \/ Snapshot(c) \/ Flush(c) \/ Ack(c) \/ Eoi(c)

Initiator(c) == Aim(c) \/ Send(c)
                \/ \E i \in CPUs : Queue(c, i) \/ Await(c, i) \/ Resend(c, i)

Next == \E c \in CPUs :
          \/ \E p \in Procs : Switch(c, p)
          \/ \E s \in Spaces, kind \in Kinds, f \in Frames : Edit(c, s, kind, f)
          \/ \E s \in Spaces : Exec(c, s)
          \/ Aim(c)
          \/ \E i \in CPUs : Queue(c, i)
          \/ Send(c)
          \/ \E i \in CPUs : Await(c, i) \/ Resend(c, i)
          \/ Enter(c) \/ Snapshot(c) \/ Flush(c) \/ Ack(c) \/ Eoi(c)

Spec == Init /\ [][Next]_vars

\* A CPU takes a pending interrupt, and code that runs keeps running.
LiveSpec == Spec /\ \A c \in CPUs : WF_vars(Handler(c)) /\ WF_vars(Initiator(c))

-----------------------------------------------------------------------------
(* Properties                                                              *)

UserHit(c) == IF cr3[c].tag = 0 THEN None ELSE tlb[c][cr3[c].tag]

TypeOK ==
    /\ pte \in [Spaces -> Frames \cup {None}]
    /\ space \in [Procs -> Spaces]
    /\ primed \in [Procs -> SUBSET CPUs]
    /\ cur \in [CPUs -> Procs]
    /\ cr3 \in [CPUs -> [space : Spaces, tag : Tags \cup {0}]]
    /\ tlb \in [CPUs -> [Tags -> Frames \cup {None}]]
    /\ gtlb \in [CPUs -> Frames \cup {None}]
    /\ frames \subseteq Frames
    /\ desc \in [CPUs -> [req : Nat, done : Nat,
                          pcid : Tags \cup {0}, all : BOOLEAN]]
    /\ \A c \in CPUs : desc[c].done <= desc[c].req
    /\ ipi \in [CPUs -> BOOLEAN]
    /\ isr \in [CPUs -> [pc : {"out", "snap", "flush", "ack", "eoi"},
                         seen : Nat, tag : Tags \cup {All}]]
    /\ op \in [CPUs -> [pc : {"idle", "aim", "queue", "send", "wait"},
                        space : Spaces, old : Frames \cup {None},
                        narrow : BOOLEAN, tag : Tags \cup {All},
                        wait : BOOLEAN, left : SUBSET CPUs,
                        ticket : [CPUs -> Nat]]]
    /\ load \in Loads
    /\ late \subseteq [space : Spaces, old : Frames, ticket : [CPUs -> Nat]]
    /\ missed \subseteq CPUs
    /\ edits \in 0 .. load.maxEdits /\ lost \in 0 .. load.maxLost

\* CPU c still owes a flush for frame f of space s: its edit has not been
\* announced yet, or c has not acknowledged the ticket taken for it.
Owed(c, s, f) ==
    \/ \E d \in CPUs \ {c} :
          /\ op[d].pc # "idle" /\ op[d].space = s /\ op[d].old = f
          /\ \/ op[d].pc = "aim"
             \/ op[d].pc = "queue" /\ c \in op[d].left
             \/ desc[c].done < op[d].ticket[c]
    \/ \E r \in late : /\ r.space = s /\ r.old = f
                       /\ desc[c].done < r.ticket[c]

\* An acknowledgement is honest: whenever a CPU can still use a translation
\* that no longer matches the page table, there is a shootdown for that very
\* edit that this CPU has yet to answer.  It relies on the ticket and the
\* scope moving under one lock, on two scopes merging into "everything", on
\* the primed mask naming every CPU that may hold an entry of a user space, and
\* on the flushing first load of a tag.  Of the kernel half it speaks only while
\* no shootdown has left the CPU out: its translations are global, used under
\* every CR3, but a kernel thread's edit (kstack_free() in sched_reaper_loop())
\* asks the CPUs primed for the kernel process.  (With the types.)
StaleIsOwed ==
    /\ TypeOK
    /\ \A c \in load.online :
        /\ UserHit(c) \notin {None, pte[cr3[c].space]}
              => Owed(c, cr3[c].space, UserHit(c))
        /\ gtlb[c] \notin {None, pte[KSpace]}
              => c \in missed \/ Owed(c, KSpace, gtlb[c])

\* Frames that do not belong to space s.
NotOf(s) == frames \cup {pte[t] : t \in Spaces \ {s}}

\* What the shootdown is for (tlb.h: "on return, no other CPU holds a
\* translation predating the edit, so the caller may free the frame"): no CPU
\* reaches a frame that is free or has been given to another space, through a
\* user translation at any time and through a kernel one while no shootdown of
\* the kernel half has left that CPU out.
FreedUnreachable ==
    \A c \in load.online :
        /\ UserHit(c) # None => UserHit(c) \notin NotOf(cr3[c].space)
        /\ gtlb[c] # None /\ c \notin missed => gtlb[c] \notin NotOf(KSpace)

\* The kernel half without that exception is not so: a CPU idle since boot, or
\* one that has run only user processes, is left out as soon as another CPU has
\* switched to the kernel process, and then keeps the freed frame in reach.
KernelFreedUnreachable ==
    \A c \in load.online : gtlb[c] # None => gtlb[c] \notin NotOf(KSpace)

\* Every shootdown comes to an end, although interrupts are dropped or lost
\* and CPUs wait for one another: time and again no CPU is waiting.
ShootdownsEnd == []<>(\A c \in CPUs : op[c].pc = "idle")
=============================================================================
