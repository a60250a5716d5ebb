------------------------------ MODULE SmpCall ------------------------------
(* smp_call_function_mask() of arch/x86_64/cpu/smp.c: a request on the stack of
   the sender for every target, pushed on the target's lock-free inbox, run
   from the call-function interrupt or from the target's own wait loop.

   A request is named by its sender and its target; its storage is used again
   by the sender's next call.  Each atomic operation on an inbox and each
   acknowledgement is a step.  A CPU has two contexts that drain: the thread
   inside smp_call_wait() and, on top of it, the interrupt, unless the caller
   has interrupts disabled.  The order in which the targets of a mask are
   served is left open, and the local call (call_self), which touches nothing
   of this, is left out. *)
EXTENDS Naturals, FiniteSets

CONSTANTS CPUs,      \* online CPUs
          Senders,   \* the CPUs that make calls
          Loads,     \* the masks each sender calls with and how often it calls
          MaxLost,   \* bound on the interrupts lost
          Null

ASSUME SendersOnline == Senders \subseteq CPUs
ASSUME LoadsOfOthers ==
    \A l \in Loads :
        /\ l.calls \in Nat
        /\ \A c \in Senders : \A T \in l.masks[c] : T # {} /\ T \subseteq CPUs \ {c}
ASSUME NullNoRequest == Null \notin Senders \X CPUs

Requests == {r \in Senders \X CPUs : r[1] # r[2]}     \* <<sender, target>>

VARIABLES
    load,      \* the masks and bounds of this behaviour
    head,      \* g_call_queue[]
    next,      \* smp_csd.next
    done,      \* smp_csd.done
    runs,      \* how often func was run for the request (history)
    pc,        \* where each CPU is in smp_call_function_mask()
    todo,      \* m: the targets not pushed yet
    target,    \* c: the target being pushed
    asked,     \* targets
    waiting,   \* remaining
    masked,    \* the caller has interrupts disabled
    calls,     \* calls made so far by each sender
    lost,      \* interrupts lost so far
    ipi,       \* SMP_VEC_CALL_FUNC is pending on the CPU
    list,      \* smp_call_drain_local(): list, for each context of each CPU
    after,     \* its local next
    called     \* func has been called for the request at its head

vars == <<load, calls, head, next, done, runs, pc, todo, target, asked, waiting, masked, lost, ipi, list, after, called>>

Contexts == {"thread", "irq"}
Idle == [x \in Contexts |-> Null]

TypeOK ==
    /\ head \in [CPUs -> Requests \cup {Null}]
    /\ next \in [Requests -> Requests \cup {Null}]
    /\ done \in [Requests -> BOOLEAN]
    /\ runs \in [Requests -> 0 .. 1]
    /\ pc \in [CPUs -> {"idle", "load", "push", "send", "drain", "check"}]
    /\ todo \in [CPUs -> SUBSET CPUs]
    /\ target \in [CPUs -> CPUs]
    /\ asked \in [CPUs -> SUBSET CPUs]
    /\ waiting \in [CPUs -> SUBSET CPUs]
    /\ masked \in [CPUs -> BOOLEAN]
    /\ ipi \in [CPUs -> BOOLEAN]
    /\ list \in [CPUs -> [Contexts -> Requests \cup {Null}]]
    /\ after \in [CPUs -> [Contexts -> Requests \cup {Null}]]
    /\ called \in [CPUs -> [Contexts -> BOOLEAN]]

Init ==
    /\ load \in Loads
    /\ calls = [c \in Senders |-> 0]
    /\ head = [c \in CPUs |-> Null]
    /\ next = [r \in Requests |-> Null]
    /\ done = [r \in Requests |-> FALSE]
    /\ runs = [r \in Requests |-> 0]
    /\ pc = [c \in CPUs |-> "idle"]
    /\ todo = [c \in CPUs |-> {}]
    /\ target = [c \in CPUs |-> c]
    /\ asked = [c \in CPUs |-> {}]
    /\ waiting = [c \in CPUs |-> {}]
    /\ masked = [c \in CPUs |-> FALSE]
    /\ lost = 0
    /\ ipi = [c \in CPUs |-> FALSE]
    /\ list = [c \in CPUs |-> Idle]
    /\ after = [c \in CPUs |-> Idle]
    /\ called = [c \in CPUs |-> [x \in Contexts |-> FALSE]]

(* The thread of c executes at l: no interrupt handler is on top of it. *)
At(c, l) == pc[c] = l /\ list[c]["irq"] = Null
Goto(c, l) == pc' = [pc EXCEPT ![c] = l]

----------------------------------------------------------------------------
(* smp_call_function_mask() is entered. *)
Call(c) ==
    /\ c \in Senders
    /\ At(c, "idle")
    /\ calls[c] < load.calls /\ calls' = [calls EXCEPT ![c] = @ + 1]
    /\ \E T \in load.masks[c], m \in BOOLEAN :
           /\ todo' = [todo EXCEPT ![c] = T]
           /\ asked' = [asked EXCEPT ![c] = T]
           /\ masked' = [masked EXCEPT ![c] = m]
    /\ Goto(c, "load")
    /\ UNCHANGED <<load, head, next, done, runs, target, waiting, lost, ipi, list, after, called>>

(* The request is filled in and smp_call_queue_push() loads the inbox. *)
Load(c) ==
    /\ At(c, "load")
    /\ \E t \in todo[c] :
           /\ target' = [target EXCEPT ![c] = t]
           /\ next' = [next EXCEPT ![<<c, t>>] = head[t]]
           /\ done' = [done EXCEPT ![<<c, t>>] = FALSE]
           /\ runs' = [runs EXCEPT ![<<c, t>>] = 0]
    /\ Goto(c, "push")
    /\ UNCHANGED <<load, calls, head, todo, asked, waiting, masked, lost, ipi, list, after, called>>

(* Mutant: the request is stored in the inbox without comparing. *)
Push_Store(c) ==
    LET t == target[c] IN
    /\ At(c, "push")
    /\ head' = [head EXCEPT ![t] = <<c, t>>]
    /\ todo' = [todo EXCEPT ![c] = @ \ {t}]
    /\ waiting' = [waiting EXCEPT ![c] = @ \cup {t}]
    /\ Goto(c, IF todo[c] = {t} THEN "send" ELSE "load")
    /\ UNCHANGED <<load, calls, next, done, runs, target, asked, masked, lost, ipi, list, after, called>>

(* The compare-exchange of smp_call_queue_push(): a failed one reloads. *)
Push(c) ==
    LET t == target[c] IN
    /\ At(c, "push")
    /\ \/ /\ head[t] = next[<<c, t>>]
          /\ head' = [head EXCEPT ![t] = <<c, t>>]
          /\ todo' = [todo EXCEPT ![c] = @ \ {t}]
          /\ waiting' = [waiting EXCEPT ![c] = @ \cup {t}]
          /\ Goto(c, IF todo[c] = {t} THEN "send" ELSE "load")
          /\ UNCHANGED next
       \/ /\ head[t] # next[<<c, t>>]
          /\ next' = [next EXCEPT ![<<c, t>>] = head[t]]
          /\ UNCHANGED <<head, todo, waiting, pc>>
    /\ UNCHANGED <<load, calls, done, runs, target, asked, masked, lost, ipi, list, after, called>>

(* An inter-processor interrupt to the CPUs in T; any of them may be lost. *)
SendIpi(T) == \E D \in SUBSET T :
    /\ lost' = lost + Cardinality(T \ D)
    /\ lost' <= MaxLost
    /\ ipi' = [t \in CPUs |-> ipi[t] \/ t \in D]

Send(c) ==
    /\ At(c, "send")
    /\ SendIpi(asked[c])
    /\ Goto(c, "drain")
    /\ UNCHANGED <<load, calls, head, next, done, runs, todo, target, asked, waiting, masked, list, after, called>>

(* The exchange at the head of smp_call_drain_local(), in context x. *)
Take(c, x) ==
    /\ list' = [list EXCEPT ![c][x] = head[c]]
    /\ head' = [head EXCEPT ![c] = Null]

(* Mutant: the wait loop only looks at its own requests. *)
WaitDrain_Skip(c) ==
    /\ At(c, "drain")
    /\ Goto(c, "check")
    /\ UNCHANGED <<load, calls, head, next, done, runs, todo, target, asked, waiting, masked, lost, ipi, list, after, called>>

(* A pass of smp_call_wait(): drain the own inbox ... *)
WaitDrain(c) ==
    /\ At(c, "drain")
    /\ Take(c, "thread")
    /\ Goto(c, "check")
    /\ UNCHANGED <<load, calls, next, done, runs, todo, target, asked, waiting, masked, lost, ipi, after, called>>

(* ... then see which requests are acknowledged.  After many passes the
   interrupt is sent again to the targets that are still silent. *)
WaitCheck(c) ==
    LET still == {t \in waiting[c] : ~done[<<c, t>>]} IN
    /\ At(c, "check")
    /\ list[c]["thread"] = Null
    /\ still # {}
    /\ waiting' = [waiting EXCEPT ![c] = still]
    /\ Goto(c, "drain")
    /\ SendIpi(still)
    /\ UNCHANGED <<load, calls, head, next, done, runs, todo, target, asked, masked, list, after, called>>

(* Mutant: the first acknowledgement ends the wait. *)
Return_AnyDone(c) ==
    LET blank(f, v) == [r \in Requests |-> IF r[1] = c THEN v ELSE f[r]] IN
    /\ At(c, "check")
    /\ list[c]["thread"] = Null
    /\ \E t \in waiting[c] : done[<<c, t>>]
    /\ next' = blank(next, Null)
    /\ done' = blank(done, FALSE)
    /\ runs' = blank(runs, 0)
    /\ target' = [target EXCEPT ![c] = c]
    /\ asked' = [asked EXCEPT ![c] = {}]
    /\ waiting' = [waiting EXCEPT ![c] = {}]
    /\ masked' = [masked EXCEPT ![c] = FALSE]
    /\ Goto(c, "idle")
    /\ UNCHANGED <<load, calls, head, todo, lost, ipi, list, after, called>>

(* All are: the call returns and its frame, with the requests, is gone. *)
Return(c) ==
    LET blank(f, v) == [r \in Requests |-> IF r[1] = c THEN v ELSE f[r]] IN
    /\ At(c, "check")
    /\ list[c]["thread"] = Null
    /\ \A t \in waiting[c] : done[<<c, t>>]
    /\ next' = blank(next, Null)
    /\ done' = blank(done, FALSE)
    /\ runs' = blank(runs, 0)
    /\ target' = [target EXCEPT ![c] = c]
    /\ asked' = [asked EXCEPT ![c] = {}]
    /\ waiting' = [waiting EXCEPT ![c] = {}]
    /\ masked' = [masked EXCEPT ![c] = FALSE]
    /\ Goto(c, "idle")
    /\ UNCHANGED <<load, calls, head, todo, lost, ipi, list, after, called>>

----------------------------------------------------------------------------
(* smp_call_function_interrupt(). *)
Interrupt(c) ==
    /\ ipi[c]
    /\ ~masked[c]
    /\ list[c]["irq"] = Null
    /\ ipi' = [ipi EXCEPT ![c] = FALSE]
    /\ Take(c, "irq")
    /\ UNCHANGED <<load, calls, next, done, runs, pc, todo, target, asked, waiting, masked, lost, after, called>>

(* next is read and func called ... *)
DrainCall(c, x) ==
    LET r == list[c][x] IN
    /\ r # Null
    /\ x = "thread" => list[c]["irq"] = Null
    /\ ~called[c][x]
    /\ after' = [after EXCEPT ![c][x] = next[r]]
    /\ called' = [called EXCEPT ![c][x] = TRUE]
    /\ runs' = [runs EXCEPT ![r] = @ + 1]
    /\ UNCHANGED <<load, calls, head, next, done, pc, todo, target, asked, waiting, masked, lost, ipi, list>>

(* ... then done is published and the sender may return. *)
DrainAck(c, x) ==
    LET r == list[c][x] IN
    /\ r # Null
    /\ x = "thread" => list[c]["irq"] = Null
    /\ called[c][x]
    /\ done' = [done EXCEPT ![r] = TRUE]
    /\ list' = [list EXCEPT ![c][x] = after[c][x]]
    /\ called' = [called EXCEPT ![c][x] = FALSE]
    /\ after' = [after EXCEPT ![c][x] = Null]
    /\ UNCHANGED <<load, calls, head, next, runs, pc, todo, target, asked, waiting, masked, lost, ipi>>

Thread(c) == Load(c) \/ Push(c) \/ Send(c) \/ WaitDrain(c) \/ WaitCheck(c) \/ Return(c)
Drain(c) == \E x \in Contexts : DrainCall(c, x) \/ DrainAck(c, x)

Next == \E c \in CPUs : Call(c) \/ Thread(c) \/ Interrupt(c) \/ Drain(c)

Spec == Init /\ [][Next]_vars

(* Every CPU executes, its thread whenever no handler is on top of it, and
   takes a pending interrupt once interrupts are enabled.  Only MaxLost
   interrupts are lost, the premise of the re-send in smp_call_wait(); the
   number of calls is bounded, so no sender is starved by the others' calls. *)
Fairness ==
    \A c \in CPUs :
        /\ WF_vars(DrainCall(c, "irq") \/ DrainAck(c, "irq"))
        /\ WF_vars(Interrupt(c))
        /\ WF_vars(Thread(c) \/ DrainCall(c, "thread") \/ DrainAck(c, "thread"))
LiveSpec == Spec /\ Fairness

----------------------------------------------------------------------------
(* PROPERTIES *)

(* Requests reachable from the ones in S through their next pointers: what
   every set that holds S and is closed under next holds. *)
Closed(T) == \A r \in T : next[r] \in T \cup {Null}
Chain(S) ==
    {r \in Requests : \A T \in SUBSET Requests : S \ {Null} \subseteq T /\ Closed(T) => r \in T}

(* A pushed request is in its target's inbox or in the list the target is
   working through until it is acknowledged, and nothing else is: none is
   lost, and no CPU holds a pointer into the frame of a call that returned.
   (With the types.) *)
InboxExact ==
    /\ TypeOK
    /\ \A t \in CPUs :
         Chain({head[t], list[t]["thread"], list[t]["irq"]})
             = {<<c, t>> : c \in {d \in Senders : t \in waiting[d] /\ ~done[<<d, t>>]}}

(* When a call has returned, func has run exactly once for each target. *)
OnceEach ==
    [][\A c \in CPUs : pc[c] # "idle" /\ pc'[c] = "idle"
                          => \A t \in asked[c] : runs[<<c, t>>] = 1]_vars

(* CPUs that call each other at the same moment do not wait for each other,
   even with interrupts disabled on both sides. *)
CallReturns == []<>(\A c \in Senders : pc[c] = "idle")
=============================================================================
