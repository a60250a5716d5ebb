------------------------------ MODULE Blocking ------------------------------
(* The scheduler as the code that blocks uses it (Park, with the phases that
   this code cannot tell apart put together): a thread runs, runs with a
   remembered wake-up ("token", the READY mark of sched_unblock() on a running
   thread), or is parked.  A thread on its way off its CPU counts as parked: a
   wake-up that meets it there and one that meets it later have the same
   effect.  Kernel code is not preempted, so a thread that is not parked goes
   on by itself. *)
EXTENDS Naturals, FiniteSets, Sequences, SequencesExt

CONSTANT Threads
VARIABLE park

Phases == {"run", "token", "parked"}
Awake(t) == park[t] # "parked"

AllRun == [t \in Threads |-> "run"]

(* sched_unblock() of the threads in S. *)
Unblock(S) ==
    park' = [t \in Threads |-> IF t \notin S THEN park[t]
                               ELSE IF park[t] = "parked" THEN "run" ELSE "token"]

(* sched_block() by t: a remembered wake-up is consumed instead. *)
Block(t) == park' = [park EXCEPT ![t] = IF @ = "token" THEN "run" ELSE "parked"]

(* A caught signal or a stop signal pulls a parked thread out of its wait; a
   running one only gets an interrupt and no mark. *)
Poke(t) == park' = [park EXCEPT ![t] = IF @ = "parked" THEN "run" ELSE @]
=============================================================================
