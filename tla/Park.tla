-------------------------------- MODULE Park --------------------------------
(* What the scheduler promises the code that blocks and the code that wakes
   (the comments of sched_block(), sched_wait_flag() and sched_unblock() in
   kernel/sched/sched.h), as one small machine per thread.  A thread on its way
   to being parked can be woken at any moment; the wake-up is then remembered
   ("token" while it still runs, "...Woken" once it is switching away), and a
   remembered wake-up keeps it from being parked.  The only thing that may
   override a token is a timed sleep, which wakes by itself.

   Several threads may move in one step (a switch moves two). *)
CONSTANT Threads
VARIABLE phase

Init == phase = [t \in Threads |-> "FREE"]

Move(t, from, to) == phase[t] \in from /\ phase'[t] = to

Create(t)   == Move(t, {"FREE"}, "ready")
Dispatch(t) == Move(t, {"ready"}, "RUNNING")
Yield(t)    == Move(t, {"RUNNING", "token"}, "ready")

Block(t)    == \/ Move(t, {"RUNNING"}, "pending")
               \/ Move(t, {"token"}, "RUNNING")
Sleep(t)    == Move(t, {"RUNNING", "token"}, "dozing")
Settle(t)   == \/ Move(t, {"pending"}, "BLOCKED")
               \/ Move(t, {"dozing"}, "SLEEPING")
               \/ Move(t, {"pendingWoken", "dozingWoken"}, "ready")

Unblock(t)  == \/ Move(t, {"RUNNING"}, "token")
               \/ Move(t, {"pending"}, "pendingWoken")
               \/ Move(t, {"dozing"}, "dozingWoken")
               \/ Move(t, {"BLOCKED", "SLEEPING"}, "ready")
Timeout(t)  == Move(t, {"dozing", "SLEEPING"}, "ready")

Exit(t)     == \/ Move(t, {"RUNNING", "token"}, "DYING")
               \/ Move(t, {"DYING"}, "ZOMBIE")

Step(t) == \/ Create(t) \/ Dispatch(t) \/ Yield(t) \/ Block(t) \/ Sleep(t)
           \/ Settle(t) \/ Unblock(t) \/ Timeout(t) \/ Exit(t)

Next ==
    /\ phase' = [t \in Threads |-> phase'[t]]
    /\ \A t \in Threads : Step(t) \/ phase'[t] = phase[t]

Spec == Init /\ [][Next]_phase
=============================================================================
