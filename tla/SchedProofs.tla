---------------------------- MODULE SchedProofs ----------------------------
(* Proofs about the scheduler core, the wait queues and the processes for any
   number of CPUs, threads and processes.

   StackExclusive and Placed need each other: that a queued thread is on no
   CPU follows from where each state may be, and that a state is where it
   should be follows from no other CPU having the thread.  Handover is what a
   pull or a boot hand-over in flight adds.  Together with the types they are
   inductive.  The second part is about the wait queues and the third about
   processes, which both run on top of the scheduler; nothing in the first
   part uses them, and they do not use each other. *)
EXTENDS WaitQueue, SchedProc, QueueLemmas

(* A CPU hands over one thread at a time: a thread taken off a queue outside
   g_sched_lock is still READY and is never one it is switching from or to. *)
Handover ==
    \A c \in CPUs :
        /\ hand[c] # None => prev[c] = None
        /\ prev[c] # None => current[c] # None
        /\ hand[c] = Idle => current[c] = None
        /\ hand[c] \in Threads => state[hand[c]] = "READY" /\ current[c] # hand[c]

(* Placed as it is when threads are killed: a dying thread may still run, and
   one that died on its way off the CPU keeps the wake-up it was given. *)
PlacedOrDying ==
    \A t \in Threads :
        /\ state[t] = "READY" => t \in rq \/ \E c \in CPUs : On(t, c)
        /\ state[t] = "RUNNING" => \E c \in CPUs : current[c] = t
        /\ state[t] \in Pending => \E c \in CPUs : prev[c] = t
        /\ state[t] = "DYING" => \E c \in CPUs : current[c] = t \/ prev[c] = t
        /\ tree[t] = (IF state[t] # "SLEEPING" THEN "none"
                      ELSE IF hr[t] THEN "hr" ELSE "tick")
        /\ t \in rq => state[t] = "READY"
        /\ state[t] \in {"BLOCKED", "SLEEPING", "ZOMBIE", "FREE"}
              => \A c \in CPUs : ~On(t, c)
        /\ unblock_pending[t] => state[t] \in Pending \cup {"DYING", "ZOMBIE"}

(* What makes Placed of it when nobody is killed. *)
Unkilled ==
    \A t \in Threads :
        /\ state[t] = "DYING" => \E c \in CPUs : prev[c] = t
        /\ unblock_pending[t] => state[t] \in Pending

SInv == TypeOK /\ StackExclusive /\ PlacedOrDying /\ Handover
IInv == TypeOK /\ StackExclusive /\ Placed /\ Handover

LEMMA PlacedParts ==
  /\ Placed <=> PlacedOrDying /\ Unkilled
  /\ Placed' <=> (PlacedOrDying /\ Unkilled)'
<1>1. ASSUME NEW t \in Threads
      PROVE  /\ Placed!(t) <=> PlacedOrDying!(t) /\ Unkilled!(t)
             /\ Placed!(t)' <=> (PlacedOrDying!(t) /\ Unkilled!(t))'
  OBVIOUS
<1> QED BY <1>1 DEF Placed, PlacedOrDying, Unkilled

LEMMA Weaker == IInv => SInv
  BY PlacedParts DEF IInv, SInv

LEMMA InitIInv == Init => IInv
  BY SentinelsDistinct DEF Init, IInv, TypeOK, States, StackExclusive, Placed, Handover,
     On, Pending

(* The switch away from the current thread of an awake CPU, in any state such
   a thread may be left in, keeps the invariant; up and dl are the thread's
   new unblock_pending and sleep_deadline_ns. *)
LEMMA SwitchSInv ==
  ASSUME SInv, NEW c \in CPUs, Awake(c),
         NEW s \in {"READY", "BLOCKED_PENDING", "SLEEPING_PENDING", "DYING"},
         Switch(c, s), tree' = tree,
         unblock_pending' \in [Threads -> BOOLEAN],
         hr' \in [Threads -> BOOLEAN],
         \A t \in Threads : t # current[c] => hr'[t] = hr[t],
         \A t \in Threads : unblock_pending'[t] => unblock_pending[t],
         current[c] \in Threads /\ state[current[c]] = "DYING" => s = "DYING"
  PROVE  SInv'
<1>1. PICK next \in Dequeue \ {current[c]} :
        /\ state' = [t \in Threads |-> IF t = next THEN "RUNNING"
                                       ELSE IF t = current[c] THEN s ELSE state[t]]
        /\ rq' = rq \ {next}
        /\ prev' = [prev EXCEPT ![c] = current[c]]
        /\ current' = [current EXCEPT ![c] = next]
        /\ hand' = hand
  BY DEF Switch
<1>a. TypeOK /\ StackExclusive /\ PlacedOrDying /\ Handover
  BY DEF SInv
<1>b. /\ current[c] # None /\ prev[c] = None /\ hand[c] = None
      /\ next \in Threads => next \in rq /\ state[next] = "READY"
      /\ next \in Threads \cup {Idle}
      /\ \A d \in CPUs : next \in Threads => ~On(next, d)
  BY <1>1, <1>a, SentinelsDistinct DEF Awake, Busy, Dequeue, TypeOK, PlacedOrDying, StackExclusive
<1>d. ASSUME current[c] \in Threads
      PROVE  /\ state[current[c]] \in {"RUNNING", "READY", "DYING"}
             /\ current[c] \notin rq
             /\ \A d \in CPUs : d # c => ~On(current[c], d)
             /\ unblock_pending[current[c]] => state[current[c]] = "DYING"
  BY <1>a, <1>b, <1>d DEF TypeOK, States, PlacedOrDying, StackExclusive, On, Pending
<1>2. TypeOK'
  BY <1>1, <1>a, <1>b DEF TypeOK, States
<1>3. StackExclusive'
  BY <1>1, <1>a, <1>b, <1>d, SentinelsDistinct DEF StackExclusive, On, TypeOK
<1>4. PlacedOrDying'
  <2> SUFFICES ASSUME NEW t \in Threads
               PROVE PlacedOrDying!(t)'
    BY DEF PlacedOrDying
  <2> QED BY <1>1, <1>a, <1>b, <1>d, SentinelsDistinct DEF PlacedOrDying, On, TypeOK, Pending
<1>5. Handover'
  BY <1>1, <1>a, <1>b, <1>d, SentinelsDistinct DEF Handover, On, TypeOK
<1>6. QED
  BY <1>2, <1>3, <1>4, <1>5 DEF SInv

(* Where the states of the thread a CPU has leave it. *)
LEMMA CurrentSState ==
  ASSUME SInv, NEW c \in CPUs, current[c] \in Threads
  PROVE  /\ state[current[c]] \in {"RUNNING", "READY", "DYING"}
         /\ unblock_pending[current[c]] => state[current[c]] = "DYING"
  BY SentinelsDistinct
     DEF SInv, TypeOK, States, PlacedOrDying, StackExclusive, Handover, On, Pending

LEMMA PrevState ==
  ASSUME SInv, NEW c \in CPUs, prev[c] \in Threads
  PROVE  state[prev[c]] \in {"READY", "DYING"} \cup Pending
  BY SentinelsDistinct
     DEF SInv, TypeOK, States, PlacedOrDying, StackExclusive, Handover, On, Pending

(* One step per action of Next. *)
LEMMA NextSInv == SInv /\ [Next]_vars => SInv'
<1> SUFFICES ASSUME SInv, [Next]_vars PROVE SInv'
  OBVIOUS
<1> USE SentinelsDistinct
<1>t. TypeOK /\ StackExclusive /\ PlacedOrDying /\ Handover
  BY DEF SInv
<1>1. ASSUME NEW c \in CPUs, StartPick(c) PROVE SInv'
  <2>1. TypeOK'
    BY <1>1, <1>t DEF StartPick, Dequeue, TypeOK
  <2>2. StackExclusive' /\ PlacedOrDying'
    BY <1>1, <1>t DEF StartPick, Dequeue, TypeOK, StackExclusive, PlacedOrDying, Handover, On, Pending
  <2>3. Handover'
    BY <1>1, <1>t DEF StartPick, Dequeue, TypeOK, PlacedOrDying, Handover, On
  <2> QED BY <2>1, <2>2, <2>3 DEF SInv
<1>2. ASSUME NEW c \in CPUs, StartRun(c) PROVE SInv'
  <2>1. TypeOK'
    BY <1>2, <1>t DEF StartRun, TypeOK, States
  <2>2. StackExclusive'
    BY <1>2, <1>t DEF StartRun, TypeOK, StackExclusive, Handover, On
  <2>3. PlacedOrDying'
    BY <1>2, <1>t DEF StartRun, TypeOK, StackExclusive, PlacedOrDying, Handover, On, Pending
  <2>4. Handover'
    BY <1>2, <1>t DEF StartRun, TypeOK, StackExclusive, Handover, On
  <2> QED BY <2>1, <2>2, <2>3, <2>4 DEF SInv
<1>3. ASSUME NEW c \in CPUs, Yield(c) PROVE SInv'
  <2>1. PICK s \in {"READY", "DYING"} :
          /\ Switch(c, s)
          /\ current[c] \in Threads /\ state[current[c]] = "DYING" => s = "DYING"
    BY <1>3 DEF Yield, Unless
  <2> QED BY <1>3, <1>t, <2>1, SwitchSInv DEF Yield, TypeOK
<1>4. ASSUME NEW c \in CPUs, YieldKeep(c) PROVE SInv'
  BY <1>4, <1>t, CurrentSState
     DEF YieldKeep, Awake, Busy, SInv, TypeOK, States, StackExclusive, PlacedOrDying, Handover, On, Pending
<1>5. ASSUME NEW c \in CPUs, current[c] \in Threads, Abort(c) PROVE SInv'
  BY <1>5, <1>t, CurrentSState
     DEF Abort, SInv, TypeOK, States, StackExclusive, PlacedOrDying, Handover, On, Pending
<1>6. ASSUME NEW c \in CPUs, NEW w \in BOOLEAN, Block(c, w) PROVE SInv'
  <2>1. CASE w \/ state[current[c]] = "READY"
    BY <1>5, <1>6, <2>1 DEF Block
  <2>2. CASE ~(w \/ state[current[c]] = "READY")
    <3>1. PICK s \in {"BLOCKED_PENDING", "DYING"} :
            /\ Switch(c, s)
            /\ state[current[c]] = "DYING" => s = "DYING"
      BY <1>6, <2>2 DEF Block, Commit, Unless
    <3>2. /\ Awake(c)
          /\ tree' = tree
          /\ hr' = hr
          /\ unblock_pending' = [unblock_pending EXCEPT ![current[c]] =
                IF state[current[c]] = "DYING" THEN unblock_pending[current[c]] ELSE FALSE]
      BY <1>6, <2>2 DEF Block, Commit
    <3>4. /\ unblock_pending' \in [Threads -> BOOLEAN]
          /\ \A t \in Threads : unblock_pending'[t] => unblock_pending[t]
      BY <3>2, <1>t DEF TypeOK
    <3>3. hr' \in [Threads -> BOOLEAN]
      BY <3>2, <1>t DEF TypeOK
    <3> QED BY <3>1, <3>2, <3>3, <3>4, SwitchSInv
  <2> QED BY <2>1, <2>2
<1>7. ASSUME NEW c \in CPUs, NEW w \in BOOLEAN, NEW h \in BOOLEAN, Sleep(c, w, h)
      PROVE  SInv'
  <2>1. CASE w
    BY <1>5, <1>7, <2>1 DEF Sleep
  <2>2. CASE ~w
    <3>1. PICK s \in {"SLEEPING_PENDING", "DYING"} :
            /\ Switch(c, s)
            /\ state[current[c]] = "DYING" => s = "DYING"
      BY <1>7, <2>2 DEF Sleep, Commit, Unless
    <3>2. /\ Awake(c)
          /\ tree' = tree
          /\ unblock_pending' = [unblock_pending EXCEPT ![current[c]] =
                IF state[current[c]] = "DYING" THEN unblock_pending[current[c]] ELSE FALSE]
      BY <1>7, <2>2 DEF Sleep, Commit
    <3>4. /\ unblock_pending' \in [Threads -> BOOLEAN]
          /\ \A t \in Threads : unblock_pending'[t] => unblock_pending[t]
      BY <3>2, <1>t DEF TypeOK
    <3>3. /\ hr' \in [Threads -> BOOLEAN]
          /\ \A t \in Threads : t # current[c] => hr'[t] = hr[t]
      BY <1>7, <2>2, <1>t DEF Sleep, TypeOK
    <3> QED BY <3>1, <3>2, <3>3, <3>4, SwitchSInv, ZenonT(40)
  <2> QED BY <2>1, <2>2
<1>8. ASSUME NEW c \in CPUs, Exit(c) PROVE SInv'
  BY <1>8, <1>t, SwitchSInv DEF Exit, TypeOK
<1>9. ASSUME NEW c \in CPUs, NEW due \in BOOLEAN, PostSwitch(c, due) PROVE SInv'
  <2>1. CASE prev[c] = Idle
    BY <1>9, <1>t, <2>1
       DEF PostSwitch, SInv, TypeOK, StackExclusive, PlacedOrDying, Handover, On, Pending
  <2>2. CASE prev[c] # Idle
    <3> DEFINE t == prev[c]
               s == Settled(t, due)
    <3>1. /\ t \in Threads
          /\ state[t] \in {"READY", "DYING"} \cup Pending
          /\ \A d \in CPUs : d # c => ~On(t, d)
          /\ current[c] # t /\ hand[c] = None
          /\ t \notin rq
      BY <1>9, <1>t, <2>2, PrevState DEF PostSwitch, TypeOK, StackExclusive, Handover, On
    <3>2. /\ SettleThread(t, due)
          /\ prev' = [prev EXCEPT ![c] = None]
          /\ current' = current /\ hand' = hand
      BY <1>9, <2>2 DEF PostSwitch
    <3>3. /\ s \in {"ZOMBIE", "READY", "SLEEPING", "BLOCKED"}
          /\ s = "SLEEPING" => state[t] = "SLEEPING_PENDING"
      BY <3>1 DEF Settled, Pending
    <3>4. TypeOK'
      BY <3>1, <3>2, <3>3, <1>t DEF SettleThread, TypeOK, States
    <3>5. StackExclusive'
      BY <3>1, <3>2, <1>t DEF SettleThread, TypeOK, StackExclusive, On
    <3>6. PlacedOrDying'
      <4> SUFFICES ASSUME NEW u \in Threads PROVE PlacedOrDying!(u)'
        BY DEF PlacedOrDying
      <4>1. CASE u = t
        <5>1. SettleThread(u, due)
          BY <3>2, <4>1
        <5>2. /\ state'[u] = s
              /\ tree'[u] = IF s # "SLEEPING" THEN tree[t]
                            ELSE IF hr[t] THEN "hr" ELSE "tick"
          BY <1>t, <4>1, <5>1 DEF SettleThread, TypeOK
        <5>3. /\ u \in rq' <=> s = "READY"
              /\ s = "SLEEPING" => hr'[u] = hr[t]
          BY <1>t, <3>1, <4>1, <5>1 DEF SettleThread, TypeOK
        <5>4. unblock_pending'[u] => state[t] = "DYING"
          BY <3>1, <3>2, <1>t, <4>1 DEF SettleThread, TypeOK, PlacedOrDying, Pending
        <5>5. state[t] = "DYING" => s = "ZOMBIE"
          BY DEF Settled
        <5>6. \A d \in CPUs : ~On(u, d)'
          BY <3>1, <3>2, <1>t, <4>1 DEF TypeOK, On
        <5>7. tree[t] = "none"
          BY <3>1, <1>t DEF PlacedOrDying, Pending
        <5> QED BY <3>3, <4>1, <5>2, <5>3, <5>4, <5>5, <5>6, <5>7 DEF Pending
      <4>2. CASE u # t
        <5>1. /\ state'[u] = state[u] /\ tree'[u] = tree[u] /\ hr'[u] = hr[u]
              /\ unblock_pending'[u] = unblock_pending[u]
              /\ u \in rq' <=> u \in rq
              /\ \A d \in CPUs : On(u, d)' <=> On(u, d)
              /\ \A d \in CPUs : prev'[d] = u <=> prev[d] = u
          BY <3>1, <3>2, <1>t, <4>2 DEF SettleThread, TypeOK, On
        <5> QED BY <3>2, <5>1, <1>t DEF PlacedOrDying
      <4> QED BY <4>1, <4>2
    <3>7. Handover'
      BY <3>1, <3>2, <1>t DEF SettleThread, TypeOK, Handover, On
    <3> QED BY <3>4, <3>5, <3>6, <3>7 DEF SInv
  <2> QED BY <2>1, <2>2
<1>10. ASSUME NEW c \in CPUs, NEW t \in Threads, Create(c, t) PROVE SInv'
  BY <1>10, <1>t
     DEF Create, SInv, TypeOK, States, StackExclusive, PlacedOrDying, Handover, On, Pending
<1>11. ASSUME NEW c \in CPUs, NEW t \in Threads, Unblock(c, t) PROVE SInv'
  <2>1. CASE state[t] \in {"BLOCKED", "SLEEPING"}
    <3>1. /\ state' = [state EXCEPT ![t] = "READY"]
          /\ rq' = rq \cup {t}
          /\ unblock_pending' = unblock_pending
          /\ current' = current /\ prev' = prev /\ hand' = hand
      BY <1>11, <2>1 DEF Unblock, Wake, Pending
    <3>2. /\ tree' = [tree EXCEPT ![t] = "none"]
          /\ hr' = [hr EXCEPT ![t] = IF state[t] = "SLEEPING" THEN FALSE ELSE @]
      <4>1. tree[t] = (IF state[t] # "SLEEPING" THEN "none"
                       ELSE IF hr[t] THEN "hr" ELSE "tick")
        BY <1>t DEF PlacedOrDying
      <4> QED BY <1>11, <1>t, <2>1, <4>1 DEF Unblock, Wake, Unlinked, Pending, TypeOK
    <3>3. \A c_1 \in CPUs : ~On(t, c_1)
      BY <1>t, <2>1 DEF PlacedOrDying
    <3>4. TypeOK'
      BY <3>1, <3>2, <1>t DEF TypeOK, States
    <3>5. StackExclusive' /\ Handover'
      BY <3>1, <3>3, <1>t DEF TypeOK, StackExclusive, Handover, On
    <3>6. PlacedOrDying'
      BY <3>1, <3>2, <3>3, <1>t, <2>1 DEF TypeOK, PlacedOrDying, On, Pending
    <3> QED BY <3>4, <3>5, <3>6 DEF SInv
  <2>2. CASE state[t] \in Pending
    <3>1. /\ unblock_pending' = [unblock_pending EXCEPT ![t] = TRUE]
          /\ UNCHANGED <<state, hr, tree, rq, current, prev, hand>>
      BY <1>11, <2>2 DEF Unblock, Wake, Pending
    <3>2. TypeOK' /\ StackExclusive' /\ Handover'
      BY <3>1, <1>t DEF TypeOK, StackExclusive, Handover, On
    <3>3. PlacedOrDying'
      BY <3>1, <1>t, <2>2 DEF TypeOK, PlacedOrDying, On, Pending
    <3> QED BY <3>2, <3>3 DEF SInv
  <2>3. CASE state[t] = "RUNNING"
    BY <1>11, <1>t, <2>3
       DEF Unblock, Wake, SInv, TypeOK, States, StackExclusive, PlacedOrDying, Handover, On, Pending
  <2>4. CASE state[t] \in {"READY", "DYING", "ZOMBIE", "FREE"}
    <3>1. UNCHANGED vars
      BY <1>11, <2>4 DEF Unblock, Wake, Pending, vars
    <3> QED BY <3>1, <1>t DEF vars, SInv, TypeOK, StackExclusive, PlacedOrDying, Handover, On
  <2> QED BY <1>11, <2>1, <2>2, <2>3, <2>4 DEF Unblock, Wake
<1>12. ASSUME NEW c \in CPUs, NEW D \in SUBSET Threads, Expire(c, D) PROVE SInv'
  <2>1. \A t \in D : state[t] = "SLEEPING"
    BY <1>12, <1>t DEF Expire, PlacedOrDying
  <2>2. Enqueueable(D) = D
    BY <2>1 DEF Enqueueable
  <2>3. /\ tree' = [t \in Threads |-> IF t \in D THEN "none" ELSE tree[t]]
        /\ hr' = [t \in Threads |-> IF t \in D /\ tree[t] = "hr" THEN FALSE ELSE hr[t]]
        /\ state' = [t \in Threads |-> IF t \in D THEN "READY" ELSE state[t]]
        /\ rq' = rq \cup D
        /\ UNCHANGED <<unblock_pending, current, prev, hand>>
    BY <1>12, <2>2 DEF Expire
  <2>4. \A t \in D : \A d \in CPUs : ~On(t, d)
    BY <1>t, <2>1 DEF PlacedOrDying
  <2>5. TypeOK'
    BY <1>t, <2>3 DEF TypeOK, States
  <2>6. StackExclusive' /\ Handover'
    BY <1>t, <2>3, <2>4 DEF TypeOK, StackExclusive, Handover, On
  <2>7. PlacedOrDying'
    <3> SUFFICES ASSUME NEW t \in Threads PROVE PlacedOrDying!(t)'
      BY DEF PlacedOrDying
    <3> QED BY <1>t, <2>1, <2>3, <2>4 DEF TypeOK, PlacedOrDying, On, Pending
  <2> QED BY <2>5, <2>6, <2>7 DEF SInv
<1>13. ASSUME NEW c \in CPUs, BalancePull(c) PROVE SInv'
  BY <1>13, <1>t
     DEF BalancePull, Awake, Busy, SInv, TypeOK, StackExclusive, PlacedOrDying, Handover, On, Pending
<1>14. ASSUME NEW c \in CPUs, BalancePush(c) PROVE SInv'
  BY <1>14, <1>t
     DEF BalancePush, SInv, TypeOK, StackExclusive, PlacedOrDying, Handover, On, Pending
<1>15. ASSUME UNCHANGED vars PROVE SInv'
  BY <1>15, <1>t DEF vars, SInv, TypeOK, StackExclusive, PlacedOrDying, Handover, On
<1> QED
  BY <1>1, <1>2, <1>3, <1>4, <1>6, <1>7, <1>8, <1>9, <1>10, <1>11, <1>12, <1>13,
     <1>14, <1>15 DEF Next

(* Where the states of the thread a CPU has leave it. *)
LEMMA CurrentState ==
  ASSUME IInv, NEW c \in CPUs, current[c] \in Threads
  PROVE  /\ state[current[c]] \in {"RUNNING", "READY"}
         /\ ~unblock_pending[current[c]]
  BY SentinelsDistinct
     DEF IInv, TypeOK, States, Placed, StackExclusive, Handover, On, Pending

(* Without a kill a thread is on its way off its CPU when it dies, and only a
   thread on its way off carries a wake-up. *)
LEMMA NextUnkilled == IInv /\ [Next]_vars => Unkilled'
<1> SUFFICES ASSUME IInv, [Next]_vars, NEW t \in Threads
             PROVE  /\ state'[t] = "DYING" => \E c \in CPUs : prev'[c] = t
                    /\ unblock_pending'[t] => state'[t] \in Pending
  BY DEF Unkilled
<1> USE SentinelsDistinct
<1>t. TypeOK /\ StackExclusive /\ Placed /\ Handover
  BY DEF IInv
<1> DEFINE Fine == /\ state'[t] = "DYING" => \E c \in CPUs : prev'[c] = t
                   /\ unblock_pending'[t] => state'[t] \in Pending
<1>p. /\ state[t] = "DYING" => \E c \in CPUs : prev[c] = t
      /\ unblock_pending[t] => state[t] \in Pending
  BY <1>t DEF Placed
<1>1. ASSUME NEW c \in CPUs, Awake(c), NEW s, Switch(c, s),
             unblock_pending'[t] => unblock_pending[t]
      PROVE  Fine
  <2>1. PICK next \in Dequeue \ {current[c]} :
          /\ state' = [u \in Threads |-> IF u = next THEN "RUNNING"
                                         ELSE IF u = current[c] THEN s ELSE state[u]]
          /\ prev' = [prev EXCEPT ![c] = current[c]]
    BY <1>1 DEF Switch
  <2>2. prev'[c] = current[c] /\ \A d \in CPUs : prev[d] = t => prev'[d] = t
    BY <1>1, <1>t, <2>1 DEF Awake, Busy, TypeOK
  <2>3. unblock_pending'[t] => t # next /\ t # current[c]
    BY <1>1, <1>p, <1>t, <2>1, CurrentState DEF Dequeue, Placed, IInv, Pending
  <2> QED BY <1>1, <1>p, <2>1, <2>2, <2>3
<1>2. ASSUME NEW c \in CPUs, StartPick(c) \/ StartRun(c) \/ YieldKeep(c) PROVE Fine
  <2>1. /\ unblock_pending' = unblock_pending /\ prev' = prev
        /\ state'[t] = state[t] \/ (state'[t] = "RUNNING" /\ state[t] \notin Pending)
    BY <1>2, <1>t, CurrentState DEF StartPick, StartRun, YieldKeep, Awake, Handover, TypeOK, Pending
  <2> QED BY <1>p, <2>1
<1>3. ASSUME NEW c \in CPUs, Yield(c) \/ Exit(c) PROVE Fine
  BY <1>1, <1>3 DEF Yield, Exit
<1>4. ASSUME NEW c \in CPUs, Awake(c), current[c] \in Threads, Abort(c) PROVE Fine
  <2>1. /\ unblock_pending'[t] => unblock_pending[t] /\ t # current[c]
        /\ prev' = prev
        /\ t # current[c] => state'[t] = state[t]
        /\ state'[t] = "DYING" => state[t] = "DYING"
    BY <1>4, <1>t DEF Abort, TypeOK
  <2> QED BY <1>p, <2>1
<1>5. ASSUME NEW c \in CPUs, Awake(c), current[c] \in Threads, NEW s, Commit(c, s) PROVE Fine
  <2>1. unblock_pending'[t] => unblock_pending[t]
    BY <1>5, <1>t DEF Commit, TypeOK
  <2>2. \E u : Switch(c, u)
    BY <1>5 DEF Commit
  <2> QED BY <1>1, <1>5, <2>1, <2>2
<1>6. ASSUME NEW c \in CPUs, NEW w \in BOOLEAN, NEW h \in BOOLEAN, Block(c, w) \/ Sleep(c, w, h)
      PROVE  Fine
  <2>1. Awake(c) /\ current[c] \in Threads /\ (Abort(c) \/ \E s : Commit(c, s))
    BY <1>6 DEF Block, Sleep
  <2> QED BY <1>4, <1>5, <2>1
<1>7. ASSUME NEW c \in CPUs, NEW due \in BOOLEAN, PostSwitch(c, due) PROVE Fine
  <2>1. CASE t # prev[c]
    <3>1. state'[t] = state[t] /\ unblock_pending'[t] = unblock_pending[t]
      BY <1>7, <1>t, <2>1, ZenonT(40) DEF PostSwitch, SettleThread, TypeOK
    <3>2. \A d \in CPUs : prev[d] = t => prev'[d] = t
      BY <1>7, <1>t, <2>1 DEF PostSwitch, TypeOK
    <3> QED BY <1>p, <3>1, <3>2
  <2>2. CASE t = prev[c]
    <3>1. SettleThread(t, due)
      BY <1>7, <2>2 DEF PostSwitch
    <3>2. state'[t] = Settled(t, due) /\ (unblock_pending'[t] => state[t] \notin Pending /\ unblock_pending[t])
      BY <1>t, <3>1 DEF SettleThread, TypeOK
    <3>3. Settled(t, due) = "DYING" => state[t] = "DYING"
      BY DEF Settled
    <3>4. state[t] = "DYING" => Settled(t, due) = "ZOMBIE"
      BY DEF Settled
    <3> QED BY <1>p, <3>2, <3>3, <3>4
  <2> QED BY <2>1, <2>2
<1>8. ASSUME NEW c \in CPUs, NEW u \in Threads, Create(c, u) PROVE Fine
  BY <1>8, <1>p, <1>t DEF Create, TypeOK
<1>9. ASSUME NEW c \in CPUs, NEW u \in Threads, Unblock(c, u) PROVE Fine
  <2>1. CASE u # t
    BY <1>9, <1>p, <1>t, <2>1 DEF Unblock, Wake, TypeOK
  <2>2. CASE u = t
    BY <1>9, <1>p, <1>t, <2>2 DEF Unblock, Wake, TypeOK, Pending
  <2> QED BY <2>1, <2>2
<1>10. ASSUME NEW c \in CPUs, NEW D \in SUBSET Threads, Expire(c, D) PROVE Fine
  <2>1. /\ unblock_pending' = unblock_pending /\ prev' = prev
        /\ state'[t] = state[t] \/ (state'[t] = "READY" /\ state[t] = "SLEEPING")
    BY <1>10, <1>t DEF Expire, Enqueueable, Placed, TypeOK
  <2> QED BY <1>p, <2>1 DEF Pending
<1>11. ASSUME NEW c \in CPUs, BalancePull(c) \/ BalancePush(c) PROVE Fine
  BY <1>11, <1>p DEF BalancePull, BalancePush
<1>12. ASSUME UNCHANGED vars PROVE Fine
  BY <1>12, <1>p DEF vars
<1> QED
  BY <1>2, <1>3, <1>6, <1>7, <1>8, <1>9, <1>10, <1>11, <1>12 DEF Next

LEMMA NextIInv == IInv /\ [Next]_vars => IInv'
  BY Weaker, NextSInv, NextUnkilled, PlacedParts DEF IInv, SInv

(* The inductive invariant holds in every reachable state. *)
LEMMA Invariant == Spec => []IInv
  BY InitIInv, NextIInv, PTL DEF Spec

(* Every variable keeps its type. *)
THEOREM TypeCorrect == Spec => []TypeOK
<1>1. IInv => TypeOK
  BY DEF IInv
<1> QED BY Invariant, <1>1, PTL

(* For any number of CPUs and threads, no thread is ever in the hands of two
   CPUs, and none that a CPU still has is linked on a run queue. *)
THEOREM StackExclusion == Spec => []StackExclusive
<1>1. IInv => StackExclusive
  BY DEF IInv
<1> QED BY Invariant, <1>1, PTL

(* For any number of CPUs and threads, no thread is lost: each is exactly
   where its state says. *)
THEOREM NoThreadLost == Spec => []Placed
<1>1. IInv => Placed
  BY DEF IInv
<1> QED BY Invariant, <1>1, PTL
----------------------------------------------------------------------------
(* The scheduler implements Park: what each action does to the phase of every
   thread is a move Park allows, or nothing. *)

Cur(u) == \E c \in CPUs : current[c] = u

(* The phase of a thread is a function of these three pieces of its state. *)
LEMMA PhaseSame ==
  ASSUME NEW u \in Threads, state'[u] = state[u],
         unblock_pending'[u] = unblock_pending[u], Cur(u)' <=> Cur(u)
  PROVE  Phase(u)' = Phase(u)
  BY DEF Phase, Cur

(* The moves, by the phases before and after. *)
LEMMA MoveStep ==
  ASSUME NEW u \in Threads,
         \/ Phase(u) = "FREE" /\ Phase(u)' = "ready"
         \/ Phase(u) = "ready" /\ Phase(u)' = "RUNNING"
         \/ Phase(u) \in {"RUNNING", "token"} /\ Phase(u)' \in {"ready", "dozing", "DYING"}
         \/ Phase(u) = "RUNNING" /\ Phase(u)' \in {"pending", "token"}
         \/ Phase(u) = "token" /\ Phase(u)' = "RUNNING"
         \/ Phase(u) = "pending" /\ Phase(u)' \in {"BLOCKED", "pendingWoken"}
         \/ Phase(u) = "dozing" /\ Phase(u)' \in {"SLEEPING", "dozingWoken", "ready"}
         \/ Phase(u) \in {"pendingWoken", "dozingWoken", "BLOCKED", "SLEEPING"}
                /\ Phase(u)' = "ready"
         \/ Phase(u) = "DYING" /\ Phase(u)' = "ZOMBIE"
  PROVE  P!Step(u)
  BY DEF P!Step, P!Create, P!Dispatch, P!Yield, P!Block, P!Sleep, P!Settle, P!Unblock,
         P!Timeout, P!Exit, P!Move

PhaseStep(u) == P!Step(u) \/ Phase(u)' = Phase(u)

LEMMA SwitchPark ==
  ASSUME IInv, NEW c \in CPUs, Awake(c),
         NEW s \in {"READY", "BLOCKED_PENDING", "SLEEPING_PENDING", "DYING"},
         s = "BLOCKED_PENDING" => current[c] \in Threads /\ state[current[c]] = "RUNNING",
         Switch(c, s),
         \A t \in Threads : t # current[c] => unblock_pending'[t] = unblock_pending[t],
         s \in Pending => ~unblock_pending'[current[c]]
  PROVE  \A u \in Threads : PhaseStep(u)
<1> USE SentinelsDistinct
<1>1. PICK next \in Dequeue \ {current[c]} :
        /\ state' = [t \in Threads |-> IF t = next THEN "RUNNING"
                                       ELSE IF t = current[c] THEN s ELSE state[t]]
        /\ current' = [current EXCEPT ![c] = next]
  BY DEF Switch
<1>2. next \in Threads => next \in rq /\ state[next] = "READY" /\ ~Cur(next)
  BY <1>1 DEF IInv, Dequeue, Placed, StackExclusive, On, Cur
<1>3. current[c] \in Threads => /\ state[current[c]] \in {"RUNNING", "READY"}
                                /\ \A d \in CPUs : current[d] = current[c] => d = c
  BY CurrentState DEF IInv, StackExclusive, On
<1> TAKE u \in Threads
<1>4. CASE u = next
  <2>1. Phase(u) = "ready" /\ Phase(u)' = "RUNNING"
    BY <1>1, <1>2, <1>4 DEF Phase, Cur
  <2> QED BY <2>1, MoveStep DEF PhaseStep
<1>5. CASE u # next /\ u = current[c]
  <2>1. Phase(u) = (IF state[u] = "READY" THEN "token" ELSE "RUNNING")
    BY <1>3, <1>5 DEF Phase
  <2>2. Phase(u)' = CASE s = "READY" -> "ready"
                      [] s = "BLOCKED_PENDING" -> "pending"
                      [] s = "SLEEPING_PENDING" -> "dozing"
                      [] s = "DYING" -> "DYING"
    <3>1. ~Cur(u)' /\ state'[u] = s
      BY <1>1, <1>3, <1>5 DEF Cur, IInv, TypeOK
    <3> QED BY <1>5, <3>1 DEF Phase, Cur, Pending
  <2> QED BY <1>3, <1>5, <2>1, <2>2, MoveStep DEF PhaseStep
<1>6. CASE u # next /\ u # current[c]
  <2>1. Cur(u)' <=> Cur(u)
    BY <1>1, <1>6 DEF Cur, IInv, TypeOK
  <2> QED BY <1>1, <1>6, <2>1, PhaseSame DEF PhaseStep, IInv, TypeOK
<1> QED BY <1>4, <1>5, <1>6

LEMMA StepPark == IInv /\ [Next]_vars => \A u \in Threads : PhaseStep(u)
<1> SUFFICES ASSUME IInv, [Next]_vars PROVE \A u \in Threads : PhaseStep(u)
  OBVIOUS
<1> USE SentinelsDistinct
<1>t. TypeOK /\ StackExclusive /\ Placed /\ Handover
  BY DEF IInv
<1>0. ASSUME UNCHANGED <<state, unblock_pending, current>>
      PROVE  \A u \in Threads : PhaseStep(u)
  BY <1>0, PhaseSame DEF PhaseStep, Cur
<1>1. ASSUME NEW c \in CPUs, StartPick(c) PROVE \A u \in Threads : PhaseStep(u)
  BY <1>0, <1>1 DEF StartPick
<1>2. ASSUME NEW c \in CPUs, StartRun(c) PROVE \A u \in Threads : PhaseStep(u)
  <2> TAKE u \in Threads
  <2>1. CASE u = hand[c]
    <3>1. ~Cur(u) /\ state[u] = "READY"
      BY <1>2, <1>t, <2>1 DEF StartRun, Handover, StackExclusive, On, Cur
    <3>2. Phase(u) = "ready" /\ Phase(u)' = "RUNNING"
      BY <1>2, <2>1, <3>1 DEF StartRun, Phase, Cur
    <3> QED BY <3>2, MoveStep DEF PhaseStep
  <2>2. CASE u # hand[c]
    <3>1. Cur(u)' <=> Cur(u)
      BY <1>2, <1>t, <2>2 DEF StartRun, TypeOK, Cur
    <3> QED BY <1>2, <2>2, <3>1, PhaseSame DEF StartRun, PhaseStep
  <2> QED BY <2>1, <2>2
<1>3. ASSUME NEW c \in CPUs, Yield(c) PROVE \A u \in Threads : PhaseStep(u)
  <2>1. Switch(c, "READY")
    BY <1>3, CurrentState DEF Yield, Unless
  <2> QED BY <1>3, <2>1, SwitchPark DEF Yield, Pending
<1>4. ASSUME NEW c \in CPUs, current[c] \in Threads,
             state' = [state EXCEPT ![current[c]] = "RUNNING"],
             \A t \in Threads : t # current[c] => unblock_pending'[t] = unblock_pending[t],
             current' = current
      PROVE  \A u \in Threads : PhaseStep(u)
  <2> TAKE u \in Threads
  <2>1. CASE u = current[c]
    <3>1. Phase(u) \in {"token", "RUNNING"} /\ Phase(u)' = "RUNNING"
      BY <1>4, <1>t, <2>1, CurrentState DEF Phase, TypeOK
    <3> QED BY <3>1, MoveStep DEF PhaseStep
  <2>2. CASE u # current[c]
    BY <1>4, <1>t, <2>2, PhaseSame DEF PhaseStep, Cur, TypeOK
  <2> QED BY <2>1, <2>2
<1>5. ASSUME NEW c \in CPUs, YieldKeep(c) PROVE \A u \in Threads : PhaseStep(u)
  BY <1>4, <1>5 DEF YieldKeep
<1>6. ASSUME NEW c \in CPUs, current[c] \in Threads, Abort(c)
      PROVE  \A u \in Threads : PhaseStep(u)
  <2>1. state' = [state EXCEPT ![current[c]] = "RUNNING"]
    BY <1>6, <1>t, CurrentState DEF Abort, TypeOK
  <2> QED BY <1>4, <1>6, <1>t, <2>1 DEF Abort, TypeOK
<1>7. ASSUME NEW c \in CPUs, current[c] \in Threads,
             NEW s \in Pending, Commit(c, s)
      PROVE  /\ Switch(c, s)
             /\ \A t \in Threads : t # current[c] => unblock_pending'[t] = unblock_pending[t]
             /\ ~unblock_pending'[current[c]]
  BY <1>7, <1>t, CurrentState DEF Commit, Unless, TypeOK
<1>8. ASSUME NEW c \in CPUs, NEW w \in BOOLEAN, Block(c, w)
      PROVE  \A u \in Threads : PhaseStep(u)
  <2>1. CASE w \/ state[current[c]] = "READY"
    BY <1>6, <1>8, <2>1 DEF Block
  <2>2. CASE ~(w \/ state[current[c]] = "READY")
    <3>1. /\ current[c] \in Threads /\ Awake(c)
          /\ Commit(c, "BLOCKED_PENDING")
      BY <1>8, <2>2 DEF Block
    <3>2. state[current[c]] = "RUNNING"
      BY <2>2, <3>1, CurrentState
    <3>3. "BLOCKED_PENDING" \in Pending
      BY DEF Pending
    <3> QED BY <1>7, <3>1, <3>2, <3>3, SwitchPark
  <2> QED BY <2>1, <2>2
<1>9. ASSUME NEW c \in CPUs, NEW w \in BOOLEAN, NEW h \in BOOLEAN, Sleep(c, w, h)
      PROVE  \A u \in Threads : PhaseStep(u)
  <2>1. CASE w
    BY <1>6, <1>9, <2>1 DEF Sleep
  <2>2. CASE ~w
    <3>1. /\ current[c] \in Threads /\ Awake(c)
          /\ Commit(c, "SLEEPING_PENDING")
      BY <1>9, <2>2 DEF Sleep
    <3>3. "SLEEPING_PENDING" \in Pending
      BY DEF Pending
    <3> QED BY <1>7, <3>1, <3>3, SwitchPark
  <2> QED BY <2>1, <2>2
<1>10. ASSUME NEW c \in CPUs, Exit(c) PROVE \A u \in Threads : PhaseStep(u)
  BY <1>10, SwitchPark DEF Exit, Pending
<1>11. ASSUME NEW c \in CPUs, NEW due \in BOOLEAN, PostSwitch(c, due)
       PROVE  \A u \in Threads : PhaseStep(u)
  <2>1. CASE prev[c] = Idle
    BY <1>0, <1>11, <2>1 DEF PostSwitch
  <2>2. CASE prev[c] # Idle
    <3> DEFINE t == prev[c]
    <3>1. /\ t \in Threads
          /\ state[t] \in {"READY", "DYING"} \cup Pending
          /\ ~Cur(t)
      BY <1>11, <1>t, <2>2, Weaker, PrevState DEF PostSwitch, TypeOK, StackExclusive, On, Cur
    <3>2. SettleThread(t, due) /\ current' = current
      BY <1>11, <2>2 DEF PostSwitch
    <3> TAKE u \in Threads
    <3>3. CASE u = t
      <4>1. state'[u] = Settled(t, due) /\ ~Cur(u)'
        BY <3>1, <3>2, <3>3, <1>t DEF SettleThread, TypeOK, Cur
      <4>2. CASE state[t] \in {"READY", "DYING"}
        <5>1. \/ Phase(u) = "ready" /\ Phase(u)' = "ready"
              \/ Phase(u) = "DYING" /\ Phase(u)' = "ZOMBIE"
          BY <3>1, <3>3, <4>1, <4>2 DEF Settled, Phase, Cur
        <5> QED BY <5>1, MoveStep DEF PhaseStep
      <4>3. CASE state[t] = "BLOCKED_PENDING"
        <5>1. \/ Phase(u) = "pending" /\ Phase(u)' = "BLOCKED"
              \/ Phase(u) = "pendingWoken" /\ Phase(u)' = "ready"
          BY <3>1, <3>3, <4>1, <4>3 DEF Settled, Phase, Cur
        <5> QED BY <5>1, MoveStep DEF PhaseStep
      <4>4. CASE state[t] = "SLEEPING_PENDING"
        <5>1. \/ Phase(u) = "dozing" /\ Phase(u)' \in {"SLEEPING", "ready"}
              \/ Phase(u) = "dozingWoken" /\ Phase(u)' = "ready"
          BY <3>1, <3>3, <4>1, <4>4 DEF Settled, Phase, Cur
        <5> QED BY <5>1, MoveStep DEF PhaseStep
      <4> QED BY <3>1, <4>2, <4>3, <4>4 DEF Pending
    <3>4. CASE u # t
      BY <3>1, <3>2, <3>4, <1>t, PhaseSame DEF SettleThread, TypeOK, Cur, PhaseStep
    <3> QED BY <3>3, <3>4
  <2> QED BY <2>1, <2>2
<1>12. ASSUME NEW c \in CPUs, NEW t \in Threads, Create(c, t)
       PROVE  \A u \in Threads : PhaseStep(u)
  <2> TAKE u \in Threads
  <2>1. CASE u = t
    <3>1. Phase(u) = "FREE" /\ Phase(u)' = "ready"
      BY <1>12, <1>t, <2>1 DEF Create, TypeOK, Placed, On, Phase
    <3> QED BY <3>1, MoveStep DEF PhaseStep
  <2>2. CASE u # t
    BY <1>12, <1>t, <2>2, PhaseSame DEF Create, TypeOK, Cur, PhaseStep
  <2> QED BY <2>1, <2>2
<1>13. ASSUME NEW c \in CPUs, NEW t \in Threads, Unblock(c, t)
       PROVE  \A u \in Threads : PhaseStep(u)
  <2> TAKE u \in Threads
  <2>0. current' = current
    BY <1>13 DEF Unblock
  <2>1. CASE u # t
    BY <1>13, <1>t, <2>0, <2>1, PhaseSame DEF Unblock, Wake, TypeOK, Cur, PhaseStep
  <2>2. CASE u = t /\ state[t] \in {"BLOCKED", "SLEEPING"}
    <3>0. ~Cur(u)
      BY <1>t, <2>2 DEF Placed, On, Cur
    <3>1. state'[u] = "READY"
      <4>1. state' = [state EXCEPT ![t] = "READY"]
        BY <1>13, <2>2 DEF Unblock, Wake, Pending
      <4> QED BY <1>t, <2>2, <4>1 DEF TypeOK
    <3>2. Phase(u) \in {"BLOCKED", "SLEEPING"} /\ Phase(u)' = "ready"
      BY <2>0, <2>2, <3>0, <3>1 DEF Phase, Cur
    <3> QED BY <3>2, MoveStep DEF PhaseStep
  <2>3. CASE u = t /\ state[t] \in Pending
    <3>1. /\ state' = state
          /\ unblock_pending' = [unblock_pending EXCEPT ![t] = TRUE]
      BY <1>13, <2>3 DEF Unblock, Wake, Pending
    <3>2. \/ Phase(u) = "pending" /\ Phase(u)' = "pendingWoken"
          \/ Phase(u) = "dozing" /\ Phase(u)' = "dozingWoken"
          \/ Phase(u)' = Phase(u)
      BY <1>t, <2>3, <3>1 DEF Pending, TypeOK, Phase
    <3> QED BY <3>2, MoveStep DEF PhaseStep
  <2>4. CASE u = t /\ state[t] = "RUNNING"
    <3>1. Phase(u) = "RUNNING" /\ Phase(u)' = "token"
      BY <1>13, <1>t, <2>0, <2>4 DEF Unblock, Wake, Pending, TypeOK, Placed, Phase
    <3> QED BY <3>1, MoveStep DEF PhaseStep
  <2>5. CASE state[t] \in {"READY", "DYING", "ZOMBIE", "FREE"}
    BY <1>0, <1>13, <2>5 DEF Unblock, Wake, Pending
  <2> QED BY <1>13, <2>1, <2>2, <2>3, <2>4, <2>5 DEF Unblock, Wake
<1>14. ASSUME NEW c \in CPUs, NEW D \in SUBSET Threads, Expire(c, D)
       PROVE  \A u \in Threads : PhaseStep(u)
  <2>1. \A t \in D : state[t] = "SLEEPING"
    BY <1>14, <1>t DEF Expire, Placed
  <2>2. Enqueueable(D) = D
    BY <2>1 DEF Enqueueable
  <2> TAKE u \in Threads
  <2>3. CASE u \in D
    <3>1. ~Cur(u)
      BY <1>t, <2>1, <2>3 DEF Placed, On, Cur
    <3>2. Phase(u) = "SLEEPING" /\ Phase(u)' = "ready"
      BY <1>14, <2>1, <2>2, <2>3, <3>1 DEF Expire, Phase, Cur
    <3> QED BY <3>2, MoveStep DEF PhaseStep
  <2>4. CASE u \notin D
    BY <1>14, <2>2, <2>4, PhaseSame DEF Expire, Cur, PhaseStep
  <2> QED BY <2>3, <2>4
<1>15. ASSUME NEW c \in CPUs, BalancePull(c) \/ BalancePush(c)
       PROVE  \A u \in Threads : PhaseStep(u)
  BY <1>0, <1>15 DEF BalancePull, BalancePush
<1>16. ASSUME UNCHANGED vars PROVE \A u \in Threads : PhaseStep(u)
  BY <1>0, <1>16 DEF vars
<1> QED
  BY <1>1, <1>2, <1>3, <1>5, <1>8, <1>9, <1>10, <1>11, <1>12, <1>13, <1>14, <1>15,
     <1>16 DEF Next

(* The scheduler implements the blocking protocol for any number of CPUs and
   threads: sched_unblock() is never lost to a thread that is about to block. *)
THEOREM Refinement == Spec => ImplementsPark
<1>1. Init => P!Init
  BY DEF Init, P!Init, Phase
<1>2. IInv /\ [Next]_vars => [P!Next]_([t \in Threads |-> Phase(t)])
  <2> SUFFICES ASSUME IInv, [Next]_vars
               PROVE  P!Next
    OBVIOUS
  <2> QED BY StepPark DEF P!Next, PhaseStep
<1> QED BY <1>1, <1>2, Invariant, PTL DEF Spec, ImplementsPark, P!Spec

----------------------------------------------------------------------------
(* WAIT QUEUES

   The wait queue uses the scheduler only through its own operations, except
   that its user threads may be killed.  Without a kill every behaviour of
   WSpec is one of the scheduler's (UsesScheduler) and all that is proved above
   holds under the wait queue too; with kills, what is left of it is SInv, as
   long as no zombie is on a CPU (ZombieOffCPU).

   That a parked thread is queued is not inductive: it rests on what holds
   between the insertion and the block, when a waker that unlinks the entry
   must leave its READY mark on a thread that is still running (Waiting). *)

(* Each thread is queued once, while it is between its two locked sections. *)
Queued ==
    /\ IsInjective(wq)
    /\ \A t \in Range(wq) : wpc[t] \in {"block", "remove"}

(* No thread inside its wait has been left by its CPU except by its block or
   sleep, and one that is about to block is queued or will not be parked. *)
Waiting ==
    \A t \in Threads :
        /\ state[t] = "FREE" => wpc[t] = "out"
        /\ wpc[t] \in {"test", "insert", "block"} => Cur(t)
        /\ wpc[t] = "block" => t \in Range(wq) \/ state[t] \in {"READY", "DYING"}

WakerAwake == waking # None => Awake(waking)

WIInv == WTypeOK /\ SInv /\ Queued /\ Waiting /\ ParkedIsQueued /\ WakerAwake

LEMMA InitWIInv == WInit => WIInv
<1> SUFFICES ASSUME WInit PROVE WIInv
  OBVIOUS
<1>1. SInv
  BY InitIInv, Weaker DEF WInit
<1>2. WTypeOK
  BY <1>1, EmptySeq DEF WInit, WTypeOK, SInv
<1>3. Range(wq) = {} /\ IsInjective(wq)
  BY EmptySeq DEF WInit, Range, IsInjective
<1>4. Queued /\ Waiting /\ ParkedIsQueued /\ WakerAwake
  BY <1>3 DEF WInit, Init, Queued, Waiting, ParkedIsQueued, WakerAwake
<1> QED BY <1>1, <1>2, <1>4 DEF WIInv

AKill == \E c \in CPUs, t \in Threads : KillThread(c, t)

(* What the scheduler's part of a step is. *)
LEMMA SchedulerStep == WIInv /\ [WNext]_waitvars => [Next]_vars \/ AKill
<1> SUFFICES ASSUME WIInv, [WNext]_waitvars PROVE [Next]_vars \/ AKill
  OBVIOUS
<1>1. ASSUME NEW c \in CPUs, NEW t \in Threads,
             Issue(c, t) \/ Test(c, t) \/ Insert(c, t) \/ Unlink(c, t)
      PROVE  UNCHANGED vars
  BY <1>1 DEF Issue, Test, Insert, Unlink
<1>2. ASSUME NEW c \in CPUs, NEW t \in Threads, BlockOn(c, t) PROVE Next
  BY <1>2 DEF BlockOn, Next
<1>3. ASSUME NEW c \in CPUs, NEW t \in Threads, SleepOn(c, t) PROVE Next \/ UNCHANGED vars
  BY <1>3 DEF SleepOn, Next
<1>4. ASSUME NEW c \in CPUs, WakeAllEnter(c) \/ WakeAllLeave(c) PROVE UNCHANGED vars
  BY <1>4 DEF WakeAllEnter, WakeAllLeave
<1>5. ASSUME NEW c \in CPUs, WakeAllPop(c) \/ WakeUp(c) PROVE Next
  <2>1. Head(wq) \in Threads
    BY <1>5, HeadTailProperties DEF WIInv, WTypeOK, WakeAllPop, WakeUp
  <2>2. Awake(c)
    BY <1>5, NoneIsNoCPU DEF WIInv, WTypeOK, WakerAwake, WakeAllPop, WakeUp
  <2>3. Unblock(c, Head(wq))
    BY <1>5, <2>2 DEF Unblock, WakeAllPop, WakeUp
  <2> QED BY <2>1, <2>3 DEF Next
<1>6. ASSUME NEW c \in CPUs, SchedStep(c) PROVE Next
  BY <1>6 DEF SchedStep, Next
<1>7. ASSUME NEW t \in Threads, Finish(t) \/ Deadline(t) PROVE UNCHANGED vars
  BY <1>7 DEF Finish, Deadline
<1>8. ASSUME NEW c \in CPUs, NEW t \in Threads, CatchSignal(c, t) PROVE Next
  <2>1. Unblock(c, t)
    BY <1>8 DEF CatchSignal, Unblock
  <2> QED BY <2>1 DEF Next
<1> QED
  BY <1>1, <1>2, <1>3, <1>4, <1>5, <1>6, <1>7, <1>8 DEF WNext, waitvars, AKill

LEMMA NoKill == Users = {} => ~AKill
  BY DEF AKill, KillThread

(* A kill keeps the invariant of the scheduler, as long as it does not make a
   zombie of a thread that some CPU has. *)
LEMMA KillSInv ==
  ASSUME SInv, NEW c \in CPUs, NEW t \in Threads, KillThread(c, t), ZombieOffCPU'
  PROVE  SInv'
<1> USE SentinelsDistinct
<1>t. TypeOK /\ StackExclusive /\ PlacedOrDying /\ Handover
  BY DEF SInv
<1>0. /\ UNCHANGED <<unblock_pending, current, prev, hand>>
      /\ rq' \subseteq rq
      /\ \A u \in Threads : u # t =>
            /\ state'[u] = state[u]
            /\ tree'[u] = tree[u] /\ hr'[u] = hr[u]
            /\ u \in rq' <=> u \in rq
  BY <1>t DEF KillThread, TypeOK
<1>1. TypeOK'
  BY <1>t DEF KillThread, TypeOK, States, Unlinked
<1>2. StackExclusive'
  BY <1>t, <1>0 DEF StackExclusive, On
<1>3. CASE state[t] \in {"BLOCKED", "SLEEPING", "READY"}
  <2>1. state'[t] = "ZOMBIE" /\ t \notin rq'
    BY <1>t, <1>3 DEF KillThread, TypeOK, Pending
  <2>2. \A d \in CPUs : ~On(t, d)
    BY <1>0, <2>1 DEF ZombieOffCPU, On
  <2>3. tree'[t] = "none"
    BY <1>t, <1>3 DEF KillThread, TypeOK, PlacedOrDying, Unlinked, Pending
  <2>4. PlacedOrDying'
    <3> SUFFICES ASSUME NEW u \in Threads PROVE PlacedOrDying!(u)'
      BY DEF PlacedOrDying
    <3>1. CASE u = t
      BY <1>0, <2>1, <2>2, <2>3, <3>1 DEF On, Pending
    <3>2. CASE u # t
      <4>1. /\ state'[u] = state[u] /\ tree'[u] = tree[u] /\ hr'[u] = hr[u]
            /\ unblock_pending'[u] = unblock_pending[u]
            /\ u \in rq' <=> u \in rq
        BY <1>0, <3>2
      <4>2. \A d \in CPUs : /\ On(u, d)' <=> On(u, d)
                            /\ prev'[d] = prev[d] /\ current'[d] = current[d]
        BY <1>0 DEF On
      <4>3. PlacedOrDying!(u)
        BY <1>t DEF PlacedOrDying
      <4> QED BY <4>1, <4>2, <4>3
    <3> QED BY <3>1, <3>2
  <2>5. Handover'
    <3> SUFFICES ASSUME NEW d \in CPUs PROVE Handover!(d)'
      BY DEF Handover
    <3>1. hand[d] \in Threads => state'[hand[d]] = state[hand[d]]
      BY <1>0, <2>2 DEF On
    <3> QED BY <1>t, <1>0, <3>1 DEF Handover
  <2> QED BY <1>1, <1>2, <2>4, <2>5 DEF SInv
<1>4. CASE state[t] \in Pending \cup {"RUNNING"}
  <2>1. state'[t] = "DYING" /\ UNCHANGED <<hr, tree, rq>>
    BY <1>t, <1>4 DEF KillThread, TypeOK, Pending
  <2>2. PlacedOrDying'
    <3> SUFFICES ASSUME NEW u \in Threads PROVE PlacedOrDying!(u)'
      BY DEF PlacedOrDying
    <3>1. CASE u = t
      BY <1>t, <1>0, <1>4, <2>1, <3>1 DEF PlacedOrDying, Pending
    <3>2. CASE u # t
      <4>1. /\ state'[u] = state[u] /\ tree'[u] = tree[u] /\ hr'[u] = hr[u]
            /\ unblock_pending'[u] = unblock_pending[u]
            /\ u \in rq' <=> u \in rq
        BY <1>0, <3>2
      <4>2. \A d \in CPUs : /\ On(u, d)' <=> On(u, d)
                            /\ prev'[d] = prev[d] /\ current'[d] = current[d]
        BY <1>0 DEF On
      <4>3. PlacedOrDying!(u)
        BY <1>t DEF PlacedOrDying
      <4> QED BY <4>1, <4>2, <4>3
    <3> QED BY <3>1, <3>2
  <2>3. Handover'
    <3> SUFFICES ASSUME NEW d \in CPUs PROVE Handover!(d)'
      BY DEF Handover
    <3>1. Handover!(d)
      BY <1>t DEF Handover
    <3>2. hand[d] \in Threads => state'[hand[d]] = state[hand[d]]
      BY <1>0, <1>4, <3>1 DEF Pending
    <3> QED BY <1>0, <3>1, <3>2
  <2> QED BY <1>1, <1>2, <2>2, <2>3 DEF SInv
<1> QED BY <1>3, <1>4 DEF KillThread

(* What a step that leaves the queue alone may do to a thread without
   disturbing what is known of its wait. *)
Undisturbed(u) ==
    /\ wpc'[u] = wpc[u]
    /\ state'[u] = "FREE" => state[u] = "FREE"
    /\ wpc[u] # "out" /\ Cur(u) => Cur(u)'
    /\ wpc[u] # "out" /\ Cur(u) /\ state[u] \in {"READY", "DYING"} => state'[u] \in {"READY", "DYING"}
    /\ Parked(u)' => Parked(u)

(* The two parts of the invariant that are about one thread. *)
WaitOK(u) ==
    /\ state[u] = "FREE" => wpc[u] = "out"
    /\ wpc[u] \in {"test", "insert", "block"} => Cur(u)
    /\ wpc[u] = "block" => u \in Range(wq) \/ state[u] \in {"READY", "DYING"}
    /\ wpc[u] = "remove" /\ Parked(u) => u \in Range(wq)

LEMMA WaitOKAll ==
  /\ (Waiting /\ ParkedIsQueued) <=> \A u \in Threads : WaitOK(u)
  /\ (Waiting /\ ParkedIsQueued)' <=> \A u \in Threads : WaitOK(u)'
  BY DEF Waiting, ParkedIsQueued, WaitOK, Parked

LEMMA UndisturbedOK ==
  ASSUME NEW u \in Threads, WaitOK(u), Undisturbed(u), Range(wq) \subseteq Range(wq)'
  PROVE  WaitOK(u)'
  BY DEF WaitOK, Undisturbed

(* A switch takes the CPU from its current thread and disturbs no other. *)
LEMMA SwitchOthers ==
  ASSUME SInv, NEW c \in CPUs, Awake(c), NEW s, Switch(c, s), wpc' = wpc \/ WGoto(current[c], "remove"),
         wpc \in [Threads -> {"out", "test", "insert", "block", "remove"}],
         \A u \in Threads : u # current[c] => unblock_pending'[u] = unblock_pending[u],
         NEW u \in Threads, u # current[c], WaitOK(u)
  PROVE  Undisturbed(u)
<1> USE SentinelsDistinct
<1>1. PICK next \in Dequeue \ {current[c]} :
        /\ state' = [t \in Threads |-> IF t = next THEN "RUNNING"
                                       ELSE IF t = current[c] THEN s ELSE state[t]]
        /\ current' = [current EXCEPT ![c] = next]
  BY DEF Switch
<1>2. next = u => ~Cur(u)
  BY <1>1 DEF SInv, Dequeue, StackExclusive, On, Cur
<1>3. Cur(u) => Cur(u)'
  BY <1>1 DEF Cur, SInv, TypeOK
<1>4. state'[u] = IF u = next THEN "RUNNING" ELSE state[u]
  BY <1>1 DEF SInv, TypeOK
<1>5. wpc'[u] = wpc[u]
  BY DEF WGoto
<1> QED
  BY <1>2, <1>3, <1>4, <1>5 DEF Undisturbed, Parked, WaitOK

LEMMA NextWIInv == WIInv /\ [WNext]_waitvars /\ (Users = {} \/ ZombieOffCPU') => WIInv'
<1> SUFFICES ASSUME WIInv, [WNext]_waitvars, Users = {} \/ ZombieOffCPU' PROVE WIInv'
  OBVIOUS
<1> USE SentinelsDistinct, NoneIsNoCPU
<1>a. WTypeOK /\ SInv /\ Queued /\ Waiting /\ ParkedIsQueued /\ WakerAwake
  BY DEF WIInv
<1>b. SInv' /\ TypeOK'
  BY <1>a, SchedulerStep, NextSInv, KillSInv, NoKill DEF SInv, AKill
<1>c. TypeOK /\ StackExclusive /\ PlacedOrDying /\ Handover
  BY <1>a DEF SInv
<1>0. ASSUME UNCHANGED <<vars, wq, wpc, waking>>, cond' \in [Threads -> BOOLEAN],
             late' \in [Threads -> BOOLEAN], irq' \in BOOLEAN
      PROVE  WIInv'
  BY <1>0, <1>a, <1>b
     DEF vars, WIInv, WTypeOK, Queued, Waiting, ParkedIsQueued, WakerAwake, Awake, Busy, Cur
<1>1. ASSUME NEW c \in CPUs, NEW t \in Threads, Issue(c, t) PROVE WIInv'
  <2>1. WTypeOK'
    BY <1>1, <1>a, <1>b DEF Issue, WGoto, WTypeOK
  <2>2. Queued' /\ WakerAwake'
    BY <1>1, <1>a DEF Issue, WAt, WGoto, vars, WTypeOK, Queued, WakerAwake, Awake, Busy
  <2>3. Waiting' /\ ParkedIsQueued'
    BY <1>1, <1>a, CurrentSState DEF Issue, WAt, WGoto, vars, WTypeOK, Waiting, ParkedIsQueued, Cur
  <2> QED BY <1>b, <2>1, <2>2, <2>3 DEF WIInv
<1>2. ASSUME NEW c \in CPUs, NEW t \in Threads, Test(c, t) PROVE WIInv'
  BY <1>2, <1>a, <1>b
     DEF Test, WAt, WGoto, vars, WIInv, WTypeOK, Queued, Waiting, ParkedIsQueued, WakerAwake,
         Awake, Busy, Cur
<1>3. ASSUME NEW c \in CPUs, NEW t \in Threads, Insert(c, t) PROVE WIInv'
  <2>1. t \notin Range(wq) /\ wpc[t] = "insert" /\ current[c] = t
    BY <1>3, <1>a DEF Insert, WAt, Queued
  <2>2. wq' \in Seq(Threads) /\ IsInjective(wq') /\ Range(wq') = Range(wq) \cup {t}
    BY <1>3, <1>a, <2>1, AppendFacts DEF Insert, WTypeOK, Queued
  <2> QED
    BY <1>3, <1>a, <1>b, <2>1, <2>2
       DEF Insert, WAt, WGoto, vars, WIInv, WTypeOK, Queued, Waiting, ParkedIsQueued, WakerAwake,
           Awake, Busy, Cur
<1>4. ASSUME NEW c \in CPUs, NEW t \in Threads, Unlink(c, t) PROVE WIInv'
  <2>0. wpc[t] = "remove" /\ current[c] = t /\ state[t] \in {"RUNNING", "READY", "DYING"}
    BY <1>4, <1>a, CurrentSState DEF Unlink, WAt
  <2>1. wq' \in Seq(Threads) /\ IsInjective(wq') /\ t \notin Range(wq')
    BY <1>4, <1>a, RemoveAtFacts DEF Unlink, WTypeOK, Queued
  <2>2. Range(wq) \subseteq Range(wq') \cup {t} /\ Range(wq') \subseteq Range(wq)
    BY <1>4, <1>a, RemoveAtFacts DEF Unlink, WTypeOK, Queued
  <2>3. wpc' = [wpc EXCEPT ![t] = "test"] /\ UNCHANGED <<vars, cond, late, irq, waking>>
    BY <1>4 DEF Unlink, WGoto
  <2>4. WTypeOK'
    BY <1>a, <1>b, <2>1, <2>3 DEF WTypeOK
  <2>5. Queued'
    BY <1>a, <2>1, <2>2, <2>3 DEF Queued, WTypeOK
  <2>6. Waiting'
    BY <1>a, <2>0, <2>2, <2>3 DEF Waiting, WTypeOK, vars, Cur
  <2>7. ParkedIsQueued' /\ WakerAwake'
    BY <1>a, <2>0, <2>2, <2>3 DEF ParkedIsQueued, WakerAwake, WTypeOK, vars, Awake, Busy
  <2> QED
    BY <1>b, <2>4, <2>5, <2>6, <2>7 DEF WIInv
<1>d. \A u \in Threads : WaitOK(u)
  BY <1>a, WaitOKAll
<1>5. ASSUME NEW c \in CPUs, NEW t \in Threads, BlockOn(c, t) PROVE WIInv'
  <2>0. /\ wpc[t] = "block" /\ current[c] = t /\ waking # c /\ Awake(c)
        /\ wpc' = [wpc EXCEPT ![t] = "remove"]
        /\ UNCHANGED <<wq, cond, late, irq, waking>>
        /\ Block(c, FALSE)
    BY <1>5 DEF BlockOn, WAt, WGoto
  <2>1. /\ state[t] \in {"RUNNING", "READY", "DYING"}
        /\ unblock_pending[t] => state[t] = "DYING"
    BY <1>a, <2>0, CurrentSState
  <2>2. WTypeOK' /\ Queued'
    BY <1>a, <1>b, <2>0 DEF WTypeOK, Queued
  <2>3. CASE state[t] = "READY"
    <3>1. Abort(c)
      BY <2>0, <2>3 DEF Block
    <3>2. \A u \in Threads : u # t => Undisturbed(u)
      BY <1>c, <1>d, <2>0, <3>1 DEF Abort, TypeOK, Undisturbed, Parked, Cur, WTypeOK, WaitOK
    <3>3. WaitOK(t)'
      BY <1>c, <2>0, <2>3, <3>1, <1>a DEF Abort, TypeOK, Parked, Cur, WTypeOK, WaitOK
    <3>4. \A u \in Threads : WaitOK(u)'
      BY <1>d, <2>0, <3>2, <3>3, UndisturbedOK
    <3>5. WakerAwake'
      BY <1>a, <2>0, <3>1 DEF WakerAwake, Abort, Awake, Busy
    <3> QED BY <1>b, <2>2, <3>4, <3>5, WaitOKAll DEF WIInv
  <2>4. CASE state[t] \in {"RUNNING", "DYING"}
    <3>1. PICK s \in {"BLOCKED_PENDING", "DYING"} :
            /\ Switch(c, s)
            /\ s = "BLOCKED_PENDING" => state[t] = "RUNNING"
            /\ \A u \in Threads : u # t => unblock_pending'[u] = unblock_pending[u]
      BY <1>c, <2>0, <2>1, <2>4 DEF Block, Commit, Unless, TypeOK
    <3>2. \A u \in Threads : u # t => Undisturbed(u)
      BY <1>a, <1>c, <1>d, <2>0, <3>1, SwitchOthers DEF TypeOK, WTypeOK, WGoto
    <3>3. state'[t] = s /\ (s = "BLOCKED_PENDING" => t \in Range(wq))
      BY <1>c, <1>d, <2>0, <2>4, <3>1 DEF Switch, WaitOK
    <3>4. WaitOK(t)'
      BY <1>a, <2>0, <3>3 DEF WaitOK, WTypeOK, Parked
    <3>5. \A u \in Threads : WaitOK(u)'
      BY <1>d, <2>0, <3>2, <3>4, UndisturbedOK
    <3>6. WakerAwake'
      BY <1>a, <1>c, <2>0, <3>1 DEF WakerAwake, WTypeOK, Switch, Awake, Busy, TypeOK
    <3> QED BY <1>b, <2>2, <3>5, <3>6, WaitOKAll DEF WIInv
  <2> QED BY <2>1, <2>3, <2>4
<1>6. ASSUME NEW c \in CPUs, NEW t \in Threads, SleepOn(c, t) PROVE WIInv'
  <2>0. /\ wpc[t] = "block" /\ current[c] = t /\ waking # c /\ Awake(c)
        /\ wpc' = [wpc EXCEPT ![t] = "remove"]
        /\ UNCHANGED <<wq, cond, late, irq, waking>>
        /\ \/ UNCHANGED vars
           \/ \E h \in BOOLEAN : Sleep(c, FALSE, h)
           \/ Yield(c)
    BY <1>6 DEF SleepOn, WAt, WGoto
  <2>1. /\ state[t] \in {"RUNNING", "READY", "DYING"}
        /\ unblock_pending[t] => state[t] = "DYING"
    BY <1>a, <2>0, CurrentSState
  <2>2. WTypeOK' /\ Queued'
    BY <1>a, <1>b, <2>0 DEF WTypeOK, Queued
  <2>3. CASE UNCHANGED vars
    <3>1. \A u \in Threads : u # t => Undisturbed(u)
      BY <1>a, <1>d, <2>0, <2>3 DEF vars, Undisturbed, Parked, Cur, WTypeOK, WaitOK
    <3>2. WaitOK(t)'
      BY <1>a, <2>0, <2>1, <2>3 DEF vars, Parked, WTypeOK, WaitOK
    <3>3. WakerAwake'
      BY <1>a, <2>0, <2>3 DEF vars, WakerAwake, Awake, Busy
    <3>4. \A u \in Threads : WaitOK(u)'
      BY <1>d, <2>0, <3>1, <3>2, UndisturbedOK
    <3> QED BY <1>b, <2>2, <3>3, <3>4, WaitOKAll DEF WIInv
  <2>4. CASE (\E h \in BOOLEAN : Sleep(c, FALSE, h)) \/ Yield(c)
    <3>1. PICK s \in {"SLEEPING_PENDING", "READY", "DYING"} :
            /\ Switch(c, s)
            /\ \A u \in Threads : unblock_pending'[u] => unblock_pending[u]
            /\ \A u \in Threads : u # t => unblock_pending'[u] = unblock_pending[u]
      <4>1. PICK s \in {"SLEEPING_PENDING", "READY", "DYING"} : Switch(c, s)
        BY <2>0, <2>4 DEF Sleep, Commit, Yield, Unless
      <4>2. /\ \A u \in Threads : unblock_pending'[u] => unblock_pending[u]
            /\ \A u \in Threads : u # t => unblock_pending'[u] = unblock_pending[u]
        <5>1. CASE Yield(c)
          BY <5>1 DEF Yield
        <5>2. ASSUME NEW h \in BOOLEAN, Sleep(c, FALSE, h) PROVE <4>2!1 /\ <4>2!2
          <6>1. unblock_pending' = [unblock_pending EXCEPT
                    ![t] = IF state[t] = "DYING" THEN @ ELSE FALSE]
            BY <2>0, <5>2 DEF Sleep, Commit
          <6> QED BY <1>c, <6>1 DEF TypeOK
        <5> QED BY <2>4, <5>1, <5>2
      <4> QED BY <4>1, <4>2
    <3>2. \A u \in Threads : u # t => Undisturbed(u)
      BY <1>a, <1>c, <1>d, <2>0, <3>1, SwitchOthers DEF WTypeOK, WGoto
    <3>3. state'[t] = s
      BY <2>0, <3>1 DEF Switch
    <3>4. WaitOK(t)'
      BY <1>a, <2>0, <3>3 DEF WaitOK, WTypeOK, Parked
    <3>5. \A u \in Threads : WaitOK(u)'
      BY <1>d, <2>0, <3>2, <3>4, UndisturbedOK
    <3>6. WakerAwake'
      BY <1>a, <1>c, <2>0, <3>1 DEF WakerAwake, WTypeOK, Switch, Awake, Busy, TypeOK
    <3> QED BY <1>b, <2>2, <3>5, <3>6, WaitOKAll DEF WIInv
  <2> QED BY <2>0, <2>3, <2>4
<1>7. ASSUME NEW c \in CPUs, WakeAllEnter(c) \/ WakeAllLeave(c) PROVE WIInv'
  <2>1. WTypeOK' /\ Queued'
    BY <1>7, <1>a, <1>b DEF WakeAllEnter, WakeAllLeave, WTypeOK, Queued
  <2>2. Waiting' /\ ParkedIsQueued'
    BY <1>7, <1>a DEF WakeAllEnter, WakeAllLeave, vars, Waiting, ParkedIsQueued, Cur
  <2>3. WakerAwake'
    BY <1>7, <1>a DEF WakeAllEnter, WakeAllLeave, vars, WakerAwake, Awake, Busy
  <2> QED BY <1>b, <2>1, <2>2, <2>3 DEF WIInv
<1>8. ASSUME NEW c \in CPUs, WakeAllPop(c) \/ WakeUp(c) PROVE WIInv'
  <2>h. PICK t \in Threads : t = Head(wq)
    BY <1>8, <1>a, HeadTailProperties DEF WakeAllPop, WakeUp, WTypeOK
  <2>0. /\ wq # <<>> /\ wq' = Tail(wq) /\ Wake(t)
        /\ UNCHANGED <<current, prev, hand, wpc, cond, late, irq, waking>>
    BY <1>8, <2>h DEF WakeAllPop, WakeUp
  <2>1. /\ wq' \in Seq(Threads) /\ IsInjective(wq')
        /\ Range(wq) = Range(wq') \cup {t} /\ t \notin Range(wq')
        /\ wpc[t] \in {"block", "remove"}
    BY <1>a, <2>0, <2>h, TailFacts DEF WTypeOK, Queued
  <2>2. WTypeOK' /\ Queued' /\ WakerAwake'
    BY <1>a, <1>b, <2>0, <2>1 DEF WTypeOK, Queued, WakerAwake, Awake, Busy
  <2>3. \A u \in Threads : u # t => /\ state'[u] = state[u]
                                    /\ unblock_pending'[u] = unblock_pending[u]
    BY <1>c, <2>0, <2>1 DEF Wake, TypeOK
  <2>4. \A u \in Threads : u # t => WaitOK(u)'
    BY <1>d, <2>0, <2>1, <2>3 DEF WaitOK, Parked, Cur
  <2>5. state'[t] # "FREE" /\ ~Parked(t)'
    BY <1>c, <1>d, <2>0, <2>1 DEF Wake, TypeOK, States, Pending, WaitOK, Parked
  <2>6. wpc[t] = "block" => state'[t] \in {"READY", "DYING"}
    <3>1. wpc[t] = "block" => state[t] \in {"RUNNING", "READY", "DYING"}
      BY <1>a, <1>d, <2>1, CurrentSState DEF WaitOK, Cur
    <3> QED BY <1>c, <2>0, <2>1, <3>1 DEF Wake, TypeOK, Pending
  <2>7. WaitOK(t)'
    BY <1>d, <2>0, <2>1, <2>5, <2>6 DEF WaitOK, Cur
  <2> QED BY <1>b, <2>2, <2>4, <2>7, WaitOKAll DEF WIInv
<1>9. ASSUME NEW c \in CPUs, SchedStep(c) PROVE WIInv'
  <2>0. waking # c /\ UNCHANGED <<wq, wpc, cond, late, irq, waking>>
    BY <1>9 DEF SchedStep, wvars
  <2>1. WTypeOK' /\ Queued'
    BY <1>a, <1>b, <2>0 DEF WTypeOK, Queued
  <2>2. ASSUME StartPick(c) PROVE WakerAwake' /\ \A u \in Threads : Undisturbed(u)
    BY <1>a, <1>c, <1>d, <2>0, <2>2
       DEF StartPick, TypeOK, WTypeOK, WakerAwake, Awake, Busy, Undisturbed, Parked, Cur, WaitOK
  <2>3. ASSUME StartRun(c) PROVE WakerAwake' /\ \A u \in Threads : Undisturbed(u)
    <3>1. hand[c] \in Threads => ~Cur(hand[c])
      BY <1>c, <2>3 DEF StartRun, StackExclusive, On, Cur
    <3>2. WakerAwake'
      BY <1>a, <1>c, <2>0, <2>3 DEF StartRun, TypeOK, WTypeOK, WakerAwake, Awake, Busy
    <3>3. \A u \in Threads : Undisturbed(u)
      BY <1>a, <1>c, <1>d, <2>0, <2>3, <3>1
         DEF StartRun, TypeOK, WTypeOK, Undisturbed, Parked, Cur, WaitOK
    <3> QED BY <3>2, <3>3
  <2>4. ASSUME NEW t \in Threads, Create(c, t)
        PROVE  WakerAwake' /\ \A u \in Threads : Undisturbed(u)
    BY <1>a, <1>c, <1>d, <2>0, <2>4
       DEF Create, TypeOK, WTypeOK, WakerAwake, Awake, Busy, Undisturbed, Parked, Cur, WaitOK
  <2>5. ASSUME Yield(c), current[c] \in Threads => wpc[current[c]] = "out"
        PROVE  WakerAwake' /\ \A u \in Threads : Undisturbed(u)
    <3>1. PICK s \in {"READY", "DYING"} : Switch(c, s) /\ Awake(c) /\ UNCHANGED unblock_pending
      BY <2>5 DEF Yield, Unless
    <3>2. WakerAwake'
      BY <1>a, <1>c, <2>0, <3>1 DEF Switch, TypeOK, WTypeOK, WakerAwake, Awake, Busy
    <3>3. \A u \in Threads : u # current[c] => Undisturbed(u)
      BY <1>a, <1>d, <2>0, <3>1, SwitchOthers DEF WTypeOK
    <3>4. \A u \in Threads : u = current[c] => Undisturbed(u)
      BY <2>0, <2>5, <3>1 DEF Switch, Undisturbed, Parked
    <3> QED BY <3>2, <3>3, <3>4
  <2>6. ASSUME YieldKeep(c), current[c] \in Threads => wpc[current[c]] = "out"
        PROVE  WakerAwake' /\ \A u \in Threads : Undisturbed(u)
    BY <1>a, <1>c, <1>d, <2>0, <2>6
       DEF YieldKeep, TypeOK, WTypeOK, WakerAwake, Awake, Busy, Undisturbed, Parked, Cur, WaitOK
  <2>7. ASSUME NEW due \in BOOLEAN, PostSwitch(c, due)
        PROVE  WakerAwake' /\ \A u \in Threads : Undisturbed(u)
    <3>1. WakerAwake'
      BY <1>a, <1>c, <2>0, <2>7 DEF PostSwitch, TypeOK, WTypeOK, WakerAwake, Awake, Busy
    <3>2. CASE prev[c] = Idle
      BY <1>a, <1>c, <1>d, <2>0, <2>7, <3>1, <3>2
         DEF PostSwitch, Undisturbed, Parked, Cur, WaitOK
    <3>3. CASE prev[c] # Idle
      <4>0. PICK t \in Threads : t = prev[c]
        BY <1>c, <2>7, <3>3 DEF PostSwitch, TypeOK
      <4>1. /\ ~Cur(t)
            /\ state[t] \in {"READY", "DYING"} \cup Pending
            /\ SettleThread(t, due) /\ UNCHANGED current
        BY <1>a, <1>c, <1>d, <2>7, <3>3, <4>0, PrevState
           DEF PostSwitch, TypeOK, StackExclusive, On, Cur, WaitOK
      <4>2. \A u \in Threads : u # t => Undisturbed(u)
        BY <1>c, <1>d, <2>0, <4>1 DEF SettleThread, TypeOK, Undisturbed, Parked, Cur, WaitOK
      <4>3. state'[t] = Settled(t, due)
        BY <1>c, <4>1 DEF SettleThread, TypeOK
      <4>4. Undisturbed(t)
        BY <2>0, <4>1, <4>3 DEF Settled, Undisturbed, Parked, Pending, Cur
      <4> QED BY <3>1, <4>2, <4>4
    <3> QED BY <3>2, <3>3
  <2>8. ASSUME NEW D \in SUBSET Threads, Expire(c, D)
        PROVE  WakerAwake' /\ \A u \in Threads : Undisturbed(u)
    <3>1. \A t \in D : state[t] = "SLEEPING" /\ ~Cur(t)
      BY <1>c, <2>8 DEF Expire, PlacedOrDying, On, Cur
    <3>2. Enqueueable(D) = D
      BY <3>1 DEF Enqueueable
    <3> QED
      BY <1>a, <1>c, <1>d, <2>0, <2>8, <3>1, <3>2
         DEF Expire, TypeOK, WakerAwake, Awake, Busy, Undisturbed, Parked, Cur, WaitOK
  <2>9. WakerAwake' /\ \A u \in Threads : Undisturbed(u)
    BY <1>9, <2>2, <2>3, <2>4, <2>5, <2>6, <2>7, <2>8 DEF SchedStep
  <2>10. \A u \in Threads : WaitOK(u)'
    BY <1>d, <2>0, <2>9, UndisturbedOK
  <2> QED BY <1>b, <2>1, <2>9, <2>10, WaitOKAll DEF WIInv
<1>10. ASSUME NEW t \in Threads, Finish(t) \/ Deadline(t) PROVE WIInv'
  BY <1>0, <1>10, <1>a DEF Finish, Deadline, WTypeOK
<1>11. ASSUME UNCHANGED waitvars PROVE WIInv'
  BY <1>0, <1>11, <1>a DEF waitvars, wvars, WTypeOK
<1>12. ASSUME NEW c \in CPUs, NEW t \in Threads, KillThread(c, t) PROVE WIInv'
  <2>0. /\ UNCHANGED <<unblock_pending, current, prev, hand, wq, wpc, cond, late, irq, waking>>
        /\ state'[t] \in {"ZOMBIE", "DYING"}
        /\ \A u \in Threads : u # t => state'[u] = state[u]
    BY <1>12, <1>c DEF KillThread, wvars, TypeOK
  <2>1. WTypeOK' /\ Queued' /\ WakerAwake'
    BY <1>a, <1>b, <2>0 DEF WTypeOK, Queued, WakerAwake, Awake, Busy
  <2>2. ZombieOffCPU'
    BY <1>12, NoKill DEF AKill
  <2>3. Cur(t) => state'[t] = "DYING"
    BY <2>0, <2>2 DEF ZombieOffCPU, On, Cur
  <2>4. \A u \in Threads : Undisturbed(u)
    BY <2>0, <2>3 DEF Undisturbed, Parked, Cur
  <2>5. \A u \in Threads : WaitOK(u)'
    BY <1>d, <2>0, <2>4, UndisturbedOK
  <2> QED BY <1>b, <2>1, <2>5, WaitOKAll DEF WIInv
<1>13. ASSUME NEW c \in CPUs, NEW t \in Threads, CatchSignal(c, t) PROVE WIInv'
  <2>0. /\ Wake(t) /\ state[t] \in {"BLOCKED", "SLEEPING"} \cup Pending
        /\ UNCHANGED <<current, prev, hand, wq, wpc, cond, late, irq, waking>>
    BY <1>13 DEF CatchSignal, wvars
  <2>1. WTypeOK' /\ Queued' /\ WakerAwake'
    BY <1>a, <1>b, <2>0 DEF WTypeOK, Queued, WakerAwake, Awake, Busy
  <2>2. \A u \in Threads : u # t => Undisturbed(u)
    BY <1>c, <2>0 DEF Wake, TypeOK, Undisturbed, Parked, Cur
  <2>3. /\ state'[t] \in {"READY"} \cup Pending
        /\ state'[t] \in Pending => unblock_pending'[t]
    BY <1>c, <2>0 DEF Wake, TypeOK, Pending
  <2>4. ~Cur(t)
    BY <1>c, <2>0, CurrentSState, <1>a DEF Cur, Pending
  <2>5. Undisturbed(t)
    BY <2>0, <2>3, <2>4 DEF Undisturbed, Parked, Pending
  <2>6. \A u \in Threads : WaitOK(u)'
    BY <1>d, <2>0, <2>2, <2>5, UndisturbedOK
  <2> QED BY <1>b, <2>1, <2>6, WaitOKAll DEF WIInv
<1> QED
  BY <1>1, <1>2, <1>3, <1>4, <1>5, <1>6, <1>7, <1>8, <1>9, <1>10, <1>11, <1>12, <1>13
     DEF WNext

LEMMA WInvariant == WSpec /\ []ZombieOffCPU => []WIInv
<1>1. WIInv /\ [WNext]_waitvars /\ ZombieOffCPU' => WIInv'
  BY NextWIInv
<1> QED BY InitWIInv, <1>1, PTL DEF WSpec

(* For any number of CPUs and threads, __wait_event_sleep() and its timeout
   form leave no entry behind when they return: what wake_up() finds queued is
   the entry of a thread that has not come out of its wait, queued once.  This
   is about returns, not about kills. *)
THEOREM EntriesBelongToWaiters == WSpec /\ []ZombieOffCPU => []EntriesOfWaiters
<1>1. WIInv => EntriesOfWaiters
  BY DEF WIInv, Queued, EntriesOfWaiters
<1> QED BY WInvariant, <1>1, PTL

(* For any number of CPUs and threads, a thread that sched_block() has parked
   in wait_event(), or is about to, can still be found by the wakers. *)
THEOREM ParkedStaysQueued == WSpec /\ []ZombieOffCPU => []ParkedIsQueued
<1>1. WIInv => ParkedIsQueued
  BY DEF WIInv
<1> QED BY WInvariant, <1>1, PTL

(* Killing waiters never puts a thread in the hands of two CPUs. *)
THEOREM WaitersKeepTheirStacks == WSpec /\ []ZombieOffCPU => []StackExclusive
<1>1. WIInv => StackExclusive
  BY DEF WIInv, SInv
<1> QED BY WInvariant, <1>1, PTL

(* For kernel threads, which are not killed, the wait queue is a client of the
   scheduler that adds no step to it: every behaviour of the threads that wait
   is a behaviour of Sched. *)
THEOREM UsesScheduler == Users = {} => (WSpec => Spec)
<1> SUFFICES ASSUME Users = {} PROVE WSpec => Spec
  OBVIOUS
<1>1. WInit => Init
  BY DEF WInit
<1>2. WIInv /\ [WNext]_waitvars => WIInv' /\ [Next]_vars
  BY NextWIInv, SchedulerStep, NoKill
<1> QED BY <1>1, <1>2, InitWIInv, PTL DEF WSpec, Spec

(* Hence the wait queue never lets two CPUs have one kernel thread, loses none,
   and keeps the blocking protocol of sched_block() and sched_unblock(). *)
THEOREM SchedulerKept ==
  Users = {} => (WSpec => [](StackExclusive /\ Placed) /\ ImplementsPark)
<1> SUFFICES ASSUME Users = {} PROVE WSpec => [](StackExclusive /\ Placed) /\ ImplementsPark
  OBVIOUS
<1>1. WSpec => Spec
  BY UsesScheduler
<1> QED BY <1>1, StackExclusion, NoThreadLost, Refinement, PTL

----------------------------------------------------------------------------
(* PROCESSES

   As long as no zombie is on a CPU (ZombieOffCPU, which the killing of a
   thread that runs with a wake-up mark breaks).

   None of the four properties is inductive.  A parked waiter is told of a
   dead child only if nobody can have taken its registration away without
   waking it (Registered, Seen), a wake-up is not lost only if a thread on a
   CPU is on no queue from which another CPU could run it (Where), and the
   reaper makes a zombie of a process without telling its parent, which is
   right because such a process is one already (ZombieProcs, Linked). *)

Live(t) == state[t] \notin {"ZOMBIE", "FREE"}

(* Where a thread may be: queued, on one CPU, or neither. *)
Where ==
    /\ \A c \in CPUs : hand[c] = None /\ current[c] # None
    /\ \A t \in Threads :
        /\ t \in rq => state[t] = "READY" /\ \A c \in CPUs : ~On(t, c)
        /\ \A c, d \in CPUs : On(t, c) /\ On(t, d) => c = d
        /\ \A c \in CPUs : current[c] # t \/ prev[c] # t
        /\ \A c \in CPUs : current[c] = t =>
               state[t] \in {"RUNNING", "READY", "DYING", "ZOMBIE", "FREE"}
        /\ state[t] \in {"BLOCKED", "SLEEPING"} => \A c \in CPUs : ~On(t, c)
        /\ tree[t] = (IF state[t] # "SLEEPING" THEN "none"
                      ELSE IF hr[t] THEN "hr" ELSE "tick")

(* A thread that has been detached to be freed is dead, and is on one list. *)
Detached ==
    \A h \in DOMAIN dead : \A t \in dead[h] :
        /\ state[t] = "ZOMBIE"
        /\ t \notin linked
        /\ \A g \in DOMAIN dead : t \in dead[g] => g = h

(* A thread that lives is in its process's list. *)
Linked == \A t \in Threads : Live(t) => t \in linked

(* A zombie is a process whose threads are all dead. *)
ZombieProcs ==
    \A p \in Procs :
        /\ is_zombie[p] => \A u \in ThreadsOf(p) : state[u] = "ZOMBIE"
        /\ ThreadsOf(p) # {} /\ (\A u \in ThreadsOf(p) : state[u] = "ZOMBIE") => is_zombie[p]

(* wait_thread names a live thread of the process that is in its wait. *)
Registered ==
    \A p \in Procs : \A t \in Threads : wait_thread[p] = t =>
        /\ ProcOf[t] = p
        /\ Live(t)
        /\ upc[t] \in {"wait", "woken"}

(* Between its registration and its block a thread stays on its CPU. *)
OnTheWay ==
    \A t \in Threads : upc[t] = "wait" /\ Live(t) => \E c \in CPUs : current[c] = t

(* A waiter that no wake-up has reached yet, before and after its block. *)
Listening(t) ==
    \/ upc[t] = "wait" /\ state[t] = "RUNNING"
    \/ upc[t] = "woken" /\ Parked(t)

Seen ==
    \A t \in Threads : Listening(t) =>
        /\ wait_thread[ProcOf[t]] = t
        /\ \A q \in Children(ProcOf[t]) :
              ~is_zombie[q] /\ (t \in world.untraced => ~cont_pending[q])

Given == world \in Worlds /\ \A p \in Procs : parent[p] # p

PInv == /\ PTypeOK /\ Given /\ Where
        /\ Detached /\ Linked /\ ZombieProcs /\ Registered /\ OnTheWay
        /\ Seen

----------------------------------------------------------------------------
(* What the scheduler's own steps do to the threads' states *)

(* No thread dies or is brought back. *)
Keeps(t) == (Live(t)' <=> Live(t)) /\ (state'[t] = "ZOMBIE" <=> state[t] = "ZOMBIE")

LEMMA SwitchWhere ==
  ASSUME PTypeOK, Where, ZombieOffCPU, NEW c \in CPUs, Awake(c),
         NEW s \in {"READY", "BLOCKED_PENDING", "SLEEPING_PENDING", "DYING"},
         Switch(c, s), tree' = tree,
         unblock_pending' \in [Threads -> BOOLEAN],
         hr' \in [Threads -> BOOLEAN],
         \A t \in Threads : t # current[c] => hr'[t] = hr[t]
  PROVE  /\ TypeOK' /\ Where'
         /\ \A t \in Threads : Keeps(t)
         /\ \A t \in Threads : \/ state'[t] = state[t]
                               \/ t = current[c] /\ state'[t] = s
                               \/ t \in rq /\ state'[t] = "RUNNING"
<1> USE SentinelsDistinct
<1>t. TypeOK
  BY DEF PTypeOK
<1>1. PICK next \in Dequeue \ {current[c]} :
        /\ state' = [t \in Threads |-> IF t = next THEN "RUNNING"
                                       ELSE IF t = current[c] THEN s ELSE state[t]]
        /\ rq' = rq \ {next}
        /\ prev' = [prev EXCEPT ![c] = current[c]]
        /\ current' = [current EXCEPT ![c] = next]
        /\ hand' = hand
  BY DEF Switch
<1>2. /\ current[c] # None /\ prev[c] = None
      /\ next \in Threads => next \in rq
      /\ next \in Threads \cup {Idle}
  BY <1>1, <1>t DEF Awake, Busy, Dequeue, TypeOK
<1>3. TypeOK'
  BY <1>1, <1>2, <1>t DEF TypeOK, States
<1>4. /\ \A d \in CPUs : /\ current'[d] = IF d = c THEN next ELSE current[d]
                         /\ prev'[d] = IF d = c THEN current[c] ELSE prev[d]
                         /\ hand'[d] = hand[d]
      /\ \A t \in Threads : state'[t] = IF t = next THEN "RUNNING"
                                        ELSE IF t = current[c] THEN s ELSE state[t]
  BY <1>1, <1>t DEF TypeOK
<1>5. Where'
  <2>1. \A d \in CPUs : hand'[d] = None /\ current'[d] # None
    BY <1>2, <1>4 DEF Where
  <2>2. ASSUME NEW t \in Threads PROVE Where!2!(t)'
    <3>0. Where!2!(t)
      BY DEF Where
    <3>1. CASE t = next
      <4>1. t \in rq /\ state[t] = "READY" /\ \A d \in CPUs : ~On(t, d)
        BY <1>2, <3>0, <3>1
      <4>2. state'[t] = "RUNNING" /\ t \notin rq' /\ tree'[t] = "none" /\ t # current[c]
        BY <1>1, <1>4, <3>0, <3>1, <4>1
      <4>3. \A d \in CPUs : (On(t, d)' <=> d = c) /\ prev'[d] # t
        BY <1>4, <3>1, <4>1, <4>2 DEF On
      <4> QED BY <4>2, <4>3
    <3>2. CASE t # next /\ t = current[c]
      <4>1. t \notin rq /\ \A d \in CPUs : On(t, d) <=> d = c
        BY <3>0, <3>2 DEF On
      <4>2. state'[t] = s /\ t \notin rq' /\ tree'[t] = "none"
        BY <1>1, <1>4, <3>0, <3>2, <4>1
      <4>3. \A d \in CPUs : (On(t, d)' <=> d = c) /\ current'[d] # t
        BY <1>2, <1>4, <3>2, <4>1 DEF On
      <4> QED BY <4>2, <4>3
    <3>3. CASE t # next /\ t # current[c]
      <4>1. \A d \in CPUs : /\ (On(t, d)' <=> On(t, d))
                            /\ (current'[d] = t <=> current[d] = t)
                            /\ (prev'[d] = t <=> prev[d] = t)
        BY <1>2, <1>4, <3>3 DEF On
      <4>2. state'[t] = state[t] /\ hr'[t] = hr[t] /\ (t \in rq' <=> t \in rq)
        BY <1>1, <1>4, <3>3
      <4> QED BY <3>0, <4>1, <4>2
    <3> QED BY <3>1, <3>2, <3>3
  <2> QED BY <2>1, <2>2 DEF Where
<1>6. \A t \in Threads : Keeps(t)
  <2> TAKE t \in Threads
  <2>1. t = next => state[t] = "READY"
    BY <1>2 DEF Where
  <2>2. t = current[c] => Live(t)
    BY DEF ZombieOffCPU, On, Live
  <2> QED BY <1>4, <2>1, <2>2 DEF Keeps, Live
<1> QED BY <1>2, <1>3, <1>4, <1>5, <1>6

LEMMA AbortWhere ==
  ASSUME PTypeOK, Where, ZombieOffCPU, NEW c \in CPUs, current[c] \in Threads, Abort(c)
  PROVE  /\ TypeOK' /\ Where'
         /\ \A t \in Threads : Keeps(t)
         /\ \A t \in Threads : \/ state'[t] = state[t]
                               \/ t = current[c] /\ state'[t] = "RUNNING"
<1> USE SentinelsDistinct
<1>t. TypeOK
  BY DEF PTypeOK
<1>0. /\ state' = [state EXCEPT ![current[c]] = IF @ = "READY" THEN "RUNNING" ELSE @]
      /\ unblock_pending' = [unblock_pending EXCEPT ![current[c]] = FALSE]
      /\ UNCHANGED <<hr, tree, rq, current, prev, hand>>
  BY DEF Abort
<1>1. \A t \in Threads : state'[t] = IF t = current[c] /\ state[t] = "READY"
                                     THEN "RUNNING" ELSE state[t]
  BY <1>0, <1>t DEF TypeOK
<1>2. TypeOK'
  BY <1>0, <1>t DEF TypeOK, States
<1>3. current[c] \notin rq
  BY DEF Where, On
<1>4. Where'
  BY <1>0, <1>1, <1>3 DEF Where, On
<1>5. \A t \in Threads : Keeps(t)
  BY <1>1 DEF Keeps, Live
<1> QED BY <1>1, <1>2, <1>4, <1>5

(* sched_block(), sched_sleep() and their kin by the current thread. *)
LEMMA BlockWhere ==
  ASSUME PTypeOK, Where, ZombieOffCPU, NEW c \in CPUs,
         Block(c, FALSE) \/ Sleep(c, FALSE, FALSE)
  PROVE  /\ TypeOK' /\ Where'
         /\ \A t \in Threads : Keeps(t)
         /\ \A t \in Threads : t # current[c] =>
               /\ state'[t] = state[t] \/ (t \in rq /\ state'[t] = "RUNNING")
               /\ unblock_pending'[t] = unblock_pending[t]
         /\ state'[current[c]] \in {"BLOCKED_PENDING", "BLOCKED"} => state[current[c]] = "RUNNING"
<1> USE SentinelsDistinct
<1>t. TypeOK /\ current[c] \in Threads /\ Awake(c)
  BY DEF PTypeOK, Block, Sleep
<1>s. state[current[c]] \in {"RUNNING", "READY", "DYING"}
  BY <1>t DEF Where, ZombieOffCPU, On
<1>1. CASE Block(c, FALSE) /\ state[current[c]] = "READY"
  <2>1. Abort(c)
    BY <1>1 DEF Block
  <2>2. /\ \A t \in Threads : t # current[c] => unblock_pending'[t] = unblock_pending[t]
        /\ state'[current[c]] = "RUNNING"
    BY <1>1, <1>t, <2>1 DEF Abort, TypeOK
  <2>3. /\ TypeOK' /\ Where' /\ \A t \in Threads : Keeps(t)
        /\ \A t \in Threads : t # current[c] => state'[t] = state[t]
    BY <1>t, <2>1, AbortWhere
  <2> QED BY <2>2, <2>3
<1>2. CASE Block(c, FALSE) /\ state[current[c]] # "READY"
  <2>1. PICK s \in {"BLOCKED_PENDING", "DYING"} :
            Switch(c, s) /\ (s = "BLOCKED_PENDING" => state[current[c]] # "DYING")
    BY <1>2 DEF Block, Commit, Unless
  <2>2. /\ tree' = tree /\ hr' = hr
        /\ unblock_pending' = [unblock_pending EXCEPT ![current[c]] =
              IF state[current[c]] = "DYING" THEN @ ELSE FALSE]
    BY <1>2 DEF Block, Commit
  <2>3. /\ unblock_pending' \in [Threads -> BOOLEAN] /\ hr' \in [Threads -> BOOLEAN]
        /\ \A t \in Threads : t # current[c] => /\ unblock_pending'[t] = unblock_pending[t]
                                                /\ hr'[t] = hr[t]
        /\ tree' = tree
    BY <1>t, <2>2 DEF TypeOK
  <2>4. /\ TypeOK' /\ Where' /\ \A t \in Threads : Keeps(t)
        /\ \A t \in Threads : \/ state'[t] = state[t]
                              \/ t = current[c] /\ state'[t] = s
                              \/ t \in rq /\ state'[t] = "RUNNING"
    BY <1>t, <2>1, <2>3, SwitchWhere
  <2>5. state'[current[c]] \in {"BLOCKED_PENDING", "BLOCKED"} => state[current[c]] = "RUNNING"
    BY <1>2, <1>s, <1>t, <2>1, <2>4
  <2>6. \A t \in Threads : t # current[c] =>
            state'[t] = state[t] \/ (t \in rq /\ state'[t] = "RUNNING")
    BY <2>4
  <2> QED BY <2>3, <2>4, <2>5, <2>6
<1>3. CASE Sleep(c, FALSE, FALSE)
  <2>1. PICK s \in {"SLEEPING_PENDING", "DYING"} : Switch(c, s)
    BY <1>3 DEF Sleep, Commit, Unless
  <2>2. /\ tree' = tree
        /\ hr' = [hr EXCEPT ![current[c]] = IF state[current[c]] = "DYING" THEN @ ELSE FALSE]
        /\ unblock_pending' = [unblock_pending EXCEPT ![current[c]] =
              IF state[current[c]] = "DYING" THEN @ ELSE FALSE]
    BY <1>3 DEF Sleep, Commit
  <2>3. /\ unblock_pending' \in [Threads -> BOOLEAN] /\ hr' \in [Threads -> BOOLEAN]
        /\ \A t \in Threads : t # current[c] => /\ unblock_pending'[t] = unblock_pending[t]
                                                /\ hr'[t] = hr[t]
        /\ tree' = tree
    BY <1>t, <2>2 DEF TypeOK
  <2>4. /\ TypeOK' /\ Where' /\ \A t \in Threads : Keeps(t)
        /\ \A t \in Threads : \/ state'[t] = state[t]
                              \/ t = current[c] /\ state'[t] = s
                              \/ t \in rq /\ state'[t] = "RUNNING"
    BY <1>t, <2>1, <2>3, SwitchWhere
  <2>5. state'[current[c]] \in {"BLOCKED_PENDING", "BLOCKED"} => state[current[c]] = "RUNNING"
    BY <1>s, <1>t, <2>1, <2>4
  <2>6. \A t \in Threads : t # current[c] =>
            state'[t] = state[t] \/ (t \in rq /\ state'[t] = "RUNNING")
    BY <2>4
  <2> QED BY <2>3, <2>4, <2>5, <2>6
<1> QED BY <1>1, <1>2, <1>3

(* sched_yield() and sched_exit_thread(). *)
LEMMA YieldWhere ==
  ASSUME PTypeOK, Where, ZombieOffCPU, NEW c \in CPUs, Yield(c) \/ Exit(c)
  PROVE  /\ TypeOK' /\ Where' /\ unblock_pending' = unblock_pending
         /\ \A t \in Threads : Keeps(t)
         /\ \A t \in Threads : \/ state'[t] = state[t]
                               \/ t = current[c] /\ state'[t] \in {"READY", "DYING"}
                               \/ t \in rq /\ state'[t] = "RUNNING"
<1>1. PICK s \in {"READY", "DYING"} : Switch(c, s)
  BY DEF Yield, Exit, Unless
<1>2. Awake(c) /\ UNCHANGED <<unblock_pending, hr, tree>>
  BY DEF Yield, Exit
<1>3. unblock_pending' \in [Threads -> BOOLEAN] /\ hr' \in [Threads -> BOOLEAN]
  BY <1>2 DEF PTypeOK, TypeOK
<1>4. /\ TypeOK' /\ Where' /\ \A t \in Threads : Keeps(t)
      /\ \A t \in Threads : \/ state'[t] = state[t]
                            \/ t = current[c] /\ state'[t] = s
                            \/ t \in rq /\ state'[t] = "RUNNING"
  BY <1>1, <1>2, <1>3, SwitchWhere
<1> QED BY <1>2, <1>4

(* sched_post_switch() of a thread that does not die. *)
LEMMA SettleWhere ==
  ASSUME PTypeOK, Where, ZombieOffCPU, NEW c \in CPUs, NEW due \in BOOLEAN,
         PostSwitch(c, due), prev[c] \in Threads => state[prev[c]] # "DYING"
  PROVE  /\ TypeOK' /\ Where'
         /\ \A t \in Threads : Keeps(t)
         /\ \A t \in Threads : state'[t] = "RUNNING" => state[t] = "RUNNING"
         /\ \A t \in Threads : Parked(t)' => Parked(t)
<1> USE SentinelsDistinct
<1>t. TypeOK
  BY DEF PTypeOK
<1>0. prev' = [prev EXCEPT ![c] = None] /\ UNCHANGED <<current, hand>>
  BY DEF PostSwitch
<1>1. \A d \in CPUs : prev'[d] = IF d = c THEN None ELSE prev[d]
  BY <1>0, <1>t DEF TypeOK
<1>2. CASE prev[c] = Idle
  <2>1. UNCHANGED <<state, rq, tree, unblock_pending, hr>>
    BY <1>2 DEF PostSwitch
  <2>2. TypeOK'
    BY <1>0, <1>t, <2>1 DEF TypeOK
  <2>3. \A t \in Threads, d \in CPUs : /\ On(t, d)' => On(t, d)
                                       /\ prev'[d] = t => prev[d] = t
    BY <1>0, <1>1 DEF On
  <2>4. Where'
    BY <1>0, <2>1, <2>3 DEF Where
  <2> QED BY <2>1, <2>2, <2>4 DEF Keeps, Live, Parked
<1>3. CASE prev[c] # Idle
  <2> DEFINE u == prev[c]
             s == Settled(u, due)
  <2>u. u \in Threads
    BY <1>3, <1>t DEF PostSwitch, TypeOK
  <2>1. /\ state' = [state EXCEPT ![u] = s]
        /\ rq' = IF s = "READY" THEN rq \cup {u} ELSE rq
        /\ tree' = [tree EXCEPT ![u] = IF s # "SLEEPING" THEN @
                                       ELSE IF hr[u] THEN "hr" ELSE "tick"]
        /\ unblock_pending' = [unblock_pending EXCEPT
                                 ![u] = IF state[u] \in Pending THEN FALSE ELSE @]
        /\ hr' = [hr EXCEPT ![u] = IF state[u] = "SLEEPING_PENDING" /\ s = "READY"
                                   THEN FALSE ELSE @]
    BY <1>3 DEF PostSwitch, SettleThread
  <2>2. /\ On(u, c) /\ u \notin rq /\ current[c] # u
        /\ \A d \in CPUs : d # c => ~On(u, d)
        /\ state[u] \notin {"BLOCKED", "SLEEPING", "ZOMBIE", "FREE", "DYING"}
        /\ tree[u] = "none"
    BY <2>u DEF On, Where, ZombieOffCPU
  <2>3. /\ s \in {"READY", "RUNNING", "BLOCKED", "SLEEPING"}
        /\ s = "RUNNING" => state[u] = "RUNNING"
        /\ s = "BLOCKED" => state[u] = "BLOCKED_PENDING" /\ ~unblock_pending[u]
    BY <1>t, <2>2, <2>u DEF Settled, TypeOK, States
  <2> HIDE DEF s
  <2>4. \A t \in Threads :
          IF t = u THEN /\ state'[t] = s
                        /\ tree'[t] = (IF s # "SLEEPING" THEN "none"
                                       ELSE IF hr[u] THEN "hr" ELSE "tick")
                        /\ s = "SLEEPING" => hr'[t] = hr[t]
                   ELSE /\ state'[t] = state[t] /\ tree'[t] = tree[t] /\ hr'[t] = hr[t]
                        /\ unblock_pending'[t] = unblock_pending[t]
                        /\ (t \in rq' <=> t \in rq)
    BY <1>t, <2>1, <2>2, <2>u DEF TypeOK
  <2> HIDE DEF u
  <2>5. TypeOK'
    BY <1>0, <1>t, <2>1, <2>3, <2>u DEF TypeOK, States
  <2>6. /\ \A t \in Threads : t = u => \A d \in CPUs : ~On(t, d)'
        /\ \A t \in Threads, d \in CPUs : /\ On(t, d)' => On(t, d)
                                          /\ prev'[d] = t => prev[d] = t
    BY <1>0, <1>1, <2>2 DEF On, Where, u
  <2>7. Where'
    <3>1. \A d \in CPUs : hand'[d] = None /\ current'[d] # None
      BY <1>0 DEF Where
    <3>2. ASSUME NEW t \in Threads PROVE Where!2!(t)'
      <4>1. CASE t = u
        <5>1. \A d \in CPUs : ~On(t, d)' /\ current'[d] # t /\ prev'[d] # t
          BY <2>6, <4>1 DEF On
        <5>2. t \in rq' => state'[t] = "READY"
          BY <2>1, <2>2, <2>4, <4>1
        <5>3. tree'[t] = (IF state'[t] # "SLEEPING" THEN "none"
                          ELSE IF hr'[t] THEN "hr" ELSE "tick")
          BY <2>4, <4>1
        <5> QED BY <5>1, <5>2, <5>3
      <4>2. CASE t # u
        BY <1>0, <2>4, <2>6, <4>2 DEF Where
      <4> QED BY <4>1, <4>2
    <3> QED BY <3>1, <3>2 DEF Where
  <2>8. \A t \in Threads : Keeps(t)
    BY <2>2, <2>3, <2>4 DEF Keeps, Live
  <2>9. \A t \in Threads : /\ state'[t] = "RUNNING" => state[t] = "RUNNING"
                           /\ Parked(t)' => Parked(t)
    BY <2>3, <2>4 DEF Parked
  <2> QED BY <2>5, <2>7, <2>8, <2>9
<1> QED BY <1>2, <1>3

LEMMA WakeWhere ==
  ASSUME PTypeOK, Where, ZombieOffCPU, NEW u \in Threads, Wake(u),
         UNCHANGED <<current, prev, hand>>
  PROVE  /\ TypeOK' /\ Where'
         /\ \A t \in Threads : Keeps(t)
         /\ \A t \in Threads : state'[t] = "RUNNING" => state[t] = "RUNNING"
         /\ \A t \in Threads : Parked(t)' => Parked(t)
<1>t. TypeOK
  BY DEF PTypeOK
<1>o. \A t \in Threads, c \in CPUs : On(t, c)' <=> On(t, c)
  BY DEF On
<1>1. CASE state[u] \in {"BLOCKED", "SLEEPING"}
  <2>1. /\ tree' = [tree EXCEPT ![u] = IF state[u] = "SLEEPING" THEN Unlinked(u) ELSE @]
        /\ hr' = [hr EXCEPT ![u] = IF state[u] = "SLEEPING" THEN FALSE ELSE @]
        /\ state' = [state EXCEPT ![u] = "READY"]
        /\ rq' = rq \cup {u} /\ unblock_pending' = unblock_pending
    BY <1>1 DEF Wake, Pending
  <2>2. tree'[u] = "none" /\ \A c \in CPUs : ~On(u, c)
    BY <1>1, <1>t, <2>1 DEF Where, Unlinked, TypeOK
  <2>3. TypeOK'
    BY <1>t, <2>1, <2>2 DEF TypeOK, States, Unlinked
  <2>4. \A t \in Threads : IF t = u THEN state'[t] = "READY"
                           ELSE /\ state'[t] = state[t] /\ hr'[t] = hr[t]
                                /\ tree'[t] = tree[t]
    BY <1>t, <2>1 DEF TypeOK
  <2>5. Where'
    <3>1. \A d \in CPUs : hand'[d] = None /\ current'[d] # None
      BY DEF Where
    <3>2. ASSUME NEW t \in Threads PROVE Where!2!(t)'
      BY <1>o, <2>1, <2>2, <2>4 DEF Where
    <3> QED BY <3>1, <3>2 DEF Where
  <2> QED BY <1>1, <2>1, <2>3, <2>4, <2>5 DEF Keeps, Live, Parked
<1>2. CASE state[u] \in Pending
  <2>1. /\ unblock_pending' = [unblock_pending EXCEPT ![u] = TRUE]
        /\ UNCHANGED <<state, hr, tree, rq>>
    BY <1>2 DEF Wake, Pending
  <2>2. TypeOK'
    BY <1>t, <2>1 DEF TypeOK
  <2>3. Where'
    BY <1>o, <2>1 DEF Where
  <2> QED BY <1>t, <2>1, <2>2, <2>3 DEF Keeps, Live, Parked, TypeOK
<1>3. CASE state[u] = "RUNNING"
  <2>1. /\ state' = [state EXCEPT ![u] = "READY"]
        /\ UNCHANGED <<unblock_pending, hr, tree, rq>>
    BY <1>3 DEF Wake, Pending
  <2>2. TypeOK'
    BY <1>t, <2>1 DEF TypeOK, States
  <2>3. \A t \in Threads : state'[t] = IF t = u THEN "READY" ELSE state[t]
    BY <1>t, <2>1 DEF TypeOK
  <2>4. Where'
    BY <1>3, <1>o, <2>1, <2>3 DEF Where
  <2> QED BY <1>3, <2>1, <2>2, <2>3, <2>4 DEF Keeps, Live, Parked
<1>4. CASE state[u] \in {"READY", "DYING", "ZOMBIE", "FREE"}
  <2>1. UNCHANGED <<state, unblock_pending, hr, tree, rq>>
    BY <1>4 DEF Wake, Pending
  <2> QED BY <1>o, <1>t, <2>1 DEF Where, TypeOK, Keeps, Live, Parked
<1> QED BY <1>1, <1>2, <1>3, <1>4, <1>t DEF TypeOK, States, Pending

LEMMA ExpireWhere ==
  ASSUME PTypeOK, Where, ZombieOffCPU, NEW c \in CPUs, NEW u \in Threads, Expire(c, {u})
  PROVE  /\ TypeOK' /\ Where'
         /\ \A t \in Threads : Keeps(t)
         /\ \A t \in Threads : state'[t] = "RUNNING" => state[t] = "RUNNING"
         /\ \A t \in Threads : Parked(t)' => Parked(t)
<1>t. TypeOK
  BY DEF PTypeOK
<1>1. /\ tree[u] # "none" /\ state[u] = "SLEEPING" /\ \A d \in CPUs : ~On(u, d)
      /\ Enqueueable({u}) = {u}
  BY DEF Expire, Where, Enqueueable
<1>2. /\ tree' = [t \in Threads |-> IF t = u THEN "none" ELSE tree[t]]
      /\ hr' = [t \in Threads |-> IF t = u /\ tree[t] = "hr" THEN FALSE ELSE hr[t]]
      /\ state' = [t \in Threads |-> IF t = u THEN "READY" ELSE state[t]]
      /\ rq' = rq \cup {u}
      /\ UNCHANGED <<unblock_pending, current, prev, hand>>
  BY <1>1 DEF Expire
<1>o. \A t \in Threads, d \in CPUs : On(t, d)' <=> On(t, d)
  BY <1>2 DEF On
<1>3. TypeOK'
  BY <1>2, <1>t DEF TypeOK, States
<1>4. Where'
  <2>1. \A d \in CPUs : hand'[d] = None /\ current'[d] # None
    BY <1>2 DEF Where
  <2>2. ASSUME NEW t \in Threads PROVE Where!2!(t)'
    BY <1>1, <1>2, <1>o DEF Where
  <2> QED BY <2>1, <2>2 DEF Where
<1> QED BY <1>1, <1>2, <1>3, <1>4 DEF Keeps, Live, Parked

(* A walk over a thread list. *)
LEMMA RouseWhere ==
  ASSUME PTypeOK, Where, ZombieOffCPU, NEW N, NEW M, NEW Z, NEW D, Rouse(N, M, Z, D),
         \A t \in Threads : t \in D => state[t] \in Pending \cup {"RUNNING"},
         \A t \in Threads : t \in N \cap Z => state[t] \notin {"BLOCKED", "SLEEPING"},
         UNCHANGED <<current, hand>>,
         prev' \in [CPUs -> Threads \cup {Idle, None}],
         \A c \in CPUs : prev'[c] \in {prev[c], None}
  PROVE  /\ TypeOK' /\ Where'
         /\ \A t \in Threads : state'[t] = "ZOMBIE" <=> t \in Z \/ state[t] = "ZOMBIE"
         /\ \A t \in Threads : Live(t)' <=> Live(t) /\ t \notin Z
         /\ \A t \in Threads : state'[t] = "RUNNING" => state[t] = "RUNNING" /\ t \notin M
         /\ \A t \in Threads : Parked(t)' => Parked(t) /\ t \notin N
<1> USE SentinelsDistinct
<1>t. TypeOK
  BY DEF PTypeOK
<1> DEFINE off == {t \in Threads : state[t] \in {"BLOCKED", "SLEEPING"}}
<1>1. /\ state' = [t \in Threads |->
                    IF t \in Z THEN "ZOMBIE"
                    ELSE IF t \in D THEN "DYING"
                    ELSE IF t \in (N \cap off) \/ (t \in M /\ state[t] = "RUNNING") THEN "READY"
                    ELSE state[t]]
      /\ unblock_pending' = [t \in Threads |-> unblock_pending[t] \/ (t \in N /\ state[t] \in Pending)]
      /\ rq' = (rq \ Z) \cup (N \cap off)
      /\ tree' = [t \in Threads |-> IF t \in N \cup Z /\ state[t] = "SLEEPING" THEN Unlinked(t) ELSE tree[t]]
      /\ hr' = [t \in Threads |-> hr[t] /\ ~(t \in N \cup Z /\ state[t] = "SLEEPING")]
  BY DEF Rouse
<1>2. \A t \in Threads : state[t] = "SLEEPING" => Unlinked(t) = "none"
  BY <1>t DEF Where, Unlinked, TypeOK
<1>3. TypeOK'
  <2>1. state' \in [Threads -> States] /\ unblock_pending' \in [Threads -> BOOLEAN]
        /\ hr' \in [Threads -> BOOLEAN] /\ rq' \subseteq Threads
    BY <1>1, <1>t DEF TypeOK, States
  <2>2. tree' \in [Threads -> {"none", "tick", "hr"}]
    BY <1>1, <1>2, <1>t DEF TypeOK
  <2> QED BY <1>t, <2>1, <2>2 DEF TypeOK
<1>4. \A t \in Threads, d \in CPUs : /\ On(t, d)' => On(t, d)
                                     /\ prev'[d] = t => prev[d] = t
  BY DEF On
<1>5. Where'
  <2>1. \A d \in CPUs : hand'[d] = None /\ current'[d] # None
    BY DEF Where
  <2>2. ASSUME NEW t \in Threads PROVE Where!2!(t)'
    <3>1. t \in rq' => state'[t] = "READY" /\ \A d \in CPUs : ~On(t, d)'
      BY <1>1, <1>4 DEF Where, Pending
    <3>2. \A d \in CPUs : current'[d] = t =>
               state'[t] \in {"RUNNING", "READY", "DYING", "ZOMBIE", "FREE"}
      BY <1>1 DEF Where
    <3>3. state'[t] \in {"BLOCKED", "SLEEPING"} => \A d \in CPUs : ~On(t, d)'
      BY <1>1, <1>4 DEF Where
    <3>4. tree'[t] = (IF state'[t] # "SLEEPING" THEN "none"
                      ELSE IF hr'[t] THEN "hr" ELSE "tick")
      <4>0. tree[t] = (IF state[t] # "SLEEPING" THEN "none" ELSE IF hr[t] THEN "hr" ELSE "tick")
        BY DEF Where
      <4>1. CASE state[t] = "SLEEPING" /\ t \in N \cup Z
        BY <1>1, <1>2, <4>1
      <4>2. CASE state[t] = "SLEEPING" /\ t \notin N \cup Z
        BY <1>1, <4>0, <4>2 DEF Pending
      <4>3. CASE state[t] # "SLEEPING"
        BY <1>1, <4>0, <4>3
      <4> QED BY <4>1, <4>2, <4>3
    <3>5. /\ \A d, e \in CPUs : On(t, d)' /\ On(t, e)' => d = e
          /\ \A d \in CPUs : current'[d] # t \/ prev'[d] # t
      BY <1>4 DEF Where
    <3> QED BY <3>1, <3>2, <3>3, <3>4, <3>5
  <2> QED BY <2>1, <2>2 DEF Where
<1>6. \A t \in Threads : /\ state'[t] = "ZOMBIE" <=> t \in Z \/ state[t] = "ZOMBIE"
                         /\ Live(t)' <=> Live(t) /\ t \notin Z
                         /\ state'[t] = "RUNNING" => state[t] = "RUNNING" /\ t \notin M
  BY <1>1 DEF Live, Pending
<1>7. \A t \in Threads : Parked(t)' => Parked(t) /\ t \notin N
  <2> TAKE t \in Threads
  <2>1. CASE state'[t] = "BLOCKED"
    BY <1>1, <2>1 DEF Parked
  <2>2. CASE state'[t] = "BLOCKED_PENDING"
    <3>1. state[t] = "BLOCKED_PENDING"
      BY <1>1, <2>2
    <3>2. unblock_pending'[t] = (unblock_pending[t] \/ t \in N)
      BY <1>1, <3>1 DEF Pending
    <3> QED BY <2>2, <3>1, <3>2 DEF Parked
  <2> QED BY <2>1, <2>2 DEF Parked
<1> QED BY <1>3, <1>5, <1>6, <1>7

----------------------------------------------------------------------------
(* What keeps the invariant *)

PTypes ==
    /\ upc \in [Threads -> Locations]
    /\ listed \subseteq Procs
    /\ linked \subseteq Threads
    /\ dead \in [Threads \cup {Idle} -> SUBSET Threads]
    /\ parent \in [Procs -> Procs \cup {None}]
    /\ wait_thread \in [Procs -> Threads \cup {None}]
    /\ is_zombie \in [Procs -> BOOLEAN] /\ term \in [Procs -> BOOLEAN]
    /\ stop_state \in [Procs -> BOOLEAN] /\ stop_notified \in [Procs -> BOOLEAN]
    /\ cont_pending \in [Procs -> BOOLEAN]
    /\ stopped \in [Threads -> BOOLEAN]

LEMMA TypesSplit == PTypeOK <=> TypeOK /\ PTypes
  BY DEF PTypeOK, PTypes

LEMMA WorldTypes ==
  ASSUME Given
  PROVE  /\ ProcOf \in [Threads -> Procs]
         /\ \A t \in Threads : ProcOf[t] \in Procs
         /\ \A p : ThreadsOf(p) \subseteq linked
  BY WorldsOK DEF Given, ProcOf, ThreadsOf

(* A step that touches no process and by which no thread dies, wakes the
   registered waiters or not, and makes nobody a waiter. *)
LEMMA CalmPInv ==
  ASSUME PInv, TypeOK', PTypes', Where', OnTheWay',
         UNCHANGED <<tree_vars, wait_thread, world>>,
         \A t \in Threads : Keeps(t),
         \A t \in Threads : Listening(t)' => Listening(t),
         \A t \in Threads : upc[t] \in {"wait", "woken"} => upc'[t] \in {"wait", "woken"},
         \A q \in Procs : cont_pending'[q] => cont_pending[q]
  PROVE  PInv'
<1> USE DEF PInv
<1>0. UNCHANGED <<listed, linked, dead, parent, is_zombie, wait_thread, world>>
  BY DEF tree_vars
<1>1. PTypeOK'
  BY TypesSplit DEF PTypeOK, PTypes
<1>2. Given'
  BY <1>0 DEF Given
<1>3. \A p \in Procs : ThreadsOf(p)' = ThreadsOf(p)
  BY <1>0 DEF ThreadsOf, ProcOf
<1>4. Detached'
  <2>1. dead \in [Threads \cup {Idle} -> SUBSET Threads]
    BY DEF PTypeOK
  <2> QED BY <1>0, <2>1 DEF Detached, Keeps
<1>5. Linked'
  BY <1>0 DEF Linked, Keeps
<1>6. ZombieProcs'
  <2>1. \A p \in Procs : \A u \in ThreadsOf(p) : u \in Threads
    BY DEF ThreadsOf, PTypeOK
  <2> QED BY <1>0, <1>3, <2>1 DEF ZombieProcs, Keeps
<1>7. Registered'
  BY <1>0 DEF Registered, Keeps, ProcOf
<1>8. Seen'
  <2> SUFFICES ASSUME NEW t \in Threads, Listening(t)' PROVE Seen!(t)!2'
    BY DEF Seen
  <2>1. Seen!(t)!2
    BY DEF Seen
  <2>2. Children(ProcOf[t])' = Children(ProcOf[t]) /\ ProcOf'[t] = ProcOf[t]
    BY <1>0 DEF Children, ProcOf
  <2>3. \A q \in Children(ProcOf[t]) : q \in Procs
    BY DEF Children, PTypeOK
  <2> QED BY <1>0, <2>1, <2>2, <2>3
<1> QED BY <1>1, <1>2, <1>4, <1>5, <1>6, <1>7, <1>8

(* A section that walks the threads of process p: it zombifies those in Z,
   makes those in D die, wakes those in N, marks those in M, makes a zombie of
   p if b, and tells the waiter W of p's parent. *)
Walk(p, N, M, Z, D, W, b) ==
    /\ Rouse(N, M, Z, D)
    /\ Z \subseteq ThreadsOf(p)
    /\ \A t \in Threads : t \in D => state[t] \in Pending \cup {"RUNNING"}
    /\ \A t \in Threads : t \in N \cap Z => state[t] \notin {"BLOCKED", "SLEEPING"}
    /\ UNCHANGED <<current, hand>>
    /\ prev' \in [CPUs -> Threads \cup {Idle, None}]
    /\ \A c \in CPUs : prev'[c] \in {prev[c], None}
    /\ W \subseteq N \cap M
    /\ Forget(W \cup Zombified(Z))
    /\ is_zombie' = [is_zombie EXCEPT ![p] = @ \/ b]
    /\ b => \A u \in ThreadsOf(p) : u \in Z \/ state[u] = "ZOMBIE"
    /\ ThreadsOf(p) # {} /\ (\A u \in ThreadsOf(p) : u \in Z \/ state[u] = "ZOMBIE")
          => b \/ is_zombie[p]
    /\ b => WaiterOf(p) \subseteq W
    /\ \A q \in Procs : cont_pending'[q] =>
          cont_pending[q] \/ (q = p /\ WaiterOf(p) \subseteq W)
    /\ UNCHANGED <<listed, linked, dead, parent, world>>
    /\ upc' \in [Threads -> Locations]
    /\ \A t \in Threads : \/ upc'[t] = upc[t]
                          \/ {upc'[t], upc[t]} \cap {"wait", "woken"} = {}
    /\ term' \in [Procs -> BOOLEAN] /\ stopped' \in [Threads -> BOOLEAN]
    /\ stop_state' \in [Procs -> BOOLEAN] /\ stop_notified' \in [Procs -> BOOLEAN]
    /\ cont_pending' \in [Procs -> BOOLEAN]

LEMMA RousePInv ==
  ASSUME PInv, ZombieOffCPU, NEW p \in Procs, NEW N, NEW M, NEW Z, NEW D, NEW W,
         NEW b \in BOOLEAN, Walk(p, N, M, Z, D, W, b)
  PROVE  PInv'
<1> USE DEF PInv, Walk
<1>t. TypeOK /\ PTypes
  BY TypesSplit
<1>w. /\ ProcOf \in [Threads -> Procs] /\ ProcOf' = ProcOf
      /\ \A q : ThreadsOf(q)' = ThreadsOf(q) /\ ThreadsOf(q) \subseteq Threads
      /\ Z \subseteq Threads /\ \A t \in Z : ProcOf[t] = p
  BY <1>t, WorldTypes DEF ProcOf, ThreadsOf, PTypes
<1>1. /\ TypeOK' /\ Where'
      /\ \A t \in Threads : state'[t] = "ZOMBIE" <=> t \in Z \/ state[t] = "ZOMBIE"
      /\ \A t \in Threads : Live(t)' <=> Live(t) /\ t \notin Z
      /\ \A t \in Threads : state'[t] = "RUNNING" => state[t] = "RUNNING" /\ t \notin M
      /\ \A t \in Threads : Parked(t)' => Parked(t) /\ t \notin N
  BY RouseWhere
<1>f. wait_thread' = [q \in Procs |-> IF wait_thread[q] \in W \cup Zombified(Z)
                                      THEN None ELSE wait_thread[q]]
  BY DEF Forget
<1>2. PTypeOK'
  <2>1. wait_thread' \in [Procs -> Threads \cup {None}] /\ is_zombie' \in [Procs -> BOOLEAN]
    BY <1>f, <1>t DEF PTypes
  <2> QED BY <1>1, <1>t, <2>1, TypesSplit DEF PTypes, PTypeOK
<1>3. Given'
  BY DEF Given
<1>z. \A q \in Procs : is_zombie'[q] = (is_zombie[q] \/ (q = p /\ b))
  BY <1>t DEF PTypes
<1>4. Detached'
  <2>1. \A h \in DOMAIN dead : dead[h] \subseteq Threads
    BY <1>t DEF PTypes
  <2> QED BY <1>1, <2>1 DEF Detached
<1>5. Linked'
  BY <1>1 DEF Linked
<1>6. ZombieProcs'
  <2> SUFFICES ASSUME NEW q \in Procs PROVE ZombieProcs!(q)'
    BY DEF ZombieProcs
  <2>0. ZombieProcs!(q) /\ ThreadsOf(q)' = ThreadsOf(q) /\ ThreadsOf(q) \subseteq Threads
    BY <1>w DEF ZombieProcs
  <2>1. CASE q = p
    <3>1. is_zombie'[q] => \A u \in ThreadsOf(q) : state'[u] = "ZOMBIE"
      BY <1>1, <1>z, <2>0, <2>1
    <3>2. ThreadsOf(q) # {} /\ (\A u \in ThreadsOf(q) : state'[u] = "ZOMBIE") => is_zombie'[q]
      BY <1>1, <1>z, <2>0, <2>1
    <3> QED BY <2>0, <3>1, <3>2
  <2>2. CASE q # p
    <3>1. \A u \in ThreadsOf(q) : state'[u] = "ZOMBIE" <=> state[u] = "ZOMBIE"
      BY <1>1, <1>w, <2>0, <2>2 DEF ThreadsOf
    <3> QED BY <1>z, <2>0, <2>2, <3>1
  <2> QED BY <2>1, <2>2
<1>7. Registered'
  <2> SUFFICES ASSUME NEW q \in Procs, NEW t \in Threads, wait_thread'[q] = t
               PROVE  Registered!(q)!(t)!2'
    BY DEF Registered
  <2>1. wait_thread[q] = t /\ t \notin W \cup Zombified(Z)
    BY <1>f, SentinelsDistinct
  <2>2. ProcOf[t] = q /\ Live(t) /\ upc[t] \in {"wait", "woken"}
    BY <2>1 DEF Registered
  <2>3. t \notin Z
    BY <2>1, <2>2 DEF Zombified
  <2> QED BY <1>1, <1>w, <2>2, <2>3
<1>8. Seen'
  <2> SUFFICES ASSUME NEW t \in Threads, Listening(t)' PROVE Seen!(t)!2'
    BY DEF Seen
  <2>1. /\ Listening(t) /\ Live(t) /\ t \notin N \cap M
    BY <1>1 DEF Listening, Parked, Live
  <2>2. Seen!(t)!2
    BY <2>1 DEF Seen
  <2>3. /\ Children(ProcOf[t])' = Children(ProcOf[t]) /\ ProcOf'[t] = ProcOf[t]
        /\ Children(ProcOf[t]) \subseteq Procs /\ ProcOf[t] \in Procs
    BY <1>t, <1>w DEF Children, ProcOf, PTypes
  <2>4. t \notin Z
    BY <1>1, <2>1 DEF Live, Listening, Parked
  <2>5. wait_thread'[ProcOf[t]] = t
    BY <1>f, <2>1, <2>2, <2>3, <2>4 DEF Zombified
  <2>6. p \in Children(ProcOf[t]) => ~(WaiterOf(p) \subseteq W)
    <3> SUFFICES ASSUME p \in Children(ProcOf[t]) PROVE t \in WaiterOf(p)
      BY <2>1
    <3>1. parent[p] = ProcOf[t] /\ ProcOf[t] # None
      BY <2>3, ProcessTree DEF Children
    <3>2. t \in ThreadsOf(ProcOf[t])
      BY <2>1 DEF Linked, ThreadsOf
    <3>3. ~is_zombie[ProcOf[t]]
      BY <2>1, <2>3, <3>2 DEF ZombieProcs, Live
    <3> QED BY <2>2, <3>1, <3>3 DEF WaiterOf
  <2>7. ASSUME NEW q \in Children(ProcOf[t])
        PROVE  ~is_zombie'[q] /\ (t \in world.untraced => ~cont_pending'[q])
    BY <1>z, <2>2, <2>3, <2>6, <2>7
  <2> QED BY <2>3, <2>5, <2>7
<1>9. OnTheWay'
  BY <1>1 DEF OnTheWay
<1> QED BY <1>1, <1>2, <1>3, <1>4, <1>5, <1>6, <1>7, <1>8, <1>9

----------------------------------------------------------------------------
(* One lemma per action *)

LEMMA CurrentUser ==
  ASSUME PInv, ZombieOffCPU, NEW c \in CPUs, NEW t \in Threads, current[c] = t
  PROVE  /\ t \notin rq /\ t \in linked /\ Live(t)
         /\ state[t] \in {"RUNNING", "READY", "DYING"}
         /\ \A d \in CPUs : current[d] = t => d = c
  BY DEF PInv, Where, Linked, ZombieOffCPU, On, Live

(* A thread that waits is on no queue. *)
LEMMA WaitsOffQueue ==
  ASSUME PInv, NEW t \in Threads, upc[t] = "wait"
  PROVE  t \notin rq
  BY DEF PInv, OnTheWay, Where, On, Live

LEMMA StillWhere ==
  ASSUME PInv, UNCHANGED vars
  PROVE  TypeOK' /\ Where' /\ \A t \in Threads : Keeps(t)
  BY DEF PInv, PTypeOK, TypeOK, Where, On, vars, Keeps, Live

(* A step of the thread's own that is no wait. *)
LEMMA GotoPInv ==
  ASSUME PInv, NEW c \in CPUs, NEW t \in Threads, NEW l \in Locations,
         upc[t] \notin {"wait", "woken"}, l \notin {"wait", "woken"}, Goto(t, l),
         UNCHANGED vars, UNCHANGED <<tree_vars, wait_thread, world>>,
         term' \in [Procs -> BOOLEAN], stopped' \in [Threads -> BOOLEAN],
         stop_state' \in [Procs -> BOOLEAN], stop_notified' \in [Procs -> BOOLEAN],
         cont_pending' \in [Procs -> BOOLEAN],
         \A q \in Procs : cont_pending'[q] => cont_pending[q]
  PROVE  PInv'
<1>1. PTypes
  BY TypesSplit DEF PInv
<1>2. \A u \in Threads : upc'[u] = IF u = t THEN l ELSE upc[u]
  BY <1>1 DEF Goto, PTypes
<1>3. PTypes'
  BY <1>1 DEF PTypes, tree_vars, Goto
<1>4. \A u \in Threads : (Live(u)' <=> Live(u)) /\ (Parked(u)' <=> Parked(u))
  BY DEF vars, Live, Parked
<1>5. OnTheWay'
  BY <1>2, <1>4 DEF PInv, OnTheWay, vars
<1>6. \A u \in Threads : Listening(u)' => Listening(u)
  BY <1>2, <1>4 DEF Listening, vars
<1> QED BY <1>2, <1>3, <1>5, <1>6, StillWhere, CalmPInv

(* A step of the scheduler by which no waiter leaves its CPU. *)
LEMMA SchedPInv ==
  ASSUME PInv, TypeOK', Where', UNCHANGED <<tree_vars, wait_thread, stop_vars, term, world>>,
         upc' \in [Threads -> Locations],
         \A t \in Threads : Keeps(t),
         \A t \in Threads : upc'[t] = "wait" => upc[t] = "wait",
         \A t \in Threads : upc[t] \in {"wait", "woken"} => upc'[t] \in {"wait", "woken"},
         \A c \in CPUs : current'[c] = current[c]
                         \/ (current[c] \in Threads => upc'[current[c]] # "wait"),
         \A t \in Threads : Listening(t)' => Listening(t)
  PROVE  PInv'
<1>1. PTypes
  BY TypesSplit DEF PInv
<1>2. PTypes'
  BY <1>1 DEF PTypes, tree_vars, stop_vars
<1>3. OnTheWay'
  BY DEF PInv, OnTheWay, Keeps
<1>4. \A q \in Procs : cont_pending'[q] => cont_pending[q]
  BY DEF stop_vars
<1> QED BY <1>2, <1>3, <1>4, CalmPInv

LEMMA OrdinaryPInv ==
  ASSUME PInv, ZombieOffCPU, NEW c \in CPUs, Ordinary(c)
  PROVE  PInv'
<1> USE DEF PInv
<1>0. /\ UNCHANGED <<upc, wait_thread, term, world>> /\ UNCHANGED tree_vars
      /\ UNCHANGED stop_vars
  BY DEF Ordinary, pvars
<1>u. upc' = upc /\ upc \in [Threads -> Locations]
  BY <1>0 DEF PTypeOK
<1>a. CASE MayAct(c) /\ Yield(c)
  <2>1. /\ TypeOK' /\ Where' /\ unblock_pending' = unblock_pending
        /\ \A t \in Threads : Keeps(t)
        /\ \A t \in Threads : \/ state'[t] = state[t]
                              \/ t = current[c] /\ state'[t] \in {"READY", "DYING"}
                              \/ t \in rq /\ state'[t] = "RUNNING"
    BY <1>a, YieldWhere
  <2>2. \A t \in Threads : Listening(t)' => Listening(t)
    BY <1>u, <2>1, WaitsOffQueue DEF Listening, Parked
  <2>3. \A d \in CPUs : d # c => current'[d] = current[d]
    BY <1>a DEF Yield, Switch, PTypeOK, TypeOK
  <2> QED BY <1>0, <1>a, <1>u, <2>1, <2>2, <2>3, SchedPInv DEF MayAct
<1>b. CASE MayAct(c) /\ (Block(c, FALSE) \/ Sleep(c, FALSE, FALSE))
  <2>1. /\ TypeOK' /\ Where'
        /\ \A t \in Threads : Keeps(t)
        /\ \A t \in Threads : t # current[c] =>
               /\ state'[t] = state[t] \/ (t \in rq /\ state'[t] = "RUNNING")
               /\ unblock_pending'[t] = unblock_pending[t]
    BY <1>b, BlockWhere
  <2>2. current[c] \in Threads /\ upc[current[c]] = "run"
    BY <1>b DEF Block, Sleep, MayAct
  <2>3. \A t \in Threads : Listening(t)' => Listening(t)
    BY <1>u, <2>1, <2>2, WaitsOffQueue DEF Listening, Parked
  <2>4. \A d \in CPUs : d # c => current'[d] = current[d]
    BY <1>b DEF Block, Sleep, Abort, Commit, Switch, PTypeOK, TypeOK
  <2> QED BY <1>0, <1>u, <2>1, <2>2, <2>3, <2>4, SchedPInv
<1>c. ASSUME NEW t \in Threads, Unblock(c, t) PROVE PInv'
  <2>1. /\ TypeOK' /\ Where' /\ \A u \in Threads : Keeps(u)
        /\ \A u \in Threads : state'[u] = "RUNNING" => state[u] = "RUNNING"
        /\ \A u \in Threads : Parked(u)' => Parked(u)
        /\ current' = current
    BY <1>c, WakeWhere DEF Unblock
  <2>2. \A u \in Threads : Listening(u)' => Listening(u)
    BY <1>u, <2>1 DEF Listening
  <2> QED BY <1>0, <1>u, <2>1, <2>2, SchedPInv
<1>d. ASSUME NEW t \in Threads, Expire(c, {t}) PROVE PInv'
  <2>1. /\ TypeOK' /\ Where' /\ \A u \in Threads : Keeps(u)
        /\ \A u \in Threads : state'[u] = "RUNNING" => state[u] = "RUNNING"
        /\ \A u \in Threads : Parked(u)' => Parked(u)
        /\ current' = current
    BY <1>d, ExpireWhere DEF Expire
  <2>2. \A u \in Threads : Listening(u)' => Listening(u)
    BY <1>u, <2>1 DEF Listening
  <2> QED BY <1>0, <1>u, <2>1, <2>2, SchedPInv
<1> QED BY <1>a, <1>b, <1>c, <1>d DEF Ordinary

LEMMA ProcPostSwitchPInv ==
  ASSUME PInv, ZombieOffCPU, NEW c \in CPUs, NEW due \in BOOLEAN, ProcPostSwitch(c, due)
  PROVE  PInv'
<1> USE DEF PInv
<1>t. TypeOK /\ PTypes
  BY TypesSplit
<1>1. CASE prev[c] \in Threads /\ state[prev[c]] = "DYING"
  <2> DEFINE t == prev[c]
             p == ProcOf[t]
             last == \A u \in ThreadsOf(p) : u = t \/ state[u] = "ZOMBIE"
             W == IF last THEN WaiterOf(p) ELSE {}
             Z == {t}
             D == {}
  <2>1. /\ prev' = [prev EXCEPT ![c] = None]
        /\ Rouse(W, W, Z, D)
        /\ Forget(W \cup Zombified(Z))
        /\ is_zombie' = [is_zombie EXCEPT ![p] = @ \/ last]
        /\ UNCHANGED <<current, hand, upc, listed, linked, dead, parent, term, world>>
        /\ UNCHANGED stop_vars
    BY <1>1 DEF ProcPostSwitch
  <2>2. t \in Threads /\ t \in linked /\ p \in Procs /\ t \in ThreadsOf(p)
    BY <1>1, WorldTypes DEF Linked, Live, ThreadsOf
  <2>3. /\ prev' \in [CPUs -> Threads \cup {Idle, None}]
        /\ \A d \in CPUs : prev'[d] \in {prev[d], None}
    BY <1>t, <2>1 DEF TypeOK
  <2>4. last \in BOOLEAN /\ (last => WaiterOf(p) \subseteq W) /\ W \subseteq W \cap W
    OBVIOUS
  <2>5. last <=> \A u \in ThreadsOf(p) : u \in Z \/ state[u] = "ZOMBIE"
    OBVIOUS
  <2>6. /\ Z \subseteq ThreadsOf(p)
        /\ \A u \in Threads : u \in D => state[u] \in Pending \cup {"RUNNING"}
        /\ \A u \in Threads : u \in W \cap Z => state[u] \notin {"BLOCKED", "SLEEPING"}
    BY <1>1, <2>2
  <2>7. /\ \A q \in Procs : cont_pending'[q] => cont_pending[q]
        /\ upc' = upc /\ upc \in [Threads -> Locations]
        /\ term' \in [Procs -> BOOLEAN] /\ stopped' \in [Threads -> BOOLEAN]
        /\ stop_state' \in [Procs -> BOOLEAN] /\ stop_notified' \in [Procs -> BOOLEAN]
        /\ cont_pending' \in [Procs -> BOOLEAN]
    BY <1>t, <2>1 DEF PTypes, stop_vars
  <2> HIDE DEF t, p, last, W, Z, D
  <2>8. Walk(p, W, W, Z, D, W, last)
    BY <2>1, <2>2, <2>3, <2>4, <2>5, <2>6, <2>7 DEF Walk
  <2> QED BY <2>2, <2>4, <2>8, RousePInv
<1>2. CASE prev[c] \in Threads => state[prev[c]] # "DYING"
  <2>1. PostSwitch(c, due) /\ UNCHANGED pvars
    BY <1>2 DEF ProcPostSwitch
  <2>2. /\ TypeOK' /\ Where'
        /\ \A t \in Threads : Keeps(t)
        /\ \A t \in Threads : state'[t] = "RUNNING" => state[t] = "RUNNING"
        /\ \A t \in Threads : Parked(t)' => Parked(t)
    BY <1>2, <2>1, SettleWhere
  <2>3. /\ UNCHANGED <<upc, wait_thread, term, world>> /\ UNCHANGED tree_vars
        /\ UNCHANGED stop_vars /\ current' = current
        /\ upc' \in [Threads -> Locations]
    BY <1>t, <2>1 DEF PostSwitch, pvars, PTypes
  <2>4. \A t \in Threads : Listening(t)' => Listening(t)
    BY <2>2, <2>3 DEF Listening
  <2> QED BY <2>2, <2>3, <2>4, SchedPInv
<1> QED BY <1>1, <1>2

(* The waiter that is told of p is a thread of another process. *)
LEMMA WaiterElsewhere ==
  ASSUME PInv, NEW p \in Procs
  PROVE  \A w \in WaiterOf(p) : w \in Threads /\ w \notin ThreadsOf(p)
<1> SUFFICES ASSUME NEW w \in WaiterOf(p) PROVE w \in Threads /\ ProcOf[w] # p
  BY DEF ThreadsOf
<1>1. w \in Threads /\ parent[p] \in Procs /\ wait_thread[parent[p]] = w
  BY DEF WaiterOf, PInv, PTypeOK
<1>2. ProcOf[w] = parent[p]
  BY <1>1 DEF PInv, Registered
<1> QED BY <1>1, <1>2 DEF PInv, Given

LEMMA KillPInv ==
  ASSUME PInv, ZombieOffCPU, NEW c \in CPUs, NEW p \in Procs, Kill(c, p)
  PROVE  PInv'
<1> USE DEF PInv
<1>t. TypeOK /\ PTypes
  BY TypesSplit
<1> DEFINE T == ThreadsOf(p)
           S == {t \in T : stopped[t]}
           Z == {t \in T \ S : state[t] \in {"BLOCKED", "SLEEPING", "READY"}}
           D == {t \in T \ S : state[t] \in Pending \cup {"RUNNING"}}
           gone == \A t \in T : t \in Z \/ state[t] = "ZOMBIE"
           W == IF gone THEN WaiterOf(p) ELSE {}
<1>1. /\ MayAct(c)
      /\ term' = [term EXCEPT ![p] = TRUE]
      /\ stop_state' = [stop_state EXCEPT ![p] = FALSE]
      /\ Rouse(S \cup W, S \cup W, Z, D)
      /\ is_zombie' = [is_zombie EXCEPT ![p] = @ \/ gone]
      /\ Forget(W \cup Zombified(Z))
      /\ upc' = [t \in Threads |-> IF t = current[c] /\ ProcOf[t] = p THEN "exit" ELSE upc[t]]
      /\ UNCHANGED <<current, prev, hand, listed, linked, dead, parent,
                     stop_notified, cont_pending, stopped, world>>
  BY DEF Kill
<1>2. /\ Z \subseteq T
      /\ \A t \in Threads : t \in D => state[t] \in Pending \cup {"RUNNING"}
      /\ gone \in BOOLEAN /\ (gone => WaiterOf(p) \subseteq W) /\ W \subseteq (S \cup W)
      /\ gone <=> \A u \in ThreadsOf(p) : u \in Z \/ state[u] = "ZOMBIE"
  OBVIOUS
<1>3. \A t \in Threads : t \notin (S \cup W) \cap Z
  BY WaiterElsewhere
<1>4. /\ upc' \in [Threads -> Locations]
      /\ \A t \in Threads : upc'[t] = upc[t] \/ {upc'[t], upc[t]} \cap {"wait", "woken"} = {}
  BY <1>1, <1>t DEF PTypes, Locations, MayAct
<1>5. /\ term' \in [Procs -> BOOLEAN] /\ stop_state' \in [Procs -> BOOLEAN]
      /\ stop_notified' \in [Procs -> BOOLEAN] /\ cont_pending' \in [Procs -> BOOLEAN]
      /\ stopped' \in [Threads -> BOOLEAN]
      /\ prev' \in [CPUs -> Threads \cup {Idle, None}]
      /\ \A d \in CPUs : prev'[d] \in {prev[d], None}
      /\ \A q \in Procs : cont_pending'[q] => cont_pending[q]
  BY <1>1, <1>t DEF PTypes, TypeOK
<1> HIDE DEF S, Z, D, gone, W
<1>6. Walk(p, S \cup W, S \cup W, Z, D, W, gone)
  BY <1>1, <1>2, <1>3, <1>4, <1>5 DEF Walk
<1> QED BY <1>2, <1>6, RousePInv

LEMMA ExitGroupPInv ==
  ASSUME PInv, ZombieOffCPU, NEW c \in CPUs, NEW t \in Threads, ExitGroup(c, t)
  PROVE  PInv'
<1> USE DEF PInv
<1>t. TypeOK /\ PTypes
  BY TypesSplit
<1> DEFINE p == ProcOf[t]
           T == ThreadsOf(p) \ {t}
           Z == {u \in T : state[u] \in {"BLOCKED", "SLEEPING", "READY"}}
           D == {u \in T : state[u] \in Pending \cup {"RUNNING"}}
           N == {}
           no == FALSE
<1>1. /\ At(c, t, "run") /\ Rouse(N, N, Z, D)
      /\ Forget(Zombified(Z))
      /\ UNCHANGED <<current, prev, hand, listed, linked, dead, parent, is_zombie, term, world>>
      /\ UNCHANGED stop_vars
  BY DEF ExitGroup, tree_vars
<1>2. PICK l \in {"exit", "dethread"} : Goto(t, l)
  BY DEF ExitGroup
<1>3. /\ p \in Procs /\ t \in ThreadsOf(p) /\ state[t] # "ZOMBIE" /\ t \notin Z
  BY <1>1, CurrentUser, WorldTypes DEF At, ThreadsOf, Live
<1>4. /\ Z \subseteq ThreadsOf(p)
      /\ \A u \in Threads : u \in D => state[u] \in Pending \cup {"RUNNING"}
      /\ \A u : u \notin N
      /\ no \in BOOLEAN /\ ~no /\ N \subseteq N \cap N
  OBVIOUS
<1>5. /\ upc' \in [Threads -> Locations]
      /\ \A u \in Threads : upc'[u] = upc[u] \/ {upc'[u], upc[u]} \cap {"wait", "woken"} = {}
  BY <1>1, <1>2, <1>t DEF PTypes, Locations, At, Goto
<1>6. /\ term' \in [Procs -> BOOLEAN] /\ stop_state' \in [Procs -> BOOLEAN]
      /\ stop_notified' \in [Procs -> BOOLEAN] /\ cont_pending' \in [Procs -> BOOLEAN]
      /\ stopped' \in [Threads -> BOOLEAN]
      /\ prev' \in [CPUs -> Threads \cup {Idle, None}]
      /\ \A d \in CPUs : prev'[d] \in {prev[d], None}
      /\ \A q \in Procs : cont_pending'[q] => cont_pending[q]
  BY <1>1, <1>t DEF PTypes, TypeOK, stop_vars
<1>7. is_zombie' = [is_zombie EXCEPT ![p] = @ \/ no]
  BY <1>1, <1>3, <1>t DEF PTypes
<1>8. N \cup Zombified(Z) = Zombified(Z)
  OBVIOUS
<1> HIDE DEF p, Z, D, N, no
<1>9. Forget(N \cup Zombified(Z))
  BY <1>1, <1>8
<1>10. Walk(p, N, N, Z, D, N, no)
  BY <1>1, <1>3, <1>4, <1>5, <1>6, <1>7, <1>9 DEF Walk
<1> QED BY <1>3, <1>4, <1>10, RousePInv

(* The sections that zombify nobody. *)
LEMMA TellPInv ==
  ASSUME PInv, ZombieOffCPU, NEW p \in Procs, NEW N, NEW M, NEW W,
         Rouse(N, M, {}, {}),
         W \subseteq N \cap M, Forget(W),
         \A q \in Procs : cont_pending'[q] =>
            cont_pending[q] \/ (q = p /\ WaiterOf(p) \subseteq W),
         UNCHANGED <<current, prev, hand, listed, linked, dead, parent, is_zombie, term, world>>,
         upc' \in [Threads -> Locations],
         \A t \in Threads : \/ upc'[t] = upc[t]
                            \/ {upc'[t], upc[t]} \cap {"wait", "woken"} = {},
         stopped' = stopped,
         stop_state' \in [Procs -> BOOLEAN], stop_notified' \in [Procs -> BOOLEAN],
         cont_pending' \in [Procs -> BOOLEAN]
  PROVE  PInv'
<1> USE DEF PInv
<1>t. TypeOK /\ PTypes
  BY TypesSplit
<1> DEFINE Z == {}
           no == FALSE
<1>1. W \cup Zombified(Z) = W
  BY DEF Zombified
<1>2. Rouse(N, M, Z, Z) /\ Forget(W \cup Zombified(Z))
  BY <1>1
<1>3. is_zombie' = [is_zombie EXCEPT ![p] = @ \/ no]
  BY <1>t DEF PTypes
<1>4. /\ term' \in [Procs -> BOOLEAN] /\ stopped' \in [Threads -> BOOLEAN]
      /\ prev' \in [CPUs -> Threads \cup {Idle, None}]
      /\ \A d \in CPUs : prev'[d] \in {prev[d], None}
  BY <1>t DEF PTypes, TypeOK
<1>5. ThreadsOf(p) # {} /\ (\A u \in ThreadsOf(p) : u \in Z \/ state[u] = "ZOMBIE")
         => is_zombie[p]
  BY DEF ZombieProcs
<1>6. (\A u : u \notin Z) /\ Z \subseteq ThreadsOf(p) /\ no \in BOOLEAN /\ ~no
  OBVIOUS
<1> HIDE DEF Z, no
<1>7. Walk(p, N, M, Z, Z, W, no)
  BY <1>2, <1>3, <1>4, <1>5, <1>6 DEF Walk
<1> QED BY <1>6, <1>7, RousePInv

LEMMA StopPInv ==
  ASSUME PInv, ZombieOffCPU, NEW c \in CPUs, NEW p \in Procs, Stop(c, p)
  PROVE  PInv'
<1>t. TypeOK /\ PTypes
  BY TypesSplit DEF PInv
<1>1. /\ stop_state' = [stop_state EXCEPT ![p] = TRUE]
      /\ stop_notified' = [stop_notified EXCEPT ![p] = FALSE]
      /\ cont_pending' = [cont_pending EXCEPT ![p] = FALSE]
      /\ Rouse(ThreadsOf(p), {}, {}, {})
      /\ UNCHANGED <<current, prev, hand, upc, listed, linked, dead, parent, is_zombie,
                     wait_thread, term, world, stopped>>
  BY DEF Stop, tree_vars
<1>2. Forget({})
  BY <1>1, <1>t DEF Forget, PTypes
<1>3. /\ stop_state' \in [Procs -> BOOLEAN] /\ stop_notified' \in [Procs -> BOOLEAN]
      /\ cont_pending' \in [Procs -> BOOLEAN] /\ upc' \in [Threads -> Locations]
      /\ \A q \in Procs : cont_pending'[q] => cont_pending[q]
  BY <1>1, <1>t DEF PTypes
<1> QED BY <1>1, <1>2, <1>3, TellPInv

LEMMA ContinuePInv ==
  ASSUME PInv, ZombieOffCPU, NEW c \in CPUs, NEW p \in Procs, Continue(c, p)
  PROVE  PInv'
<1>t. TypeOK /\ PTypes
  BY TypesSplit DEF PInv
<1> DEFINE S == {t \in ThreadsOf(p) : stopped[t] /\ state[t] # "SLEEPING"}
           W == WaiterOf(p)
<1>1. /\ stop_state' = [stop_state EXCEPT ![p] = FALSE]
      /\ stop_notified' = [stop_notified EXCEPT ![p] = FALSE]
      /\ cont_pending' = [cont_pending EXCEPT ![p] = TRUE]
      /\ Rouse(S \cup W, S \cup W, {}, {})
      /\ Forget(W)
      /\ UNCHANGED <<current, prev, hand, upc, listed, linked, dead, parent, is_zombie,
                     term, world, stopped>>
  BY DEF Continue, tree_vars
<1>3. /\ stop_state' \in [Procs -> BOOLEAN] /\ stop_notified' \in [Procs -> BOOLEAN]
      /\ cont_pending' \in [Procs -> BOOLEAN] /\ upc' \in [Threads -> Locations]
      /\ \A q \in Procs : cont_pending'[q] => cont_pending[q] \/ q = p
  BY <1>1, <1>t DEF PTypes
<1>4. W \subseteq (S \cup W) \cap (S \cup W) /\ WaiterOf(p) \subseteq W
  OBVIOUS
<1> HIDE DEF S, W
<1> QED BY <1>1, <1>3, <1>4, TellPInv

LEMMA StopAnnouncePInv ==
  ASSUME PInv, ZombieOffCPU, NEW c \in CPUs, NEW t \in Threads, StopAnnounce(c, t)
  PROVE  PInv'
<1>t. TypeOK /\ PTypes /\ ProcOf[t] \in Procs
  BY TypesSplit, WorldTypes DEF PInv
<1> DEFINE W == WaiterOf(ProcOf[t])
<1>1. /\ Rouse(W, W, {}, {}) /\ Forget(W) /\ Goto(t, "park") /\ upc[t] = "announce"
      /\ UNCHANGED <<current, prev, hand, listed, linked, dead, parent, is_zombie,
                     term, world, stopped, stop_state, stop_notified, cont_pending>>
  BY DEF StopAnnounce, tree_vars, stop_vars, At
<1>3. /\ stop_state' \in [Procs -> BOOLEAN] /\ stop_notified' \in [Procs -> BOOLEAN]
      /\ cont_pending' \in [Procs -> BOOLEAN] /\ upc' \in [Threads -> Locations]
      /\ \A q \in Procs : cont_pending'[q] => cont_pending[q]
      /\ \A u \in Threads : upc'[u] = upc[u] \/ {upc'[u], upc[u]} \cap {"wait", "woken"} = {}
  BY <1>1, <1>t DEF PTypes, Goto, Locations
<1>4. W \subseteq W \cap W
  OBVIOUS
<1> HIDE DEF W
<1> QED BY <1>1, <1>3, <1>4, <1>t, TellPInv

(* The sections in which a thread leaves its CPU by itself. *)
LEMMA LeavePInv ==
  ASSUME PInv, ZombieOffCPU, NEW c \in CPUs, NEW t \in Threads,
         \/ ExitThread(c, t)
         \/ WaitRetry(c, t)
         \/ WaitBlock(c, t)
         \/ StopPark(c, t)
  PROVE  PInv'
<1> USE DEF PInv
<1>0. /\ UNCHANGED <<wait_thread, term, world>> /\ UNCHANGED tree_vars /\ UNCHANGED stop_vars
      /\ current[c] = t
  BY DEF ExitThread, WaitRetry, WaitBlock, StopPark, pvars, At, Scanning
<1>u. upc \in [Threads -> Locations]
  BY DEF PTypeOK
<1>1. CASE ExitThread(c, t) \/ WaitRetry(c, t)
  <2>1. PICK l \in {"run", "exit", "scan"} : upc' = [upc EXCEPT ![t] = l]
    BY <1>1, <1>u DEF ExitThread, WaitRetry, At, Goto, pvars
  <2>2. upc[t] \notin {"wait", "woken"} /\ (Yield(c) \/ Exit(c))
    BY <1>1 DEF ExitThread, WaitRetry, At, Scanning
  <2>3. \A u \in Threads : upc'[u] = IF u = t THEN l ELSE upc[u]
    BY <1>u, <2>1
  <2>4. upc' \in [Threads -> Locations]
    BY <1>u, <2>1 DEF Locations
  <2>5. /\ TypeOK' /\ Where' /\ unblock_pending' = unblock_pending
        /\ \A u \in Threads : Keeps(u)
        /\ \A u \in Threads : \/ state'[u] = state[u]
                              \/ u = current[c] /\ state'[u] \in {"READY", "DYING"}
                              \/ u \in rq /\ state'[u] = "RUNNING"
    BY <2>2, YieldWhere
  <2>6. \A u \in Threads : Listening(u)' => Listening(u)
    BY <1>0, <2>3, <2>5, WaitsOffQueue DEF Listening, Parked
  <2>7. \A d \in CPUs : d # c => current'[d] = current[d]
    BY <2>2 DEF Yield, Exit, Switch, PTypeOK, TypeOK
  <2>8. \A d \in CPUs : current'[d] = current[d]
                        \/ (current[d] \in Threads => upc'[current[d]] # "wait")
    BY <1>0, <2>3, <2>7
  <2>9. /\ \A u \in Threads : upc'[u] = "wait" => upc[u] = "wait"
        /\ \A u \in Threads : upc[u] \in {"wait", "woken"} => upc'[u] \in {"wait", "woken"}
    BY <2>2, <2>3
  <2> QED BY <1>0, <2>4, <2>5, <2>6, <2>8, <2>9, SchedPInv
<1>2. CASE WaitBlock(c, t) \/ StopPark(c, t)
  <2>1. PICK l \in {"woken", "unpark"} : /\ upc' = [upc EXCEPT ![t] = l]
                                         /\ l = "woken" <=> upc[t] = "wait"
                                         /\ l = "unpark" <=> upc[t] = "park"
    BY <1>2 DEF WaitBlock, StopPark, At, Goto
  <2>2. Block(c, FALSE)
    BY <1>2 DEF WaitBlock, StopPark
  <2>3. \A u \in Threads : upc'[u] = IF u = t THEN l ELSE upc[u]
    BY <1>u, <2>1
  <2>4. upc' \in [Threads -> Locations]
    BY <1>u, <2>1 DEF Locations
  <2>5. /\ TypeOK' /\ Where' /\ \A u \in Threads : Keeps(u)
        /\ \A u \in Threads : u # t =>
               /\ state'[u] = state[u] \/ (u \in rq /\ state'[u] = "RUNNING")
               /\ unblock_pending'[u] = unblock_pending[u]
        /\ state'[t] \in {"BLOCKED_PENDING", "BLOCKED"} => state[t] = "RUNNING"
    BY <1>0, <2>2, BlockWhere
  <2>6. \A u \in Threads : Listening(u)' => Listening(u)
    <3> SUFFICES ASSUME NEW u \in Threads, Listening(u)' PROVE Listening(u)
      OBVIOUS
    <3>1. CASE u = t
      BY <2>1, <2>3, <2>5, <3>1 DEF Listening, Parked
    <3>2. CASE u # t
      BY <2>3, <2>5, <3>2, WaitsOffQueue DEF Listening, Parked
    <3> QED BY <3>1, <3>2
  <2>7. \A d \in CPUs : d # c => current'[d] = current[d]
    BY <2>2 DEF Block, Abort, Commit, Switch, PTypeOK, TypeOK
  <2>8. \A d \in CPUs : current'[d] = current[d]
                        \/ (current[d] \in Threads => upc'[current[d]] # "wait")
    BY <1>0, <2>3, <2>7
  <2>9. /\ \A u \in Threads : upc'[u] = "wait" => upc[u] = "wait"
        /\ \A u \in Threads : upc[u] \in {"wait", "woken"} => upc'[u] \in {"wait", "woken"}
    BY <2>1, <2>3
  <2> QED BY <1>0, <2>4, <2>5, <2>6, <2>8, <2>9, SchedPInv
<1> QED BY <1>1, <1>2

LEMMA OwnStepsPInv ==
  ASSUME PInv, NEW c \in CPUs, NEW t \in Threads,
         \/ WaitReport(c, t) \/ WaitReturn(c, t)
         \/ StopTest(c, t) \/ StopMark(c, t) \/ StopUnpark(c, t)
  PROVE  PInv'
<1>t. PTypes
  BY TypesSplit DEF PInv
<1>1. CASE WaitReport(c, t)
  <2>1. /\ Goto(t, "run") /\ upc[t] \notin {"wait", "woken"}
        /\ UNCHANGED <<wait_thread, term, world, stop_state, stopped>>
        /\ UNCHANGED vars /\ UNCHANGED tree_vars
    BY <1>1 DEF WaitReport, Scanning, At
  <2>2. /\ stop_notified' \in [Procs -> BOOLEAN] /\ cont_pending' \in [Procs -> BOOLEAN]
        /\ \A q \in Procs : cont_pending'[q] => cont_pending[q]
    BY <1>1, <1>t DEF WaitReport, PTypes
  <2>3. "run" \in Locations
    BY DEF Locations
  <2> QED BY <1>t, <2>1, <2>2, <2>3, GotoPInv DEF PTypes
<1>2. CASE WaitReturn(c, t) \/ StopTest(c, t)
  <2>1. PICK l \in {"run", "mark", "exit"} : Goto(t, l)
    BY <1>2 DEF WaitReturn, StopTest
  <2>2. /\ upc[t] \notin {"wait", "woken"}
        /\ UNCHANGED <<wait_thread, term, world>> /\ UNCHANGED stop_vars
        /\ UNCHANGED vars /\ UNCHANGED tree_vars
    BY <1>2 DEF WaitReturn, StopTest, Scanning, At
  <2>3. l \in Locations /\ l \notin {"wait", "woken"}
    BY DEF Locations
  <2> QED BY <1>t, <2>1, <2>2, <2>3, GotoPInv DEF PTypes, stop_vars
<1>3. CASE StopMark(c, t) \/ StopUnpark(c, t)
  <2>1. PICK l \in {"announce", "stop"} : Goto(t, l)
    BY <1>3 DEF StopMark, StopUnpark
  <2>2. /\ upc[t] \notin {"wait", "woken"}
        /\ UNCHANGED <<wait_thread, term, world, stop_state, stop_notified, cont_pending>>
        /\ UNCHANGED vars /\ UNCHANGED tree_vars
        /\ stopped' \in [Threads -> BOOLEAN]
    BY <1>3, <1>t DEF StopMark, StopUnpark, At, PTypes
  <2>3. l \in Locations /\ l \notin {"wait", "woken"}
    BY DEF Locations
  <2> QED BY <1>t, <2>1, <2>2, <2>3, GotoPInv DEF PTypes
<1> QED BY <1>1, <1>2, <1>3

(* A section that detaches the dead threads Z of p to the private list h. *)
LEMMA CollectPInv ==
  ASSUME PInv, UNCHANGED vars, NEW p \in Procs, NEW h \in Threads \cup {Idle}, NEW Z,
         Z \subseteq ThreadsOf(p), \A u \in Z : state[u] = "ZOMBIE",
         linked' = linked \ Z, dead' = [dead EXCEPT ![h] = Z],
         is_zombie' = is_zombie, listed' \subseteq listed,
         parent' \in [Procs -> Procs \cup {None}],
         \A q \in Procs : parent'[q] \in {parent[q], None},
         upc' \in [Threads -> Locations],
         \A t \in Threads : \/ upc'[t] = upc[t]
                            \/ {upc'[t], upc[t]} \cap {"wait", "woken"} = {},
         UNCHANGED <<wait_thread, term, world>>, UNCHANGED stop_vars
  PROVE  PInv'
<1> USE DEF PInv
<1>t. TypeOK /\ PTypes
  BY TypesSplit
<1>w. /\ TypeOK' /\ Where' /\ state' = state
      /\ \A t \in Threads : (Live(t)' <=> Live(t)) /\ (Parked(t)' <=> Parked(t))
  BY StillWhere DEF vars, Live, Parked
<1>z. /\ Z \subseteq Threads /\ Z \subseteq linked
      /\ \A g \in Threads \cup {Idle} : dead'[g] = IF g = h THEN Z ELSE dead[g]
  BY <1>t DEF ThreadsOf, PTypes
<1>1. PTypeOK'
  BY <1>t, <1>w, <1>z, TypesSplit DEF PTypes, PTypeOK, stop_vars
<1>2. Given'
  BY ProcessTree DEF Given
<1>3. Detached'
  <2>1. DOMAIN dead' = Threads \cup {Idle} /\ DOMAIN dead = Threads \cup {Idle}
    BY <1>t DEF PTypes
  <2> SUFFICES ASSUME NEW g \in Threads \cup {Idle}, NEW t \in dead'[g]
               PROVE  /\ state[t] = "ZOMBIE" /\ t \notin linked'
                      /\ \A k \in Threads \cup {Idle} : t \in dead'[k] => k = g
    BY <1>w, <2>1 DEF Detached
  <2>2. CASE g = h
    BY <1>z, <2>1, <2>2 DEF Detached
  <2>3. CASE g # h
    BY <1>z, <2>1, <2>3 DEF Detached
  <2> QED BY <2>2, <2>3
<1>4. Linked'
  BY <1>w DEF Linked, Live
<1>5. ZombieProcs'
  <2> SUFFICES ASSUME NEW q \in Procs PROVE ZombieProcs!(q)'
    BY DEF ZombieProcs
  <2>1. ThreadsOf(q)' = ThreadsOf(q) \ Z
    BY DEF ThreadsOf, ProcOf
  <2>2. ZombieProcs!(q)
    BY DEF ZombieProcs
  <2> QED BY <1>w, <2>1, <2>2
<1>6. Registered'
  BY <1>w DEF Registered, ProcOf
<1>7. OnTheWay'
  BY <1>w DEF OnTheWay, vars
<1>8. Seen'
  <2> SUFFICES ASSUME NEW t \in Threads, Listening(t)' PROVE Seen!(t)!2'
    BY DEF Seen
  <2>1. Listening(t)
    BY <1>w DEF Listening
  <2>2. Seen!(t)!2
    BY <2>1 DEF Seen
  <2>3. ProcOf'[t] = ProcOf[t] /\ ProcOf[t] \in Procs
    BY WorldTypes DEF ProcOf
  <2>4. Children(ProcOf[t])' \subseteq Children(ProcOf[t])
    BY <1>t, <2>3, ProcessTree DEF Children, PTypes
  <2> QED BY <2>2, <2>3, <2>4 DEF stop_vars
<1> QED BY <1>1, <1>2, <1>w, <1>3, <1>4, <1>5, <1>6, <1>7, <1>8

LEMMA ReapPInv ==
  ASSUME PInv, ZombieOffCPU, NEW c \in CPUs, NEW t \in Threads,
         DethreadReap(c, t) \/ WaitReap(c, t)
  PROVE  PInv'
<1>t. PTypes /\ ProcOf[t] \in Procs
  BY TypesSplit, WorldTypes DEF PInv
<1>1. PICK l \in {"run", "free"} : Goto(t, l)
  BY DEF DethreadReap, WaitReap
<1>2. upc[t] \notin {"wait", "woken"}
  BY DEF DethreadReap, WaitReap, Scanning, At
<1>3. /\ upc' \in [Threads -> Locations]
      /\ \A u \in Threads : \/ upc'[u] = upc[u]
                            \/ {upc'[u], upc[u]} \cap {"wait", "woken"} = {}
  BY <1>t, <1>1, <1>2 DEF Goto, PTypes, Locations
<1>4. /\ is_zombie' = is_zombie /\ UNCHANGED <<wait_thread, term, world>>
      /\ UNCHANGED vars /\ UNCHANGED stop_vars
  BY DEF DethreadReap, WaitReap
<1>5. CASE DethreadReap(c, t)
  <2> DEFINE Z == {u \in ThreadsOf(ProcOf[t]) \ {t} : state[u] = "ZOMBIE"}
  <2>1. linked' = linked \ Z /\ dead' = [dead EXCEPT ![t] = Z] /\ UNCHANGED <<listed, parent>>
    BY <1>5 DEF DethreadReap
  <2>2. Z \subseteq ThreadsOf(ProcOf[t]) /\ \A u \in Z : state[u] = "ZOMBIE"
    OBVIOUS
  <2>3. /\ parent' \in [Procs -> Procs \cup {None}] /\ listed' \subseteq listed
        /\ \A q \in Procs : parent'[q] \in {parent[q], None}
    BY <1>t, <2>1 DEF PTypes
  <2> HIDE DEF Z
  <2> QED BY <1>t, <1>3, <1>4, <2>1, <2>2, <2>3, CollectPInv
<1>6. CASE WaitReap(c, t)
  <2>1. PICK q \in Zombies(t) :
          /\ \A u \in ThreadsOf(q) : state[u] = "ZOMBIE"
          /\ listed' = listed \ {q}
          /\ linked' = linked \ ThreadsOf(q)
          /\ dead' = [dead EXCEPT ![t] = ThreadsOf(q)]
          /\ parent' = [p \in Procs |-> IF parent[p] = q THEN None ELSE parent[p]]
    BY <1>6 DEF WaitReap
  <2>2. q \in Procs
    BY <1>t DEF Zombies, Children, PTypes
  <2>3. /\ parent' \in [Procs -> Procs \cup {None}] /\ listed' \subseteq listed
        /\ \A p \in Procs : parent'[p] \in {parent[p], None}
    BY <1>t, <2>1 DEF PTypes
  <2> DEFINE Z == ThreadsOf(q)
  <2>4. /\ Z \subseteq ThreadsOf(q) /\ \A u \in Z : state[u] = "ZOMBIE"
        /\ linked' = linked \ Z /\ dead' = [dead EXCEPT ![t] = Z]
    BY <2>1
  <2> HIDE DEF Z
  <2> QED BY <1>3, <1>4, <2>2, <2>3, <2>4, CollectPInv
<1> QED BY <1>5, <1>6

(* The reaper makes a zombie only of a process that is one. *)
LEMMA ReaperSweepPInv ==
  ASSUME PInv, NEW c \in CPUs, NEW p \in Procs, ReaperSweep(c, p)
  PROVE  PInv'
<1>t. PTypes
  BY TypesSplit DEF PInv
<1> DEFINE T == ThreadsOf(p)
           Z == {t \in T : state[t] = "ZOMBIE"}
           kept == Z = T /\ parent[p] # None /\ ~is_zombie[parent[p]]
           gone == IF kept THEN {} ELSE Z
<1>1. /\ Z # {}
      /\ IF kept THEN is_zombie' = [is_zombie EXCEPT ![p] = TRUE]
                 ELSE UNCHANGED is_zombie
      /\ linked' = IF kept THEN linked ELSE linked \ Z
      /\ dead' = [dead EXCEPT ![Idle] = IF kept THEN {} ELSE Z]
      /\ listed' = IF Z = T /\ ~kept THEN listed \ {p} ELSE listed
      /\ parent' = [q \in Procs |-> IF Z = T /\ ~kept /\ parent[q] = p THEN None ELSE parent[q]]
      /\ UNCHANGED vars /\ UNCHANGED stop_vars
      /\ UNCHANGED <<upc, wait_thread, term, world>>
  BY DEF ReaperSweep
<1>2. is_zombie' = is_zombie
  <2>1. CASE kept
    <3>1. \A u \in T : state[u] = "ZOMBIE"
      BY <2>1
    <3>2. is_zombie[p]
      BY <1>1, <3>1 DEF PInv, ZombieProcs
    <3>3. is_zombie' = [is_zombie EXCEPT ![p] = TRUE] /\ is_zombie \in [Procs -> BOOLEAN]
      BY <1>t, <1>1, <2>1 DEF PTypes
    <3> HIDE DEF kept, Z, T
    <3> QED BY <3>2, <3>3
  <2>2. CASE ~kept
    BY <1>1, <2>2
  <2> QED BY <2>1, <2>2
<1>3. /\ parent' \in [Procs -> Procs \cup {None}] /\ listed' \subseteq listed
      /\ \A q \in Procs : parent'[q] \in {parent[q], None}
  BY <1>t, <1>1 DEF PTypes
<1>4. /\ gone \subseteq ThreadsOf(p) /\ \A u \in gone : state[u] = "ZOMBIE"
      /\ linked' = linked \ gone /\ dead' = [dead EXCEPT ![Idle] = gone]
  BY <1>1
<1>5. upc' \in [Threads -> Locations] /\ \A t \in Threads : upc'[t] = upc[t]
  BY <1>t, <1>1 DEF PTypes
<1> HIDE DEF gone, kept, Z, T
<1> QED BY <1>1, <1>2, <1>3, <1>4, <1>5, CollectPInv

LEMMA FreeOnePInv ==
  ASSUME PInv, NEW h \in Threads \cup {Idle}, NEW u \in Threads, FreeOne(h, u),
         upc' \in [Threads -> Locations],
         \A t \in Threads : \/ upc'[t] = upc[t]
                            \/ {upc'[t], upc[t]} \cap {"wait", "woken"} = {}
  PROVE  PInv'
<1> USE DEF PInv
<1>t. TypeOK /\ PTypes
  BY TypesSplit
<1>0. /\ u \in dead[h]
      /\ state' = [state EXCEPT ![u] = "FREE"]
      /\ dead' = [dead EXCEPT ![h] = @ \ {u}]
      /\ UNCHANGED <<unblock_pending, hr, tree, rq, current, prev, hand, listed, linked,
                     parent, is_zombie, wait_thread, term, world>>
      /\ UNCHANGED stop_vars
  BY DEF FreeOne
<1>1. DOMAIN dead = Threads \cup {Idle} /\ DOMAIN dead' = Threads \cup {Idle}
  BY <1>t, <1>0 DEF PTypes
<1>2. /\ state[u] = "ZOMBIE" /\ u \notin linked
      /\ \A g \in Threads \cup {Idle} : u \in dead[g] => g = h
  BY <1>0, <1>1 DEF Detached
<1>3. /\ \A t \in Threads : state'[t] = IF t = u THEN "FREE" ELSE state[t]
      /\ \A g \in Threads \cup {Idle} : dead'[g] = IF g = h THEN dead[h] \ {u} ELSE dead[g]
  BY <1>t, <1>0 DEF TypeOK, PTypes
<1>4. \A t \in Threads : /\ Live(t)' <=> Live(t)
                         /\ Parked(t)' => Parked(t)
                         /\ state'[t] = "RUNNING" => state[t] = "RUNNING"
  BY <1>0, <1>2, <1>3 DEF Live, Parked
<1>5. PTypeOK'
  <2>1. TypeOK'
    BY <1>t, <1>0 DEF TypeOK, States
  <2>2. PTypes'
    BY <1>t, <1>0 DEF PTypes, stop_vars
  <2> QED BY <2>1, <2>2, TypesSplit DEF PTypes, PTypeOK
<1>6. Given'
  BY <1>0 DEF Given
<1>7. Where'
  <2>1. \A d \in CPUs : hand'[d] = None /\ current'[d] # None
    BY <1>0 DEF Where
  <2>2. ASSUME NEW t \in Threads PROVE Where!2!(t)'
    <3>1. Where!2!(t)
      BY DEF Where
    <3>2. \A d \in CPUs : On(t, d)' <=> On(t, d)
      BY <1>0 DEF On
    <3> QED BY <1>0, <1>2, <1>3, <3>1, <3>2
  <2> QED BY <2>1, <2>2 DEF Where
<1>8. Detached'
  <2> SUFFICES ASSUME NEW g \in Threads \cup {Idle}, NEW t \in dead'[g]
               PROVE  /\ state'[t] = "ZOMBIE" /\ t \notin linked
                      /\ \A k \in Threads \cup {Idle} : t \in dead'[k] => k = g
    BY <1>0, <1>1 DEF Detached
  <2>1. t \in dead[g] /\ t # u /\ t \in Threads
    BY <1>t, <1>2, <1>3 DEF PTypes
  <2> QED BY <1>1, <1>3, <2>1 DEF Detached
<1>9. Linked'
  BY <1>0, <1>4 DEF Linked
<1>10. ZombieProcs'
  <2>1. \A q \in Procs : ThreadsOf(q)' = ThreadsOf(q)
    BY <1>0 DEF ThreadsOf, ProcOf
  <2>2. \A q \in Procs : \A v \in ThreadsOf(q) : state'[v] = state[v]
    BY <1>t, <1>2, <1>3 DEF ThreadsOf, PTypes
  <2> QED BY <1>0, <2>1, <2>2 DEF ZombieProcs
<1>11. Registered'
  BY <1>0, <1>4 DEF Registered, ProcOf
<1>12. OnTheWay'
  BY <1>0, <1>4 DEF OnTheWay
<1>13. Seen'
  <2> SUFFICES ASSUME NEW t \in Threads, Listening(t)' PROVE Seen!(t)!2'
    BY DEF Seen
  <2>1. Listening(t)
    BY <1>4 DEF Listening
  <2>2. Seen!(t)!2
    BY <2>1 DEF Seen
  <2>3. ProcOf'[t] = ProcOf[t] /\ Children(ProcOf[t])' = Children(ProcOf[t])
    BY <1>0 DEF ProcOf, Children
  <2> QED BY <1>0, <2>2, <2>3 DEF stop_vars
<1> QED BY <1>5, <1>6, <1>7, <1>8, <1>9, <1>10, <1>11, <1>12, <1>13

LEMMA FreePInv ==
  ASSUME PInv, NEW c \in CPUs,
         ReaperFree(c) \/ \E t \in Threads : WaitFree(c, t)
  PROVE  PInv'
<1>t. PTypes
  BY TypesSplit DEF PInv
<1>1. CASE ReaperFree(c)
  <2>1. PICK u \in Threads : FreeOne(Idle, u)
    BY <1>1 DEF ReaperFree
  <2>2. upc' \in [Threads -> Locations] /\ \A t \in Threads : upc'[t] = upc[t]
    BY <1>1, <1>t DEF ReaperFree, PTypes
  <2> QED BY <2>1, <2>2, FreeOnePInv
<1>2. ASSUME NEW t \in Threads, WaitFree(c, t) PROVE PInv'
  <2>1. PICK u \in Threads : FreeOne(t, u)
    BY <1>2 DEF WaitFree
  <2>2. PICK l \in {"run", "free"} : Goto(t, l)
    BY <1>2 DEF WaitFree
  <2>3. /\ upc' \in [Threads -> Locations]
        /\ \A v \in Threads : \/ upc'[v] = upc[v]
                              \/ {upc'[v], upc[v]} \cap {"wait", "woken"} = {}
    BY <1>2, <1>t, <2>2 DEF WaitFree, At, Goto, PTypes, Locations
  <2> QED BY <2>1, <2>3, FreeOnePInv
<1> QED BY <1>1, <1>2

(* The registration, in the section of the scan that found nothing. *)
LEMMA WaitRegisterPInv ==
  ASSUME PInv, ZombieOffCPU, NEW c \in CPUs, NEW t \in Threads, WaitRegister(c, t)
  PROVE  PInv'
<1> USE DEF PInv
<1>t. TypeOK /\ PTypes
  BY TypesSplit
<1> DEFINE p == ProcOf[t]
<1>0. /\ Scanning(c, t) /\ NothingToReport(t)
      /\ wait_thread[p] \in {None, t}
      /\ wait_thread' = [wait_thread EXCEPT ![p] = t]
      /\ Goto(t, "wait")
      /\ UNCHANGED vars /\ UNCHANGED <<tree_vars, term, world>>
      /\ UNCHANGED <<stop_state, stop_notified, cont_pending, stopped>>
      /\ UNCHANGED <<listed, linked, dead, parent, is_zombie>>
  BY DEF WaitRegister, tree_vars, stop_vars
<1>1. p \in Procs /\ Live(t) /\ current[c] = t
  BY <1>0, CurrentUser, WorldTypes DEF Scanning, At
<1>2. /\ TypeOK' /\ Where' /\ state' = state /\ current' = current
      /\ \A u \in Threads : (Live(u)' <=> Live(u)) /\ (Parked(u)' <=> Parked(u))
  BY <1>0, StillWhere DEF vars, Live, Parked
<1>3. /\ \A u \in Threads : upc'[u] = IF u = t THEN "wait" ELSE upc[u]
      /\ \A q \in Procs : wait_thread'[q] = IF q = p THEN t ELSE wait_thread[q]
      /\ ProcOf' = ProcOf
  BY <1>t, <1>0 DEF PTypes, Goto, ProcOf
<1>4. PTypeOK'
  <2>1. PTypes'
    BY <1>t, <1>0, <1>1 DEF PTypes, Goto, Locations
  <2> QED BY <1>2, <2>1, TypesSplit DEF PTypes, PTypeOK
<1>5. Given' /\ Detached' /\ Linked' /\ ZombieProcs'
  BY <1>0, <1>2 DEF Given, Detached, Linked, ZombieProcs, ThreadsOf, ProcOf, Live
<1>6. Registered'
  <2> SUFFICES ASSUME NEW q \in Procs, NEW u \in Threads, wait_thread'[q] = u
               PROVE  Registered!(q)!(u)!2'
    BY DEF Registered
  <2>1. CASE q = p
    BY <1>1, <1>2, <1>3, <2>1
  <2>2. CASE q # p
    <3>1. ProcOf[u] = q /\ Live(u) /\ upc[u] \in {"wait", "woken"}
      BY <1>3, <2>2 DEF Registered
    <3> QED BY <1>2, <1>3, <2>2, <3>1
  <2> QED BY <2>1, <2>2
<1>7. OnTheWay'
  BY <1>1, <1>2, <1>3 DEF OnTheWay
<1>8. Seen'
  <2> SUFFICES ASSUME NEW u \in Threads, Listening(u)' PROVE Seen!(u)!2'
    BY DEF Seen
  <2>1. /\ Children(ProcOf[u])' = Children(ProcOf[u]) /\ Children(ProcOf[u]) \subseteq Procs
        /\ ProcOf[u] \in Procs
    BY <1>t, <1>0, <1>3, WorldTypes DEF Children, PTypes
  <2>2. CASE u = t
    BY <1>0, <1>1, <1>3, <2>1, <2>2 DEF NothingToReport, Zombies
  <2>3. CASE u # t
    <3>1. Listening(u)
      BY <1>2, <1>3, <2>3 DEF Listening
    <3>2. Seen!(u)!2
      BY <3>1 DEF Seen
    <3>3. ProcOf[u] # p
      BY <1>0, <2>3, <3>2, SentinelsDistinct
    <3> QED BY <1>0, <1>3, <2>1, <3>2, <3>3
  <2> QED BY <2>2, <2>3
<1> QED BY <1>2, <1>4, <1>5, <1>6, <1>7, <1>8

LEMMA WaitWokenPInv ==
  ASSUME PInv, NEW c \in CPUs, NEW t \in Threads, WaitWoken(c, t)
  PROVE  PInv'
<1> USE DEF PInv
<1>t. TypeOK /\ PTypes
  BY TypesSplit
<1> DEFINE p == ProcOf[t]
<1>0. /\ wait_thread' = [wait_thread EXCEPT ![p] = IF @ = t THEN None ELSE @]
      /\ UNCHANGED vars /\ UNCHANGED <<tree_vars, term, world>>
      /\ UNCHANGED <<stop_state, stop_notified, cont_pending, stopped>>
      /\ UNCHANGED <<listed, linked, dead, parent, is_zombie>>
  BY DEF WaitWoken, tree_vars, stop_vars
<1>1. PICK l \in {"scan", "run"} : Goto(t, l)
  BY DEF WaitWoken
<1>2. /\ TypeOK' /\ Where' /\ state' = state /\ current' = current
      /\ \A u \in Threads : (Live(u)' <=> Live(u)) /\ (Parked(u)' <=> Parked(u))
  BY <1>0, StillWhere DEF vars, Live, Parked
<1>3. /\ \A u \in Threads : upc'[u] = IF u = t THEN l ELSE upc[u]
      /\ \A q \in Procs : wait_thread'[q] = IF q = p /\ wait_thread[q] = t
                                            THEN None ELSE wait_thread[q]
      /\ ProcOf' = ProcOf /\ p \in Procs
  BY <1>t, <1>0, <1>1, WorldTypes DEF PTypes, Goto, ProcOf
<1>4. PTypeOK'
  <2>1. PTypes'
    BY <1>t, <1>0, <1>1, <1>3 DEF PTypes, Goto, Locations
  <2> QED BY <1>2, <2>1, TypesSplit DEF PTypes, PTypeOK
<1>5. Given' /\ Detached' /\ Linked' /\ ZombieProcs'
  BY <1>0, <1>2 DEF Given, Detached, Linked, ZombieProcs, ThreadsOf, ProcOf, Live
<1>6. Registered'
  <2> SUFFICES ASSUME NEW q \in Procs, NEW u \in Threads, wait_thread'[q] = u
               PROVE  Registered!(q)!(u)!2'
    BY DEF Registered
  <2>1. wait_thread[q] = u /\ ~(q = p /\ u = t)
    BY <1>3, SentinelsDistinct
  <2>2. ProcOf[u] = q /\ Live(u) /\ upc[u] \in {"wait", "woken"}
    BY <2>1 DEF Registered
  <2> QED BY <1>2, <1>3, <2>1, <2>2
<1>7. OnTheWay'
  BY <1>2, <1>3 DEF OnTheWay
<1>8. Seen'
  <2> SUFFICES ASSUME NEW u \in Threads, Listening(u)' PROVE Seen!(u)!2'
    BY DEF Seen
  <2>1. /\ Children(ProcOf[u])' = Children(ProcOf[u]) /\ Children(ProcOf[u]) \subseteq Procs
        /\ ProcOf[u] \in Procs
    BY <1>t, <1>0, <1>3, WorldTypes DEF Children, PTypes
  <2>2. Listening(u) /\ u # t
    BY <1>2, <1>3 DEF Listening
  <2>3. Seen!(u)!2
    BY <2>2 DEF Seen
  <2> QED BY <1>0, <1>3, <2>1, <2>2, <2>3
<1> QED BY <1>2, <1>4, <1>5, <1>6, <1>7, <1>8

----------------------------------------------------------------------------
(* The invariant *)

LEMMA NextPInv ==
  ASSUME PInv, ZombieOffCPU, [PNext]_allvars
  PROVE  PInv'
<1>1. CASE UNCHANGED allvars
  <2>1. /\ UNCHANGED vars /\ UNCHANGED <<upc, wait_thread, term, world>>
        /\ UNCHANGED tree_vars /\ UNCHANGED stop_vars
    BY <1>1 DEF allvars, pvars
  <2>2. TypeOK' /\ Where' /\ \A t \in Threads : Keeps(t)
    BY <2>1, StillWhere
  <2>3. \A t \in Threads : Listening(t)' => Listening(t)
    BY <2>1 DEF Listening, Parked, vars
  <2>4. upc' \in [Threads -> Locations] /\ current' = current
    BY <2>1 DEF PInv, PTypeOK, vars
  <2> QED BY <2>1, <2>2, <2>3, <2>4, SchedPInv
<1>2. CASE PNext
  <2>1. PICK c \in CPUs :
           \/ \E due \in BOOLEAN : ProcPostSwitch(c, due)
           \/ Ordinary(c)
           \/ \E p \in Procs : Kill(c, p)
           \/ \E p \in Procs : Stop(c, p)
           \/ \E p \in Procs : Continue(c, p)
           \/ \E p \in Procs : ReaperSweep(c, p)
           \/ ReaperFree(c)
           \/ \E t \in Threads :
                \/ ExitGroup(c, t) \/ ExitThread(c, t) \/ DethreadReap(c, t)
                \/ WaitReap(c, t) \/ WaitRetry(c, t) \/ WaitReport(c, t) \/ WaitReturn(c, t)
                \/ WaitRegister(c, t) \/ WaitBlock(c, t) \/ WaitWoken(c, t)
                \/ WaitFree(c, t)
                \/ StopTest(c, t) \/ StopMark(c, t) \/ StopAnnounce(c, t)
                \/ StopPark(c, t) \/ StopUnpark(c, t)
    BY <1>2 DEF PNext
  <2>2. CASE \E due \in BOOLEAN : ProcPostSwitch(c, due)
    BY <2>2, ProcPostSwitchPInv
  <2>3. CASE Ordinary(c)
    BY <2>3, OrdinaryPInv
  <2>4. CASE \E p \in Procs : Kill(c, p)
    BY <2>4, KillPInv
  <2>5. CASE \E p \in Procs : Stop(c, p)
    BY <2>5, StopPInv
  <2>6. CASE \E p \in Procs : Continue(c, p)
    BY <2>6, ContinuePInv
  <2>7. CASE \E p \in Procs : ReaperSweep(c, p)
    BY <2>7, ReaperSweepPInv
  <2>8. CASE ReaperFree(c) \/ \E t \in Threads : WaitFree(c, t)
    BY <2>8, FreePInv
  <2>9. ASSUME NEW t \in Threads,
               \/ ExitGroup(c, t)
               \/ DethreadReap(c, t) \/ WaitReap(c, t)
               \/ WaitRegister(c, t) \/ WaitWoken(c, t) \/ StopAnnounce(c, t)
        PROVE  PInv'
    BY <2>9, ExitGroupPInv, ReapPInv, WaitRegisterPInv, WaitWokenPInv, StopAnnouncePInv
  <2>10. ASSUME NEW t \in Threads,
               \/ ExitThread(c, t) \/ WaitRetry(c, t) \/ WaitBlock(c, t) \/ StopPark(c, t)
         PROVE PInv'
    BY <2>10, LeavePInv
  <2>11. ASSUME NEW t \in Threads,
               \/ WaitReport(c, t) \/ WaitReturn(c, t)
               \/ StopTest(c, t) \/ StopMark(c, t) \/ StopUnpark(c, t)
         PROVE PInv'
    BY <2>11, OwnStepsPInv
  <2> QED BY <2>1, <2>2, <2>3, <2>4, <2>5, <2>6, <2>7, <2>8, <2>9, <2>10, <2>11
<1> QED BY <1>1, <1>2

LEMMA InitPInv == PInit => PInv
<1> SUFFICES ASSUME PInit PROVE PInv
  OBVIOUS
<1> USE DEF PInit
<1>1. /\ world \in Worlds /\ world.threads \subseteq Threads
  BY WorldsOK
<1>2. TypeOK
  BY <1>1 DEF TypeOK, States
<1>b. \A no : no = [p \in Procs |-> FALSE] =>
            no \in [Procs -> BOOLEAN] /\ \A p \in Procs : ~no[p]
  OBVIOUS
<1>z. /\ is_zombie \in [Procs -> BOOLEAN] /\ \A p \in Procs : ~is_zombie[p]
      /\ term \in [Procs -> BOOLEAN] /\ stop_state \in [Procs -> BOOLEAN]
      /\ stop_notified \in [Procs -> BOOLEAN] /\ cont_pending \in [Procs -> BOOLEAN]
  <2>1. PICK no \in {[p \in Procs |-> FALSE]} :
          /\ is_zombie = no /\ term = no
          /\ stop_state = no /\ stop_notified = no /\ cont_pending = no
    OBVIOUS
  <2> QED BY <1>b, <2>1
<1>d. /\ dead \in [Threads \cup {Idle} -> SUBSET Threads]
      /\ upc \in [Threads -> Locations] /\ stopped \in [Threads -> BOOLEAN]
      /\ wait_thread \in [Procs -> Threads \cup {None}]
  BY DEF Locations
<1>3. PTypes
  BY <1>1, <1>z, <1>d, ProcessTree DEF PTypes
<1>4. PTypeOK
  BY <1>2, <1>3, TypesSplit
<1>5. Given
  BY ProcessTree DEF Given
<1>6. Where
  BY <1>1, SentinelsDistinct DEF Where, On
<1>7. Detached /\ Linked
  BY DEF Detached, Linked, Live
<1>8. ZombieProcs
  BY <1>1, <1>z DEF ZombieProcs, ThreadsOf
<1>9. Registered /\ OnTheWay /\ Seen
  BY SentinelsDistinct DEF Registered, OnTheWay, Seen, Listening
<1> QED BY <1>4, <1>5, <1>6, <1>7, <1>8, <1>9 DEF PInv

LEMMA PInvariant == PSpec /\ []ZombieOffCPU => []PInv
<1>1. PInit => PInv
  BY InitPInv
<1>2. PInv /\ ZombieOffCPU /\ [PNext]_allvars => PInv'
  BY NextPInv
<1> QED BY <1>1, <1>2, PTL DEF PSpec

(* As long as no zombie is on a CPU, what waitpid(), the reaper and exec hold
   to free outside the lock is dead, in no thread list and on one of their
   lists only. *)
THEOREM DeadThreadsFreedOnce == PSpec /\ []ZombieOffCPU => []FreedOnce
<1>1. PInv => FreedOnce
  BY DEF PInv, Detached, FreedOnce
<1> QED BY <1>1, PInvariant, PTL

(* A registration in wait_thread never outlives the thread it names: a death
   takes it away wherever in waitpid() it strikes. *)
THEOREM RegistrationsLive == PSpec /\ []ZombieOffCPU => []WaitThreadLive
<1>1. PInv => WaitThreadLive
  <2> SUFFICES ASSUME PInv, NEW p \in Procs, wait_thread[p] # None
               PROVE  /\ state[wait_thread[p]] \notin {"ZOMBIE", "FREE"}
                      /\ upc[wait_thread[p]] \in {"wait", "woken"}
    BY DEF WaitThreadLive
  <2>1. wait_thread[p] \in Threads
    BY DEF PInv, PTypeOK
  <2>2. \A t \in Threads : wait_thread[p] = t => Live(t) /\ upc[t] \in {"wait", "woken"}
    BY DEF PInv, Registered
  <2> QED BY <2>1, <2>2 DEF Live
<1> QED BY <1>1, PInvariant, PTL

(* A parent is never parked in waitpid() past the death of a child. *)
THEOREM ChildDeathsWake == PSpec /\ []ZombieOffCPU => []WaiterNotStranded
<1>1. PInv => WaiterNotStranded
  BY DEF PInv, Seen, Listening, WaiterNotStranded, Zombies
<1> QED BY <1>1, PInvariant, PTL

(* Nor, if it asks for them, past the continuation of one. *)
THEOREM ContinuesWake == PSpec /\ []ZombieOffCPU => []ContinueSeen
<1>1. PInv => ContinueSeen
  <2>1. Given => world.untraced \subseteq Threads
    BY WorldsOK DEF Given
  <2> QED BY <2>1 DEF PInv, Seen, Listening, ContinueSeen
<1> QED BY <1>1, PInvariant, PTL
=============================================================================
