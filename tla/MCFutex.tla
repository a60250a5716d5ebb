------------------------------ MODULE MCFutex ------------------------------
EXTENDS Futex, TLC

CONSTANTS t1, t2, t3, x, y, j

Does(a, b, c) == (t1 :> a) @@ (t2 :> b) @@ (t3 :> c)
Apart == (x :> 1) @@ (y :> 2) @@ (j :> 1)
Together == (x :> 1) @@ (y :> 1) @@ (j :> 2)

Load(can, n, s, masks, hash) ==
    [can |-> can, calls |-> n, signals |-> s, masks |-> masks, hash |-> hash,
     tid |-> j]

\* A joiner, an exiting thread and stray wake-ups; two waiters and a thread
\* that stores, wakes and requeues, in one bucket or two; bitsets; waiters on
\* two words; and a wake that also writes a word.
MCLoads ==
    {Load(Does({"join"}, {"exit"}, {"wake"}), 3, 1, {Bits}, Apart),
     Load(Does({"wait", "timed"}, {"wait"}, {"store", "wake", "requeue"}), 4, 1,
          {Bits}, Apart),
     Load(Does({"wait"}, {"wait"}, {"wake", "requeue"}), 4, 0, {Bits}, Together),
     Load(Does({"wait"}, {"wait"}, {"wake"}), 3, 0, {{1}, {2}, {1, 2}}, Apart),
     Load(Does({"waitv"}, {"wait"}, {"store", "wake", "requeue"}), 3, 1, {Bits}, Apart),
     Load(Does({"wait"}, {"op"}, {"store", "wake"}), 4, 1, {Bits}, Apart)}
=============================================================================
