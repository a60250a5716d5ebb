---------------------------- MODULE MCSchedProc ----------------------------
(* A parent and its child.  The sets of worlds are closed under permutations of
   the threads, so symmetry is sound. *)
EXTENDS SchedProc, Naturals, TLC

CONSTANTS Parent, Child

MCParentOf == [q \in Procs |-> IF q = Child THEN Parent ELSE None]

(* The worlds with n threads in the parent, which ask for reports if rep, and k
   in the child. *)
Family(n, k, sigs, rep) ==
    LET Shape(N, M) == Cardinality(N) = n /\ Cardinality(M) = n + k /\ N \subseteq M
    IN  {[threads |-> X[2],
          proc |-> [t \in Threads |-> IF t \in X[1] THEN Parent ELSE Child],
          signals |-> sigs,
          untraced |-> IF rep THEN X[1] ELSE {}] :
              X \in {Y \in (SUBSET Threads) \X (SUBSET Threads) : Shape(Y[1], Y[2])}}

(* A child of two threads; a parent of two; job control. *)
MCWorlds == Family(1, 2, {"KILL"}, FALSE)
            \cup Family(2, 1, {"KILL"}, FALSE)
            \cup Family(1, 1, {"KILL", "STOP", "CONT"}, TRUE)
KillWorlds == Family(1, 1, {"KILL"}, TRUE)
StopWorlds == Family(1, 1, {"STOP", "CONT"}, TRUE)

Symmetry == Permutations(Threads) \cup Permutations(CPUs)
=============================================================================
