------------------------------- MODULE MCTlb -------------------------------
EXTENDS Tlb, TLC

CONSTANTS c1, c2, c3, k, p, q, sk, sp, sq, sx

\* Two processes with spaces and tags of their own.
OwnSpaces == (k :> sk) @@ (p :> sp) @@ (q :> sq)
OwnTags == (k :> 0) @@ (p :> 1) @@ (q :> 2)

\* clone(CLONE_VM): q shares p's page tables under a tag and a mask of its own.
SharedSpace == (k :> sk) @@ (p :> sp) @@ (q :> sp)

\* Two CPUs: one process that also execs; its page and the kernel's; two
\* processes whose tags meet in one request.  Three CPUs: one edit, where not
\* every CPU is a target, and one where an interrupt to two targets gets lost.
MCLoads ==
    {[online |-> {c1, c2}, runs |-> {k, p}, edits |-> {sp, sx},
      kinds |-> {"map", "fault"}, maxEdits |-> 2, maxLost |-> 1],
     [online |-> {c1, c2}, runs |-> {k, p}, edits |-> {sk, sp},
      kinds |-> {"map", "clone"}, maxEdits |-> 2, maxLost |-> 0],
     [online |-> {c1, c2}, runs |-> {p, q}, edits |-> {sp, sq},
      kinds |-> {"map", "fault"}, maxEdits |-> 2, maxLost |-> 0],
     [online |-> {c1, c2, c3}, runs |-> {k, p}, edits |-> {sp}, kinds |-> {"map"},
      maxEdits |-> 1, maxLost |-> 0],
     [online |-> {c1, c2, c3}, runs |-> {p}, edits |-> {sp}, kinds |-> {"map"},
      maxEdits |-> 1, maxLost |-> 1]}

\* The load of the shared space.
SharedLoads ==
    {[online |-> {c1, c2}, runs |-> {p, q}, edits |-> {sp}, kinds |-> {"map"},
      maxEdits |-> 1, maxLost |-> 0]}
=============================================================================
