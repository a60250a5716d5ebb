------------------------------- MODULE MCPipe -------------------------------
(* A pipe of two bytes and requests shorter than the pipe, as long and longer,
   of both kinds.  Liveness is checked, so no symmetry is used. *)
EXTENDS Pipe

CONSTANTS r1, r2, w1, w2

User(n) == [user |-> TRUE, len |-> n, nonblock |-> FALSE]
Kernel(n) == [user |-> FALSE, len |-> n, nonblock |-> FALSE]
Try(c) == [c EXCEPT !.nonblock = TRUE]

Calling(r, s, v, w) ==
    [t \in Threads |-> CASE t = r1 -> r [] t = r2 -> s [] t = w1 -> v [] t = w2 -> w]

(* Two readers and an interrupted writer; two writers and an interrupted
   reader; an interrupted reader and one that never sleeps.  At the interrupted
   end nobody else sleeps. *)
MCLoads ==
    {[calls |-> Calling({User(2), Kernel(1)}, {User(1)}, {User(3), Kernel(2)}, {}),
      hit |-> {w1}],
     [calls |-> Calling({Kernel(1)}, {}, {User(2), User(3)}, {Kernel(3)}),
      hit |-> {r1}],
     [calls |-> Calling({User(1)}, {Try(Kernel(1)), Try(User(2))}, {Kernel(2), Try(User(2))}, {}),
      hit |-> {r1}]}

(* Two readers that are interrupted. *)
CutLoads ==
    {[calls |-> Calling({User(2)}, {User(1)}, {Kernel(1)}, {}), hit |-> {r1, r2}]}
=============================================================================
