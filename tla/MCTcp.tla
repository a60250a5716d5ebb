------------------------------- MODULE MCTcp -------------------------------
EXTENDS TcpInv, TLC

CONSTANTS c1, c2, a, b

Load(can, kids, retries, lose, dup, bytes, signals, reorder, ticks) ==
    [can |-> can, backlog |-> 1, kids |-> kids, retries |-> retries, lose |-> lose, dup |-> dup,
     bytes |-> bytes, signals |-> signals, reorder |-> reorder,
     ticks |-> ticks]

Does(x, y, u, v) == (c1 :> x) @@ (c2 :> y) @@ (a :> u) @@ (b :> v)

MCLoads ==
    {Load(Does({"connect"}, {}, {"accept", "close"}, {"closeL"}), 2, 0, 0, 0, 0, 0, FALSE, TRUE),
     Load(Does({"connect"}, {"connect"}, {"accept"}, {}), 2, 0, 0, 0, 0, 0, FALSE, FALSE),
     Load(Does({"connect"}, {"connect"}, {"accept"}, {}), 1, 0, 0, 0, 0, 0, FALSE, TRUE),
     Load(Does({"connect", "stale"}, {}, {"accept", "close"}, {}), 2, 1, 1, 0, 0, 0, FALSE, TRUE),
     Load(Does({"connect", "send"}, {}, {"accept", "recv"}, {}), 2, 0, 0, 1, 3, 0, TRUE, FALSE),
     Load(Does({"connect", "send", "close"}, {}, {"accept", "recv"}, {}), 2, 0, 1, 0, 3, 0, FALSE, FALSE),
     Load(Does({"connect", "shutdown", "recv"}, {}, {"accept", "send", "close"}, {}), 2, 0, 0, 0, 1, 1, FALSE, FALSE),
     Load(Does({"connectNB", "close"}, {}, {"accept", "recv"}, {}), 2, 1, 0, 0, 0, 0, FALSE, TRUE)}

(* The hypotheses of the theorems on sleepers and streams hold of these loads. *)
ASSUME Hypotheses == OneAcceptor /\ SeqsApart
=============================================================================
