----------------------------- MODULE MCSmpCall -----------------------------
(* Small instances of the cross-CPU call: two CPUs that call each other, two
   that share the inbox of a third, and a call of two CPUs that crosses a call
   from one of them. *)
EXTENDS SmpCall, TLC

CONSTANTS c1, c2, c3

Calls(m1, m2, n) == [masks |-> (c1 :> m1) @@ (c2 :> m2), calls |-> n]

MCLoads == {Calls({{c2}}, {{c1}}, 2),
            Calls({{c3}}, {{c3}}, 2),
            Calls({{c2, c3}}, {{c1}, {c3}}, 1)}
=============================================================================
