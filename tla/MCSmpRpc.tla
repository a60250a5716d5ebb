------------------------------ MODULE MCSmpRpc ------------------------------
(* Three senders competing for the slot of one CPU.  Liveness is checked, so
   no symmetry is used. *)
EXTENDS SmpRpc
=============================================================================
