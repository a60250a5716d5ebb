------------------------------ MODULE MCSched ------------------------------
(* The scheduler core for TLC.  Liveness is checked, so no symmetry is used. *)
EXTENDS Sched
=============================================================================
