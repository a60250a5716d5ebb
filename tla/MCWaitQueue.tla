---------------------------- MODULE MCWaitQueue ----------------------------
(* The wait queue for TLC.  Liveness is checked, so no symmetry is used. *)
EXTENDS WaitQueue
=============================================================================
