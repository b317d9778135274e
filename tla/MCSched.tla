------------------------------ MODULE MCSched ------------------------------
(***************************************************************************)
(* Instances of the scheduler for TLC.                                     *)
(***************************************************************************)
EXTENDS Sched

CONSTANTS t1, t2, t3
=============================================================================
