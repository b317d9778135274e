------------------------------ MODULE MCTimer ------------------------------
(***************************************************************************)
(* TickMs and Mod share the factor 2 and no other, as 10 and 2^32 do: the  *)
(* counter takes the even values and end = Mod - 1 is never reached.       *)
(***************************************************************************)
EXTENDS Timer
=============================================================================
