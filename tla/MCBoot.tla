------------------------------- MODULE MCBoot -------------------------------
(***************************************************************************)
(* Instances of the boot model for TLC.  MCBoot.cfg: two devices with two     *)
(* functions each on bus 0, both with an IDE controller, one device on     *)
(* bus 1, and a function and a bus at the limits of the loops.             *)
(* MCBootScan.cfg: a device on bus 0, one at the limit of the device loop  *)
(* and one on a bus at the limit of the bus loop.                          *)
(***************************************************************************)
EXTENDS Boot

MCSlots == {<<0, 0, 0>>, <<0, 0, 1>>, <<0, 1, 0>>, <<0, 1, 1>>, <<1, 0, 0>>,
            <<0, 0, 2>>, <<2, 0, 0>>}
MCAta == {<<0, 0, 1>>, <<0, 1, 1>>}

MCLimitSlots == {<<0, 0, 0>>, <<0, 0, 1>>, <<0, 2, 0>>, <<2, 0, 0>>}
MCLimitAta == {<<0, 0, 1>>}
=============================================================================
