-------------------------------- MODULE MCAta --------------------------------
(***************************************************************************)
(* Instances of the ATA driver for TLC: a master with one sector, so that  *)
(* sector 1 passes the driver's check and fails on the device, and a slave *)
(* with two.                                                               *)
(***************************************************************************)
EXTENDS Ata, TLC

MCSize == (0 :> 1 @@ 1 :> 2)
=============================================================================
