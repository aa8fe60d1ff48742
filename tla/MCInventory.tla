---------------------------- MODULE MCInventory ----------------------------
(* The default group and the names of one site. *)
EXTENDS Inventory

MCBases == {"default", "site"}
=============================================================================
