--------------------------- MODULE MC_BleFollow ---------------------------
(* Model-checking BleFollow: its constants are numbers, given in the cfgs.  *)
EXTENDS BleFollow
=============================================================================
