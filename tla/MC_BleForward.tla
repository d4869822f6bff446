---------------------------- MODULE MC_BleForward ----------------------------
(* Values for model-checking BleForward: packets whose times jump past a    *)
(* delta, stand still and run backwards; three of the short ones fill a     *)
(* batch, and one is too long to keep whole or to make three with others.   *)
EXTENDS BleForward

MCArrivals ==
  {[kind |-> "report", ts |-> 1, full |-> 2],
   [kind |-> "report", ts |-> 5, full |-> 2],
   [kind |-> "iso",    ts |-> 2, full |-> 4]}
=============================================================================
