--------------------------- MODULE MC_HciCommand ---------------------------
(* Values for model-checking HciCommand: the reader and the work queue,     *)
(* whose calls nothing below it can come between.                           *)
EXTENDS HciCommand

MCCallers == {"reader", "wq"}
MCCoop    == {"wq"}
=============================================================================
