------------------------------ MODULE MC_Batch ------------------------------
(* Values for model-checking Batch: two channels, a clock that may also run *)
(* backwards, a length past the PSDU limit, and a delta, an entry count and *)
(* a buffer small enough that each of the four reasons to close a batch     *)
(* early, and the full batch, happen within a few packets.                  *)
EXTENDS Batch

MCChannels == {11, 12}
MCTimes    == {1, 2, 5}
MCLens     == {1, 7}
=============================================================================
