---------------------------- MODULE MC_Radio154 ----------------------------
(* Values for model-checking Radio154: two channels the radio has and one a *)
(* corrupted byte asks for.                                                 *)
EXTENDS Radio154

MCChannels == {11, 12}
MCAsked    == {11, 12, 27}
=============================================================================
