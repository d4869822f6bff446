----------------------------- MODULE MC_Control -----------------------------
(* Values for model-checking Control: two channels, one the radio lacks and *)
(* one that is a channel in its low byte only; every radio; timings that    *)
(* are taken, defaulted, clamped and wrapped; lists too long for their      *)
(* table.                                                                   *)
EXTENDS Control

MCChannels == {11, 12}
MCValues   == {10, 11, 256 + 12}
MCRadios   == {RADIO_154, RADIO_WIFI, RADIO_BLE}
MCTimings  == {[interval |-> 100, window |-> 33], [interval |-> 0, window |-> 90],
               [interval |-> 41000, window |-> 0]}
MCEntries  == {"a", "b", "bad"}
MCKeys     == {<<"a">>, <<"b", "bad">>, <<"a", "b", "a">>}
MCFilters  == {<<>>, <<"a">>, <<"b", "a">>}
=============================================================================
