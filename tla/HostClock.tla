----------------------------- MODULE HostClock -----------------------------
(***************************************************************************)
(* How the host puts times back on the packets of a batch.  A batch        *)
(* carries one base timestamp; the first entry's delta is measured from it *)
(* and every later one from the entry before (batch.h), so the host adds.  *)
(***************************************************************************)
EXTENDS Integers, Sequences

HostTime(base, entries) ==
  LET at[i \in 1 .. Len(entries)] ==
        IF i = 1 THEN base + entries[1].dt ELSE at[i - 1] + entries[i].dt
  IN  at
=============================================================================
