----------------------------- MODULE LossyFifo -----------------------------
(***************************************************************************)
(* What the capture path promises between a radio and the outbound link.   *)
(*                                                                         *)
(* Packets go in one at a time.  Whatever has gone in since the last send  *)
(* leaves together: either all of it reaches the host, in order and        *)
(* exactly as captured, or all of it is refused by the link and every      *)
(* packet of it is counted.  Nothing is duplicated, reordered, altered or  *)
(* dropped uncounted.  Module Batch implements this.                       *)
(***************************************************************************)
EXTENDS Naturals, Sequences

CONSTANT Packet      \* the packets a radio can hand over

VARIABLES
  pending,           \* captured and not yet handed to the link, oldest first
  delivered,         \* what the host has decoded so far
  lost               \* packets refused by the link since the last reset

vars == <<pending, delivered, lost>>

Init ==
  /\ pending = <<>>
  /\ delivered = <<>>
  /\ lost = 0

Take(p) ==
  /\ pending' = Append(pending, p)
  /\ UNCHANGED <<delivered, lost>>

Deliver ==
  /\ pending # <<>>
  /\ delivered' = delivered \o pending
  /\ pending' = <<>>
  /\ UNCHANGED lost

Refuse ==
  /\ pending # <<>>
  /\ lost' = lost + Len(pending)
  /\ pending' = <<>>
  /\ UNCHANGED delivered

\* A host that opens a session starts its loss count from zero.
Reset ==
  /\ lost' = 0
  /\ UNCHANGED <<pending, delivered>>

Next ==
  \/ \E p \in Packet : Take(p)
  \/ Deliver
  \/ Refuse
  \/ Reset

Spec == Init /\ [][Next]_vars
=============================================================================
