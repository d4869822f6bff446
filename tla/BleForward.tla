----------------------------- MODULE BleForward -----------------------------
(***************************************************************************)
(* Forwarding and batching of BLE packets, src/radio_ble.c: forward,       *)
(* ble_flush_locked, the linger timer, the flush of sn_radio_ble_stop and  *)
(* the counters that stats_tick puts in every STATS frame.                 *)
(*                                                                         *)
(* The forwarding thread adds packets to the open batch, the reader stops  *)
(* a capture and sends what is left of it, the work queue sends a batch    *)
(* that has lingered and, once a second, reads the counters.  A mutex      *)
(* covers the batch; its owner may have to wait inside sn_link_send, so    *)
(* the other two queue up behind it: the work queue first, the others as   *)
(* they came.                                                              *)
(*                                                                         *)
(* The work queue is cooperative and above the other two: it interrupts    *)
(* them anywhere and is itself interrupted only where it waits.  The other *)
(* two are preemptible, of one priority and time-sliced, so either may     *)
(* come in between any two steps of the other.                             *)
(*                                                                         *)
(* Of a packet the kind, the time and the length are kept.  Whether the    *)
(* link takes a frame is a free choice, as in Batch.                       *)
(***************************************************************************)
EXTENDS HostClock

CONSTANTS
  Arrivals,      \* the packets that may arrive, see Arrival
  MaxPacket,     \* SN_BLE_MAX_PACKET, 300
  MaxEntries,    \* BLE_MAX_ENTRIES, 32
  MaxDt,         \* 0xFFFF
  HeaderLen,     \* BLE_BATCH_HDR_LEN, 9
  EntryLen,      \* BLE_ENTRY_LEN, 7
  MaxBytes,      \* BLE_BATCH_BUF, 2048
  MaxPackets,    \* bound of the model: packets forwarded
  MaxStops       \* bound of the model: STOPs, GET_INFO's included

\* Advertising reports, other events, and isochronous data.
Kinds == {"report", "event", "iso"}

\* Its time in microseconds, and its length with the type byte counted.
Arrival == [kind : Kinds, ts : Nat, full : Nat]

ASSUME ForwardAssumption ==
  /\ Arrivals \subseteq Arrival
  /\ MaxEntries \in Nat \ {0, 1}
  /\ MaxPacket \in Nat /\ MaxDt \in Nat
  /\ HeaderLen \in Nat /\ EntryLen \in Nat /\ MaxBytes \in Nat
  /\ HeaderLen + EntryLen + MaxPacket <= MaxBytes
  /\ MaxPackets \in Nat /\ MaxStops \in Nat

VARIABLES
  running,
  bbuf,          \* the entries of the open batch; bcount is their number
  bused, bbase_us, blast_us,
  captured, adv_reports, oversized, forwarded, dropped,
  block,         \* the mutex's owner, or "none"
  waiting,       \* the threads that wait for it, next owner first
  pc,            \* where each thread is
  pkt,           \* the packet in forward
  linger,        \* the delayable work item ble_linger
  pending,       \* history: the packets whose entries are in bbuf
  delivered,     \* history: what the host decoded from accepted frames
  offered, stops \* for the bounds

bufVars   == <<bbuf, bused, bbase_us, blast_us>>
sendVars  == <<forwarded, dropped, pending, delivered>>
takeVars  == <<captured, adv_reports, oversized>>
schedVars == <<block, waiting, pc>>
boundVars == <<offered, stops>>
batchVars == <<bufVars, sendVars>>
otherVars == <<running, takeVars, pkt, boundVars>>
vars == <<batchVars, otherVars, schedVars, linger>>

Threads == {"fwd", "reader", "wq"}

Entry == [dt : 0 .. MaxDt, kind : Kinds, full : Nat, take : 0 .. MaxPacket,
          truncated : BOOLEAN]

bcount == Len(bbuf)
-----------------------------------------------------------------------------
(* The mutex `block` and who runs. *)

\* Only the work queue keeps the others out, unless it is idle or waits.
MayRun(t) == t # "wq" => pc["wq"] \in {"idle", "wait", "send"}

Goes(t, at) == pc' = [pc EXCEPT ![t] = at]

Lock(t) ==
  /\ pc[t] = "lock" /\ MayRun(t)
  /\ IF block = "none"
     THEN block' = t /\ Goes(t, "locked") /\ UNCHANGED waiting
     ELSE /\ waiting' = IF t = "wq" THEN <<t>> \o waiting ELSE Append(waiting, t)
          /\ Goes(t, "wait")
          /\ UNCHANGED block
  /\ UNCHANGED <<batchVars, otherVars, linger>>

\* k_mutex_unlock hands the mutex to the first in the queue.
Unlock(t, at) ==
  IF waiting = <<>>
  THEN /\ block' = "none"
       /\ Goes(t, at)
       /\ UNCHANGED waiting
  ELSE /\ block' = Head(waiting)
       /\ waiting' = Tail(waiting)
       /\ pc' = [pc EXCEPT ![t] = at, ![Head(waiting)] = "locked"]
-----------------------------------------------------------------------------
(* The delayable work item, as in Batch. *)

LingerIdle == [delayed |-> FALSE, queued |-> FALSE, canceling |-> FALSE]

Cancel ==
  linger' = [delayed |-> FALSE, queued |-> FALSE,
             canceling |-> pc["wq"] # "idle"]

Reschedule == linger' = [linger EXCEPT !.delayed = TRUE]
-----------------------------------------------------------------------------
(* ble_flush_locked and send_alone. *)

\* A batch of one travels as a PACKET, stamped with the base.
Decode(base, entries) ==
  LET stamp == IF Len(entries) = 1 THEN <<base>> ELSE HostTime(base, entries)
  IN  [i \in 1 .. Len(entries) |->
        [kind |-> entries[i].kind, ts |-> stamp[i], full |-> entries[i].full,
         take |-> entries[i].take, truncated |-> entries[i].truncated]]

\* One refused frame counted once, whatever it held.
Loss_PerFrame == 1

\* "Counted in packets, not frames."
Loss == bcount

\* The link has taken the open batch, or refused it, and it is counted.
Handed ==
  /\ \/ /\ delivered' = delivered \o Decode(bbase_us, bbuf)
        /\ forwarded' = forwarded + bcount
        /\ UNCHANGED dropped
     \/ /\ dropped' = dropped + Loss
        /\ UNCHANGED <<delivered, forwarded>>
  /\ pending' = <<>>

\* A batch of one, sent on its own, left in the buffer.
Emptied_BatchesOnly ==
  IF bcount = 1
  THEN UNCHANGED bufVars
  ELSE bbuf' = <<>> /\ bused' = HeaderLen /\ UNCHANGED <<bbase_us, blast_us>>

\* "bcount = 0", whatever the link said: the second step of a flush.
Emptied ==
  bbuf' = <<>> /\ bused' = HeaderLen /\ UNCHANGED <<bbase_us, blast_us>>
-----------------------------------------------------------------------------
(* The forwarding thread: fwd_loop and forward. *)

\* The whole packet copied, however long.
Cut_None(full) == full

\* "Anything past this is truncated and flagged rather than dropped."
Cut(full) == IF full > MaxPacket THEN MaxPacket ELSE full

\* What is kept of a packet.
Keep(p) == [kind |-> p.kind, ts |-> p.ts, full |-> p.full, take |-> Cut(p.full),
            truncated |-> p.full > MaxPacket]

Kept == {Keep(p) : p \in Arrivals}

\* An event, or isochronous data, with running set, goes to forward.
\* (Answers to commands never get here, nor does anything once running is
\* cleared.)
FwdTake(p) ==
  /\ pc["fwd"] = "idle" /\ MayRun("fwd")
  /\ running
  /\ offered < MaxPackets /\ offered' = offered + 1
  /\ pkt' = Keep(p)
  /\ oversized' = oversized + (IF p.full > MaxPacket THEN 1 ELSE 0)
  /\ Goes("fwd", "note")
  /\ UNCHANGED <<batchVars, running, captured, adv_reports, block, waiting,
                 linger, stops>>

\* note_counts.
FwdNote ==
  /\ pc["fwd"] = "note" /\ MayRun("fwd")
  /\ adv_reports' = adv_reports + (IF pkt.kind = "report" THEN 1 ELSE 0)
  /\ Goes("fwd", "lock")
  /\ UNCHANGED <<batchVars, running, captured, oversized, block, waiting,
                 linger, pkt, boundVars>>

\* The delta taken modulo 2^16 without a look at its width.
CannotJoin_AnyDelta ==
  \/ pkt.ts < blast_us
  \/ bused + EntryLen + pkt.take > MaxBytes

\* Why the packet cannot join the open batch.
CannotJoin ==
  \/ pkt.ts < blast_us
  \/ pkt.ts > blast_us + MaxDt
  \/ bused + EntryLen + pkt.take > MaxBytes

\* With the lock: the open batch is sent first if the packet cannot join it.
FwdEnter ==
  /\ pc["fwd"] = "locked" /\ MayRun("fwd")
  /\ Goes("fwd", IF bcount > 0 /\ CannotJoin THEN "early" ELSE "append")
  /\ UNCHANGED <<batchVars, otherVars, block, waiting, linger>>

\* The first step of a flush by a thread the tick may interrupt.
Sends(t, at, then) ==
  /\ pc[t] = at /\ MayRun(t)
  /\ Handed
  /\ Goes(t, then)
  /\ UNCHANGED <<bufVars, otherVars, block, waiting, linger>>

FwdSentEarly == Sends("fwd", "early", "early.clear")

FwdCleared ==
  /\ pc["fwd"] = "early.clear" /\ MayRun("fwd")
  /\ Emptied
  /\ Goes("fwd", "append")
  /\ UNCHANGED <<sendVars, otherVars, block, waiting, linger>>

\* The timer armed only once a batch has company to wait for.
ArmLinger_OnJoin == IF bcount > 1 THEN Reschedule ELSE UNCHANGED linger

\* "Rescheduled per packet, so the timer measures silence."
ArmLinger == Reschedule

\* The entry, up to bcount++.
FwdAppend ==
  LET base == IF bcount = 0 THEN pkt.ts ELSE bbase_us
      last == IF bcount = 0 THEN pkt.ts ELSE blast_us
  IN
  /\ pc["fwd"] = "append" /\ MayRun("fwd")
  /\ bbase_us' = base
  /\ bbuf' = Append(bbuf, [dt |-> (pkt.ts - last) % (MaxDt + 1),
                           kind |-> pkt.kind, full |-> pkt.full,
                           take |-> pkt.take, truncated |-> pkt.truncated])
  /\ bused' = bused + EntryLen + pkt.take
  /\ blast_us' = pkt.ts
  /\ pending' = Append(pending, pkt)
  /\ Goes("fwd", "count")
  /\ UNCHANGED <<forwarded, dropped, delivered, otherVars, block, waiting,
                 linger>>

\* captured++; then a full batch is sent, and any other left to linger.
FwdCount ==
  /\ pc["fwd"] = "count" /\ MayRun("fwd")
  /\ captured' = captured + 1
  /\ IF bcount = MaxEntries
     THEN Goes("fwd", "full") /\ UNCHANGED <<block, waiting, linger>>
     ELSE ArmLinger /\ Unlock("fwd", "idle")
  /\ UNCHANGED <<batchVars, running, adv_reports, oversized, pkt, boundVars>>

FwdSentFull == Sends("fwd", "full", "full.clear")

FwdReturns ==
  /\ pc["fwd"] = "full.clear" /\ MayRun("fwd")
  /\ Emptied
  /\ Cancel
  /\ Unlock("fwd", "idle")
  /\ UNCHANGED <<sendVars, otherVars>>
-----------------------------------------------------------------------------
(* The work queue: ble_linger_expired and stats_tick. *)

TimerExpires ==
  /\ linger.delayed
  /\ linger' = [linger EXCEPT !.delayed = FALSE,
                              !.queued = @ \/ ~linger.canceling]
  /\ UNCHANGED <<batchVars, otherVars, schedVars>>

\* Sooner or later: another item may be waiting for its command's answer.
LingerStart ==
  /\ pc["wq"] = "idle" /\ linger.queued
  /\ linger' = [linger EXCEPT !.queued = FALSE]
  /\ Goes("wq", "lock")
  /\ UNCHANGED <<batchVars, otherVars, block, waiting>>

\* With the lock, a thread that came to flush sends the batch if there is one.
Enter(t, then) ==
  /\ pc[t] = "locked" /\ MayRun(t)
  /\ IF bcount = 0
     THEN Unlock(t, then)
     ELSE Goes(t, "send") /\ UNCHANGED <<block, waiting>>
  /\ UNCHANGED <<batchVars, otherVars>>

LingerReturns == linger' = [linger EXCEPT !.canceling = FALSE]

LingerEnter ==
  /\ Enter("wq", "idle")
  /\ IF bcount = 0 THEN LingerReturns ELSE UNCHANGED linger

\* Nothing runs between the link's answer and the work item's end.
LingerSent ==
  /\ pc["wq"] = "send"
  /\ Handed /\ Emptied
  /\ Unlock("wq", "idle")
  /\ LingerReturns
  /\ UNCHANGED otherVars

\* sn_radio_ble_get_stats: what a STATS frame says if the work queue makes one
\* now.  It reads without the lock and writes nothing, so it is no step.
Stats == [hci_packets |-> captured, adv_reports |-> adv_reports,
          forwarded |-> forwarded, oversized |-> oversized,
          link_rejected |-> dropped]
-----------------------------------------------------------------------------
(* The reader: START, and STOP or what GET_INFO makes of it. *)

\* scan_started, when the controller has taken the scan.
ScanStarted ==
  /\ pc["reader"] = "idle" /\ MayRun("reader")
  /\ ~running
  /\ running' = TRUE
  /\ UNCHANGED <<batchVars, takeVars, schedVars, pkt, linger, boundVars>>

\* sn_radio_ble_stop up to its lock.
Stop ==
  /\ pc["reader"] = "idle" /\ MayRun("reader")
  /\ stops < MaxStops /\ stops' = stops + 1
  /\ running' = FALSE
  /\ Cancel
  /\ Goes("reader", "lock")
  /\ UNCHANGED <<batchVars, takeVars, block, waiting, pkt, offered>>

StopEnter == Enter("reader", "reset") /\ UNCHANGED linger

StopSent == Sends("reader", "send", "send.clear")

StopCleared ==
  /\ pc["reader"] = "send.clear" /\ MayRun("reader")
  /\ Emptied
  /\ Unlock("reader", "reset")
  /\ UNCHANGED <<sendVars, otherVars, linger>>

\* The reset of the controller is over; the command was a STOP or SET_RADIO.
StopReturns ==
  /\ pc["reader"] = "reset" /\ MayRun("reader")
  /\ Goes("reader", "idle")
  /\ UNCHANGED <<batchVars, otherVars, block, waiting, linger>>

\* The stores of sn_radio_ble_reset_counters that are still to come.
Clearing == {"clear.adv", "clear.forwarded", "clear.oversized", "clear.dropped"}

\* It was GET_INFO: one store of sn_radio_ble_reset_counters, which takes no
\* lock.
Store(at, then) ==
  /\ pc["reader"] = at /\ MayRun("reader")
  /\ Goes("reader", then)
  /\ UNCHANGED <<running, bufVars, pending, delivered, block, waiting, pkt,
                 linger, boundVars>>

\* The reset's answer came through the forwarding thread, after whatever it
\* had in hand.
ResetCaptured ==
  /\ pc["fwd"] = "idle"
  /\ Store("reset", "clear.adv")
  /\ captured' = 0
  /\ UNCHANGED <<adv_reports, forwarded, oversized, dropped>>

ResetAdvReports ==
  /\ Store("clear.adv", "clear.forwarded")
  /\ adv_reports' = 0
  /\ UNCHANGED <<captured, forwarded, oversized, dropped>>

ResetForwarded ==
  /\ Store("clear.forwarded", "clear.oversized")
  /\ forwarded' = 0
  /\ UNCHANGED <<captured, adv_reports, oversized, dropped>>

ResetOversized ==
  /\ Store("clear.oversized", "clear.dropped")
  /\ oversized' = 0
  /\ UNCHANGED <<captured, adv_reports, forwarded, dropped>>

ResetDropped ==
  /\ Store("clear.dropped", "idle")
  /\ dropped' = 0
  /\ UNCHANGED <<captured, adv_reports, forwarded, oversized>>
-----------------------------------------------------------------------------
NoPacket == [kind |-> "event", ts |-> 0, full |-> 0, take |-> 0,
             truncated |-> FALSE]

Init ==
  /\ running = FALSE
  /\ bbuf = <<>> /\ bused = HeaderLen /\ bbase_us = 0 /\ blast_us = 0
  /\ captured = 0 /\ adv_reports = 0 /\ oversized = 0
  /\ forwarded = 0 /\ dropped = 0
  /\ block = "none" /\ waiting = <<>>
  /\ pc = [t \in Threads |-> "idle"]
  /\ pkt = NoPacket
  /\ linger = LingerIdle
  /\ pending = <<>> /\ delivered = <<>>
  /\ offered = 0 /\ stops = 0

Forward ==
  \/ FwdNote \/ Lock("fwd") \/ FwdEnter \/ FwdSentEarly \/ FwdCleared
  \/ FwdAppend \/ FwdCount \/ FwdSentFull \/ FwdReturns

Linger == LingerStart \/ Lock("wq") \/ LingerEnter \/ LingerSent

Resetting ==
  \/ ResetCaptured \/ ResetAdvReports \/ ResetForwarded \/ ResetOversized
  \/ ResetDropped

Stopping ==
  \/ Lock("reader") \/ StopEnter \/ StopSent \/ StopCleared \/ StopReturns
  \/ Resetting

Next ==
  \/ \E p \in Arrivals : FwdTake(p)
  \/ Forward
  \/ TimerExpires
  \/ Linger
  \/ ScanStarted \/ Stop \/ Stopping

Spec == Init /\ [][Next]_vars

\* A thread inside an operation gets on, the timer expires, the work queue
\* runs.  Nothing obliges a packet or a command to come.
Fairness ==
  /\ WF_vars(Forward)
  /\ WF_vars(TimerExpires)
  /\ WF_vars(Linger)
  /\ WF_vars(Stopping)

FairSpec == Spec /\ Fairness
-----------------------------------------------------------------------------
(* Properties *)

\* Where a thread owns the mutex.
Owning == {"locked", "early", "early.clear", "append", "count", "full",
           "full.clear", "send", "send.clear"}

\* The variables have their types; the batch never outgrows its buffer nor the
\* entries a host accepts, though the append tests neither; the mutex has one
\* owner, and the threads queued for it are those that wait.
TypeOK ==
  /\ running \in BOOLEAN
  /\ bbuf \in Seq(Entry) /\ bcount <= MaxEntries
  /\ bused \in HeaderLen .. MaxBytes
  /\ bbase_us \in Nat /\ blast_us \in Nat
  /\ captured \in Nat /\ adv_reports \in Nat /\ oversized \in Nat
  /\ forwarded \in Nat /\ dropped \in Nat
  /\ pc["fwd"] \in {"idle", "note", "lock", "wait", "locked", "early",
                   "early.clear", "append", "count", "full", "full.clear"}
  /\ pc["reader"] \in {"idle", "lock", "wait", "locked", "send", "send.clear",
                      "reset"} \cup Clearing
  /\ pc["wq"] \in {"idle", "lock", "wait", "locked", "send"}
  /\ block \in Threads \cup {"none"}
  /\ \A t \in Threads :
       /\ block = t <=> pc[t] \in Owning
       /\ pc[t] = "wait" <=> \E i \in 1 .. Len(waiting) : waiting[i] = t
  /\ linger \in [delayed : BOOLEAN, queued : BOOLEAN, canceling : BOOLEAN]
  /\ pending \in Seq(Kept)

\* The packet fwd_loop let through and has not added to the batch.
InHand == IF pc["fwd"] \in {"note", "lock", "wait", "locked", "append"} THEN 1 ELSE 0

\* Behind a STOP's flush comes one packet of the capture at most: the one
\* fwd_loop had let through before running was cleared, and only if it has not
\* found its way into the batch yet.  It closes no batch, and by the time the
\* counters are reset it is either in the batch or never was.
OneAtMostAfterStop ==
  /\ ~running /\ pc["reader"] \in {"idle", "reset"} \cup Clearing =>
       /\ bcount + InHand <= 1
       /\ pc["fwd"] \notin {"early", "early.clear", "full", "full.clear"}
  /\ pc["reader"] \in Clearing => pc["fwd"] = "idle"

\* What the counters are short of captured by.
Apart == captured + (IF pc["fwd"] = "count" THEN 1 ELSE 0)

\* Every packet is counted once: what was forwarded, what the link refused and
\* what the batch still holds is captured, across sessions, or one more than
\* captured where a packet that came behind a GET_INFO's flush was counted
\* before the counters were reset.  So a STATS frame, read without the lock at
\* any point of the other threads but the counter reset, never shows more
\* packets handed on than heard by more than that one or the one whose
\* captured++ is still to come, and no more missing than a batch holds.
CountsAddUp ==
  pc["reader"] \notin Clearing =>
    /\ Apart <= forwarded + dropped + Len(pending)
    /\ forwarded + dropped + Len(pending) <= Apart + 1
    /\ Stats.forwarded + Stats.link_rejected <= Stats.hci_packets + 1
    /\ Stats.hci_packets <= Stats.forwarded + Stats.link_rejected + MaxEntries
    /\ Stats.adv_reports <= Stats.hci_packets + 1
    /\ Stats.oversized <= Stats.hci_packets + 1

\* A batch left open is always going to be sent: the linger timer is running
\* or queued, or a thread is on its way to flush.  The timer is cancelled by
\* two threads, with and without the lock, and armed by a third.
LingerCovers ==
  bbuf # <<>> =>
    \/ linger.delayed \/ linger.queued
    \/ pc["wq"] # "idle"
    \/ pc["reader"] \in {"lock", "wait", "locked", "send", "send.clear"}
    \/ pc["fwd"] \in {"count", "full", "full.clear"}

\* The BLE path is the same lossy FIFO: every packet in order, its kind, both
\* lengths and its time exact to the microsecond, or counted as refused.
Pipe == INSTANCE LossyFifo WITH Packet <- Kept, lost <- dropped

LossyFifoSpec == Pipe!Spec

\* "Otherwise the last packets ... sit in the buffer": no packet waits for
\* another one.
PacketsLeave == bbuf # <<>> ~> bbuf = <<>>
=============================================================================
