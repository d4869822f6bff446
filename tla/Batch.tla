------------------------------- MODULE Batch -------------------------------
(***************************************************************************)
(* The 802.15.4 batcher, src/batch.c.                                      *)
(*                                                                         *)
(* Three threads touch the open batch: the radio driver's RX thread        *)
(* (sn_batch_add), the system work queue (linger_expired, 20 ms after the  *)
(* last packet) and the link's reader thread (sn_batch_flush, on STOP,     *)
(* SET_CHANNEL and GET_INFO).  A mutex covers the buffer, and the linger   *)
(* timer is cancelled and rescheduled around it.                           *)
(*                                                                         *)
(* A packet's bytes are abstracted to its length; its LQI and RSSI travel  *)
(* with it unchanged and are left out.  Whether the link takes a frame is  *)
(* a free choice: module TxLink says when it does.                         *)
(***************************************************************************)
EXTENDS HostClock

CONSTANTS
  Channels,      \* 802.15.4 channels a capture can be on
  Times,         \* capture timestamps, microseconds
  Lens,          \* PSDU lengths the driver delivers
  MaxEntries,    \* MAX_ENTRIES, 32
  MaxPsdu,       \* MAX_PSDU, 127
  MaxDt,         \* MAX_DT_US, 0xFFFF: the widest delta sixteen bits hold
  HeaderLen,     \* HEADER_LEN, 10
  EntryLen,      \* ENTRY_LEN, 5
  MaxBytes,      \* MAX_BATCH_BYTES, 2048: the size of buf
  MaxPackets     \* bound of the model: packets captured in one behaviour

ASSUME BatchAssumption ==
  /\ Channels \subseteq Nat
  /\ Times \subseteq Nat
  /\ Lens \subseteq Nat
  /\ MaxEntries \in Nat /\ MaxEntries >= 1
  /\ MaxPsdu \in Nat /\ MaxDt \in Nat
  /\ HeaderLen \in Nat /\ EntryLen \in Nat
  /\ MaxBytes \in Nat /\ MaxPackets \in Nat
  \* "Sized by the byte limit, which one entry ... always fits under."
  /\ HeaderLen + EntryLen + MaxPsdu <= MaxBytes

VARIABLES
  buf,           \* entries written since the batch opened
  used,          \* bytes of buf in use, the header's included
  base_us,       \* timestamp of the first entry
  last_us,       \* timestamp of the latest entry
  batch_channel, \* the one channel of the open batch
  dropped,       \* dropped_packets
  lock,          \* the thread holding the mutex, or "none"
  rx,            \* where the RX thread is in sn_batch_add
  pkt,           \* the packet it is adding
  reader,        \* where the reader thread is in sn_batch_flush
  wq,            \* whether the work queue is in linger_expired
  linger,        \* the delayable work item, see LingerIdle
  pending,       \* history: the packets whose entries are in buf
  delivered,     \* history: what the host decoded from accepted frames
  offered        \* history: packets captured, for MaxPackets

bufVars  == <<buf, used, base_us, last_us, batch_channel>>
sendVars == <<dropped, pending, delivered>>
vars     == <<bufVars, sendVars, lock, rx, pkt, reader, wq, linger, offered>>

Packet == [ch : Channels, ts : Times, len : Lens]
Entry  == [dt : 0 .. MaxDt, len : 0 .. MaxPsdu]

\* What is kept of a packet: no more of it than a PSDU can be.
Captured == [ch : Channels, ts : Times, len : 0 .. MaxPsdu]

\* Outside sn_batch_add there is no packet.
NoPacket == [ch |-> 0, ts |-> 0, len |-> 0]

count == Len(buf)
-----------------------------------------------------------------------------
(***************************************************************************)
(* The kernel's delayable work item, as far as batch.c relies on it: it    *)
(* can be waiting on its timeout (delayed) and on the queue (queued) at    *)
(* once, and cancelling it while its handler runs marks it canceling, in   *)
(* which state the kernel refuses to queue it until the handler returns.   *)
(***************************************************************************)
LingerIdle == [delayed |-> FALSE, queued |-> FALSE, canceling |-> FALSE]

Cancel ==
  linger' = [delayed |-> FALSE, queued |-> FALSE, canceling |-> wq = "running"]

Reschedule == linger' = [linger EXCEPT !.delayed = TRUE]
-----------------------------------------------------------------------------
\* What the host reads out of a frame: the deltas added up (HostClock), except
\* that a batch of one travels as a PACKET that carries the base alone.
Decode(channel, base, entries) ==
  LET stamp == IF Len(entries) = 1 THEN <<base>> ELSE HostTime(base, entries)
  IN  [i \in 1 .. Len(entries) |->
        [ch |-> channel, ts |-> stamp[i], len |-> entries[i].len]]

\* "A refused batch is every packet in it, not one drop."
Loss == count

EmptyBuffer == buf' = <<>> /\ used' = HeaderLen

\* A batch of one held back, because as a batch it costs more than it saves.
FlushLocked_HoldOne ==
  IF count <= 1
  THEN UNCHANGED <<bufVars, sendVars>>
  ELSE /\ \/ /\ delivered' = delivered \o Decode(batch_channel, base_us, buf)
             /\ UNCHANGED dropped
          \/ /\ dropped' = dropped + Loss
             /\ UNCHANGED delivered
       /\ EmptyBuffer
       /\ pending' = <<>>
       /\ UNCHANGED <<base_us, last_us, batch_channel>>

(***************************************************************************)
(* flush_locked: hands the open batch to the link, which takes it or       *)
(* refuses it, and empties the buffer either way.                          *)
(***************************************************************************)
FlushLocked ==
  IF count = 0
  THEN UNCHANGED <<bufVars, sendVars>>
  ELSE /\ \/ /\ delivered' = delivered \o Decode(batch_channel, base_us, buf)
             /\ UNCHANGED dropped
          \/ /\ dropped' = dropped + Loss
             /\ UNCHANGED delivered
       /\ EmptyBuffer
       /\ pending' = <<>>
       /\ UNCHANGED <<base_us, last_us, batch_channel>>
-----------------------------------------------------------------------------
(* sn_batch_add, on the RX thread. *)

\* The backwards-clock test forgotten.
CannotJoin_NoBackwardsTest(p) ==
  \/ p.ch # batch_channel
  \/ p.ts > last_us + MaxDt
  \/ used + EntryLen + p.len > MaxBytes

\* The size test made before the entry's own header is added.
CannotJoin_ShortSize(p) ==
  \/ p.ch # batch_channel
  \/ p.ts < last_us
  \/ p.ts > last_us + MaxDt
  \/ used + p.len > MaxBytes

\* A length past what a PSDU can be is cut to it.
Clamp(p) == [p EXCEPT !.len = IF @ > MaxPsdu THEN MaxPsdu ELSE @]

\* Why a packet cannot join the open batch.
CannotJoin(p) ==
  \/ p.ch # batch_channel
  \/ p.ts < last_us
  \/ p.ts > last_us + MaxDt
  \/ used + EntryLen + p.len > MaxBytes

\* Takes the lock, and closes the open batch if this packet cannot join it.
AddLock(p) ==
  /\ rx = "idle"
  /\ lock = "none"
  /\ offered < MaxPackets
  /\ offered' = offered + 1
  /\ lock' = "rx"
  /\ rx' = "append"
  /\ pkt' = Clamp(p)
  /\ IF count > 0 /\ CannotJoin(Clamp(p))
     THEN FlushLocked
     ELSE UNCHANGED <<bufVars, sendVars>>
  /\ UNCHANGED <<reader, wq, linger>>

\* Writes the entry, opening a batch if none is open.
AddAppend ==
  LET opens == count = 0
      since == IF opens THEN pkt.ts ELSE last_us
      dt    == (pkt.ts - since) % (MaxDt + 1)
  IN
  /\ rx = "append"
  /\ rx' = "close"
  /\ base_us' = IF opens THEN pkt.ts ELSE base_us
  /\ batch_channel' = IF opens THEN pkt.ch ELSE batch_channel
  /\ buf' = Append(buf, [dt |-> dt, len |-> pkt.len])
  /\ used' = used + EntryLen + pkt.len
  /\ last_us' = pkt.ts
  /\ pending' = Append(pending, pkt)
  /\ UNCHANGED <<dropped, delivered, lock, pkt, reader, wq, linger, offered>>

\* The timer armed only once a batch has company to wait for.
AddClose_ArmOnJoin ==
  /\ rx = "close"
  /\ rx' = "idle"
  /\ lock' = "none"
  /\ IF count = MaxEntries
     THEN FlushLocked /\ Cancel
     ELSE /\ IF count > 1 THEN Reschedule ELSE UNCHANGED linger
          /\ UNCHANGED <<bufVars, sendVars>>
  /\ pkt' = NoPacket
  /\ UNCHANGED <<reader, wq, offered>>

\* Sends a full batch, or measures the silence from this packet.
AddClose ==
  /\ rx = "close"
  /\ rx' = "idle"
  /\ lock' = "none"
  /\ IF count = MaxEntries
     THEN FlushLocked /\ Cancel
     ELSE Reschedule /\ UNCHANGED <<bufVars, sendVars>>
  /\ pkt' = NoPacket
  /\ UNCHANGED <<reader, wq, offered>>
-----------------------------------------------------------------------------
(* The linger timer and its handler on the system work queue. *)

TimerExpires ==
  /\ linger.delayed
  /\ linger' = [linger EXCEPT !.delayed = FALSE,
                              !.queued = @ \/ ~linger.canceling]
  /\ UNCHANGED <<bufVars, sendVars, lock, rx, pkt, reader, wq, offered>>

\* The work queue takes the item and calls linger_expired.
LingerStart ==
  /\ wq = "idle"
  /\ linger.queued
  /\ linger' = [linger EXCEPT !.queued = FALSE]
  /\ wq' = "running"
  /\ UNCHANGED <<bufVars, sendVars, lock, rx, pkt, reader, offered>>

\* linger_expired gets the lock, flushes and returns.
LingerExpired ==
  /\ wq = "running"
  /\ lock = "none"
  /\ FlushLocked
  /\ wq' = "idle"
  /\ linger' = [linger EXCEPT !.canceling = FALSE]
  /\ UNCHANGED <<lock, rx, pkt, reader, offered>>
-----------------------------------------------------------------------------
(* sn_batch_flush and sn_batch_reset_counters, on the reader thread. *)

\* "Cancel first", and without the lock.
FlushCancel ==
  /\ reader = "idle"
  /\ reader' = "flush"
  /\ Cancel
  /\ UNCHANGED <<bufVars, sendVars, lock, rx, pkt, wq, offered>>

FlushSend ==
  /\ reader = "flush"
  /\ lock = "none"
  /\ FlushLocked
  /\ reader' = "idle"
  /\ UNCHANGED <<lock, rx, pkt, wq, linger, offered>>

ResetCounters ==
  /\ reader = "idle"
  /\ dropped' = 0
  /\ UNCHANGED <<bufVars, pending, delivered, lock, rx, pkt, reader, wq,
                 linger, offered>>
-----------------------------------------------------------------------------
Init ==
  /\ buf = <<>>
  /\ used = HeaderLen
  /\ base_us = 0
  /\ last_us = 0
  /\ batch_channel = 0
  /\ dropped = 0
  /\ lock = "none"
  /\ rx = "idle"
  /\ pkt = NoPacket
  /\ reader = "idle"
  /\ wq = "idle"
  /\ linger = LingerIdle
  /\ pending = <<>>
  /\ delivered = <<>>
  /\ offered = 0

Next ==
  \/ \E p \in Packet : AddLock(p)
  \/ AddAppend
  \/ AddClose
  \/ TimerExpires
  \/ LingerStart
  \/ LingerExpired
  \/ FlushCancel
  \/ FlushSend
  \/ ResetCounters

Spec == Init /\ [][Next]_vars

\* A thread inside the batcher gets on; timers expire; the work queue runs.
Fairness ==
  /\ WF_vars(AddAppend)
  /\ WF_vars(AddClose)
  /\ WF_vars(TimerExpires)
  /\ WF_vars(LingerStart)
  /\ WF_vars(LingerExpired)
  /\ WF_vars(FlushSend)

FairSpec == Spec /\ Fairness
-----------------------------------------------------------------------------
(* Properties *)

Typed ==
  /\ buf \in Seq(Entry)
  /\ used \in Nat
  /\ base_us \in Times \cup {0}
  /\ last_us \in Times \cup {0}
  /\ batch_channel \in Channels \cup {0}
  /\ dropped \in Nat
  /\ lock \in {"none", "rx"}
  /\ rx \in {"idle", "append", "close"}
  /\ pkt \in Captured \cup {NoPacket}
  /\ reader \in {"idle", "flush"}
  /\ wq \in {"idle", "running"}
  /\ linger \in [delayed : BOOLEAN, queued : BOOLEAN, canceling : BOOLEAN]
  /\ pending \in Seq(Captured)
  /\ offered \in 0 .. MaxPackets

\* sn_batch_add writes an entry at buf + used with no test of its own: the
\* tests made before it, across packets, keep every write inside the 2048
\* bytes, and the count inside the 32 a host accepts.
NoOverrun ==
  /\ HeaderLen <= used /\ used <= MaxBytes
  /\ count <= MaxEntries
  /\ rx # "close" => count < MaxEntries

\* The batcher's variables have their types, a packet being added is cut to
\* the longest PSDU before anything is written, and nothing is written past
\* the buffer.
TypeOK == Typed /\ NoOverrun

\* A batch left open is always going to be sent: the linger timer is running
\* or queued, or a thread is already on its way to flush or to arm it.  The
\* hazard is a cancel that takes away the timer of a packet added after it.
LingerCovers ==
  buf # <<>> =>
    \/ linger.delayed \/ linger.queued
    \/ wq = "running"
    \/ reader = "flush"
    \/ rx = "close"

\* The batcher is a lossy FIFO: what the host decodes is what was captured,
\* in order and to the microsecond, and a refused batch costs the drop count
\* one for every packet in it (batch.h: "Counted in PACKETS").
Pipe == INSTANCE LossyFifo WITH Packet <- Captured, lost <- dropped

LossyFifoSpec == Pipe!Spec

\* "otherwise the last packets before a stop would sit in the buffer until
\* something else happened to arrive": no packet waits for another one.
PacketsLeave == buf # <<>> ~> buf = <<>>
=============================================================================
