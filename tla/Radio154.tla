------------------------------ MODULE Radio154 ------------------------------
(***************************************************************************)
(* The 802.15.4 radio, src/radio154.c: tuning, starting and stopping a     *)
(* capture, measuring energy, and what becomes of a frame heard meanwhile. *)
(*                                                                         *)
(* The link's reader thread runs the operations, in the order control.c    *)
(* calls them, and each is several calls of the driver with stores between *)
(* them.  The driver's RX thread (net_recv_data) and its interrupts        *)
(* (radio_event, ed_complete) come between any two.  The RX thread can be  *)
(* held up only by the batcher's mutex, which the reader (flushing) or the *)
(* work queue (the linger timer) may hold.  Both it and the work queue are *)
(* cooperative and above the reader, and a mutex lends its holder the      *)
(* priority of who waits for it: the reader runs when the RX thread idles  *)
(* or waits for the reader, and never while the work queue has the mutex.  *)
(* The driver is external: any call of it may be refused, a frame it has   *)
(* heard may be handed over late ("Queued by the driver as it stopped, and *)
(* delivered after"), and a measurement may outlast the wait.              *)
(* The batch itself is module Batch's; here it is a count.                 *)
(***************************************************************************)
EXTENDS Integers, Sequences

CONSTANTS
  Channels,      \* the channels the radio has: 11 .. 26
  Asked,         \* channels a host may ask for, valid or not
  BootChannel,   \* the channel at boot: 11
  MaxOps,        \* bound of the model: operations the reader performs
  MaxFrames,     \* bound of the model: frames heard
  MaxRefusals,   \* bound of the model: driver calls refused in an operation
  MaxLapses,     \* bound of the model: driver calls refused in a restore
  MaxTimeouts    \* bound of the model: measurements that outlast the wait

ASSUME RadioAssumption ==
  /\ Channels \subseteq Nat \ {0} /\ Asked \subseteq Nat
  /\ BootChannel \in Channels
  /\ MaxOps \in Nat /\ MaxFrames \in Nat /\ MaxRefusals \in Nat
  /\ MaxLapses \in Nat /\ MaxTimeouts \in Nat

VARIABLES
  current_channel, running, measuring,
  ed_done,       \* count of the semaphore, at most one
  ed_result,     \* the scan it is the result of, or Failed
  fcs_failed,
  pc,            \* where the reader is
  op,            \* what it was asked: [channel, was_running, previous, scan]
  rx,            \* the frame the RX thread is adding, or Nothing
  batch_lock,    \* "none", "reader" or "wq"
  open,          \* packets in the open batch
  receiving,     \* the driver: whether the radio listens
  tuned,         \* the driver: the channel it listens on
  rxq,           \* the driver: frames heard and not handed over
  late,          \* the driver: whether it may hand them over late
  scan,          \* the driver: the measurement it is making, or 0
  batched,       \* history: the frames that were batched
  strays,        \* history: bad checksums counted that another channel had
  reading,       \* history: the scan asked for and the one reported
  raced,         \* history: a late completion fell between k_sem_reset and
                 \* ed_scan
  ops, frames, scans, refusals, lapses, timeouts   \* for the bounds

codeVars   == <<current_channel, running, measuring>>
edVars     == <<ed_done, ed_result>>
readerVars == <<pc, op, ops>>
rxVars     == <<rx, batched, rxq>>
hwVars     == <<receiving, tuned>>
lockVars   == <<batch_lock, open>>
histVars   == <<strays, reading, raced, fcs_failed>>
boundVars  == <<refusals, lapses, timeouts>>
vars == <<codeVars, edVars, readerVars, rxVars, late, hwVars, lockVars, scan,
          scans, frames, histVars, boundVars>>

Nothing == [tag |-> 0, on |-> 0, heard |-> "capture", moved |-> FALSE]
Failed  == -1      \* SHRT_MAX, "how this driver reports a failed measurement"
NoOp    == [channel |-> 0, was_running |-> FALSE, previous |-> 0, scan |-> 0]

RxBusy == rx # Nothing
-----------------------------------------------------------------------------
(* The driver: what the radio hears, and the measurements it ends. *)

\* The few instructions in which the radio is on the new channel and
\* current_channel still names the old one.
Retuning == pc = "channel.store"

\* When a frame heard now was heard: in those few instructions, while tuned
\* away to measure energy, or on the capture's channel.
Heard == IF Retuning THEN "retuning"
         ELSE IF tuned # current_channel THEN "away" ELSE "capture"

\* A frame is heard.
Hear ==
  /\ receiving /\ frames < MaxFrames
  /\ frames' = frames + 1
  /\ rxq' = Append(rxq, [tag |-> 0, on |-> tuned, heard |-> Heard,
                         moved |-> FALSE])
  /\ UNCHANGED <<codeVars, edVars, readerVars, rx, batched, hwVars, lockVars,
                 scan, scans, histVars, boundVars>>

\* Whether a bad checksum is the capture's.
Counted == running /\ ~measuring

\* radio_event: a frame with a bad checksum is counted, at once.
RadioEvent ==
  /\ receiving /\ frames < MaxFrames
  /\ frames' = frames + 1
  /\ IF Counted
     THEN /\ fcs_failed' = fcs_failed + 1
          /\ strays' = strays + IF tuned # current_channel /\ ~Retuning
                                THEN 1 ELSE 0
     ELSE UNCHANGED <<fcs_failed, strays>>
  /\ UNCHANGED <<codeVars, edVars, readerVars, rxVars, hwVars, lockVars, scan,
                 scans, reading, raced, boundVars>>

\* ed_complete: the measurement ends, with a reading or without one.
EdComplete ==
  /\ scan # 0
  /\ ed_result' \in {scan, Failed}
  /\ ed_done' = 1
  /\ scan' = 0
  /\ raced' = (raced \/ pc = "ed.scan")
  /\ UNCHANGED <<codeVars, readerVars, rxVars, hwVars, lockVars, scans, frames,
                 strays, reading, fcs_failed, boundVars>>

\* One nobody waits for any more is dropped by whatever the driver did next.
ScanDropped ==
  /\ scan # 0 /\ pc # "ed.wait"
  /\ scan' = 0
  /\ UNCHANGED <<codeVars, edVars, readerVars, rxVars, hwVars, lockVars, scans,
                 frames, histVars, boundVars>>
-----------------------------------------------------------------------------
(* net_recv_data on the RX thread, and the lock it may wait for. *)

\* Frames from a capture already stopped not recognised.
Wanted_Stopped == ~measuring

\* Whether a frame handed over now is part of the capture.
Wanted == ~measuring /\ running

\* The tests, and the arguments of sn_batch_add.
NetRecvData ==
  /\ rxq # <<>> /\ ~RxBusy
  /\ rxq' = Tail(rxq)
  /\ rx' = IF Wanted THEN [Head(rxq) EXCEPT !.tag = current_channel] ELSE Nothing
  /\ UNCHANGED <<codeVars, edVars, readerVars, batched, hwVars, lockVars, scan,
                 scans, frames, histVars, boundVars>>

\* sn_batch_add, once it has the lock.
BatchAdd ==
  /\ RxBusy /\ batch_lock = "none"
  /\ batched' = batched \cup {rx}
  /\ open' = open + 1
  /\ rx' = Nothing
  /\ UNCHANGED <<codeVars, edVars, readerVars, rxq, hwVars, batch_lock, scan,
                 scans, frames, histVars, boundVars>>

\* The linger timer's handler on the work queue.
LingerLock ==
  /\ batch_lock = "none" /\ open > 0 /\ ~RxBusy
  /\ batch_lock' = "wq"
  /\ UNCHANGED <<codeVars, edVars, readerVars, rxVars, hwVars, open, scan, scans,
                 frames, histVars, boundVars>>

LingerFlush ==
  /\ batch_lock = "wq"
  /\ batch_lock' = "none"
  /\ open' = 0
  /\ UNCHANGED <<codeVars, edVars, readerVars, rxVars, hwVars, scan, scans,
                 frames, histVars, boundVars>>
-----------------------------------------------------------------------------
(***************************************************************************)
(* The reader.  It runs when neither the RX thread nor the work queue can. *)
(***************************************************************************)
ReaderMayRun ==
  /\ batch_lock # "wq"
  /\ RxBusy => batch_lock = "reader"
  /\ ~late => rxq = <<>> \/ RxBusy

At(place) == pc = place /\ ReaderMayRun

Goto(place) == pc' = place /\ UNCHANGED <<op, ops>>

\* The operation is over, and control.c replies.
Done == pc' = "idle" /\ op' = NoOp /\ UNCHANGED ops

\* A driver call that is refused: nothing of the driver's changes.
Refusal == refusals < MaxRefusals /\ refusals' = refusals + 1
           /\ UNCHANGED <<lapses, timeouts>>

\* The same in the calls whose result is cast to void.
Lapse == lapses < MaxLapses /\ lapses' = lapses + 1
         /\ UNCHANGED <<refusals, timeouts>>

\* What a driver call of the reader leaves alone.
Others == UNCHANGED <<rx, batched, lockVars, scans, frames, histVars>>
Rest   == Others /\ UNCHANGED rxq

\* The driver is tuned to c, and the frames it holds of another channel are
\* now behind it.
Retune(c) ==
  /\ tuned' = c
  /\ rxq' = [i \in DOMAIN rxq |-> [rxq[i] EXCEPT !.moved = @ \/ rxq[i].on # c]]

Begin(place, channel) ==
  /\ pc = "idle" /\ ReaderMayRun
  /\ ops < MaxOps
  /\ ops' = ops + 1
  /\ pc' = place
  /\ op' = [NoOp EXCEPT !.channel = channel]
  /\ UNCHANGED <<codeVars, edVars, hwVars, scan, boundVars>> /\ Rest

\* SET_CHANNEL flushes, tunes and starts; START starts; STOP stops and then
\* flushes, which GET_INFO and SET_RADIO do too.
SetChannel(c)   == Begin("channel.flush", c)
StartCapture    == Begin("start", 0)
StopCapture     == Begin("stop", 0)
EnergyDetect(c) == c \in Channels /\ Begin("ed", c)

\* sn_batch_flush
FlushLock ==
  /\ pc \in {"channel.flush", "stop.flush"} /\ ReaderMayRun
  /\ batch_lock = "none"
  /\ batch_lock' = "reader"
  /\ Goto(IF pc = "channel.flush" THEN "channel.sent" ELSE "stop.sent")
  /\ UNCHANGED <<codeVars, edVars, rxVars, hwVars, open, scan, scans, frames,
                 histVars, boundVars>>

FlushUnlock ==
  /\ pc \in {"channel.sent", "stop.sent"} /\ ReaderMayRun
  /\ batch_lock' = "none"
  /\ open' = 0
  /\ IF pc = "channel.sent" THEN Goto("channel.tune") ELSE Done
  /\ UNCHANGED <<codeVars, edVars, rxVars, hwVars, scan, scans, frames,
                 histVars, boundVars>>

\* Any channel taken from the wire.
Valid_Any(c) == TRUE

Valid(c) == c \in Channels

\* sn_radio154_set_channel
Tune ==
  /\ At("channel.tune")
  /\ \/ /\ Valid(op.channel)
        /\ Retune(op.channel)
        /\ Goto("channel.store")
        /\ UNCHANGED boundVars
     \/ /\ ~Valid(op.channel)                   \* -EINVAL
        /\ Done
        /\ UNCHANGED <<tuned, rxq, boundVars>>
     \/ /\ Valid(op.channel) /\ Refusal
        /\ Done
        /\ UNCHANGED <<tuned, rxq>>
  /\ UNCHANGED <<codeVars, edVars, receiving, scan>> /\ Others

TuneStore ==
  /\ At("channel.store")
  /\ current_channel' = op.channel
  /\ Goto("start")
  /\ UNCHANGED <<running, measuring, edVars, hwVars, scan, boundVars>> /\ Rest

\* sn_radio154_start
Start ==
  /\ At("start")
  /\ \/ receiving' = TRUE /\ Goto("start.store") /\ UNCHANGED boundVars
     \/ Refusal /\ Done /\ UNCHANGED receiving
  /\ UNCHANGED <<codeVars, edVars, tuned, scan>> /\ Rest

StartStore ==
  /\ At("start.store")
  /\ running' = TRUE
  /\ Done
  /\ UNCHANGED <<current_channel, measuring, edVars, hwVars, scan, boundVars>>
  /\ Rest

\* sn_radio154_stop.  A refused stop leaves the capture running, and the
\* batch is flushed whatever became of it.
Stop ==
  /\ At("stop")
  /\ \/ ~running /\ Goto("stop.flush") /\ UNCHANGED <<receiving, boundVars>>
     \/ running /\ receiving' = FALSE /\ Goto("stop.store") /\ UNCHANGED boundVars
     \/ running /\ Refusal /\ Goto("stop.flush") /\ UNCHANGED receiving
  /\ UNCHANGED <<codeVars, edVars, tuned, scan>> /\ Rest

StopStore ==
  /\ At("stop.store")
  /\ running' = FALSE
  /\ Goto("stop.flush")
  /\ UNCHANGED <<current_channel, measuring, edVars, hwVars, scan, boundVars>>
  /\ Rest
-----------------------------------------------------------------------------
(* sn_radio154_energy_detect *)

\* The flag forgotten.
Mark_Not == UNCHANGED measuring

Mark == measuring' = TRUE

EdBegin ==
  /\ At("ed")
  /\ op' = [op EXCEPT !.was_running = running, !.previous = current_channel]
  /\ Mark
  /\ pc' = "ed.tune"
  /\ UNCHANGED <<ops, current_channel, running, edVars, hwVars, scan, boundVars>>
  /\ Rest

EdTune ==
  /\ At("ed.tune")
  /\ \/ Retune(op.channel) /\ Goto("ed.start") /\ UNCHANGED boundVars
     \/ Refusal /\ Goto("ed.restore") /\ UNCHANGED <<tuned, rxq>>
  /\ UNCHANGED <<codeVars, edVars, receiving, scan>> /\ Others

EdStart ==
  /\ At("ed.start")
  /\ \/ receiving' = TRUE /\ Goto("ed.reset") /\ UNCHANGED boundVars
     \/ Refusal /\ Goto("ed.restore") /\ UNCHANGED receiving
  /\ UNCHANGED <<codeVars, edVars, tuned, scan>> /\ Rest

\* The completion of an earlier measurement left in the semaphore.
SemReset_Not == UNCHANGED ed_done

\* k_sem_reset
SemReset == ed_done' = 0

EdReset ==
  /\ At("ed.reset")
  /\ SemReset
  /\ Goto("ed.scan")
  /\ UNCHANGED <<ed_result, codeVars, hwVars, scan, boundVars>> /\ Rest

\* The driver refuses a measurement while it is making one.
EdScan ==
  /\ At("ed.scan")
  /\ \/ /\ scan = 0
        /\ scans' = scans + 1
        /\ scan' = scans'
        /\ op' = [op EXCEPT !.scan = scans']
        /\ pc' = "ed.wait"
        /\ UNCHANGED <<ops, boundVars>>
     \/ /\ scan # 0
        /\ Goto("ed.restore")
        /\ UNCHANGED <<scans, scan, boundVars>>
     \/ /\ Refusal
        /\ Goto("ed.restore")
        /\ UNCHANGED <<scans, scan>>
  /\ UNCHANGED <<codeVars, edVars, hwVars, rxVars, lockVars, frames, histVars>>

\* The semaphore, and then the result.
EdRead ==
  /\ At("ed.wait") /\ ed_done = 1
  /\ ed_done' = 0
  /\ reading' = IF ed_result = Failed THEN reading
                ELSE [asked |-> op.scan, got |-> ed_result]
  /\ Goto("ed.restore")
  /\ UNCHANGED <<ed_result, codeVars, hwVars, rxVars, lockVars, scan, scans,
                 frames, strays, raced, fcs_failed, boundVars>>

EdTimesOut ==
  /\ At("ed.wait") /\ ed_done = 0
  /\ timeouts < MaxTimeouts
  /\ timeouts' = timeouts + 1
  /\ Goto("ed.restore")
  /\ UNCHANGED <<codeVars, edVars, hwVars, scan, refusals, lapses>> /\ Rest

\* The channel put back only if a measurement was made.
Back_WhenMeasured == IF op.scan = 0 THEN tuned ELSE op.previous

Back == op.previous

\* "Put the radio back exactly as it was": the channel,
EdRestore ==
  /\ At("ed.restore")
  /\ \/ Retune(Back) /\ UNCHANGED boundVars
     \/ Lapse /\ UNCHANGED <<tuned, rxq>>
  /\ Goto("ed.back")
  /\ UNCHANGED <<codeVars, edVars, receiving, scan>> /\ Others

\* and whether it was receiving.
EdBack ==
  /\ At("ed.back")
  /\ \/ receiving' = op.was_running /\ UNCHANGED boundVars
     \/ Lapse /\ UNCHANGED receiving
  /\ Goto("ed.end")
  /\ UNCHANGED <<codeVars, edVars, tuned, scan>> /\ Rest

EdEnd ==
  /\ At("ed.end")
  /\ measuring' = FALSE
  /\ Done
  /\ UNCHANGED <<current_channel, running, edVars, hwVars, scan, boundVars>>
  /\ Rest
-----------------------------------------------------------------------------
Init ==
  /\ current_channel = BootChannel /\ running = FALSE /\ measuring = FALSE
  /\ ed_done = 0 /\ ed_result = 0 /\ fcs_failed = 0
  /\ pc = "idle" /\ op = NoOp
  /\ rx = Nothing /\ batch_lock = "none" /\ open = 0
  /\ receiving = FALSE /\ tuned = BootChannel
  /\ rxq = <<>> /\ late \in BOOLEAN /\ scan = 0
  /\ batched = {} /\ strays = 0 /\ reading = [asked |-> 0, got |-> 0]
  /\ raced = FALSE
  /\ ops = 0 /\ frames = 0 /\ scans = 0
  /\ refusals = 0 /\ lapses = 0 /\ timeouts = 0

Operation ==
  \/ \E c \in Asked : SetChannel(c) \/ EnergyDetect(c)
  \/ StartCapture
  \/ StopCapture

ReaderStep ==
  \/ FlushLock \/ FlushUnlock
  \/ Tune \/ TuneStore
  \/ Start \/ StartStore
  \/ Stop \/ StopStore
  \/ EdBegin \/ EdTune \/ EdStart \/ EdReset \/ EdScan \/ EdRead \/ EdTimesOut
  \/ EdRestore \/ EdBack \/ EdEnd

Next ==
  /\ \/ Hear \/ RadioEvent \/ EdComplete \/ ScanDropped
     \/ NetRecvData \/ BatchAdd
     \/ LingerLock \/ LingerFlush
     \/ Operation
     \/ ReaderStep
  /\ UNCHANGED late

Spec == Init /\ [][Next]_vars
-----------------------------------------------------------------------------
(* Properties *)

\* The radio's variables have their types.
TypeOK ==
  /\ current_channel \in Channels /\ tuned \in Channels
  /\ running \in BOOLEAN /\ measuring \in BOOLEAN /\ receiving \in BOOLEAN
  /\ ed_done \in {0, 1} /\ ed_result \in -1 .. scans
  /\ batch_lock \in {"none", "reader", "wq"}
  /\ open \in Nat /\ scan \in 0 .. scans
  /\ Len(rxq) <= frames /\ frames \in 0 .. MaxFrames

\* Once a STOP has been answered, and until the next start, no packet of the
\* capture is still to come: the open batch is empty and the RX thread is not
\* on its way to add to it, however late the driver hands frames over ("so the
\* host sees every packet before the reply that says capture has stopped").
StopIsClean ==
  pc = "idle" /\ ~running => open = 0 /\ ~RxBusy

\* Between operations the radio is where the firmware thinks it is: on
\* current_channel, and receiving just when a capture is running, though any
\* call of the driver before a restore may have been refused and a measurement
\* may have timed out.
RadioAsBelieved ==
  pc = "idle" /\ lapses = 0 =>
    receiving = running /\ tuned = current_channel

\* What is recorded is the capture's, though measurements tune the radio away
\* in between.  Every batched frame is tagged with the channel it was heard on,
\* unless the driver queued it and was retuned before it handed it over; one
\* handed over at once, before the reader goes on, always is.  A bad checksum
\* is counted only when the capture's own channel had it ("A failure while
\* tuned away to measure energy belongs to another channel").  Set aside is
\* what the radio hears between the driver's retuning and the store of
\* current_channel.
RecordsAreTrue ==
  lapses = 0 =>
    /\ \A f \in batched :
         \/ f.heard = "retuning"
         \/ late /\ f.moved
         \/ f.tag = f.on
    /\ strays = 0

\* The reading reported is that of the measurement asked for, though an earlier
\* one outlasted its wait and completed while nobody was waiting; but for one
\* that completes between k_sem_reset and ed_scan.
ReadingIsOwn == ~raced => reading.asked = reading.got
=============================================================================
