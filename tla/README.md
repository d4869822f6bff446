# The nRF54L15 sniffer firmware in TLA+

The firmware under `src/src` turns a XIAO nRF54L15 into a capture device. An
802.15.4 radio or a Bluetooth LE controller hears packets, the firmware frames
them, and a UART carries the frames to a host that also sends commands back.
The code is about 3000 lines of C on Zephyr, on one core, with six threads, a
work queue and interrupts. Little of it is hard to read and much of it is hard
to test: what goes wrong needs two threads, a driver that answers late, or a
host that opened a session without closing the last one.

This directory models that code, module by module, checks the models with TLC
on small instances, and proves what matters most about them with TLAPS.
`PROJECT.json` lists the components, the runs, a mutation of the code that each
property catches, the lines of code behind every definition, the hazards and
the findings.

## The system

### Who runs

| Thread | Priority | Runs |
|---|---|---|
| 802.15.4 driver's RX thread | cooperative | `net_recv_data` -> `sn_batch_add` -> `sn_link_send` |
| system work queue | -1, cooperative | `linger_expired`, `ble_linger_expired`, `sync_work_fn`, `big_work_fn`, `iso_path_work_fn`, `stats_tick`, one at a time |
| `sn_link_tx` | 6 | `tx_thread`: ring to DMA |
| `sn_link_reader` | 7 | `reader` -> `drain` -> `sn_control_handle`, so every command |
| `ble_fwd` | 7 | `fwd_loop`: HCI events |
| log thread | lowest | `log_backend_sn.c` -> `sn_link_send` |

The UART's and the 802.15.4 driver's callbacks run in interrupts. A cooperative
thread runs until it waits; the others are preempted by anything above them.
`sn_link_reader` and `ble_fwd` are preemptible and of one priority, and
`prj.conf` does not turn Zephyr's time slicing off, which is on by default: the
models let either of them come between any two steps of the other.

### Components

**802.15.4 batcher** (`batch.c`). State: the open batch (`buf`, `used`,
`count`, `base_us`, `last_us`, `batch_channel`), `dropped_packets`, a mutex and
a delayable work item. Operations: `sn_batch_add` on the RX thread,
`sn_batch_flush` and the counter reset on the reader, the linger handler on the
work queue. Hard: the timer is cancelled outside the mutex, and the deltas are
16-bit. Right when every packet leaves, in order and with its time, or is
counted as dropped.

**Outbound link** (`link.c`, first half). State: `tx_ring`, `seq`, counters, a
mutex, two semaphores, the transfer under way. Operations: `sn_link_send` from
every thread, `tx_thread`, the UART's callback, the counter reset. Hard: a span
stays in the ring while the DMA reads it, capture data may not crowd out
replies, a thread of any priority may be in the middle. Right when the wire
carries the accepted frames, whole and in order, and the counters say so.

**Inbound link** (`link.c`, second half). State: two DMA buffers and the toggle
between them, `rx_ring`, `rx_buf`. Operations: the UART callbacks, `reader`,
`drain`. Hard: the line loses bytes, errors disable receive, bursts may exceed
a buffer. Right when no command is lost without a loss on the line, and a loss
does not spread.

**HCI command path** (`radio_ble.c`: `hci_command`, `note_command_result`).
State: `cmd_lock`, `cmd_done`, `pending_opcode`, `pending_status`, the only
command buffer. Operations: a call from the reader or the work queue, an answer
on the forwarding thread. Hard: answers that are late or missing, two stores
without a lock. Right when a call returns the controller's answer to it, and
returns.

**Following of trains and broadcasts** (`radio_ble.c`). State: `running`,
`periodic_enabled`, `sync_count`, `sync_q`, `big_synced`, `big_pending`,
`big_retry_at`, `bis_count`, the work items. Operations: the forwarding
thread's `note_*`, three work handlers, `sn_radio_ble_start`, `_stop`,
`_set_periodic`. Hard: three threads, no lock, commands that wait two seconds.
Right when what the flags claim is what the controller holds, and a stop stops
it all.

**802.15.4 radio** (`radio154.c`). State: `current_channel`, `running`,
`measuring`, `ed_done`, `ed_result`, `fcs_failed`. Operations: set channel,
start, stop, energy detection; frames and completions from the driver. Hard:
frames wait in the driver, measurements outlast their wait, any driver call may
fail. Right when a frame carries the channel it was heard on, and nothing comes
after a stop.

**Control channel** (`control.c`). State: the selected radio and the BLE
settings, and through it both radios. Operations: eleven commands and two
frames without a reply. Hard: any order of commands, sessions without an end,
a board that does not reboot. Right when replies are true.

**BLE packet forwarding and batching** (`radio_ble.c`: `fwd_loop`, `forward`,
`ble_flush_locked`, the linger work). State: the open batch (`bbuf`, `bused`,
`bcount`, `bbase_us`, `blast_us`), eight counters, a mutex, a delayable work
item. Operations: a packet forwarded, a STOP's flush, the linger handler, the
counter reset, the counters read for STATS. Hard: the timer is cancelled with
the mutex by one thread and without it by another; a packet let through while
`running` was set may still be on its way to the batch when STOP clears it, and
be batched behind its flush; the counters are reset and read under no lock.
Right when every packet leaves, in order and with its time, or is counted, and
one at most comes behind its capture's stop.

**Statistics tick** (`main.c`: `stats_tick`), partly: `BleForward` has its
reading of the BLE counters in the midst of the threads that change them, and
`TxLink` its sends as those of the work queue. The other gauges it copies are
left out.

**Not modelled:** the log backend (formatting, then one `sn_link_send`: one
more sender of `TxLink`, the lowest in priority, which the proofs cover and the
instance has not); start-up and the conformance burst
(straight-line code, before the threads interact; what start-up leaves is the
`Init` of each module); `shared/frame.c` and `commands.h` (a submodule that is
not in the repository; what `sn_frame_encode` and `sn_crc16` do is taken from
their use); the bridge and the host (`TxLink` and `RxLink` have the bytes up to
the wire, `HostClock` the host's sum of deltas). The submodule and the bridge
could only be guessed; the rest has no state of its own that another thread
could see half changed.

### How they interact

```
 driver RX thread ──> Radio154 ──> Batch ─────┐
                                              v
 controller ──> hci_rx ──> ble_fwd ──> BleForward ───> TxLink ──> DMA ──> host
                  │  │                          ^
   answers        │  └ BleFollow: work queue    │ replies, STATS, LINK, LOG
                  v          │                  │
             HciCommand <────┴──── Control <── RxLink <── UART <── host
```

`Control` calls both radios and replies through the link. `Radio154` fills the
batch that `Control`'s commands flush. `BleFollow` and `Control` share the
command path, and `BleForward` and `BleFollow` the forwarding thread: the first
has what it does with a packet, the second what it notices in one.

## The modules

| Module | Models | State and actions against the code |
|---|---|---|
| `LossyFifo` | what a batcher promises | packets go in, come out in order in groups, or are counted lost |
| `HostClock` | how a host adds up deltas | `HostTime` as a recursive function over a batch |
| `Batch` | `batch.c` | `AddLock`, `AddAppend`, `AddClose` are `sn_batch_add` up to its early flush, its append and its close; `FlushCancel`, `FlushSend` are `sn_batch_flush`; `TimerExpires`, `LingerStart`, `LingerExpired` the work item. `linger` has the three flags of Zephyr's delayable work |
| `TxLink` | `sn_link_send`, `tx_thread`, `uart_cb` (transmit) | one action per statement that touches shared state; `mem`, `taken`, `claim`, `put` are the ring; an increment is a load and a store; `Yields` says which thread may run in front of which, two cooperative ones included |
| `RxLink` | `uart_cb`, `uart_cb_rx`, `reader`, `drain` | bytes carry the frame and position they come from, so that a spliced frame can be told; one action per callback and per turn of `drain`; `PauseMissed` is the tail of a burst longer than a buffer, which the driver keeps until more bytes come (`link.c:112-121`) |
| `HciCommand` | `hci_command`, `note_command_result` | one action per statement; the forwarding thread's test and its three stores are four |
| `BleForward` | `fwd_loop`, `forward`, `ble_flush_locked`, the linger work, the flush of `sn_radio_ble_stop`, the counters, their reset and `sn_radio_ble_get_stats` | the mutex with its queue, and under it one action for every store of a counter or of `bcount` that the stats tick can come behind: a flush is the frame and its count, then `bcount = 0`; an append is up to `bcount++`, then `captured++`; the reset is a store at a time |
| `BleFollow` | the rest of following | a command is lock, answer or timeout, unlock; each handler is cut where it waits; `FwdPasses` is `fwd_loop`'s test of `running`, a step of its own before what is done with the event; `denied` has the streams whose data path the controller refused |
| `Radio154` | `radio154.c`, and what reaches the batch | one action per driver call and per store other threads can see; a frame remembers when it was heard (`heard`: in the capture, tuned away, or between the driver's retuning and the store) and whether the driver was retuned while it had it (`moved`) |
| `Control` | `sn_control_handle` | one action per command, with what it makes both radios do; the scan timing with its default, its clamp and its sixteen-bit units; key frames that are refused and filters that are cut, both without a reply |
| `MC_*` | instances for TLC | sets that a cfg cannot write |
| `BatchProofs`, `TxLinkProofs`, `RxLinkProofs`, `HciCommandProofs`, `BleForwardProofs`, `BleFollowProofs`, `Radio154Proofs`, `ControlProofs` | theorems about the module they name | |

`Batch` and `BleForward` refine `LossyFifo`: `Decode` decodes the entries the
module writes as the host does, adding up deltas, and `LossyFifoSpec` says
that the result is what was captured. What the mapping hides is everything a
batch is: bytes, limits, timers, locks, the order of three threads.

### What was abstracted

Payload bytes, addresses, keys and RSSI values are left out or one of two model
values; lengths, times, channels and sequence numbers are kept. A ring is its
bytes and positions; `bytes_sent`, which goes wherever `frames_sent` goes, is
left out, and so are the gauges that read and never write. Of Zephyr's mutexes
the models have what they need: `BleForward` the hand-off, the work queue first
and the others as they came; `Radio154` the priority a holder inherits, without
which the reader would be seen to run while a thread above it waits for a lock
that the work queue is about to give back. In `TxLink` and `BleForward` the
inheritance is left out: it shortens some interleavings and adds none.
`Queued` of `TxLink` counts what the DMA has claimed as gone, as
`ring_buf_size_get` does.

In `BleFollow` `sync_count++` and `sync_count--` are single steps: the first is
the work queue's, which nothing preempts, and the second, on the forwarding
thread, is a load and a store between which only the work queue could come
with an increment, after a command's answer that this same thread has to
deliver. What `scan_started` stores, and what the forwarding thread stores for
one event, is one step. Masks, address, filter and scan parameters of a start
are one command.
The controller is external; it obeys in the order given, may refuse, and says
later what became of a sync.

In `BleForward` an increment is one step. The stats tick, on the cooperative
work queue, sees it before or after; and the reader's reset does not fall into
one of the forwarding thread's, which has delivered the answer to the reader's
HCI reset and has nothing else in hand (`ResetCaptured`). Left out is a GET_INFO
whose reset fails at once or is given up on while the forwarding thread is in
the middle of a packet. The time stamp and `oversized` are taken in `FwdTake`.

`Control` runs its commands one at a time, as the reader does; what other
threads do meanwhile is the business of `Radio154`, `HciCommand` and
`BleFollow`. Its history variable `host` is what a host may believe from the
replies it got.

## What is checked

All runs set `CHECK_DEADLOCK FALSE`: packets, calls and operations are bounded,
so each model may stop with nothing left to do. Each component has a run that
passes, `BleFollow` a second one for liveness on an instance of its own; the
properties are in the component's module, at its end, each with the
sentence of the repository it comes from where there is one.

| Run | Shows |
|---|---|
| `Batch` | types, and no overrun (`TypeOK`); a lossy FIFO with exact times (`LossyFifoSpec`); a batch left open has a timer or somebody on the way (`LingerCovers`); packets leave (`PacketsLeave`) |
| `TxLink` | the wire is the accepted frames (`StreamIntact`); counters (`CountsExact`); the reported peak misses a DMA chunk at most (`HighWaterHolds`); replies are not crowded out (`ReserveServesControl`); everything accepted is sent (`Drains`) |
| `RxLink` | the driver never gets the buffer it fills (`TypeOK`); no header wedges `drain`, and the reader loses nothing (`ReaderKeepsAll`); order, no frame twice, and a byte lost, on the line, to a full ring or to a full `rx_buf`, costs two frames at most (`LossIsContained`); with nothing lost, every command is handled (`EveryCommandHandled`) |
| `HciCommand` | while no wait has run out a call returns its own answer (`AnswerIsOwn`); with timeouts, every call returns (`EveryCallReturns`) and the buffer is not kept (`BufferNotKept`) |
| `Radio154` | nothing of a capture comes after its stop (`StopIsClean`); the radio is where the firmware thinks (`RadioAsBelieved`); readings are not mixed up (`ReadingIsOwn`); frames the driver does not hold across a retuning carry the channel they were heard on, and bad checksums are the capture's (`RecordsAreTrue`) |
| `Control` | one radio receives (`OneReceiver`); replies are true (`HostIsRight`); keys last one capture (`KeysLiveOneCapture`); a scan has the timing, the PHYs and the keys asked for in this session (`StartsAsAsked`) |
| `BleFollow` | nothing is followed after a stop (`NothingAfterStop`); flags are backed by the controller or an event under way (`FlagsAreReal`); every stream has its path or was itself refused (`PathsAreSet`), and only this scan's are asked for (`PathsOfThisScan`) |
| `BleFollowLive` | with announcements that never end: the queue is emptied once no sync is wanted, and no broadcast request stays in flight for ever unless the handler of syncs never ends (`RequestsEnd`) |
| `BleForward` | types, no overrun, one owner of the mutex (`TypeOK`); a lossy FIFO (`LossyFifoSpec`); one packet at most behind a stop's flush (`OneAtMostAfterStop`); counters and STATS frames add up but for one packet (`CountsAddUp`); a batch left open has a timer or somebody on the way (`LingerCovers`); packets leave (`PacketsLeave`) |

### Where code and comments disagree

Three runs end in a counterexample: each checks one sentence of the repository
that the code does not keep. `findings` quotes the sentence.

| Run | What the trace shows |
|---|---|
| `HciLateAnswer` | the answer to a call that timed out, taken for that of the next call with the same opcode |
| `ControlFilter` | the last session's filter in a session that sent none |
| `BleFollowRestart` | a START during a capture: a sync made between the reset and `scan_started`, which then counts none |

The passing runs set aside, by name, the cases in which the code does not keep
what the property says, so that all other ways to break it stay covered. The
models have each of these behaviours, if not in every instance:

| Property | Sets aside | What happens there |
|---|---|---|
| `CountsExact` | `crossed` | the session's reset (`link.c:344`) falls between a frame's acceptance and the store that counts it, and the store brings the last session's count back: what the reset is there to prevent (`link.c:339-341`). It takes a sender the reader may preempt: the BLE forwarder or the log thread |
| `EveryCommandHandled` | `Stalled` | the tail of a burst longer than a DMA buffer stays in the driver while the host is silent (`link.c:112-121`); the code's buffers are larger than what its host sends in one go, the instance's are not |
| `LossIsContained` | two frames | a lost payload byte: the frame is handled with the first byte of the next one's header as its end, so the next one is lost with it. `link.c:207-210` says that a byte "must cost one frame" |
| `AnswerIsOwn` | `timeouts > 0` | late answers: `HciLateAnswer`. And a wait that runs out between `note_command_result`'s test of the opcode and its stores (`radio_ble.c:221-225`) lets the next command, of another opcode, be woken with the old status |
| `RecordsAreTrue` | `late` and `moved`; `heard = "retuning"` | a frame the driver had queued is tagged with the channel the radio was moved to, for the flags are read when it is handed over (`radio154.c:265`): also one heard during a measurement, which "is dropped rather than recorded against the wrong channel" according to `src/README.md:196-198` and `radio154.c:48-51`. And a frame heard between the driver's retuning and the store of `current_channel` (`radio154.c:119`) is tagged with the old one, which no document denies |
| `ReadingIsOwn` | `raced` | a late completion between `k_sem_reset` and `ed_scan` is reported as the new channel's reading |
| `RadioAsBelieved`, `RecordsAreTrue` | `lapses > 0` | a refused restore after a measurement, whose result is cast to void (`radio154.c:211`), leaves the radio on the measured channel or off and is reported as a success, against "whether or not the measurement worked" (209-210) |
| `OneReceiver`, `HostIsRight`, `KeysLiveOneCapture`, `StartsAsAsked` | `lapses > 0` | a radio that would not stop is left receiving beside the other and SET_RADIO answers OK (`control.c:162`), against "the radio left behind is stopped" (159-160) |
| `HostIsRight` | a channel above 255 | 256 + n is cut to n and answered OK (`control.c:216`) |
| `StartsAsAsked` | an interval above 40.9 s | its units wrap (`radio_ble.c:51`): 41000 ms are 65600 units, taken as 64, which is 40 ms. Of the keys it says that they are those of the last well-formed frame: a malformed one is ignored and the keys before it stay (`radio_ble.c:1009-1019`), with no reply to tell |
| `PathsAreSet` | `silent`; `denied` | a data-path command given up on is not repeated, nor is one refused (`radio_ble.c:416`): that stream puts nothing in the capture. The property is that a refusal costs no other stream |
| `RequestsEnd` | a wanted sync; a `sync_work_fn` that never ends | while a sync is wanted and announcements keep coming, the loop at `radio_ble.c:835` may take requests for ever, each with a command of up to two seconds, and `big_work_fn` waits behind it |
| `NothingAfterStop` | `lateReset` | a reset given up on may be obeyed late, or never |
| `FlagsAreReal` | `lateReset` | a reset given up on is obeyed in the midst of a later capture and drops the train and the broadcast without an event: it takes STARTs that each time out, until an answer lags its command by one and is taken for that of the next (`radio_ble.c:221-225`) |
| `OneAtMostAfterStop` | one packet | `ble_fwd` may lose the processor between the test of `running` (`radio_ble.c:631-638`) and the mutex (543), and its packet is batched behind the flush; it is sent with the linger. The repository promises more of 802.15.4 only, where `StopIsClean` holds |
| `CountsAddUp` | `Clearing` | the counters are reset one by one under no lock (`radio_ble.c:1127-1136`): a STATS frame read in between has some of the last session and some of the new one |
| `CountsAddUp` | one packet | a packet that came behind a GET_INFO's flush is in the batch, and its `captured++` is undone by the reset; and a STATS frame read within a flush or an append may have a packet on one side of the sum only, or one report more than packets, which `radio_ble.h:120` calls a subset (`note_counts` comes before `captured++`) |

One more comment needs a reading: the high-water mark of the ring
(`link.c:325-330`) is measured after the put, when `sn_link_tx` may have
claimed or released a span already. `HighWaterHolds` says what is left of "the
worst it reached": the mark is short of the ring's content by a chunk at most.

### Bounds

Every bound is a constant and a guard (`MaxPackets`, `MaxSends`, `MaxCalls`,
`MaxOps`, ...). The sizes of the code are scaled so that the interesting cases
meet within the bound:

- `Batch`: three packets, batches of three, deltas up to 3 with times 1, 2, 5
  in any order, nine bytes: all four reasons to close early, the full batch,
  the truncated PSDU, and an add against a flush against the linger handler.
- `TxLink`: two cooperative threads, the RX thread's data and the work queue's
  control, and the reader below the tx thread; three frames; a ring of seven
  bytes with three in reserve and chunks of two, so that frames wrap, claims
  stop at the end of memory and the ring fills; one failed transfer and one
  reset of the counters. Lengths 2 and 3, and 9 for a frame that does not
  encode.
- `RxLink`: two to four frames of two to eight bytes, well formed or with a
  header that promises too much, and one that fills `rx_buf` to its last byte,
  where a chunk behind it does not fit; buffers of four and six, a ring of
  five: it overflows, and one byte may be lost on the line besides, at any
  position; one receive error. Buffers of four are shorter than a burst, which
  the code's are not, so that tails do stay in the driver.
- `HciCommand`: three calls by two threads of two opcodes; three timeouts, so
  that every call may time out; one failure of the driver.
- `Radio154`: three operations, three frames, one timeout, one refusal and one
  lapse: an operation before, during and after a measurement. Two frames are
  too few: it takes one at the mutex and one behind it for the reader to retune
  between a frame's test and its tag, which the proof's invariant asks about.
- `Control`: seven commands in every order, a session being five of them; two
  refusals and one lapse. Channels: two of the radio's, one it lacks and one
  that is the radio's in its low byte only. PHYs: 0, the legacy commands, 4, and
  one too many. Timings: one as the radio takes it, one whose interval is
  the default and whose window must be clamped to it, and one whose units wrap;
  `Wide` is 65536, the code's. Key frames: one good, one with a bad entry, one too long for the
  table; filters: none, one, and one that is cut.
- `BleFollow`: two operations, of which the second may be a stop, a START
  during the capture or a change of setting; three reports, so that a train
  or a broadcast is asked for again; a queue of one, two streams, one refusal
  beyond those the controller cannot help; three commands given and three
  events on their way (`MaxGiven`, `MaxInFlight`). Commands may go unanswered or
  unsent without a bound.
- `BleFollowLive`: a queue of two and announcements without a bound (`Repeats`),
  so that `sync_q` can be filled again while a request from it is under way and
  the handler need not end; one capture and its stop.
- `BleForward`: four packets with times 1, 2 and 5 in any order, batches of
  three, deltas up to 3 and ten bytes, so that each reason to close early and a
  packet behind a full batch occur; a truncated isochronous packet; two STOPs,
  since a session begins with one.

### Fairness

A thread that can run does (`WF` on each thread's steps), because nothing above
it runs for ever: the RX thread's calls are finite, `tx_thread` sleeps when its
ring is empty, and the work queue waits at every command. That each of its items
ends is not assumed: `sync_work_fn` need not, while a sync is wanted and
announcements keep coming, and `RequestsEnd` asks for its end where it needs
it. `BleForward` and `Batch`, whose linger handler may wait behind such an item,
have the weak fairness of their handler only: there an item that never ends
would hold a batch until the next packet or stop. The DMA ends its transfers, the
kernel its timeouts, and the driver frees a buffer it was given. No fairness is
assumed of what the code does not control: the controller may never answer,
the host never send again, a packet never come.

## What is proved

Each `*Proofs` module states its theorems last, as `Spec => []P` for the `P`
that a run checks on a small instance, from the assumption on the constants of
its module alone: sizes, limits, threads, channels and numbers of packets,
frames, calls or sessions are arbitrary. The properties are not inductive. Each
module starts with the invariant that is, in parts, with a lemma per part that
every step keeps it, given the parts before it.

- **`BatchProofs`**: `HostTimeExact`, adding up deltas gives back the times
  they were taken from, for a batch of any length. A recursive function and an
  induction: since no induction theorem can be instantiated, the proof takes
  the least place where the two differ and finds a smaller one.
  `BatchIsALossyFifo` (`LossyFifoSpec`), `TypeCorrect`, `BufferNeverOverrun`,
  `DeltasAreExact`, `LingerAlwaysCovers`. The append
  writes without a test, on the strength of one made when the mutex was taken:
  `BufferInv` says what is known in between (the mutex is held, an empty buffer
  has `used = HeaderLen`, the packet to be appended passed the tests against the
  batch it joins). From the delta's bounds and `HostTimeExact`, what a flush
  delivers decodes to what was captured, which is a step of `LossyFifo`.
  `LingerCovers` needs that the work item is `canceling` only while its handler
  runs: a submission the kernel then refuses loses nothing.
- **`BleForwardProofs`**: `ForwardIsALossyFifo`, `OneAtMostComesAfterStop`,
  `CountsAlwaysAddUp`, `LingerAlwaysCoversBatch`, `ForwardTypeCorrect`. Six
  parts: `MutexInv` (owner and queue), `SessionInv` (no capture while a STOP is
  under way, no packet in `forward` while the counters are reset), `BufferInv`
  (what is known of the batch between the tests and the append, and between the
  two steps of a flush, when its packets are counted and still in the buffer),
  `StopInv`, `CountInv`, `TimerInv`. `StopInv` rests on no order of the queue
  nor on the scheduler: with `running` clear nothing new enters `forward`, and
  the one packet that may be there finds an empty batch. `CountInv` says at each
  place of the forwarding thread and of the reset by how much each counter may
  differ from its sum; what a STATS frame may show follows.
- **`TxLinkProofs`**: `StreamAlwaysIntact`, `CountsAlwaysExact`,
  `HighWaterAlwaysHolds`, `ReserveAlwaysServesControl`, `LinkTypeCorrect`.
  `Held` says who has the lock and what the DMA was given; `StreamInv` where
  each accepted byte is, in a ring whose positions are taken modulo its size;
  `CountInv` that one count at most is not yet stored. `ReserveInv` says that
  every byte held `Size - Reserve` or more past the ring's tail is control: data
  is put in only before that place, and as the tail advances comes only nearer
  to it. So where control finds no room, all of the bytes in excess of
  `Size - Reserve` are control, and they are counted.
- **`RxLinkProofs`**: `LossAlwaysContained` (`LossIsContained`),
  `ReaderAlwaysKeepsAll`, `ReceiveTypeCorrect`. `OrderInv`
  says that `rx_buf`, ring, DMA buffer and the host's next byte hold bytes in
  the order of sending, whatever was lost among them; `HandledInv` that each
  frame handled began before all of them. That a lost byte costs two frames is
  an argument about money. Call a frame *begun* when all that is left to read
  comes after its first byte, and a byte *missing* when it was sent, is in no
  buffer and is of a frame not begun. `LossInv`: the begun frames that are
  spoilt and twice the missing bytes are together no more than twice the bytes
  lost. A byte that is lost becomes missing, and pays two. When `drain` hands a
  frame over with n bytes missing, it has taken n bytes of later frames in
  their place, as its length is that of the frame (`WellFormed`); so n missing
  bytes go, which pay one each for the frames those bytes are of, and for the
  frame itself, and the taken ones are missing from now on. When `drain` skips
  a byte, and by that goes past a frame's start, a byte of that frame's header
  is missing (`NoHeader`), or it would have been recognised. At the end of a
  session the same count covers the frames never begun (`NeverBegun`).
- **`HciCommandProofs`**: `EveryAnswerIsOwn`, `BufferIsNeverKept`,
  `CommandTypeCorrect`. `LockInv` and `CallInv` say who holds what at which
  statement; `Exchange`, which holds until a wait runs out, follows the one
  command from caller to controller and its answer back.
- **`BleFollowProofs`**: `FlagsTellTheTruth` (`FlagsAreReal`),
  `StopLeavesNothing` (`NothingAfterStop`), `EveryStreamIsAnswered`
  (`PathsAreSet`), `NoPathLeftOver` (`PathsOfThisScan`, an action property),
  `TypesHold`; restarts, refusals, timeouts and the numbers of syncs, streams,
  reports and operations are arbitrary. Nine parts. `Typed` and `CallInv`: who
  has the command lock and is at which place of a command. `RunInv`: with
  `running` clear no work item is at the lock, so a stop's reset, which takes
  the lock last, finds none that could ask again. `ResetInv` follows a reset:
  it is the last command given while the reader waits for it, its answer is the
  last event, and the controller is empty behind it. `SyncInv` and `BigInv` say
  `Covered` of every place among the events at which something was granted, and
  of the flags: the end of what is held comes before another is granted, or
  there is none because it is still held, or a reset's answer is among the
  events and the flags will be cleared. Only of the flags it would not be
  inductive: a flag is set from an event, when the controller may have lost the
  train long before. `QuietInv`: until a command is given up on one at a time is
  under way, so that an answer is the answer to what its thread waits for.
  `PathInv`: that a broadcast was made is heard after that it was granted, and
  from then on the iso work is queued, or at a stream with all before it set
  up or refused (`Settled`), or done. `ThroughInv`: an event that has passed the
  test of `running` is still the first.
- **`Radio154Proofs`**: `EveryStopIsClean`, `RadioIsAsBelieved`,
  `EveryRecordIsTrue`, `EveryReadingIsOwn`, `RadioTypeCorrect`. `Stopped`,
  `Tuned`, `Tagged` and `Measured` say at each statement of an operation what
  the driver has done and the firmware has not stored yet. `Tagged` says of every
  frame in the driver, in hand or batched that it is on the channel the radio is
  tuned to or was left behind by a retuning; for a driver that hands frames over
  at once it rests on the scheduling, as none waits while the reader runs.
- **`ControlProofs`**: `OnlyOneReceiver`, `HostIsAlwaysRight`,
  `KeysLiveForOneCapture`, `EveryStartIsAsAsked`, `ControlTypeCorrect`. `Driven`
  ties each radio's state to the firmware's flags, `Right` what a host knows to
  both. Of the timing it is proved that the units are the whole ones of the time
  asked for and the window never exceeds the interval, wherever sixteen bits
  hold them.

Only model-checked: liveness (`PacketsLeave`, `Drains`, `EveryCommandHandled`,
`EveryCallReturns`, `RequestsEnd`), which is out of the prover's reach.

## Plan

Done: every component with state of its own, its runs, and proofs about all of
them. What could follow:

1. An abstract specification of the command path, an answer for each call, and
   `HciCommand` without timeouts shown to implement it; then `BleFollow` over
   that specification in place of its own lock, answer or timeout.
2. `Radio154` over `Batch` in place of its count of open packets.

## Running it

```
tlc -workers 2 -config Batch.cfg MC_Batch.tla
tlapm BatchProofs.tla
```

Each run takes at most about two minutes on two workers, each proof module at
most a few minutes. The three runs named above are expected to end in a
counterexample.
