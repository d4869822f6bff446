------------------------------- MODULE TxLink -------------------------------
(***************************************************************************)
(* The outbound half of the link, src/link.c: sn_link_send, the transmit   *)
(* ring, and the thread that hands spans of it to the UART's DMA.          *)
(*                                                                         *)
(* Every thread of the firmware sends through it: the radio's RX thread    *)
(* and the work queue (cooperative), the reader, the BLE forwarder, and    *)
(* the log thread.  A frame is encoded and put in the ring under a mutex;  *)
(* the tx thread claims up to a chunk, waits for the DMA to have read it,  *)
(* and only then gives the span back.  The counters are ordinary loads and *)
(* stores, and resetting them takes no lock.                               *)
(*                                                                         *)
(* A byte is a token that names its frame and its place in it.  The        *)
(* scheduler is a single core's: a thread runs while none of a higher      *)
(* priority can, and nothing preempts a cooperative one.                   *)
(***************************************************************************)
EXTENDS Integers, Sequences, FiniteSets

CONSTANTS
  Threads,       \* the threads that send
  Priority,      \* [Threads -> Nat], the higher the more urgent
  CoopPriority,  \* threads at or above it are never preempted
  TxPriority,    \* the tx thread's own
  Reader,        \* the thread that also resets the counters
  SendsControl,  \* threads whose frames carry control
  SendsData,     \* threads whose frames carry data or logs
  Lens,          \* lengths of an encoded frame
  MaxFrame,      \* the longest one sn_frame_encode will produce
  Size,          \* TX_RING_SIZE, 8192
  Reserve,       \* TX_CONTROL_RESERVE, 512
  Chunk,         \* TX_DMA_CHUNK, 64
  MaxSends,      \* bound of the model: calls of sn_link_send
  MaxFailures,   \* bound of the model: times uart_tx refuses
  MaxResets      \* bound of the model: sessions opened

ASSUME TxAssumption ==
  /\ Priority \in [Threads -> Nat] /\ "none" \notin Threads
  /\ CoopPriority \in Nat /\ TxPriority \in Nat
  /\ Reader \in Threads
  /\ SendsControl \subseteq Threads /\ SendsData \subseteq Threads
  /\ Lens \subseteq Nat \ {0} /\ MaxFrame \in Nat
  /\ Size \in Nat \ {0} /\ Reserve \in 0 .. Size /\ Chunk \in Nat \ {0}
  /\ MaxSends \in Nat /\ MaxFailures \in Nat /\ MaxResets \in Nat

VARIABLES
  mem,           \* the ring's memory, byte by byte
  put,           \* bytes ever put in the ring
  taken,         \* bytes ever given back: the ring's get tail
  claim,         \* bytes claimed past taken and not given back
  seq,           \* sequence number of the next accepted frame
  frames_sent, frames_dropped, queued_high_water,
  encode_lock,   \* its owner, or "none"
  pc,            \* where each thread is in sn_link_send
  loaded,        \* the counter value each thread has read and not stored
  tx_ready,      \* count of the semaphore, at most one
  tx_done,       \* count of the semaphore, at most one
  tx,            \* where the tx thread is
  dma,           \* whether the peripheral is reading the claimed span
  wire,          \* history: every byte the peripheral has read
  accepted,      \* history: every byte of every frame accepted
  sentNow, droppedNow,  \* history: frames accepted, refused since the reset
  crossed,       \* history: a reset fell between a frame's acceptance and its count
  sends, failures, resets   \* for the bounds

ringVars    == <<mem, put, taken, claim>>
counterVars == <<frames_sent, frames_dropped, queued_high_water>>
senderVars  == <<seq, encode_lock, pc, loaded, sends>>
txVars      == <<tx_done, tx, dma, wire, failures>>
histVars    == <<accepted, sentNow, droppedNow, crossed>>
vars == <<ringVars, counterVars, senderVars, txVars, histVars, tx_ready, resets>>

Byte   == [frame : Nat, at : Nat, control : BOOLEAN]
NoByte == [frame |-> 0, at |-> 0, control |-> FALSE]

Frame(id, control, n) ==
  [i \in 1 .. n |-> [frame |-> id, at |-> i, control |-> control]]

Larger(a, b) == IF a > b THEN a ELSE b
Least(S)     == CHOOSE x \in S : \A y \in S : x <= y
-----------------------------------------------------------------------------
(* The ring of Zephyr's ring_buffer.h. *)

Space  == Size - (put - taken)           \* ring_buf_space_get
Queued == put - (taken + claim)          \* ring_buf_size_get: claims excluded

\* What position p of the stream holds in memory.
At(p) == mem[p % Size]

Unread == [i \in 1 .. put - taken |-> At(taken + i - 1)]

RingPut(bytes) ==
  /\ mem' = [a \in 0 .. Size - 1 |->
               LET i == ((a - put) % Size) + 1
               IN  IF i <= Len(bytes) THEN bytes[i] ELSE mem[a]]
  /\ put' = put + Len(bytes)
-----------------------------------------------------------------------------
(* The scheduler. *)

Blocked(t) == pc[t] = "lock" /\ encode_lock # "none"
Ready(t)   == pc[t] # "idle" /\ ~Blocked(t)
Coop(t)    == Priority[t] >= CoopPriority

\* Whether t may run though u could: of two cooperative threads the one that
\* has begun goes on, and at the lock either may be first.
Yields(u, t) == IF Coop(u) THEN Coop(t) /\ pc[u] = "lock"
                ELSE Priority[u] <= Priority[t]

MayRun(t) ==
  /\ \A u \in Threads \ {t} : Ready(u) => Yields(u, t)
  /\ tx \in {"claim", "start"} \/ (tx = "ready" /\ tx_ready = 1)
       \/ (tx \in {"done", "dma"} /\ tx_done = 1)
     => TxPriority <= Priority[t]

TxMayRun == \A u \in Threads : Ready(u) => ~Coop(u) /\ Priority[u] <= TxPriority
-----------------------------------------------------------------------------
(* sn_link_send *)

Call(t) ==
  /\ pc[t] = "idle"
  /\ sends < MaxSends
  /\ sends' = sends + 1
  /\ MayRun(t)
  /\ pc' = [pc EXCEPT ![t] = "lock"]
  /\ UNCHANGED <<ringVars, counterVars, seq, encode_lock, loaded, txVars,
                 histVars, tx_ready, resets>>

\* The mutex forgotten.
LockFree_Always == TRUE

LockFree == encode_lock = "none"

\* Data may use the whole ring.
Fits_NoReserve(control, n) == Space >= n

\* One byte short of the space a frame needs.
Fits_OffByOne(control, n) == Space + 1 >= n + (IF control THEN 0 ELSE Reserve)

\* Only frames that carry control may use the reserve.
Fits(control, n) == Space >= n + (IF control THEN 0 ELSE Reserve)

\* sn_frame_encode refuses a frame longer than it may produce: -EINVAL, and
\* neither a sequence number nor a counter is touched.
EncodeRejects(t, n) ==
  /\ pc[t] = "lock" /\ LockFree /\ MayRun(t)
  /\ n > MaxFrame
  /\ pc' = [pc EXCEPT ![t] = "idle"]
  /\ UNCHANGED <<ringVars, counterVars, seq, encode_lock, loaded, sends,
                 txVars, histVars, tx_ready, resets>>

\* "All or nothing": the whole frame goes in the ring.
Accept(t, control, n) ==
  /\ pc[t] = "lock" /\ LockFree /\ MayRun(t)
  /\ n <= MaxFrame
  /\ Fits(control, n)
  /\ encode_lock' = t
  /\ seq' = seq + 1
  /\ RingPut(Frame(seq, control, n))
  /\ pc' = [pc EXCEPT ![t] = "sent"]
  /\ accepted' = accepted \o Frame(seq, control, n)
  /\ sentNow' = sentNow + 1
  /\ UNCHANGED <<taken, claim, counterVars, loaded, sends, txVars, droppedNow,
                 crossed, tx_ready, resets>>

\* ... or none of it.
Refuse(t, control, n) ==
  /\ pc[t] = "lock" /\ LockFree /\ MayRun(t)
  /\ n <= MaxFrame
  /\ ~Fits(control, n)
  /\ encode_lock' = t
  /\ pc' = [pc EXCEPT ![t] = "dropped"]
  /\ droppedNow' = droppedNow + 1
  /\ UNCHANGED <<ringVars, counterVars, seq, loaded, sends, txVars, accepted,
                 sentNow, crossed, tx_ready, resets>>

\* The load of frames_sent++ or of frames_dropped++.
CountLoad(t) ==
  /\ pc[t] \in {"sent", "dropped"} /\ MayRun(t)
  /\ loaded' = [loaded EXCEPT ![t] =
                  IF pc[t] = "sent" THEN frames_sent ELSE frames_dropped]
  /\ pc' = [pc EXCEPT ![t] = IF @ = "sent" THEN "sent+1" ELSE "dropped+1"]
  /\ UNCHANGED <<ringVars, counterVars, seq, encode_lock, sends, txVars,
                 histVars, tx_ready, resets>>

\* Its store.  A refused frame's call ends here, with the unlock.
CountStore(t) ==
  /\ MayRun(t)
  /\ \/ /\ pc[t] = "sent+1"
        /\ frames_sent' = loaded[t] + 1
        /\ pc' = [pc EXCEPT ![t] = "measure"]
        /\ UNCHANGED <<frames_dropped, encode_lock>>
     \/ /\ pc[t] = "dropped+1"
        /\ frames_dropped' = loaded[t] + 1
        /\ pc' = [pc EXCEPT ![t] = "idle"]
        /\ encode_lock' = "none"
        /\ UNCHANGED frames_sent
  /\ loaded' = [loaded EXCEPT ![t] = 0]
  /\ UNCHANGED <<ringVars, queued_high_water, seq, sends, txVars, histVars,
                 tx_ready, resets>>

\* The occupancy as it was before the frame just put in.
Occupancy_Before == Queued - accepted[Len(accepted)].at

\* What the peak is taken of: ring_buf_size_get.
Occupancy == Queued

\* Peak occupancy, then the unlock.
Measure(t) ==
  /\ pc[t] = "measure" /\ MayRun(t)
  /\ queued_high_water' = Larger(queued_high_water, Occupancy)
  /\ encode_lock' = "none"
  /\ pc' = [pc EXCEPT ![t] = "give"]
  /\ UNCHANGED <<ringVars, frames_sent, frames_dropped, seq, loaded, sends,
                 txVars, histVars, tx_ready, resets>>

Give(t) ==
  /\ pc[t] = "give" /\ MayRun(t)
  /\ tx_ready' = 1
  /\ pc' = [pc EXCEPT ![t] = "idle"]
  /\ UNCHANGED <<ringVars, counterVars, seq, encode_lock, loaded, sends,
                 txVars, histVars, resets>>

\* Between the decision about a frame and the store that counts it.
Counting(t) == pc[t] \in {"sent", "sent+1", "dropped", "dropped+1"}

\* sn_link_reset_counters, on the reader thread and under no lock.
Reset ==
  /\ pc[Reader] = "idle" /\ MayRun(Reader)
  /\ resets < MaxResets
  /\ resets' = resets + 1
  /\ frames_sent' = 0 /\ frames_dropped' = 0 /\ queued_high_water' = 0
  /\ sentNow' = 0 /\ droppedNow' = 0
  /\ crossed' = (crossed \/ \E t \in Threads : Counting(t))
  /\ UNCHANGED <<ringVars, senderVars, txVars, accepted, tx_ready>>
-----------------------------------------------------------------------------
(* tx_thread *)

\* ring_buf_get_claim gives no more than a chunk, and never past the wrap.
TxClaim ==
  /\ tx = "claim" /\ TxMayRun
  /\ claim' = Least({Chunk, put - taken, Size - (taken % Size)})
  /\ tx' = IF claim' = 0 THEN "ready" ELSE "done"
  /\ UNCHANGED <<mem, put, taken, counterVars, senderVars, tx_done, dma, wire,
                 failures, histVars, tx_ready, resets>>

TxWaitReady ==
  /\ tx = "ready" /\ tx_ready = 1 /\ TxMayRun
  /\ tx_ready' = 0
  /\ tx' = "claim"
  /\ UNCHANGED <<ringVars, counterVars, senderVars, tx_done, dma, wire,
                 failures, histVars, resets>>

TxWaitDone ==
  /\ tx = "done" /\ tx_done = 1 /\ TxMayRun
  /\ tx_done' = 0
  /\ tx' = "start"
  /\ UNCHANGED <<ringVars, counterVars, senderVars, dma, wire, failures,
                 histVars, tx_ready, resets>>

\* The span given back as soon as the peripheral has been told of it.
HoldSpan_ReleaseEarly == taken' = taken + claim /\ claim' = 0

\* The span stays claimed while the peripheral reads it.
HoldSpan == UNCHANGED <<taken, claim>>

TxStart ==
  /\ tx = "start" /\ TxMayRun
  /\ dma' = [from |-> taken, n |-> claim]
  /\ tx' = "dma"
  /\ HoldSpan
  /\ UNCHANGED <<mem, put, counterVars, senderVars, tx_done, wire, failures,
                 histVars, tx_ready, resets>>

\* The semaphore not given back when uart_tx refuses.
GiveDone_Not == UNCHANGED tx_done

GiveDone == tx_done' = 1

\* uart_tx refuses: nothing is given back, and the span is tried again.
TxFails ==
  /\ tx = "start" /\ TxMayRun
  /\ failures < MaxFailures
  /\ failures' = failures + 1
  /\ GiveDone
  /\ claim' = 0
  /\ tx' = "sleep"
  /\ UNCHANGED <<mem, put, taken, counterVars, senderVars, dma, wire,
                 histVars, tx_ready, resets>>

TxWakes ==
  /\ tx = "sleep" /\ TxMayRun
  /\ tx' = "claim"
  /\ UNCHANGED <<ringVars, counterVars, senderVars, tx_done, dma, wire,
                 failures, histVars, tx_ready, resets>>

\* The peripheral has read the span, at the latest now: UART_TX_DONE, in an
\* interrupt, so whatever thread is running.
DmaDone ==
  /\ dma.n > 0
  /\ wire' = wire \o [i \in 1 .. dma.n |-> At(dma.from + i - 1)]
  /\ dma' = [from |-> 0, n |-> 0]
  /\ tx_done' = 1
  /\ UNCHANGED <<ringVars, counterVars, senderVars, tx, failures, histVars,
                 tx_ready, resets>>

\* The span goes back to the ring, tx_done taken and given again.
TxFinish ==
  /\ tx = "dma" /\ tx_done = 1 /\ TxMayRun
  /\ taken' = taken + claim
  /\ claim' = 0
  /\ tx' = "claim"
  /\ UNCHANGED <<mem, put, counterVars, senderVars, tx_done, dma, wire,
                 failures, histVars, tx_ready, resets>>
-----------------------------------------------------------------------------
Init ==
  /\ mem = [a \in 0 .. Size - 1 |-> NoByte]
  /\ put = 0 /\ taken = 0 /\ claim = 0
  /\ seq = 0
  /\ frames_sent = 0 /\ frames_dropped = 0 /\ queued_high_water = 0
  /\ encode_lock = "none"
  /\ pc = [t \in Threads |-> "idle"]
  /\ loaded = [t \in Threads |-> 0]
  /\ tx_ready = 0 /\ tx_done = 1
  /\ tx = "claim"
  /\ dma = [from |-> 0, n |-> 0]
  /\ wire = <<>> /\ accepted = <<>>
  /\ sentNow = 0 /\ droppedNow = 0 /\ crossed = FALSE
  /\ sends = 0 /\ failures = 0 /\ resets = 0

Kinds(t) == (IF t \in SendsControl THEN {TRUE} ELSE {})
              \cup (IF t \in SendsData THEN {FALSE} ELSE {})

Send(t) ==
  \/ Call(t)
  \/ \E n \in Lens :
       \/ EncodeRejects(t, n)
       \/ \E control \in Kinds(t) : Accept(t, control, n) \/ Refuse(t, control, n)
  \/ CountLoad(t) \/ CountStore(t) \/ Measure(t) \/ Give(t)

Transmit ==
  \/ TxClaim \/ TxWaitReady \/ TxWaitDone \/ TxStart \/ TxFails \/ TxWakes
  \/ TxFinish

Next ==
  \/ \E t \in Threads : Send(t)
  \/ Reset
  \/ Transmit
  \/ DmaDone

Spec == Init /\ [][Next]_vars

\* A call that has begun goes on; the tx thread runs when it can; a transfer
\* ends.  Nothing obliges a thread to call.
Fairness ==
  /\ \A t \in Threads : WF_vars(Send(t) /\ pc[t] # "idle")
  /\ WF_vars(Transmit)
  /\ WF_vars(DmaDone)

FairSpec == Spec /\ Fairness
-----------------------------------------------------------------------------
(* Properties *)

\* The link's variables have their types; the ring never holds more than its
\* memory nor claims more than it holds.
TypeOK ==
  /\ mem \in [0 .. Size - 1 -> Byte]
  /\ taken \in Nat /\ claim \in Nat /\ put \in Nat
  /\ taken + claim <= put /\ put - taken <= Size
  /\ seq \in Nat
  /\ frames_sent \in Nat /\ frames_dropped \in Nat
  /\ queued_high_water \in 0 .. Size
  /\ encode_lock \in Threads \cup {"none"}
  /\ pc \in [Threads -> {"idle", "lock", "sent", "dropped", "sent+1",
                         "dropped+1", "measure", "give"}]
  /\ loaded \in [Threads -> Nat]
  /\ tx_ready \in {0, 1} /\ tx_done \in {0, 1}
  /\ tx \in {"claim", "ready", "done", "start", "dma", "sleep"}
  /\ dma \in [from : Nat, n : Nat]

\* What the UART has sent, followed by what is still in the ring, is exactly
\* the frames sn_link_send accepted, whole and in order of their sequence
\* numbers: no frame is torn or interleaved with another, and no span is
\* overwritten while the peripheral reads it.  (A transfer that has ended and
\* whose span is not yet given back is on the wire and in the ring at once.)
StreamIntact ==
  LET done == tx = "dma" /\ dma.n = 0
      rest == IF done THEN SubSeq(Unread, claim + 1, Len(Unread)) ELSE Unread
  IN  wire \o rest = accepted

ControlBytes == Cardinality({i \in 1 .. put - taken : At(taken + i - 1).control})

\* Capture data and logs cannot cost the host a reply: a frame that carries
\* control is refused only when the control frames already waiting, with this
\* one, are more than the reserve was made for ("a reply refused for want of
\* space was simply lost").
ReserveServesControl ==
  [][\A t \in Threads, n \in Lens :
       Refuse(t, TRUE, n) => ControlBytes + n > Reserve]_vars

\* With no thread inside sn_link_send the counters say what happened since
\* the session opened: every frame accepted and every frame refused, once
\* (link.h: "Real loss, reported to the host rather than hidden"), unless the
\* session's reset came in the middle of counting one.
CountsExact ==
  ~crossed /\ (\A t \in Threads : ~Counting(t)) =>
    frames_sent = sentNow /\ frames_dropped = droppedNow

\* "The worst it reached this session" (main.c) is short of what the ring holds
\* by a DMA chunk at most, though it is sampled after the tx thread may have
\* claimed or drained a span of it (link.c: "because that is when the ring is
\* fullest"), and though a refused transfer gives its span back to the queue.
\* The queue a session inherits counts from its first frame on.
HighWaterHolds ==
  /\ sentNow > 0
  /\ \A t \in Threads : pc[t] \notin {"sent", "sent+1", "measure"}
  => put - taken <= queued_high_water + Chunk

\* Whatever is accepted is sent: no wakeup is lost between the ring and the
\* tx thread, and a transfer the UART refuses is tried again.
Drains == put # taken ~> put = taken
=============================================================================
