------------------------------- MODULE RxLink -------------------------------
(***************************************************************************)
(* The inbound half of the link, src/link.c: the UART's double-buffered    *)
(* receive, the interrupt that copies it into a ring, and the reader       *)
(* thread that finds frames in it and hands them to the frame handler.     *)
(*                                                                         *)
(* A byte is a token that names its frame and its place in it, the header  *)
(* first.  A header is recognised exactly when its bytes stand together    *)
(* untouched: no payload looks like one and no damaged one passes its CRC. *)
(* The UART driver is external: it fills the buffer it was given, asks for *)
(* the next one, reports what it has on a full buffer and on a pause, save *)
(* that it may miss the pause after a burst longer than a buffer, and      *)
(* disables itself after a line error.                                     *)
(***************************************************************************)
EXTENDS Integers, Sequences, FiniteSets

CONSTANTS
  Streams,       \* what a host may send: sequences of frames
  HeaderLen,     \* SN_HEADER_LEN, 10
  MaxPayload,    \* SN_MAX_PAYLOAD: the longest payload a header may announce
  DmaLen,        \* sizeof(rx_dma[0]), 512
  RingSize,      \* RX_RING_SIZE, 1024
  Chunk,         \* bytes the reader takes at once, 64
  BufSize,       \* sizeof(rx_buf), 512
  MaxLost,       \* bound of the model: bytes lost on the line
  MaxErrors      \* bound of the model: line errors that disable receive

\* A frame of a stream: the length its header announces, and the number of
\* payload bytes that follow it.
HostFrame == [len : Nat, sent : Nat]

ASSUME RxAssumption ==
  /\ \A s \in Streams : s \in Seq(HostFrame)
  /\ HeaderLen \in Nat \ {0} /\ MaxPayload \in Nat
  /\ DmaLen \in Nat \ {0} /\ RingSize \in Nat \ {0}
  /\ Chunk \in Nat \ {0} /\ BufSize \in Nat
  /\ HeaderLen < BufSize
  /\ MaxLost \in Nat /\ MaxErrors \in Nat

VARIABLES
  stream,        \* the frames of this behaviour
  tosend,        \* the byte the host sends next: its frame and its place in it
  lost,          \* bytes lost on the line
  errors,        \* line errors so far
  enabled,       \* whether the driver is receiving
  active,        \* which of rx_dma it is filling
  next,          \* which it was given to fill next, or NoBuffer
  rx_dma_next,
  filled,        \* bytes in the active buffer
  fresh,         \* bytes not yet reported
  burst,         \* bytes since the line was quiet, none counted past DmaLen + 1
  rx_ring,
  overflowed,    \* history: bytes a full ring has dropped
  rx_buf,
  at,            \* drain's place in rx_buf
  reader,        \* "get" between chunks, "drain" inside drain()
  refused,       \* history: bytes of a chunk rx_buf had no room for
  dispatched     \* history: what the frame handler was called with

dmaVars  == <<enabled, active, next, rx_dma_next, filled, fresh, burst>>
lineVars == <<stream, tosend, lost, errors>>
bufVars  == <<rx_buf, at, reader, refused, dispatched>>
vars     == <<lineVars, dmaVars, rx_ring, overflowed, bufVars>>

NoBuffer == 2

Token(f, i, len) == [frame |-> f, at |-> i, len |-> len]

FrameBytes(f, frame) ==
  [i \in 1 .. HeaderLen + frame.sent |-> Token(f, i, frame.len)]

\* The host's next byte, if it has one left to send, and its going on to the
\* one after it.
HostDone == tosend.frame > Len(stream)

NextByte == Token(tosend.frame, tosend.at, stream[tosend.frame].len)

SendOn ==
  tosend' = IF tosend.at < HeaderLen + stream[tosend.frame].sent
            THEN [tosend EXCEPT !.at = @ + 1]
            ELSE [frame |-> tosend.frame + 1, at |-> 1]
-----------------------------------------------------------------------------
(* The driver, and uart_cb_rx in its interrupt. *)

\* UART_RX_RDY: "A full ring drops the byte rather than blocking."
RingPut(bytes) ==
  LET room == RingSize - Len(rx_ring)
      kept == IF Len(bytes) <= room THEN Len(bytes) ELSE room
  IN  /\ rx_ring' = rx_ring \o SubSeq(bytes, 1, kept)
      /\ overflowed' = overflowed + Len(bytes) - kept

\* UART_RX_BUF_REQUEST
BufRequest == next' = rx_dma_next /\ rx_dma_next' = 1 - rx_dma_next

\* A byte reaches the board.
Arrive ==
  /\ ~HostDone /\ enabled /\ filled < DmaLen
  /\ SendOn
  /\ filled' = filled + 1
  /\ fresh' = Append(fresh, NextByte)
  /\ burst' = IF burst <= DmaLen THEN burst + 1 ELSE burst
  /\ UNCHANGED <<stream, lost, errors, enabled, active, next, rx_dma_next,
                 rx_ring, overflowed, bufVars>>

\* The line loses it, or nothing receives it.
Lose ==
  /\ ~HostDone /\ lost < MaxLost
  /\ SendOn
  /\ lost' = lost + 1
  /\ UNCHANGED <<stream, errors, dmaVars, rx_ring, overflowed, bufVars>>

\* The line is quiet for a millisecond: what is there is reported.
Pause ==
  /\ enabled /\ burst > 0
  /\ RingPut(fresh)
  /\ fresh' = <<>> /\ burst' = 0
  /\ UNCHANGED <<lineVars, enabled, active, next, rx_dma_next, filled, bufVars>>

\* "A burst longer than one buffer can leave its last bytes in the driver with
\* no frame timeout to hand them over": they stay until more bytes come.
PauseMissed ==
  /\ enabled /\ burst > DmaLen
  /\ burst' = 0
  /\ UNCHANGED <<lineVars, enabled, active, next, rx_dma_next, filled, fresh,
                 rx_ring, overflowed, bufVars>>

\* The active buffer is full: it is reported, and the driver moves to the
\* next one and asks for another.
BufferFull ==
  /\ enabled /\ filled = DmaLen
  /\ RingPut(fresh)
  /\ fresh' = <<>> /\ filled' = 0
  /\ active' = next
  /\ BufRequest
  /\ UNCHANGED <<lineVars, enabled, burst, bufVars>>

\* A framing error: the driver reports or loses what it had, and disables
\* receive.
LineError ==
  /\ enabled
  /\ errors < MaxErrors
  /\ errors' = errors + 1
  /\ enabled' = FALSE
  /\ \/ RingPut(fresh) /\ UNCHANGED lost
     \/ /\ lost + Len(fresh) <= MaxLost
        /\ lost' = lost + Len(fresh)
        /\ UNCHANGED <<rx_ring, overflowed>>
  /\ fresh' = <<>> /\ filled' = 0 /\ burst' = 0
  /\ next' = NoBuffer
  /\ UNCHANGED <<stream, tosend, active, rx_dma_next, bufVars>>

\* Receive left disabled.
Reenable_Not == UNCHANGED enabled

Reenable == enabled' = TRUE

\* The next buffer left where the last request put it.
FirstBuffers_KeepNext == active' = 0 /\ BufRequest

FirstBuffers == active' = 0 /\ next' = 1 /\ rx_dma_next' = 0

\* UART_RX_DISABLED: receive is enabled again on the first buffer, and the
\* driver asks at once for the second.
RxDisabled ==
  /\ ~enabled
  /\ Reenable
  /\ FirstBuffers
  /\ UNCHANGED <<lineVars, filled, fresh, burst, rx_ring, overflowed, bufVars>>
-----------------------------------------------------------------------------
(* The reader thread. *)

ReaderGet ==
  LET n    == IF Len(rx_ring) < Chunk THEN Len(rx_ring) ELSE Chunk
      room == BufSize - Len(rx_buf)
      take == IF n < room THEN n ELSE room
  IN
  /\ reader = "get"
  /\ n > 0
  /\ rx_buf' = rx_buf \o SubSeq(rx_ring, 1, take)
  /\ rx_ring' = SubSeq(rx_ring, n + 1, Len(rx_ring))
  /\ refused' = refused + n - take
  /\ reader' = "drain"
  /\ UNCHANGED <<lineVars, dmaVars, overflowed, at, dispatched>>

\* The bytes of rx_buf from drain's place on.
Ahead == SubSeq(rx_buf, at + 1, Len(rx_buf))

\* magic and header CRC
HeaderHere ==
  \A i \in 1 .. HeaderLen :
    Ahead[i].frame = Ahead[1].frame /\ Ahead[i].at = i

Oversize == Ahead[1].len > MaxPayload

FrameLen == HeaderLen + Ahead[1].len

\* A whole header's length skipped.
Advance_Header == at' = at + HeaderLen

Advance == at' = at + 1

\* No frame begins here: try one byte further.
DrainSkip ==
  /\ reader = "drain"
  /\ Len(Ahead) >= HeaderLen
  /\ ~HeaderHere \/ Oversize
  /\ Advance
  /\ UNCHANGED <<lineVars, dmaVars, rx_ring, overflowed, rx_buf, reader,
                 refused, dispatched>>

\* A whole frame: the handler is called with it.
DrainDispatch ==
  /\ reader = "drain"
  /\ Len(Ahead) >= HeaderLen
  /\ HeaderHere /\ ~Oversize
  /\ Len(Ahead) >= FrameLen
  /\ dispatched' = Append(dispatched, SubSeq(Ahead, 1, FrameLen))
  /\ at' = at + FrameLen
  /\ UNCHANGED <<lineVars, dmaVars, rx_ring, overflowed, rx_buf, reader, refused>>

\* A full buffer with no whole frame in it kept as it is.
Unwedge_Never(bytes) == bytes

\* A full buffer keeps its last bytes only, as many as a header has.
Unwedge(bytes) ==
  IF Len(bytes) = BufSize
  THEN SubSeq(bytes, BufSize - HeaderLen + 1, BufSize)
  ELSE bytes

Kept == Ahead

\* "the rest is still in flight", or too little is left to look at.
DrainStop ==
  /\ reader = "drain"
  /\ \/ Len(Ahead) < HeaderLen
     \/ /\ Len(Ahead) >= HeaderLen
        /\ HeaderHere /\ ~Oversize
        /\ Len(Ahead) < FrameLen
  /\ rx_buf' = Unwedge(Kept)
  /\ at' = 0
  /\ reader' = "get"
  /\ UNCHANGED <<lineVars, dmaVars, rx_ring, overflowed, refused, dispatched>>
-----------------------------------------------------------------------------
\* sn_link_init has enabled receive, and the driver has its second buffer.
Init ==
  /\ stream \in Streams
  /\ tosend = [frame |-> 1, at |-> 1]
  /\ lost = 0 /\ errors = 0
  /\ enabled = TRUE
  /\ active = 0 /\ next = 1 /\ rx_dma_next = 0
  /\ filled = 0 /\ fresh = <<>> /\ burst = 0
  /\ rx_ring = <<>> /\ overflowed = 0
  /\ rx_buf = <<>> /\ at = 0 /\ reader = "get"
  /\ refused = 0
  /\ dispatched = <<>>

Driver == Pause \/ PauseMissed \/ BufferFull \/ RxDisabled

ReaderStep == ReaderGet \/ DrainSkip \/ DrainDispatch \/ DrainStop

Next == Arrive \/ Lose \/ Driver \/ LineError \/ ReaderStep

Spec == Init /\ [][Next]_vars

\* The host sends what it has to send, the driver reports, the reader runs.
\* Nothing has to be lost.
FairSpec == Spec /\ WF_vars(Arrive) /\ WF_vars(Driver) /\ WF_vars(ReaderStep)
-----------------------------------------------------------------------------
(* Properties *)

\* The receive path's variables have their types and sizes, and the driver is
\* never given the buffer it is filling: the toggle of rx_dma_next keeps step
\* with the driver's requests, across errors too.
TypeOK ==
  /\ stream \in Streams
  /\ lost \in 0 .. MaxLost /\ errors \in 0 .. MaxErrors
  /\ enabled \in BOOLEAN
  /\ active \in {0, 1} /\ next \in {0, 1, NoBuffer} /\ rx_dma_next \in {0, 1}
  /\ enabled => next \in {0, 1} \ {active}
  /\ Len(fresh) <= filled /\ filled <= DmaLen /\ burst \in 0 .. DmaLen + 1
  /\ Len(rx_ring) <= RingSize /\ overflowed \in Nat
  /\ at \in 0 .. Len(rx_buf) /\ Len(rx_buf) <= BufSize
  /\ reader \in {"get", "drain"}
  /\ refused \in Nat

\* The reader can always take something: drain never leaves rx_buf full,
\* whatever length a header announces, so no frame wedges the link.  And while
\* none announces more than rx_buf can hold beside one chunk, every byte the
\* reader takes from the ring reaches rx_buf ("A burst that did not fit lost the
\* bytes past the end").
ReaderKeepsAll ==
  /\ reader = "get" => Len(rx_buf) < BufSize
  /\ (\A i \in 1 .. Len(stream) :
        HeaderLen + stream[i].len - 1 + Chunk <= BufSize)
     => refused = 0

Intact(i) == \E k \in 1 .. Len(dispatched) : dispatched[k] = FrameBytes(i, stream[i])

Damaged == {i \in 1 .. Len(stream) : ~Intact(i)}

AllRead ==
  /\ HostDone /\ fresh = <<>> /\ rx_ring = <<>>
  /\ reader = "get"

WellFormed == \A i \in 1 .. Len(stream) :
                /\ stream[i].len = stream[i].sent
                /\ stream[i].len <= MaxPayload
                /\ HeaderLen + stream[i].len <= BufSize

\* Frames are handled in the order they were sent, and none of them twice.
HandledInOrder ==
  \A i, j \in 1 .. Len(dispatched) :
    i < j => dispatched[i][1].frame < dispatched[j][1].frame

\* A loss does not spread.  Whatever the line, a full ring or a full rx_buf
\* lost, frames are handled in the order they were sent and none of them twice;
\* each byte lost costs at most two frames of the session, the one it belonged
\* to and the one after it; and a session without losses loses nothing.
LossIsContained ==
  /\ HandledInOrder
  /\ AllRead /\ WellFormed =>
       Cardinality(Damaged) <= 2 * (lost + overflowed + refused)

\* The bytes of frame i that the driver has and will not report before others
\* follow them.
Stalled(i) == burst = 0 /\ \E k \in 1 .. Len(fresh) : fresh[k].frame = i

\* With nothing lost every command the host sends is handled, whatever the
\* bursts and the receive errors between them; save, for as long as the host
\* stays silent, one whose last bytes the driver keeps after a burst longer than
\* a buffer ("larger than anything the host sends in one go").
EveryCommandHandled ==
  <>[](WellFormed /\ lost + overflowed + refused = 0 =>
         \A i \in 1 .. Len(stream) : Intact(i) \/ Stalled(i))
=============================================================================
