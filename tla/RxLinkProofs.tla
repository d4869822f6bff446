---------------------------- MODULE RxLinkProofs ----------------------------
(***************************************************************************)
(* Theorems about the inbound link, for any frames a host may send, any    *)
(* sizes that satisfy RxAssumption, and any number of lost bytes and of    *)
(* receive errors.                                                         *)
(*                                                                         *)
(* The invariant has five parts: Typed; DmaInv, the toggle between the two *)
(* buffers; RoomInv, what rx_buf has room for; OrderInv, bytes are held in *)
(* the order they were sent; and HandledInv, what was handled came before  *)
(* whatever is still held.  LossInv stands on them and counts: the bytes   *)
(* that are missing of frames the reader has not begun, with the frames it *)
(* has gone past and spoilt.                                               *)
(***************************************************************************)
EXTENDS RxLink, FiniteSetTheorems, TLAPS

\* A byte of this behaviour's stream.
StreamByte ==
  {b \in [frame : 1 .. Len(stream), at : Nat \ {0}, len : Nat] :
     b.len = stream[b.frame].len}

Bytes(s) == {s[i] : i \in 1 .. Len(s)}

\* The order of sending, on bytes and on tosend.
Before(b, c) == b.frame < c.frame \/ (b.frame = c.frame /\ b.at < c.at)

Follows(S, T) == \A b \in S, c \in T : Before(b, c)

Sorted(s) == \A i, j \in 1 .. Len(s) : i < j => Before(s[i], s[j])

Typed ==
  /\ TypeOK
  /\ stream \in Seq(HostFrame)
  /\ tosend \in [frame : 1 .. Len(stream) + 1, at : Nat \ {0}]
  /\ filled \in Nat
  /\ fresh \in Seq(StreamByte)
  /\ rx_ring \in Seq(StreamByte)
  /\ rx_buf \in Seq(StreamByte)

DmaInv == enabled => next = 1 - active /\ rx_dma_next = active

\* No header announces more than rx_buf can hold beside one chunk.
Narrow ==
  \A i \in 1 .. Len(stream) : HeaderLen + stream[i].len - 1 + Chunk <= BufSize

RoomInv ==
  /\ reader = "get" => at = 0 /\ Len(rx_buf) < BufSize
  /\ Narrow => refused = 0
  /\ Narrow /\ Len(stream) >= 1 /\ reader = "get" => Len(rx_buf) + Chunk <= BufSize

OrderInv ==
  /\ Sorted(rx_buf) /\ Sorted(rx_ring) /\ Sorted(fresh)
  /\ Follows(Bytes(rx_buf), Bytes(rx_ring))
  /\ Follows(Bytes(rx_buf), Bytes(fresh))
  /\ Follows(Bytes(rx_ring), Bytes(fresh))
  /\ Follows(Bytes(rx_buf) \cup Bytes(rx_ring) \cup Bytes(fresh), {tosend})

\* What the reader has not gone past.
Left == Bytes(Ahead) \cup Bytes(rx_ring) \cup Bytes(fresh)

HandledInv ==
  /\ dispatched \in Seq(Seq(StreamByte))
  /\ \A i \in 1 .. Len(dispatched) :
       /\ Len(dispatched[i]) >= 1
       /\ dispatched[i][1].at = 1
       /\ Follows({dispatched[i][1]}, Left \cup {tosend})
  /\ HandledInOrder

Inv == Typed /\ DmaInv /\ RoomInv /\ OrderInv /\ HandledInv

\* What a loss costs: the bytes of the stream, counted.
Size(f) == HeaderLen + stream[f].sent

ByteAt(f, i) == Token(f, i, stream[f].len)

FrameSet(f) == {ByteAt(f, i) : i \in 1 .. Size(f)}

\* The frames the reader has begun, or gone past.
Done ==
  {f \in 1 .. Len(stream) : Follows({ByteAt(f, 1)}, Left \cup {tosend})}

Sent == {b \in StreamByte : b.at <= Size(b.frame) /\ Before(b, tosend)}

\* What was sent of the other frames, and will not be found.
Missing == {b \in Sent : b.frame \notin Done} \ Left

\* What is left of a turn of drain: less than a header, or less than a frame.
Waits ==
  \/ Len(Ahead) < HeaderLen
  \/ /\ Len(Ahead) >= HeaderLen
     /\ HeaderHere /\ ~Oversize
     /\ Len(Ahead) < FrameLen

\* What is left behind the first e bytes that drain has before it.
Behind(e) ==
  {rx_buf[k] : k \in at + e + 1 .. Len(rx_buf)} \cup Bytes(rx_ring) \cup Bytes(fresh)

Losses == lost + overflowed + refused

\* Each byte lost pays for two frames: it is missing, or has spoilt them.
LossInv ==
  WellFormed =>
    /\ Cardinality(Damaged \cap Done) + 2 * Cardinality(Missing) <= 2 * Losses
    /\ reader = "get" => Waits
-----------------------------------------------------------------------------
(* Sequences of bytes. *)

(* One after another.                                                       *)
LEMMA Joined ==
  ASSUME NEW s \in Seq(StreamByte), NEW u \in Seq(StreamByte)
  PROVE  /\ s \o u \in Seq(StreamByte) /\ Len(s \o u) = Len(s) + Len(u)
         /\ \A i \in 1 .. Len(s) : (s \o u)[i] = s[i]
         /\ \A i \in 1 .. Len(u) : (s \o u)[Len(s) + i] = u[i]
  OBVIOUS

(* A part, from place a to place e.                                         *)
LEMMA Part ==
  ASSUME NEW s \in Seq(StreamByte), NEW a \in Nat \ {0}, NEW e \in Nat,
         e <= Len(s), a <= e + 1
  PROVE  /\ SubSeq(s, a, e) \in Seq(StreamByte)
         /\ Len(SubSeq(s, a, e)) = e - a + 1
         /\ \A i \in 1 .. e - a + 1 : SubSeq(s, a, e)[i] = s[a + i - 1]
  OBVIOUS

(* The bytes of one are bytes of the stream.                                *)
LEMMA BytesTyped ==
  ASSUME NEW s \in Seq(StreamByte)
  PROVE  Bytes(s) \subseteq StreamByte
  BY DEF Bytes

(* One after another has the bytes of both.                                 *)
LEMMA BytesJoined ==
  ASSUME NEW s \in Seq(StreamByte), NEW u \in Seq(StreamByte)
  PROVE  Bytes(s \o u) \subseteq Bytes(s) \cup Bytes(u)
  <1>1. ASSUME NEW i \in 1 .. Len(s \o u)
        PROVE  (s \o u)[i] \in Bytes(s) \cup Bytes(u)
    <2>0. Len(s) \in Nat /\ Len(u) \in Nat /\ Len(s \o u) = Len(s) + Len(u)
      BY Joined
    <2>1. CASE i \in 1 .. Len(s)
      BY <2>1, Joined DEF Bytes
    <2>2. CASE i > Len(s)
      <3>1. i - Len(s) \in 1 .. Len(u) /\ Len(s) + (i - Len(s)) = i
        BY <2>0, <2>2
      <3>2. (s \o u)[i] = u[i - Len(s)]
        BY <3>1, Joined
      <3> QED
        BY <3>1, <3>2 DEF Bytes
    <2>3. i \in 1 .. Len(s) \/ i > Len(s)
      BY <2>0
    <2> QED
      BY <2>1, <2>2, <2>3
  <1> QED
    BY <1>1 DEF Bytes

(* A part has no other bytes.                                               *)
LEMMA BytesPart ==
  ASSUME NEW s \in Seq(StreamByte), NEW a \in Nat \ {0}, NEW e \in Nat,
         e <= Len(s), a <= e + 1
  PROVE  Bytes(SubSeq(s, a, e)) \subseteq Bytes(s)
  <1>1. ASSUME NEW i \in 1 .. Len(SubSeq(s, a, e))
        PROVE  SubSeq(s, a, e)[i] \in Bytes(s)
    <2>1. i \in 1 .. e - a + 1 /\ a + i - 1 \in 1 .. Len(s)
      BY Part
    <2>2. SubSeq(s, a, e)[i] = s[a + i - 1]
      BY <2>1, Part
    <2> QED
      BY <2>1, <2>2 DEF Bytes
  <1> QED
    BY <1>1 DEF Bytes

(* Sorted bytes after sorted bytes that come before them are sorted.        *)
LEMMA SortedJoined ==
  ASSUME NEW s \in Seq(StreamByte), NEW u \in Seq(StreamByte),
         Sorted(s), Sorted(u), Follows(Bytes(s), Bytes(u))
  PROVE  Sorted(s \o u)
  <1>0. Len(s) \in Nat /\ Len(u) \in Nat /\ Len(s \o u) = Len(s) + Len(u)
    BY Joined
  <1> SUFFICES ASSUME NEW i \in 1 .. Len(s \o u), NEW j \in 1 .. Len(s \o u), i < j
               PROVE  Before((s \o u)[i], (s \o u)[j])
    BY DEF Sorted
  <1>1. ASSUME NEW k \in 1 .. Len(s \o u), k > Len(s)
        PROVE  k - Len(s) \in 1 .. Len(u) /\ (s \o u)[k] = u[k - Len(s)]
    <2>1. k - Len(s) \in 1 .. Len(u) /\ Len(s) + (k - Len(s)) = k
      BY <1>0, <1>1
    <2> QED
      BY <2>1, Joined
  <1>2. ASSUME NEW k \in 1 .. Len(s \o u), ~(k > Len(s))
        PROVE  k \in 1 .. Len(s) /\ (s \o u)[k] = s[k]
    <2>1. k \in 1 .. Len(s)
      BY <1>0, <1>2
    <2> QED
      BY <2>1, Joined
  <1>3. CASE i > Len(s)
    <2>1. j > Len(s) /\ i - Len(s) < j - Len(s)
      BY <1>0, <1>3
    <2>2. /\ i - Len(s) \in 1 .. Len(u) /\ (s \o u)[i] = u[i - Len(s)]
          /\ j - Len(s) \in 1 .. Len(u) /\ (s \o u)[j] = u[j - Len(s)]
      BY <1>1, <1>3, <2>1
    <2> QED
      BY <2>1, <2>2 DEF Sorted
  <1>4. CASE ~(i > Len(s)) /\ j > Len(s)
    <2>1. /\ i \in 1 .. Len(s) /\ (s \o u)[i] = s[i]
          /\ j - Len(s) \in 1 .. Len(u) /\ (s \o u)[j] = u[j - Len(s)]
      BY <1>1, <1>2, <1>4
    <2>2. s[i] \in Bytes(s) /\ u[j - Len(s)] \in Bytes(u)
      BY <2>1 DEF Bytes
    <2> QED
      BY <2>1, <2>2 DEF Follows
  <1>5. CASE ~(j > Len(s))
    <2>1. ~(i > Len(s))
      BY <1>0, <1>5
    <2>2. /\ i \in 1 .. Len(s) /\ (s \o u)[i] = s[i]
          /\ j \in 1 .. Len(s) /\ (s \o u)[j] = s[j]
      BY <1>2, <1>5, <2>1
    <2> QED
      BY <2>2 DEF Sorted
  <1> QED
    BY <1>3, <1>4, <1>5

(* A part of sorted bytes is sorted, and what is left behind it follows.    *)
LEMMA SortedPart ==
  ASSUME NEW s \in Seq(StreamByte), NEW a \in Nat \ {0}, NEW e \in Nat,
         e <= Len(s), a <= e + 1, Sorted(s)
  PROVE  Sorted(SubSeq(s, a, e))
  <1> SUFFICES ASSUME NEW i \in 1 .. e - a + 1, NEW j \in 1 .. e - a + 1, i < j
               PROVE  Before(SubSeq(s, a, e)[i], SubSeq(s, a, e)[j])
    BY Part DEF Sorted
  <1>1. /\ a + i - 1 \in 1 .. Len(s) /\ a + j - 1 \in 1 .. Len(s)
        /\ a + i - 1 < a + j - 1
    OBVIOUS
  <1>2. SubSeq(s, a, e)[i] = s[a + i - 1] /\ SubSeq(s, a, e)[j] = s[a + j - 1]
    BY Part
  <1> QED
    BY <1>1, <1>2 DEF Sorted

(* What is left without the first f.                                        *)
LEMMA Rest ==
  ASSUME NEW s \in Seq(StreamByte), NEW f \in Nat, f <= Len(s)
  PROVE  /\ SubSeq(s, f + 1, Len(s)) \in Seq(StreamByte)
         /\ Len(SubSeq(s, f + 1, Len(s))) = Len(s) - f
         /\ \A i \in 1 .. Len(s) - f : SubSeq(s, f + 1, Len(s))[i] = s[f + i]
  OBVIOUS

(* It has no other bytes, and is sorted if all are.                         *)
LEMMA RestOrdered ==
  ASSUME NEW s \in Seq(StreamByte), NEW f \in Nat, f <= Len(s)
  PROVE  /\ Bytes(SubSeq(s, f + 1, Len(s))) \subseteq Bytes(s)
         /\ Sorted(s) => Sorted(SubSeq(s, f + 1, Len(s)))
  <1>1. /\ f + 1 \in Nat \ {0} /\ Len(s) \in Nat
        /\ Len(s) <= Len(s) /\ f + 1 <= Len(s) + 1
    OBVIOUS
  <1> DEFINE a == f + 1
             e == Len(s)
  <1>2. a \in Nat \ {0} /\ e \in Nat /\ e <= Len(s) /\ a <= e + 1
    BY <1>1
  <1> HIDE DEF a, e
  <1>3. /\ Bytes(SubSeq(s, a, e)) \subseteq Bytes(s)
        /\ Sorted(s) => Sorted(SubSeq(s, a, e))
    BY <1>2, BytesPart, SortedPart
  <1> QED
    BY <1>3 DEF a, e

(* What is after place e comes after what is before it.                     *)
LEMMA PartsFollow ==
  ASSUME NEW s \in Seq(StreamByte), NEW e \in Nat, NEW f \in Nat,
         e <= f, f <= Len(s), Sorted(s)
  PROVE  Follows(Bytes(SubSeq(s, 1, e)), Bytes(SubSeq(s, f + 1, Len(s))))
  <1>0. /\ Len(SubSeq(s, 1, e)) = e /\ Len(s) \in Nat
        /\ \A i \in 1 .. e : SubSeq(s, 1, e)[i] = s[i]
    BY Part
  <1>1. /\ Len(SubSeq(s, f + 1, Len(s))) = Len(s) - f
        /\ \A i \in 1 .. Len(s) - f : SubSeq(s, f + 1, Len(s))[i] = s[f + i]
    BY Rest
  <1>2. ASSUME NEW i \in 1 .. e, NEW j \in 1 .. Len(s) - f
        PROVE  Before(s[i], s[f + j])
    <2>1. i \in 1 .. Len(s) /\ f + j \in 1 .. Len(s) /\ i < f + j
      BY <1>0
    <2> QED
      BY <2>1 DEF Sorted
  <1> QED
    BY <1>0, <1>1, <1>2 DEF Follows, Bytes
-----------------------------------------------------------------------------
(* The invariant *)

(* The invariant holds at first.                                            *)
LEMMA InvInit == Init => Inv
  <1> SUFFICES ASSUME Init PROVE Inv
    OBVIOUS
  <1>0. stream \in Seq(HostFrame) /\ Len(stream) \in Nat
    BY RxAssumption DEF Init
  <1>1. Typed
    <2>1. TypeOK
      BY RxAssumption DEF Init, TypeOK, NoBuffer
    <2>2. /\ tosend \in [frame : 1 .. Len(stream) + 1, at : Nat \ {0}]
          /\ filled \in Nat
      BY <1>0 DEF Init
    <2>3. fresh \in Seq(StreamByte) /\ rx_ring \in Seq(StreamByte)
          /\ rx_buf \in Seq(StreamByte)
      BY DEF Init
    <2> QED
      BY <1>0, <2>1, <2>2, <2>3 DEF Typed
  <1>2. DmaInv
    BY DEF Init, DmaInv
  <1>3. RoomInv
    <2>1. at = 0 /\ Len(rx_buf) = 0 /\ refused = 0 /\ 0 < BufSize
      BY RxAssumption DEF Init
    <2>2. ASSUME Narrow, Len(stream) >= 1 PROVE Chunk <= BufSize
      <3>0. 1 \in 1 .. Len(stream) /\ stream[1] \in HostFrame
        BY <1>0, <2>2
      <3>1. 1 \in 1 .. Len(stream) /\ stream[1].len \in Nat
        BY <3>0 DEF HostFrame
      <3>2. HeaderLen + stream[1].len - 1 + Chunk <= BufSize
        BY <2>2, <3>1 DEF Narrow
      <3> QED
        BY <3>1, <3>2, RxAssumption
    <2> QED
      BY <2>1, <2>2, RxAssumption DEF RoomInv
  <1>4. Bytes(rx_buf) = {} /\ Bytes(rx_ring) = {} /\ Bytes(fresh) = {}
    BY DEF Init, Bytes
  <1>5. OrderInv
    BY <1>4 DEF Init, OrderInv, Sorted, Follows
  <1>6. HandledInv
    BY DEF Init, HandledInv, HandledInOrder
  <1> QED
    BY <1>1, <1>2, <1>3, <1>5, <1>6 DEF Inv

(* The host's next byte is one of the stream, in the place tosend names;    *)
(* what is sent after it comes after it.                                    *)
LEMMA NextByteSent ==
  Typed /\ ~HostDone /\ SendOn
  => /\ NextByte \in StreamByte
     /\ NextByte.frame = tosend.frame /\ NextByte.at = tosend.at
     /\ tosend' \in [frame : 1 .. Len(stream) + 1, at : Nat \ {0}]
     /\ Before(tosend, tosend')
  <1> SUFFICES ASSUME Typed, ~HostDone, SendOn
               PROVE  /\ NextByte \in StreamByte
                      /\ NextByte.frame = tosend.frame /\ NextByte.at = tosend.at
                      /\ tosend' \in [frame : 1 .. Len(stream) + 1, at : Nat \ {0}]
                      /\ Before(tosend, tosend')
    OBVIOUS
  <1>0. /\ stream \in Seq(HostFrame) /\ Len(stream) \in Nat
        /\ tosend \in [frame : 1 .. Len(stream) + 1, at : Nat \ {0}]
    BY DEF Typed
  <1>1. tosend.frame \in 1 .. Len(stream) /\ tosend.at \in Nat \ {0}
    BY <1>0 DEF HostDone
  <1>2. stream[tosend.frame].len \in Nat
    <2>1. stream[tosend.frame] \in HostFrame
      BY <1>0, <1>1
    <2> QED
      BY <2>1 DEF HostFrame
  <1>3. /\ NextByte \in StreamByte
        /\ NextByte.frame = tosend.frame /\ NextByte.at = tosend.at
    BY <1>1, <1>2 DEF NextByte, Token, StreamByte
  <1>4. \/ tosend' = [frame |-> tosend.frame, at |-> tosend.at + 1]
        \/ tosend' = [frame |-> tosend.frame + 1, at |-> 1]
    BY <1>0 DEF SendOn
  <1>5. /\ tosend' \in [frame : 1 .. Len(stream) + 1, at : Nat \ {0}]
        /\ Before(tosend, tosend')
    BY <1>0, <1>1, <1>4 DEF Before
  <1> QED
    BY <1>3, <1>5

(* What the interrupt puts in the ring, and what the ring drops.            *)
LEMMA RingPutKeeps ==
  Typed /\ OrderInv /\ RingPut(fresh)
  => /\ rx_ring' \in Seq(StreamByte) /\ Len(rx_ring') <= RingSize
     /\ overflowed' \in Nat
     /\ Sorted(rx_ring') /\ Bytes(rx_ring') \subseteq Bytes(rx_ring) \cup Bytes(fresh)
  <1> SUFFICES ASSUME Typed, OrderInv, RingPut(fresh)
               PROVE  /\ rx_ring' \in Seq(StreamByte) /\ Len(rx_ring') <= RingSize
                      /\ overflowed' \in Nat
                      /\ Sorted(rx_ring')
                      /\ Bytes(rx_ring') \subseteq Bytes(rx_ring) \cup Bytes(fresh)
    OBVIOUS
  <1> DEFINE room == RingSize - Len(rx_ring)
             kept == IF Len(fresh) <= room THEN Len(fresh) ELSE room
             part == SubSeq(fresh, 1, kept)
  <1>0. /\ fresh \in Seq(StreamByte) /\ rx_ring \in Seq(StreamByte)
        /\ Len(fresh) \in Nat /\ Len(rx_ring) \in Nat /\ RingSize \in Nat
        /\ Len(rx_ring) <= RingSize /\ overflowed \in Nat
    BY RxAssumption DEF Typed, TypeOK
  <1>1. /\ kept \in Nat /\ kept <= Len(fresh) /\ Len(rx_ring) + kept <= RingSize
        /\ kept - 1 + 1 = kept /\ 1 <= kept + 1
    BY <1>0
  <1>2. rx_ring' = rx_ring \o part /\ overflowed' = overflowed + Len(fresh) - kept
    BY DEF RingPut
  <1> HIDE DEF kept
  <1>3. /\ part \in Seq(StreamByte) /\ Len(part) = kept
        /\ Bytes(part) \subseteq Bytes(fresh) /\ Sorted(part)
    BY <1>0, <1>1, Part, BytesPart, SortedPart DEF OrderInv
  <1> HIDE DEF part
  <1>4. Follows(Bytes(rx_ring), Bytes(part)) /\ Sorted(rx_ring)
    BY <1>3 DEF OrderInv, Follows
  <1>5. /\ rx_ring \o part \in Seq(StreamByte)
        /\ Len(rx_ring \o part) = Len(rx_ring) + kept
        /\ Bytes(rx_ring \o part) \subseteq Bytes(rx_ring) \cup Bytes(part)
        /\ Sorted(rx_ring \o part)
    BY <1>0, <1>3, <1>4, Joined, BytesJoined, SortedJoined
  <1> QED
    BY <1>0, <1>1, <1>2, <1>3, <1>5

(* What the reader takes goes behind what it has.                           *)
LEMMA ReaderGetKeeps ==
  Typed /\ OrderInv /\ ReaderGet
  => \E n, take \in Nat :
       /\ 0 < n /\ n <= Chunk /\ n <= Len(rx_ring)
       /\ take <= n /\ Len(rx_buf) + take <= BufSize
       /\ take = n \/ Len(rx_buf) + take = BufSize
       /\ refused' = refused + (n - take)
       /\ rx_buf' \in Seq(StreamByte) /\ Len(rx_buf') = Len(rx_buf) + take
       /\ rx_ring' \in Seq(StreamByte) /\ Len(rx_ring') <= Len(rx_ring)
       /\ Sorted(rx_buf') /\ Sorted(rx_ring')
       /\ Bytes(rx_ring') \subseteq Bytes(rx_ring)
       /\ Bytes(rx_buf') \subseteq Bytes(rx_buf) \cup Bytes(rx_ring)
       /\ Follows(Bytes(rx_buf'), Bytes(rx_ring'))
  <1> SUFFICES ASSUME Typed, OrderInv, ReaderGet
               PROVE  \E n, take \in Nat :
                        /\ 0 < n /\ n <= Chunk /\ n <= Len(rx_ring)
                        /\ take <= n /\ Len(rx_buf) + take <= BufSize
                        /\ take = n \/ Len(rx_buf) + take = BufSize
                        /\ refused' = refused + (n - take)
                        /\ rx_buf' \in Seq(StreamByte)
                        /\ Len(rx_buf') = Len(rx_buf) + take
                        /\ rx_ring' \in Seq(StreamByte)
                        /\ Len(rx_ring') <= Len(rx_ring)
                        /\ Sorted(rx_buf') /\ Sorted(rx_ring')
                        /\ Bytes(rx_ring') \subseteq Bytes(rx_ring)
                        /\ Bytes(rx_buf') \subseteq Bytes(rx_buf) \cup Bytes(rx_ring)
                        /\ Follows(Bytes(rx_buf'), Bytes(rx_ring'))
    OBVIOUS
  <1> DEFINE n    == IF Len(rx_ring) < Chunk THEN Len(rx_ring) ELSE Chunk
             room == BufSize - Len(rx_buf)
             take == IF n < room THEN n ELSE room
             got  == SubSeq(rx_ring, 1, take)
             rest == SubSeq(rx_ring, n + 1, Len(rx_ring))
  <1>0. /\ rx_buf \in Seq(StreamByte) /\ rx_ring \in Seq(StreamByte)
        /\ Len(rx_buf) \in Nat /\ Len(rx_ring) \in Nat /\ BufSize \in Nat
        /\ Chunk \in Nat /\ refused \in Nat /\ Len(rx_buf) <= BufSize
    BY RxAssumption DEF Typed, TypeOK
  <1>1. /\ n > 0 /\ rx_buf' = rx_buf \o got /\ rx_ring' = rest
        /\ refused' = refused + n - take
    BY DEF ReaderGet
  <1>2. /\ n \in Nat /\ n <= Chunk /\ n <= Len(rx_ring)
        /\ take \in Nat /\ take <= n /\ Len(rx_buf) + take <= BufSize
        /\ take = n \/ Len(rx_buf) + take = BufSize
    BY <1>0
  <1> HIDE DEF n, take
  <1>3. /\ take <= Len(rx_ring) /\ 1 <= take + 1 /\ take - 1 + 1 = take
        /\ refused + n - take = refused + (n - take)
    BY <1>0, <1>2
  <1>4. Sorted(rx_buf) /\ Sorted(rx_ring) /\ Follows(Bytes(rx_buf), Bytes(rx_ring))
    BY DEF OrderInv
  <1>5. /\ got \in Seq(StreamByte) /\ Len(got) = take
        /\ Bytes(got) \subseteq Bytes(rx_ring) /\ Sorted(got)
    BY <1>0, <1>2, <1>3, <1>4, Part, BytesPart, SortedPart
  <1>6. /\ rest \in Seq(StreamByte) /\ Len(rest) = Len(rx_ring) - n
        /\ Bytes(rest) \subseteq Bytes(rx_ring) /\ Sorted(rest)
    BY <1>0, <1>2, <1>4, Rest, RestOrdered
  <1>7. Follows(Bytes(got), Bytes(rest))
    BY <1>0, <1>2, <1>4, PartsFollow
  <1> HIDE DEF got, rest
  <1>8. Follows(Bytes(rx_buf), Bytes(got)) /\ Follows(Bytes(rx_buf), Bytes(rest))
    BY <1>4, <1>5, <1>6 DEF Follows
  <1>9. /\ rx_buf \o got \in Seq(StreamByte)
        /\ Len(rx_buf \o got) = Len(rx_buf) + take
        /\ Bytes(rx_buf \o got) \subseteq Bytes(rx_buf) \cup Bytes(got)
        /\ Sorted(rx_buf \o got)
    BY <1>0, <1>4, <1>5, <1>8, Joined, BytesJoined, SortedJoined
  <1>10. Follows(Bytes(rx_buf \o got), Bytes(rest))
    BY <1>7, <1>8, <1>9 DEF Follows
  <1>11. Len(rest) <= Len(rx_ring)
    BY <1>0, <1>2, <1>6
  <1> QED
    BY <1>1, <1>2, <1>3, <1>5, <1>6, <1>9, <1>10, <1>11

(* The bytes without the first f, by their places.                          *)
LEMMA RestBytes ==
  ASSUME NEW s \in Seq(StreamByte), NEW f \in Nat, f <= Len(s)
  PROVE  Bytes(SubSeq(s, f + 1, Len(s))) = {s[k] : k \in f + 1 .. Len(s)}
  <1>0. /\ Len(SubSeq(s, f + 1, Len(s))) = Len(s) - f /\ Len(s) \in Nat
        /\ \A i \in 1 .. Len(s) - f : SubSeq(s, f + 1, Len(s))[i] = s[f + i]
    BY Rest
  <1>1. \A i \in 1 .. Len(s) - f : f + i \in f + 1 .. Len(s)
    BY <1>0
  <1>2. \A k \in f + 1 .. Len(s) : k - f \in 1 .. Len(s) - f /\ f + (k - f) = k
    BY <1>0
  <1>3. ASSUME NEW k \in f + 1 .. Len(s)
        PROVE  s[k] \in Bytes(SubSeq(s, f + 1, Len(s)))
    <2>1. SubSeq(s, f + 1, Len(s))[k - f] = s[k]
      BY <1>0, <1>2
    <2> QED
      BY <1>0, <1>2, <2>1 DEF Bytes
  <1>4. ASSUME NEW i \in 1 .. Len(s) - f
        PROVE  SubSeq(s, f + 1, Len(s))[i] \in {s[k] : k \in f + 1 .. Len(s)}
    BY <1>0, <1>1
  <1> QED
    BY <1>0, <1>3, <1>4 DEF Bytes

(* What drain has before it.                                                *)
LEMMA AheadIs ==
  Typed /\ OrderInv
  => /\ Ahead \in Seq(StreamByte) /\ Len(Ahead) = Len(rx_buf) - at
     /\ Bytes(Ahead) \subseteq Bytes(rx_buf) /\ Sorted(Ahead)
     /\ Bytes(Ahead) = {rx_buf[k] : k \in at + 1 .. Len(rx_buf)}
     /\ \A i \in 1 .. Len(rx_buf) - at : Ahead[i] = rx_buf[at + i]
  <1> SUFFICES ASSUME Typed, OrderInv
               PROVE  /\ Ahead \in Seq(StreamByte) /\ Len(Ahead) = Len(rx_buf) - at
                      /\ Bytes(Ahead) \subseteq Bytes(rx_buf) /\ Sorted(Ahead)
                      /\ Bytes(Ahead) = {rx_buf[k] : k \in at + 1 .. Len(rx_buf)}
                      /\ \A i \in 1 .. Len(rx_buf) - at : Ahead[i] = rx_buf[at + i]
    OBVIOUS
  <1>0. /\ rx_buf \in Seq(StreamByte) /\ at \in Nat /\ at <= Len(rx_buf)
        /\ Sorted(rx_buf)
    BY DEF Typed, TypeOK, OrderInv
  <1> QED
    BY <1>0, Rest, RestOrdered, RestBytes DEF Ahead

(* A frame with its header here has a length.                               *)
LEMMA FrameLenIs ==
  Typed /\ OrderInv /\ Len(Ahead) >= HeaderLen
  => /\ Ahead[1] \in StreamByte /\ 1 \in 1 .. Len(Ahead)
     /\ FrameLen \in Nat /\ FrameLen >= HeaderLen
     /\ Narrow => FrameLen - 1 + Chunk <= BufSize
  <1> SUFFICES ASSUME Typed, OrderInv, Len(Ahead) >= HeaderLen
               PROVE  /\ Ahead[1] \in StreamByte /\ 1 \in 1 .. Len(Ahead)
                      /\ FrameLen \in Nat /\ FrameLen >= HeaderLen
                      /\ Narrow => FrameLen - 1 + Chunk <= BufSize
    OBVIOUS
  <1>1. Ahead \in Seq(StreamByte) /\ Len(Ahead) \in Nat
    BY AheadIs
  <1>2. HeaderLen \in Nat \ {0}
    BY RxAssumption
  <1>3. 1 \in 1 .. Len(Ahead)
    BY <1>1, <1>2
  <1>4. Ahead[1] \in StreamByte
    BY <1>1, <1>3
  <1>5. /\ Ahead[1].len \in Nat /\ Ahead[1].frame \in 1 .. Len(stream)
        /\ Ahead[1].len = stream[Ahead[1].frame].len
    BY <1>4 DEF StreamByte
  <1>6. ASSUME Narrow PROVE FrameLen - 1 + Chunk <= BufSize
    <2>1. HeaderLen + stream[Ahead[1].frame].len - 1 + Chunk <= BufSize
      BY <1>5, <1>6 DEF Narrow
    <2>2. FrameLen = HeaderLen + stream[Ahead[1].frame].len
      BY <1>5 DEF FrameLen
    <2> QED
      BY <1>2, <1>5, <2>1, <2>2, RxAssumption
  <1> QED
    BY <1>2, <1>3, <1>4, <1>5, <1>6 DEF FrameLen

(* What drain keeps for the bytes to come.                                  *)
LEMMA DrainStopKeeps ==
  Typed /\ OrderInv /\ DrainStop
  => /\ rx_buf' \in Seq(StreamByte) /\ Sorted(rx_buf')
     /\ Bytes(rx_buf') \subseteq Bytes(Ahead)
     /\ Len(rx_buf') < BufSize
     /\ \/ Len(rx_buf') = Len(Ahead)
        \/ Len(Ahead) = BufSize
  <1> SUFFICES ASSUME Typed, OrderInv, DrainStop
               PROVE  /\ rx_buf' \in Seq(StreamByte) /\ Sorted(rx_buf')
                      /\ Bytes(rx_buf') \subseteq Bytes(Ahead)
                      /\ Len(rx_buf') < BufSize
                      /\ Len(rx_buf') = Len(Ahead) \/ Len(Ahead) = BufSize
    OBVIOUS
  <1>0. /\ HeaderLen \in Nat \ {0} /\ BufSize \in Nat /\ HeaderLen < BufSize
        /\ Len(rx_buf) \in Nat /\ Len(rx_buf) <= BufSize
        /\ at \in Nat /\ at <= Len(rx_buf)
    BY RxAssumption DEF Typed, TypeOK
  <1>1. Ahead \in Seq(StreamByte) /\ Len(Ahead) = Len(rx_buf) - at /\ Sorted(Ahead)
    BY AheadIs
  <1>2. Len(Ahead) \in Nat /\ Len(Ahead) <= BufSize
    BY <1>0, <1>1
  <1>3. rx_buf' = Unwedge(Ahead)
    BY DEF DrainStop, Kept
  <1>4. CASE Len(Ahead) = BufSize
    <2> DEFINE f == BufSize - HeaderLen
    <2>1. f \in Nat /\ f <= Len(Ahead) /\ Len(Ahead) - f = HeaderLen
      BY <1>0, <1>4
    <2>2. rx_buf' = SubSeq(Ahead, f + 1, Len(Ahead))
      BY <1>3, <1>4 DEF Unwedge
    <2> HIDE DEF f
    <2> QED
      BY <1>0, <1>1, <1>4, <2>1, <2>2, Rest, RestOrdered
  <1>5. CASE Len(Ahead) # BufSize
    BY <1>0, <1>1, <1>2, <1>3, <1>5 DEF Unwedge
  <1> QED
    BY <1>4, <1>5

(* The stream is the behaviour's from its first state on.                   *)
LEMMA SameStream ==
  [Next]_vars => stream' = stream /\ StreamByte' = StreamByte /\ Narrow' = Narrow
  <1>1. [Next]_vars => stream' = stream
    BY DEF Next, vars, lineVars, Arrive, Lose, Driver, Pause, PauseMissed, BufferFull,
       RxDisabled, LineError, ReaderStep, ReaderGet, DrainSkip, DrainDispatch,
       DrainStop
  <1> QED
    BY <1>1 DEF StreamByte, Narrow

(* Types are kept.                                                          *)
LEMMA TypedNext ==
  Typed /\ DmaInv /\ RoomInv /\ OrderInv /\ [Next]_vars => Typed'
  <1> SUFFICES ASSUME Typed, DmaInv, RoomInv, OrderInv, [Next]_vars
               PROVE  Typed'
    OBVIOUS
  <1> USE DEF dmaVars, lineVars, bufVars
  <1>s. stream' = stream /\ StreamByte' = StreamByte
    BY SameStream
  <1>c. /\ DmaLen \in Nat \ {0} /\ RingSize \in Nat \ {0} /\ Chunk \in Nat \ {0}
        /\ BufSize \in Nat /\ MaxLost \in Nat /\ MaxErrors \in Nat
        /\ HeaderLen \in Nat \ {0}
    BY RxAssumption
  <1>t. /\ stream \in Streams /\ stream \in Seq(HostFrame)
        /\ tosend \in [frame : 1 .. Len(stream) + 1, at : Nat \ {0}]
        /\ lost \in 0 .. MaxLost /\ errors \in 0 .. MaxErrors
    BY DEF Typed, TypeOK
  <1>d. /\ enabled \in BOOLEAN
        /\ active \in {0, 1} /\ next \in {0, 1, NoBuffer} /\ rx_dma_next \in {0, 1}
        /\ enabled => next \in {0, 1} \ {active}
        /\ filled \in Nat /\ filled <= DmaLen /\ Len(fresh) <= filled
        /\ fresh \in Seq(StreamByte) /\ burst \in 0 .. DmaLen + 1
    BY DEF Typed, TypeOK
  <1>r. /\ rx_ring \in Seq(StreamByte) /\ Len(rx_ring) <= RingSize
        /\ overflowed \in Nat
    BY DEF Typed, TypeOK
  <1>b. /\ rx_buf \in Seq(StreamByte) /\ Len(rx_buf) <= BufSize /\ Len(rx_buf) \in Nat
        /\ at \in 0 .. Len(rx_buf) /\ reader \in {"get", "drain"} /\ refused \in Nat
    BY DEF Typed, TypeOK
  \* The line, the driver, the ring and rx_buf, each by itself.
  <1> DEFINE Line   == /\ tosend' \in [frame : 1 .. Len(stream) + 1, at : Nat \ {0}]
                       /\ lost' \in 0 .. MaxLost /\ errors' \in 0 .. MaxErrors
             Driven == /\ enabled' \in BOOLEAN /\ active' \in {0, 1}
                       /\ next' \in {0, 1, NoBuffer} /\ rx_dma_next' \in {0, 1}
                       /\ enabled' => next' \in {0, 1} \ {active'}
                       /\ filled' \in Nat /\ filled' <= DmaLen
                       /\ fresh' \in Seq(StreamByte) /\ Len(fresh') <= filled'
                       /\ burst' \in 0 .. DmaLen + 1
             Ring   == /\ rx_ring' \in Seq(StreamByte) /\ Len(rx_ring') <= RingSize
                       /\ overflowed' \in Nat
             Buffer == /\ rx_buf' \in Seq(StreamByte) /\ Len(rx_buf') <= BufSize
                       /\ at' \in 0 .. Len(rx_buf') /\ reader' \in {"get", "drain"}
                       /\ refused' \in Nat
  <1>1. ASSUME Line, Driven, Ring, Buffer PROVE Typed'
    BY <1>s, <1>t, <1>1 DEF Typed, TypeOK
  <1>2. UNCHANGED lineVars => Line
    BY <1>s, <1>t
  <1>3. UNCHANGED dmaVars => Driven
    BY <1>d
  <1>4. UNCHANGED <<rx_ring, overflowed>> => Ring
    BY <1>r
  <1>5. UNCHANGED bufVars => Buffer
    BY <1>b
  <1>6. RingPut(fresh) => Ring
    BY RingPutKeeps
  <1> HIDE DEF Line, Driven, Ring, Buffer
  <1>7. CASE Arrive
    <2>1. NextByte \in StreamByte /\ tosend' \in [frame : 1 .. Len(stream) + 1, at : Nat \ {0}]
      BY <1>7, NextByteSent DEF Arrive
    <2>2. Line
      BY <1>7, <1>t, <2>1 DEF Arrive, Line
    <2>3. /\ fresh' \in Seq(StreamByte) /\ Len(fresh') <= filled'
          /\ filled' \in Nat /\ filled' <= DmaLen
      <3>1. fresh' = Append(fresh, NextByte) /\ filled' = filled + 1 /\ filled < DmaLen
        BY <1>7 DEF Arrive
      <3>2. fresh' \in Seq(StreamByte) /\ Len(fresh') = Len(fresh) + 1
        BY <1>d, <2>1, <3>1
      <3>3. Len(fresh) \in Nat
        BY <1>d
      <3> QED
        BY <1>c, <1>d, <3>1, <3>2, <3>3
    <2>b. burst' \in 0 .. DmaLen + 1
      BY <1>7, <1>c, <1>d DEF Arrive
    <2>4. Driven
      BY <1>7, <1>d, <2>3, <2>b DEF Arrive, Driven
    <2> QED
      BY <1>1, <1>4, <1>5, <1>7, <2>2, <2>4 DEF Arrive
  <1>8. CASE Lose
    <2>1. Line
      BY <1>8, <1>c, <1>t, NextByteSent DEF Lose, Line
    <2> QED
      BY <1>1, <1>3, <1>4, <1>5, <1>8, <2>1 DEF Lose
  <1>9. CASE Pause
    <2>1. Driven
      BY <1>9, <1>c, <1>d DEF Pause, Driven
    <2> QED
      BY <1>1, <1>2, <1>5, <1>6, <1>9, <2>1 DEF Pause
  <1>m. CASE PauseMissed
    <2>1. burst' = 0 /\ 0 \in 0 .. DmaLen + 1
      BY <1>m, <1>c DEF PauseMissed
    <2>2. Driven
      BY <1>m, <1>d, <2>1 DEF PauseMissed, Driven
    <2> QED
      BY <1>1, <1>2, <1>4, <1>5, <1>m, <2>2 DEF PauseMissed
  <1>10. CASE BufferFull
    <2>1. /\ active' = next /\ next' = rx_dma_next /\ rx_dma_next' = 1 - rx_dma_next
          /\ enabled /\ enabled' = enabled
          /\ fresh' = <<>> /\ filled' = 0 /\ burst' = burst
      BY <1>10 DEF BufferFull, BufRequest
    <2>2. active' = 1 - active /\ next' = active
      BY <2>1 DEF DmaInv
    <2>3. Driven
      BY <1>c, <1>d, <2>1, <2>2 DEF Driven
    <2> QED
      BY <1>1, <1>2, <1>5, <1>6, <1>10, <2>3 DEF BufferFull
  <1>11. CASE RxDisabled
    <2>1. Driven
      BY <1>11, <1>d DEF RxDisabled, Reenable, FirstBuffers, Driven, NoBuffer
    <2> QED
      BY <1>1, <1>2, <1>4, <1>5, <1>11, <2>1 DEF RxDisabled
  <1>12. CASE LineError
    <2>0. /\ enabled' = FALSE /\ active' = active /\ next' = NoBuffer
          /\ rx_dma_next' = rx_dma_next /\ filled' = 0 /\ fresh' = <<>>
          /\ burst' = 0
      BY <1>12 DEF LineError
    <2>a. fresh' \in Seq(StreamByte) /\ Len(fresh') = 0
      BY <2>0
    <2>b. filled' \in Nat /\ filled' <= DmaLen /\ Len(fresh') <= filled'
      BY <1>c, <2>0, <2>a
    <2>c. burst' \in 0 .. DmaLen + 1
      BY <1>c, <2>0
    <2>1. Driven
      BY <1>d, <2>0, <2>a, <2>b, <2>c DEF Driven
    <2>2. Len(fresh) \in Nat
      BY <1>d
    <2>3. Line
      BY <1>12, <1>c, <1>t, <2>2 DEF LineError, Line
    <2>4. Ring
      BY <1>4, <1>6, <1>12 DEF LineError
    <2> QED
      BY <1>1, <1>5, <1>12, <2>1, <2>3, <2>4 DEF LineError
  <1>13. CASE ReaderGet
    <2>1. PICK n, take \in Nat :
            /\ take <= n /\ Len(rx_buf) + take <= BufSize
            /\ refused' = refused + (n - take)
            /\ rx_buf' \in Seq(StreamByte) /\ Len(rx_buf') = Len(rx_buf) + take
            /\ rx_ring' \in Seq(StreamByte) /\ Len(rx_ring') <= Len(rx_ring)
      BY <1>13, ReaderGetKeeps
    <2>2. Len(rx_ring') \in Nat /\ Len(rx_ring) \in Nat /\ Len(rx_ring') <= RingSize
      BY <1>c, <1>r, <2>1
    <2>3. Ring
      BY <1>13, <1>r, <2>1, <2>2 DEF ReaderGet, Ring
    <2>4. refused' \in Nat /\ at' = at /\ reader' = "drain" /\ at \in 0 .. Len(rx_buf')
      BY <1>13, <1>b, <2>1 DEF ReaderGet
    <2>5. Buffer
      BY <1>b, <2>1, <2>4 DEF Buffer
    <2> QED
      BY <1>1, <1>2, <1>3, <1>13, <2>3, <2>5 DEF ReaderGet
  <1>14. CASE DrainSkip
    <2>1. Len(Ahead) = Len(rx_buf) - at
      BY AheadIs
    <2>2. at' \in 0 .. Len(rx_buf)
      BY <1>14, <1>b, <1>c, <2>1 DEF DrainSkip, Advance
    <2>3. Buffer
      BY <1>14, <1>b, <2>2 DEF DrainSkip, Buffer
    <2> QED
      BY <1>1, <1>2, <1>3, <1>4, <1>14, <2>3 DEF DrainSkip
  <1>15. CASE DrainDispatch
    <2>1. Len(Ahead) = Len(rx_buf) - at
      BY AheadIs
    <2>2. FrameLen \in Nat /\ Len(Ahead) >= FrameLen /\ at' = at + FrameLen
      BY <1>15, FrameLenIs DEF DrainDispatch
    <2>3. at' \in 0 .. Len(rx_buf)
      BY <1>b, <2>1, <2>2
    <2>4. Buffer
      BY <1>15, <1>b, <2>3 DEF DrainDispatch, Buffer
    <2> QED
      BY <1>1, <1>2, <1>3, <1>4, <1>15, <2>4 DEF DrainDispatch
  <1>16. CASE DrainStop
    <2>1. rx_buf' \in Seq(StreamByte) /\ Len(rx_buf') < BufSize
      BY <1>16, DrainStopKeeps
    <2>2. Len(rx_buf') \in Nat
      BY <2>1
    <2>3. Buffer
      BY <1>16, <1>b, <1>c, <2>1, <2>2 DEF DrainStop, Buffer
    <2> QED
      BY <1>1, <1>2, <1>3, <1>4, <1>16, <2>3 DEF DrainStop
  <1>17. CASE UNCHANGED vars
    BY <1>1, <1>2, <1>3, <1>4, <1>5, <1>17 DEF vars
  <1> QED
    BY <1>7, <1>8, <1>9, <1>m, <1>10, <1>11, <1>12, <1>13, <1>14, <1>15, <1>16,
       <1>17
    DEF Next, Driver, ReaderStep

(* The toggle of rx_dma_next keeps step with the driver.                    *)
LEMMA DmaNext == Typed /\ DmaInv /\ [Next]_vars => DmaInv'
  <1> SUFFICES ASSUME Typed, DmaInv, [Next]_vars PROVE DmaInv'
    OBVIOUS
  <1> USE DEF dmaVars, lineVars, bufVars
  <1>0. active \in {0, 1}
    BY DEF Typed, TypeOK
  <1>1. CASE BufferFull
    BY <1>0, <1>1 DEF BufferFull, BufRequest, DmaInv
  <1>2. CASE RxDisabled
    BY <1>2 DEF RxDisabled, Reenable, FirstBuffers, DmaInv
  <1>3. CASE LineError
    BY <1>3 DEF LineError, DmaInv
  <1>4. ASSUME ~BufferFull, ~RxDisabled, ~LineError PROVE DmaInv'
    <2>1. UNCHANGED <<enabled, active, next, rx_dma_next>>
      BY <1>4 DEF Next, vars, Arrive, Lose, Driver, Pause, PauseMissed, ReaderStep, ReaderGet,
         DrainSkip, DrainDispatch, DrainStop
    <2> QED
      BY <2>1 DEF DmaInv
  <1> QED
    BY <1>1, <1>2, <1>3, <1>4

(* There is always room for a chunk, or for a byte of it.                   *)
LEMMA RoomNext ==
  Typed /\ RoomInv /\ OrderInv /\ [Next]_vars => RoomInv'
  <1> SUFFICES ASSUME Typed, RoomInv, OrderInv, [Next]_vars PROVE RoomInv'
    OBVIOUS
  <1> USE DEF dmaVars, lineVars, bufVars
  <1>s. stream' = stream /\ Narrow' = Narrow
    BY SameStream
  <1>c. /\ Chunk \in Nat \ {0} /\ BufSize \in Nat /\ HeaderLen \in Nat \ {0}
    BY RxAssumption
  <1>b. /\ rx_buf \in Seq(StreamByte) /\ Len(rx_buf) <= BufSize /\ Len(rx_buf) \in Nat
        /\ at \in 0 .. Len(rx_buf) /\ refused \in Nat /\ stream \in Seq(HostFrame)
        /\ rx_ring \in Seq(StreamByte)
    BY DEF Typed, TypeOK
  <1>1. CASE ReaderGet
    <2>1. PICK n, take \in Nat :
            /\ 0 < n /\ n <= Chunk /\ n <= Len(rx_ring)
            /\ take <= n
            /\ take = n \/ Len(rx_buf) + take = BufSize
            /\ refused' = refused + (n - take)
      BY <1>1, ReaderGetKeeps
    <2>2. reader = "get" /\ reader' = "drain"
      BY <1>1 DEF ReaderGet
    <2>3. ASSUME Narrow PROVE refused' = 0
      <3>1. Len(stream) >= 1
        <4>1. 1 \in 1 .. Len(rx_ring)
          BY <1>b, <2>1
        <4>2. rx_ring[1] \in StreamByte
          BY <1>b, <4>1
        <4>3. rx_ring[1].frame \in 1 .. Len(stream)
          BY <4>2 DEF StreamByte
        <4> QED
          BY <1>b, <4>3
      <3>2. Len(rx_buf) + Chunk <= BufSize /\ refused = 0
        BY <2>2, <2>3, <3>1 DEF RoomInv
      <3>3. take = n
        BY <1>b, <1>c, <2>1, <3>2
      <3> QED
        BY <2>1, <3>2, <3>3
    <2> QED
      BY <1>s, <2>2, <2>3 DEF RoomInv
  <1>2. CASE DrainSkip \/ DrainDispatch
    BY <1>s, <1>2 DEF RoomInv, DrainSkip, DrainDispatch
  <1>3. CASE DrainStop
    <2>1. /\ Len(rx_buf') < BufSize
          /\ Len(rx_buf') = Len(Ahead) \/ Len(Ahead) = BufSize
          /\ at' = 0 /\ refused' = refused
      BY <1>3, DrainStopKeeps DEF DrainStop
    <2>2. Len(Ahead) \in Nat
      BY AheadIs
    <2>3. ASSUME Narrow, Len(stream) >= 1
          PROVE  Len(rx_buf') + Chunk <= BufSize
      <3>1. Len(Ahead) + Chunk <= BufSize
        <4>1. CASE Len(Ahead) < HeaderLen
          <5>0. 1 \in 1 .. Len(stream) /\ stream[1] \in HostFrame
            BY <1>b, <2>3
          <5>1. stream[1].len \in Nat
            BY <5>0 DEF HostFrame
          <5>2. HeaderLen + stream[1].len - 1 + Chunk <= BufSize
            BY <2>3, <5>0 DEF Narrow
          <5> QED
            BY <1>c, <2>2, <4>1, <5>1, <5>2
        <4>2. CASE Len(Ahead) >= HeaderLen /\ Len(Ahead) < FrameLen
          <5>1. FrameLen \in Nat /\ FrameLen - 1 + Chunk <= BufSize
            BY <2>3, <4>2, FrameLenIs
          <5> QED
            BY <1>c, <2>2, <4>2, <5>1
        <4> QED
          BY <1>3, <4>1, <4>2 DEF DrainStop
      <3> QED
        BY <1>c, <2>1, <2>2, <3>1
    <2> QED
      BY <1>s, <2>1, <2>3 DEF RoomInv
  <1>4. CASE ~ReaderStep
    <2>1. UNCHANGED <<rx_buf, at, reader, refused>>
      BY <1>4 DEF Next, vars, Arrive, Lose, Driver, Pause, PauseMissed, BufferFull, RxDisabled,
         LineError
    <2> QED
      BY <1>s, <2>1 DEF RoomInv
  <1> QED
    BY <1>1, <1>2, <1>3, <1>4 DEF ReaderStep

(* Before is transitive.                                                    *)
LEMMA Transitive ==
  ASSUME NEW a, NEW b, NEW c, a.frame \in Int, b.frame \in Int, c.frame \in Int,
         a.at \in Int, b.at \in Int, c.at \in Int, Before(a, b), Before(b, c)
  PROVE  Before(a, c)
  BY DEF Before

(* The host's going on leaves everything it has sent before tosend.         *)
LEMMA SentBefore ==
  Typed /\ ~HostDone /\ SendOn
  => \A S \in SUBSET StreamByte : Follows(S, {tosend}) => Follows(S, {tosend'})
  <1> SUFFICES ASSUME Typed, ~HostDone, SendOn,
                      NEW S \in SUBSET StreamByte, Follows(S, {tosend}),
                      NEW b \in S
               PROVE  Before(b, tosend')
    BY DEF Follows
  <1>1. Before(b, tosend) /\ Before(tosend, tosend')
    BY NextByteSent DEF Follows
  <1>2. /\ b.frame \in Int /\ b.at \in Int
        /\ tosend.frame \in Int /\ tosend.at \in Int
        /\ tosend'.frame \in Int /\ tosend'.at \in Int
    BY NextByteSent DEF StreamByte, Typed
  <1> QED
    BY <1>1, <1>2, Transitive

(* Order is kept when what is held stays where it is, or moves on.          *)
LEMMA MovedOn ==
  ASSUME Typed, OrderInv, UNCHANGED stream,
         tosend' = tosend \/ (~HostDone /\ SendOn),
         Sorted(rx_buf'), Sorted(rx_ring'), Sorted(fresh'),
         Bytes(rx_ring') \subseteq Bytes(rx_ring) \cup Bytes(fresh),
         Bytes(fresh') \subseteq Bytes(fresh),
         Bytes(rx_buf') \subseteq Bytes(rx_buf) \cup Bytes(rx_ring),
         Follows(Bytes(rx_buf'), Bytes(rx_ring')),
         Follows(Bytes(rx_ring'), Bytes(fresh'))
  PROVE  OrderInv'
  <1> DEFINE all == Bytes(rx_buf) \cup Bytes(rx_ring) \cup Bytes(fresh)
  <1>1. all \in SUBSET StreamByte
    BY BytesTyped DEF Typed
  <1>2. Follows(all, {tosend})
    BY DEF OrderInv
  <1>3. Follows(all, {tosend'})
    BY <1>1, <1>2, SentBefore
  <1>4. Follows(Bytes(rx_buf'), Bytes(fresh'))
    BY DEF OrderInv, Follows
  <1>5. Bytes(rx_buf') \cup Bytes(rx_ring') \cup Bytes(fresh') \subseteq all
    OBVIOUS
  <1>6. Follows(Bytes(rx_buf') \cup Bytes(rx_ring') \cup Bytes(fresh'), {tosend'})
    BY <1>3, <1>5 DEF Follows
  <1>7. /\ Sorted(rx_buf)' /\ Sorted(rx_ring)' /\ Sorted(fresh)'
        /\ Follows(Bytes(rx_buf), Bytes(rx_ring))'
        /\ Follows(Bytes(rx_buf), Bytes(fresh))'
        /\ Follows(Bytes(rx_ring), Bytes(fresh))'
        /\ Follows(Bytes(rx_buf) \cup Bytes(rx_ring) \cup Bytes(fresh), {tosend})'
    BY <1>4, <1>6 DEF Sorted, Follows, Bytes
  <1> QED
    BY <1>7 DEF OrderInv

(* Bytes are held in the order they were sent.                              *)
LEMMA OrderNext == Typed /\ OrderInv /\ [Next]_vars => OrderInv'
  <1> SUFFICES ASSUME Typed, OrderInv, [Next]_vars PROVE OrderInv'
    OBVIOUS
  <1> USE DEF dmaVars, lineVars, bufVars
  <1>s. UNCHANGED stream
    BY SameStream
  <1>o. /\ Sorted(rx_buf) /\ Sorted(rx_ring) /\ Sorted(fresh)
        /\ Follows(Bytes(rx_buf), Bytes(rx_ring))
        /\ Follows(Bytes(rx_buf), Bytes(fresh))
        /\ Follows(Bytes(rx_ring), Bytes(fresh))
    BY DEF OrderInv
  <1>e. Bytes(<<>>) = {} /\ Sorted(<<>>) /\ \A S : Follows(S, {})
    BY DEF Bytes, Sorted, Follows
  <1>1. CASE Arrive
    <2>1. /\ NextByte \in StreamByte
          /\ NextByte.frame = tosend.frame /\ NextByte.at = tosend.at
      BY <1>1, NextByteSent DEF Arrive
    <2>2. /\ <<NextByte>> \in Seq(StreamByte) /\ Bytes(<<NextByte>>) = {NextByte}
          /\ Sorted(<<NextByte>>)
      BY <2>1 DEF Bytes, Sorted
    <2>3. fresh' = fresh \o <<NextByte>>
      BY <1>1, <2>1 DEF Arrive, Typed
    <2>4. ASSUME NEW b \in Bytes(rx_buf) \cup Bytes(rx_ring) \cup Bytes(fresh)
          PROVE  Before(b, NextByte)
      BY <2>1 DEF OrderInv, Follows, Before
    <2>5. /\ Sorted(fresh') /\ Bytes(fresh') \subseteq Bytes(fresh) \cup {NextByte}
      <3>1. Follows(Bytes(fresh), Bytes(<<NextByte>>)) /\ fresh \in Seq(StreamByte)
        BY <2>2, <2>4 DEF Follows, Typed
      <3> QED
        BY <1>o, <2>2, <2>3, <3>1, SortedJoined, BytesJoined
    <2>6. rx_buf' = rx_buf /\ rx_ring' = rx_ring
      BY <1>1 DEF Arrive
    <2>7. /\ Follows(Bytes(rx_buf), Bytes(fresh'))
          /\ Follows(Bytes(rx_ring), Bytes(fresh'))
      BY <1>o, <2>4, <2>5 DEF Follows
    <2>8. Follows(Bytes(rx_buf) \cup Bytes(rx_ring) \cup Bytes(fresh'), {tosend'})
      <3>1. Bytes(rx_buf) \cup Bytes(rx_ring) \cup Bytes(fresh) \in SUBSET StreamByte
        BY BytesTyped DEF Typed
      <3>2. Follows(Bytes(rx_buf) \cup Bytes(rx_ring) \cup Bytes(fresh), {tosend'})
        BY <1>1, <3>1, SentBefore DEF Arrive, OrderInv
      <3>3. Before(NextByte, tosend')
        BY <1>1, <2>1, NextByteSent DEF Arrive, Before
      <3> QED
        BY <2>5, <3>2, <3>3 DEF Follows
    <2> QED
      BY <1>o, <2>5, <2>6, <2>7, <2>8 DEF OrderInv
  <1>2. CASE Lose
    BY <1>2, <1>s, <1>o, MovedOn DEF Lose
  <1>3. CASE Pause \/ BufferFull \/ LineError
    <2>1. /\ fresh' = <<>> /\ rx_buf' = rx_buf /\ tosend' = tosend
          /\ RingPut(fresh) \/ rx_ring' = rx_ring
      BY <1>3 DEF Pause, BufferFull, LineError
    <2>2. Sorted(rx_ring') /\ Bytes(rx_ring') \subseteq Bytes(rx_ring) \cup Bytes(fresh)
      BY <1>o, <2>1, RingPutKeeps
    <2>3. Follows(Bytes(rx_buf'), Bytes(rx_ring'))
      BY <1>o, <2>1, <2>2 DEF Follows
    <2> QED
      BY <1>s, <1>o, <1>e, <2>1, <2>2, <2>3, MovedOn
  <1>4. CASE \/ RxDisabled \/ PauseMissed \/ DrainSkip \/ DrainDispatch
           \/ UNCHANGED vars
    <2>1. UNCHANGED <<rx_buf, rx_ring, fresh, tosend>>
      BY <1>4 DEF RxDisabled, PauseMissed, DrainSkip, DrainDispatch, vars
    <2> QED
      BY <1>s, <1>o, <2>1, MovedOn
  <1>5. CASE ReaderGet
    <2>1. /\ Sorted(rx_buf') /\ Sorted(rx_ring')
          /\ Bytes(rx_ring') \subseteq Bytes(rx_ring)
          /\ Bytes(rx_buf') \subseteq Bytes(rx_buf) \cup Bytes(rx_ring)
          /\ Follows(Bytes(rx_buf'), Bytes(rx_ring'))
      BY <1>5, ReaderGetKeeps
    <2>2. fresh' = fresh /\ tosend' = tosend
      BY <1>5 DEF ReaderGet
    <2>3. Follows(Bytes(rx_ring'), Bytes(fresh'))
      BY <1>o, <2>1, <2>2 DEF Follows
    <2> QED
      BY <1>s, <1>o, <2>1, <2>2, <2>3, MovedOn
  <1>6. CASE DrainStop
    <2>1. Sorted(rx_buf') /\ Bytes(rx_buf') \subseteq Bytes(rx_buf)
      BY <1>6, DrainStopKeeps, AheadIs
    <2>2. rx_ring' = rx_ring /\ fresh' = fresh /\ tosend' = tosend
      BY <1>6 DEF DrainStop
    <2>3. Follows(Bytes(rx_buf'), Bytes(rx_ring'))
      BY <1>o, <2>1, <2>2 DEF Follows
    <2> QED
      BY <1>s, <1>o, <2>1, <2>2, <2>3, MovedOn
  <1> QED
    BY <1>1, <1>2, <1>3, <1>4, <1>5, <1>6 DEF Next, Driver, ReaderStep

(* What was handled came before what is left, when that only moves on.      *)
LEMMA LeftBehind ==
  ASSUME Typed, OrderInv, HandledInv,
         tosend' = tosend \/ (~HostDone /\ SendOn),
         \A b \in Left' : \/ b \in Left
                          \/ ~HostDone /\ SendOn /\ b = NextByte,
         NEW i \in 1 .. Len(dispatched)
  PROVE  Follows({dispatched[i][1]}, Left' \cup {tosend'})
  <1>1. Follows({dispatched[i][1]}, Left \cup {tosend})
    BY DEF HandledInv
  <1>2. dispatched[i][1] \in StreamByte
    <2>1. dispatched \in Seq(Seq(StreamByte)) /\ Len(dispatched[i]) >= 1
      BY DEF HandledInv
    <2>2. dispatched[i] \in Seq(StreamByte)
      BY <2>1
    <2>3. 1 \in 1 .. Len(dispatched[i])
      BY <2>1, <2>2
    <2> QED
      BY <2>2, <2>3
  <1>3. Before(dispatched[i][1], tosend')
    <2>1. {dispatched[i][1]} \in SUBSET StreamByte /\ Follows({dispatched[i][1]}, {tosend})
      BY <1>1, <1>2 DEF Follows
    <2> QED
      BY <2>1, SentBefore DEF Follows
  <1>4. ASSUME ~HostDone, SendOn PROVE Before(dispatched[i][1], NextByte)
    <2>1. NextByte.frame = tosend.frame /\ NextByte.at = tosend.at
      BY <1>4, NextByteSent
    <2>2. Before(dispatched[i][1], tosend)
      BY <1>1 DEF Follows
    <2> QED
      BY <2>1, <2>2 DEF Before
  <1> QED
    BY <1>1, <1>3, <1>4 DEF Follows

(* Frames are handled in the order they were sent, none of them twice.      *)
LEMMA HandledNext ==
  Typed /\ Typed' /\ RoomInv /\ OrderInv /\ HandledInv /\ [Next]_vars => HandledInv'
  <1> SUFFICES ASSUME Typed, Typed', RoomInv, OrderInv, HandledInv, [Next]_vars
               PROVE  HandledInv'
    OBVIOUS
  <1> USE DEF dmaVars, lineVars, bufVars
  <1>s. StreamByte' = StreamByte
    BY SameStream
  <1>d. dispatched \in Seq(Seq(StreamByte)) /\ Len(dispatched) \in Nat
    BY DEF HandledInv
  <1>a. /\ at \in Nat /\ at <= Len(rx_buf) /\ Len(rx_buf) \in Nat
        /\ rx_buf \in Seq(StreamByte)
        /\ Bytes(Ahead) = {rx_buf[k] : k \in at + 1 .. Len(rx_buf)}
    <2>1. at \in 0 .. Len(rx_buf) /\ rx_buf \in Seq(StreamByte)
      BY DEF Typed, TypeOK
    <2>2. Bytes(Ahead) = {rx_buf[k] : k \in at + 1 .. Len(rx_buf)}
      BY AheadIs
    <2> QED
      BY <2>1, <2>2
  <1>b. /\ at' \in Nat /\ at' <= Len(rx_buf') /\ rx_buf' \in Seq(StreamByte)
        /\ Len(rx_buf') \in Nat
    BY <1>s DEF Typed, TypeOK
  <1>c. Bytes(Ahead)' = {rx_buf'[k] : k \in at' + 1 .. Len(rx_buf')}
    <2>1. Bytes(Ahead)' = Bytes(SubSeq(rx_buf', at' + 1, Len(rx_buf')))
      BY DEF Bytes, Ahead
    <2> QED
      BY <1>b, <2>1, RestBytes
  \* What handles nothing.
  <1>1. ASSUME dispatched' = dispatched,
               tosend' = tosend \/ (~HostDone /\ SendOn),
               \A b \in Left' : \/ b \in Left
                                \/ ~HostDone /\ SendOn /\ b = NextByte
        PROVE  HandledInv'
    <2>1. \A i \in 1 .. Len(dispatched) :
            Follows({dispatched[i][1]}, Left' \cup {tosend'})
      BY <1>1, LeftBehind
    <2> QED
      BY <1>s, <1>1, <2>1 DEF HandledInv, HandledInOrder, Follows
  <1>2. UNCHANGED <<rx_buf, at>> => Bytes(Ahead)' = Bytes(Ahead)
    BY <1>a, <1>c
  <1>3. /\ Bytes(rx_ring)' = Bytes(rx_ring') /\ Bytes(fresh)' = Bytes(fresh')
        /\ Bytes(rx_buf)' = Bytes(rx_buf')
    BY DEF Bytes
  <1>4. Bytes(<<>>) = {}
    BY DEF Bytes
  <1>5. CASE Arrive
    <2>1. NextByte \in StreamByte /\ ~HostDone /\ SendOn
      BY <1>5, NextByteSent DEF Arrive
    <2>2. fresh' = fresh \o <<NextByte>>
      BY <1>5, <2>1 DEF Arrive, Typed
    <2>3. <<NextByte>> \in Seq(StreamByte) /\ Bytes(<<NextByte>>) = {NextByte}
      BY <2>1 DEF Bytes
    <2>4. Bytes(fresh') \subseteq Bytes(fresh) \cup {NextByte}
      BY <2>2, <2>3, BytesJoined DEF Typed
    <2>5. UNCHANGED <<rx_buf, at, rx_ring, dispatched>>
      BY <1>5 DEF Arrive
    <2>6. \A b \in Left' : b \in Left \/ b = NextByte
      BY <1>2, <1>3, <2>4, <2>5 DEF Left
    <2> QED
      BY <1>1, <2>1, <2>5, <2>6
  <1>6. CASE Lose
    <2>1. /\ UNCHANGED <<rx_buf, at, rx_ring, fresh, dispatched>>
          /\ ~HostDone /\ SendOn
      BY <1>6 DEF Lose
    <2>2. Left' = Left
      BY <1>2, <1>3, <2>1 DEF Left
    <2> QED
      BY <1>1, <2>1, <2>2
  <1>7. CASE Pause \/ BufferFull \/ LineError
    <2>1. /\ fresh' = <<>> /\ UNCHANGED <<rx_buf, at, tosend, dispatched>>
          /\ RingPut(fresh) \/ rx_ring' = rx_ring
      BY <1>7 DEF Pause, BufferFull, LineError
    <2>2. Bytes(rx_ring') \subseteq Bytes(rx_ring) \cup Bytes(fresh)
      BY <2>1, RingPutKeeps
    <2>3. \A b \in Left' : b \in Left
      BY <1>2, <1>3, <1>4, <2>1, <2>2 DEF Left
    <2> QED
      BY <1>1, <2>1, <2>3
  <1>8. CASE RxDisabled \/ PauseMissed \/ UNCHANGED vars
    <2>1. UNCHANGED <<rx_buf, at, rx_ring, fresh, tosend, dispatched>>
      BY <1>8 DEF RxDisabled, PauseMissed, vars
    <2>2. Left' = Left
      BY <1>2, <1>3, <2>1 DEF Left
    <2> QED
      BY <1>1, <2>1, <2>2
  <1>9. CASE ReaderGet
    <2>1. /\ Bytes(rx_ring') \subseteq Bytes(rx_ring)
          /\ Bytes(rx_buf') \subseteq Bytes(rx_buf) \cup Bytes(rx_ring)
      BY <1>9, ReaderGetKeeps
    <2>2. UNCHANGED <<at, fresh, tosend, dispatched>> /\ at = 0
      BY <1>9 DEF ReaderGet, RoomInv
    <2>3. Bytes(Ahead)' = Bytes(rx_buf') /\ Bytes(Ahead) = Bytes(rx_buf)
      <3>1. at + 1 = 1 /\ at' + 1 = 1
        BY <2>2
      <3> QED
        BY <1>a, <1>c, <3>1 DEF Bytes
    <2>4. \A b \in Left' : b \in Left
      BY <1>3, <2>1, <2>2, <2>3 DEF Left
    <2> QED
      BY <1>1, <2>2, <2>4
  <1>10. CASE DrainSkip
    <2>1. /\ UNCHANGED <<rx_buf, rx_ring, fresh, tosend, dispatched>> /\ at' = at + 1
      BY <1>10 DEF DrainSkip, Advance
    <2>2. Bytes(Ahead)' \subseteq Bytes(Ahead)
      <3>1. \A k \in at' + 1 .. Len(rx_buf') : k \in at + 1 .. Len(rx_buf)
        BY <1>a, <2>1
      <3> QED
        BY <1>a, <1>c, <2>1, <3>1
    <2>3. \A b \in Left' : b \in Left
      BY <1>3, <2>1, <2>2 DEF Left
    <2> QED
      BY <1>1, <2>1, <2>3
  <1>11. CASE DrainStop
    <2>1. Bytes(rx_buf') \subseteq Bytes(Ahead)
      BY <1>11, DrainStopKeeps
    <2>2. UNCHANGED <<rx_ring, fresh, tosend, dispatched>> /\ at' = 0
      BY <1>11 DEF DrainStop
    <2>3. Bytes(Ahead)' = Bytes(rx_buf')
      <3>1. at' + 1 = 1
        BY <2>2
      <3> QED
        BY <1>c, <3>1 DEF Bytes
    <2>4. \A b \in Left' : b \in Left
      BY <1>3, <2>1, <2>2, <2>3 DEF Left
    <2> QED
      BY <1>1, <2>2, <2>4
  <1>12. CASE DrainDispatch
    <2> DEFINE d == SubSeq(Ahead, 1, FrameLen)
    <2>0. /\ dispatched' = Append(dispatched, d) /\ at' = at + FrameLen
          /\ UNCHANGED <<rx_buf, rx_ring, fresh, tosend>>
          /\ Len(Ahead) >= HeaderLen /\ HeaderHere /\ Len(Ahead) >= FrameLen
      BY <1>12 DEF DrainDispatch
    <2>1. /\ FrameLen \in Nat /\ FrameLen >= 1 /\ HeaderLen \in Nat \ {0}
          /\ 1 \in 1 .. Len(Ahead) /\ Ahead[1] \in StreamByte
          /\ Ahead \in Seq(StreamByte) /\ Len(Ahead) = Len(rx_buf) - at
      BY <2>0, FrameLenIs, AheadIs, RxAssumption
    <2>2. d \in Seq(StreamByte) /\ Len(d) = FrameLen /\ d[1] = Ahead[1]
      <3>1. FrameLen - 1 + 1 = FrameLen /\ 1 <= FrameLen + 1 /\ 1 \in 1 .. FrameLen
            /\ 1 + 1 - 1 = 1
        BY <2>1
      <3> QED
        BY <2>0, <2>1, <3>1, Part
    <2>3. Ahead[1].at = 1 /\ Ahead[1] = rx_buf[at + 1]
      <3>1. 1 \in 1 .. HeaderLen /\ 1 \in 1 .. Len(rx_buf) - at
        BY <2>1
      <3> QED
        BY <2>0, <3>1, AheadIs DEF HeaderHere
    <2> HIDE DEF d
    \* What is left comes after the frame's first byte.
    <2>4. ASSUME NEW k \in at' + 1 .. Len(rx_buf')
          PROVE  k \in at + 1 .. Len(rx_buf) /\ Before(rx_buf[at + 1], rx_buf[k])
      <3>1. /\ k \in at + 1 .. Len(rx_buf) /\ k \in 1 .. Len(rx_buf)
            /\ at + 1 \in 1 .. Len(rx_buf) /\ at + 1 < k
        BY <1>a, <2>0, <2>1
      <3> QED
        BY <3>1 DEF OrderInv, Sorted
    <2>5. Left' \subseteq Left
      <3>1. Bytes(Ahead)' \subseteq Bytes(Ahead)
        BY <1>a, <1>c, <2>0, <2>4
      <3> QED
        BY <1>3, <2>0, <3>1 DEF Left
    <2>6. Follows({Ahead[1]}, Left' \cup {tosend'})
      <3>1. Ahead[1] \in Bytes(rx_buf)
        BY <2>1, AheadIs DEF Bytes
      <3>2. Follows({Ahead[1]}, Bytes(rx_ring) \cup Bytes(fresh) \cup {tosend})
        BY <3>1 DEF OrderInv, Follows
      <3>3. Follows({Ahead[1]}, Bytes(Ahead)')
        BY <1>c, <2>0, <2>3, <2>4 DEF Follows
      <3> QED
        BY <1>3, <2>0, <3>2, <3>3 DEF Left, Follows
    \* What was handled before came before it.
    <2>7. ASSUME NEW i \in 1 .. Len(dispatched)
          PROVE  /\ Follows({dispatched[i][1]}, Left' \cup {tosend'})
                 /\ dispatched[i][1].frame < Ahead[1].frame
      <3>1. Follows({dispatched[i][1]}, Left \cup {tosend}) /\ dispatched[i][1].at = 1
        BY DEF HandledInv
      <3>2. Ahead[1] \in Left
        BY <2>1 DEF Left, Bytes
      <3>3. Before(dispatched[i][1], Ahead[1])
        BY <3>1, <3>2 DEF Follows
      <3>4. dispatched[i][1].frame < Ahead[1].frame
        BY <2>3, <3>1, <3>3 DEF Before
      <3> QED
        BY <2>0, <2>5, <3>1, <3>4 DEF Follows
    <2>8. /\ dispatched' \in Seq(Seq(StreamByte))
          /\ Len(dispatched') = Len(dispatched) + 1
          /\ \A i \in 1 .. Len(dispatched) : dispatched'[i] = dispatched[i]
          /\ dispatched'[Len(dispatched) + 1] = d
      BY <1>d, <2>0, <2>2
    <2>9. ASSUME NEW i \in 1 .. Len(dispatched')
          PROVE  \/ i \in 1 .. Len(dispatched) /\ dispatched'[i] = dispatched[i]
                 \/ i = Len(dispatched) + 1 /\ dispatched'[i] = d
      BY <1>d, <2>8
    <2>10. ASSUME NEW i \in 1 .. Len(dispatched')
           PROVE  /\ Len(dispatched'[i]) >= 1 /\ dispatched'[i][1].at = 1
                  /\ Follows({dispatched'[i][1]}, Left' \cup {tosend'})
      <3>1. CASE i \in 1 .. Len(dispatched) /\ dispatched'[i] = dispatched[i]
        BY <2>7, <3>1 DEF HandledInv
      <3>2. CASE dispatched'[i] = d
        BY <2>1, <2>2, <2>3, <2>6, <3>2
      <3> QED
        BY <2>9, <3>1, <3>2
    <2>11. ASSUME NEW i \in 1 .. Len(dispatched'), NEW j \in 1 .. Len(dispatched'), i < j
           PROVE  dispatched'[i][1].frame < dispatched'[j][1].frame
      <3>1. i \in 1 .. Len(dispatched) /\ dispatched'[i] = dispatched[i]
        BY <1>d, <2>8, <2>9, <2>11
      <3>2. CASE j \in 1 .. Len(dispatched) /\ dispatched'[j] = dispatched[j]
        BY <2>11, <3>1, <3>2 DEF HandledInv, HandledInOrder
      <3>3. CASE dispatched'[j] = d
        BY <2>2, <2>7, <3>1, <3>3
      <3> QED
        BY <2>9, <3>2, <3>3
    <2> QED
      BY <1>s, <2>8, <2>10, <2>11 DEF HandledInv, HandledInOrder, Follows
  <1> QED
    BY <1>5, <1>6, <1>7, <1>8, <1>9, <1>10, <1>11, <1>12 DEF Next, Driver, ReaderStep

(* It holds always.                                                         *)
LEMMA Invariant == Spec => []Inv
  <1>1. Inv /\ [Next]_vars => Inv'
    BY TypedNext, DmaNext, RoomNext, OrderNext, HandledNext DEF Inv
  <1> QED
    BY <1>1, InvInit, PTL DEF Spec
-----------------------------------------------------------------------------
(* The receive path's variables keep their types and sizes, and the driver  *)
(* is never given the buffer it is filling.                                 *)
THEOREM ReceiveTypeCorrect == Spec => []TypeOK
  <1>1. Inv => TypeOK
    BY DEF Inv, Typed
  <1> QED
    BY <1>1, Invariant, PTL

(* Whatever a host sends, rx_buf is never left full, and loses nothing      *)
(* while no header announces more than it can hold beside a chunk.          *)
THEOREM ReaderAlwaysKeepsAll == Spec => []ReaderKeepsAll
  <1>1. Inv => ReaderKeepsAll
    BY DEF Inv, RoomInv, Narrow, ReaderKeepsAll
  <1> QED
    BY <1>1, Invariant, PTL
-----------------------------------------------------------------------------
(* What a loss costs. *)

(* The least member of a set of naturals, from the library's theorem that   *)
(* < is well founded on them.                                               *)
LEMMA LeastMember ==
  ASSUME NEW T, T \subseteq Nat, T # {}
  PROVE  \E x \in T : \A y \in T : x <= y
  <1> DEFINE LT == {s \in Nat \X Nat : s[1] < s[2]}
  <1>1. IsWellFoundedOn(LT, Nat)
    BY NatLessThanWellFounded DEF OpToRel
  <1>2. \A x, y \in Nat : y < x => <<y, x>> \in LT
    OBVIOUS
  <1> HIDE DEF LT
  <1>3. PICK x \in T : \A y \in T : ~ (<<y, x>> \in LT)
    BY <1>1, WFMin
  <1>4. ASSUME NEW y \in T PROVE x <= y
    <2>1. x \in Nat /\ y \in Nat
      OBVIOUS
    <2>2. ~ (y < x)
      BY <2>1, <1>2, <1>3
    <2> QED
      BY <2>1, <2>2
  <1> QED
    BY <1>4

(* The parts of a finite set are finite, and count together.                *)
LEMMA Parts ==
  ASSUME NEW S, IsFiniteSet(S), NEW A, NEW B, A \cup B \subseteq S, A \cap B = {}
  PROVE  /\ IsFiniteSet(A) /\ IsFiniteSet(B)
         /\ Cardinality(A) \in Nat /\ Cardinality(B) \in Nat /\ Cardinality(S) \in Nat
         /\ Cardinality(A) + Cardinality(B) <= Cardinality(S)
  <1>1. A \in SUBSET S /\ B \in SUBSET S /\ A \cup B \in SUBSET S
    OBVIOUS
  <1>2. IsFiniteSet(A) /\ IsFiniteSet(B)
    BY <1>1, FS_Subset
  <1>3. Cardinality(A \cup B) <= Cardinality(S)
    BY <1>1, FS_Subset
  <1>4. /\ Cardinality(A) \in Nat /\ Cardinality(B) \in Nat
        /\ Cardinality(S) \in Nat
    BY <1>2, FS_CardinalityType
  <1>5. Cardinality(A \cup B) = Cardinality(A) + Cardinality(B) - Cardinality({})
    BY <1>2, FS_Union
  <1>6. Cardinality({}) = 0
    BY FS_EmptySet
  <1> QED
    BY <1>2, <1>3, <1>4, <1>5, <1>6

(* Two sets hold no more together than each by itself.                      *)
LEMMA Together ==
  ASSUME NEW A, IsFiniteSet(A), NEW B, IsFiniteSet(B), NEW S, S \subseteq A \cup B
  PROVE  /\ IsFiniteSet(S)
         /\ Cardinality(A) \in Nat /\ Cardinality(B) \in Nat /\ Cardinality(S) \in Nat
         /\ Cardinality(S) <= Cardinality(A) + Cardinality(B)
  <1>1. IsFiniteSet(A \cup B) /\ IsFiniteSet(A \cap B)
    BY FS_Union, FS_Intersection
  <1>2. Cardinality(A \cup B) = Cardinality(A) + Cardinality(B) - Cardinality(A \cap B)
    BY FS_Union
  <1>3. S \in SUBSET (A \cup B)
    OBVIOUS
  <1>4. IsFiniteSet(S) /\ Cardinality(S) <= Cardinality(A \cup B)
    BY <1>1, <1>3, FS_Subset
  <1>5. /\ Cardinality(A) \in Nat /\ Cardinality(B) \in Nat
        /\ Cardinality(S) \in Nat /\ Cardinality(A \cap B) \in Nat
    BY <1>1, <1>4, FS_CardinalityType
  <1> QED
    BY <1>2, <1>4, <1>5

(* Bytes of as many different frames are at least as many.                  *)
LEMMA OneEach ==
  ASSUME NEW N, IsFiniteSet(N), NEW W, IsFiniteSet(W),
         \A f \in N : \E b \in W : b.frame = f
  PROVE  Cardinality(N) <= Cardinality(W)
  <1> DEFINE c == [f \in N |-> CHOOSE b \in W : b.frame = f]
  <1>1. \A f \in N : c[f] \in W /\ c[f].frame = f
    OBVIOUS
  <1>2. c \in [N -> W]
    BY <1>1
  <1>3. DOMAIN c = N
    OBVIOUS
  <1> HIDE DEF c
  <1>4. c \in Injection(N, W)
    BY <1>1, <1>2, <1>3 DEF Injection, IsInjective
  <1> QED
    BY <1>4, FS_Injection

(* Frames of which a byte is in W, and bytes of W of other frames.          *)
LEMMA Pays ==
  ASSUME NEW W, IsFiniteSet(W), NEW T, T \subseteq W, NEW N, IsFiniteSet(N),
         \A b \in T : b.frame \notin N,
         \A f \in N : \E b \in W : b.frame = f
  PROVE  /\ Cardinality(T) \in Nat /\ Cardinality(N) \in Nat /\ Cardinality(W) \in Nat
         /\ Cardinality(T) + Cardinality(N) <= Cardinality(W)
  <1> DEFINE U == W \ T
  <1>1. T \cup U \subseteq W /\ T \cap U = {}
    OBVIOUS
  <1>2. \A f \in N : \E b \in U : b.frame = f
    OBVIOUS
  <1> HIDE DEF U
  <1>3. /\ IsFiniteSet(T) /\ IsFiniteSet(U)
        /\ Cardinality(T) \in Nat /\ Cardinality(U) \in Nat /\ Cardinality(W) \in Nat
        /\ Cardinality(T) + Cardinality(U) <= Cardinality(W)
    BY <1>1, Parts
  <1>4. Cardinality(N) <= Cardinality(U) /\ Cardinality(N) \in Nat
    BY <1>2, <1>3, OneEach, FS_CardinalityType
  <1> QED
    BY <1>3, <1>4

(* Places from a to e of a sequence hold no more bytes than there are.      *)
LEMMA FewBytes ==
  ASSUME NEW s, NEW a \in Int, NEW e \in Int, a <= e + 1
  PROVE  /\ IsFiniteSet({s[k] : k \in a .. e})
         /\ Cardinality({s[k] : k \in a .. e}) <= e - a + 1
         /\ Cardinality({s[k] : k \in a .. e}) \in Nat
  <1> DEFINE T == {s[k] : k \in a .. e}
             c == [k \in a .. e |-> s[k]]
  <1>1. c \in Surjection(a .. e, T)
    BY DEF Surjection
  <1>2. IsFiniteSet(a .. e) /\ Cardinality(a .. e) = e - a + 1
    BY FS_Interval
  <1> HIDE DEF c, T
  <1>3. IsFiniteSet(T) /\ Cardinality(T) <= e - a + 1
    BY <1>1, <1>2, FS_Surjection
  <1>4. Cardinality(T) \in Nat
    BY <1>3, FS_CardinalityType
  <1> QED
    BY <1>3, <1>4 DEF T

(* Sorted bytes are all different.                                          *)
LEMMA AllDifferent ==
  ASSUME NEW s \in Seq(StreamByte), Sorted(s)
  PROVE  IsFiniteSet(Bytes(s)) /\ Cardinality(Bytes(s)) = Len(s)
  <1> DEFINE D == 1 .. Len(s)
             c == [k \in D |-> s[k]]
  <1>0. Len(s) \in Nat /\ \A k \in D : s[k] \in StreamByte
    OBVIOUS
  <1>1. c \in [D -> Bytes(s)] /\ DOMAIN c = D /\ \A k \in D : c[k] = s[k]
    BY DEF Bytes
  <1>2. \A t \in Bytes(s) : \E k \in D : c[k] = t
    BY DEF Bytes
  <1>3. ASSUME NEW i \in D, NEW j \in D, s[i] = s[j] PROVE i = j
    <2>1. s[i].frame \in Int /\ s[i].at \in Int
      <3>1. s[i] \in StreamByte
        BY <1>0
      <3> QED
        BY <3>1 DEF StreamByte
    <2>2. ~Before(s[i], s[i])
      BY <2>1 DEF Before
    <2>3. ~(i < j) /\ ~(j < i)
      BY <1>3, <2>2 DEF Sorted
    <2> QED
      BY <1>0, <2>3
  <1> HIDE DEF c
  <1>4. c \in Bijection(D, Bytes(s))
    BY <1>1, <1>2, <1>3 DEF Bijection, Injection, Surjection, IsInjective
  <1>5. IsFiniteSet(D) /\ Cardinality(D) = Len(s)
    <2>1. 1 \in Int /\ Len(s) \in Int
      BY <1>0
    <2>2. IsFiniteSet(D) /\ Cardinality(D) = IF 1 > Len(s) THEN 0 ELSE Len(s) - 1 + 1
      BY <2>1, FS_Interval
    <2> QED
      BY <1>0, <2>2
  <1> QED
    BY <1>4, <1>5, FS_Bijection DEF ExistsBijection

(* A frame's size, and its bytes.                                           *)
LEMMA FrameIs ==
  ASSUME stream \in Seq(HostFrame), NEW f \in 1 .. Len(stream)
  PROVE  /\ Size(f) \in Nat /\ Size(f) >= HeaderLen /\ Size(f) >= 1
         /\ \A i \in Nat \ {0} :
              /\ ByteAt(f, i) \in StreamByte
              /\ ByteAt(f, i).frame = f /\ ByteAt(f, i).at = i
         /\ \A b \in StreamByte : b.frame = f => b = ByteAt(f, b.at)
  <1>1. stream[f] \in HostFrame
    OBVIOUS
  <1>2. stream[f].len \in Nat /\ stream[f].sent \in Nat
    BY <1>1 DEF HostFrame
  <1>3. HeaderLen \in Nat \ {0}
    BY RxAssumption
  <1>4. Size(f) \in Nat /\ Size(f) >= HeaderLen /\ Size(f) >= 1
    BY <1>2, <1>3 DEF Size
  <1>5. ASSUME NEW i \in Nat \ {0}
        PROVE  /\ ByteAt(f, i) \in StreamByte
               /\ ByteAt(f, i).frame = f /\ ByteAt(f, i).at = i
    BY <1>2 DEF ByteAt, Token, StreamByte
  <1>6. ASSUME NEW b \in StreamByte, b.frame = f PROVE b = ByteAt(f, b.at)
    <2>1. b = [frame |-> b.frame, at |-> b.at, len |-> b.len] /\ b.len = stream[f].len
      BY <1>6 DEF StreamByte
    <2> QED
      BY <1>6, <2>1 DEF ByteAt, Token
  <1> QED
    BY <1>4, <1>5, <1>6

(* They are as many as its size.                                            *)
LEMMA FrameSetIs ==
  ASSUME stream \in Seq(HostFrame), NEW f \in 1 .. Len(stream)
  PROVE  /\ IsFiniteSet(FrameSet(f)) /\ Cardinality(FrameSet(f)) = Size(f)
         /\ FrameSet(f) = {b \in StreamByte : b.frame = f /\ b.at <= Size(f)}
  <1> DEFINE D == 1 .. Size(f)
             c == [i \in D |-> ByteAt(f, i)]
  <1>0. /\ Size(f) \in Nat /\ Size(f) >= 1
        /\ \A i \in D : /\ ByteAt(f, i) \in StreamByte
                        /\ ByteAt(f, i).frame = f /\ ByteAt(f, i).at = i
    BY FrameIs
  <1>1. c \in [D -> FrameSet(f)] /\ DOMAIN c = D /\ \A i \in D : c[i] = ByteAt(f, i)
    BY DEF FrameSet
  <1>2. \A t \in FrameSet(f) : \E i \in D : c[i] = t
    BY DEF FrameSet
  <1>3. \A i, j \in D : ByteAt(f, i) = ByteAt(f, j) => i = j
    BY <1>0
  <1>4. IsFiniteSet(D) /\ Cardinality(D) = Size(f)
    <2>1. 1 \in Int /\ Size(f) \in Int
      BY <1>0
    <2>2. IsFiniteSet(D) /\ Cardinality(D) = IF 1 > Size(f) THEN 0 ELSE Size(f) - 1 + 1
      BY <2>1, FS_Interval
    <2> QED
      BY <1>0, <2>2
  <1>5. ASSUME NEW b \in StreamByte, b.frame = f, b.at <= Size(f) PROVE b \in FrameSet(f)
    <2>0. b.at \in Nat \ {0}
      BY DEF StreamByte
    <2>1. b = ByteAt(f, b.at) /\ b.at \in D
      BY <1>0, <1>5, <2>0, FrameIs
    <2> QED
      BY <2>1 DEF FrameSet
  <1>6. ASSUME NEW i \in D
        PROVE  ByteAt(f, i) \in {b \in StreamByte : b.frame = f /\ b.at <= Size(f)}
    BY <1>0
  <1>7. FrameSet(f) = {b \in StreamByte : b.frame = f /\ b.at <= Size(f)}
    BY <1>5, <1>6 DEF FrameSet
  <1> HIDE DEF c
  <1>8. c \in Bijection(D, FrameSet(f))
    BY <1>1, <1>2, <1>3 DEF Bijection, Injection, Surjection, IsInjective
  <1> QED
    BY <1>4, <1>7, <1>8, FS_Bijection DEF ExistsBijection

(* What is sent is finite.                                                  *)
LEMMA SentFinite ==
  ASSUME stream \in Seq(HostFrame)
  PROVE  IsFiniteSet(Sent) /\ IsFiniteSet(Missing)
  <1> DEFINE D == 1 .. Len(stream)
             T == {FrameSet(f) : f \in D}
             c == [f \in D |-> FrameSet(f)]
  <1>1. c \in Surjection(D, T)
    BY DEF Surjection
  <1>2. IsFiniteSet(D)
    BY FS_Interval
  <1>3. \A S \in T : IsFiniteSet(S)
    BY FrameSetIs
  <1>4. ASSUME NEW b \in Sent PROVE b \in UNION T
    <2>1. b \in StreamByte /\ b.at <= Size(b.frame)
      BY DEF Sent
    <2>2. b.frame \in D
      BY <2>1 DEF StreamByte
    <2>3. b \in FrameSet(b.frame)
      BY <2>1, <2>2, FrameSetIs
    <2> QED
      BY <2>2, <2>3
  <1> HIDE DEF c, T
  <1>5. IsFiniteSet(T)
    BY <1>1, <1>2, FS_Surjection
  <1>6. IsFiniteSet(UNION T)
    BY <1>3, <1>5, FS_UNION
  <1>7. Sent \in SUBSET (UNION T) /\ Missing \in SUBSET Sent
    BY <1>4 DEF Missing
  <1>8. IsFiniteSet(Sent)
    BY <1>6, <1>7, FS_Subset
  <1> QED
    BY <1>7, <1>8, FS_Subset

(* No more than i - 1 bytes of frame f, and of none before it, come before  *)
(* its byte i.                                                              *)
LEMMA Crowd ==
  ASSUME stream \in Seq(HostFrame), NEW f \in 1 .. Len(stream),
         NEW s \in Seq(StreamByte), Sorted(s),
         \A k \in 1 .. Len(s) : s[k].frame >= f,
         NEW i \in Nat \ {0}, \A k \in 1 .. Len(s) : Before(s[k], ByteAt(f, i))
  PROVE  Len(s) < i
  <1>1. ByteAt(f, i).frame = f /\ ByteAt(f, i).at = i
    BY FrameIs
  <1>2. \A k \in 1 .. Len(s) : s[k] \in StreamByte
    OBVIOUS
  <1>3. ASSUME NEW b \in Bytes(s) PROVE b \in {ByteAt(f, k) : k \in 1 .. i - 1}
    <2>1. b \in StreamByte /\ b.frame >= f /\ Before(b, ByteAt(f, i))
      BY <1>2 DEF Bytes
    <2>2. b.frame \in Int /\ b.at \in Nat \ {0}
      BY <2>1 DEF StreamByte
    <2>3. b.frame = f /\ b.at \in 1 .. i - 1
      BY <1>1, <2>1, <2>2 DEF Before
    <2>4. b = ByteAt(f, b.at)
      BY <2>1, <2>3, FrameIs
    <2> QED
      BY <2>3, <2>4
  <1> DEFINE g == [k \in 1 .. i - 1 |-> ByteAt(f, k)]
             T == {g[k] : k \in 1 .. i - 1}
  <1>4. Bytes(s) \in SUBSET T
    BY <1>3
  <1>5. 1 \in Int /\ i - 1 \in Int /\ 1 <= (i - 1) + 1 /\ (i - 1) - 1 + 1 = i - 1
    OBVIOUS
  <1> HIDE DEF g
  <1>6. IsFiniteSet(T) /\ Cardinality(T) <= i - 1 /\ Cardinality(T) \in Nat
    BY <1>5, FewBytes
  <1> HIDE DEF T
  <1>7. Cardinality(Bytes(s)) <= Cardinality(T) /\ Cardinality(Bytes(s)) = Len(s)
    BY <1>4, <1>6, FS_Subset, AllDifferent
  <1>8. Len(s) \in Nat
    OBVIOUS
  <1> QED
    BY <1>6, <1>7, <1>8

(* When the first n bytes of frame f are all among sorted bytes that begin  *)
(* with it, they are the first n.                                           *)
LEMMA InARow ==
  ASSUME stream \in Seq(HostFrame), NEW f \in 1 .. Len(stream),
         NEW s \in Seq(StreamByte), Sorted(s),
         \A k \in 1 .. Len(s) : s[k].frame >= f,
         NEW n \in Nat, n <= Len(s),
         \A i \in 1 .. n : ByteAt(f, i) \in Bytes(s)
  PROVE  \A k \in 1 .. n : s[k] = ByteAt(f, k)
  <1> DEFINE T == {k \in 1 .. n : s[k] # ByteAt(f, k)}
  <1>0. /\ Len(s) \in Nat /\ T \subseteq Nat
        /\ \A k \in 1 .. Len(s) : /\ s[k] \in StreamByte
                                  /\ s[k].frame \in Int /\ s[k].at \in Nat \ {0}
    BY DEF StreamByte
  <1>1. SUFFICES ASSUME T # {} PROVE FALSE
    OBVIOUS
  <1>2. PICK x \in T : \A y \in T : x <= y
    <2> HIDE DEF T
    <2> QED
      BY <1>0, <1>1, LeastMember
  <1>3. /\ x \in 1 .. n /\ x \in 1 .. Len(s) /\ x \in Nat \ {0}
        /\ s[x] # ByteAt(f, x) /\ ByteAt(f, x) \in Bytes(s)
    BY <1>0
  <1>4. ByteAt(f, x).frame = f /\ ByteAt(f, x).at = x
    BY <1>3, FrameIs
  <1>5. PICK q \in 1 .. Len(s) : s[q] = ByteAt(f, x)
    BY <1>3 DEF Bytes
  <1>6. ASSUME NEW y \in 1 .. n, y < x PROVE s[y] = ByteAt(f, y) /\ s[y].at = y
    <2>1. y \notin T
      BY <1>2, <1>3, <1>6
    <2>2. s[y] = ByteAt(f, y)
      BY <2>1
    <2> QED
      BY <2>2, FrameIs
  <1>7. q > x
    <2>1. q # x
      BY <1>3, <1>5
    <2>2. ~(q < x)
      <3>1. SUFFICES ASSUME q < x PROVE FALSE
        OBVIOUS
      <3>2. q \in 1 .. n
        BY <1>0, <1>3, <3>1
      <3>3. s[q].at = q
        BY <1>6, <3>1, <3>2
      <3> QED
        BY <1>4, <1>5, <3>1, <3>3
    <2> QED
      BY <1>0, <1>3, <2>1, <2>2
  <1>8. Before(s[x], s[q])
    BY <1>3, <1>7 DEF Sorted
  <1>9. s[x].frame = f /\ s[x].at \in 1 .. x - 1
    BY <1>0, <1>3, <1>4, <1>5, <1>8 DEF Before
  <1> DEFINE y == s[x].at
  <1>10. y \in 1 .. n /\ y < x /\ y \in 1 .. Len(s)
    BY <1>0, <1>3, <1>9
  <1>11. s[y] = ByteAt(f, y) /\ s[x] = ByteAt(f, y)
    BY <1>0, <1>3, <1>6, <1>9, <1>10, FrameIs
  <1>12. Before(s[y], s[x])
    BY <1>3, <1>10 DEF Sorted
  <1> QED
    BY <1>0, <1>3, <1>11, <1>12 DEF Before

(* What the host sends, and what is left, when that only moves on.          *)
LEMMA GoesOn ==
  ASSUME Typed, UNCHANGED stream,
         tosend' = tosend \/ (~HostDone /\ SendOn),
         \A b \in Left' : \/ b \in Left
                          \/ ~HostDone /\ SendOn /\ b = NextByte
  PROVE  /\ Done \subseteq Done'
         /\ \A b \in Sent' : \/ b \in Sent
                             \/ ~HostDone /\ SendOn /\ b = NextByte
         /\ \A f \in Done' : ByteAt(f, 1) \in Sent' /\ ByteAt(f, 1) \notin Left'
  <1>0. /\ StreamByte' = StreamByte /\ stream \in Seq(HostFrame)
        /\ \A f, i : ByteAt(f, i)' = ByteAt(f, i) /\ Size(f)' = Size(f)
    BY DEF StreamByte, Typed, ByteAt, Size
  <1>t. tosend \in [frame : 1 .. Len(stream) + 1, at : Nat \ {0}] /\ Len(stream) \in Nat
    BY DEF Typed
  <1>1. ASSUME NEW f \in Done PROVE f \in Done'
    <2>1. f \in 1 .. Len(stream) /\ Follows({ByteAt(f, 1)}, Left \cup {tosend})
      BY DEF Done
    <2>2. ByteAt(f, 1) \in StreamByte /\ ByteAt(f, 1).frame = f /\ ByteAt(f, 1).at = 1
      BY <1>0, <2>1, FrameIs
    <2>3. Before(ByteAt(f, 1), tosend')
      <3>1. {ByteAt(f, 1)} \in SUBSET StreamByte /\ Follows({ByteAt(f, 1)}, {tosend})
        BY <2>1, <2>2 DEF Follows
      <3> QED
        BY <3>1, SentBefore DEF Follows
    <2>4. ASSUME ~HostDone, SendOn PROVE Before(ByteAt(f, 1), NextByte)
      <3>1. NextByte.frame = tosend.frame /\ NextByte.at = tosend.at
        BY <2>4, NextByteSent
      <3>2. Before(ByteAt(f, 1), tosend)
        BY <2>1 DEF Follows
      <3> QED
        BY <3>1, <3>2 DEF Before
    <2>5. Follows({ByteAt(f, 1)}, Left' \cup {tosend'})
      BY <2>1, <2>3, <2>4 DEF Follows
    <2> QED
      BY <1>0, <2>1, <2>5 DEF Done, Follows
  <1>2. ASSUME NEW b \in Sent', b \notin Sent PROVE ~HostDone /\ SendOn /\ b = NextByte
    <2>1. /\ b \in StreamByte /\ b.at <= Size(b.frame) /\ Before(b, tosend')
          /\ ~Before(b, tosend)
      BY <1>0, <1>2 DEF Sent, Before
    <2>2. ~HostDone /\ SendOn /\ tosend.frame \in 1 .. Len(stream)
      BY <1>t, <2>1 DEF HostDone
    <2>3. b.frame \in Int /\ b.at \in Nat \ {0} /\ tosend.frame \in Int /\ tosend.at \in Int
      BY <1>t, <2>1 DEF StreamByte
    <2>4. NextByte = ByteAt(tosend.frame, tosend.at)
      BY DEF NextByte, ByteAt
    <2>5. Size(tosend.frame) \in Nat
      BY <1>0, <2>2, FrameIs
    <2>6. IF tosend.at < Size(tosend.frame)
          THEN tosend'.frame = tosend.frame /\ tosend'.at = tosend.at + 1
          ELSE tosend'.frame = tosend.frame + 1 /\ tosend'.at = 1
      BY <1>t, <2>2 DEF SendOn, Size
    <2>7. b.frame = tosend.frame /\ b.at = tosend.at
      BY <2>1, <2>3, <2>5, <2>6 DEF Before
    <2> QED
      BY <1>0, <2>1, <2>2, <2>4, <2>7, FrameIs
  <1>3. ASSUME NEW f \in Done'
        PROVE  ByteAt(f, 1) \in Sent' /\ ByteAt(f, 1) \notin Left'
    <2>1. f \in 1 .. Len(stream) /\ Follows({ByteAt(f, 1)}, Left' \cup {tosend'})
      BY <1>0, <1>3 DEF Done, Follows
    <2>2. /\ ByteAt(f, 1) \in StreamByte /\ ByteAt(f, 1).frame = f /\ ByteAt(f, 1).at = 1
          /\ Size(f) >= 1
      BY <1>0, <2>1, FrameIs
    <2>3. Before(ByteAt(f, 1), tosend')
      BY <2>1 DEF Follows
    <2>4. ByteAt(f, 1) \in Sent'
      BY <1>0, <2>2, <2>3 DEF Sent, Before
    <2>5. ~Before(ByteAt(f, 1), ByteAt(f, 1))
      BY <2>1, <2>2 DEF Before
    <2> QED
      BY <2>1, <2>4, <2>5 DEF Follows
  <1> QED
    BY <1>1, <1>2, <1>3

(* What nothing is handled in is paid for, if the frames it brings the      *)
(* reader past had bytes among those that may be missing.                   *)
LEMMA Paid ==
  ASSUME Typed, LossInv, WellFormed, UNCHANGED <<stream, dispatched>>,
         Losses \in Nat,
         NEW G, IsFiniteSet(G), Missing' \subseteq G, Done \subseteq Done',
         \A f \in Done' \ Done : \E b \in G : b.frame = f,
         NEW d \in Nat, Cardinality(G) <= Cardinality(Missing) + d,
         Losses' = Losses + d
  PROVE  (Cardinality(Damaged \cap Done) + 2 * Cardinality(Missing) <= 2 * Losses)'
  <1>0. /\ stream \in Seq(HostFrame) /\ IsFiniteSet(1 .. Len(stream))
        /\ IsFiniteSet(Missing)
    BY SentFinite, FS_Interval DEF Typed
  <1>1. Damaged' = Damaged /\ Damaged \in SUBSET (1 .. Len(stream))
    BY DEF Damaged, Intact, FrameBytes
  <1>2. Done' \in SUBSET (1 .. Len(stream)) /\ Done \in SUBSET (1 .. Len(stream))
    BY DEF Done
  <1> DEFINE N == Done' \ Done
  <1>3. IsFiniteSet(N) /\ IsFiniteSet(Damaged \cap Done)
    <2>1. N \in SUBSET (1 .. Len(stream)) /\ Damaged \cap Done \in SUBSET (1 .. Len(stream))
      BY <1>1, <1>2
    <2> QED
      BY <1>0, <2>1, FS_Subset
  <1>4. \A b \in Missing' : b.frame \notin N
    BY DEF Missing
  <1>5. Damaged' \cap Done' \subseteq (Damaged \cap Done) \cup N
    BY <1>1
  <1>6. \A f \in N : \E b \in G : b.frame = f
    OBVIOUS
  <1> HIDE DEF N
  <1>7. /\ Cardinality(Missing') + Cardinality(N) <= Cardinality(G)
        /\ Cardinality(Missing') \in Nat /\ Cardinality(N) \in Nat
        /\ Cardinality(G) \in Nat
    BY <1>3, <1>4, <1>6, Pays
  <1>8. /\ Cardinality(Damaged' \cap Done') <= Cardinality(Damaged \cap Done) + Cardinality(N)
        /\ Cardinality(Damaged' \cap Done') \in Nat
        /\ Cardinality(Damaged \cap Done) \in Nat
    BY <1>3, <1>5, Together
  <1>9. Cardinality(Missing) \in Nat
    BY <1>0, FS_CardinalityType
  <1>10. Cardinality(Damaged \cap Done) + 2 * Cardinality(Missing) <= 2 * Losses
    BY DEF LossInv
  <1>11. Cardinality(Damaged' \cap Done') + 2 * Cardinality(Missing') <= 2 * Losses'
    BY <1>7, <1>8, <1>9, <1>10
  <1> QED
    BY <1>11

(* So is every other byte that goes.                                        *)
LEMMA LostPays ==
  ASSUME Typed, LossInv, WellFormed, UNCHANGED <<stream, dispatched>>,
         Losses \in Nat,
         tosend' = tosend \/ (~HostDone /\ SendOn),
         \A b \in Left' : \/ b \in Left
                          \/ ~HostDone /\ SendOn /\ b = NextByte,
         NEW X, IsFiniteSet(X), NEW d \in Nat, Cardinality(X) <= d,
         Left \subseteq Left' \cup X,
         ~HostDone /\ SendOn => NextByte \in Left' \cup X,
         Losses' = Losses + d
  PROVE  (Cardinality(Damaged \cap Done) + 2 * Cardinality(Missing) <= 2 * Losses)'
  <1> DEFINE G == {b \in Sent' : b.frame \notin Done} \ Left'
  <1>1. /\ Done \subseteq Done'
        /\ \A b \in Sent' : b \in Sent \/ (~HostDone /\ SendOn /\ b = NextByte)
        /\ \A f \in Done' : ByteAt(f, 1) \in Sent' /\ ByteAt(f, 1) \notin Left'
    BY GoesOn
  <1>2. G \subseteq Missing \cup X
    BY <1>1 DEF Missing
  <1>3. IsFiniteSet(Missing)
    BY SentFinite DEF Typed
  <1>4. Missing' \subseteq G
    BY <1>1 DEF Missing
  <1>5. \A f \in Done' \ Done : \E b \in G : b.frame = f
    <2> SUFFICES ASSUME NEW f \in Done', f \notin Done PROVE \E b \in G : b.frame = f
      OBVIOUS
    <2>1. f \in 1 .. Len(stream)
      BY DEF Done
    <2>2. ByteAt(f, 1).frame = f
      BY <2>1, FrameIs DEF Typed
    <2>3. ByteAt(f, 1) \in G
      BY <1>1, <2>2
    <2> QED
      BY <2>2, <2>3
  <1> HIDE DEF G
  <1>6. /\ IsFiniteSet(G) /\ Cardinality(G) \in Nat
        /\ Cardinality(Missing) \in Nat /\ Cardinality(X) \in Nat
        /\ Cardinality(G) <= Cardinality(Missing) + Cardinality(X)
    BY <1>2, <1>3, Together
  <1>7. Cardinality(G) <= Cardinality(Missing) + d
    BY <1>6
  <1> QED
    BY <1>1, <1>4, <1>5, <1>6, <1>7, Paid

(* One after another has all the bytes of both.                             *)
LEMMA AllJoined ==
  ASSUME NEW s \in Seq(StreamByte), NEW u \in Seq(StreamByte)
  PROVE  Bytes(s) \cup Bytes(u) \subseteq Bytes(s \o u)
  <1>0. /\ Len(s) \in Nat /\ Len(u) \in Nat /\ Len(s \o u) = Len(s) + Len(u)
        /\ \A i \in 1 .. Len(s) : (s \o u)[i] = s[i]
        /\ \A i \in 1 .. Len(u) : (s \o u)[Len(s) + i] = u[i]
    BY Joined
  <1>1. \A i \in 1 .. Len(s) : i \in 1 .. Len(s \o u)
    BY <1>0
  <1>2. \A i \in 1 .. Len(u) : Len(s) + i \in 1 .. Len(s \o u)
    BY <1>0
  <1>3. \A i \in 1 .. Len(s) : s[i] \in Bytes(s \o u)
    BY <1>0, <1>1 DEF Bytes
  <1>4. \A i \in 1 .. Len(u) : u[i] \in Bytes(s \o u)
    BY <1>0, <1>2 DEF Bytes
  <1> QED
    BY <1>3, <1>4 DEF Bytes

(* The first e bytes, by their places.                                      *)
LEMMA FirstBytes ==
  ASSUME NEW s \in Seq(StreamByte), NEW e \in Nat, e <= Len(s)
  PROVE  /\ SubSeq(s, 1, e) \in Seq(StreamByte) /\ Len(SubSeq(s, 1, e)) = e
         /\ Bytes(SubSeq(s, 1, e)) = {s[k] : k \in 1 .. e}
  <1>1. /\ SubSeq(s, 1, e) \in Seq(StreamByte)
        /\ Len(SubSeq(s, 1, e)) = e - 1 + 1
        /\ \A i \in 1 .. e - 1 + 1 : SubSeq(s, 1, e)[i] = s[1 + i - 1]
    <2>1. 1 \in Nat \ {0} /\ 1 <= e + 1
      OBVIOUS
    <2> QED
      BY <2>1, Part
  <1>2. e - 1 + 1 = e /\ \A i \in 1 .. e : 1 + i - 1 = i
    OBVIOUS
  <1>3. Len(SubSeq(s, 1, e)) = e /\ \A i \in 1 .. e : SubSeq(s, 1, e)[i] = s[i]
    BY <1>1, <1>2
  <1> QED
    BY <1>1, <1>3 DEF Bytes

(* What is left, by its places.                                             *)
LEMMA LeftIs ==
  ASSUME Typed
  PROVE  Left = {rx_buf[k] : k \in at + 1 .. Len(rx_buf)}
                \cup Bytes(rx_ring) \cup Bytes(fresh)
  <1>1. rx_buf \in Seq(StreamByte) /\ at \in Nat /\ at <= Len(rx_buf)
    BY DEF Typed, TypeOK
  <1>2. Bytes(Ahead) = {rx_buf[k] : k \in at + 1 .. Len(rx_buf)}
    BY <1>1, RestBytes DEF Ahead
  <1> QED
    BY <1>2 DEF Left

(* The same after a step.                                                   *)
LEMMA LeftNextIs ==
  ASSUME Typed', StreamByte' = StreamByte
  PROVE  Left' = {rx_buf'[k] : k \in at' + 1 .. Len(rx_buf')}
                 \cup Bytes(rx_ring') \cup Bytes(fresh')
  <1>1. rx_buf' \in Seq(StreamByte) /\ at' \in Nat /\ at' <= Len(rx_buf')
    BY DEF Typed, TypeOK
  <1>2. Bytes(Ahead)' = Bytes(SubSeq(rx_buf', at' + 1, Len(rx_buf')))
    BY DEF Bytes, Ahead
  <1>3. Bytes(SubSeq(rx_buf', at' + 1, Len(rx_buf')))
          = {rx_buf'[k] : k \in at' + 1 .. Len(rx_buf')}
    BY <1>1, RestBytes
  <1>4. Bytes(rx_ring)' = Bytes(rx_ring') /\ Bytes(fresh)' = Bytes(fresh')
    BY DEF Bytes
  <1> QED
    BY <1>2, <1>3, <1>4 DEF Left

(* The bytes a full ring drops are those it counts.                         *)
LEMMA RingPutLoses ==
  ASSUME Typed, RingPut(fresh)
  PROVE  \E d \in Nat : \E X :
           /\ IsFiniteSet(X) /\ Cardinality(X) <= d /\ overflowed' = overflowed + d
           /\ Bytes(rx_ring) \cup Bytes(fresh) \subseteq Bytes(rx_ring') \cup X
  <1> DEFINE room == RingSize - Len(rx_ring)
             kept == IF Len(fresh) <= room THEN Len(fresh) ELSE room
             part == SubSeq(fresh, 1, kept)
             X == {fresh[k] : k \in kept + 1 .. Len(fresh)}
             d == Len(fresh) - kept
  <1>0. /\ fresh \in Seq(StreamByte) /\ rx_ring \in Seq(StreamByte)
        /\ Len(fresh) \in Nat /\ Len(rx_ring) \in Nat /\ RingSize \in Nat
        /\ Len(rx_ring) <= RingSize /\ overflowed \in Nat
    BY RxAssumption DEF Typed, TypeOK
  <1>1. kept \in Nat /\ kept <= Len(fresh)
    BY <1>0
  <1>2. rx_ring' = rx_ring \o part /\ overflowed' = overflowed + Len(fresh) - kept
    BY DEF RingPut
  <1> HIDE DEF kept
  <1>3. /\ part \in Seq(StreamByte) /\ Bytes(part) = {fresh[k] : k \in 1 .. kept}
    BY <1>0, <1>1, FirstBytes
  <1>4. Bytes(fresh) \subseteq Bytes(part) \cup X
    <2>1. \A k \in 1 .. Len(fresh) : k \in 1 .. kept \/ k \in kept + 1 .. Len(fresh)
      BY <1>0, <1>1
    <2> QED
      BY <1>3, <2>1 DEF Bytes
  <1>5. d \in Nat /\ overflowed' = overflowed + d
    BY <1>0, <1>1, <1>2
  <1>6. IsFiniteSet(X) /\ Cardinality(X) <= d
    <2>1. /\ kept + 1 \in Int /\ Len(fresh) \in Int /\ kept + 1 <= Len(fresh) + 1
          /\ Len(fresh) - (kept + 1) + 1 = Len(fresh) - kept
      BY <1>0, <1>1
    <2> QED
      BY <2>1, FewBytes
  <1> HIDE DEF part, X, d
  <1>7. Bytes(rx_ring) \cup Bytes(part) \subseteq Bytes(rx_ring')
    BY <1>0, <1>2, <1>3, AllJoined
  <1>8. Bytes(rx_ring) \cup Bytes(fresh) \subseteq Bytes(rx_ring') \cup X
    BY <1>4, <1>7
  <1> QED
    BY <1>5, <1>6, <1>8

(* The bytes rx_buf has no room for are those it counts.                    *)
LEMMA ReaderGetLoses ==
  ASSUME Typed, RoomInv, ReaderGet
  PROVE  \E d \in Nat : \E X :
           /\ IsFiniteSet(X) /\ Cardinality(X) <= d /\ refused' = refused + d
           /\ Bytes(rx_buf) \cup Bytes(rx_ring)
                \subseteq Bytes(rx_buf') \cup Bytes(rx_ring') \cup X
  <1> DEFINE n    == IF Len(rx_ring) < Chunk THEN Len(rx_ring) ELSE Chunk
             room == BufSize - Len(rx_buf)
             take == IF n < room THEN n ELSE room
             got  == SubSeq(rx_ring, 1, take)
             rest == SubSeq(rx_ring, n + 1, Len(rx_ring))
             X == {rx_ring[k] : k \in take + 1 .. n}
             d == n - take
  <1>0. /\ rx_buf \in Seq(StreamByte) /\ rx_ring \in Seq(StreamByte)
        /\ Len(rx_buf) \in Nat /\ Len(rx_ring) \in Nat /\ BufSize \in Nat
        /\ Chunk \in Nat /\ refused \in Nat /\ Len(rx_buf) <= BufSize
    BY RxAssumption DEF Typed, TypeOK
  <1>1. /\ rx_buf' = rx_buf \o got /\ rx_ring' = rest
        /\ refused' = refused + n - take
    BY DEF ReaderGet
  <1>2. n \in Nat /\ n <= Len(rx_ring) /\ take \in Nat /\ take <= n
    BY <1>0
  <1> HIDE DEF n, take
  <1>3. take <= Len(rx_ring) /\ d \in Nat /\ refused' = refused + d
    BY <1>0, <1>1, <1>2
  <1>4. got \in Seq(StreamByte) /\ Bytes(got) = {rx_ring[k] : k \in 1 .. take}
    BY <1>0, <1>2, <1>3, FirstBytes
  <1>5. Bytes(rest) = {rx_ring[k] : k \in n + 1 .. Len(rx_ring)}
    BY <1>0, <1>2, RestBytes
  <1>6. Bytes(rx_ring) \subseteq Bytes(got) \cup Bytes(rest) \cup X
    <2>1. \A k \in 1 .. Len(rx_ring) :
            k \in 1 .. take \/ k \in take + 1 .. n \/ k \in n + 1 .. Len(rx_ring)
      BY <1>0, <1>2, <1>3
    <2> QED
      BY <1>4, <1>5, <2>1 DEF Bytes
  <1>7. IsFiniteSet(X) /\ Cardinality(X) <= d
    <2>1. take + 1 \in Int /\ n \in Int /\ take + 1 <= n + 1 /\ n - (take + 1) + 1 = n - take
      BY <1>2
    <2> QED
      BY <2>1, FewBytes
  <1> HIDE DEF got, rest, X, d
  <1>8. Bytes(rx_buf) \cup Bytes(got) \subseteq Bytes(rx_buf')
    BY <1>0, <1>1, <1>4, AllJoined
  <1>9. Bytes(rx_buf) \cup Bytes(rx_ring) \subseteq Bytes(rx_buf') \cup Bytes(rx_ring') \cup X
    BY <1>1, <1>6, <1>8
  <1> QED
    BY <1>3, <1>7, <1>9

(* Nothing is sent while tosend stays.                                      *)
LEMMA SendsNot ==
  ASSUME Typed, UNCHANGED tosend
  PROVE  ~(~HostDone /\ SendOn)
  <1>1. tosend \in [frame : 1 .. Len(stream) + 1, at : Nat \ {0}] /\ Len(stream) \in Nat
    BY DEF Typed
  <1> QED
    BY <1>1, NextByteSent DEF Before

(* What the line, the driver and the reader's getting lose is paid for.     *)
LEMMA LinePays ==
  ASSUME Typed, Typed', RoomInv, OrderInv, LossInv, WellFormed, UNCHANGED stream,
         \/ Arrive \/ Lose \/ Pause \/ BufferFull \/ RxDisabled \/ LineError
         \/ ReaderGet \/ PauseMissed \/ UNCHANGED vars
  PROVE  (Cardinality(Damaged \cap Done) + 2 * Cardinality(Missing) <= 2 * Losses)'
  <1> USE DEF dmaVars, lineVars, bufVars
  <1>0. StreamByte' = StreamByte
    BY DEF StreamByte
  <1>c. lost \in Nat /\ overflowed \in Nat /\ refused \in Nat /\ Losses \in Nat
    BY RxAssumption DEF Typed, TypeOK, Losses
  <1>l. Left = {rx_buf[k] : k \in at + 1 .. Len(rx_buf)} \cup Bytes(rx_ring) \cup Bytes(fresh)
    BY LeftIs
  <1>m. Left' = {rx_buf'[k] : k \in at' + 1 .. Len(rx_buf')}
                \cup Bytes(rx_ring') \cup Bytes(fresh')
    BY <1>0, LeftNextIs
  <1>e. Bytes(<<>>) = {} /\ IsFiniteSet({}) /\ Cardinality({}) = 0 /\ 0 \in Nat /\ 1 \in Nat
    BY FS_EmptySet DEF Bytes
  <1>1. CASE Arrive
    <2>1. /\ ~HostDone /\ SendOn /\ NextByte \in StreamByte
          /\ UNCHANGED <<rx_buf, at, rx_ring, dispatched, lost, overflowed, refused>>
          /\ fresh' = Append(fresh, NextByte)
      BY <1>1, NextByteSent DEF Arrive
    <2>2. fresh' = fresh \o <<NextByte>> /\ <<NextByte>> \in Seq(StreamByte)
          /\ Bytes(<<NextByte>>) = {NextByte} /\ fresh \in Seq(StreamByte)
      BY <2>1 DEF Typed, Bytes
    <2>3. Bytes(fresh') = Bytes(fresh) \cup {NextByte}
      BY <2>2, AllJoined, BytesJoined
    <2>4. Left' = Left \cup {NextByte}
      BY <1>l, <1>m, <2>1, <2>3
    <2>5. Losses' = Losses + 0
      BY <1>c, <2>1 DEF Losses
    <2> QED
      BY <1>c, <1>e, <2>1, <2>4, <2>5, LostPays
  <1>2. CASE Lose
    <2>1. /\ ~HostDone /\ SendOn
          /\ UNCHANGED <<rx_buf, at, rx_ring, fresh, dispatched, overflowed, refused>>
          /\ lost' = lost + 1
      BY <1>2 DEF Lose
    <2>2. Left' = Left
      BY <1>l, <1>m, <2>1
    <2>3. Losses' = Losses + 1
      BY <1>c, <2>1 DEF Losses
    <2>4. IsFiniteSet({NextByte}) /\ Cardinality({NextByte}) <= 1
      <3>1. IsFiniteSet({NextByte}) /\ Cardinality({NextByte}) = 1
        BY FS_Singleton
      <3> QED
        BY <3>1
    <2> QED
      BY <1>c, <1>e, <2>1, <2>2, <2>3, <2>4, LostPays
  <1>3. CASE (Pause \/ BufferFull \/ LineError) /\ RingPut(fresh) /\ UNCHANGED lost
    <2>1. /\ UNCHANGED <<rx_buf, at, tosend, dispatched, lost, refused>>
          /\ fresh' = <<>>
      BY <1>3 DEF Pause, BufferFull, LineError
    <2>p. PICK d \in Nat :
            \E X :
              /\ IsFiniteSet(X) /\ Cardinality(X) <= d /\ overflowed' = overflowed + d
              /\ Bytes(rx_ring) \cup Bytes(fresh) \subseteq Bytes(rx_ring') \cup X
      BY <1>3, RingPutLoses
    <2>2. PICK X :
            /\ IsFiniteSet(X) /\ Cardinality(X) <= d /\ overflowed' = overflowed + d
            /\ Bytes(rx_ring) \cup Bytes(fresh) \subseteq Bytes(rx_ring') \cup X
      BY <2>p
    <2>3. Bytes(rx_ring') \subseteq Bytes(rx_ring) \cup Bytes(fresh)
      BY <1>3, RingPutKeeps
    <2>4. Left' \subseteq Left /\ Left \subseteq Left' \cup X
      BY <1>e, <1>l, <1>m, <2>1, <2>2, <2>3
    <2>5. Losses' = Losses + d
      BY <1>c, <2>1, <2>2 DEF Losses
    <2>6. ~(~HostDone /\ SendOn)
      BY <2>1, SendsNot
    <2> QED
      BY <1>c, <2>1, <2>2, <2>4, <2>5, <2>6, LostPays
  <1>4. CASE LineError /\ lost' = lost + Len(fresh) /\ UNCHANGED <<rx_ring, overflowed>>
    <2>1. /\ UNCHANGED <<rx_buf, at, tosend, dispatched, rx_ring, overflowed, refused>>
          /\ fresh' = <<>>
      BY <1>4 DEF LineError
    <2>2. Len(fresh) \in Nat /\ Losses' = Losses + Len(fresh)
      <3>1. Len(fresh) \in Nat
        BY DEF Typed
      <3> QED
        BY <1>c, <1>4, <2>1, <3>1 DEF Losses
    <2>3. IsFiniteSet(Bytes(fresh)) /\ Cardinality(Bytes(fresh)) <= Len(fresh)
      <3>1. fresh \in Seq(StreamByte) /\ Sorted(fresh)
        BY DEF Typed, OrderInv
      <3> QED
        BY <2>2, <3>1, AllDifferent
    <2>4. Left' \subseteq Left /\ Left \subseteq Left' \cup Bytes(fresh)
      BY <1>e, <1>l, <1>m, <2>1
    <2>5. ~(~HostDone /\ SendOn)
      BY <2>1, SendsNot
    <2>6. UNCHANGED <<stream, dispatched>> /\ tosend' = tosend
      BY <2>1
    <2> QED
      BY <1>c, <2>2, <2>3, <2>4, <2>5, <2>6, LostPays
  <1>5. CASE RxDisabled \/ PauseMissed \/ UNCHANGED vars
    <2>1. UNCHANGED <<rx_buf, at, rx_ring, fresh, tosend, dispatched, lost,
                      overflowed, refused>>
      BY <1>5 DEF RxDisabled, PauseMissed, vars
    <2>2. Left' = Left /\ Losses' = Losses + 0
      BY <1>c, <1>l, <1>m, <2>1 DEF Losses
    <2>6. ~(~HostDone /\ SendOn)
      BY <2>1, SendsNot
    <2> QED
      BY <1>c, <1>e, <2>1, <2>2, <2>6, LostPays
  <1>6. CASE ReaderGet
    <2>1. /\ UNCHANGED <<at, fresh, tosend, dispatched, lost, overflowed>> /\ at = 0
      BY <1>6 DEF ReaderGet, RoomInv
    <2>p. PICK d \in Nat :
            \E X :
              /\ IsFiniteSet(X) /\ Cardinality(X) <= d /\ refused' = refused + d
              /\ Bytes(rx_buf) \cup Bytes(rx_ring)
                   \subseteq Bytes(rx_buf') \cup Bytes(rx_ring') \cup X
      BY <1>6, ReaderGetLoses
    <2>2. PICK X :
            /\ IsFiniteSet(X) /\ Cardinality(X) <= d /\ refused' = refused + d
            /\ Bytes(rx_buf) \cup Bytes(rx_ring)
                 \subseteq Bytes(rx_buf') \cup Bytes(rx_ring') \cup X
      BY <2>p
    <2>3. /\ Bytes(rx_ring') \subseteq Bytes(rx_ring)
          /\ Bytes(rx_buf') \subseteq Bytes(rx_buf) \cup Bytes(rx_ring)
      BY <1>6, ReaderGetKeeps
    <2>4. /\ Left = Bytes(rx_buf) \cup Bytes(rx_ring) \cup Bytes(fresh)
          /\ Left' = Bytes(rx_buf') \cup Bytes(rx_ring') \cup Bytes(fresh)
      <3>1. at + 1 = 1 /\ at' + 1 = 1
        BY <2>1
      <3> QED
        BY <1>l, <1>m, <2>1, <3>1 DEF Bytes
    <2>5. Left' \subseteq Left /\ Left \subseteq Left' \cup X
      BY <2>2, <2>3, <2>4
    <2>6. ~(~HostDone /\ SendOn)
      BY <2>1, SendsNot
    <2>7. Losses' = Losses + d
      BY <1>c, <2>1, <2>2 DEF Losses
    <2> QED
      BY <1>c, <2>1, <2>2, <2>5, <2>6, <2>7, LostPays
  <1>7. ASSUME Pause \/ BufferFull \/ LineError
        PROVE  \/ RingPut(fresh) /\ UNCHANGED lost
               \/ LineError /\ lost' = lost + Len(fresh) /\ UNCHANGED <<rx_ring, overflowed>>
    BY <1>7 DEF Pause, BufferFull, LineError
  <1> QED
    BY <1>1, <1>2, <1>3, <1>4, <1>5, <1>6, <1>7

(* A byte that everything left comes after: its frame has been begun.       *)
LEMMA Begun ==
  ASSUME Typed, UNCHANGED stream, NEW b \in StreamByte,
         \A c \in Left' \cup {tosend'} : Before(b, c),
         Left' \cup {tosend'} \subseteq [frame : Int, at : Int] \cup StreamByte
  PROVE  b.frame \in Done'
  <1>0. stream \in Seq(HostFrame) /\ b.frame \in 1 .. Len(stream) /\ b.at \in Nat \ {0}
    BY DEF Typed, StreamByte
  <1>1. ByteAt(b.frame, 1).frame = b.frame /\ ByteAt(b.frame, 1).at = 1
    BY <1>0, FrameIs
  <1>2. ByteAt(b.frame, 1)' = ByteAt(b.frame, 1)
    BY DEF ByteAt
  <1>3. ASSUME NEW c \in Left' \cup {tosend'} PROVE Before(ByteAt(b.frame, 1), c)
    <2>1. Before(b, c) /\ c.frame \in Int /\ c.at \in Int
      BY <1>3 DEF StreamByte
    <2> QED
      BY <1>0, <1>1, <2>1 DEF Before
  <1>4. Follows({ByteAt(b.frame, 1)}, Left' \cup {tosend'})
    BY <1>3 DEF Follows
  <1> QED
    BY <1>0, <1>4 DEF Done, Follows, ByteAt

(* Those e bytes, and what is left behind them.                             *)
LEMMA HeadIs ==
  ASSUME Typed, OrderInv, NEW e \in 1 .. Len(Ahead)
  PROVE  LET s == SubSeq(Ahead, 1, e) IN
         /\ s \in Seq(StreamByte) /\ Len(s) = e /\ Sorted(s)
         /\ \A k \in 1 .. e : s[k] = Ahead[k] /\ s[k].frame >= Ahead[1].frame
         /\ Ahead[1] \in StreamByte /\ Ahead[1] \in Left
         /\ Left = Bytes(s) \cup Behind(e)
         /\ Behind(e) \subseteq StreamByte
         /\ \A k \in 1 .. e : \A c \in Behind(e) \cup {tosend} : Before(s[k], c)
  <1> DEFINE s == SubSeq(Ahead, 1, e)
  <1>0. /\ Ahead \in Seq(StreamByte) /\ Sorted(Ahead) /\ Len(Ahead) = Len(rx_buf) - at
        /\ \A i \in 1 .. Len(rx_buf) - at : Ahead[i] = rx_buf[at + i]
    BY AheadIs
  <1>b. /\ rx_buf \in Seq(StreamByte) /\ at \in Nat /\ at <= Len(rx_buf)
        /\ rx_ring \in Seq(StreamByte) /\ fresh \in Seq(StreamByte)
        /\ Len(rx_buf) \in Nat
    BY DEF Typed, TypeOK
  <1>e. e \in Nat /\ e >= 1 /\ e <= Len(Ahead) /\ e <= Len(rx_buf) - at /\ Len(Ahead) \in Nat
    BY <1>0, <1>b
  <1>1. /\ s \in Seq(StreamByte) /\ Len(s) = e - 1 + 1 /\ Sorted(s)
        /\ \A i \in 1 .. e - 1 + 1 : s[i] = Ahead[1 + i - 1]
    <2>1. 1 \in Nat \ {0} /\ 1 <= e + 1
      BY <1>e
    <2> QED
      BY <1>0, <1>e, <2>1, Part, SortedPart
  <1>2. Len(s) = e /\ \A i \in 1 .. e : s[i] = Ahead[i]
    <2>1. e - 1 + 1 = e /\ \A i \in 1 .. e : 1 + i - 1 = i
      BY <1>e
    <2> QED
      BY <1>1, <2>1
  <1>3. Bytes(s) = {rx_buf[k] : k \in at + 1 .. at + e}
    <2>1. Bytes(s) = {Ahead[k] : k \in 1 .. e}
      BY <1>2 DEF Bytes
    <2>2. \A k \in 1 .. e : Ahead[k] = rx_buf[at + k] /\ at + k \in at + 1 .. at + e
      BY <1>0, <1>b, <1>e
    <2>3. \A k \in at + 1 .. at + e : k - at \in 1 .. e /\ at + (k - at) = k
      BY <1>b, <1>e
    <2>4. \A k \in at + 1 .. at + e : Ahead[k - at] = rx_buf[k]
      BY <2>2, <2>3
    <2> QED
      BY <2>1, <2>2, <2>3, <2>4
  <1> HIDE DEF s
  <1>4. Left = Bytes(s) \cup Behind(e)
    <2>1. Left = {rx_buf[k] : k \in at + 1 .. Len(rx_buf)} \cup Bytes(rx_ring) \cup Bytes(fresh)
      BY LeftIs
    <2>2. at + 1 .. Len(rx_buf) = (at + 1 .. at + e) \cup (at + e + 1 .. Len(rx_buf))
      BY <1>b, <1>e
    <2> QED
      BY <1>3, <2>1, <2>2 DEF Behind
  <1>5. Ahead[1] \in StreamByte /\ Ahead[1] \in Left
    <2>1. 1 \in 1 .. e /\ 1 \in 1 .. Len(Ahead)
      BY <1>e
    <2>2. Ahead[1] \in Bytes(s)
      BY <1>2, <2>1 DEF Bytes
    <2> QED
      BY <1>0, <1>4, <2>1, <2>2
  <1>6. ASSUME NEW k \in 1 .. e PROVE s[k] = Ahead[k] /\ s[k].frame >= Ahead[1].frame
    <2>1. k \in 1 .. Len(Ahead) /\ 1 \in 1 .. Len(Ahead) /\ (k = 1 \/ 1 < k)
      BY <1>e
    <2>2. Ahead[k] \in StreamByte
      BY <1>0, <2>1
    <2>3. Ahead[k].frame \in Int /\ Ahead[1].frame \in Int
      BY <1>5, <2>2 DEF StreamByte
    <2>4. k = 1 \/ Before(Ahead[1], Ahead[k])
      BY <1>0, <2>1 DEF Sorted
    <2> QED
      BY <1>2, <2>3, <2>4 DEF Before
  <1>7. ASSUME NEW k \in 1 .. e, NEW c \in Behind(e) \cup {tosend} PROVE Before(s[k], c)
    <2>1. at + k \in 1 .. Len(rx_buf) /\ s[k] = rx_buf[at + k]
      BY <1>0, <1>2, <1>b, <1>e
    <2>2. rx_buf[at + k] \in Bytes(rx_buf)
      BY <2>1 DEF Bytes
    <2>3. CASE c \in Bytes(rx_ring) \cup Bytes(fresh) \cup {tosend}
      BY <2>1, <2>2, <2>3 DEF OrderInv, Follows
    <2>4. CASE c \in {rx_buf[i] : i \in at + e + 1 .. Len(rx_buf)}
      <3>1. PICK i \in at + e + 1 .. Len(rx_buf) : c = rx_buf[i]
        BY <2>4
      <3>2. i \in 1 .. Len(rx_buf) /\ at + k < i
        BY <1>b, <1>e
      <3> QED
        BY <2>1, <3>1, <3>2 DEF OrderInv, Sorted
    <2> QED
      BY <2>3, <2>4 DEF Behind
  <1>8. Behind(e) \subseteq StreamByte
    <2>1. \A k \in at + e + 1 .. Len(rx_buf) : k \in 1 .. Len(rx_buf)
      BY <1>b, <1>e
    <2>2. \A k \in at + e + 1 .. Len(rx_buf) : rx_buf[k] \in StreamByte
      BY <1>b, <2>1
    <2> QED
      BY <1>b, <2>2, BytesTyped DEF Behind
  <1> QED
    BY <1>1, <1>2, <1>4, <1>5, <1>6, <1>7, <1>8 DEF s

(* The i-th byte of the frame that drain is at, when i bytes are before it, *)
(* has been sent; and is among them, or missing.                            *)
LEMMA FoundOrMissing ==
  ASSUME Typed, OrderInv, NEW e \in 1 .. Len(Ahead), NEW i \in 1 .. e,
         i <= Size(Ahead[1].frame)
  PROVE  LET b == ByteAt(Ahead[1].frame, i) IN
         b \in Sent /\ (b \in Left => b \in Bytes(SubSeq(Ahead, 1, e)))
  <1> DEFINE s == SubSeq(Ahead, 1, e)
             j == Ahead[1].frame
             b == ByteAt(j, i)
  <1>0. /\ s \in Seq(StreamByte) /\ Len(s) = e /\ Sorted(s)
        /\ \A k \in 1 .. e : s[k].frame >= j
        /\ Ahead[1] \in StreamByte
        /\ Left = Bytes(s) \cup Behind(e) /\ Behind(e) \subseteq StreamByte
        /\ \A k \in 1 .. e : \A c \in Behind(e) \cup {tosend} : Before(s[k], c)
    BY HeadIs
  <1> HIDE DEF s
  <1>t. /\ stream \in Seq(HostFrame) /\ j \in 1 .. Len(stream)
        /\ tosend \in [frame : 1 .. Len(stream) + 1, at : Nat \ {0}]
        /\ i \in Nat \ {0} /\ e \in Nat /\ Len(stream) \in Nat
    <2>1. /\ stream \in Seq(HostFrame) /\ Len(stream) \in Nat
          /\ tosend \in [frame : 1 .. Len(stream) + 1, at : Nat \ {0}]
      BY DEF Typed
    <2>2. j \in 1 .. Len(stream)
      BY <1>0 DEF StreamByte
    <2>3. e \in Nat
      BY <1>0
    <2>4. i \in Nat \ {0}
      BY <2>3
    <2> QED
      BY <2>1, <2>2, <2>3, <2>4
  <1>1. b \in StreamByte /\ b.frame = j /\ b.at = i
    BY <1>t, FrameIs
  <1> HIDE DEF b, j
  <1>2. ~(\A k \in 1 .. Len(s) : Before(s[k], b))
    <2>1. SUFFICES ASSUME \A k \in 1 .. Len(s) : Before(s[k], b) PROVE FALSE
      OBVIOUS
    <2>2. Len(s) < i
      BY <1>0, <1>t, <2>1, Crowd DEF b
    <2> QED
      BY <1>0, <1>t, <2>2
  <1>3. Before(b, tosend)
    <2>1. SUFFICES ASSUME ~Before(b, tosend), NEW k \in 1 .. Len(s)
                   PROVE  Before(s[k], b)
      BY <1>2
    <2>2. s[k] \in StreamByte /\ Before(s[k], tosend)
      BY <1>0
    <2>3. s[k].frame \in Int /\ s[k].at \in Int /\ b.frame \in Int /\ b.at \in Int
          /\ tosend.frame \in Int /\ tosend.at \in Int
      BY <1>1, <1>t, <2>2 DEF StreamByte
    <2> QED
      BY <2>1, <2>2, <2>3 DEF Before
  <1>4. b \in Sent
    BY <1>1, <1>3 DEF Sent, j
  <1>5. b \notin Behind(e)
    BY <1>0, <1>2
  <1> QED
    BY <1>0, <1>4, <1>5 DEF b, j, s

(* What drain's going e bytes further leaves, and what it brings it past.   *)
LEMMA PassedOn ==
  ASSUME Typed, Typed', OrderInv, UNCHANGED <<stream, tosend, rx_buf, rx_ring, fresh>>,
         NEW e \in 1 .. Len(Ahead), at' = at + e
  PROVE  /\ Left' = Behind(e) /\ Done \subseteq Done' /\ Missing' \subseteq Missing
         /\ \A k \in 1 .. e : Ahead[k].frame \in Done'
         /\ \A f \in Done' : f \notin Done =>
              /\ f \in 1 .. Len(stream)
              /\ ByteAt(f, 1) \in Missing \cup Bytes(SubSeq(Ahead, 1, e))
  <1> DEFINE s == SubSeq(Ahead, 1, e)
  <1>0. /\ s \in Seq(StreamByte) /\ Len(s) = e /\ \A k \in 1 .. e : s[k] = Ahead[k]
        /\ Left = Bytes(s) \cup Behind(e) /\ Behind(e) \subseteq StreamByte
        /\ \A k \in 1 .. e : \A c \in Behind(e) \cup {tosend} : Before(s[k], c)
    BY HeadIs
  <1> HIDE DEF s
  <1>s. /\ StreamByte' = StreamByte
        /\ \A b : (b.at <= Size(b.frame))' = (b.at <= Size(b.frame))
    BY DEF StreamByte, Size
  <1>1. Left' = Behind(e)
    <2>1. Left' = {rx_buf'[k] : k \in at' + 1 .. Len(rx_buf')}
                  \cup Bytes(rx_ring') \cup Bytes(fresh')
      BY <1>s, LeftNextIs
    <2> QED
      BY <2>1 DEF Behind
  <1>t. tosend \in [frame : Int, at : Int]
    BY DEF Typed
  <1>2. \A k \in 1 .. e : s[k].frame \in Done'
    <2> SUFFICES ASSUME NEW k \in 1 .. e PROVE s[k].frame \in Done'
      OBVIOUS
    <2>1. s[k] \in StreamByte /\ \A c \in Left' \cup {tosend'} : Before(s[k], c)
      BY <1>0, <1>1
    <2>2. Left' \cup {tosend'} \subseteq [frame : Int, at : Int] \cup StreamByte
      BY <1>0, <1>1, <1>t
    <2> QED
      BY <2>1, <2>2, Begun
  <1>3. ~(~HostDone /\ SendOn) /\ \A b \in Left' : b \in Left
    BY <1>0, <1>1, SendsNot
  <1>4. /\ Done \subseteq Done'
        /\ \A f \in Done' : ByteAt(f, 1) \in Sent' /\ ByteAt(f, 1) \notin Left'
    BY <1>3, GoesOn
  <1>5. Sent' = Sent
    BY <1>s DEF Sent, Before
  <1>6. ASSUME NEW b \in Missing' PROVE b \in Missing
    <2>1. b \in Sent /\ b.frame \notin Done' /\ b \notin Left'
      BY <1>5 DEF Missing
    <2>2. b \notin Bytes(s)
      BY <1>0, <1>2, <2>1 DEF Bytes
    <2> QED
      BY <1>0, <1>1, <1>4, <2>1, <2>2 DEF Missing
  <1>7. ASSUME NEW f \in Done', f \notin Done
        PROVE  f \in 1 .. Len(stream) /\ ByteAt(f, 1) \in Missing \cup Bytes(s)
    <2>1. f \in 1 .. Len(stream)
      BY DEF Done
    <2>2. ByteAt(f, 1).frame = f
      BY <2>1, FrameIs DEF Typed
    <2> QED
      BY <1>0, <1>1, <1>4, <1>5, <1>7, <2>1, <2>2 DEF Missing
  <1> QED
    BY <1>0, <1>1, <1>2, <1>4, <1>6, <1>7 DEF s

(* Where no header is, a byte of it is missing.                             *)
LEMMA NoHeader ==
  ASSUME Typed, OrderInv, WellFormed, Len(Ahead) >= HeaderLen, ~HeaderHere \/ Oversize,
         Ahead[1].frame \notin Done
  PROVE  \E i \in 1 .. HeaderLen : ByteAt(Ahead[1].frame, i) \in Missing
  <1> DEFINE j == Ahead[1].frame
             e == Len(Ahead)
             s == SubSeq(Ahead, 1, e)
  <1>1. e \in Nat /\ HeaderLen \in Nat \ {0} /\ e \in 1 .. e /\ HeaderLen <= e
    BY AheadIs, RxAssumption
  <1>2. /\ s \in Seq(StreamByte) /\ Len(s) = e /\ Sorted(s)
        /\ \A k \in 1 .. e : s[k] = Ahead[k] /\ s[k].frame >= j
        /\ Ahead[1] \in StreamByte
    BY <1>1, HeadIs
  <1>3. stream \in Seq(HostFrame) /\ j \in 1 .. Len(stream) /\ Ahead[1].len = stream[j].len
    BY <1>2 DEF Typed, StreamByte
  <1>4. SUFFICES ASSUME \A i \in 1 .. HeaderLen : ByteAt(j, i) \notin Missing
                 PROVE  FALSE
    OBVIOUS
  <1>5. ASSUME NEW i \in 1 .. HeaderLen PROVE ByteAt(j, i) \in Bytes(s)
    <2>1. Size(j) >= HeaderLen /\ Size(j) \in Nat
      BY <1>3, FrameIs
    <2>2. i \in 1 .. e /\ i <= Size(j) /\ i \in Nat \ {0}
      BY <1>1, <2>1
    <2>3. ByteAt(j, i) \in Sent /\ (ByteAt(j, i) \in Left => ByteAt(j, i) \in Bytes(s))
      BY <1>1, <2>2, FoundOrMissing
    <2>4. ByteAt(j, i).frame = j
      BY <1>3, <2>2, FrameIs
    <2> QED
      BY <1>4, <2>3, <2>4 DEF Missing
  <1> HIDE DEF s, e
  <1>6. \A k \in 1 .. HeaderLen : s[k] = ByteAt(j, k)
    BY <1>1, <1>2, <1>3, <1>5, InARow
  <1>7. \A k \in 1 .. HeaderLen : Ahead[k] = ByteAt(j, k) /\ k \in Nat \ {0}
    BY <1>1, <1>2, <1>6
  <1>8. HeaderHere
    BY <1>3, <1>7, FrameIs DEF HeaderHere
  <1>9. ~Oversize
    <2>1. stream[j].len <= MaxPayload
      BY <1>3 DEF WellFormed
    <2>2. stream[j].len \in Nat /\ MaxPayload \in Nat
      <3>1. stream[j] \in HostFrame
        BY <1>3
      <3> QED
        BY <3>1, RxAssumption DEF HostFrame
    <2> QED
      BY <1>3, <2>1, <2>2 DEF Oversize
  <1> QED
    BY <1>8, <1>9

(* So skipping a byte is paid for.                                          *)
LEMMA SkipPays ==
  ASSUME Typed, Typed', OrderInv, LossInv, WellFormed, DrainSkip
  PROVE  (Cardinality(Damaged \cap Done) + 2 * Cardinality(Missing) <= 2 * Losses)'
  <1>0. /\ UNCHANGED <<stream, tosend, rx_buf, rx_ring, fresh, dispatched>>
        /\ UNCHANGED <<lost, overflowed, refused>> /\ at' = at + 1
        /\ Len(Ahead) >= HeaderLen /\ (~HeaderHere \/ Oversize)
    BY DEF DrainSkip, Advance, dmaVars, lineVars
  <1>1. 1 \in 1 .. Len(Ahead) /\ 1 \in 1 .. 1
    BY <1>0, AheadIs, RxAssumption
  <1>2. /\ Done \subseteq Done' /\ Missing' \subseteq Missing
        /\ \A f \in Done' : f \notin Done =>
             /\ f \in 1 .. Len(stream)
             /\ ByteAt(f, 1) \in Missing \cup Bytes(SubSeq(Ahead, 1, 1))
    BY <1>0, <1>1, PassedOn
  <1>3. ASSUME NEW f \in Done', f \notin Done PROVE \E b \in Missing : b.frame = f
    <2>1. f \in 1 .. Len(stream) /\ stream \in Seq(HostFrame)
      BY <1>2, <1>3 DEF Typed
    <2>2. \A i \in Nat \ {0} : ByteAt(f, i).frame = f
      BY <2>1, FrameIs
    <2>3. CASE ByteAt(f, 1) \in Missing
      BY <2>2, <2>3
    <2>4. CASE ByteAt(f, 1) \in Bytes(SubSeq(Ahead, 1, 1))
      <3>1. Len(SubSeq(Ahead, 1, 1)) = 1 /\ SubSeq(Ahead, 1, 1)[1] = Ahead[1]
        BY <1>1, HeadIs
      <3>2. Ahead[1] = ByteAt(f, 1)
        BY <2>4, <3>1 DEF Bytes
      <3>3. Ahead[1].frame = f
        BY <2>2, <3>2
      <3>4. \E i \in 1 .. HeaderLen : ByteAt(f, i) \in Missing
        BY <1>0, <1>3, <3>3, NoHeader
      <3>5. \A i \in 1 .. HeaderLen : i \in Nat \ {0}
        BY RxAssumption
      <3> QED
        BY <2>2, <3>4, <3>5
    <2> QED
      BY <1>2, <1>3, <2>3, <2>4
  <1>4. IsFiniteSet(Missing) /\ Cardinality(Missing) \in Nat /\ 0 \in Nat
    <2>1. IsFiniteSet(Missing)
      BY SentFinite DEF Typed
    <2> QED
      BY <2>1, FS_CardinalityType
  <1>5. Losses \in Nat /\ Losses' = Losses + 0
    BY <1>0, RxAssumption DEF Typed, TypeOK, Losses
  <1>6. Cardinality(Missing) <= Cardinality(Missing) + 0
    BY <1>4
  <1>7. UNCHANGED <<stream, dispatched>>
    BY <1>0
  <1>8. \A f \in Done' \ Done : \E b \in Missing : b.frame = f
    BY <1>3
  <1> QED
    BY <1>2, <1>4, <1>5, <1>6, <1>7, <1>8, Paid

(* A turn of drain ends with nothing dropped, when every frame fits rx_buf. *)
LEMMA StopKeepsAll ==
  ASSUME Typed, Typed', OrderInv, WellFormed, DrainStop
  PROVE  rx_buf' = Ahead /\ at' = 0 /\ Ahead' = Ahead /\ Left' = Left /\ Waits /\ Waits'
  <1>0. /\ HeaderLen \in Nat \ {0} /\ BufSize \in Nat /\ HeaderLen < BufSize
    BY RxAssumption
  <1>1. Ahead \in Seq(StreamByte) /\ Len(Ahead) \in Nat
    BY AheadIs
  <1>2. Waits /\ rx_buf' = Unwedge(Ahead) /\ at' = 0 /\ UNCHANGED <<rx_ring, fresh, stream>>
    BY DEF DrainStop, Waits, Kept, lineVars, dmaVars
  <1>3. Len(Ahead) < BufSize
    <2>1. CASE Len(Ahead) < HeaderLen
      BY <1>0, <1>1, <2>1
    <2>2. CASE Len(Ahead) >= HeaderLen /\ Len(Ahead) < FrameLen
      <3>1. Ahead[1] \in StreamByte
        BY <2>2, FrameLenIs
      <3>2. /\ Ahead[1].frame \in 1 .. Len(stream)
            /\ Ahead[1].len = stream[Ahead[1].frame].len /\ Ahead[1].len \in Nat
        BY <3>1 DEF StreamByte
      <3>3. HeaderLen + Ahead[1].len <= BufSize
        BY <3>2 DEF WellFormed
      <3> QED
        BY <1>0, <1>1, <2>2, <3>2, <3>3 DEF FrameLen
    <2> QED
      BY <1>2, <2>1, <2>2 DEF Waits
  <1>4. rx_buf' = Ahead
    BY <1>0, <1>1, <1>2, <1>3 DEF Unwedge
  <1>5. Ahead' = Ahead
    <2>1. Ahead' = SubSeq(Ahead, 0 + 1, Len(Ahead))
      BY <1>2, <1>4 DEF Ahead
    <2> QED
      BY <1>1, <2>1
  <1>6. Left' = Left
    BY <1>2, <1>5 DEF Left, Bytes
  <1>7. Waits'
    BY <1>2, <1>5 DEF Waits, HeaderHere, Oversize, FrameLen
  <1> QED
    BY <1>2, <1>4, <1>5, <1>6, <1>7

(* So a turn's end costs nothing.                                           *)
LEMMA StopPays ==
  ASSUME Typed, Typed', OrderInv, LossInv, WellFormed, DrainStop
  PROVE  (Cardinality(Damaged \cap Done) + 2 * Cardinality(Missing) <= 2 * Losses)'
  <1>0. /\ UNCHANGED <<stream, tosend, dispatched>>
        /\ UNCHANGED <<lost, overflowed, refused>>
    BY DEF DrainStop, dmaVars, lineVars
  <1>1. Left' = Left
    BY StopKeepsAll
  <1>2. ~(~HostDone /\ SendOn)
    BY <1>0, SendsNot
  <1>3. Losses \in Nat /\ Losses' = Losses + 0
    BY <1>0, RxAssumption DEF Typed, TypeOK, Losses
  <1>4. IsFiniteSet({}) /\ Cardinality({}) <= 0 /\ 0 \in Nat
    <2>1. IsFiniteSet({}) /\ Cardinality({}) = 0
      BY FS_EmptySet
    <2> QED
      BY <2>1
  <1> QED
    BY <1>0, <1>1, <1>2, <1>3, <1>4, LostPays

(* The reader goes back to the ring only when it can do no more.            *)
LEMMA WaitsNext ==
  ASSUME Typed, Typed', RoomInv, OrderInv, LossInv, WellFormed, [Next]_vars,
         reader' = "get"
  PROVE  Waits'
  <1> USE DEF dmaVars, lineVars, bufVars
  <1>1. CASE DrainStop
    BY <1>1, StopKeepsAll
  <1>2. CASE ReaderGet \/ DrainSkip \/ DrainDispatch
    <2>1. reader' = "drain"
      BY <1>2 DEF ReaderGet, DrainSkip, DrainDispatch
    <2> QED
      BY <2>1
  <1>3. CASE \/ Arrive \/ Lose \/ Pause \/ BufferFull \/ RxDisabled \/ LineError
             \/ PauseMissed \/ UNCHANGED vars
    <2>1. UNCHANGED <<stream, rx_buf, at, reader>>
      BY <1>3 DEF Arrive, Lose, Pause, PauseMissed, BufferFull, RxDisabled, LineError, vars
    <2>2. Waits
      BY <2>1 DEF LossInv
    <2>3. Ahead' = Ahead
      BY <2>1 DEF Ahead
    <2> QED
      BY <2>2, <2>3 DEF Waits, HeaderHere, Oversize, FrameLen
  <1> QED
    BY <1>1, <1>2, <1>3 DEF Next, Driver, ReaderStep

(* A set with a part of it, the part of P that is not in E, taken for the   *)
(* part of E that is not in P.                                              *)
LEMMA Swap ==
  ASSUME NEW M, IsFiniteSet(M), NEW P, IsFiniteSet(P), NEW E, IsFiniteSet(E),
         P \ E \subseteq M
  PROVE  /\ IsFiniteSet((M \ (P \ E)) \cup (E \ P))
         /\ Cardinality((M \ (P \ E)) \cup (E \ P))
              <= Cardinality(M) - Cardinality(P) + Cardinality(E)
  <1>1. /\ IsFiniteSet(P \ E) /\ Cardinality(P \ E) = Cardinality(P) - Cardinality(P \cap E)
        /\ IsFiniteSet(E \ P) /\ Cardinality(E \ P) = Cardinality(E) - Cardinality(E \cap P)
        /\ IsFiniteSet(M \ (P \ E))
        /\ Cardinality(M \ (P \ E)) = Cardinality(M) - Cardinality(M \cap (P \ E))
    BY FS_Difference
  <1>2. M \cap (P \ E) = P \ E /\ E \cap P = P \cap E
    OBVIOUS
  <1>3. /\ Cardinality(M) \in Nat /\ Cardinality(P) \in Nat /\ Cardinality(E) \in Nat
        /\ Cardinality(P \ E) \in Nat /\ Cardinality(E \ P) \in Nat
    BY <1>1, FS_CardinalityType
  <1>4. IsFiniteSet(P \cap E) /\ Cardinality(P \cap E) \in Nat
    BY FS_Intersection, FS_CardinalityType
  <1> DEFINE A == M \ (P \ E)
             B == E \ P
  <1>5. /\ IsFiniteSet(A \cup B)
        /\ Cardinality(A \cup B) <= Cardinality(A) + Cardinality(B)
    BY <1>1, Together
  <1>6. Cardinality(A) = Cardinality(M) - Cardinality(P \ E)
    BY <1>1, <1>2
  <1>7. Cardinality(A) + Cardinality(B) = Cardinality(M) - Cardinality(P) + Cardinality(E)
    <2>1. Cardinality(B) = Cardinality(E) - Cardinality(P \cap E)
      BY <1>1, <1>2
    <2>2. Cardinality(P \ E) = Cardinality(P) - Cardinality(P \cap E)
      BY <1>1
    <2> HIDE DEF A, B
    <2> QED
      BY <1>3, <1>4, <1>6, <2>1, <2>2
  <1> QED
    BY <1>5, <1>7

(* Where a whole frame's bytes are, or are looked for: those that are not   *)
(* among the first e are missing.                                           *)
LEMMA RestMissing ==
  ASSUME Typed, OrderInv, NEW e \in 1 .. Len(Ahead), Ahead[1].frame \notin Done,
         NEW b \in FrameSet(Ahead[1].frame), b.at <= e
  PROVE  b \in Missing \cup Bytes(SubSeq(Ahead, 1, e))
  <1> DEFINE j == Ahead[1].frame
  <1>1. stream \in Seq(HostFrame) /\ j \in 1 .. Len(stream)
    <2>1. Ahead[1] \in StreamByte
      BY HeadIs
    <2> QED
      BY <2>1 DEF Typed, StreamByte
  <1>2. b \in StreamByte /\ b.frame = j /\ b.at <= Size(j) /\ b.at \in Nat \ {0}
    <2>1. b \in StreamByte /\ b.frame = j /\ b.at <= Size(j)
      BY <1>1, FrameSetIs
    <2> QED
      BY <2>1 DEF StreamByte
  <1>3. b = ByteAt(j, b.at)
    BY <1>1, <1>2, FrameIs
  <1>4. b.at \in 1 .. e
    <2>1. Ahead \in Seq(StreamByte)
      BY AheadIs
    <2>2. e \in Nat
      BY <2>1
    <2> QED
      BY <1>2, <2>2
  <1>5. b \in Sent /\ (b \in Left => b \in Bytes(SubSeq(Ahead, 1, e)))
    BY <1>2, <1>3, <1>4, FoundOrMissing
  <1> QED
    BY <1>2, <1>5 DEF Missing

(* A frame all of whose bytes are found is handled as it was sent.          *)
LEMMA WholeFrame ==
  ASSUME stream \in Seq(HostFrame), NEW f \in 1 .. Len(stream),
         NEW s \in Seq(StreamByte), Sorted(s), Len(s) = Size(f),
         \A k \in 1 .. Len(s) : s[k].frame >= f,
         FrameSet(f) \subseteq Bytes(s)
  PROVE  s = FrameBytes(f, stream[f])
  <1>1. Size(f) \in Nat
    BY FrameIs
  <1>2. \A i \in 1 .. Size(f) : ByteAt(f, i) \in Bytes(s)
    BY DEF FrameSet
  <1>3. \A k \in 1 .. Size(f) : s[k] = ByteAt(f, k)
    BY <1>1, <1>2, InARow
  <1>4. s = [k \in 1 .. Size(f) |-> s[k]]
    OBVIOUS
  <1>5. FrameBytes(f, stream[f]) = [k \in 1 .. Size(f) |-> ByteAt(f, k)]
    BY DEF FrameBytes, Size, ByteAt
  <1> QED
    BY <1>3, <1>4, <1>5

(* Handling a frame is paid for: a missing byte of it has been paid twice,  *)
(* and of every other frame it takes a byte of, it has taken as many of     *)
(* these as are missing.                                                    *)
LEMMA DispatchPays ==
  ASSUME Typed, Typed', OrderInv, HandledInv, LossInv, WellFormed, DrainDispatch
  PROVE  (Cardinality(Damaged \cap Done) + 2 * Cardinality(Missing) <= 2 * Losses)'
  <1> DEFINE e == FrameLen
             j == Ahead[1].frame
             s == SubSeq(Ahead, 1, e)
             P == FrameSet(j)
             E == Bytes(s)
             W == (Missing \ (P \ E)) \cup (E \ P)
             N == (Done' \ Done) \ {j}
             J == IF P \subseteq E THEN {} ELSE {j}
  <1>0. /\ UNCHANGED <<stream, tosend, rx_buf, rx_ring, fresh, lost, overflowed, refused>>
        /\ dispatched' = Append(dispatched, s) /\ at' = at + e
        /\ Len(Ahead) >= HeaderLen /\ HeaderHere /\ Len(Ahead) >= e
    BY DEF DrainDispatch, dmaVars, lineVars
  <1>1. /\ Ahead[1] \in StreamByte /\ e \in Nat /\ e >= HeaderLen
        /\ HeaderLen \in Nat \ {0} /\ Len(Ahead) \in Nat
    BY <1>0, FrameLenIs, AheadIs, RxAssumption
  <1>2. e \in 1 .. Len(Ahead) /\ 1 \in 1 .. e /\ 1 \in 1 .. HeaderLen
    BY <1>0, <1>1
  <1>3. /\ stream \in Seq(HostFrame) /\ j \in 1 .. Len(stream)
        /\ Ahead[1].len = stream[j].len /\ Ahead[1].at = 1
    BY <1>0, <1>1, <1>2 DEF Typed, StreamByte, HeaderHere
  <1>4. Size(j) = e
    BY <1>3 DEF WellFormed, Size, FrameLen
  <1>5. /\ s \in Seq(StreamByte) /\ Len(s) = e /\ Sorted(s)
        /\ \A k \in 1 .. e : s[k] = Ahead[k] /\ s[k].frame >= j
        /\ Ahead[1] \in Left
    BY <1>2, HeadIs
  <1>6. /\ Done \subseteq Done' /\ Missing' \subseteq Missing
        /\ \A k \in 1 .. e : Ahead[k].frame \in Done'
        /\ \A f \in Done' : f \notin Done =>
             f \in 1 .. Len(stream) /\ ByteAt(f, 1) \in Missing \cup E
    BY <1>0, <1>2, PassedOn
  <1>7. j \notin Done
    <2>1. Ahead[1] = ByteAt(j, 1)
      BY <1>1, <1>3, FrameIs
    <2>2. ~Before(Ahead[1], Ahead[1])
      BY <1>1 DEF Before, StreamByte
    <2> QED
      BY <1>5, <2>1, <2>2 DEF Done, Follows
  <1>8. /\ IsFiniteSet(P) /\ Cardinality(P) = e
        /\ P = {b \in StreamByte : b.frame = j /\ b.at <= Size(j)}
    BY <1>3, <1>4, FrameSetIs
  <1>9. P \ E \subseteq Missing
    <2>1. ASSUME NEW b \in P PROVE b \in Missing \cup E
      <3>1. b.at <= e
        BY <1>4, <1>8
      <3> QED
        BY <1>2, <1>7, <3>1, RestMissing
    <2> QED
      BY <2>1
  <1>10. IsFiniteSet(E) /\ Cardinality(E) = e /\ IsFiniteSet(Missing)
    BY <1>3, <1>5, AllDifferent, SentFinite
  \* In what is missing, the bytes of others taken stand for the frame's own.
  <1>11. /\ IsFiniteSet(W) /\ IsFiniteSet(Missing \ (P \ E))
         /\ Cardinality(W) <= Cardinality(Missing) - Cardinality(P) + Cardinality(E)
         /\ Cardinality(Missing \ (P \ E)) = Cardinality(Missing) - Cardinality(P \ E)
         /\ Cardinality(P \ E) \in Nat
         /\ Cardinality(P \ E) = 0 => P \subseteq E
    <2> HIDE DEF P, E
    <2>1. IsFiniteSet(Missing) /\ IsFiniteSet(P) /\ IsFiniteSet(E) /\ P \ E \subseteq Missing
      BY <1>8, <1>9, <1>10
    <2>2. /\ IsFiniteSet(W)
          /\ Cardinality(W) <= Cardinality(Missing) - Cardinality(P) + Cardinality(E)
      BY <2>1, Swap
    <2> DEFINE G == P \ E
    <2>3. IsFiniteSet(G) /\ (Cardinality(G) = 0 => G = {}) /\ Cardinality(G) \in Nat
      BY <2>1, FS_Difference, FS_EmptySet, FS_CardinalityType
    <2>4. G \subseteq Missing /\ Missing \cap G = G
      BY <2>1
    <2> HIDE DEF G
    <2>5. /\ IsFiniteSet(Missing \ G)
          /\ Cardinality(Missing \ G) = Cardinality(Missing) - Cardinality(G)
      BY <2>1, <2>4, FS_Difference
    <2> QED
      BY <2>2, <2>3, <2>5 DEF G
  <1>12. Missing' \subseteq Missing \ (P \ E) /\ \A b \in Missing' : b.frame \notin N
    <2>1. \A b \in Missing' : b.frame \notin Done'
      BY DEF Missing
    <2>2. j \in Done'
      BY <1>2, <1>6
    <2> QED
      BY <1>6, <1>8, <2>1, <2>2
  <1>13. ASSUME NEW f \in N PROVE \E b \in W : b.frame = f
    <2>1. f \in 1 .. Len(stream) /\ ByteAt(f, 1) \in Missing \cup E /\ f # j
      BY <1>6, <1>13
    <2>2. ByteAt(f, 1).frame = f
      BY <1>3, <2>1, FrameIs
    <2>3. ByteAt(f, 1) \notin P
      BY <1>8, <2>1, <2>2
    <2> QED
      BY <2>1, <2>2, <2>3
  <1>14. IsFiniteSet(N) /\ IsFiniteSet(Damaged \cap Done) /\ IsFiniteSet(J)
    <2>1. IsFiniteSet(1 .. Len(stream))
      BY FS_Interval
    <2>2. /\ N \in SUBSET (1 .. Len(stream)) /\ Damaged \cap Done \in SUBSET (1 .. Len(stream))
          /\ J \in SUBSET (1 .. Len(stream))
      BY <1>3, <1>6 DEF Done
    <2> QED
      BY <2>1, <2>2, FS_Subset
  <1>15. \A f \in Damaged' : f \in Damaged /\ (P \subseteq E => f # j)
    <2>1. /\ dispatched \in Seq(Seq(StreamByte)) /\ Len(dispatched) \in Nat
      BY DEF HandledInv
    <2>2. /\ Len(dispatched') = Len(dispatched) + 1
          /\ \A i \in 1 .. Len(dispatched) : dispatched'[i] = dispatched[i]
          /\ dispatched'[Len(dispatched) + 1] = s
      BY <1>0, <1>5, <2>1
    <2>3. /\ \A i \in 1 .. Len(dispatched) : i \in 1 .. Len(dispatched')
          /\ Len(dispatched) + 1 \in 1 .. Len(dispatched')
      BY <2>1, <2>2
    <2>4. ASSUME NEW f \in Damaged' PROVE f \in Damaged
      <3>1. f \in 1 .. Len(stream)
            /\ \A k \in 1 .. Len(dispatched') : dispatched'[k] # FrameBytes(f, stream[f])
        BY <1>0, <2>4 DEF Damaged, Intact, FrameBytes, Token
      <3> QED
        BY <2>2, <2>3, <3>1 DEF Damaged, Intact
    <2>5. ASSUME P \subseteq E PROVE j \notin Damaged'
      <3>1. s = FrameBytes(j, stream[j])
        BY <1>3, <1>4, <1>5, <2>5, WholeFrame
      <3>2. \E k \in 1 .. Len(dispatched') : dispatched'[k] = FrameBytes(j, stream[j])
        BY <2>2, <2>3, <3>1
      <3> QED
        BY <1>0, <3>2 DEF Damaged, Intact, FrameBytes, Token
    <2> QED
      BY <2>4, <2>5
  <1>16. Damaged' \cap Done' \subseteq ((Damaged \cap Done) \cup N) \cup J
    BY <1>15
  <1>17. /\ Cardinality(J) \in Nat /\ Cardinality(J) <= Cardinality(P \ E)
    <2>1. Cardinality({}) = 0 /\ Cardinality({j}) = 1
      BY FS_EmptySet, FS_Singleton
    <2>2. CASE P \subseteq E
      BY <1>11, <2>1, <2>2
    <2>3. CASE ~(P \subseteq E)
      <3>1. Cardinality(P \ E) # 0
        BY <1>11, <2>3
      <3>2. Cardinality(J) = 1
        BY <2>1, <2>3
      <3> QED
        BY <1>11, <3>1, <3>2
    <2> QED
      BY <2>2, <2>3
  <1> HIDE DEF e, j, s, P, E, W, N, J
  <1>18. /\ Cardinality(Missing') + Cardinality(N) <= Cardinality(W)
         /\ Cardinality(Missing') \in Nat /\ Cardinality(N) \in Nat
         /\ Cardinality(W) \in Nat
    <2>1. Missing' \subseteq W
      BY <1>12 DEF W
    <2> QED
      BY <1>11, <1>12, <1>13, <1>14, <2>1, Pays
  <1>19. Cardinality(Missing') <= Cardinality(Missing \ (P \ E))
    <2>1. Missing' \in SUBSET (Missing \ (P \ E))
      BY <1>12
    <2> QED
      BY <1>11, <2>1, FS_Subset
  <1>20. /\ IsFiniteSet((Damaged \cap Done) \cup N)
         /\ Cardinality((Damaged \cap Done) \cup N)
              <= Cardinality(Damaged \cap Done) + Cardinality(N)
         /\ Cardinality(Damaged \cap Done) \in Nat
         /\ Cardinality((Damaged \cap Done) \cup N) \in Nat
    BY <1>14, Together
  <1>21. /\ Cardinality(Damaged' \cap Done')
              <= Cardinality((Damaged \cap Done) \cup N) + Cardinality(J)
         /\ Cardinality(Damaged' \cap Done') \in Nat
    BY <1>14, <1>16, <1>20, Together
  <1>22. /\ Cardinality(Damaged \cap Done) + 2 * Cardinality(Missing) <= 2 * Losses
         /\ Losses \in Nat /\ Losses' = Losses /\ Cardinality(Missing) \in Nat
    BY <1>0, <1>10, FS_CardinalityType, RxAssumption DEF LossInv, Losses, Typed, TypeOK
  <1>23. Cardinality(W) <= Cardinality(Missing)
    BY <1>1, <1>8, <1>10, <1>11, <1>18, <1>22 DEF e
  <1>24. Cardinality(Missing') <= Cardinality(Missing) - Cardinality(P \ E)
    BY <1>11, <1>19
  <1>25. Cardinality(Damaged' \cap Done') + 2 * Cardinality(Missing') <= 2 * Losses'
    BY <1>11, <1>17, <1>18, <1>20, <1>21, <1>22, <1>23, <1>24
  <1> QED
    BY <1>25

(* At first nothing is lost, missing or begun.                              *)
LEMMA LossInit == Init /\ Typed => LossInv
  <1> SUFFICES ASSUME Init, Typed, WellFormed PROVE LossInv
    BY DEF LossInv
  <1>1. tosend = [frame |-> 1, at |-> 1] /\ stream \in Seq(HostFrame)
    BY DEF Init, Typed
  <1>2. Done = {}
    <2> SUFFICES ASSUME NEW f \in Done PROVE FALSE
      OBVIOUS
    <2>1. f \in 1 .. Len(stream) /\ Before(ByteAt(f, 1), tosend)
      BY DEF Done, Follows
    <2>2. ByteAt(f, 1).frame = f /\ ByteAt(f, 1).at = 1
      BY <1>1, <2>1, FrameIs
    <2> QED
      BY <1>1, <2>1, <2>2 DEF Before
  <1>3. Missing = {}
    <2> SUFFICES ASSUME NEW b \in Missing PROVE FALSE
      OBVIOUS
    <2>1. b \in StreamByte /\ Before(b, tosend)
      BY DEF Missing, Sent
    <2>2. b.frame \in 1 .. Len(stream) /\ b.at \in Nat \ {0}
      BY <2>1 DEF StreamByte
    <2> QED
      BY <1>1, <2>1, <2>2 DEF Before
  <1>4. Losses = 0
    BY DEF Losses, Init
  <1>5. Cardinality({}) = 0 /\ Damaged \cap {} = {}
    BY FS_EmptySet
  <1>6. Cardinality(Damaged \cap Done) + 2 * Cardinality(Missing) <= 2 * Losses
    BY <1>2, <1>3, <1>4, <1>5
  <1>7. Waits
    <2>1. Ahead = <<>>
      BY DEF Ahead, Init
    <2> QED
      BY <2>1, RxAssumption DEF Waits
  <1> QED
    BY <1>6, <1>7 DEF LossInv

(* Every step keeps to it.                                                  *)
LEMMA LossNext == Inv /\ Inv' /\ LossInv /\ [Next]_vars => LossInv'
  <1> SUFFICES ASSUME Inv, Inv', LossInv, [Next]_vars, WellFormed' PROVE LossInv'
    BY DEF LossInv
  <1>1. /\ Typed /\ Typed' /\ RoomInv /\ OrderInv /\ HandledInv
    BY DEF Inv
  <1>2. UNCHANGED stream
    BY SameStream
  <1>3. WellFormed
    BY <1>2 DEF WellFormed
  <1>4. (Cardinality(Damaged \cap Done) + 2 * Cardinality(Missing) <= 2 * Losses)'
    <2>1. CASE \/ Arrive \/ Lose \/ Pause \/ BufferFull \/ RxDisabled \/ LineError
               \/ ReaderGet \/ PauseMissed \/ UNCHANGED vars
      BY <1>1, <1>2, <1>3, <2>1, LinePays
    <2>2. CASE DrainSkip
      BY <1>1, <1>3, <2>2, SkipPays
    <2>3. CASE DrainDispatch
      BY <1>1, <1>3, <2>3, DispatchPays
    <2>4. CASE DrainStop
      BY <1>1, <1>3, <2>4, StopPays
    <2> QED
      BY <2>1, <2>2, <2>3, <2>4 DEF Next, Driver, ReaderStep
  <1>5. reader' = "get" => Waits'
    BY <1>1, <1>3, WaitsNext
  <1> QED
    BY <1>4, <1>5 DEF LossInv

(* Both invariants hold always.                                             *)
LEMMA LossInvariant == Spec => [](Inv /\ LossInv)
  <1>1. Init => LossInv
    BY InvInit, LossInit DEF Inv
  <1>2. Inv /\ Inv' /\ LossInv /\ [Next]_vars => LossInv'
    BY LossNext
  <1> QED
    BY <1>1, <1>2, Invariant, PTL DEF Spec

(* When all is read, the frames that were never begun cost a missing byte   *)
(* each: of a part of a frame that is waiting, more is missing than the     *)
(* bytes of others that stand in it.                                        *)
LEMMA NeverBegun ==
  ASSUME Typed, OrderInv, WellFormed, AllRead, Waits
  PROVE  /\ IsFiniteSet((1 .. Len(stream)) \ Done)
         /\ Cardinality((1 .. Len(stream)) \ Done) <= Cardinality(Missing)
  <1> DEFINE R == (1 .. Len(stream)) \ Done
             E == Bytes(Ahead)
             j == Ahead[1].frame
             P == FrameSet(j)
             W == (Missing \ (P \ E)) \cup (E \ P)
  <1>0. /\ stream \in Seq(HostFrame) /\ Len(stream) \in Nat
        /\ tosend \in [frame : 1 .. Len(stream) + 1, at : Nat \ {0}]
        /\ tosend.frame > Len(stream)
        /\ rx_ring = <<>> /\ fresh = <<>>
    BY DEF AllRead, HostDone, Typed
  <1>1. Left = E
    BY <1>0 DEF Left, Bytes
  <1>2. /\ Ahead \in Seq(StreamByte) /\ Sorted(Ahead) /\ Len(Ahead) \in Nat
        /\ HeaderLen \in Nat \ {0}
    BY AheadIs, RxAssumption
  <1>3. IsFiniteSet(E) /\ Cardinality(E) = Len(Ahead)
    BY <1>2, AllDifferent
  <1>4. IsFiniteSet(Missing) /\ Cardinality(Missing) \in Nat
    BY <1>0, SentFinite, FS_CardinalityType
  <1>5. IsFiniteSet(R)
    <2>1. IsFiniteSet(1 .. Len(stream)) /\ R \in SUBSET (1 .. Len(stream))
      BY FS_Interval
    <2> QED
      BY <2>1, FS_Subset
  <1>6. ASSUME NEW f \in R, NEW b \in FrameSet(f) PROVE b.frame = f /\ b \in Missing \cup E
    <2>1. b \in StreamByte /\ b.frame = f /\ b.at <= Size(f) /\ f \in 1 .. Len(stream)
      BY <1>0, <1>6, FrameSetIs
    <2>2. Before(b, tosend)
      BY <1>0, <2>1 DEF Before
    <2>3. b \in Sent
      BY <2>1, <2>2 DEF Sent
    <2> QED
      BY <1>1, <2>1, <2>3 DEF Missing
  <1>7. CASE Len(Ahead) < HeaderLen
    <2>1. ASSUME NEW f \in R PROVE \E b \in Missing : b.frame = f
      <3>1. /\ f \in 1 .. Len(stream) /\ Size(f) \in Nat /\ Size(f) >= HeaderLen
            /\ IsFiniteSet(FrameSet(f)) /\ Cardinality(FrameSet(f)) = Size(f)
        BY <1>0, FrameIs, FrameSetIs
      <3>2. ~(FrameSet(f) \subseteq E)
        <4>1. FrameSet(f) \in SUBSET E => Cardinality(FrameSet(f)) <= Cardinality(E)
          BY <1>3, FS_Subset
        <4> QED
          BY <1>2, <1>3, <1>7, <3>1, <4>1
      <3> QED
        BY <1>6, <3>2
    <2> HIDE DEF R
    <2> QED
      BY <1>4, <1>5, <2>1, OneEach DEF R
  <1>8. CASE /\ Len(Ahead) >= HeaderLen /\ HeaderHere /\ Len(Ahead) < FrameLen
    <2>1. /\ Ahead[1] \in StreamByte /\ FrameLen \in Nat /\ 1 \in 1 .. HeaderLen
          /\ 1 \in 1 .. Len(Ahead)
      BY <1>2, <1>8, FrameLenIs
    <2>2. j \in 1 .. Len(stream) /\ Ahead[1].len = stream[j].len /\ Ahead[1].at = 1
      BY <1>8, <2>1 DEF StreamByte, HeaderHere
    <2>3. Size(j) = FrameLen
      BY <2>2 DEF WellFormed, Size, FrameLen
    <2>4. IsFiniteSet(P) /\ Cardinality(P) = FrameLen /\ \A b \in P : b.frame = j
      BY <1>0, <2>2, <2>3, FrameSetIs
    <2>5. j \in R
      <3>1. Ahead[1] = ByteAt(j, 1)
        BY <1>0, <2>1, <2>2, FrameIs
      <3>2. ~Before(Ahead[1], Ahead[1])
        BY <2>1 DEF Before, StreamByte
      <3>3. Ahead[1] \in Left
        BY <1>1, <2>1 DEF Bytes
      <3> QED
        BY <2>2, <3>1, <3>2, <3>3 DEF Done, Follows
    <2>6. P \ E \subseteq Missing
      BY <1>6, <2>5
    <2>7. /\ IsFiniteSet(W) /\ Cardinality(W) \in Nat
          /\ Cardinality(W) <= Cardinality(Missing) - Cardinality(P) + Cardinality(E)
      <3> HIDE DEF P, E
      <3>1. IsFiniteSet(W)
            /\ Cardinality(W) <= Cardinality(Missing) - Cardinality(P) + Cardinality(E)
        BY <1>3, <1>4, <2>4, <2>6, Swap
      <3> QED
        BY <3>1, FS_CardinalityType
    <2>8. ASSUME NEW f \in R \ {j} PROVE \E b \in W : b.frame = f
      <3>1. f \in 1 .. Len(stream) /\ f # j /\ f \in R
        OBVIOUS
      <3>2. ByteAt(f, 1) \in FrameSet(f)
        <4>1. Size(f) \in Nat /\ Size(f) >= 1
          BY <1>0, <3>1, FrameIs
        <4> QED
          BY <4>1 DEF FrameSet
      <3>3. ByteAt(f, 1).frame = f /\ ByteAt(f, 1) \in Missing \cup E
        BY <1>6, <3>1, <3>2
      <3>4. ByteAt(f, 1) \notin P
        BY <2>4, <3>1, <3>3
      <3> QED
        BY <3>3, <3>4
    <2> HIDE DEF R, E, j, P, W
    <2>9. IsFiniteSet(R \ {j}) /\ Cardinality(R) = Cardinality(R \ {j}) + 1
          /\ Cardinality(R \ {j}) \in Nat
      <3>1. IsFiniteSet(R \ {j})
        BY <1>5, FS_RemoveElement
      <3>2. Cardinality(R \ {j}) = Cardinality(R) - 1
        BY <1>5, <2>5, FS_RemoveElement
      <3> QED
        BY <1>5, <3>1, <3>2, FS_CardinalityType
    <2>10. Cardinality(R \ {j}) <= Cardinality(W)
      BY <2>7, <2>8, <2>9, OneEach
    <2>11. Cardinality(R) <= Cardinality(Missing)
      BY <1>2, <1>3, <1>4, <1>8, <2>1, <2>4, <2>7, <2>9, <2>10
    <2> QED
      BY <1>5, <2>11 DEF R
  <1> QED
    BY <1>7, <1>8 DEF Waits

(* A loss does not spread (LossIsContained): whatever the line, the ring or *)
(* rx_buf lost, frames are handled in order and none twice, and each byte   *)
(* lost costs two frames at most of a session that was read to its end.     *)
THEOREM LossAlwaysContained == Spec => []LossIsContained
  <1>1. Inv /\ LossInv => LossIsContained
    <2> SUFFICES ASSUME Inv, LossInv PROVE LossIsContained
      OBVIOUS
    <2>1. HandledInOrder /\ Typed /\ OrderInv
      BY DEF Inv, HandledInv
    <2>2. ASSUME AllRead, WellFormed
          PROVE  Cardinality(Damaged) <= 2 * (lost + overflowed + refused)
      <3> DEFINE R == (1 .. Len(stream)) \ Done
      <3>1. /\ Cardinality(Damaged \cap Done) + 2 * Cardinality(Missing) <= 2 * Losses
            /\ Waits
        BY <2>2 DEF LossInv, AllRead
      <3>2. IsFiniteSet(R) /\ Cardinality(R) <= Cardinality(Missing)
        BY <2>1, <2>2, <3>1, NeverBegun
      <3>3. Damaged \subseteq (Damaged \cap Done) \cup R
        BY DEF Damaged
      <3>4. IsFiniteSet(Damaged \cap Done)
        <4>1. IsFiniteSet(1 .. Len(stream)) /\ Damaged \cap Done \in SUBSET (1 .. Len(stream))
          BY FS_Interval DEF Done
        <4> QED
          BY <4>1, FS_Subset
      <3> HIDE DEF R
      <3>5. /\ Cardinality(Damaged) <= Cardinality(Damaged \cap Done) + Cardinality(R)
            /\ Cardinality(Damaged) \in Nat /\ Cardinality(R) \in Nat
            /\ Cardinality(Damaged \cap Done) \in Nat
        BY <3>2, <3>3, <3>4, Together
      <3>6. Cardinality(Missing) \in Nat
        BY <2>1, SentFinite, FS_CardinalityType DEF Typed
      <3>7. lost \in Nat /\ overflowed \in Nat /\ refused \in Nat
        BY <2>1, RxAssumption DEF Typed, TypeOK
      <3> QED
        BY <3>1, <3>2, <3>5, <3>6, <3>7 DEF Losses
    <2> QED
      BY <2>1, <2>2 DEF LossIsContained
  <1> QED
    BY <1>1, LossInvariant, PTL
=============================================================================
