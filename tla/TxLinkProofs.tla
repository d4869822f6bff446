---------------------------- MODULE TxLinkProofs ----------------------------
(***************************************************************************)
(* Theorems about the outbound link, for any ring, chunk, reserve and      *)
(* lengths that satisfy TxAssumption, any threads and priorities, and any  *)
(* number of frames, refused transfers and sessions.                       *)
(*                                                                         *)
(* The invariant has six parts: Typed; Held, who has the lock and what the *)
(* tx thread has claimed and given the peripheral; StreamInv, where each   *)
(* accepted byte is; ReserveInv, that no data is past the reserve;         *)
(* HighWaterHolds; and, unless a reset has crossed a count, CountInv,      *)
(* which counts are not yet stored.                                        *)
(***************************************************************************)
EXTENDS TxLink, FiniteSetTheorems, TLAPS

Typed ==
  /\ TypeOK
  /\ claim <= Chunk
  /\ accepted \in Seq(Byte) /\ wire \in Seq(Byte)
  /\ sentNow \in Nat /\ droppedNow \in Nat /\ crossed \in BOOLEAN

Holding == {"sent", "dropped", "sent+1", "dropped+1", "measure"}

\* One thread is between the lock and the unlock; a span is claimed from the
\* claim to the finish, and in between tx_done says whether it was read.
Held ==
  /\ \A t \in Threads : encode_lock = t <=> pc[t] \in Holding
  /\ tx \in {"done", "start", "dma"} <=> claim > 0
  /\ dma.n > 0 <=> tx = "dma" /\ tx_done = 0
  /\ dma.n > 0 => dma.from = taken /\ dma.n = claim
  /\ tx = "start" <=> tx_done = 0 /\ dma.n = 0

\* How many bytes the peripheral has read.
Read == IF tx = "dma" /\ dma.n = 0 THEN taken + claim ELSE taken

\* The bytes accepted are on the wire as far as it was read, and in the ring as
\* far as it was not given back.
StreamInv ==
  /\ Len(accepted) = put
  /\ Len(wire) = Read
  /\ \A i \in 1 .. Read : wire[i] = accepted[i]
  /\ \A p \in taken .. put - 1 : At(p) = accepted[p + 1]

\* A byte that has all but the reserve before it in the ring carries control:
\* where it stands it has only moved forward since it was put there.
ReserveInv ==
  \A p \in taken .. put - 1 :
    p - taken >= Size - Reserve => accepted[p + 1].control = TRUE

Sending(t)  == pc[t] \in {"sent", "sent+1"}
Dropping(t) == pc[t] \in {"dropped", "dropped+1"}

\* The counts that are not yet stored are one at most, and what was loaded for
\* it is what it was, unless a reset has come in between.
CountInv ==
  /\ sentNow = frames_sent + IF \E t \in Threads : Sending(t) THEN 1 ELSE 0
  /\ droppedNow = frames_dropped + IF \E t \in Threads : Dropping(t) THEN 1 ELSE 0
  /\ \A t \in Threads : pc[t] = "sent+1" => loaded[t] = frames_sent
  /\ \A t \in Threads : pc[t] = "dropped+1" => loaded[t] = frames_dropped

Inv ==
  /\ Typed /\ Held /\ StreamInv /\ ReserveInv /\ HighWaterHolds
  /\ ~crossed => CountInv
-----------------------------------------------------------------------------

(* Only nought is a multiple of N nearer to nought than N.                  *)
LEMMA SmallMultiple ==
  ASSUME NEW N \in Nat \ {0}, NEW m \in Int, -N < N * m, N * m < N
  PROVE  m = 0
  <1>1. ~(m >= 1)
    BY SMT
  <1>2. ~(m <= -1)
    BY SMT
  <1> QED
    BY <1>1, <1>2

(* What a remainder and a quotient are.                                     *)
LEMMA Division ==
  ASSUME NEW N \in Nat \ {0}, NEW p \in Int
  PROVE  /\ p % N \in 0 .. N - 1
         /\ p \div N \in Int
         /\ p = N * (p \div N) + (p % N)
  BY SMT

(* How far the place of p in a ring of N is behind that of q.               *)
LEMMA RingDistance ==
  ASSUME NEW N \in Nat \ {0}, NEW p \in Int, NEW q \in Int,
         NEW k \in 0 .. N - 1, p - q = k \/ p - q = k - N
  PROVE  ((p % N) - q) % N = k
  <1> DEFINE a == p % N
             d == p \div N
  <1>1. a \in 0 .. N - 1 /\ d \in Int /\ p = N * d + a
    BY Division
  <1> HIDE DEF a, d
  <1> DEFINE b == (a - q) % N
             c == (a - q) \div N
  <1>2. b \in 0 .. N - 1 /\ c \in Int /\ a - q = N * c + b
    <2>1. a - q \in Int
      BY <1>1
    <2> QED
      BY <2>1, Division
  <1> HIDE DEF b, c
  <1>3. p - q = N * d + N * c + b
    BY <1>1, <1>2
  <1>4. CASE p - q = k
    <2>1. N * (d + c) = k - b
      BY <1>1, <1>2, <1>3, <1>4
    <2>2. d + c = 0
      BY <1>1, <1>2, <2>1, SmallMultiple
    <2> QED
      BY <1>1, <1>2, <2>1, <2>2 DEF b, a
  <1>5. CASE p - q = k - N
    <2>1. N * (d + c + 1) = k - b
      BY <1>1, <1>2, <1>3, <1>5
    <2>2. d + c + 1 = 0
      BY <1>1, <1>2, <2>1, SmallMultiple
    <2> QED
      BY <1>1, <1>2, <2>1, <2>2 DEF b, a
  <1> QED
    BY <1>4, <1>5
-----------------------------------------------------------------------------
(* A place in the ring.                                                     *)
LEMMA Place == \A p \in Int : p % Size \in 0 .. Size - 1
  <1>1. Size \in Nat \ {0}
    BY TxAssumption
  <1> QED
    BY <1>1, Division

(* The invariant holds at first.                                            *)
LEMMA InvInit == Init => Inv
  <1> SUFFICES ASSUME Init PROVE Inv
    OBVIOUS
  <1>1. Typed
    <2>1. NoByte \in Byte
      BY DEF NoByte, Byte
    <2>2. mem \in [0 .. Size - 1 -> Byte] /\ dma \in [from : Nat, n : Nat]
      BY <2>1 DEF Init
    <2>3. /\ pc \in [Threads -> {"idle"}] /\ loaded \in [Threads -> Nat]
      BY DEF Init
    <2>4. accepted \in Seq(Byte) /\ wire \in Seq(Byte)
      BY DEF Init
    <2> QED
      <3>1. /\ taken = 0 /\ claim = 0 /\ put = 0 /\ seq = 0
            /\ frames_sent = 0 /\ frames_dropped = 0 /\ queued_high_water = 0
            /\ encode_lock = "none" /\ tx_ready = 0 /\ tx_done = 1
            /\ tx = "claim" /\ sentNow = 0 /\ droppedNow = 0
            /\ crossed = FALSE /\ Size \in Nat /\ Chunk \in Nat
        BY TxAssumption DEF Init
      <3>2. TypeOK
        BY <2>2, <2>3, <3>1 DEF TypeOK
      <3> QED
        <4>1. claim <= Chunk /\ sentNow \in Nat /\ droppedNow \in Nat
          BY <3>1
        <4>2. crossed \in BOOLEAN
          BY <3>1
        <4> QED
          BY <2>4, <3>2, <4>1, <4>2 DEF Typed
  <1>2. Held
    BY TxAssumption DEF Init, Held, Holding
  <1>3. StreamInv
    BY DEF Init, StreamInv, Read
  <1>4. HighWaterHolds
    BY DEF Init, HighWaterHolds
  <1>5. CountInv
    BY DEF Init, CountInv, Sending, Dropping
  <1>6. ReserveInv
    BY DEF Init, ReserveInv
  <1> QED
    BY <1>1, <1>2, <1>3, <1>4, <1>5, <1>6 DEF Inv

(* One sequence of bytes after another.                                     *)
LEMMA Joined ==
  ASSUME NEW S, NEW s \in Seq(S), NEW u \in Seq(S)
  PROVE  /\ s \o u \in Seq(S) /\ Len(s \o u) = Len(s) + Len(u)
         /\ \A i \in 1 .. Len(s) : (s \o u)[i] = s[i]
         /\ \A i \in 1 .. Len(u) : (s \o u)[Len(s) + i] = u[i]
  OBVIOUS

(* The same of bytes, whose type the provers need said.                     *)
LEMMA JoinedBytes ==
  ASSUME NEW s \in Seq(Byte), NEW u \in Seq(Byte)
  PROVE  /\ s \o u \in Seq(Byte) /\ Len(s \o u) = Len(s) + Len(u)
         /\ \A i \in 1 .. Len(s) : (s \o u)[i] = s[i]
         /\ \A i \in 1 .. Len(u) : (s \o u)[Len(s) + i] = u[i]
  BY Joined

(* What is left of some bytes without the first k.                          *)
LEMMA TailBytes ==
  ASSUME NEW s \in Seq(Byte), NEW k \in Nat, k <= Len(s)
  PROVE  /\ SubSeq(s, k + 1, Len(s)) \in Seq(Byte)
         /\ Len(SubSeq(s, k + 1, Len(s))) = Len(s) - k
         /\ \A i \in 1 .. Len(s) - k : SubSeq(s, k + 1, Len(s))[i] = s[k + i]
  OBVIOUS

(* What a frame's bytes are.                                                *)
LEMMA FrameBytes ==
  ASSUME NEW id \in Nat, NEW control \in BOOLEAN, NEW n \in Nat
  PROVE  Frame(id, control, n) \in Seq(Byte) /\ Len(Frame(id, control, n)) = n
  <1>1. \A i \in 1 .. n : [frame |-> id, at |-> i, control |-> control] \in Byte
    BY DEF Byte
  <1>2. Frame(id, control, n) \in [1 .. n -> Byte]
    BY <1>1 DEF Frame
  <1> QED
    BY <1>2

(* A claim is no longer than a chunk, than what is there, and than the way  *)
(* to the wrap.                                                             *)
LEMMA LeastOfThree ==
  ASSUME NEW a \in Nat, NEW b \in Nat, NEW c \in Nat
  PROVE  /\ Least({a, b, c}) \in {a, b, c}
         /\ Least({a, b, c}) <= a /\ Least({a, b, c}) <= b
  <1>1. \E x \in {a, b, c} : \A y \in {a, b, c} : x <= y
    <2>1. CASE a <= b /\ a <= c
      BY <2>1
    <2>2. CASE b <= a /\ b <= c
      BY <2>2
    <2>3. CASE c <= a /\ c <= b
      BY <2>3
    <2> QED
      BY <2>1, <2>2, <2>3
  <1> DEFINE x == Least({a, b, c})
  <1>2. x \in {a, b, c} /\ \A y \in {a, b, c} : x <= y
    BY <1>1 DEF Least
  <1> HIDE DEF x
  <1> QED
    BY <1>2 DEF x

TxPlaces == {"claim", "ready", "done", "start", "dma", "sleep"}
SendPlaces == {"idle", "lock", "sent", "dropped", "sent+1", "dropped+1",
               "measure", "give"}

(* Threads and tx thread keep to their types, the lock and the span.        *)
LEMMA HeldNext == Typed /\ Held /\ [Next]_vars => Typed' /\ Held'
  <1> SUFFICES ASSUME Typed, Held, [Next]_vars PROVE Typed' /\ Held'
    OBVIOUS
  <1> USE DEF ringVars, counterVars, senderVars, txVars, histVars, Holding
  <1>u. /\ Size \in Nat \ {0} /\ Chunk \in Nat \ {0} /\ Reserve \in Nat
        /\ Lens \subseteq Nat \ {0} /\ "none" \notin Threads
    BY TxAssumption
  <1>0. /\ mem \in [0 .. Size - 1 -> Byte]
        /\ taken \in Nat /\ claim \in Nat /\ put \in Nat
        /\ taken + claim <= put /\ put - taken <= Size
        /\ seq \in Nat
        /\ frames_sent \in Nat /\ frames_dropped \in Nat
        /\ queued_high_water \in 0 .. Size
        /\ encode_lock \in Threads \cup {"none"}
        /\ pc \in [Threads -> SendPlaces]
        /\ loaded \in [Threads -> Nat]
        /\ tx_ready \in {0, 1} /\ tx_done \in {0, 1}
        /\ tx \in TxPlaces
        /\ dma \in [from : Nat, n : Nat]
        /\ claim <= Chunk
        /\ accepted \in Seq(Byte) /\ wire \in Seq(Byte)
        /\ sentNow \in Nat /\ droppedNow \in Nat /\ crossed \in BOOLEAN
    BY DEF Typed, TypeOK, TxPlaces, SendPlaces
  <1>h. /\ \A t \in Threads : encode_lock = t <=> pc[t] \in Holding
        /\ tx \in {"done", "start", "dma"} <=> claim > 0
        /\ dma.n > 0 <=> tx = "dma" /\ tx_done = 0
        /\ dma.n > 0 => dma.from = taken /\ dma.n = claim
        /\ tx = "start" <=> tx_done = 0 /\ dma.n = 0
    BY DEF Held
  <1> DEFINE
        Ring == /\ mem' \in [0 .. Size - 1 -> Byte]
                /\ taken' \in Nat /\ claim' \in Nat /\ put' \in Nat
                /\ taken' + claim' <= put' /\ put' - taken' <= Size
                /\ claim' <= Chunk
        Counts == /\ frames_sent' \in Nat /\ frames_dropped' \in Nat
                  /\ queued_high_water' \in 0 .. Size
                  /\ sentNow' \in Nat /\ droppedNow' \in Nat
                  /\ crossed' \in BOOLEAN
        Senders == /\ seq' \in Nat /\ encode_lock' \in Threads \cup {"none"}
                   /\ pc' \in [Threads -> SendPlaces]
                   /\ loaded' \in [Threads -> Nat]
                   /\ accepted' \in Seq(Byte)
                   /\ tx_ready' \in {0, 1}
                   /\ \A t \in Threads : encode_lock' = t <=> pc'[t] \in Holding
        Span == /\ tx_done' \in {0, 1} /\ tx' \in TxPlaces
                /\ dma' \in [from : Nat, n : Nat] /\ wire' \in Seq(Byte)
                /\ tx' \in {"done", "start", "dma"} <=> claim' > 0
                /\ dma'.n > 0 <=> tx' = "dma" /\ tx_done' = 0
                /\ dma'.n > 0 => dma'.from = taken' /\ dma'.n = claim'
                /\ tx' = "start" <=> tx_done' = 0 /\ dma'.n = 0
  <1>1. SUFFICES Ring /\ Counts /\ Senders /\ Span
    BY DEF Typed, TypeOK, Held, TxPlaces, SendPlaces
  <1>r. UNCHANGED ringVars => Ring
    BY <1>0
  <1>c. UNCHANGED <<counterVars, sentNow, droppedNow, crossed>> => Counts
    BY <1>0
  <1>s. UNCHANGED <<senderVars, accepted, tx_ready>> => Senders
    BY <1>0, <1>h
  <1>p. UNCHANGED <<tx_done, tx, dma, wire, taken, claim>> => Span
    BY <1>0, <1>h
  <1>2. ASSUME NEW t \in Threads, Call(t)
        PROVE  Ring /\ Counts /\ Senders /\ Span
    <2>1. Senders
      BY <1>0, <1>u, <1>h, <1>2 DEF Call, SendPlaces
    <2> QED
      BY <1>2, <1>r, <1>c, <1>p, <2>1 DEF Call
  <1>3. ASSUME NEW t \in Threads, NEW n \in Lens, EncodeRejects(t, n)
        PROVE  Ring /\ Counts /\ Senders /\ Span
    <2>1. Senders
      BY <1>0, <1>u, <1>h, <1>3 DEF EncodeRejects, LockFree, SendPlaces
    <2> QED
      BY <1>3, <1>r, <1>c, <1>p, <2>1 DEF EncodeRejects
  <1>4. ASSUME NEW t \in Threads, NEW n \in Lens, NEW control \in BOOLEAN,
               Accept(t, control, n)
        PROVE  Ring /\ Counts /\ Senders /\ Span
    <2> DEFINE bytes == Frame(seq, control, n)
    <2>1. bytes \in Seq(Byte) /\ Len(bytes) = n /\ n \in Nat
      <3>1. n \in Nat /\ seq \in Nat
        BY <1>0, <1>u
      <3> QED
        BY <3>1, FrameBytes
    <2> HIDE DEF bytes
    <2>2. /\ put' = put + n /\ accepted' = accepted \o bytes
          /\ mem' = [a \in 0 .. Size - 1 |->
                       LET i == ((a - put) % Size) + 1
                       IN  IF i <= Len(bytes) THEN bytes[i] ELSE mem[a]]
      BY <1>4, <2>1 DEF Accept, RingPut, bytes
    <2>3. mem' \in [0 .. Size - 1 -> Byte]
      <3>1. SUFFICES ASSUME NEW a \in 0 .. Size - 1 PROVE mem'[a] \in Byte
        BY <2>2
      <3> DEFINE i == ((a - put) % Size) + 1
      <3>2. i \in Nat \ {0}
        <4>1. a - put \in Int
          BY <1>0
        <4> QED
          BY <4>1, Place
      <3>3. mem'[a] = IF i <= Len(bytes) THEN bytes[i] ELSE mem[a]
        BY <2>2
      <3> HIDE DEF i
      <3>4. i <= Len(bytes) => bytes[i] \in Byte
        BY <2>1, <3>2
      <3>5. mem[a] \in Byte
        BY <1>0
      <3> QED
        BY <3>3, <3>4, <3>5
    <2>4. put + n - taken <= Size
      BY <1>0, <1>u, <1>4, <2>1 DEF Accept, Fits, Space
    <2>5. UNCHANGED <<taken, claim, counterVars, loaded, txVars, droppedNow,
                      crossed, tx_ready>> /\ sentNow' = sentNow + 1
      BY <1>4 DEF Accept
    <2>6. Ring
      BY <1>0, <2>1, <2>2, <2>3, <2>4, <2>5
    <2>7. accepted' \in Seq(Byte)
      BY <1>0, <2>1, <2>2
    <2>8. Senders
      BY <1>0, <1>u, <1>h, <1>4, <2>5, <2>7 DEF Accept, LockFree, SendPlaces
    <2>9. Counts
      BY <1>0, <2>5
    <2> QED
      BY <1>p, <2>5, <2>6, <2>8, <2>9
  <1>5. ASSUME NEW t \in Threads, NEW n \in Lens, NEW control \in BOOLEAN,
               Refuse(t, control, n)
        PROVE  Ring /\ Counts /\ Senders /\ Span
    <2>1. Senders
      BY <1>0, <1>u, <1>h, <1>5 DEF Refuse, LockFree, SendPlaces
    <2>2. Counts
      BY <1>0, <1>5 DEF Refuse
    <2> QED
      BY <1>5, <1>r, <1>p, <2>1, <2>2 DEF Refuse
  <1>6. ASSUME NEW t \in Threads, CountLoad(t)
        PROVE  Ring /\ Counts /\ Senders /\ Span
    <2>1. Senders
      BY <1>0, <1>u, <1>h, <1>6 DEF CountLoad, SendPlaces
    <2> QED
      BY <1>6, <1>r, <1>c, <1>p, <2>1 DEF CountLoad
  <1>7. ASSUME NEW t \in Threads, CountStore(t)
        PROVE  Ring /\ Counts /\ Senders /\ Span
    <2>1. Senders
      BY <1>0, <1>u, <1>h, <1>7 DEF CountStore, SendPlaces
    <2>2. Counts
      BY <1>0, <1>7 DEF CountStore
    <2> QED
      BY <1>7, <1>r, <1>p, <2>1, <2>2 DEF CountStore
  <1>8. ASSUME NEW t \in Threads, Measure(t)
        PROVE  Ring /\ Counts /\ Senders /\ Span
    <2>1. Senders
      BY <1>0, <1>u, <1>h, <1>8 DEF Measure, SendPlaces
    <2>2. Counts
      BY <1>0, <1>u, <1>8 DEF Measure, Larger, Occupancy, Queued
    <2> QED
      BY <1>8, <1>r, <1>p, <2>1, <2>2 DEF Measure
  <1>9. ASSUME NEW t \in Threads, Give(t)
        PROVE  Ring /\ Counts /\ Senders /\ Span
    <2>1. Senders
      BY <1>0, <1>u, <1>h, <1>9 DEF Give, SendPlaces
    <2> QED
      BY <1>9, <1>r, <1>c, <1>p, <2>1 DEF Give
  <1>10. CASE Reset
    <2>1. crossed' \in BOOLEAN
      BY <1>0, <1>10, Zenon DEF Reset
    <2>2. Counts
      BY <1>0, <1>u, <1>10, <2>1 DEF Reset
    <2> QED
      BY <1>10, <1>r, <1>s, <1>p, <2>2 DEF Reset
  <1>11. CASE TxClaim
    <2>1. /\ claim' = Least({Chunk, put - taken, Size - (taken % Size)})
          /\ tx' = IF claim' = 0 THEN "ready" ELSE "done"
          /\ UNCHANGED <<mem, put, taken, tx_done, dma, wire>>
          /\ tx = "claim"
      BY <1>11 DEF TxClaim
    <2>2. put - taken \in Nat /\ Size - (taken % Size) \in Nat \ {0}
      <3>1. taken % Size \in 0 .. Size - 1
        <4>1. taken \in Int
          BY <1>0
        <4> QED
          BY <4>1, Place
      <3> QED
        BY <1>0, <1>u, <3>1
    <2>3. claim' \in Nat /\ claim' <= Chunk /\ claim' <= put - taken
      <3> DEFINE a == put - taken
                 b == Size - (taken % Size)
      <3>1. Chunk \in Nat /\ a \in Nat /\ b \in Nat /\ claim' = Least({Chunk, a, b})
        BY <1>u, <2>1, <2>2
      <3> HIDE DEF a, b
      <3>2. claim' \in {Chunk, a, b} /\ claim' <= Chunk /\ claim' <= a
        BY <3>1, LeastOfThree
      <3>3. claim' \in Nat
        BY <3>1, <3>2
      <3> QED
        BY <3>2, <3>3 DEF a
    <2>4. Ring
      BY <1>0, <2>1, <2>3
    <2>5. Span
      BY <1>0, <1>u, <1>h, <2>1, <2>3 DEF TxPlaces
    <2> QED
      BY <1>11, <1>c, <1>s, <2>4, <2>5 DEF TxClaim
  <1>12. CASE TxWaitReady \/ TxWakes
    <2>1. Span
      BY <1>0, <1>u, <1>h, <1>12 DEF TxWaitReady, TxWakes, TxPlaces
    <2>2. Senders
      BY <1>0, <1>u, <1>h, <1>12 DEF TxWaitReady, TxWakes
    <2> QED
      BY <1>12, <1>r, <1>c, <2>1, <2>2 DEF TxWaitReady, TxWakes
  <1>13. CASE TxWaitDone
    <2>1. Span
      BY <1>0, <1>u, <1>h, <1>13 DEF TxWaitDone, TxPlaces
    <2> QED
      BY <1>13, <1>r, <1>c, <1>s, <2>1 DEF TxWaitDone
  <1>14. CASE TxStart
    <2>1. Span
      BY <1>0, <1>u, <1>h, <1>14 DEF TxStart, HoldSpan, TxPlaces
    <2> QED
      BY <1>14, <1>r, <1>c, <1>s, <2>1 DEF TxStart, HoldSpan
  <1>15. CASE TxFails
    <2>1. Span
      BY <1>0, <1>u, <1>h, <1>15 DEF TxFails, GiveDone, TxPlaces
    <2>2. Ring
      <3>1. claim' = 0 /\ UNCHANGED <<mem, put, taken>>
        BY <1>15 DEF TxFails
      <3> QED
        BY <1>0, <1>u, <3>1
    <2> QED
      BY <1>15, <1>c, <1>s, <2>1, <2>2 DEF TxFails
  <1>16. CASE TxFinish
    <2>1. Span
      BY <1>0, <1>u, <1>h, <1>16 DEF TxFinish, TxPlaces
    <2>2. Ring
      <3>1. claim' = 0 /\ taken' = taken + claim /\ UNCHANGED <<mem, put>>
        BY <1>16 DEF TxFinish
      <3> QED
        BY <1>0, <1>u, <3>1
    <2> QED
      BY <1>16, <1>c, <1>s, <2>1, <2>2 DEF TxFinish
  <1>17. CASE DmaDone
    <2>1. dma.from = taken /\ dma.n = claim /\ tx = "dma" /\ tx_done = 0
      BY <1>h, <1>17 DEF DmaDone
    <2>2. [i \in 1 .. dma.n |-> At(dma.from + i - 1)] \in Seq(Byte)
      <3>1. ASSUME NEW i \in 1 .. dma.n PROVE At(dma.from + i - 1) \in Byte
        <4>1. dma.from + i - 1 \in Int
          BY <1>0
        <4>2. (dma.from + i - 1) % Size \in 0 .. Size - 1
          BY <4>1, Place
        <4> QED
          BY <1>0, <4>2 DEF At
      <3>2. dma.n \in Nat
        BY <1>0
      <3> QED
        BY <3>1, <3>2
    <2>3. wire' \in Seq(Byte)
      BY <1>0, <1>17, <2>2 DEF DmaDone
    <2>4. Span
      BY <1>0, <1>u, <1>h, <1>17, <2>1, <2>3 DEF DmaDone, TxPlaces
    <2> QED
      BY <1>17, <1>r, <1>c, <1>s, <2>4 DEF DmaDone
  <1>18. CASE UNCHANGED vars
    BY <1>18, <1>r, <1>c, <1>s, <1>p DEF vars
  <1>19. \A t \in Threads : Kinds(t) \subseteq BOOLEAN
    BY DEF Kinds
  <1> QED
    BY <1>2, <1>3, <1>4, <1>5, <1>6, <1>7, <1>8, <1>9, <1>10, <1>11, <1>12,
       <1>13, <1>14, <1>15, <1>16, <1>17, <1>18, <1>19
    DEF Next, Send, Transmit

(* What is put in the ring does not touch what is there.                    *)
LEMMA RingPutKeeps ==
  ASSUME Typed, NEW bytes \in Seq(Byte), RingPut(bytes),
         put + Len(bytes) - taken <= Size
  PROVE  /\ \A p \in taken .. put - 1 : mem'[p % Size] = At(p)
         /\ \A p \in put .. put + Len(bytes) - 1 :
              mem'[p % Size] = bytes[p - put + 1]
  <1>0. /\ taken \in Nat /\ put \in Nat /\ taken <= put /\ put - taken <= Size
        /\ Size \in Nat \ {0} /\ Len(bytes) \in Nat
    BY TxAssumption DEF Typed, TypeOK
  <1>1. ASSUME NEW p \in Int, NEW k \in 0 .. Size - 1,
               p - put = k \/ p - put = k - Size
        PROVE  mem'[p % Size] =
                 IF k + 1 <= Len(bytes) THEN bytes[k + 1] ELSE mem[p % Size]
    <2>1. p % Size \in 0 .. Size - 1
      BY Place
    <2>2. ((p % Size) - put) % Size = k
      <3>1. Size \in Nat \ {0} /\ put \in Int /\ k \in 0 .. Size - 1
        BY <1>0
      <3> QED
        BY <1>1, <3>1, RingDistance
    <2>3. mem'[p % Size] =
            IF (((p % Size) - put) % Size) + 1 <= Len(bytes)
            THEN bytes[(((p % Size) - put) % Size) + 1] ELSE mem[p % Size]
      BY <2>1 DEF RingPut
    <2> QED
      BY <2>2, <2>3
  <1>2. ASSUME NEW p \in taken .. put - 1 PROVE mem'[p % Size] = At(p)
    <2>1. p \in Int /\ p - put + Size \in 0 .. Size - 1
      BY <1>0
    <2>2. p - put = (p - put + Size) - Size /\ ~(p - put + Size + 1 <= Len(bytes))
      BY <1>0
    <2> QED
      BY <1>1, <2>1, <2>2 DEF At
  <1>3. ASSUME NEW p \in put .. put + Len(bytes) - 1
        PROVE  mem'[p % Size] = bytes[p - put + 1]
    <2>1. p \in Int /\ p - put \in 0 .. Size - 1 /\ p - put + 1 <= Len(bytes)
      BY <1>0
    <2> QED
      BY <1>1, <2>1
  <1> QED
    BY <1>2, <1>3

(* Every byte stays where the sequence numbers put it.                      *)
LEMMA StreamNext ==
  Typed /\ Held /\ StreamInv /\ [Next]_vars => StreamInv'
  <1> SUFFICES ASSUME Typed, Held, StreamInv, [Next]_vars PROVE StreamInv'
    OBVIOUS
  <1> USE DEF ringVars, counterVars, senderVars, txVars, histVars
  <1>0. /\ taken \in Nat /\ claim \in Nat /\ put \in Nat
        /\ taken + claim <= put /\ put - taken <= Size
        /\ tx_done \in {0, 1} /\ dma \in [from : Nat, n : Nat]
        /\ accepted \in Seq(Byte) /\ wire \in Seq(Byte)
        /\ seq \in Nat
    BY DEF Typed, TypeOK
  <1>h. /\ tx \in {"done", "start", "dma"} <=> claim > 0
        /\ dma.n > 0 <=> tx = "dma" /\ tx_done = 0
        /\ dma.n > 0 => dma.from = taken /\ dma.n = claim
        /\ tx = "start" <=> tx_done = 0 /\ dma.n = 0
    BY DEF Held
  <1>s. /\ Len(accepted) = put /\ Len(wire) = Read
        /\ \A i \in 1 .. Read : wire[i] = accepted[i]
        /\ \A p \in taken .. put - 1 : At(p) = accepted[p + 1]
    BY DEF StreamInv
  <1>r. Read \in Nat /\ Read <= put
    BY <1>0 DEF Read
  \* What neither moves a byte nor a mark of the ring.
  <1>1. ASSUME UNCHANGED <<mem, put, accepted, wire>>,
               taken' \in Nat, taken' >= taken, Read' = Read
        PROVE  StreamInv'
    <2>1. \A p \in taken' .. put' - 1 : At(p)' = accepted'[p + 1]
      BY <1>0, <1>1, <1>s DEF At
    <2> QED
      BY <1>1, <1>s, <2>1 DEF StreamInv
  <1>2. ASSUME UNCHANGED <<ringVars, accepted, txVars>> PROVE StreamInv'
    BY <1>0, <1>1, <1>2 DEF Read
  <1>3. ASSUME NEW t \in Threads, NEW n \in Lens, NEW control \in BOOLEAN,
               Accept(t, control, n)
        PROVE  StreamInv'
    <2> DEFINE bytes == Frame(seq, control, n)
    <2>1. bytes \in Seq(Byte) /\ Len(bytes) = n /\ n \in Nat
      <3>1. n \in Nat
        BY TxAssumption
      <3> QED
        BY <1>0, <3>1, FrameBytes
    <2> HIDE DEF bytes
    <2>2. /\ RingPut(bytes) /\ accepted' = accepted \o bytes
          /\ UNCHANGED <<taken, claim, txVars>>
      BY <1>3 DEF Accept, bytes
    <2>3. put + Len(bytes) - taken <= Size
      BY <1>0, <1>3, <2>1, TxAssumption DEF Accept, Fits, Space
    <2>4. put' = put + Len(bytes)
      BY <2>2 DEF RingPut
    <2>5. /\ \A p \in taken .. put - 1 : mem'[p % Size] = At(p)
          /\ \A p \in put .. put + Len(bytes) - 1 :
               mem'[p % Size] = bytes[p - put + 1]
      BY <2>1, <2>2, <2>3, RingPutKeeps
    <2>6. /\ Len(accepted') = put + Len(bytes)
          /\ \A i \in 1 .. put : accepted'[i] = accepted[i]
          /\ \A i \in 1 .. Len(bytes) : accepted'[put + i] = bytes[i]
      <3>1. accepted \in Seq(Byte) /\ bytes \in Seq(Byte) /\ Len(accepted) = put
        BY <1>0, <1>s, <2>1
      <3>2. /\ Len(accepted \o bytes) = put + Len(bytes)
            /\ \A i \in 1 .. put : (accepted \o bytes)[i] = accepted[i]
            /\ \A i \in 1 .. Len(bytes) : (accepted \o bytes)[put + i] = bytes[i]
        BY <3>1, JoinedBytes
      <3> QED
        BY <2>2, <3>2
    <2>7. ASSUME NEW p \in taken .. put + Len(bytes) - 1
          PROVE  mem'[p % Size] = accepted'[p + 1]
      <3>1. CASE p < put
        <4>1. p \in taken .. put - 1 /\ p + 1 \in 1 .. put
          BY <1>0, <2>1, <3>1
        <4> QED
          BY <1>s, <2>5, <2>6, <4>1
      <3>2. CASE p >= put
        <4>1. /\ p \in put .. put + Len(bytes) - 1
              /\ p - put + 1 \in 1 .. Len(bytes) /\ put + (p - put + 1) = p + 1
          BY <1>0, <2>1, <3>2
        <4> QED
          BY <2>5, <2>6, <4>1
      <3> QED
        BY <1>0, <2>1, <3>1, <3>2
    <2>8. Read' = Read /\ \A i \in 1 .. Read : wire'[i] = accepted'[i]
      <3>1. Read' = Read /\ wire' = wire
        BY <2>2 DEF Read
      <3>2. \A i \in 1 .. Read : i \in 1 .. put
        BY <1>0, <1>r
      <3> QED
        BY <1>s, <2>6, <3>1, <3>2
    <2> QED
      <3>1. Len(accepted') = put' /\ Len(wire') = Read'
        <4>1. wire' = wire
          BY <2>2
        <4> QED
          BY <1>s, <2>4, <2>6, <2>8, <4>1
      <3>2. \A p \in taken' .. put' - 1 : At(p)' = accepted'[p + 1]
        <4>1. taken' = taken
          BY <2>2
        <4> QED
          <5>1. ASSUME NEW p \in taken' .. put' - 1
                PROVE  At(p)' = accepted'[p + 1]
            <6>1. p \in taken .. put + Len(bytes) - 1
              BY <1>0, <2>1, <2>4, <4>1, <5>1
            <6>2. At(p)' = mem'[p % Size]
              BY DEF At
            <6> QED
              BY <2>7, <6>1, <6>2
          <5> QED
            BY <5>1
      <3> QED
        BY <2>8, <3>1, <3>2 DEF StreamInv
  <1>4. ASSUME NEW t \in Threads, NEW n \in Lens, NEW control \in BOOLEAN,
               EncodeRejects(t, n) \/ Refuse(t, control, n)
        PROVE  StreamInv'
    BY <1>2, <1>4 DEF EncodeRejects, Refuse
  <1>5. ASSUME NEW t \in Threads,
               \/ Call(t) \/ CountLoad(t) \/ CountStore(t) \/ Measure(t) \/ Give(t)
        PROVE  StreamInv'
    BY <1>2, <1>5 DEF Call, CountLoad, CountStore, Measure, Give
  <1>6. CASE Reset
    BY <1>2, <1>6 DEF Reset
  <1>7. CASE TxClaim \/ TxWaitReady \/ TxWaitDone \/ TxFails \/ TxWakes
    <2>1. tx # "dma" /\ tx' # "dma" /\ UNCHANGED <<mem, put, taken, accepted, wire>>
      BY <1>7 DEF TxClaim, TxWaitReady, TxWaitDone, TxFails, TxWakes
    <2> QED
      BY <1>0, <1>1, <2>1 DEF Read
  <1>8. CASE TxStart
    <2>1. dma'.n > 0 /\ tx # "dma" /\ UNCHANGED <<mem, put, taken, accepted, wire>>
      BY <1>0, <1>h, <1>8 DEF TxStart, HoldSpan
    <2> QED
      BY <1>0, <1>1, <2>1 DEF Read
  <1>9. CASE TxFinish
    <2>1. dma.n = 0 /\ tx = "dma" /\ tx' = "claim"
      BY <1>0, <1>h, <1>9 DEF TxFinish
    <2>2. taken' = taken + claim /\ UNCHANGED <<mem, put, accepted, wire, dma>>
      BY <1>9 DEF TxFinish
    <2>3. Read' = Read
      BY <2>1, <2>2 DEF Read
    <2> QED
      BY <1>0, <1>1, <2>2, <2>3
  <1>10. CASE DmaDone
    <2>1. /\ dma.n > 0 /\ dma.from = taken /\ dma.n = claim /\ tx = "dma"
          /\ dma'.n = 0 /\ tx' = tx
      BY <1>h, <1>10 DEF DmaDone
    <2>2. UNCHANGED <<mem, put, taken, claim, accepted>>
      BY <1>10 DEF DmaDone
    <2>3. Read = taken /\ Read' = taken + claim
      BY <2>1, <2>2 DEF Read
    <2> DEFINE span == [i \in 1 .. claim |-> At(taken + i - 1)]
    <2>4. span \in Seq(Byte) /\ Len(span) = claim
          /\ \A i \in 1 .. claim : span[i] = At(taken + i - 1)
      <3>1. ASSUME NEW i \in 1 .. claim PROVE At(taken + i - 1) \in Byte
        <4>1. taken + i - 1 \in taken .. put - 1 /\ taken + i \in 1 .. Len(accepted)
          BY <1>0, <1>s
        <4> QED
          BY <1>0, <1>s, <4>1
      <3> QED
        BY <1>0, <3>1
    <2>5. wire' = wire \o span
      BY <1>10, <2>1 DEF DmaDone
    <2> HIDE DEF span
    <2>a. /\ Len(wire \o span) = taken + claim
          /\ \A i \in 1 .. taken : (wire \o span)[i] = wire[i]
          /\ \A i \in 1 .. claim : (wire \o span)[taken + i] = span[i]
      <3>1. wire \in Seq(Byte) /\ span \in Seq(Byte) /\ Len(wire) = taken
        BY <1>0, <1>s, <2>3, <2>4
      <3> QED
        BY <2>4, <3>1, JoinedBytes
    <2>6. Len(wire') = taken + claim
      BY <2>5, <2>a
    <2>7. ASSUME NEW i \in 1 .. taken + claim PROVE wire'[i] = accepted[i]
      <3>1. CASE i <= taken
        <4>1. i \in 1 .. taken
          BY <1>0, <3>1
        <4> QED
          BY <1>s, <2>3, <2>5, <2>a, <4>1
      <3>2. CASE i > taken
        <4>1. i - taken \in 1 .. claim /\ i - 1 \in taken .. put - 1
          BY <1>0, <3>2
        <4>2. wire'[i] = span[i - taken]
          <5>1. taken + (i - taken) = i
            BY <1>0
          <5> QED
            BY <2>5, <2>a, <4>1, <5>1
        <4>3. span[i - taken] = At(i - 1)
          <5>1. taken + (i - taken) - 1 = i - 1
            BY <1>0
          <5> QED
            BY <2>4, <4>1, <5>1
        <4>4. At(i - 1) = accepted[i]
          <5>1. (i - 1) + 1 = i
            BY <1>0
          <5> QED
            BY <1>s, <4>1, <5>1
        <4> QED
          BY <4>2, <4>3, <4>4
      <3> QED
        BY <1>0, <3>1, <3>2
    <2> QED
      BY <1>s, <2>2, <2>3, <2>6, <2>7 DEF StreamInv, At
  <1>11. CASE UNCHANGED vars
    BY <1>2, <1>11 DEF vars
  <1>12. \A t \in Threads : Kinds(t) \subseteq BOOLEAN
    BY DEF Kinds
  <1> QED
    BY <1>3, <1>4, <1>5, <1>6, <1>7, <1>8, <1>9, <1>10, <1>11, <1>12
    DEF Next, Send, Transmit

(* What is taken from the ring only shortens it.                            *)
LEMMA Drained ==
  ASSUME NEW p \in Nat, NEW a \in Nat, NEW b \in Nat, b >= a,
         NEW m \in Nat, NEW c \in Nat, p - a <= m + c
  PROVE  p - b <= m + c
  OBVIOUS

(* The mark is short of what the ring holds by a chunk at most.             *)
LEMMA HighNext ==
  Typed /\ Held /\ HighWaterHolds /\ [Next]_vars => HighWaterHolds'
  <1> SUFFICES ASSUME Typed, Held, HighWaterHolds, [Next]_vars, sentNow' > 0,
                      \A t \in Threads : pc'[t] \notin {"sent", "sent+1", "measure"}
               PROVE  put' - taken' <= queued_high_water' + Chunk
    BY DEF HighWaterHolds
  <1> USE DEF ringVars, counterVars, senderVars, txVars, histVars
  <1>u. Chunk \in Nat /\ Lens \subseteq Nat
    BY TxAssumption
  <1>0. /\ taken \in Nat /\ claim \in Nat /\ put \in Nat /\ claim <= Chunk
        /\ queued_high_water \in Nat /\ sentNow \in Nat
        /\ pc \in [Threads -> SendPlaces]
    BY TxAssumption DEF Typed, TypeOK, SendPlaces
  <1>h. /\ sentNow > 0
        /\ \A t \in Threads : pc[t] \notin {"sent", "sent+1", "measure"}
        => put - taken <= queued_high_water + Chunk
    BY DEF HighWaterHolds
  <1>o. \A t, u \in Threads : pc[t] \in Holding /\ pc[u] \in Holding => t = u
    BY DEF Held
  \* What no frame has been added by.
  <1>1. ASSUME UNCHANGED <<put, queued_high_water, sentNow>>, taken' \in Nat,
               taken' >= taken,
               \A t \in Threads : pc[t] \notin {"sent", "sent+1", "measure"}
        PROVE  put' - taken' <= queued_high_water' + Chunk
    <2>1. sentNow > 0
      BY <1>1
    <2>2. put - taken <= queued_high_water + Chunk
      BY <1>h, <1>1, <2>1
    <2>3. /\ put' = put /\ queued_high_water' = queued_high_water
          /\ taken' \in Nat /\ taken' >= taken
      BY <1>1
    <2>4. put - taken' <= queued_high_water + Chunk
      BY <1>0, <1>u, <2>2, <2>3, Drained
    <2> QED
      BY <2>3, <2>4
  <1>2. ASSUME NEW t \in Threads,
               \/ Call(t) \/ Give(t) \/ CountLoad(t)
               \/ \E n \in Lens : \/ EncodeRejects(t, n)
                                  \/ \E c \in Kinds(t) : Refuse(t, c, n)
        PROVE  put' - taken' <= queued_high_water' + Chunk
    <2>1. UNCHANGED <<put, queued_high_water, sentNow, taken>>
      BY <1>2 DEF Call, Give, CountLoad, EncodeRejects, Refuse
    <2>2. \A u \in Threads \ {t} : pc'[u] = pc[u]
      BY <1>0, <1>2 DEF Call, Give, CountLoad, EncodeRejects, Refuse
    <2>3. pc[t] \notin {"sent", "sent+1", "measure"}
      BY <1>0, <1>2 DEF Call, Give, CountLoad, EncodeRejects, Refuse
    <2> QED
      BY <1>0, <1>1, <2>1, <2>2, <2>3
  <1>3. ASSUME NEW t \in Threads, NEW n \in Lens, NEW c \in Kinds(t),
               Accept(t, c, n)
        PROVE  FALSE
    BY <1>0, <1>3 DEF Accept
  <1>4. ASSUME NEW t \in Threads, CountStore(t)
        PROVE  put' - taken' <= queued_high_water' + Chunk
    <2>1. CASE pc[t] = "sent+1"
      BY <1>0, <1>4, <2>1 DEF CountStore
    <2>2. CASE pc[t] = "dropped+1"
      <3>1. \A u \in Threads : pc[u] \notin {"sent", "sent+1", "measure"}
        BY <1>o, <2>2 DEF Holding
      <3>2. UNCHANGED <<put, queued_high_water, sentNow, taken>>
        BY <1>4 DEF CountStore
      <3> QED
        BY <1>0, <1>1, <3>1, <3>2
    <2> QED
      BY <1>4, <2>1, <2>2 DEF CountStore
  <1>5. ASSUME NEW t \in Threads, Measure(t)
        PROVE  put' - taken' <= queued_high_water' + Chunk
    <2>1. /\ queued_high_water' = Larger(queued_high_water, put - (taken + claim))
          /\ UNCHANGED <<put, taken>>
      BY <1>5 DEF Measure, Occupancy, Queued
    <2> QED
      BY <1>0, <1>u, <2>1 DEF Larger
  <1>6. CASE Reset
    BY <1>6 DEF Reset
  <1>7. CASE Transmit
    <2>1. UNCHANGED <<put, queued_high_water, sentNow, pc>>
      BY <1>7
      DEF Transmit, TxClaim, TxWaitReady, TxWaitDone, TxStart, HoldSpan, TxFails,
          TxWakes, TxFinish
    <2>2. taken' \in Nat /\ taken' >= taken
      BY <1>0, <1>7
      DEF Transmit, TxClaim, TxWaitReady, TxWaitDone, TxStart, HoldSpan, TxFails,
          TxWakes, TxFinish
    <2> QED
      BY <1>1, <2>1, <2>2
  <1>8. CASE DmaDone \/ UNCHANGED vars
    BY <1>0, <1>1, <1>8 DEF DmaDone, vars
  <1> QED
    BY <1>2, <1>3, <1>4, <1>5, <1>6, <1>7, <1>8 DEF Next, Send

(* Between the decision about a frame and its count one thread has the      *)
(* lock, and no other counts.                                               *)
LEMMA CountNext ==
  /\ Typed /\ Held /\ (~crossed => CountInv) /\ [Next]_vars
  => (~crossed' => CountInv')
  <1> SUFFICES ASSUME Typed, Held, ~crossed => CountInv, [Next]_vars, ~crossed'
               PROVE  CountInv'
    OBVIOUS
  <1> USE DEF ringVars, counterVars, senderVars, txVars, histVars
  <1>0. /\ pc \in [Threads -> SendPlaces] /\ loaded \in [Threads -> Nat]
        /\ frames_sent \in Nat /\ frames_dropped \in Nat
        /\ sentNow \in Nat /\ droppedNow \in Nat
    BY DEF Typed, TypeOK, SendPlaces
  <1>o. \A t, u \in Threads : pc[t] \in Holding /\ pc[u] \in Holding => t = u
    BY DEF Held
  <1>l. LockFree => \A t \in Threads : pc[t] \notin Holding
    BY TxAssumption DEF Held, LockFree
  <1>t. ~crossed
    <2>1. ASSUME NEW t \in Threads, Send(t) PROVE crossed' = crossed
      BY <2>1 DEF Send, Call, EncodeRejects, Accept, Refuse, CountLoad,
         CountStore, Measure, Give
    <2>2. CASE Reset
      BY <2>2 DEF Reset
    <2>3. CASE Transmit \/ DmaDone \/ UNCHANGED vars
      BY <2>3 DEF Transmit, TxClaim, TxWaitReady, TxWaitDone, TxStart, TxFails,
         TxWakes, TxFinish, DmaDone, vars
    <2> QED
      BY <2>1, <2>2, <2>3 DEF Next
  <1>i. CountInv
    BY <1>t
  \* What neither counts nor decides.
  <1>1. ASSUME UNCHANGED <<frames_sent, frames_dropped, sentNow, droppedNow, loaded>>,
               \A t \in Threads :
                 \/ pc'[t] = pc[t]
                 \/ /\ pc[t] \notin Holding \ {"measure"}
                    /\ pc'[t] \notin Holding \ {"measure"}
        PROVE  CountInv'
    BY <1>1, <1>i DEF CountInv, Sending, Dropping, Holding
  <1>2. ASSUME NEW t \in Threads,
               \/ Call(t) \/ Give(t) \/ Measure(t)
               \/ \E n \in Lens : EncodeRejects(t, n)
        PROVE  CountInv'
    <2>1. UNCHANGED <<frames_sent, frames_dropped, sentNow, droppedNow, loaded>>
      BY <1>2 DEF Call, Give, Measure, EncodeRejects
    <2>2. /\ \A u \in Threads \ {t} : pc'[u] = pc[u]
          /\ pc[t] \in {"idle", "give", "measure", "lock"}
          /\ pc'[t] \in {"idle", "give", "lock"}
      BY <1>0, <1>2 DEF Call, Give, Measure, EncodeRejects
    <2> QED
      BY <1>1, <2>1, <2>2 DEF Holding
  <1>3. ASSUME NEW t \in Threads, NEW n \in Lens, NEW c \in BOOLEAN,
               Accept(t, c, n) \/ Refuse(t, c, n)
        PROVE  CountInv'
    <2>1. \A u \in Threads : pc[u] \notin Holding
      BY <1>3, <1>l DEF Accept, Refuse
    <2>2. sentNow = frames_sent /\ droppedNow = frames_dropped
      BY <1>0, <1>i, <2>1 DEF CountInv, Sending, Dropping, Holding
    <2>3. /\ \A u \in Threads \ {t} : pc'[u] = pc[u]
          /\ UNCHANGED <<frames_sent, frames_dropped, loaded>>
      BY <1>0, <1>3 DEF Accept, Refuse
    <2>4. \/ pc'[t] = "sent" /\ sentNow' = sentNow + 1 /\ droppedNow' = droppedNow
          \/ pc'[t] = "dropped" /\ droppedNow' = droppedNow + 1 /\ sentNow' = sentNow
      BY <1>0, <1>3 DEF Accept, Refuse
    <2> QED
      BY <1>0, <2>1, <2>2, <2>3, <2>4 DEF CountInv, Sending, Dropping, Holding
  <1>4. ASSUME NEW t \in Threads, CountLoad(t) PROVE CountInv'
    <2>1. /\ \A u \in Threads \ {t} :
               pc'[u] = pc[u] /\ pc[u] \notin Holding /\ loaded'[u] = loaded[u]
          /\ UNCHANGED <<frames_sent, frames_dropped, sentNow, droppedNow>>
      BY <1>0, <1>4, <1>o DEF CountLoad, Holding
    <2>2. \/ pc[t] = "sent" /\ pc'[t] = "sent+1" /\ loaded'[t] = frames_sent
          \/ pc[t] = "dropped" /\ pc'[t] = "dropped+1" /\ loaded'[t] = frames_dropped
      BY <1>0, <1>4 DEF CountLoad
    <2> QED
      BY <1>0, <1>i, <2>1, <2>2 DEF CountInv, Sending, Dropping, Holding
  <1>5. ASSUME NEW t \in Threads, CountStore(t) PROVE CountInv'
    <2>1. /\ pc[t] \in {"sent+1", "dropped+1"} /\ UNCHANGED <<sentNow, droppedNow>>
          /\ pc'[t] \in {"measure", "idle"}
          /\ \A u \in Threads \ {t} : pc'[u] = pc[u] /\ pc[u] \notin Holding
      BY <1>0, <1>5, <1>o DEF CountStore, Holding
    <2>2. \A u \in Threads : ~Sending(u)' /\ ~Dropping(u)'
      BY <2>1 DEF Sending, Dropping, Holding
    <2>3. CASE pc[t] = "sent+1"
      <3>1. /\ sentNow = frames_sent + 1 /\ droppedNow = frames_dropped
            /\ loaded[t] = frames_sent
        BY <1>0, <1>i, <2>1, <2>3 DEF CountInv, Sending, Dropping, Holding
      <3>2. frames_sent' = loaded[t] + 1 /\ frames_dropped' = frames_dropped
        BY <1>5, <2>3 DEF CountStore
      <3> QED
        BY <1>0, <2>1, <2>2, <3>1, <3>2 DEF CountInv, Sending, Dropping
    <2>4. CASE pc[t] = "dropped+1"
      <3>1. /\ droppedNow = frames_dropped + 1 /\ sentNow = frames_sent
            /\ loaded[t] = frames_dropped
        BY <1>0, <1>i, <2>1, <2>4 DEF CountInv, Sending, Dropping, Holding
      <3>2. frames_dropped' = loaded[t] + 1 /\ frames_sent' = frames_sent
        BY <1>5, <2>4 DEF CountStore
      <3> QED
        BY <1>0, <2>1, <2>2, <3>1, <3>2 DEF CountInv, Sending, Dropping
    <2> QED
      BY <2>1, <2>3, <2>4
  <1>6. CASE Reset
    <2>1. \A t \in Threads : ~Counting(t) /\ pc'[t] = pc[t]
      BY <1>6 DEF Reset
    <2> QED
      BY <1>6, <2>1 DEF Reset, CountInv, Sending, Dropping, Counting
  <1>7. CASE Transmit \/ DmaDone \/ UNCHANGED vars
    BY <1>1, <1>7
    DEF Transmit, TxClaim, TxWaitReady, TxWaitDone, TxStart, TxFails, TxWakes,
        TxFinish, DmaDone, vars
  <1>8. \A t \in Threads : Kinds(t) \subseteq BOOLEAN
    BY DEF Kinds
  <1> QED
    BY <1>2, <1>3, <1>4, <1>5, <1>6, <1>7, <1>8 DEF Next, Send

(* A place so far past the ring's tail is as far past any earlier tail.      *)
LEMMA FurtherBack ==
  ASSUME NEW a \in Int, NEW b \in Int, NEW p \in Int, NEW d \in Int,
         a <= b, p - b >= d
  PROVE  p - a >= d
  OBVIOUS

(* Data is put in the ring only where the reserve is left behind it.        *)
LEMMA ReserveNext == Typed /\ StreamInv /\ ReserveInv /\ [Next]_vars => ReserveInv'
  <1> SUFFICES ASSUME Typed, StreamInv, ReserveInv, [Next]_vars PROVE ReserveInv'
    OBVIOUS
  <1> USE DEF ringVars, counterVars, senderVars, txVars, histVars
  <1>0. /\ taken \in Nat /\ claim \in Nat /\ put \in Nat /\ seq \in Nat
        /\ Size \in Nat /\ Reserve \in Nat
        /\ accepted \in Seq(Byte) /\ Len(accepted) = put
    BY TxAssumption DEF Typed, TypeOK, StreamInv
  <1>1. ASSUME UNCHANGED <<put, accepted>>, taken' \in Nat, taken' >= taken
        PROVE  ReserveInv'
    <2>1. ASSUME NEW p \in taken' .. put' - 1, p - taken' >= Size - Reserve
          PROVE  accepted'[p + 1].control = TRUE
      <3>0. put' = put
        BY <1>1
      <3>a. p \in Int /\ taken' <= p /\ p <= put - 1
        BY <1>0, <1>1, <2>1, <3>0
      <3>b. taken' \in Nat /\ taken' >= taken /\ p - taken' >= Size - Reserve
        BY <1>1, <2>1
      <3>c. taken \in Nat /\ put \in Nat /\ Size \in Nat /\ Reserve \in Nat
        BY <1>0
      <3>d. taken <= p
        BY <3>a, <3>b, <3>c
      <3>f. Size - Reserve \in Int /\ taken' \in Int /\ taken \in Int
        BY <3>b, <3>c
      <3>e. p - taken >= Size - Reserve
        BY <3>a, <3>b, <3>c, <3>f, FurtherBack
      <3>1. p \in taken .. put - 1 /\ p - taken >= Size - Reserve
        BY <3>a, <3>c, <3>d, <3>e
      <3>2. accepted[p + 1].control = TRUE
        BY <3>1 DEF ReserveInv
      <3> QED
        BY <1>1, <3>2
    <2> QED
      BY <2>1 DEF ReserveInv
  <1>2. ASSUME NEW t \in Threads, NEW n \in Lens, NEW control \in BOOLEAN,
               Accept(t, control, n)
        PROVE  ReserveInv'
    <2> DEFINE bytes == Frame(seq, control, n)
    <2>1. n \in Nat /\ bytes \in Seq(Byte) /\ Len(bytes) = n
      <3>1. n \in Nat
        BY TxAssumption
      <3> QED
        BY <1>0, <3>1, FrameBytes
    <2>2. \A i \in 1 .. n : bytes[i].control = control
      BY DEF Frame
    <2> HIDE DEF bytes
    <2>3. /\ accepted' = accepted \o bytes /\ put' = put + n /\ taken' = taken
          /\ Size - (put - taken) >= n + (IF control THEN 0 ELSE Reserve)
      BY <1>2, <2>1 DEF Accept, RingPut, Fits, Space, bytes
    <2>4. /\ \A i \in 1 .. put : accepted'[i] = accepted[i]
          /\ \A i \in 1 .. n : accepted'[put + i] = bytes[i]
      BY <1>0, <2>1, <2>3, JoinedBytes
    <2>5. ASSUME NEW p \in taken .. put + n - 1, p - taken >= Size - Reserve
          PROVE  accepted'[p + 1].control = TRUE
      <3>1. CASE p < put
        <4>1. p \in taken .. put - 1 /\ p + 1 \in 1 .. put
          BY <1>0, <3>1
        <4> QED
          BY <2>4, <2>5, <4>1 DEF ReserveInv
      <3>2. CASE p >= put
        <4>1. p - put + 1 \in 1 .. n /\ put + (p - put + 1) = p + 1
          BY <1>0, <2>1, <3>2
        <4>2. control = TRUE
          BY <1>0, <2>1, <2>3, <2>5
        <4>3. accepted'[p + 1] = bytes[p - put + 1]
          BY <2>4, <4>1
        <4>4. bytes[p - put + 1].control = control
          BY <2>2, <4>1
        <4> QED
          BY <4>2, <4>3, <4>4
      <3>3. p \in Int
        BY <1>0, <2>1, <2>5
      <3>4. p < put \/ p >= put
        BY <1>0, <3>3
      <3> QED
        BY <3>1, <3>2, <3>4
    <2>6. put' = put + n /\ taken' = taken
      BY <2>3
    <2>7. \A p \in taken .. put + n - 1 :
             p - taken >= Size - Reserve => accepted'[p + 1].control = TRUE
      BY <2>5
    <2> SUFFICES ASSUME NEW p \in taken' .. put' - 1, p - taken' >= Size - Reserve
                 PROVE  accepted'[p + 1].control = TRUE
      BY DEF ReserveInv
    <2>8. p \in taken .. put + n - 1 /\ p - taken >= Size - Reserve
      <3>1. /\ taken \in Nat /\ put \in Nat /\ n \in Nat
            /\ Size \in Nat /\ Reserve \in Nat
        BY <1>0, <2>1
      <3>2. p \in Int /\ taken <= p /\ p <= put + n - 1
        BY <2>6, <3>1
      <3>3. p - taken >= Size - Reserve
        BY <2>6
      <3> QED
        BY <3>1, <3>2, <3>3
    <2> QED
      BY <2>7, <2>8
  <1>3. ASSUME NEW t \in Threads,
               \/ Call(t) \/ CountLoad(t) \/ CountStore(t) \/ Measure(t) \/ Give(t)
               \/ \E n \in Lens :
                    \/ EncodeRejects(t, n)
                    \/ \E control \in BOOLEAN : Refuse(t, control, n)
        PROVE  ReserveInv'
    <2>1. UNCHANGED <<put, taken, accepted>>
      BY <1>3 DEF Call, CountLoad, CountStore, Measure, Give, EncodeRejects, Refuse
    <2> QED
      BY <1>0, <1>1, <2>1
  <1>4. CASE Transmit \/ Reset \/ DmaDone \/ UNCHANGED vars
    <2>1. UNCHANGED <<put, accepted>> /\ (taken' = taken \/ taken' = taken + claim)
      BY <1>4 DEF Transmit, TxClaim, TxWaitReady, TxWaitDone, TxStart, HoldSpan,
         TxFails, TxWakes, TxFinish, Reset, DmaDone, vars
    <2> QED
      BY <1>0, <1>1, <2>1
  <1>5. \A t \in Threads : Kinds(t) \subseteq BOOLEAN
    BY DEF Kinds
  <1> QED
    BY <1>2, <1>3, <1>4, <1>5 DEF Next, Send

(* It holds always.                                                         *)
LEMMA Invariant == Spec => []Inv
  <1>1. Inv /\ [Next]_vars => Inv'
    BY HeldNext, StreamNext, ReserveNext, HighNext, CountNext DEF Inv
  <1> QED
    BY <1>1, InvInit, PTL DEF Spec
-----------------------------------------------------------------------------
(* The link's variables keep their types: the ring never holds more than    *)
(* its memory, nor is more of it claimed than it holds.                     *)
THEOREM LinkTypeCorrect == Spec => []TypeOK
  <1>1. Inv => TypeOK
    BY DEF Inv, Typed
  <1> QED
    BY <1>1, Invariant, PTL

(* What the UART has sent and what the ring still holds are the accepted    *)
(* frames, byte for byte and in order.                                      *)
THEOREM StreamAlwaysIntact == Spec => []StreamIntact
  <1>1. ASSUME Inv PROVE StreamIntact
    <2>0. /\ taken \in Nat /\ claim \in Nat /\ put \in Nat
          /\ taken + claim <= put
          /\ accepted \in Seq(Byte) /\ wire \in Seq(Byte)
      BY <1>1 DEF Inv, Typed, TypeOK
    <2>s. /\ Len(accepted) = put /\ Len(wire) = Read
          /\ \A i \in 1 .. Read : wire[i] = accepted[i]
          /\ \A p \in taken .. put - 1 : At(p) = accepted[p + 1]
      BY <1>1 DEF Inv, StreamInv
    <2> DEFINE done == tx = "dma" /\ dma.n = 0
               rest == IF done THEN SubSeq(Unread, claim + 1, Len(Unread))
                       ELSE Unread
    <2>1. /\ Unread \in Seq(Byte) /\ Len(Unread) = put - taken
          /\ \A i \in 1 .. put - taken : Unread[i] = accepted[taken + i]
      <3>1. ASSUME NEW i \in 1 .. put - taken
            PROVE  At(taken + i - 1) = accepted[taken + i] /\ accepted[taken + i] \in Byte
        <4>1. /\ taken + i - 1 \in taken .. put - 1
              /\ taken + i \in 1 .. Len(accepted)
              /\ (taken + i - 1) + 1 = taken + i
          BY <2>0, <2>s
        <4> QED
          BY <2>0, <2>s, <4>1
      <3>2. put - taken \in Nat
        BY <2>0
      <3> QED
        BY <3>1, <3>2 DEF Unread
    <2>2. /\ rest \in Seq(Byte) /\ Read + Len(rest) = put /\ Read \in Nat
          /\ \A i \in 1 .. Len(rest) : rest[i] = accepted[Read + i]
      <3>1. CASE done
        <4>1. Read = taken + claim /\ rest = SubSeq(Unread, claim + 1, Len(Unread))
          BY <3>1 DEF Read
        <4>2. /\ rest \in Seq(Byte) /\ Len(rest) = put - taken - claim
              /\ \A i \in 1 .. put - taken - claim : rest[i] = Unread[claim + i]
          <5> HIDE DEF rest
          <5>1. /\ claim \in Nat /\ claim <= Len(Unread) /\ Unread \in Seq(Byte)
                /\ Len(Unread) - claim = put - taken - claim
            BY <2>0, <2>1
          <5>2. /\ SubSeq(Unread, claim + 1, Len(Unread)) \in Seq(Byte)
                /\ Len(SubSeq(Unread, claim + 1, Len(Unread))) = put - taken - claim
                /\ \A i \in 1 .. put - taken - claim :
                     SubSeq(Unread, claim + 1, Len(Unread))[i] = Unread[claim + i]
            BY <5>1, TailBytes
          <5> QED
            BY <4>1, <5>2
        <4>3. \A i \in 1 .. put - taken - claim :
                claim + i \in 1 .. put - taken /\ taken + (claim + i) = Read + i
          BY <2>0, <4>1
        <4> HIDE DEF rest
        <4>4. Len(rest) = put - Read /\ Read \in Nat /\ Len(rest) \in Nat
          <5>1. /\ put - taken - claim = put - (taken + claim)
                /\ put - taken - claim \in Nat /\ taken + claim \in Nat
            BY <2>0
          <5> QED
            BY <4>1, <4>2, <5>1
        <4>5. ASSUME NEW i \in 1 .. Len(rest) PROVE rest[i] = accepted[Read + i]
          <5>1. i \in 1 .. put - taken - claim
            BY <4>2
          <5>2. rest[i] = Unread[claim + i] /\ claim + i \in 1 .. put - taken
            BY <4>2, <4>3, <5>1
          <5>3. Unread[claim + i] = accepted[taken + (claim + i)]
            BY <2>1, <5>2
          <5> QED
            BY <4>3, <5>1, <5>2, <5>3
        <4> QED
          BY <2>0, <4>2, <4>4, <4>5
      <3>2. CASE ~done
        <4>1. Read = taken /\ rest = Unread
          BY <3>2 DEF Read
        <4> HIDE DEF rest
        <4> QED
          BY <2>0, <2>1, <4>1
      <3> QED
        BY <3>1, <3>2
    <2> HIDE DEF rest
    <2>3. wire \o rest = accepted
      <3>1. /\ wire \o rest \in Seq(Byte) /\ Len(wire \o rest) = put
            /\ \A i \in 1 .. Read : (wire \o rest)[i] = wire[i]
            /\ \A i \in 1 .. Len(rest) : (wire \o rest)[Read + i] = rest[i]
        BY <2>0, <2>2, <2>s, JoinedBytes
      <3>2. ASSUME NEW i \in 1 .. put PROVE (wire \o rest)[i] = accepted[i]
        <4>1. CASE i <= Read
          BY <2>2, <2>s, <3>1, <4>1
        <4>2. CASE i > Read
          <5>1. i - Read \in 1 .. Len(rest) /\ Read + (i - Read) = i
            BY <2>0, <2>2, <4>2
          <5> QED
            BY <2>2, <3>1, <5>1
        <4>3. i <= Read \/ i > Read
          BY <2>2, SMT
        <4> QED
          BY <4>1, <4>2, <4>3
      <3> QED
        BY <2>0, <2>s, <3>1, <3>2
    <2> QED
      BY <2>3 DEF StreamIntact, rest
  <1> QED
    BY <1>1, Invariant, PTL

(* Every frame accepted and every frame refused is counted once, whatever   *)
(* threads send at once, but for a reset that crosses a count.              *)
THEOREM CountsAlwaysExact == Spec => []CountsExact
  <1>1. Inv => CountsExact
    BY DEF Inv, Typed, TypeOK, CountInv, CountsExact, Counting, Sending, Dropping
  <1> QED
    BY <1>1, Invariant, PTL

(* The high-water mark is short of the ring's content by a chunk at most.   *)
THEOREM HighWaterAlwaysHolds == Spec => []HighWaterHolds
  <1>1. Inv => HighWaterHolds
    BY DEF Inv
  <1> QED
    BY <1>1, Invariant, PTL

(* Capture data and logs never cost the host a reply: control is refused    *)
(* only for control that waits already, more than the reserve is for.       *)
THEOREM ReserveAlwaysServesControl == Spec => ReserveServesControl
  <1>1. ASSUME Inv, NEW t \in Threads, NEW n \in Lens, Refuse(t, TRUE, n)
        PROVE  ControlBytes + n > Reserve
    <2> DEFINE held == {i \in 1 .. put - taken : At(taken + i - 1).control}
               past == Size - Reserve + 1 .. put - taken
    <2>0. /\ taken \in Nat /\ put \in Nat /\ Size \in Nat /\ Reserve \in 0 .. Size
          /\ n \in Nat /\ taken <= put
      BY <1>1, TxAssumption DEF Inv, Typed, TypeOK
    <2>1. Size - (put - taken) < n
      BY <1>1, <2>0 DEF Refuse, Fits, Space
    <2>2. past \subseteq held
      <3> SUFFICES ASSUME NEW i \in past PROVE i \in held
        OBVIOUS
      <3> DEFINE p == taken + i - 1
      <3>1. /\ i \in 1 .. put - taken /\ p \in taken .. put - 1
            /\ p - taken >= Size - Reserve
        BY <2>0
      <3> HIDE DEF p
      <3>2. At(p) = accepted[p + 1] /\ accepted[p + 1].control = TRUE
        BY <1>1, <3>1 DEF Inv, StreamInv, ReserveInv
      <3> QED
        BY <3>1, <3>2 DEF p
    <2>3. IsFiniteSet(held)
      <3>1. IsFiniteSet(1 .. put - taken)
        BY <2>0, FS_Interval
      <3>2. held \in SUBSET (1 .. put - taken)
        OBVIOUS
      <3> QED
        BY <3>1, <3>2, FS_Subset
    <2>4. Cardinality(past) = IF Size - Reserve + 1 > put - taken THEN 0
                              ELSE put - taken - (Size - Reserve + 1) + 1
      BY <2>0, FS_Interval
    <2> HIDE DEF held, past
    <2>5. Cardinality(past) <= Cardinality(held) /\ Cardinality(held) \in Nat
      BY <2>2, <2>3, FS_Subset, FS_CardinalityType
    <2>6. Cardinality(held) + n > Reserve
      BY <2>0, <2>1, <2>4, <2>5
    <2> QED
      BY <2>6 DEF ControlBytes, held
  <1>2. Inv /\ [Next]_vars
        => [\A t \in Threads, n \in Lens :
              Refuse(t, TRUE, n) => ControlBytes + n > Reserve]_vars
    BY <1>1
  <1> QED
    BY <1>2, Invariant, PTL DEF Spec, ReserveServesControl
=============================================================================
