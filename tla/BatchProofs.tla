---------------------------- MODULE BatchProofs ----------------------------
(***************************************************************************)
(* Theorems about the 802.15.4 batcher, for any channels, timestamps,      *)
(* lengths and limits that satisfy BatchAssumption.                        *)
(*                                                                         *)
(* Two inductive invariants.  BufferInv carries what the buffer holds: it  *)
(* adds to Typed, NoOverrun and DeltasExact that the mutex is held while  *)
(* a packet is being added, that an empty buffer has only the header in    *)
(* it, and that a packet about to be appended passed the four tests of     *)
(* sn_batch_add against the very batch it joins.  TimerInv adds to         *)
(* LingerCovers that a work item is only ever "canceling" while its        *)
(* handler runs, which is why a refused submission loses nothing.          *)
(***************************************************************************)
EXTENDS Batch, WellFoundedInduction, TLAPS

\* What the open batch will tell the host is what was captured: one channel,
\* every length, the base the first packet's time, and every delta exactly
\* the time since the packet before it (an unsigned subtraction cut to sixteen
\* bits, which a clock running backwards or a long silence would wrap).
DeltasExact ==
  /\ Len(pending) = count
  /\ buf # <<>> =>
       /\ base_us = pending[1].ts
       /\ last_us = pending[count].ts
       /\ buf[1].dt = 0
       /\ \A i \in 1 .. count :
            /\ pending[i].ch = batch_channel
            /\ pending[i].len = buf[i].len
       /\ \A i \in 2 .. count : buf[i].dt = pending[i].ts - pending[i - 1].ts

Held == (lock = "rx") <=> (rx # "idle")

EmptyIsHeader == buf = <<>> => used = HeaderLen

AppendFits ==
  rx = "append" =>
    /\ pkt \in Captured
    /\ \/ buf = <<>>
       \/ ~CannotJoin(pkt)

BufferInv ==
  Typed /\ NoOverrun /\ DeltasExact /\ Held /\ EmptyIsHeader /\ AppendFits

CancelingRuns == linger.canceling => wq = "running"

TimerInv == LingerCovers /\ CancelingRuns
-----------------------------------------------------------------------------
(* What the host reads from a batch, of any length. *)

(* The least member of a set of naturals, from the library's theorem that   *)
(* < is well founded on them.  It stands in for induction: two functions    *)
(* that agree at 1, and at i whenever they agree at i - 1, have no least    *)
(* place where they differ.                                                 *)
LEMMA LeastMember ==
  ASSUME NEW T, T \subseteq Nat, T # {}
  PROVE  \E x \in T : \A y \in T : x <= y
  <1> DEFINE LT == {s \in Nat \X Nat : s[1] < s[2]}
  <1>1. IsWellFoundedOn(LT, Nat)
    BY NatLessThanWellFounded DEF OpToRel
  <1>2. \A x, y \in Nat : y < x => <<y, x>> \in LT
    OBVIOUS
  <1> HIDE DEF LT
  <1>3. PICK x \in T : \A y \in T : ~ (<<y, x>> \in LT)
    BY <1>1, WFMin
  <1>4. ASSUME NEW y \in T PROVE x <= y
    <2>1. x \in Nat /\ y \in Nat
      OBVIOUS
    <2>2. ~ (y < x)
      BY <2>1, <1>2, <1>3
    <2> QED
      BY <2>1, <2>2
  <1> QED
    BY <1>4

(* A delta that fits its field is not changed by the cut to its width.      *)
LEMMA DeltaFits ==
  ASSUME NEW now \in Nat, NEW since \in Nat, NEW max \in Nat,
         since <= now, now <= since + max
  PROVE  now - since \in 0 .. max /\ (now - since) % (max + 1) = now - since
  <1>1. now - since \in 0 .. max
    OBVIOUS
  <1> DEFINE d == now - since
  <1>2. d \in 0 .. max => d % (max + 1) = d
    <2> HIDE DEF d
    <2> QED
      OBVIOUS
  <1> QED
    BY <1>1, <1>2

(* If every delta is the time since the entry before, and the first one the *)
(* time since the base, the host's times are the times of capture.  The     *)
(* recursive function exists because those times satisfy its equation, and  *)
(* it is they because no other function does.                               *)
THEOREM HostTimeExact ==
  ASSUME NEW base \in Nat, NEW entries, Len(entries) \in Nat,
         NEW ts \in [1 .. Len(entries) -> Nat],
         Len(entries) > 0 => ts[1] = base + entries[1].dt,
         \A i \in 2 .. Len(entries) : ts[i] = ts[i - 1] + entries[i].dt
  PROVE  HostTime(base, entries) = ts
  <1> DEFINE n == Len(entries)
             D == 1 .. n
             step(h) == [i \in D |-> IF i = 1 THEN base + entries[1].dt
                                     ELSE h[i - 1] + entries[i].dt]
             at == HostTime(base, entries)
  <1>0. /\ n \in Nat /\ (n > 0 => ts[1] = base + entries[1].dt)
        /\ \A i \in 2 .. n : ts[i] = ts[i - 1] + entries[i].dt
        /\ ts = [i \in D |-> ts[i]]
    OBVIOUS
  <1> HIDE DEF n
  <1>1. ts = step(ts)
    <2>1. ASSUME NEW i \in D PROVE ts[i] = step(ts)[i]
      <3>1. CASE i = 1
        BY <1>0, <3>1
      <3>2. CASE i # 1
        <4>1. i \in 2 .. n /\ step(ts)[i] = ts[i - 1] + entries[i].dt
          BY <1>0, <3>2
        <4> QED
          BY <1>0, <4>1
      <3> QED
        BY <3>1, <3>2
    <2>2. step(ts) = [i \in D |-> step(ts)[i]]
      OBVIOUS
    <2> HIDE DEF step
    <2> QED
      BY <1>0, <2>1, <2>2
  <1>2. at = CHOOSE h : h = step(h)
    BY DEF HostTime, n
  <1>3. at = step(at)
    <2> HIDE DEF step, at
    <2> QED
      BY <1>1, <1>2
  <1>4. \A i \in D : at[i] = ts[i]
    <2> HIDE DEF at
    <2> DEFINE T == {i \in D : at[i] # ts[i]}
    <2>1. SUFFICES ASSUME T # {} PROVE FALSE
      OBVIOUS
    <2>2. PICK x \in T : \A y \in T : x <= y
      <3>1. T \subseteq Nat
        BY <1>0
      <3> HIDE DEF T
      <3> QED
        BY <2>1, <3>1, LeastMember
    <2>3. x \in D /\ at[x] # ts[x] /\ x # 1
      BY <1>0, <1>3
    <2>4. x \in 2 .. n /\ x - 1 \in D
      BY <1>0, <2>3
    <2>5. at[x - 1] = ts[x - 1]
      BY <1>0, <2>2, <2>4
    <2>6. at[x] = at[x - 1] + entries[x].dt
      BY <1>3, <2>3
    <2>7. ts[x] = ts[x - 1] + entries[x].dt
      BY <1>0, <2>4
    <2> QED
      BY <2>3, <2>5, <2>6, <2>7
  <1>5. at = ts
    <2> HIDE DEF at
    <2>1. at = [i \in D |-> at[i]]
      BY <1>3
    <2> QED
      BY <1>0, <1>4, <2>1
  <1> QED
    BY <1>5
-----------------------------------------------------------------------------
(* A flush either finds nothing to do or leaves an empty buffer behind;     *)
(* whichever way the link answered, the batch's own bookkeeping is intact.  *)
LEMMA FlushEmpties ==
  ASSUME BufferInv, FlushLocked
  PROVE  /\ buf' = <<>> /\ pending' = <<>> /\ used' = HeaderLen
         /\ base_us' = base_us /\ last_us' = last_us
         /\ batch_channel' = batch_channel
         /\ dropped' \in Nat
  <1>1. CASE count = 0
    <2>1. buf = <<>> /\ pending = <<>>
      BY <1>1 DEF BufferInv, Typed, DeltasExact, count
    <2> QED
      BY <1>1, <2>1
      DEF FlushLocked, BufferInv, Typed, EmptyIsHeader, bufVars, sendVars
  <1>2. CASE count # 0
    BY <1>2
    DEF FlushLocked, EmptyBuffer, Loss, count, BufferInv, Typed
  <1> QED
    BY <1>1, <1>2

(* An empty buffer satisfies the buffer's own invariants. *)
LEMMA EmptyIsFine ==
  ASSUME buf = <<>>, pending = <<>>, used = HeaderLen
  PROVE  NoOverrun /\ DeltasExact /\ EmptyIsHeader
  BY BatchAssumption DEF NoOverrun, DeltasExact, EmptyIsHeader, count

(* The buffer is empty at first.                                            *)
LEMMA BufferInit == Init => BufferInv
  <1> SUFFICES ASSUME Init PROVE BufferInv
    OBVIOUS
  <1>1. Typed
    BY BatchAssumption DEF Init, Typed, LingerIdle, NoPacket
  <1>2. NoOverrun /\ DeltasExact /\ EmptyIsHeader
    BY EmptyIsFine DEF Init
  <1>3. Held /\ AppendFits
    BY DEF Init, Held, AppendFits
  <1> QED
    BY <1>1, <1>2, <1>3 DEF BufferInv

(* The early close.  If the packet cannot join the open batch it is sent;   *)
(* if it can, the test that said so is AppendFits of the next state.        *)
LEMMA BufferAddLock ==
  ASSUME BufferInv, NEW p \in Packet, AddLock(p)
  PROVE  BufferInv'
  <1> DEFINE q == Clamp(p)
  <1>1. q \in Captured
    BY BatchAssumption DEF Clamp, Packet, Captured
  <1>2. /\ rx = "idle" /\ lock = "none" /\ offered < MaxPackets
        /\ offered' = offered + 1 /\ lock' = "rx" /\ rx' = "append"
        /\ pkt' = q /\ UNCHANGED <<reader, wq, linger>>
    BY DEF AddLock
  <1>3. Held'
    BY <1>2 DEF Held
  <1>4. CASE count > 0 /\ CannotJoin(q)
    <2>1. FlushLocked
      BY <1>4 DEF AddLock
    <2>2. /\ buf' = <<>> /\ pending' = <<>> /\ used' = HeaderLen
          /\ base_us' = base_us /\ last_us' = last_us
          /\ batch_channel' = batch_channel /\ dropped' \in Nat
      BY <2>1, FlushEmpties
    <2>3. Typed'
      BY <1>1, <1>2, <2>2, BatchAssumption DEF BufferInv, Typed
    <2>4. NoOverrun' /\ DeltasExact' /\ EmptyIsHeader'
      BY <2>2, BatchAssumption DEF NoOverrun, DeltasExact, EmptyIsHeader, count
    <2>5. AppendFits'
      BY <1>1, <1>2, <2>2 DEF AppendFits
    <2> QED
      BY <1>3, <2>3, <2>4, <2>5 DEF BufferInv
  <1>5. CASE ~(count > 0 /\ CannotJoin(q))
    <2>1. UNCHANGED <<bufVars, sendVars>>
      BY <1>5 DEF AddLock
    <2>2. Typed'
      BY <1>1, <1>2, <2>1, BatchAssumption
      DEF BufferInv, Typed, bufVars, sendVars
    <2>3. NoOverrun' /\ DeltasExact' /\ EmptyIsHeader'
      BY <1>2, <2>1 DEF BufferInv, NoOverrun, DeltasExact, EmptyIsHeader,
                        count, bufVars, sendVars
    <2>4. buf = <<>> \/ ~CannotJoin(q)
      BY <1>5 DEF BufferInv, Typed, count
    <2>5. AppendFits'
      BY <1>1, <1>2, <2>1, <2>4 DEF AppendFits, CannotJoin, bufVars
    <2> QED
      BY <1>3, <2>2, <2>3, <2>5 DEF BufferInv
  <1> QED
    BY <1>4, <1>5

(* The append.  A batch just opened has its packet's time as its base; in   *)
(* one already open the three tests on time keep the delta within sixteen   *)
(* bits, so that the cut changes nothing, and the fourth keeps the bytes.   *)
LEMMA BufferAddAppend ==
  ASSUME BufferInv, AddAppend
  PROVE  BufferInv'
  <1> DEFINE since == IF count = 0 THEN pkt.ts ELSE last_us
             dt    == (pkt.ts - since) % (MaxDt + 1)
             entry == [dt |-> dt, len |-> pkt.len]
  <1>1. /\ rx = "append" /\ rx' = "close"
        /\ base_us' = IF count = 0 THEN pkt.ts ELSE base_us
        /\ batch_channel' = IF count = 0 THEN pkt.ch ELSE batch_channel
        /\ buf' = Append(buf, entry)
        /\ used' = used + EntryLen + pkt.len
        /\ last_us' = pkt.ts
        /\ pending' = Append(pending, pkt)
        /\ UNCHANGED <<dropped, delivered, lock, pkt, reader, wq, linger,
                       offered>>
    BY DEF AddAppend
  <1>2. /\ buf \in Seq(Entry) /\ pending \in Seq(Captured)
        /\ Len(pending) = Len(buf)
        /\ used \in Nat /\ HeaderLen <= used /\ used <= MaxBytes
        /\ Len(buf) < MaxEntries
    BY <1>1 DEF BufferInv, Typed, NoOverrun, DeltasExact, count
  <1>3. /\ pkt \in Captured
        /\ pkt.ch \in Nat /\ pkt.ts \in Nat /\ pkt.len \in 0 .. MaxPsdu
        /\ buf = <<>> \/ ~CannotJoin(pkt)
    BY <1>1, BatchAssumption DEF BufferInv, AppendFits, Captured
  <1>4. last_us \in Nat /\ base_us \in Nat /\ since \in Nat
    BY <1>3, BatchAssumption DEF BufferInv, Typed
  <1>5. dt \in 0 .. MaxDt /\ dt = pkt.ts - since
    <2>1. since <= pkt.ts /\ pkt.ts <= since + MaxDt
      <3>1. CASE count = 0
        BY <3>1, <1>3, BatchAssumption
      <3>2. CASE count # 0
        <4>1. since = last_us /\ ~CannotJoin(pkt)
          BY <3>2, <1>3 DEF count
        <4> QED
          BY <4>1, <1>3, <1>4, BatchAssumption DEF CannotJoin
      <3> QED
        BY <3>1, <3>2
    <2>2. MaxDt \in Nat /\ pkt.ts \in Nat /\ since \in Nat
      BY <1>3, <1>4, BatchAssumption
    <2> HIDE DEF since
    <2> QED
      BY <2>1, <2>2, DeltaFits
  <1> HIDE DEF since, dt
  <1>6. entry \in Entry
    BY <1>3, <1>5 DEF Entry
  <1>7. Typed'
    <2> HIDE DEF entry
    <2>1. buf' \in Seq(Entry) /\ pending' \in Seq(Captured)
      BY <1>1, <1>2, <1>3, <1>6
    <2>2. used' \in Nat
      BY <1>1, <1>2, <1>3, BatchAssumption
    <2>3. base_us' \in Times \cup {0} /\ last_us' \in Times \cup {0}
      BY <1>1, <1>3 DEF BufferInv, Typed, Captured
    <2>4. batch_channel' \in Channels \cup {0}
      BY <1>1, <1>3 DEF BufferInv, Typed, Captured
    <2> QED
      BY <1>1, <2>1, <2>2, <2>3, <2>4 DEF BufferInv, Typed
  <1>8. NoOverrun'
    <2>1. used + EntryLen + pkt.len <= MaxBytes
      <3>1. CASE buf = <<>>
        BY <3>1, <1>3, BatchAssumption DEF BufferInv, EmptyIsHeader
      <3>2. CASE buf # <<>>
        BY <3>2, <1>2, <1>3, BatchAssumption DEF CannotJoin
      <3> QED
        BY <3>1, <3>2
    <2>2. Len(buf') = Len(buf) + 1
      BY <1>1, <1>2, <1>6
    <2>3. HeaderLen <= used' /\ used' <= MaxBytes
      BY <1>1, <1>2, <1>3, <2>1, BatchAssumption
    <2>4. count' <= MaxEntries
      BY <1>2, <2>2, BatchAssumption DEF count
    <2> QED
      BY <1>1, <2>3, <2>4 DEF NoOverrun
  <1>9. DeltasExact'
    <2> DEFINE n == Len(buf)
    <2>1. /\ n \in Nat
          /\ Len(buf') = n + 1 /\ Len(pending') = n + 1
          /\ buf'[n + 1] = entry /\ pending'[n + 1] = pkt
          /\ \A i \in 1 .. n : buf'[i] = buf[i] /\ pending'[i] = pending[i]
      BY <1>1, <1>2, <1>6, <1>3
    <2>2. entry.dt = dt /\ entry.len = pkt.len
      OBVIOUS
    <2>3. CASE n = 0
      <3>1. since = pkt.ts /\ base_us' = pkt.ts /\ batch_channel' = pkt.ch
        BY <2>3, <1>1 DEF since, count
      <3>2. n + 1 = 1
        BY <2>3
      <3>3. /\ buf'[1].dt = 0 /\ buf'[1].len = pkt.len
            /\ pending'[1] = pkt /\ count' = 1
        BY <2>1, <2>2, <3>1, <3>2, <1>3, <1>5 DEF count
      <3> QED
        <4>1. last_us' = pkt.ts /\ Len(pending') = 1
          BY <1>1, <2>1, <3>2
        <4> QED
          BY <3>1, <3>3, <4>1 DEF DeltasExact
    <2>4. CASE n > 0
      <3>1. /\ base_us = pending[1].ts /\ last_us = pending[n].ts
            /\ buf[1].dt = 0
            /\ \A i \in 1 .. n : /\ pending[i].ch = batch_channel
                                 /\ pending[i].len = buf[i].len
            /\ \A i \in 2 .. n : buf[i].dt = pending[i].ts - pending[i - 1].ts
        BY <2>4, <1>2 DEF BufferInv, DeltasExact, count
      <3>2. since = last_us /\ pkt.ch = batch_channel
        <4>1. count # 0 /\ ~CannotJoin(pkt)
          BY <2>4, <1>2, <1>3 DEF count
        <4> QED
          BY <4>1 DEF since, CannotJoin
      <3>3. base_us' = base_us /\ batch_channel' = batch_channel
        BY <2>4, <1>1 DEF count
      <3>4. /\ base_us' = pending'[1].ts /\ last_us' = pending'[n + 1].ts
            /\ buf'[1].dt = 0
        <4>1. 1 \in 1 .. n
          BY <2>1, <2>4
        <4>2. buf'[1] = buf[1] /\ pending'[1] = pending[1]
          BY <4>1, <2>1
        <4>3. last_us' = pending'[n + 1].ts
          BY <2>1, <1>1
        <4> QED
          BY <4>2, <4>3, <3>1, <3>3
      <3>5. \A i \in 1 .. n + 1 : /\ pending'[i].ch = batch_channel'
                                  /\ pending'[i].len = buf'[i].len
        BY <2>1, <2>2, <3>1, <3>2, <3>3
      <3>6. \A i \in 2 .. n + 1 :
              buf'[i].dt = pending'[i].ts - pending'[i - 1].ts
        <4> TAKE i \in 2 .. n + 1
        <4>1. CASE i = n + 1
          BY <4>1, <2>1, <2>2, <2>4, <3>1, <3>2, <1>5
        <4>2. CASE i # n + 1
          BY <4>2, <2>1, <3>1
        <4> QED
          BY <4>1, <4>2
      <3> QED
        BY <3>4, <3>5, <3>6, <2>1 DEF DeltasExact, count
    <2> QED
      BY <2>1, <2>3, <2>4
  <1>10. Held' /\ EmptyIsHeader' /\ AppendFits'
    <2>1. buf' # <<>>
      BY <1>1, <1>2, <1>6
    <2> QED
      BY <2>1, <1>1 DEF BufferInv, Held, EmptyIsHeader, AppendFits
  <1> QED
    BY <1>7, <1>8, <1>9, <1>10 DEF BufferInv

(* Closing the call: a full batch is sent, any other stays as it is.        *)
LEMMA BufferAddClose ==
  ASSUME BufferInv, AddClose
  PROVE  BufferInv'
  <1>1. /\ rx = "close" /\ rx' = "idle" /\ lock' = "none" /\ pkt' = NoPacket
        /\ UNCHANGED <<reader, wq, offered>>
    BY DEF AddClose
  <1>2. linger' \in [delayed : BOOLEAN, queued : BOOLEAN, canceling : BOOLEAN]
    <2>1. linger \in [delayed : BOOLEAN, queued : BOOLEAN,
                       canceling : BOOLEAN]
      BY DEF BufferInv, Typed
    <2>2. CASE Cancel
      BY <2>2 DEF Cancel
    <2>3. CASE Reschedule
      BY <2>1, <2>3 DEF Reschedule
    <2> QED
      BY <2>2, <2>3 DEF AddClose
  <1>3. Held' /\ AppendFits'
    BY <1>1 DEF Held, AppendFits
  <1>4. CASE count = MaxEntries
    <2>1. FlushLocked
      BY <1>4 DEF AddClose
    <2>2. /\ buf' = <<>> /\ pending' = <<>> /\ used' = HeaderLen
          /\ base_us' = base_us /\ last_us' = last_us
          /\ batch_channel' = batch_channel /\ dropped' \in Nat
      BY <2>1, FlushEmpties
    <2>3. Typed'
      BY <1>1, <1>2, <2>2, BatchAssumption DEF BufferInv, Typed
    <2>4. NoOverrun' /\ DeltasExact' /\ EmptyIsHeader'
      BY <2>2, BatchAssumption DEF NoOverrun, DeltasExact, EmptyIsHeader, count
    <2> QED
      BY <1>3, <2>3, <2>4 DEF BufferInv
  <1>5. CASE count # MaxEntries
    <2>1. UNCHANGED <<bufVars, sendVars>>
      BY <1>5 DEF AddClose
    <2>2. Typed'
      BY <1>1, <1>2, <2>1 DEF BufferInv, Typed, bufVars, sendVars
    <2>3. Len(buf) \in Nat /\ Len(buf) <= MaxEntries /\ Len(buf) # MaxEntries
      BY <1>5 DEF BufferInv, Typed, NoOverrun, count
    <2>4. NoOverrun'
      BY <1>1, <2>1, <2>3, BatchAssumption
      DEF BufferInv, NoOverrun, count, bufVars
    <2>5. DeltasExact' /\ EmptyIsHeader'
      BY <2>1 DEF BufferInv, DeltasExact, EmptyIsHeader,
                  count, bufVars, sendVars
    <2> QED
      BY <1>3, <2>2, <2>4, <2>5 DEF BufferInv
  <1> QED
    BY <1>4, <1>5

(* A flush from another thread needs the mutex, so no packet is half added. *)
LEMMA BufferFlush ==
  ASSUME BufferInv, lock = "none", FlushLocked,
         UNCHANGED <<lock, rx, pkt, offered>>,
         reader' \in {"idle", "flush"}, wq' \in {"idle", "running"},
         linger' \in [delayed : BOOLEAN, queued : BOOLEAN, canceling : BOOLEAN]
  PROVE  BufferInv'
  <1>1. /\ buf' = <<>> /\ pending' = <<>> /\ used' = HeaderLen
        /\ base_us' = base_us /\ last_us' = last_us
        /\ batch_channel' = batch_channel /\ dropped' \in Nat
    BY FlushEmpties
  <1>2. rx = "idle"
    BY DEF BufferInv, Typed, Held
  <1>3. Typed'
    BY <1>1, BatchAssumption DEF BufferInv, Typed
  <1>4. NoOverrun' /\ DeltasExact' /\ EmptyIsHeader'
    BY <1>1, BatchAssumption DEF NoOverrun, DeltasExact, EmptyIsHeader, count
  <1>5. Held' /\ AppendFits'
    BY <1>2 DEF BufferInv, Held, AppendFits
  <1> QED
    BY <1>3, <1>4, <1>5 DEF BufferInv

(* A step that leaves the buffer and the RX thread alone.                   *)
LEMMA BufferUntouched ==
  ASSUME BufferInv,
         UNCHANGED <<bufVars, pending, lock, rx, pkt, offered>>,
         dropped' \in Nat,
         reader' \in {"idle", "flush"}, wq' \in {"idle", "running"},
         linger' \in [delayed : BOOLEAN, queued : BOOLEAN, canceling : BOOLEAN]
  PROVE  BufferInv'
  <1>1. Typed'
    BY DEF BufferInv, Typed, bufVars
  <1>2. NoOverrun' /\ DeltasExact' /\ EmptyIsHeader'
    BY DEF BufferInv, NoOverrun, DeltasExact, EmptyIsHeader, count, bufVars
  <1>3. Held' /\ AppendFits'
    BY DEF BufferInv, Held, AppendFits, CannotJoin, bufVars
  <1> QED
    BY <1>1, <1>2, <1>3 DEF BufferInv

(* Every step of batch.c leaves the buffer as it should be.                 *)
LEMMA BufferNext == BufferInv /\ [Next]_vars => BufferInv'
  <1> SUFFICES ASSUME BufferInv, [Next]_vars PROVE BufferInv'
    OBVIOUS
  <1>1. /\ dropped \in Nat /\ reader \in {"idle", "flush"}
        /\ wq \in {"idle", "running"}
        /\ linger \in [delayed : BOOLEAN, queued : BOOLEAN, canceling : BOOLEAN]
    BY DEF BufferInv, Typed
  <1>2. ASSUME NEW p \in Packet, AddLock(p) PROVE BufferInv'
    BY <1>2, BufferAddLock
  <1>3. CASE AddAppend
    BY <1>3, BufferAddAppend
  <1>4. CASE AddClose
    BY <1>4, BufferAddClose
  <1>5. CASE TimerExpires
    BY <1>1, <1>5, BufferUntouched DEF TimerExpires, sendVars
  <1>6. CASE LingerStart
    BY <1>1, <1>6, BufferUntouched DEF LingerStart, sendVars
  <1>7. CASE LingerExpired
    BY <1>1, <1>7, BufferFlush DEF LingerExpired
  <1>8. CASE FlushCancel
    BY <1>1, <1>8, BufferUntouched DEF FlushCancel, Cancel, sendVars
  <1>9. CASE FlushSend
    BY <1>1, <1>9, BufferFlush DEF FlushSend
  <1>10. CASE ResetCounters
    BY <1>1, <1>10, BufferUntouched DEF ResetCounters
  <1>11. CASE UNCHANGED vars
    BY <1>1, <1>11, BufferUntouched DEF vars, sendVars
  <1> QED
    BY <1>2, <1>3, <1>4, <1>5, <1>6, <1>7, <1>8, <1>9, <1>10, <1>11 DEF Next

(* The batcher's buffer invariant holds in every reachable state.           *)
THEOREM BufferInvariant == Spec => []BufferInv
  <1> QED
    BY BufferInit, BufferNext, PTL DEF Spec

(* The variables of batch.c keep their types and the buffer its bounds,     *)
(* whatever the radio hands over.                                           *)
THEOREM TypeCorrect == Spec => []TypeOK
  <1>1. BufferInv => TypeOK
    BY DEF BufferInv, TypeOK
  <1> QED
    BY <1>1, BufferInvariant, PTL

(* No call of sn_batch_add writes past the end of the batch buffer, and no  *)
(* batch holds more entries than a host accepts, for every limit for which  *)
(* one longest entry fits (batch.c's "one entry of at most 132 bytes").     *)
THEOREM BufferNeverOverrun == Spec => []NoOverrun
  <1>1. BufferInv => NoOverrun
    BY DEF BufferInv
  <1> QED
    BY <1>1, BufferInvariant, PTL

(* Every sixteen-bit delta written is the exact time between two captures,  *)
(* for every sequence of timestamps, backwards ones and long silences too.  *)
THEOREM DeltasAreExact == Spec => []DeltasExact
  <1>1. BufferInv => DeltasExact
    BY DEF BufferInv
  <1> QED
    BY <1>1, BufferInvariant, PTL
-----------------------------------------------------------------------------
(* No batch is open at first, so none needs a timer.                        *)
LEMMA TimerInit == Init => TimerInv
  BY DEF Init, TimerInv, LingerCovers, CancelingRuns, LingerIdle

(* No step leaves an open batch without a timer or a thread on its way.     *)
LEMMA TimerNext == BufferInv /\ TimerInv /\ [Next]_vars => TimerInv'
  <1> SUFFICES ASSUME BufferInv, TimerInv, [Next]_vars PROVE TimerInv'
    OBVIOUS
  <1>1. /\ rx \in {"idle", "append", "close"}
        /\ linger \in [delayed : BOOLEAN, queued : BOOLEAN, canceling : BOOLEAN]
        /\ wq \in {"idle", "running"} /\ reader \in {"idle", "flush"}
    BY DEF BufferInv, Typed
  <1>2. ASSUME NEW p \in Packet, AddLock(p) PROVE TimerInv'
    <2>1. buf' = <<>> \/ buf' = buf
      BY <1>2, FlushEmpties DEF AddLock, bufVars
    <2> QED
      BY <1>2, <2>1 DEF AddLock, TimerInv, LingerCovers, CancelingRuns
  <1>3. CASE AddAppend
    BY <1>3 DEF AddAppend, TimerInv, LingerCovers, CancelingRuns
  <1>4. CASE AddClose
    <2>1. CancelingRuns'
      BY <1>1, <1>4 DEF AddClose, Cancel, Reschedule, TimerInv, CancelingRuns
    <2>2. CASE count = MaxEntries
      <3>1. buf' = <<>>
        BY <1>4, <2>2, FlushEmpties DEF AddClose
      <3> QED
        BY <2>1, <3>1 DEF TimerInv, LingerCovers
    <2>3. CASE count # MaxEntries
      <3>1. linger'.delayed
        BY <1>1, <1>4, <2>3 DEF AddClose, Reschedule
      <3> QED
        BY <2>1, <3>1 DEF TimerInv, LingerCovers
    <2> QED
      BY <2>2, <2>3
  <1>5. CASE TimerExpires
    <2>1. linger'.queued \/ wq' = "running"
      BY <1>1, <1>5 DEF TimerExpires, TimerInv, CancelingRuns
    <2>2. CancelingRuns'
      BY <1>1, <1>5 DEF TimerExpires, TimerInv, CancelingRuns
    <2> QED
      BY <2>1, <2>2 DEF TimerInv, LingerCovers
  <1>6. CASE LingerStart
    BY <1>6 DEF LingerStart, TimerInv, LingerCovers, CancelingRuns
  <1>7. CASE LingerExpired
    <2>1. buf' = <<>> /\ ~linger'.canceling
      BY <1>1, <1>7, FlushEmpties DEF LingerExpired
    <2> QED
      BY <2>1 DEF TimerInv, LingerCovers, CancelingRuns
  <1>8. CASE FlushCancel
    BY <1>1, <1>8
    DEF FlushCancel, Cancel, TimerInv, LingerCovers, CancelingRuns
  <1>9. CASE FlushSend
    <2>1. buf' = <<>> /\ UNCHANGED <<linger, wq>>
      BY <1>9, FlushEmpties DEF FlushSend
    <2> QED
      BY <2>1 DEF TimerInv, LingerCovers, CancelingRuns
  <1>10. CASE ResetCounters
    BY <1>10
    DEF ResetCounters, bufVars, TimerInv, LingerCovers, CancelingRuns
  <1>11. CASE UNCHANGED vars
    BY <1>11 DEF vars, bufVars, TimerInv, LingerCovers, CancelingRuns
  <1> QED
    BY <1>2, <1>3, <1>4, <1>5, <1>6, <1>7, <1>8, <1>9, <1>10, <1>11 DEF Next

(* No packet is ever left in the buffer with nothing on its way to send it, *)
(* whatever the interleaving of the three threads and the cancels they make.*)
THEOREM LingerAlwaysCovers == Spec => []LingerCovers
  <1>1. TimerInv => LingerCovers
    BY DEF TimerInv
  <1> QED
    BY <1>1, BufferInvariant, TimerInit, TimerNext, PTL DEF Spec
-----------------------------------------------------------------------------
(* What the host decodes from the open batch is what was captured: every    *)
(* delta is exact, so the host's sums are the times of capture.             *)
LEMMA DecodeIsPending ==
  ASSUME BufferInv, buf # <<>>
  PROVE  Decode(batch_channel, base_us, buf) = pending
  <1> DEFINE n == Len(buf)
             host == HostTime(base_us, buf)
             stamp == IF n = 1 THEN <<base_us>> ELSE host
  <1>1. /\ buf \in Seq(Entry) /\ pending \in Seq(Captured)
        /\ n \in Nat /\ n > 0 /\ Len(pending) = n /\ base_us \in Nat
    BY BatchAssumption DEF BufferInv, Typed, DeltasExact, count
  <1>2. \A i \in 1 .. n : /\ pending[i] \in Captured
                          /\ pending[i].ts \in Nat
                          /\ pending[i] = [ch |-> pending[i].ch,
                                          ts |-> pending[i].ts,
                                          len |-> pending[i].len]
    <2> TAKE i \in 1 .. n
    <2>1. pending[i] \in Captured
      BY <1>1
    <2> QED
      BY <2>1, BatchAssumption DEF Captured
  <1>3. /\ base_us = pending[1].ts /\ buf[1].dt = 0
        /\ \A i \in 1 .. n : /\ pending[i].ch = batch_channel
                             /\ pending[i].len = buf[i].len
        /\ \A i \in 2 .. n : buf[i].dt = pending[i].ts - pending[i - 1].ts
    BY DEF BufferInv, DeltasExact, count
  <1>4. host = [i \in 1 .. n |-> pending[i].ts]
    <2> DEFINE ts == [i \in 1 .. n |-> pending[i].ts]
    <2>1. n > 0 => ts[1] = base_us + buf[1].dt
      <3>1. 1 \in 1 .. n
        BY <1>1
      <3> QED
        BY <3>1, <1>1, <1>3
    <2>2. \A i \in 2 .. n : ts[i] = ts[i - 1] + buf[i].dt
      <3> TAKE i \in 2 .. n
      <3>1. i \in 1 .. n /\ i - 1 \in 1 .. n
        BY <1>1
      <3>2. ts[i] = pending[i].ts /\ ts[i - 1] = pending[i - 1].ts
        BY <3>1
      <3>3. ts[i] \in Nat /\ ts[i - 1] \in Nat
        BY <3>1, <3>2, <1>2
      <3>4. buf[i].dt = ts[i] - ts[i - 1]
        BY <1>3, <3>2
      <3> HIDE DEF ts
      <3> QED
        BY <3>3, <3>4
    <2>3. ts \in [1 .. Len(buf) -> Nat]
      BY <1>1, <1>2
    <2>4. base_us \in Nat /\ Len(buf) \in Nat
      BY <1>1
    <2> HIDE DEF ts
    <2>5. HostTime(base_us, buf) = ts
      BY <2>1, <2>2, <2>3, <2>4, HostTimeExact
    <2> QED
      BY <2>5 DEF ts
  <1>5. \A i \in 1 .. n : stamp[i] = pending[i].ts
    <2> HIDE DEF host
    <2>1. CASE n = 1
      BY <2>1, <1>3
    <2>2. CASE n # 1
      BY <2>2, <1>4
    <2> QED
      BY <2>1, <2>2
  <1>6. Decode(batch_channel, base_us, buf) =
          [i \in 1 .. n |-> [ch |-> batch_channel, ts |-> stamp[i],
                            len |-> buf[i].len]]
    BY DEF Decode
  <1> HIDE DEF stamp
  <1>7. Decode(batch_channel, base_us, buf) = [i \in 1 .. n |-> pending[i]]
    BY <1>2, <1>3, <1>5, <1>6
  <1> QED
    BY <1>1, <1>7

(* A flush that finds a batch delivers all of it or counts all of it; one   *)
(* that finds none is no step of the pipe.                                  *)
LEMMA FlushIsPipeStep ==
  ASSUME BufferInv, FlushLocked
  PROVE  [Pipe!Deliver \/ Pipe!Refuse]_<<pending, delivered, dropped>>
  <1>1. CASE count = 0
    BY <1>1 DEF FlushLocked, sendVars
  <1>2. CASE count # 0
    <2>1. buf # <<>> /\ pending # <<>> /\ Len(pending) = count
      BY <1>2 DEF BufferInv, Typed, DeltasExact, count
    <2>2. Decode(batch_channel, base_us, buf) = pending
      BY <2>1, DecodeIsPending
    <2>3. /\ pending' = <<>>
          /\ \/ delivered' = delivered \o pending /\ UNCHANGED dropped
             \/ dropped' = dropped + Len(pending) /\ UNCHANGED delivered
      BY <1>2, <2>1, <2>2 DEF FlushLocked, Loss
    <2> QED
      BY <2>1, <2>3 DEF Pipe!Deliver, Pipe!Refuse
  <1> QED
    BY <1>1, <1>2

(* Every step of the batcher is a step of the lossy FIFO, or none.          *)
LEMMA PipeStep ==
  ASSUME BufferInv, [Next]_vars
  PROVE  [Pipe!Next]_(Pipe!vars)
  <1> USE DEF Pipe!vars
  <1>1. FlushLocked => [Pipe!Next]_(Pipe!vars)
    BY FlushIsPipeStep DEF Pipe!Next
  <1>2. ASSUME NEW p \in Packet, AddLock(p) PROVE [Pipe!Next]_(Pipe!vars)
    BY <1>1, <1>2 DEF AddLock, sendVars
  <1>3. CASE AddAppend
    <2>1. pkt \in Captured
      BY <1>3 DEF AddAppend, BufferInv, AppendFits
    <2> QED
      BY <1>3, <2>1 DEF AddAppend, Pipe!Take, Pipe!Next
  <1>4. CASE AddClose
    BY <1>1, <1>4 DEF AddClose, sendVars
  <1>5. CASE TimerExpires \/ LingerStart \/ FlushCancel
    BY <1>5 DEF TimerExpires, LingerStart, FlushCancel, sendVars
  <1>6. CASE LingerExpired \/ FlushSend
    BY <1>1, <1>6 DEF LingerExpired, FlushSend
  <1>7. CASE ResetCounters
    BY <1>7 DEF ResetCounters, Pipe!Reset, Pipe!Next
  <1>8. CASE UNCHANGED vars
    BY <1>8 DEF vars, sendVars
  <1> QED
    BY <1>2, <1>3, <1>4, <1>5, <1>6, <1>7, <1>8 DEF Next

(* batch.c implements the lossy FIFO, for every length of batch: whatever   *)
(* the radio hands over reaches the host in order, with its channel, its    *)
(* length and its exact time, or is counted as dropped.                     *)
THEOREM BatchIsALossyFifo == Spec => LossyFifoSpec
  <1>1. Init => Pipe!Init
    BY DEF Init, Pipe!Init
  <1>2. BufferInv /\ [Next]_vars => [Pipe!Next]_(Pipe!vars)
    BY PipeStep
  <1> QED
    BY <1>1, <1>2, BufferInvariant, PTL DEF Spec, LossyFifoSpec, Pipe!Spec
=============================================================================
