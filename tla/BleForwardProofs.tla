-------------------------- MODULE BleForwardProofs --------------------------
(***************************************************************************)
(* Theorems about the forwarding of BLE packets, for any packets, clock    *)
(* and limits that satisfy ForwardAssumption.                              *)
(*                                                                         *)
(* The invariant has six parts, each inductive with those before it:       *)
(* MutexInv, who owns the mutex and who waits; SessionInv, what a running  *)
(* STOP and the reset of the counters exclude; BufferInv, what is in the   *)
(* batch; StopInv, what can come behind a STOP's flush; CountInv, the      *)
(* counters; TimerInv, the linger timer.                                   *)
(***************************************************************************)
EXTENDS BleForward, WellFoundedInduction, TLAPS

FwdPlaces == {"idle", "note", "lock", "wait", "locked", "early", "early.clear",
              "append", "count", "full", "full.clear"}
ReaderPlaces == {"idle", "lock", "wait", "locked", "send", "send.clear", "reset"}
                  \cup Clearing
WqPlaces == {"idle", "lock", "wait", "locked", "send"}

PlacesOf(t) ==
  IF t = "fwd" THEN FwdPlaces ELSE IF t = "reader" THEN ReaderPlaces ELSE WqPlaces

\* One owner; the threads that wait are those in the queue, each in it once;
\* and nobody waits for a mutex that is free.
MutexInv ==
  /\ pc = [t \in Threads |-> pc[t]]
  /\ \A t \in Threads : pc[t] \in PlacesOf(t)
  /\ waiting \in Seq(Threads)
  /\ block \in Threads \cup {"none"}
  /\ \A t \in Threads : block = t <=> pc[t] \in Owning
  /\ \A t \in Threads :
       pc[t] = "wait" <=> \E i \in 1 .. Len(waiting) : waiting[i] = t
  /\ \A i, j \in 1 .. Len(waiting) : waiting[i] = waiting[j] => i = j
  /\ block = "none" => waiting = <<>>
-----------------------------------------------------------------------------
(* What the host reads from a batch, of any length: BatchProofs has the same. *)

(* The least member of a set of naturals, from the library's theorem that   *)
(* < is well founded on them.  It stands in for induction: two functions    *)
(* that agree at 1, and at i whenever they agree at i - 1, have no least    *)
(* place where they differ.                                                 *)
LEMMA LeastMember ==
  ASSUME NEW T, T \subseteq Nat, T # {}
  PROVE  \E x \in T : \A y \in T : x <= y
  <1> DEFINE LT == {s \in Nat \X Nat : s[1] < s[2]}
  <1>1. IsWellFoundedOn(LT, Nat)
    BY NatLessThanWellFounded DEF OpToRel
  <1>2. \A x, y \in Nat : y < x => <<y, x>> \in LT
    OBVIOUS
  <1> HIDE DEF LT
  <1>3. PICK x \in T : \A y \in T : ~ (<<y, x>> \in LT)
    BY <1>1, WFMin
  <1>4. ASSUME NEW y \in T PROVE x <= y
    <2>1. x \in Nat /\ y \in Nat
      OBVIOUS
    <2>2. ~ (y < x)
      BY <2>1, <1>2, <1>3
    <2> QED
      BY <2>1, <2>2
  <1> QED
    BY <1>4

(* A delta that fits its field is not changed by the cut to its width.      *)
LEMMA DeltaFits ==
  ASSUME NEW now \in Nat, NEW since \in Nat, NEW max \in Nat,
         since <= now, now <= since + max
  PROVE  now - since \in 0 .. max /\ (now - since) % (max + 1) = now - since
  <1>1. now - since \in 0 .. max
    OBVIOUS
  <1> DEFINE d == now - since
  <1>2. d \in 0 .. max => d % (max + 1) = d
    <2> HIDE DEF d
    <2> QED
      OBVIOUS
  <1> QED
    BY <1>1, <1>2

(* If every delta is the time since the entry before, and the first one the *)
(* time since the base, the host's times are the times of capture.  The     *)
(* recursive function exists because those times satisfy its equation, and  *)
(* it is they because no other function does.                               *)
LEMMA HostTimeExact ==
  ASSUME NEW base \in Nat, NEW entries, Len(entries) \in Nat,
         NEW ts \in [1 .. Len(entries) -> Nat],
         Len(entries) > 0 => ts[1] = base + entries[1].dt,
         \A i \in 2 .. Len(entries) : ts[i] = ts[i - 1] + entries[i].dt
  PROVE  HostTime(base, entries) = ts
  <1> DEFINE n == Len(entries)
             D == 1 .. n
             step(h) == [i \in D |-> IF i = 1 THEN base + entries[1].dt
                                     ELSE h[i - 1] + entries[i].dt]
             at == HostTime(base, entries)
  <1>0. /\ n \in Nat /\ (n > 0 => ts[1] = base + entries[1].dt)
        /\ \A i \in 2 .. n : ts[i] = ts[i - 1] + entries[i].dt
        /\ ts = [i \in D |-> ts[i]]
    OBVIOUS
  <1> HIDE DEF n
  <1>1. ts = step(ts)
    <2>1. ASSUME NEW i \in D PROVE ts[i] = step(ts)[i]
      <3>1. CASE i = 1
        BY <1>0, <3>1
      <3>2. CASE i # 1
        <4>1. i \in 2 .. n /\ step(ts)[i] = ts[i - 1] + entries[i].dt
          BY <1>0, <3>2
        <4> QED
          BY <1>0, <4>1
      <3> QED
        BY <3>1, <3>2
    <2>2. step(ts) = [i \in D |-> step(ts)[i]]
      OBVIOUS
    <2> HIDE DEF step
    <2> QED
      BY <1>0, <2>1, <2>2
  <1>2. at = CHOOSE h : h = step(h)
    BY DEF HostTime, n
  <1>3. at = step(at)
    <2> HIDE DEF step, at
    <2> QED
      BY <1>1, <1>2
  <1>4. \A i \in D : at[i] = ts[i]
    <2> HIDE DEF at
    <2> DEFINE T == {i \in D : at[i] # ts[i]}
    <2>1. SUFFICES ASSUME T # {} PROVE FALSE
      OBVIOUS
    <2>2. PICK x \in T : \A y \in T : x <= y
      <3>1. T \subseteq Nat
        BY <1>0
      <3> HIDE DEF T
      <3> QED
        BY <2>1, <3>1, LeastMember
    <2>3. x \in D /\ at[x] # ts[x] /\ x # 1
      BY <1>0, <1>3
    <2>4. x \in 2 .. n /\ x - 1 \in D
      BY <1>0, <2>3
    <2>5. at[x - 1] = ts[x - 1]
      BY <1>0, <2>2, <2>4
    <2>6. at[x] = at[x - 1] + entries[x].dt
      BY <1>3, <2>3
    <2>7. ts[x] = ts[x - 1] + entries[x].dt
      BY <1>0, <2>4
    <2> QED
      BY <2>3, <2>5, <2>6, <2>7
  <1>5. at = ts
    <2> HIDE DEF at
    <2>1. at = [i \in D |-> at[i]]
      BY <1>3
    <2> QED
      BY <1>0, <1>4, <2>1
  <1> QED
    BY <1>5
-----------------------------------------------------------------------------
(* The queue. *)

(* A thread that joins the queue at its end.                                *)
LEMMA QueueAppend ==
  ASSUME NEW q \in Seq(Threads), NEW t \in Threads
  PROVE  /\ Append(q, t) \in Seq(Threads)
         /\ Len(Append(q, t)) = Len(q) + 1
         /\ \A i \in 1 .. Len(q) : Append(q, t)[i] = q[i]
         /\ Append(q, t)[Len(q) + 1] = t
  OBVIOUS

(* A thread that joins it at its head.                                      *)
LEMMA QueuePrepend ==
  ASSUME NEW q \in Seq(Threads), NEW t \in Threads
  PROVE  /\ <<t>> \o q \in Seq(Threads)
         /\ Len(<<t>> \o q) = Len(q) + 1
         /\ \A i \in 1 .. Len(q) : (<<t>> \o q)[i + 1] = q[i]
         /\ (<<t>> \o q)[1] = t
  OBVIOUS

(* What the queue is without its head.                                      *)
LEMMA QueueTail ==
  ASSUME NEW q \in Seq(Threads), q # <<>>
  PROVE  /\ Tail(q) \in Seq(Threads)
         /\ Len(Tail(q)) = Len(q) - 1
         /\ \A i \in 1 .. Len(q) - 1 : Tail(q)[i] = q[i + 1]
         /\ Head(q) = q[1] /\ Head(q) \in Threads /\ Len(q) >= 1
  OBVIOUS

(* A step of the owner, or of a thread outside the lock, that neither takes *)
(* the mutex nor gives it back.                                             *)
LEMMA MutexPlace ==
  ASSUME MutexInv, NEW t \in Threads, NEW at \in PlacesOf(t),
         pc' = [pc EXCEPT ![t] = at], UNCHANGED <<block, waiting>>,
         pc[t] \in Owning <=> at \in Owning, pc[t] # "wait", at # "wait"
  PROVE  MutexInv'
  <1>1. \A u \in Threads : pc'[u] = IF u = t THEN at ELSE pc[u]
    BY DEF MutexInv
  <1>2. pc' = [u \in Threads |-> pc'[u]]
    BY DEF MutexInv
  <1> QED
    BY <1>1, <1>2 DEF MutexInv

(* k_mutex_lock, whether it is free or not.                                 *)
LEMMA MutexLock ==
  ASSUME MutexInv, NEW t \in Threads, Lock(t)
  PROVE  MutexInv'
  <1>1. pc[t] = "lock" /\ pc[t] \notin Owning
    BY DEF Lock, Owning
  <1>2. "locked" \in PlacesOf(t) /\ "wait" \in PlacesOf(t)
    BY DEF PlacesOf, FwdPlaces, ReaderPlaces, WqPlaces
  <1>3. CASE block = "none"
    <2>1. block' = t /\ waiting' = waiting /\ pc' = [pc EXCEPT ![t] = "locked"]
      BY <1>3 DEF Lock, Goes
    <2>2. \A u \in Threads : pc'[u] = IF u = t THEN "locked" ELSE pc[u]
      BY <2>1 DEF MutexInv
    <2>3. pc' = [u \in Threads |-> pc'[u]]
      BY <2>1 DEF MutexInv
    <2>4. \A u \in Threads : pc[u] \notin Owning
      BY <1>3 DEF MutexInv, Threads
    <2> QED
      BY <1>1, <1>2, <1>3, <2>1, <2>2, <2>3, <2>4 DEF MutexInv, Owning
  <1>4. CASE block # "none"
    <2>1. /\ block' = block /\ pc' = [pc EXCEPT ![t] = "wait"]
          /\ waiting' = IF t = "wq" THEN <<t>> \o waiting ELSE Append(waiting, t)
      BY <1>4 DEF Lock, Goes
    <2>2. \A u \in Threads : pc'[u] = IF u = t THEN "wait" ELSE pc[u]
      BY <2>1 DEF MutexInv
    <2>3. pc' = [u \in Threads |-> pc'[u]]
      BY <2>1 DEF MutexInv
    <2> DEFINE n == Len(waiting)
    <2>4. /\ n \in Nat /\ waiting \in Seq(Threads)
          /\ \A i \in 1 .. n : waiting[i] # t
      BY <1>1 DEF MutexInv
    <2>5. /\ waiting' \in Seq(Threads) /\ Len(waiting') = n + 1
          /\ \A u \in Threads :
               (\E i \in 1 .. n + 1 : waiting'[i] = u)
                 <=> u = t \/ \E i \in 1 .. n : waiting[i] = u
          /\ \A i, j \in 1 .. n + 1 : waiting'[i] = waiting'[j] => i = j
      <3>1. \A i, j \in 1 .. n : waiting[i] = waiting[j] => i = j
        BY DEF MutexInv
      <3>2. CASE t = "wq"
        <4>1. waiting' = <<t>> \o waiting
          BY <2>1, <3>2
        <4>2. /\ waiting' \in Seq(Threads) /\ Len(waiting') = n + 1
              /\ waiting'[1] = t
              /\ \A i \in 1 .. n : waiting'[i + 1] = waiting[i]
          BY <4>1, <2>4, QueuePrepend
        <4>3. \A i \in 2 .. n + 1 : i - 1 \in 1 .. n /\ waiting'[i] = waiting[i - 1]
          BY <4>2, <2>4
        <4>4. \A i \in 1 .. n + 1 : i = 1 \/ i \in 2 .. n + 1
          BY <2>4
        <4>5. \A i, j \in 1 .. n + 1 : waiting'[i] = waiting'[j] => i = j
          BY <4>2, <4>3, <4>4, <3>1, <2>4
        <4>6. \A u \in Threads :
               (\E i \in 1 .. n + 1 : waiting'[i] = u)
                 <=> u = t \/ \E i \in 1 .. n : waiting[i] = u
          <5> TAKE u \in Threads
          <5>1. ASSUME NEW i \in 1 .. n + 1, waiting'[i] = u
                PROVE  u = t \/ \E k \in 1 .. n : waiting[k] = u
            BY <5>1, <4>2, <4>3, <4>4
          <5>2. ASSUME u = t PROVE \E i \in 1 .. n + 1 : waiting'[i] = u
            BY <5>2, <4>2, <2>4
          <5>3. ASSUME NEW k \in 1 .. n, waiting[k] = u
                PROVE  \E i \in 1 .. n + 1 : waiting'[i] = u
            <6>1. k + 1 \in 1 .. n + 1
              BY <2>4
            <6> QED
              BY <6>1, <5>3, <4>2
          <5> QED
            BY <5>1, <5>2, <5>3
        <4> QED
          BY <4>2, <4>5, <4>6
      <3>3. CASE t # "wq"
        <4>1. waiting' = Append(waiting, t)
          BY <2>1, <3>3
        <4>2. /\ waiting' \in Seq(Threads) /\ Len(waiting') = n + 1
              /\ waiting'[n + 1] = t
              /\ \A i \in 1 .. n : waiting'[i] = waiting[i]
          BY <4>1, <2>4, QueueAppend
        <4> QED
          BY <4>2, <3>1, <2>4
      <3> QED
        BY <3>2, <3>3
    <2>6. \A u \in Threads : block' = u <=> pc'[u] \in Owning
      BY <1>1, <2>1, <2>2 DEF MutexInv, Owning
    <2>7. \A u \in Threads : pc'[u] \in PlacesOf(u)
      BY <1>2, <2>2 DEF MutexInv
    <2>8. \A u \in Threads :
            pc'[u] = "wait" <=> \E i \in 1 .. Len(waiting') : waiting'[i] = u
      BY <2>2, <2>5 DEF MutexInv
    <2>9. \A i, j \in 1 .. Len(waiting') : waiting'[i] = waiting'[j] => i = j
      BY <2>5
    <2>10. block' \in Threads \cup {"none"} /\ block' # "none"
      BY <1>4, <2>1 DEF MutexInv
    <2> QED
      BY <2>3, <2>5, <2>6, <2>7, <2>8, <2>9, <2>10 DEF MutexInv
  <1> QED
    BY <1>3, <1>4

(* Giving the mutex back: the first in the queue owns it now, and nobody    *)
(* else has moved.                                                          *)
LEMMA MutexUnlock ==
  ASSUME MutexInv, NEW t \in Threads, NEW at \in {"idle", "reset"},
         at \in PlacesOf(t), pc[t] \in Owning, Unlock(t, at)
  PROVE  /\ MutexInv'
         /\ pc'[t] = at
         /\ \A u \in Threads \ {t} :
              \/ pc'[u] = pc[u]
              \/ /\ pc[u] = "wait" /\ pc'[u] = "locked"
                 /\ waiting # <<>> /\ waiting[1] = u
  <1>1. at \notin Owning /\ at # "wait" /\ block = t
    BY DEF Owning, MutexInv
  <1>2. CASE waiting = <<>>
    <2>1. block' = "none" /\ waiting' = <<>> /\ pc' = [pc EXCEPT ![t] = at]
      BY <1>2 DEF Unlock, Goes
    <2>2. \A u \in Threads : pc'[u] = IF u = t THEN at ELSE pc[u]
      BY <2>1 DEF MutexInv
    <2>3. pc' = [u \in Threads |-> pc'[u]]
      BY <2>1 DEF MutexInv
    <2>4. \A u \in Threads : pc'[u] # "wait" /\ pc'[u] \notin Owning
      BY <1>1, <1>2, <2>2 DEF MutexInv
    <2>5. "none" \notin Threads
      BY DEF Threads
    <2> QED
      BY <1>1, <1>2, <2>1, <2>2, <2>3, <2>4, <2>5 DEF MutexInv
  <1>3. CASE waiting # <<>>
    <2> DEFINE h == Head(waiting)
               n == Len(waiting)
    <2>1. /\ block' = h /\ waiting' = Tail(waiting)
          /\ pc' = [pc EXCEPT ![t] = at, ![h] = "locked"]
      BY <1>3 DEF Unlock
    <2>2. /\ waiting' \in Seq(Threads) /\ Len(waiting') = n - 1
          /\ \A i \in 1 .. n - 1 : waiting'[i] = waiting[i + 1]
          /\ h = waiting[1] /\ h \in Threads /\ n >= 1 /\ n \in Nat
      BY <1>3, <2>1, QueueTail DEF MutexInv
    <2>3. pc[h] = "wait" /\ h # t
      <3>1. 1 \in 1 .. n
        BY <2>2
      <3>2. pc[h] = "wait"
        BY <3>1, <2>2 DEF MutexInv
      <3> QED
        BY <3>2 DEF Owning
    <2>4. \A u \in Threads :
            pc'[u] = IF u = t THEN at ELSE IF u = h THEN "locked" ELSE pc[u]
      BY <2>1, <2>2, <2>3 DEF MutexInv
    <2>5. pc' = [u \in Threads |-> pc'[u]]
      BY <2>1 DEF MutexInv
    <2>6. \A u \in Threads : (\E i \in 1 .. n - 1 : waiting'[i] = u)
                               <=> u # h /\ pc[u] = "wait"
      <3>1. \A i, j \in 1 .. n : waiting[i] = waiting[j] => i = j
        BY DEF MutexInv
      <3>2. \A u \in Threads : pc[u] = "wait" <=> \E i \in 1 .. n : waiting[i] = u
        BY DEF MutexInv
      <3> TAKE u \in Threads
      <3>3. ASSUME NEW i \in 1 .. n - 1, waiting'[i] = u
            PROVE  u # h /\ pc[u] = "wait"
        <4>1. i + 1 \in 1 .. n /\ 1 \in 1 .. n /\ i + 1 # 1
          BY <2>2
        <4>2. waiting[i + 1] = u
          BY <2>2, <3>3
        <4> QED
          BY <4>1, <4>2, <3>1, <3>2, <2>2
      <3>4. ASSUME u # h, pc[u] = "wait"
            PROVE  \E i \in 1 .. n - 1 : waiting'[i] = u
        <4>1. PICK i \in 1 .. n : waiting[i] = u
          BY <3>2, <3>4
        <4>2. i # 1 /\ i - 1 \in 1 .. n - 1 /\ (i - 1) + 1 = i
          BY <4>1, <3>4, <2>2
        <4>3. waiting'[i - 1] = u
          BY <4>1, <4>2, <2>2
        <4> QED
          BY <4>2, <4>3
      <3> QED
        BY <3>3, <3>4
    <2>7. \A i, j \in 1 .. n - 1 : waiting'[i] = waiting'[j] => i = j
      <3> TAKE i, j \in 1 .. n - 1
      <3>1. i + 1 \in 1 .. n /\ j + 1 \in 1 .. n
        BY <2>2
      <3>2. waiting'[i] = waiting[i + 1] /\ waiting'[j] = waiting[j + 1]
        BY <2>2
      <3>3. waiting[i + 1] = waiting[j + 1] => i + 1 = j + 1
        BY <3>1 DEF MutexInv
      <3> QED
        BY <3>2, <3>3, <2>2
    <2>8. "locked" \in PlacesOf(h) /\ "locked" \in Owning
      BY DEF PlacesOf, FwdPlaces, ReaderPlaces, WqPlaces, Owning
    <2>9. \A u \in Threads : pc'[u] = "wait" <=> u # h /\ pc[u] = "wait"
      BY <1>1, <2>3, <2>4, <2>8 DEF Owning
    <2>10. \A u \in Threads : block' = u <=> pc'[u] \in Owning
      BY <1>1, <2>1, <2>2, <2>3, <2>4, <2>8 DEF MutexInv
    <2>11. "none" \notin Threads
      BY DEF Threads
    <2>12. \A u \in Threads : pc'[u] \in PlacesOf(u)
      BY <2>4, <2>8 DEF MutexInv
    <2>13. \A u \in Threads :
             pc'[u] = "wait" <=> \E i \in 1 .. Len(waiting') : waiting'[i] = u
      BY <2>2, <2>6, <2>9
    <2>14. \A i, j \in 1 .. Len(waiting') : waiting'[i] = waiting'[j] => i = j
      BY <2>2, <2>7
    <2>15. block' \in Threads \cup {"none"} /\ block' # "none"
      BY <2>1, <2>2, <2>11
    <2>16. MutexInv'
      BY <2>2, <2>5, <2>10, <2>12, <2>13, <2>14, <2>15 DEF MutexInv
    <2> QED
      BY <1>3, <2>2, <2>3, <2>4, <2>16
  <1> QED
    BY <1>2, <1>3

(* A flush leaves the threads alone.                                        *)
LEMMA MutexStay ==
  ASSUME MutexInv, UNCHANGED <<block, waiting, pc>>
  PROVE  MutexInv'
  BY DEF MutexInv

(* The mutex is free at first.                                              *)
LEMMA MutexInit == Init => MutexInv
  BY DEF Init, MutexInv, PlacesOf, FwdPlaces, ReaderPlaces, WqPlaces, Owning,
         Threads

(* A STOP or the linger handler with nothing to send, or something.         *)
LEMMA MutexEnter ==
  ASSUME MutexInv, NEW t \in Threads \ {"fwd"}, NEW then \in {"idle", "reset"},
         then \in PlacesOf(t), Enter(t, then)
  PROVE  MutexInv'
  <1>1. pc[t] = "locked" /\ pc[t] \in Owning /\ "send" \in Owning
    BY DEF Enter, Owning
  <1>2. CASE Unlock(t, then)
    BY <1>1, <1>2, MutexUnlock
  <1>3. CASE Goes(t, "send") /\ UNCHANGED <<block, waiting>>
    <2>1. "send" \in PlacesOf(t)
      BY DEF PlacesOf, ReaderPlaces, WqPlaces
    <2> QED
      BY <1>1, <1>3, <2>1, MutexPlace DEF Goes
  <1> QED
    BY <1>2, <1>3 DEF Enter

(* No step gives the mutex two owners, or a waiting thread no place.        *)
LEMMA MutexNext == MutexInv /\ [Next]_vars => MutexInv'
  <1> SUFFICES ASSUME MutexInv, [Next]_vars PROVE MutexInv'
    OBVIOUS
  <1> USE DEF PlacesOf, FwdPlaces, ReaderPlaces, WqPlaces, Owning, Threads
  <1>1. ASSUME NEW p \in Arrivals, FwdTake(p) PROVE MutexInv'
    BY <1>1, MutexPlace DEF FwdTake, Goes
  <1>2. CASE Lock("fwd") \/ Lock("wq") \/ Lock("reader")
    BY <1>2, MutexLock
  <1>3. CASE FwdEnter
    <2>1. /\ pc["fwd"] = "locked" /\ UNCHANGED <<block, waiting>>
          /\ \/ pc' = [pc EXCEPT !["fwd"] = "early"]
             \/ pc' = [pc EXCEPT !["fwd"] = "append"]
      BY <1>3 DEF FwdEnter, Goes
    <2> QED
      BY <2>1, MutexPlace
  <1>4. CASE FwdNote \/ FwdCleared \/ FwdAppend
    BY <1>4, MutexPlace DEF FwdNote, FwdCleared, FwdAppend, Goes
  <1>5. CASE FwdSentEarly \/ FwdSentFull \/ StopSent
    BY <1>5, MutexPlace DEF FwdSentEarly, FwdSentFull, StopSent, Sends, Goes
  <1>6. CASE FwdCount
    <2>1. CASE Goes("fwd", "full") /\ UNCHANGED <<block, waiting>>
      BY <1>6, <2>1, MutexPlace DEF FwdCount, Goes
    <2>2. CASE Unlock("fwd", "idle")
      BY <1>6, <2>2, MutexUnlock DEF FwdCount
    <2> QED
      BY <1>6, <2>1, <2>2 DEF FwdCount
  <1>7. CASE FwdReturns
    BY <1>7, MutexUnlock DEF FwdReturns
  <1>8. CASE TimerExpires \/ ScanStarted \/ UNCHANGED vars
    BY <1>8, MutexStay
    DEF TimerExpires, ScanStarted, schedVars, vars
  <1>9. CASE LingerStart
    BY <1>9, MutexPlace DEF LingerStart, Goes
  <1>10. CASE LingerEnter
    BY <1>10, MutexEnter DEF LingerEnter
  <1>11. CASE LingerSent
    BY <1>11, MutexUnlock DEF LingerSent
  <1>12. CASE Stop
    BY <1>12, MutexPlace DEF Stop, Goes
  <1>13. CASE StopEnter
    BY <1>13, MutexEnter DEF StopEnter
  <1>14. CASE StopCleared
    BY <1>14, MutexUnlock DEF StopCleared
  <1>15. CASE StopReturns
    BY <1>15, MutexPlace DEF StopReturns, Goes
  <1>16. CASE Resetting
    BY <1>16, MutexPlace
    DEF Resetting, ResetCaptured, ResetAdvReports, ResetForwarded,
        ResetOversized, ResetDropped, Store, Goes, Clearing
  <1> QED
    BY <1>1, <1>2, <1>3, <1>4, <1>5, <1>6, <1>7, <1>8, <1>9, <1>10, <1>11,
       <1>12, <1>13, <1>14, <1>15, <1>16
    DEF Next, Forward, Linger, Stopping
-----------------------------------------------------------------------------
(* Where a step can leave the threads it is not a step of: where they were, *)
(* or owning the mutex they waited for.                                     *)
Stays(u) == pc'[u] = pc[u] \/ (pc[u] = "wait" /\ pc'[u] = "locked")

\* Where the owner is in the middle of something.
Busy == Owning \ {"locked"}

(* A move of one thread.                                                    *)
LEMMA OneMoves ==
  ASSUME MutexInv, NEW t \in Threads, NEW at, pc' = [pc EXCEPT ![t] = at]
  PROVE  pc'[t] = at /\ \A u \in Threads \ {t} : pc'[u] = pc[u] /\ Stays(u)
  BY DEF MutexInv, Stays

(* Nobody is in the middle of anything once the mutex has been given back.  *)
LEMMA AfterUnlock ==
  ASSUME MutexInv, NEW t \in Threads, NEW at \in {"idle", "reset"},
         at \in PlacesOf(t), pc[t] \in Owning, Unlock(t, at)
  PROVE  /\ pc'[t] = at
         /\ \A u \in Threads : pc'[u] \notin Busy
         /\ \A u \in Threads \ {t} : Stays(u)
  <1>1. /\ pc'[t] = at
        /\ \A u \in Threads \ {t} :
             \/ pc'[u] = pc[u]
             \/ /\ pc[u] = "wait" /\ pc'[u] = "locked"
                /\ waiting # <<>> /\ waiting[1] = u
    BY MutexUnlock
  <1>2. \A u \in Threads \ {t} : pc[u] \notin Owning
    BY DEF MutexInv
  <1>3. at \notin Busy /\ "locked" \notin Busy
    BY DEF Busy, Owning
  <1>4. \A u \in Threads : pc'[u] \notin Busy
    <2> TAKE u \in Threads
    <2>1. CASE u = t
      BY <2>1, <1>1, <1>3
    <2>2. CASE u # t
      BY <2>2, <1>1, <1>2, <1>3 DEF Busy
    <2> QED
      BY <2>1, <2>2
  <1> QED
    BY <1>1, <1>4 DEF Stays

(* A step moves one thread, and may give the mutex to one that waits.       *)
LEMMA OthersStay ==
  ASSUME MutexInv
  PROVE  /\ Forward \/ (\E p \in Arrivals : FwdTake(p)) =>
              Stays("reader") /\ Stays("wq")
         /\ Stop \/ Stopping => Stays("fwd") /\ Stays("wq")
         /\ Linger => Stays("fwd") /\ Stays("reader")
         /\ TimerExpires \/ ScanStarted \/ UNCHANGED vars =>
              Stays("fwd") /\ Stays("reader") /\ Stays("wq")
  <1>0. /\ "fwd" \in Threads /\ "reader" \in Threads /\ "wq" \in Threads
        /\ "idle" \in PlacesOf("fwd") /\ "idle" \in PlacesOf("wq")
        /\ "reset" \in PlacesOf("reader")
    BY DEF Threads, PlacesOf, FwdPlaces, ReaderPlaces, WqPlaces
  <1>1. ASSUME NEW t \in Threads, NEW at, Goes(t, at)
        PROVE  \A u \in Threads \ {t} : Stays(u)
    BY <1>1, OneMoves DEF Goes
  <1>2. ASSUME NEW t \in Threads, NEW at \in {"idle", "reset"}, at \in PlacesOf(t),
               pc[t] \in Owning, Unlock(t, at)
        PROVE  \A u \in Threads \ {t} : Stays(u)
    BY <1>2, AfterUnlock
  <1>3. ASSUME Forward \/ \E p \in Arrivals : FwdTake(p)
        PROVE  Stays("reader") /\ Stays("wq")
    <2>1. (\E at : Goes("fwd", at))
            \/ (Unlock("fwd", "idle") /\ pc["fwd"] \in Owning)
      BY <1>3 DEF Forward, FwdTake, FwdNote, Lock, FwdEnter, FwdSentEarly,
                  FwdCleared, FwdAppend, FwdCount, FwdSentFull, FwdReturns,
                  Sends, Owning
    <2> QED
      BY <1>0, <1>1, <1>2, <2>1
  <1>4. ASSUME Stop \/ Stopping
        PROVE  Stays("fwd") /\ Stays("wq")
    <2>1. (\E at : Goes("reader", at))
            \/ (Unlock("reader", "reset") /\ pc["reader"] \in Owning)
      BY <1>4 DEF Stopping, Stop, Lock, StopEnter, Enter, StopSent, Sends,
                  StopCleared, StopReturns, Resetting, ResetCaptured,
                  ResetAdvReports, ResetForwarded, ResetOversized,
                  ResetDropped, Store, Owning
    <2> QED
      BY <1>0, <1>1, <1>2, <2>1
  <1>5. ASSUME Linger
        PROVE  Stays("fwd") /\ Stays("reader")
    <2>1. (\E at : Goes("wq", at))
            \/ (Unlock("wq", "idle") /\ pc["wq"] \in Owning)
      BY <1>5 DEF Linger, LingerStart, Lock, LingerEnter, Enter, LingerSent,
                  Owning
    <2> QED
      BY <1>0, <1>1, <1>2, <2>1
  <1>6. ASSUME TimerExpires \/ ScanStarted \/ UNCHANGED vars
        PROVE  Stays("fwd") /\ Stays("reader") /\ Stays("wq")
    BY <1>6 DEF TimerExpires, ScanStarted, schedVars, vars, Stays
  <1> QED
    BY <1>3, <1>4, <1>5, <1>6
-----------------------------------------------------------------------------
(* What a STOP excludes: while it runs, a capture; and while the counters   *)
(* are being reset, a packet in forward.                                    *)
SessionInv ==
  /\ running \in BOOLEAN
  /\ pc["reader"] # "idle" => ~running
  /\ pc["reader"] \in Clearing => pc["fwd"] = "idle"

(* Nothing runs at first.                                                   *)
LEMMA SessionInit == Init => SessionInv
  BY DEF Init, SessionInv, Threads, Clearing

(* A capture is only started and only stopped by the reader.                *)
LEMMA RunningKept ==
  ASSUME [Next]_vars, ~Stop, ~ScanStarted
  PROVE  running' = running
  <1> USE DEF otherVars
  <1>1. CASE Forward \/ \E p \in Arrivals : FwdTake(p)
    BY <1>1 DEF Forward, FwdTake, FwdNote, Lock, FwdEnter, FwdSentEarly,
                FwdCleared, FwdAppend, FwdCount, FwdSentFull, FwdReturns, Sends
  <1>2. CASE Stopping
    BY <1>2 DEF Stopping, Lock, StopEnter, Enter, StopSent, Sends, StopCleared,
                StopReturns, Resetting, ResetCaptured, ResetAdvReports,
                ResetForwarded, ResetOversized, ResetDropped, Store
  <1>3. CASE Linger \/ TimerExpires \/ UNCHANGED vars
    BY <1>3 DEF Linger, LingerStart, Lock, LingerEnter, Enter, LingerSent,
                TimerExpires, vars
  <1> QED
    BY <1>1, <1>2, <1>3 DEF Next

(* No step starts a capture in the middle of a STOP.                        *)
LEMMA SessionNext == MutexInv /\ SessionInv /\ [Next]_vars => SessionInv'
  <1> SUFFICES ASSUME MutexInv, SessionInv, [Next]_vars PROVE SessionInv'
    OBVIOUS
  <1>0. "fwd" \in Threads /\ "reader" \in Threads
    BY DEF Threads
  <1>1. ASSUME Stays("reader"), running' = running,
               pc["reader"] \in Clearing => pc'["fwd"] = "idle"
        PROVE  SessionInv'
    <2>1. pc'["reader"] \in Clearing => pc["reader"] \in Clearing
      BY <1>1 DEF Stays, Clearing
    <2>2. pc'["reader"] # "idle" => pc["reader"] # "idle"
      BY <1>1 DEF Stays
    <2> QED
      BY <1>1, <2>1, <2>2 DEF SessionInv
  <1>2. CASE Forward \/ \E p \in Arrivals : FwdTake(p)
    <2>1. Stays("reader") /\ running' = running
      BY <1>2, OthersStay
         DEF Forward, FwdTake, FwdNote, Lock, FwdEnter, FwdSentEarly,
             FwdCleared, FwdAppend, FwdCount, FwdSentFull, FwdReturns, Sends,
             otherVars
    <2>2. pc["fwd"] # "idle" \/ running
      BY <1>2 DEF Forward, FwdTake, FwdNote, Lock, FwdEnter, FwdSentEarly,
                  FwdCleared, FwdAppend, FwdCount, FwdSentFull, FwdReturns,
                  Sends
    <2>3. pc["reader"] \notin Clearing
      BY <2>2 DEF SessionInv, Clearing
    <2> QED
      BY <1>1, <2>1, <2>3
  <1>3. CASE Linger \/ TimerExpires \/ UNCHANGED vars
    <2>1. Stays("reader") /\ Stays("fwd")
      BY <1>3, OthersStay
    <2>2. running' = running
      BY <1>3 DEF Linger, LingerStart, Lock, LingerEnter, Enter, LingerSent,
                  TimerExpires, vars, otherVars
    <2>3. pc["reader"] \in Clearing => pc'["fwd"] = "idle"
      BY <2>1 DEF Stays, SessionInv
    <2> QED
      BY <1>1, <2>1, <2>2, <2>3
  <1>4. CASE ScanStarted
    BY <1>4 DEF ScanStarted, schedVars, SessionInv, Clearing
  <1>5. CASE Stop
    <2>1. running' = FALSE /\ pc'["reader"] = "lock"
      BY <1>0, <1>5 DEF Stop, Goes, MutexInv
    <2> QED
      BY <2>1 DEF SessionInv, Clearing
  <1>6. CASE Stopping
    <2>1. pc["reader"] # "idle" /\ running' = running /\ Stays("fwd")
      BY <1>6, OthersStay
         DEF Stopping, Lock, StopEnter, Enter, StopSent, Sends, StopCleared,
             StopReturns, Resetting, ResetCaptured, ResetAdvReports,
             ResetForwarded, ResetOversized, ResetDropped, Store, otherVars,
             Clearing
    <2>2. ~running'
      BY <2>1 DEF SessionInv
    <2>3. CASE Resetting
      <3>1. pc["fwd"] = "idle"
        BY <2>3 DEF Resetting, ResetCaptured, ResetAdvReports, ResetForwarded,
                    ResetOversized, ResetDropped, Store, SessionInv, Clearing
      <3> QED
        BY <2>1, <2>2, <3>1 DEF Stays, SessionInv
    <2>4. CASE Lock("reader") \/ StopSent \/ StopReturns
      <3>1. PICK at \in {"locked", "wait", "send.clear", "idle"} :
              pc' = [pc EXCEPT !["reader"] = at]
        BY <2>4 DEF Lock, StopSent, Sends, StopReturns, Goes
      <3>2. pc'["reader"] = at
        BY <1>0, <3>1, OneMoves
      <3>3. pc'["reader"] \notin Clearing
        BY <3>2 DEF Clearing
      <3> QED
        BY <2>1, <2>2, <3>3 DEF SessionInv
    <2>5. CASE StopEnter \/ StopCleared
      <3>1. \/ pc' = [pc EXCEPT !["reader"] = "send"]
            \/ Unlock("reader", "reset")
        BY <2>5 DEF StopEnter, Enter, StopCleared, Goes
      <3>2. pc["reader"] \in Owning /\ "reset" \in PlacesOf("reader")
        BY <2>5 DEF StopEnter, Enter, StopCleared, Owning, PlacesOf, ReaderPlaces
      <3>3. CASE pc' = [pc EXCEPT !["reader"] = "send"]
        <4>1. pc'["reader"] = "send"
          BY <1>0, <3>3, OneMoves
        <4> QED
          BY <2>1, <2>2, <4>1 DEF SessionInv, Clearing
      <3>4. CASE Unlock("reader", "reset")
        <4>1. pc'["reader"] = "reset"
          BY <1>0, <3>2, <3>4, AfterUnlock
        <4> QED
          BY <2>1, <2>2, <4>1 DEF SessionInv, Clearing
      <3> QED
        BY <3>1, <3>3, <3>4
    <2> QED
      BY <1>6, <2>3, <2>4, <2>5 DEF Stopping
  <1> QED
    BY <1>2, <1>3, <1>4, <1>5, <1>6 DEF Next
-----------------------------------------------------------------------------
(* What is in the batch. *)

\* Where forward has a packet in hand, where the mutex's owner knows that the
\* batch is not empty, and where it has handed it over and not yet emptied it.
Carrying == {"note", "lock", "wait", "locked", "early", "early.clear", "append"}
Flushing == {"early", "count", "full", "send"}
HandedPlaces == {"early.clear", "full.clear", "send.clear"}

HalfDone == \E t \in Threads : pc[t] \in HandedPlaces

\* What the open batch will tell the host is what was taken: every kind, both
\* lengths, the base the first packet's time, and every delta the time since
\* the packet before.
DeltasExact ==
  pending # <<>> =>
    /\ bbase_us = pending[1].ts /\ blast_us = pending[bcount].ts
    /\ bbuf[1].dt = 0
    /\ \A i \in 1 .. bcount :
         /\ pending[i].kind = bbuf[i].kind /\ pending[i].full = bbuf[i].full
         /\ pending[i].take = bbuf[i].take
         /\ pending[i].truncated = bbuf[i].truncated
    /\ \A i \in 2 .. bcount : bbuf[i].dt = pending[i].ts - pending[i - 1].ts

Filling ==
  /\ bbuf \in Seq(Entry) /\ pending \in Seq(Kept)
  /\ HalfDone => pending = <<>>
  /\ ~HalfDone => Len(pending) = Len(bbuf)
  /\ bused \in HeaderLen .. MaxBytes
  /\ bbase_us \in Nat /\ blast_us \in Nat
  /\ Len(bbuf) <= MaxEntries
  /\ bbuf = <<>> => bused = HeaderLen

\* What each place says of the batch and of the packet in hand.
AtPlaces ==
  /\ pc["fwd"] \notin {"count", "full", "full.clear"} => Len(bbuf) < MaxEntries
  /\ \A t \in Threads : pc[t] \in Flushing => bbuf # <<>>
  /\ pc["fwd"] \in Carrying => pkt \in Kept
  /\ pc["fwd"] = "append" => bbuf = <<>> \/ ~CannotJoin

BufferInv == Filling /\ DeltasExact /\ AtPlaces

(* What is kept of a packet has the types of its parts.                     *)
LEMMA KeptFacts ==
  ASSUME NEW p \in Kept
  PROVE  /\ p.kind \in Kinds /\ p.ts \in Nat /\ p.full \in Nat
         /\ p.take \in 0 .. MaxPacket /\ p.truncated \in BOOLEAN
         /\ p = [kind |-> p.kind, ts |-> p.ts, full |-> p.full, take |-> p.take,
                 truncated |-> p.truncated]
  <1>1. PICK a \in Arrivals : p = Keep(a)
    BY DEF Kept
  <1>2. a.kind \in Kinds /\ a.ts \in Nat /\ a.full \in Nat
    BY ForwardAssumption DEF Arrival
  <1>3. Cut(a.full) \in 0 .. MaxPacket
    BY <1>2, ForwardAssumption DEF Cut
  <1> QED
    BY <1>1, <1>2, <1>3 DEF Keep

(* The batch is empty at first.                                             *)
LEMMA BufferInit == Init => BufferInv
  <1> SUFFICES ASSUME Init PROVE BufferInv
    OBVIOUS
  <1>1. \A t \in Threads : pc[t] = "idle"
    BY DEF Init
  <1>2. Len(bbuf) = 0 /\ bbuf = <<>> /\ pending = <<>> /\ Len(pending) = 0
    BY DEF Init
  <1>3. Filling
    BY <1>2, ForwardAssumption DEF Init, Filling
  <1>4. AtPlaces
    BY <1>1, <1>2, ForwardAssumption DEF AtPlaces, Carrying, Flushing, Threads
  <1> QED
    BY <1>2, <1>3, <1>4 DEF BufferInv, DeltasExact

(* The owner of the mutex is the only thread in the middle of anything.     *)
LEMMA OnlyOwner ==
  ASSUME MutexInv, NEW t \in Threads, pc[t] \in Owning
  PROVE  /\ \A u \in Threads \ {t} : pc[u] \notin Owning
         /\ HalfDone <=> pc[t] \in HandedPlaces
  <1>1. \A u \in Threads \ {t} : pc[u] \notin Owning
    BY DEF MutexInv
  <1> QED
    BY <1>1 DEF HalfDone, HandedPlaces, Owning

(* Nothing is half done, nor any batch about to be sent, once the mutex has *)
(* been given back; and no packet comes to be in hand.                      *)
LEMMA QuietUnlock ==
  ASSUME MutexInv, NEW t \in Threads, NEW at \in {"idle", "reset"},
         at \in PlacesOf(t), pc[t] \in Owning, Unlock(t, at)
  PROVE  /\ ~HalfDone'
         /\ \A u \in Threads : pc'[u] \notin Flushing /\ pc'[u] # "append"
         /\ pc'["fwd"] \in Carrying => pc["fwd"] \in Carrying
  <1>1. /\ pc'[t] = at
        /\ \A u \in Threads : pc'[u] \notin Busy
        /\ \A u \in Threads \ {t} : Stays(u)
        /\ "fwd" \in Threads
    BY AfterUnlock DEF Threads
  <1>2. pc'["fwd"] \in Carrying => pc["fwd"] \in Carrying
    <2>1. CASE t = "fwd"
      BY <2>1, <1>1 DEF Carrying
    <2>2. CASE t # "fwd"
      BY <2>2, <1>1 DEF Carrying, Stays
    <2> QED
      BY <2>1, <2>2
  <1> QED
    BY <1>1, <1>2 DEF HalfDone, HandedPlaces, Flushing, Busy, Owning

(* The batch has been emptied, and nobody is about to send it again.        *)
LEMMA BufferEmptied ==
  ASSUME BufferInv, Emptied, pending' = <<>>, pkt' = pkt,
         \A t \in Threads : pc'[t] \notin Flushing,
         pc'["fwd"] \in Carrying => pc["fwd"] \in Carrying
  PROVE  BufferInv'
  <1>1. /\ bbuf' = <<>> /\ bused' = HeaderLen
        /\ UNCHANGED <<bbase_us, blast_us>> /\ Len(bbuf') = 0
        /\ Len(pending') = 0
    BY DEF Emptied
  <1>2. Filling'
    BY <1>1, ForwardAssumption DEF Filling, BufferInv
  <1>3. AtPlaces'
    BY <1>1, ForwardAssumption DEF AtPlaces, BufferInv
  <1> QED
    BY <1>2, <1>3 DEF BufferInv, DeltasExact

(* A step that leaves the batch alone.                                      *)
LEMMA BufferAlone ==
  ASSUME BufferInv, UNCHANGED <<bufVars, pending>>, AtPlaces',
         HalfDone' <=> HalfDone
  PROVE  BufferInv'
  BY DEF BufferInv, Filling, DeltasExact, bufVars, bcount

(* A step of one thread that neither sends, adds nor unlocks.               *)
LEMMA BufferPlace ==
  ASSUME MutexInv, BufferInv, NEW t \in Threads, NEW at,
         pc' = [pc EXCEPT ![t] = at], UNCHANGED <<bufVars, pending>>,
         pc[t] \notin HandedPlaces, at \notin HandedPlaces,
         at \in Flushing => bbuf # <<>>,
         t # "fwd" => pkt' = pkt,
         t = "fwd" =>
           /\ pc["fwd"] \in {"count", "full", "full.clear"} =>
                at \in {"count", "full", "full.clear"}
           /\ at \in Carrying => pkt' \in Kept
           /\ at = "append" => pkt' = pkt /\ (bbuf = <<>> \/ ~CannotJoin)
  PROVE  BufferInv'
  <1>1. /\ pc'[t] = at /\ \A u \in Threads \ {t} : pc'[u] = pc[u]
        /\ "fwd" \in Threads
    BY OneMoves DEF Threads
  <1>2. pkt' = pkt => CannotJoin' = CannotJoin
    BY DEF CannotJoin, bufVars
  <1>3. bbuf' = bbuf /\ (HalfDone' <=> HalfDone)
    BY <1>1 DEF HalfDone, bufVars
  <1>4. pc'["fwd"] \notin {"count", "full", "full.clear"} => Len(bbuf') < MaxEntries
    BY <1>1, <1>3 DEF AtPlaces, BufferInv
  <1>5. \A u \in Threads : pc'[u] \in Flushing => bbuf' # <<>>
    BY <1>1, <1>3 DEF AtPlaces, BufferInv
  <1>6. /\ pc'["fwd"] \in Carrying => pkt' \in Kept
        /\ pc'["fwd"] = "append" => bbuf' = <<>> \/ ~CannotJoin'
    BY <1>1, <1>2, <1>3 DEF AtPlaces, BufferInv
  <1>7. AtPlaces'
    BY <1>4, <1>5, <1>6 DEF AtPlaces
  <1> QED
    BY <1>3, <1>7, BufferAlone

(* The first step of a flush: the entries stay in the buffer, and count for *)
(* nothing.                                                                 *)
LEMMA BufferSends ==
  ASSUME MutexInv, BufferInv, NEW t \in Threads, NEW at, NEW then, Sends(t, at, then),
         \/ t = "fwd" /\ at = "early" /\ then = "early.clear"
         \/ t = "fwd" /\ at = "full" /\ then = "full.clear"
         \/ t = "reader" /\ at = "send" /\ then = "send.clear"
  PROVE  BufferInv'
  <1>1. /\ pc[t] = at /\ pc' = [pc EXCEPT ![t] = then]
        /\ UNCHANGED <<bufVars, pkt>> /\ pending' = <<>> /\ Len(pending') = 0
        /\ "fwd" \in Threads
    BY DEF Sends, Handed, Goes, otherVars, Threads
  <1>2. pc'[t] = then /\ \A u \in Threads \ {t} : pc'[u] = pc[u]
    BY <1>1, OneMoves
  <1>3. HalfDone' /\ then \in HandedPlaces
    BY <1>2 DEF HalfDone, HandedPlaces
  <1>4. UNCHANGED <<bbuf, bused, bbase_us, blast_us>>
    BY <1>1 DEF bufVars
  <1>5. Filling'
    BY <1>1, <1>3, <1>4 DEF Filling, BufferInv
  <1>6. pc'["fwd"] \notin {"count", "full", "full.clear"} => Len(bbuf') < MaxEntries
    BY <1>1, <1>2, <1>4 DEF AtPlaces, BufferInv
  <1>7. \A u \in Threads : pc'[u] \in Flushing => bbuf' # <<>>
    BY <1>2, <1>3, <1>4 DEF AtPlaces, BufferInv, Flushing, HandedPlaces
  <1>8. /\ pc'["fwd"] \in Carrying => pkt' \in Kept
        /\ pc'["fwd"] # "append"
    <2>1. CASE t = "fwd"
      BY <2>1, <1>1, <1>2 DEF AtPlaces, BufferInv, Carrying
    <2>2. CASE t # "fwd"
      <3>1. pc[t] \in Owning /\ pc["fwd"] \notin Owning
        BY <2>2, <1>1, OnlyOwner DEF Owning
      <3> QED
        BY <2>2, <3>1, <1>1, <1>2 DEF AtPlaces, BufferInv, Owning
    <2> QED
      BY <2>1, <2>2
  <1>9. AtPlaces'
    BY <1>6, <1>7, <1>8 DEF AtPlaces
  <1> QED
    BY <1>1, <1>5, <1>9 DEF BufferInv, DeltasExact

(* A step that leaves the batch alone and gives the mutex back.             *)
LEMMA BufferUnlock ==
  ASSUME MutexInv, BufferInv, NEW t \in Threads, NEW at \in {"idle", "reset"},
         at \in PlacesOf(t), pc[t] \in Owning \ HandedPlaces, Unlock(t, at),
         UNCHANGED <<bufVars, pending, pkt>>, Len(bbuf) < MaxEntries
  PROVE  BufferInv'
  <1>1. /\ ~HalfDone' /\ ~HalfDone
        /\ \A u \in Threads : pc'[u] \notin Flushing /\ pc'[u] # "append"
        /\ pc'["fwd"] \in Carrying => pc["fwd"] \in Carrying
        /\ "fwd" \in Threads
    BY QuietUnlock, OnlyOwner DEF Threads
  <1>2. bbuf' = bbuf
    BY DEF bufVars
  <1>3. AtPlaces'
    BY <1>1, <1>2 DEF AtPlaces, BufferInv
  <1> QED
    BY <1>1, <1>3, BufferAlone

(* The append.  The tests on time, made when the mutex was taken, keep the  *)
(* delta within sixteen bits, so that the cut changes nothing, and the one  *)
(* on size keeps the bytes.                                                 *)
LEMMA BufferAppend ==
  ASSUME MutexInv, BufferInv, FwdAppend
  PROVE  BufferInv'
  <1> DEFINE since == IF bcount = 0 THEN pkt.ts ELSE blast_us
             dt    == (pkt.ts - since) % (MaxDt + 1)
             entry == [dt |-> dt, kind |-> pkt.kind, full |-> pkt.full,
                       take |-> pkt.take, truncated |-> pkt.truncated]
             n     == Len(bbuf)
  <1>1. /\ pc["fwd"] = "append"
        /\ pc' = [pc EXCEPT !["fwd"] = "count"]
        /\ bbase_us' = IF bcount = 0 THEN pkt.ts ELSE bbase_us
        /\ bbuf' = Append(bbuf, entry)
        /\ bused' = bused + EntryLen + pkt.take
        /\ blast_us' = pkt.ts
        /\ pending' = Append(pending, pkt)
        /\ pkt' = pkt
    BY DEF FwdAppend, Goes, otherVars
  <1>0. ~HalfDone
    <2>1. "fwd" \in Threads /\ pc["fwd"] \in Owning
      BY <1>1 DEF Threads, Owning
    <2> QED
      BY <1>1, <2>1, OnlyOwner DEF HandedPlaces
  <1>2. /\ bbuf \in Seq(Entry) /\ pending \in Seq(Kept) /\ Len(pending) = n
        /\ n \in Nat /\ n < MaxEntries /\ bcount = n
        /\ bused \in Nat /\ HeaderLen <= bused /\ bused <= MaxBytes
        /\ bbase_us \in Nat /\ blast_us \in Nat
    BY <1>0, <1>1, ForwardAssumption DEF BufferInv, Filling, AtPlaces, bcount
  <1>3. pkt \in Kept /\ (bbuf = <<>> \/ ~CannotJoin)
    BY <1>1 DEF BufferInv, AtPlaces, Carrying
  <1>4. /\ pkt.kind \in Kinds /\ pkt.ts \in Nat /\ pkt.full \in Nat
        /\ pkt.take \in 0 .. MaxPacket /\ pkt.truncated \in BOOLEAN
    BY <1>3, KeptFacts
  <1>5. since \in Nat /\ dt \in 0 .. MaxDt /\ dt = pkt.ts - since
    <2>1. since \in Nat
      BY <1>2, <1>4
    <2>2. since <= pkt.ts /\ pkt.ts <= since + MaxDt
      <3>1. CASE bcount = 0
        BY <3>1, <1>4, ForwardAssumption
      <3>2. CASE bcount # 0
        <4>1. since = blast_us /\ ~CannotJoin
          BY <3>2, <1>3 DEF bcount
        <4> QED
          BY <4>1, <1>2, <1>4, ForwardAssumption DEF CannotJoin
      <3> QED
        BY <3>1, <3>2
    <2>3. MaxDt \in Nat /\ pkt.ts \in Nat
      BY <1>4, ForwardAssumption
    <2> HIDE DEF since
    <2> QED
      BY <2>1, <2>2, <2>3, DeltaFits
  <1> HIDE DEF dt
  <1>6. entry \in Entry
    BY <1>4, <1>5 DEF Entry
  <1>7. /\ bbuf' \in Seq(Entry) /\ pending' \in Seq(Kept)
        /\ Len(bbuf') = n + 1 /\ Len(pending') = n + 1
        /\ bbuf'[n + 1] = entry /\ pending'[n + 1] = pkt
        /\ \A i \in 1 .. n : bbuf'[i] = bbuf[i] /\ pending'[i] = pending[i]
        /\ bbuf' # <<>>
    BY <1>1, <1>2, <1>3, <1>6
  <1>8. Filling'
    <2>1. bused + EntryLen + pkt.take <= MaxBytes
      <3>1. CASE bbuf = <<>>
        BY <3>1, <1>4, ForwardAssumption DEF BufferInv, Filling
      <3>2. CASE bbuf # <<>>
        BY <3>2, <1>2, <1>3, <1>4, ForwardAssumption DEF CannotJoin
      <3> QED
        BY <3>1, <3>2
    <2>2. bused' \in HeaderLen .. MaxBytes
      <3>1. bused' = bused + EntryLen + pkt.take /\ pkt.take \in Nat
        BY <1>1, <1>4, ForwardAssumption
      <3>2. EntryLen \in Nat /\ HeaderLen \in Nat /\ MaxBytes \in Nat
        BY ForwardAssumption
      <3> QED
        BY <1>2, <2>1, <3>1, <3>2
    <2>3. n + 1 <= MaxEntries
      BY <1>2, ForwardAssumption
    <2>4. bbase_us' \in Nat /\ blast_us' \in Nat
      BY <1>1, <1>2, <1>4
    <2>5. ~HalfDone'
      <3>1. pc'["fwd"] = "count" /\ \A u \in Threads \ {"fwd"} : pc'[u] = pc[u]
        BY <1>1, OneMoves DEF Threads
      <3> QED
        BY <1>0, <3>1 DEF HalfDone, HandedPlaces
    <2> QED
      BY <1>7, <2>2, <2>3, <2>4, <2>5 DEF Filling
  <1>9. DeltasExact'
    <2>1. entry.dt = dt /\ bcount' = n + 1
      BY <1>7 DEF bcount
    <2>2. CASE n = 0
      BY <1>1, <1>2, <1>5, <1>7, <2>1, <2>2 DEF DeltasExact
    <2>3. CASE n > 0
      <3>1. pending # <<>> /\ since = blast_us /\ bbase_us' = bbase_us
        BY <2>3, <1>1, <1>2
      <3>2. /\ bbase_us = pending[1].ts /\ blast_us = pending[n].ts
            /\ bbuf[1].dt = 0
            /\ \A i \in 1 .. n :
                 /\ pending[i].kind = bbuf[i].kind
                 /\ pending[i].full = bbuf[i].full
                 /\ pending[i].take = bbuf[i].take
                 /\ pending[i].truncated = bbuf[i].truncated
            /\ \A i \in 2 .. n : bbuf[i].dt = pending[i].ts - pending[i - 1].ts
        BY <3>1 DEF BufferInv, DeltasExact, bcount
      <3>3. /\ bbase_us' = pending'[1].ts /\ blast_us' = pending'[n + 1].ts
            /\ bbuf'[1].dt = 0
        <4>1. 1 \in 1 .. n
          BY <1>2, <2>3
        <4>2. bbuf'[1] = bbuf[1] /\ pending'[1] = pending[1]
          BY <4>1, <1>7
        <4>3. blast_us' = pending'[n + 1].ts
          BY <1>1, <1>7
        <4> QED
          BY <4>2, <4>3, <3>1, <3>2
      <3>4. \A i \in 1 .. n + 1 :
              /\ pending'[i].kind = bbuf'[i].kind
              /\ pending'[i].full = bbuf'[i].full
              /\ pending'[i].take = bbuf'[i].take
              /\ pending'[i].truncated = bbuf'[i].truncated
        <4> TAKE i \in 1 .. n + 1
        <4>1. CASE i = n + 1
          BY <4>1, <1>7
        <4>2. CASE i # n + 1
          <5>1. i \in 1 .. n
            BY <4>2, <1>2
          <5> QED
            BY <5>1, <1>7, <3>2
        <4> QED
          BY <4>1, <4>2
      <3>5. \A i \in 2 .. n + 1 :
              bbuf'[i].dt = pending'[i].ts - pending'[i - 1].ts
        <4> TAKE i \in 2 .. n + 1
        <4>1. CASE i = n + 1
          <5>1. i - 1 = n /\ n \in 1 .. n
            BY <4>1, <1>2, <2>3
          <5>2. pending'[i - 1] = pending[n]
            BY <5>1, <1>7
          <5>3. bbuf'[i].dt = dt /\ pending'[i].ts = pkt.ts
            BY <4>1, <1>7, <2>1
          <5> QED
            BY <5>2, <5>3, <1>5, <3>1, <3>2
        <4>2. CASE i # n + 1
          <5>1. i \in 2 .. n /\ i \in 1 .. n /\ i - 1 \in 1 .. n
            BY <4>2, <1>2
          <5> QED
            BY <5>1, <1>7, <3>2
        <4> QED
          BY <4>1, <4>2
      <3> QED
        BY <2>1, <3>3, <3>4, <3>5 DEF DeltasExact
    <2> QED
      BY <1>2, <2>2, <2>3
  <1>10. AtPlaces'
    <2>1. /\ pc'["fwd"] = "count" /\ \A u \in Threads \ {"fwd"} : pc'[u] = pc[u]
          /\ \A u \in Threads \ {"fwd"} : pc[u] \notin Owning
      BY <1>1, OneMoves, OnlyOwner DEF Threads, Owning
    <2> QED
      BY <2>1, <1>7 DEF AtPlaces, Carrying
  <1> QED
    BY <1>8, <1>9, <1>10 DEF BufferInv

(* A flush that has the mutex sends nothing yet.                            *)
LEMMA BufferEnter ==
  ASSUME MutexInv, BufferInv, NEW t \in Threads \ {"fwd"},
         NEW then \in {"idle", "reset"}, then \in PlacesOf(t), Enter(t, then)
  PROVE  BufferInv'
  <1>1. /\ pc[t] = "locked" /\ pc[t] \in Owning \ HandedPlaces
        /\ UNCHANGED <<bufVars, pending, pkt>>
    BY DEF Enter, batchVars, sendVars, otherVars, Owning, HandedPlaces
  <1>2. CASE bcount = 0
    <2>1. Unlock(t, then) /\ Len(bbuf) < MaxEntries
      BY <1>2, ForwardAssumption DEF Enter, bcount
    <2> QED
      BY <1>1, <2>1, BufferUnlock
  <1>3. CASE bcount # 0
    <2>1. pc' = [pc EXCEPT ![t] = "send"]
      BY <1>3 DEF Enter, Goes
    <2>2. bbuf # <<>> /\ "send" \notin HandedPlaces
      BY <1>3 DEF bcount, HandedPlaces
    <2> QED
      BY <1>1, <2>1, <2>2, BufferPlace
  <1> QED
    BY <1>2, <1>3

(* The second step of a flush, if it gives the mutex back.                  *)
LEMMA BufferCleared ==
  ASSUME MutexInv, BufferInv, NEW t \in Threads,
         NEW at \in {"idle", "reset"}, at \in PlacesOf(t), pc[t] \in Owning,
         Emptied, pending' = <<>>, Unlock(t, at), pkt' = pkt
  PROVE  BufferInv'
  <1>1. /\ \A u \in Threads : pc'[u] \notin Flushing
        /\ pc'["fwd"] \in Carrying => pc["fwd"] \in Carrying
    BY QuietUnlock
  <1> QED
    BY <1>1, BufferEmptied

(* Where a batch has been handed over nothing is pending.                   *)
LEMMA HandedIsGone ==
  ASSUME BufferInv, NEW t \in Threads, pc[t] \in HandedPlaces
  PROVE  pending = <<>>
  BY DEF BufferInv, Filling, HalfDone

(* Every step leaves the batch as it should be.                             *)
LEMMA BufferNext == MutexInv /\ BufferInv /\ [Next]_vars => BufferInv'
  <1> SUFFICES ASSUME MutexInv, BufferInv, [Next]_vars PROVE BufferInv'
    OBVIOUS
  <1> USE DEF batchVars, sendVars, otherVars, Goes
  <1>0. /\ "fwd" \in Threads /\ "reader" \in Threads /\ "wq" \in Threads
        /\ "idle" \in PlacesOf("fwd") /\ "idle" \in PlacesOf("wq")
        /\ "reset" \in PlacesOf("reader")
    BY DEF Threads, PlacesOf, FwdPlaces, ReaderPlaces, WqPlaces
  <1>1. ASSUME NEW p \in Arrivals, FwdTake(p) PROVE BufferInv'
    <2>1. pkt' \in Kept
      BY <1>1 DEF FwdTake, Kept
    <2>2. /\ pc' = [pc EXCEPT !["fwd"] = "note"] /\ pc["fwd"] = "idle"
          /\ UNCHANGED <<bufVars, pending>>
      BY <1>1 DEF FwdTake
    <2> QED
      BY <1>0, <2>1, <2>2, BufferPlace DEF HandedPlaces, Flushing
  <1>2. CASE FwdNote
    <2>1. /\ pc["fwd"] = "note" /\ pc' = [pc EXCEPT !["fwd"] = "lock"]
          /\ UNCHANGED <<bufVars, pending, pkt>>
      BY <1>2 DEF FwdNote
    <2>2. pkt \in Kept
      BY <2>1 DEF BufferInv, AtPlaces, Carrying
    <2> QED
      BY <1>0, <2>1, <2>2, BufferPlace DEF HandedPlaces, Flushing
  <1>3. ASSUME NEW t \in Threads, Lock(t) PROVE BufferInv'
    <2>1. PICK at \in {"locked", "wait"} : pc' = [pc EXCEPT ![t] = at]
      BY <1>3 DEF Lock
    <2>2. UNCHANGED <<bufVars, pending, pkt>> /\ pc[t] = "lock"
      BY <1>3 DEF Lock
    <2>3. t = "fwd" => pkt \in Kept
      BY <2>2 DEF BufferInv, AtPlaces, Carrying
    <2> QED
      BY <2>1, <2>2, <2>3, BufferPlace DEF HandedPlaces, Flushing
  <1>4. CASE FwdEnter
    <2>1. /\ pc["fwd"] = "locked" /\ UNCHANGED <<bufVars, pending, pkt>>
          /\ pkt \in Kept
      BY <1>4 DEF FwdEnter, BufferInv, AtPlaces, Carrying
    <2>2. CASE bcount > 0 /\ CannotJoin
      <3>1. pc' = [pc EXCEPT !["fwd"] = "early"] /\ bbuf # <<>>
        BY <1>4, <2>2 DEF FwdEnter, bcount
      <3> QED
        BY <1>0, <2>1, <3>1, BufferPlace DEF HandedPlaces, Flushing
    <2>3. CASE ~(bcount > 0 /\ CannotJoin)
      <3>1. pc' = [pc EXCEPT !["fwd"] = "append"]
        BY <1>4, <2>3 DEF FwdEnter
      <3>2. bbuf = <<>> \/ ~CannotJoin
        BY <2>3 DEF bcount, BufferInv, Filling
      <3> QED
        BY <1>0, <2>1, <3>1, <3>2, BufferPlace DEF HandedPlaces, Flushing
    <2> QED
      BY <2>2, <2>3
  <1>5. CASE FwdSentEarly \/ FwdSentFull \/ StopSent
    BY <1>0, <1>5, BufferSends DEF FwdSentEarly, FwdSentFull, StopSent
  <1>6. CASE FwdCleared
    <2>1. /\ pc["fwd"] = "early.clear" /\ Emptied /\ pkt' = pkt
          /\ pending' = pending /\ pc' = [pc EXCEPT !["fwd"] = "append"]
      BY <1>6 DEF FwdCleared
    <2>2. pending' = <<>>
      BY <1>0, <2>1, HandedIsGone DEF HandedPlaces
    <2>3. /\ pc'["fwd"] = "append"
          /\ \A u \in Threads \ {"fwd"} : pc'[u] = pc[u] /\ pc[u] \notin Owning
      BY <1>0, <2>1, OneMoves, OnlyOwner DEF Owning
    <2>4. \A u \in Threads : pc'[u] \notin Flushing
      BY <2>3 DEF Owning, Flushing
    <2>5. pc["fwd"] \in Carrying
      BY <2>1 DEF Carrying
    <2> QED
      BY <2>1, <2>2, <2>4, <2>5, BufferEmptied
  <1>7. CASE FwdAppend
    BY <1>7, BufferAppend
  <1>8. CASE FwdCount
    <2>1. pc["fwd"] = "count" /\ UNCHANGED <<bufVars, pending, pkt>>
      BY <1>8 DEF FwdCount
    <2>2. pc["fwd"] \in Owning \ HandedPlaces /\ bbuf # <<>>
      BY <1>0, <2>1 DEF Owning, HandedPlaces, BufferInv, AtPlaces, Flushing
    <2>3. CASE bcount = MaxEntries
      <3>1. pc' = [pc EXCEPT !["fwd"] = "full"]
        BY <1>8, <2>3 DEF FwdCount
      <3> QED
        BY <1>0, <2>1, <2>2, <3>1, BufferPlace DEF HandedPlaces, Carrying
    <2>4. CASE bcount # MaxEntries
      <3>1. Unlock("fwd", "idle")
        BY <1>8, <2>4 DEF FwdCount
      <3>2. Len(bbuf) < MaxEntries
        <4>1. Len(bbuf) \in Nat /\ Len(bbuf) <= MaxEntries
          BY DEF BufferInv, Filling
        <4> QED
          BY <2>4, <4>1, ForwardAssumption DEF bcount
      <3> QED
        BY <1>0, <2>1, <2>2, <3>1, <3>2, BufferUnlock
    <2> QED
      BY <2>3, <2>4
  <1>9. CASE FwdReturns
    <2>1. /\ pc["fwd"] = "full.clear" /\ Emptied /\ Unlock("fwd", "idle")
          /\ UNCHANGED <<pending, pkt>>
      BY <1>9 DEF FwdReturns
    <2>2. pc["fwd"] \in Owning /\ pending = <<>>
      BY <1>0, <2>1, HandedIsGone DEF Owning, HandedPlaces
    <2> QED
      BY <1>0, <2>1, <2>2, BufferCleared
  <1>10. CASE TimerExpires \/ ScanStarted \/ UNCHANGED vars
    <2>1. UNCHANGED <<bufVars, pending, pc, pkt>>
      BY <1>10 DEF TimerExpires, ScanStarted, vars, schedVars
    <2>2. AtPlaces' /\ HalfDone' = HalfDone
      BY <2>1 DEF AtPlaces, BufferInv, CannotJoin, bufVars, HalfDone
    <2> QED
      BY <2>1, <2>2, BufferAlone
  <1>11. CASE LingerStart
    <2>1. /\ pc["wq"] = "idle" /\ pc' = [pc EXCEPT !["wq"] = "lock"]
          /\ UNCHANGED <<bufVars, pending, pkt>>
      BY <1>11 DEF LingerStart
    <2> QED
      BY <1>0, <2>1, BufferPlace DEF HandedPlaces, Flushing
  <1>12. CASE LingerEnter
    BY <1>0, <1>12, BufferEnter DEF LingerEnter
  <1>13. CASE LingerSent
    <2>1. /\ pc["wq"] \in Owning /\ Emptied /\ pending' = <<>> /\ pkt' = pkt
          /\ Unlock("wq", "idle")
      BY <1>13 DEF LingerSent, Handed, Owning
    <2> QED
      BY <1>0, <2>1, BufferCleared
  <1>14. CASE Stop
    <2>1. /\ pc["reader"] = "idle" /\ pc' = [pc EXCEPT !["reader"] = "lock"]
          /\ UNCHANGED <<bufVars, pending, pkt>>
      BY <1>14 DEF Stop
    <2> QED
      BY <1>0, <2>1, BufferPlace DEF HandedPlaces, Flushing
  <1>15. CASE StopEnter
    BY <1>0, <1>15, BufferEnter DEF StopEnter
  <1>16. CASE StopCleared
    <2>1. /\ pc["reader"] = "send.clear" /\ Emptied /\ Unlock("reader", "reset")
          /\ UNCHANGED <<pending, pkt>>
      BY <1>16 DEF StopCleared
    <2>2. pc["reader"] \in Owning /\ pending = <<>>
      BY <1>0, <2>1, HandedIsGone DEF Owning, HandedPlaces
    <2> QED
      BY <1>0, <2>1, <2>2, BufferCleared
  <1>17. CASE StopReturns \/ Resetting
    <2>1. PICK at \in {"idle"} \cup Clearing : pc' = [pc EXCEPT !["reader"] = at]
      BY <1>17 DEF StopReturns, Resetting, ResetCaptured, ResetAdvReports,
                   ResetForwarded, ResetOversized, ResetDropped, Store, Clearing
    <2>2. UNCHANGED <<bufVars, pending, pkt>>
      BY <1>17 DEF StopReturns, Resetting, ResetCaptured, ResetAdvReports,
                   ResetForwarded, ResetOversized, ResetDropped, Store
    <2>3. pc["reader"] \in {"reset"} \cup Clearing
      BY <1>17 DEF StopReturns, Resetting, ResetCaptured, ResetAdvReports,
                   ResetForwarded, ResetOversized, ResetDropped, Store, Clearing
    <2>4. /\ at \notin HandedPlaces \cup Flushing
          /\ pc["reader"] \notin HandedPlaces
      BY <2>1, <2>3 DEF HandedPlaces, Flushing, Clearing
    <2> QED
      BY <1>0, <2>1, <2>2, <2>4, BufferPlace
  <1> QED
    BY <1>0, <1>1, <1>2, <1>3, <1>4, <1>5, <1>6, <1>7, <1>8, <1>9, <1>10, <1>11,
       <1>12, <1>13, <1>14, <1>15, <1>16, <1>17
    DEF Next, Forward, Linger, Stopping
-----------------------------------------------------------------------------
(* Only forward adds to the batch.                                          *)
LEMMA BatchGrows ==
  ASSUME [Next]_vars
  PROVE  FwdAppend \/ bbuf' = bbuf \/ bbuf' = <<>>
  <1> USE DEF batchVars, bufVars, sendVars, otherVars, Emptied
  <1>1. CASE Forward \/ \E p \in Arrivals : FwdTake(p)
    BY <1>1 DEF Forward, FwdTake, FwdNote, Lock, FwdEnter, FwdSentEarly,
                FwdCleared, FwdCount, FwdSentFull, FwdReturns, Sends
  <1>2. CASE Stop \/ Stopping
    BY <1>2 DEF Stop, Stopping, Lock, StopEnter, StopSent, Enter, Sends,
                StopCleared, StopReturns, Resetting, ResetCaptured,
                ResetAdvReports, ResetForwarded, ResetOversized, ResetDropped,
                Store
  <1>3. CASE Linger
    BY <1>3 DEF Linger, Lock, LingerStart, LingerEnter, LingerSent, Enter
  <1>4. CASE TimerExpires \/ ScanStarted \/ UNCHANGED vars
    BY <1>4 DEF TimerExpires, ScanStarted, vars
  <1> QED
    BY <1>1, <1>2, <1>3, <1>4 DEF Next
-----------------------------------------------------------------------------
(* Behind the flush of a STOP comes the packet that fwd_loop had let        *)
(* through, if there is one, and with running cleared no other.             *)
Behind == {"idle", "reset"} \cup Clearing

\* The packet is not in the batch yet.
Coming == {"note", "lock", "wait", "locked", "append"}

StopInv ==
  ~running /\ pc["reader"] \in Behind =>
    /\ pc["fwd"] \in Coming \cup {"idle", "count"}
    /\ pc["fwd"] \in Coming => bbuf = <<>>
    /\ Len(bbuf) <= 1

(* No step adds a second packet to it.                                      *)
LEMMA StopNext ==
  MutexInv /\ SessionInv /\ BufferInv /\ StopInv /\ [Next]_vars => StopInv'
  <1> SUFFICES ASSUME MutexInv, SessionInv, BufferInv, StopInv, [Next]_vars,
                      ~running', pc'["reader"] \in Behind
               PROVE  /\ pc'["fwd"] \in Coming \cup {"idle", "count"}
                      /\ pc'["fwd"] \in Coming => bbuf' = <<>>
                      /\ Len(bbuf') <= 1
    BY DEF StopInv
  <1> USE DEF batchVars, bufVars, sendVars, otherVars
  <1>0. /\ "reader" \in Threads /\ "fwd" \in Threads
        /\ bbuf \in Seq(Entry) /\ Len(bbuf) \in Nat
        /\ pc["fwd"] \in FwdPlaces
    BY DEF Threads, BufferInv, Filling, MutexInv, PlacesOf
  <1>1. CASE Stop \/ Lock("reader") \/ StopSent
    <2>1. PICK at \in {"lock", "locked", "wait", "send.clear"} :
            pc' = [pc EXCEPT !["reader"] = at]
      BY <1>1 DEF Stop, Lock, StopSent, Sends, Goes
    <2>2. pc'["reader"] = at
      BY <1>0, <2>1, OneMoves
    <2> QED
      BY <2>2 DEF Behind, Clearing
  <1>2. CASE StopEnter \/ StopCleared
    <2>1. pc["reader"] \in Owning /\ "reset" \in PlacesOf("reader")
      BY <1>2 DEF StopEnter, Enter, StopCleared, Owning, PlacesOf, ReaderPlaces
    <2>2. pc' # [pc EXCEPT !["reader"] = "send"]
      <3>1. ASSUME pc' = [pc EXCEPT !["reader"] = "send"] PROVE FALSE
        <4>1. pc'["reader"] = "send"
          BY <1>0, <3>1, OneMoves
        <4> QED
          BY <4>1 DEF Behind, Clearing
      <3> QED
        BY <3>1
    <2>3. Unlock("reader", "reset") /\ bbuf' = <<>> /\ Len(bbuf') = 0
      BY <1>0, <1>2, <2>2 DEF StopEnter, Enter, StopCleared, Goes, Emptied, bcount
    <2>4. pc["fwd"] \notin Owning /\ Stays("fwd")
      BY <1>0, <2>1, <2>3, OnlyOwner, AfterUnlock
    <2>5. pc'["fwd"] \in Coming \cup {"idle"}
      BY <1>0, <2>4 DEF Stays, Owning, FwdPlaces, Coming
    <2> QED
      BY <2>3, <2>5
  <1>3. CASE ~ (Stop \/ Lock("reader") \/ StopEnter \/ StopSent \/ StopCleared)
    <2>1. pc["reader"] \in Behind /\ ~ScanStarted /\ ~running
      <3>1. CASE StopReturns \/ Resetting
        <4>1. pc["reader"] \in Behind
          BY <3>1 DEF StopReturns, Resetting, ResetCaptured, ResetAdvReports,
                      ResetForwarded, ResetOversized, ResetDropped, Store,
                      Behind, Clearing
        <4>2. running' = running
          BY <3>1 DEF StopReturns, Resetting, ResetCaptured, ResetAdvReports,
                      ResetForwarded, ResetOversized, ResetDropped, Store
        <4> QED
          BY <4>1, <4>2 DEF ScanStarted
      <3>2. CASE ~ (StopReturns \/ Resetting)
        <4>1. Stays("reader")
          BY <1>3, <3>2, OthersStay DEF Next, Stopping
        <4>2. pc["reader"] \in Behind
          BY <4>1 DEF Stays, Behind, Clearing
        <4>3. ~ScanStarted
          BY DEF ScanStarted
        <4> QED
          BY <4>2, <4>3, <1>3, RunningKept
      <3> QED
        BY <3>1, <3>2
    <2>2. /\ pc["fwd"] \in Coming \cup {"idle", "count"}
          /\ pc["fwd"] \in Coming => bbuf = <<>>
          /\ Len(bbuf) <= 1
      BY <2>1 DEF StopInv
    <2>3. ~ (Forward \/ \E p \in Arrivals : FwdTake(p)) => Stays("fwd")
      BY OthersStay DEF Next
    <2>4. CASE ~ (Forward \/ \E p \in Arrivals : FwdTake(p))
      <3>1. bbuf' = bbuf \/ (bbuf' = <<>> /\ Len(bbuf') = 0)
        BY <2>4, BatchGrows DEF Forward
      <3>2. pc'["fwd"] = pc["fwd"] \/ (pc["fwd"] = "wait" /\ pc'["fwd"] = "locked")
        BY <2>3, <2>4 DEF Stays
      <3> QED
        BY <2>2, <3>1, <3>2 DEF Coming
    <2>5. ~ \E p \in Arrivals : FwdTake(p)
      BY <2>1 DEF FwdTake
    <2>6. ~ (FwdSentEarly \/ FwdCleared \/ FwdSentFull \/ FwdReturns)
      BY <2>2 DEF FwdSentEarly, FwdCleared, FwdSentFull, FwdReturns, Sends, Coming
    <2>7. CASE FwdNote \/ Lock("fwd")
      <3>1. PICK at \in {"lock", "locked", "wait"} : pc' = [pc EXCEPT !["fwd"] = at]
        BY <2>7 DEF FwdNote, Lock, Goes
      <3>2. pc'["fwd"] = at /\ bbuf' = bbuf /\ pc["fwd"] \in Coming
        BY <1>0, <2>7, <3>1, OneMoves DEF FwdNote, Lock, Coming
      <3> QED
        BY <2>2, <3>2 DEF Coming
    <2>8. CASE FwdEnter
      <3>1. bbuf = <<>> /\ bcount = 0 /\ bbuf' = bbuf
        BY <2>2, <2>8 DEF FwdEnter, Coming, bcount
      <3>2. pc' = [pc EXCEPT !["fwd"] = "append"]
        BY <2>8, <3>1 DEF FwdEnter, Goes
      <3>3. pc'["fwd"] = "append"
        BY <1>0, <3>2, OneMoves
      <3> QED
        BY <2>2, <3>1, <3>3 DEF Coming
    <2>9. CASE FwdAppend
      <3>1. pc' = [pc EXCEPT !["fwd"] = "count"] /\ \E e : bbuf' = Append(bbuf, e)
        BY <2>9 DEF FwdAppend, Goes
      <3>2. pc'["fwd"] = "count"
        BY <1>0, <3>1, OneMoves
      <3>3. Len(bbuf) = 0
        BY <2>2, <2>9 DEF FwdAppend, Coming
      <3>4. Len(bbuf') <= 1
        BY <1>0, <3>1, <3>3
      <3> QED
        BY <3>2, <3>4 DEF Coming
    <2>10. CASE FwdCount
      <3>1. bcount # MaxEntries /\ bbuf' = bbuf
        BY <1>0, <2>2, <2>10, ForwardAssumption DEF FwdCount, bcount
      <3>2. Unlock("fwd", "idle")
        BY <2>10, <3>1 DEF FwdCount
      <3>3. pc["fwd"] \in Owning /\ "idle" \in PlacesOf("fwd")
        BY <2>10 DEF FwdCount, Owning, PlacesOf, FwdPlaces
      <3>4. pc'["fwd"] = "idle"
        BY <1>0, <3>2, <3>3, AfterUnlock
      <3> QED
        BY <2>2, <3>1, <3>4 DEF Coming
    <2> QED
      BY <2>4, <2>5, <2>6, <2>7, <2>8, <2>9, <2>10 DEF Forward
  <1> QED
    BY <1>1, <1>2, <1>3
-----------------------------------------------------------------------------
(* The linger timer. *)

TimerInv ==
  /\ linger \in [delayed : BOOLEAN, queued : BOOLEAN, canceling : BOOLEAN]
  /\ linger.canceling => pc["wq"] # "idle"
  /\ LingerCovers

(* No step leaves an open batch without a timer or a thread on its way.     *)
LEMMA TimerNext ==
  MutexInv /\ BufferInv /\ TimerInv /\ [Next]_vars => TimerInv'
  <1> SUFFICES ASSUME MutexInv, BufferInv, TimerInv, [Next]_vars PROVE TimerInv'
    OBVIOUS
  <1> DEFINE L == [delayed : BOOLEAN, queued : BOOLEAN, canceling : BOOLEAN]
             R == {"lock", "wait", "locked", "send", "send.clear"}
             F == {"count", "full", "full.clear"}
  <1> USE DEF batchVars, bufVars
  <1>0. /\ "fwd" \in Threads /\ "reader" \in Threads /\ "wq" \in Threads
        /\ linger \in L /\ (linger.canceling => pc["wq"] # "idle")
    BY DEF Threads, TimerInv
  <1>1. ASSUME linger' = linger, pc["wq"] # "idle" => pc'["wq"] # "idle",
               bbuf' = <<>> \/ bbuf' = bbuf,
               pc["reader"] \in R => pc'["reader"] \in R \/ bbuf' = <<>>,
               pc["fwd"] \in F => pc'["fwd"] \in F \/ bbuf' = <<>>
        PROVE  TimerInv'
    BY <1>1 DEF TimerInv, LingerCovers
  <1>2. ASSUME bbuf' = <<>>, linger' \in L,
               linger'.canceling => pc'["wq"] # "idle"
        PROVE  TimerInv'
    BY <1>2 DEF TimerInv, LingerCovers
  <1>3. ASSUME linger' \in L, linger'.delayed, linger'.canceling = linger.canceling,
               pc["wq"] # "idle" => pc'["wq"] # "idle"
        PROVE  TimerInv'
    BY <1>0, <1>3 DEF TimerInv, LingerCovers
  <1>4. ASSUME NEW t \in Threads, NEW at, pc' = [pc EXCEPT ![t] = at],
               linger' = linger, bbuf' = <<>> \/ bbuf' = bbuf,
               t = "wq" => at # "idle",
               t = "reader" => pc["reader"] \notin R \/ at \in R,
               t = "fwd" => pc["fwd"] \notin F \/ at \in F
        PROVE  TimerInv'
    <2>1. pc'[t] = at /\ \A u \in Threads \ {t} : pc'[u] = pc[u]
      BY <1>4, OneMoves
    <2> QED
      BY <1>0, <1>1, <1>4, <2>1
  <1>5. ASSUME NEW t \in {"fwd", "reader"}, NEW at \in {"idle", "reset"},
               at \in PlacesOf(t), pc[t] \in Owning, Unlock(t, at)
        PROVE  pc["wq"] # "idle" => pc'["wq"] # "idle"
    <2>1. t \in Threads /\ t # "wq"
      BY <1>5 DEF Threads
    <2>2. Stays("wq")
      BY <1>0, <1>5, <2>1, AfterUnlock
    <2> QED
      BY <2>2 DEF Stays
  <1>6. ASSUME NEW p \in Arrivals, FwdTake(p) PROVE TimerInv'
    BY <1>0, <1>4, <1>6 DEF FwdTake, Goes
  <1>7. ASSUME NEW t \in Threads, Lock(t) PROVE TimerInv'
    <2>1. PICK at \in {"locked", "wait"} : pc' = [pc EXCEPT ![t] = at]
      BY <1>7 DEF Lock, Goes
    <2>2. linger' = linger /\ bbuf' = bbuf /\ pc[t] = "lock"
      BY <1>7 DEF Lock
    <2> QED
      BY <1>4, <2>1, <2>2
  <1>8. CASE FwdNote \/ FwdEnter \/ FwdSentEarly \/ FwdCleared
    <2>1. /\ linger' = linger
          /\ bbuf' = <<>> \/ bbuf' = bbuf
          /\ pc["fwd"] \notin F /\ \E at : pc' = [pc EXCEPT !["fwd"] = at]
      BY <1>8 DEF FwdNote, FwdEnter, FwdSentEarly, Sends, FwdCleared, Emptied, Goes
    <2> QED
      BY <1>0, <1>4, <2>1
  <1>9. CASE FwdAppend
    <2>1. linger' = linger /\ pc' = [pc EXCEPT !["fwd"] = "count"]
      BY <1>9 DEF FwdAppend, Goes
    <2>2. pc'["fwd"] = "count" /\ pc'["wq"] = pc["wq"]
      BY <1>0, <2>1, OneMoves
    <2> QED
      BY <1>0, <2>1, <2>2 DEF TimerInv, LingerCovers
  <1>10. CASE FwdCount
    <2>1. CASE bcount = MaxEntries
      <3>1. /\ linger' = linger /\ pc' = [pc EXCEPT !["fwd"] = "full"]
            /\ bbuf' = bbuf
        BY <1>10, <2>1 DEF FwdCount, Goes
      <3> QED
        BY <1>0, <1>4, <3>1
    <2>2. CASE bcount # MaxEntries
      <3>1. /\ linger' = [linger EXCEPT !.delayed = TRUE] /\ Unlock("fwd", "idle")
            /\ pc["fwd"] \in Owning /\ "idle" \in PlacesOf("fwd")
        BY <1>10, <2>2 DEF FwdCount, ArmLinger, Reschedule, Owning, PlacesOf, FwdPlaces
      <3>2. linger' \in L /\ linger'.delayed /\ linger'.canceling = linger.canceling
        BY <1>0, <3>1
      <3>3. pc["wq"] # "idle" => pc'["wq"] # "idle"
        BY <1>5, <3>1
      <3> QED
        BY <1>3, <3>2, <3>3
    <2> QED
      BY <2>1, <2>2
  <1>11. CASE FwdSentFull
    <2>1. /\ linger' = linger /\ pc' = [pc EXCEPT !["fwd"] = "full.clear"]
          /\ bbuf' = bbuf
      BY <1>11 DEF FwdSentFull, Sends, Goes
    <2> QED
      BY <1>0, <1>4, <2>1
  <1>12. CASE FwdReturns
    <2>1. /\ pc["fwd"] \in Owning /\ "idle" \in PlacesOf("fwd")
          /\ Unlock("fwd", "idle")
      BY <1>12 DEF FwdReturns, Owning, PlacesOf, FwdPlaces
    <2>2. pc["wq"] # "idle" => pc'["wq"] # "idle"
      BY <1>5, <2>1
    <2>3. /\ linger' \in L /\ bbuf' = <<>>
          /\ linger'.canceling => pc["wq"] # "idle"
      BY <1>12 DEF FwdReturns, Cancel, Emptied
    <2> QED
      BY <1>2, <2>2, <2>3
  <1>13. CASE TimerExpires
    <2>1. /\ linger.delayed /\ pc' = pc /\ bbuf' = bbuf
          /\ linger' = [linger EXCEPT !.delayed = FALSE,
                                      !.queued = @ \/ ~linger.canceling]
      BY <1>13 DEF TimerExpires, schedVars
    <2>2. /\ linger' \in L /\ linger'.canceling = linger.canceling
          /\ linger'.queued = (linger.queued \/ ~linger.canceling)
      BY <1>0, <2>1
    <2> QED
      BY <1>0, <2>1, <2>2 DEF TimerInv, LingerCovers
  <1>14. CASE LingerStart
    <2>1. /\ pc' = [pc EXCEPT !["wq"] = "lock"]
          /\ linger' = [linger EXCEPT !.queued = FALSE]
      BY <1>14 DEF LingerStart, Goes
    <2>2. pc'["wq"] = "lock" /\ linger' \in L
      BY <1>0, <2>1, OneMoves
    <2> QED
      BY <2>2 DEF TimerInv, LingerCovers
  <1>15. CASE LingerEnter
    <2>1. CASE bcount = 0
      <3>1. bbuf' = <<>>
        BY <1>15, <2>1 DEF LingerEnter, Enter, bcount, BufferInv, Filling
      <3>2. linger' = [linger EXCEPT !.canceling = FALSE]
        BY <1>15, <2>1 DEF LingerEnter, LingerReturns
      <3>3. linger' \in L /\ ~linger'.canceling
        BY <1>0, <3>2
      <3> QED
        BY <1>2, <3>1, <3>3
    <2>2. CASE bcount # 0
      BY <1>0, <1>4, <1>15, <2>2 DEF LingerEnter, Enter, Goes
    <2> QED
      BY <2>1, <2>2
  <1>16. CASE LingerSent
    <2>1. bbuf' = <<>> /\ linger' = [linger EXCEPT !.canceling = FALSE]
      BY <1>16 DEF LingerSent, Emptied, LingerReturns
    <2>2. linger' \in L /\ ~linger'.canceling
      BY <1>0, <2>1
    <2> QED
      BY <1>2, <2>1, <2>2
  <1>17. CASE Stop
    <2>1. /\ pc' = [pc EXCEPT !["reader"] = "lock"] /\ linger' \in L
          /\ linger'.canceling => pc["wq"] # "idle"
      BY <1>17 DEF Stop, Goes, Cancel
    <2>2. pc'["reader"] = "lock" /\ pc'["wq"] = pc["wq"]
      BY <1>0, <2>1, OneMoves
    <2> QED
      BY <2>1, <2>2 DEF TimerInv, LingerCovers
  <1>18. ASSUME pc["reader"] \in Owning, Unlock("reader", "reset"),
                linger' = linger, bbuf' = <<>>
         PROVE  TimerInv'
    <2>1. "reset" \in PlacesOf("reader")
      BY DEF PlacesOf, ReaderPlaces
    <2>2. pc["wq"] # "idle" => pc'["wq"] # "idle"
      BY <1>5, <1>18, <2>1
    <2> QED
      BY <1>0, <1>2, <1>18, <2>2
  <1>19. CASE StopEnter
    <2>1. /\ pc["reader"] = "locked" /\ linger' = linger /\ bbuf' = bbuf
          /\ pc["reader"] \in Owning
      BY <1>19 DEF StopEnter, Enter, Owning
    <2>2. CASE bcount = 0
      <3>1. bbuf' = <<>> /\ Unlock("reader", "reset")
        BY <1>19, <2>1, <2>2 DEF StopEnter, Enter, bcount, BufferInv, Filling
      <3> QED
        BY <1>18, <2>1, <3>1
    <2>3. CASE bcount # 0
      <3>1. pc' = [pc EXCEPT !["reader"] = "send"]
        BY <1>19, <2>3 DEF StopEnter, Enter, Goes
      <3> QED
        BY <1>0, <1>4, <2>1, <3>1
    <2> QED
      BY <2>2, <2>3
  <1>20. CASE StopSent
    <2>1. /\ linger' = linger /\ pc' = [pc EXCEPT !["reader"] = "send.clear"]
          /\ bbuf' = bbuf
      BY <1>20 DEF StopSent, Sends, Goes
    <2> QED
      BY <1>0, <1>4, <2>1
  <1>21. CASE StopCleared
    BY <1>18, <1>21 DEF StopCleared, Emptied, Owning
  <1>22. CASE StopReturns \/ Resetting
    <2>1. /\ linger' = linger /\ bbuf' = bbuf /\ pc["reader"] \notin R
          /\ \E at : pc' = [pc EXCEPT !["reader"] = at]
      BY <1>22 DEF StopReturns, Resetting, ResetCaptured, ResetAdvReports,
                   ResetForwarded, ResetOversized, ResetDropped, Store, Goes
    <2> QED
      BY <1>0, <1>4, <2>1
  <1>23. CASE ScanStarted \/ UNCHANGED vars
    <2>1. linger' = linger /\ bbuf' = bbuf /\ pc' = pc
      BY <1>23 DEF ScanStarted, vars, schedVars
    <2> QED
      BY <1>1, <2>1
  <1> QED
    BY <1>0, <1>6, <1>7, <1>8, <1>9, <1>10, <1>11, <1>12, <1>13, <1>14, <1>15,
       <1>16, <1>17, <1>19, <1>20, <1>21, <1>22, <1>23
    DEF Next, Forward, Linger, Stopping
-----------------------------------------------------------------------------
(* The counters. *)

\* Where the packet in forward has been counted by its kind, and where by its
\* length, and not yet as captured.
KindPlaces == {"lock", "wait", "locked", "early", "early.clear", "append", "count"}
LengthPlaces == {"note"} \cup KindPlaces

KindEarly == IF pc["fwd"] \in KindPlaces THEN 1 ELSE 0
LengthEarly == IF pc["fwd"] \in LengthPlaces THEN 1 ELSE 0

\* The counters that are still to be reset say nothing.
AddsUp ==
  /\ pc["reader"] \notin Clearing =>
       /\ Apart <= forwarded + dropped + Len(pending)
       /\ forwarded + dropped + Len(pending) <= Apart + 1
  /\ pc["reader"] \in Clearing => captured = 0
  /\ pc["reader"] \in {"clear.oversized", "clear.dropped"} =>
       forwarded + Len(pending) <= 1
  /\ pc["reader"] # "clear.adv" => adv_reports <= captured + KindEarly
  /\ pc["reader"] \in {"clear.adv", "clear.forwarded", "clear.oversized"}
       \/ oversized <= captured + LengthEarly

CountInv ==
  /\ captured \in Nat /\ adv_reports \in Nat /\ oversized \in Nat
  /\ forwarded \in Nat /\ dropped \in Nat
  /\ AddsUp

(* The counters are nought at first.                                        *)
LEMMA CountInit == Init => CountInv
  <1> SUFFICES ASSUME Init PROVE CountInv
    OBVIOUS
  <1>1. Len(pending) = 0 /\ pc["fwd"] = "idle" /\ pc["reader"] = "idle"
    BY DEF Init, Threads
  <1>2. Apart = 0 /\ KindEarly = 0 /\ LengthEarly = 0
    BY <1>1 DEF Init, Apart, KindEarly, LengthEarly, KindPlaces, LengthPlaces
  <1>3. AddsUp
    BY <1>1, <1>2 DEF Init, AddsUp, Clearing
  <1> QED
    BY <1>3 DEF Init, CountInv

(* A step that counts nothing as taken, and nothing as gone that was not    *)
(* pending.                                                                 *)
LEMMA CountKeeps ==
  ASSUME CountInv, UNCHANGED <<captured, adv_reports, oversized>>,
         Len(pending) \in Nat, Len(pending') \in Nat,
         forwarded' \in Nat, dropped' \in Nat,
         forwarded' + dropped' + Len(pending') = forwarded + dropped + Len(pending),
         forwarded' + Len(pending') <= forwarded + Len(pending),
         Apart' = Apart, KindEarly' = KindEarly, LengthEarly' = LengthEarly,
         \/ pc'["reader"] = pc["reader"]
         \/ pc["reader"] \notin Clearing /\ pc'["reader"] \notin Clearing
  PROVE  CountInv'
  <1>1. AddsUp /\ forwarded \in Nat /\ dropped \in Nat
    BY DEF CountInv
  <1>2. pc'["reader"] \in Clearing => pc'["reader"] = pc["reader"]
    OBVIOUS
  <1>3. pc'["reader"] \notin Clearing => pc["reader"] \notin Clearing
    OBVIOUS
  <1>4. pc'["reader"] \notin Clearing =>
          /\ Apart' <= forwarded' + dropped' + Len(pending')
          /\ forwarded' + dropped' + Len(pending') <= Apart' + 1
    BY <1>1, <1>3 DEF AddsUp
  <1>5. pc'["reader"] \in Clearing => captured' = 0
    BY <1>1, <1>2 DEF AddsUp
  <1>6. pc'["reader"] \in {"clear.oversized", "clear.dropped"} =>
          forwarded' + Len(pending') <= 1
    <2> HAVE pc'["reader"] \in {"clear.oversized", "clear.dropped"}
    <2>1. pc'["reader"] \in Clearing
      BY DEF Clearing
    <2>2. forwarded + Len(pending) <= 1
      BY <1>1, <1>2, <2>1 DEF AddsUp
    <2> QED
      BY <1>1, <2>2
  <1>7. pc'["reader"] # "clear.adv" => pc["reader"] # "clear.adv"
    BY <1>3 DEF Clearing
  <1>8. pc["reader"] \in {"clear.adv", "clear.forwarded", "clear.oversized"} =>
          pc'["reader"] = pc["reader"]
    BY DEF Clearing
  <1>9. /\ pc'["reader"] # "clear.adv" => adv_reports' <= captured' + KindEarly'
        /\ pc'["reader"] \in {"clear.adv", "clear.forwarded", "clear.oversized"}
             \/ oversized' <= captured' + LengthEarly'
    BY <1>1, <1>7, <1>8 DEF AddsUp
  <1>10. AddsUp'
    BY <1>4, <1>5, <1>6, <1>9 DEF AddsUp
  <1> QED
    BY <1>10 DEF CountInv

(* A step that leaves the counters and what is pending alone.               *)
LEMMA CountStill ==
  ASSUME CountInv, pending \in Seq(Kept),
         UNCHANGED <<captured, adv_reports, oversized, forwarded, dropped, pending>>,
         Apart' = Apart, KindEarly' = KindEarly, LengthEarly' = LengthEarly,
         \/ pc'["reader"] = pc["reader"]
         \/ pc["reader"] \notin Clearing /\ pc'["reader"] \notin Clearing
  PROVE  CountInv'
  <1>1. Len(pending) \in Nat /\ Len(pending') = Len(pending)
    OBVIOUS
  <1>2. forwarded \in Nat /\ dropped \in Nat
    BY DEF CountInv
  <1>3. /\ forwarded' + dropped' + Len(pending') = forwarded + dropped + Len(pending)
        /\ forwarded' + Len(pending') <= forwarded + Len(pending)
    BY <1>1, <1>2
  <1> QED
    BY <1>1, <1>2, <1>3, CountKeeps

(* A batch handed over moves from what is pending to one of two counters.   *)
LEMMA CountHanded ==
  ASSUME CountInv, Filling, ~HalfDone, Handed,
         UNCHANGED <<captured, adv_reports, oversized>>,
         Apart' = Apart, KindEarly' = KindEarly, LengthEarly' = LengthEarly,
         \/ pc'["reader"] = pc["reader"]
         \/ pc["reader"] \notin Clearing /\ pc'["reader"] \notin Clearing
  PROVE  CountInv'
  <1>1. Len(pending) \in Nat /\ Len(pending) = Len(bbuf) /\ Len(pending') = 0
    BY DEF Filling, Handed
  <1>2. forwarded \in Nat /\ dropped \in Nat
    BY DEF CountInv
  <1>3. \/ forwarded' = forwarded + Len(pending) /\ dropped' = dropped
        \/ forwarded' = forwarded /\ dropped' = dropped + Len(pending)
    BY <1>1 DEF Handed, Loss, bcount
  <1>4. /\ forwarded' \in Nat /\ dropped' \in Nat
        /\ forwarded' + dropped' + Len(pending') = forwarded + dropped + Len(pending)
        /\ forwarded' + Len(pending') <= forwarded + Len(pending)
    BY <1>1, <1>2, <1>3
  <1> QED
    BY <1>1, <1>4, CountKeeps

(* A thread that stays where it is, or is given the mutex it waited for,    *)
(* changes nothing of what the counters are compared with.                  *)
LEMMA StillEarly ==
  ASSUME CountInv, captured' = captured, Stays("fwd")
  PROVE  Apart' = Apart /\ KindEarly' = KindEarly /\ LengthEarly' = LengthEarly
  BY DEF Stays, Apart, KindEarly, LengthEarly, KindPlaces, LengthPlaces

(* The reader's steps outside the reset of the counters.                    *)
LEMMA StillReader ==
  ASSUME Stays("reader")
  PROVE  \/ pc'["reader"] = pc["reader"]
         \/ pc["reader"] \notin Clearing /\ pc'["reader"] \notin Clearing
  BY DEF Stays, Clearing

(* A packet is taken, noted, added to the batch and counted.                *)
LEMMA CountForward ==
  ASSUME MutexInv, SessionInv, BufferInv, CountInv,
         Forward \/ \E p \in Arrivals : FwdTake(p)
  PROVE  CountInv'
  <1> USE DEF batchVars, sendVars, takeVars, otherVars
  <1>0. /\ "fwd" \in Threads /\ "reader" \in Threads
        /\ pending \in Seq(Kept) /\ Len(pending) \in Nat /\ Filling
        /\ Stays("reader")
        /\ \/ pc'["reader"] = pc["reader"]
           \/ pc["reader"] \notin Clearing /\ pc'["reader"] \notin Clearing
    BY OthersStay, StillReader DEF Threads, BufferInv, Filling
  <1>1. /\ captured \in Nat /\ adv_reports \in Nat /\ oversized \in Nat
        /\ forwarded \in Nat /\ dropped \in Nat /\ AddsUp
    BY DEF CountInv
  <1>2. pc["reader"] \notin Clearing /\ pc'["reader"] \notin Clearing
    <2>1. pc["fwd"] # "idle" \/ running
      BY DEF Forward, FwdTake, FwdNote, Lock, FwdEnter, FwdSentEarly,
             FwdCleared, FwdAppend, FwdCount, FwdSentFull, FwdReturns, Sends
    <2>2. pc["reader"] \notin Clearing
      BY <2>1 DEF SessionInv, Clearing
    <2> QED
      BY <1>0, <2>2
  <1>3. /\ Apart <= forwarded + dropped + Len(pending)
        /\ forwarded + dropped + Len(pending) <= Apart + 1
        /\ adv_reports <= captured + KindEarly
        /\ oversized <= captured + LengthEarly
    BY <1>1, <1>2 DEF AddsUp, Clearing
  <1>4. ASSUME /\ Apart' <= forwarded' + dropped' + Len(pending')
               /\ forwarded' + dropped' + Len(pending') <= Apart' + 1,
               adv_reports' <= captured' + KindEarly',
               oversized' <= captured' + LengthEarly'
        PROVE  AddsUp'
    <2>1. pc'["reader"] \notin {"clear.adv", "clear.forwarded",
                                "clear.oversized", "clear.dropped"}
      BY <1>2 DEF Clearing
    <2> QED
      BY <1>2, <1>4, <2>1 DEF AddsUp
  <1>5. ASSUME NEW at, pc' = [pc EXCEPT !["fwd"] = at] PROVE pc'["fwd"] = at
    BY <1>0, <1>5, OneMoves
  <1>6. ASSUME NEW p \in Arrivals, FwdTake(p) PROVE CountInv'
    <2>1. pc["fwd"] = "idle" /\ pc'["fwd"] = "note"
      BY <1>5, <1>6 DEF FwdTake, Goes
    <2>2. /\ KindEarly = 0 /\ KindEarly' = 0
          /\ LengthEarly = 0 /\ LengthEarly' = 1
      BY <2>1 DEF KindEarly, LengthEarly, KindPlaces, LengthPlaces
    <2>3. /\ UNCHANGED <<captured, adv_reports, forwarded, dropped, pending>>
          /\ oversized' = oversized \/ oversized' = oversized + 1
      BY <1>1, <1>6 DEF FwdTake
    <2>4. Apart' = Apart
      BY <2>1, <2>3 DEF Apart
    <2>5. /\ oversized' <= captured' + LengthEarly'
          /\ adv_reports' <= captured' + KindEarly' /\ oversized' \in Nat
      BY <1>1, <1>3, <2>2, <2>3
    <2>6. AddsUp'
      BY <1>3, <1>4, <2>3, <2>4, <2>5
    <2> QED
      BY <1>1, <2>3, <2>5, <2>6 DEF CountInv
  <1>7. CASE FwdNote
    <2>1. pc["fwd"] = "note" /\ pc'["fwd"] = "lock"
      BY <1>5, <1>7 DEF FwdNote, Goes
    <2>2. /\ KindEarly = 0 /\ KindEarly' = 1
          /\ LengthEarly = 1 /\ LengthEarly' = 1
      BY <2>1 DEF KindEarly, LengthEarly, KindPlaces, LengthPlaces
    <2>3. /\ UNCHANGED <<captured, oversized, forwarded, dropped, pending>>
          /\ adv_reports' = adv_reports \/ adv_reports' = adv_reports + 1
      BY <1>1, <1>7 DEF FwdNote
    <2>4. Apart' = Apart
      BY <2>1, <2>3 DEF Apart
    <2>5. /\ oversized' <= captured' + LengthEarly'
          /\ adv_reports' <= captured' + KindEarly' /\ adv_reports' \in Nat
      BY <1>1, <1>3, <2>2, <2>3
    <2>6. AddsUp'
      BY <1>3, <1>4, <2>3, <2>4, <2>5
    <2> QED
      BY <1>1, <2>3, <2>5, <2>6 DEF CountInv
  <1>8. CASE Lock("fwd") \/ FwdEnter \/ FwdCleared
    <2>1. /\ pc["fwd"] \in KindPlaces \ {"count"}
          /\ \E at \in KindPlaces \ {"count"} : pc' = [pc EXCEPT !["fwd"] = at]
      BY <1>8 DEF Lock, FwdEnter, FwdCleared, Goes, KindPlaces
    <2>2. pc'["fwd"] \in KindPlaces \ {"count"}
      BY <1>5, <2>1
    <2>3. UNCHANGED <<captured, adv_reports, oversized, forwarded, dropped,
                      pending>>
      BY <1>8 DEF Lock, FwdEnter, FwdCleared
    <2>4. Apart' = Apart /\ KindEarly' = KindEarly /\ LengthEarly' = LengthEarly
      BY <2>1, <2>2, <2>3 DEF Apart, KindEarly, LengthEarly, LengthPlaces
    <2> QED
      BY <1>0, <2>3, <2>4, CountStill
  <1>9. CASE FwdSentEarly \/ FwdSentFull
    <2>1. /\ \/ pc["fwd"] = "early" /\ pc' = [pc EXCEPT !["fwd"] = "early.clear"]
             \/ pc["fwd"] = "full" /\ pc' = [pc EXCEPT !["fwd"] = "full.clear"]
          /\ Handed /\ UNCHANGED <<captured, adv_reports, oversized>>
      BY <1>9 DEF FwdSentEarly, FwdSentFull, Sends, Goes
    <2>2. \/ pc["fwd"] = "early" /\ pc'["fwd"] = "early.clear"
          \/ pc["fwd"] = "full" /\ pc'["fwd"] = "full.clear"
      BY <1>5, <2>1
    <2>3. Apart' = Apart /\ KindEarly' = KindEarly /\ LengthEarly' = LengthEarly
      BY <2>1, <2>2 DEF Apart, KindEarly, LengthEarly, KindPlaces, LengthPlaces
    <2>4. ~HalfDone
      BY <1>0, <2>1, OnlyOwner DEF Owning, HandedPlaces
    <2> QED
      BY <1>0, <2>1, <2>3, <2>4, CountHanded
  <1>10. CASE FwdAppend
    <2>1. pc["fwd"] = "append" /\ pc'["fwd"] = "count"
      BY <1>5, <1>10 DEF FwdAppend, Goes
    <2>2. UNCHANGED <<captured, adv_reports, oversized, forwarded, dropped>>
      BY <1>10 DEF FwdAppend
    <2>3. pending' = Append(pending, pkt)
      BY <1>10 DEF FwdAppend
    <2>4. Len(pending') = Len(pending) + 1
      BY <1>0, <2>3
    <2>5. KindEarly' = KindEarly /\ LengthEarly' = LengthEarly
      BY <2>1 DEF KindEarly, LengthEarly, KindPlaces, LengthPlaces
    <2>6. Apart = captured /\ Apart' = captured + 1
      BY <1>1, <2>1, <2>2 DEF Apart
    <2>7. /\ Apart' <= forwarded' + dropped' + Len(pending')
          /\ forwarded' + dropped' + Len(pending') <= Apart' + 1
      BY <1>0, <1>1, <1>3, <2>2, <2>4, <2>6
    <2>8. AddsUp'
      BY <1>3, <1>4, <2>2, <2>5, <2>7
    <2> QED
      BY <1>1, <2>2, <2>8 DEF CountInv
  <1>11. CASE FwdCount
    <2>1. pc["fwd"] = "count" /\ pc'["fwd"] \in {"idle", "full"}
      <3>1. pc["fwd"] = "count" /\ pc["fwd"] \in Owning /\ "idle" \in PlacesOf("fwd")
        BY <1>11 DEF FwdCount, Owning, PlacesOf, FwdPlaces
      <3>2. Unlock("fwd", "idle") \/ pc' = [pc EXCEPT !["fwd"] = "full"]
        BY <1>11 DEF FwdCount, Goes
      <3> QED
        BY <1>0, <1>5, <3>1, <3>2, AfterUnlock
    <2>2. /\ UNCHANGED <<adv_reports, oversized, forwarded, dropped, pending>>
          /\ captured' = captured + 1
      BY <1>11 DEF FwdCount
    <2>3. /\ KindEarly = 1 /\ KindEarly' = 0
          /\ LengthEarly = 1 /\ LengthEarly' = 0
      BY <2>1 DEF KindEarly, LengthEarly, KindPlaces, LengthPlaces
    <2>4. Apart = captured + 1 /\ Apart' = captured + 1
      BY <1>1, <2>1, <2>2 DEF Apart
    <2>5. /\ oversized' <= captured' + LengthEarly'
          /\ adv_reports' <= captured' + KindEarly' /\ captured' \in Nat
      BY <1>1, <1>3, <2>2, <2>3
    <2>6. AddsUp'
      BY <1>3, <1>4, <2>2, <2>4, <2>5
    <2> QED
      BY <1>1, <2>2, <2>5, <2>6 DEF CountInv
  <1>12. CASE FwdReturns
    <2>1. /\ pc["fwd"] = "full.clear" /\ pc["fwd"] \in Owning
          /\ "idle" \in PlacesOf("fwd") /\ Unlock("fwd", "idle")
      BY <1>12 DEF FwdReturns, Owning, PlacesOf, FwdPlaces
    <2>2. pc'["fwd"] = "idle"
      BY <1>0, <2>1, AfterUnlock
    <2>3. UNCHANGED <<captured, adv_reports, oversized, forwarded, dropped,
                      pending>>
      BY <1>12 DEF FwdReturns
    <2>4. Apart' = Apart /\ KindEarly' = KindEarly /\ LengthEarly' = LengthEarly
      BY <2>1, <2>2, <2>3 DEF Apart, KindEarly, LengthEarly, KindPlaces, LengthPlaces
    <2> QED
      BY <1>0, <2>3, <2>4, CountStill
  <1> QED
    BY <1>6, <1>7, <1>8, <1>9, <1>10, <1>11, <1>12 DEF Forward

(* One store of the reset of the counters, with nothing in forward and one  *)
(* packet at most in the batch.                                             *)
LEMMA CountReset ==
  ASSUME MutexInv, SessionInv, BufferInv, StopInv, CountInv, Resetting
  PROVE  CountInv'
  <1> USE DEF otherVars
  <1>0. /\ "fwd" \in Threads /\ "reader" \in Threads
        /\ pending \in Seq(Kept) /\ Len(pending) \in Nat
    BY DEF Threads, BufferInv, Filling
  <1>1. /\ captured \in Nat /\ adv_reports \in Nat /\ oversized \in Nat
        /\ forwarded \in Nat /\ dropped \in Nat /\ AddsUp
    BY DEF CountInv
  <1>2. /\ pc["fwd"] = "idle" /\ pc["reader"] \in {"reset"} \cup Clearing
        /\ ~running
    BY DEF Resetting, ResetCaptured, ResetAdvReports, ResetForwarded,
           ResetOversized, ResetDropped, Store, SessionInv, Clearing
  <1>3. Len(pending) <= 1
    <2>1. Len(bbuf) <= 1
      BY <1>2 DEF StopInv, Behind
    <2>2. Len(pending) = Len(bbuf) \/ (pending = <<>> /\ Len(pending) = 0)
      BY DEF BufferInv, Filling
    <2> QED
      BY <2>1, <2>2
  <1>4. /\ Apart = captured /\ KindEarly = 0 /\ LengthEarly = 0
    BY <1>1, <1>2 DEF Apart, KindEarly, LengthEarly, KindPlaces, LengthPlaces
  <1>5. ASSUME NEW at, pc' = [pc EXCEPT !["reader"] = at]
        PROVE  /\ pc'["reader"] = at /\ pc'["fwd"] = "idle"
               /\ Apart' = captured' + 0 /\ KindEarly' = 0 /\ LengthEarly' = 0
    <2>1. pc'["reader"] = at /\ pc'["fwd"] = "idle"
      BY <1>0, <1>2, <1>5, OneMoves
    <2> QED
      BY <2>1 DEF Apart, KindEarly, LengthEarly, KindPlaces, LengthPlaces
  <1>6. CASE ResetCaptured
    <2>1. /\ pc["reader"] = "reset" /\ pc' = [pc EXCEPT !["reader"] = "clear.adv"]
          /\ captured' = 0
          /\ UNCHANGED <<adv_reports, forwarded, oversized, dropped, pending>>
      BY <1>6 DEF ResetCaptured, Store, Goes
    <2>2. pc'["reader"] = "clear.adv"
      BY <1>5, <2>1
    <2>3. AddsUp'
      BY <2>1, <2>2 DEF AddsUp, Clearing
    <2> QED
      BY <1>1, <2>1, <2>3 DEF CountInv
  <1>7. CASE ResetAdvReports
    <2>1. /\ pc["reader"] = "clear.adv"
          /\ pc' = [pc EXCEPT !["reader"] = "clear.forwarded"]
          /\ adv_reports' = 0
          /\ UNCHANGED <<captured, forwarded, oversized, dropped, pending>>
      BY <1>7 DEF ResetAdvReports, Store, Goes
    <2>2. pc'["reader"] = "clear.forwarded" /\ KindEarly' = 0
      BY <1>5, <2>1
    <2>3. captured = 0
      BY <1>1, <2>1 DEF AddsUp, Clearing
    <2>4. AddsUp'
      BY <2>1, <2>2, <2>3 DEF AddsUp, Clearing
    <2> QED
      BY <1>1, <2>1, <2>4 DEF CountInv
  <1>8. CASE ResetForwarded
    <2>1. /\ pc["reader"] = "clear.forwarded"
          /\ pc' = [pc EXCEPT !["reader"] = "clear.oversized"]
          /\ forwarded' = 0
          /\ UNCHANGED <<captured, adv_reports, oversized, dropped, pending>>
      BY <1>8 DEF ResetForwarded, Store, Goes
    <2>2. pc'["reader"] = "clear.oversized" /\ KindEarly' = 0
      BY <1>5, <2>1
    <2>3. captured = 0 /\ adv_reports <= captured + KindEarly
      BY <1>1, <2>1 DEF AddsUp, Clearing
    <2>4. /\ captured' = 0 /\ adv_reports' <= captured' + KindEarly'
          /\ forwarded' + Len(pending') <= 1
      BY <1>0, <1>3, <1>4, <2>1, <2>2, <2>3
    <2>5. AddsUp'
      BY <2>2, <2>4 DEF AddsUp, Clearing
    <2> QED
      BY <1>1, <2>1, <2>5 DEF CountInv
  <1>9. CASE ResetOversized
    <2>1. /\ pc["reader"] = "clear.oversized"
          /\ pc' = [pc EXCEPT !["reader"] = "clear.dropped"]
          /\ oversized' = 0
          /\ UNCHANGED <<captured, adv_reports, forwarded, dropped, pending>>
      BY <1>9 DEF ResetOversized, Store, Goes
    <2>2. /\ pc'["reader"] = "clear.dropped" /\ KindEarly' = 0
          /\ LengthEarly' = 0
      BY <1>5, <2>1
    <2>3. /\ captured = 0 /\ adv_reports <= captured + KindEarly
          /\ forwarded + Len(pending) <= 1
      BY <1>1, <2>1 DEF AddsUp, Clearing
    <2>4. /\ captured' = 0 /\ adv_reports' <= captured' + KindEarly'
          /\ forwarded' + Len(pending') <= 1
          /\ oversized' <= captured' + LengthEarly'
      BY <1>4, <2>1, <2>2, <2>3
    <2>5. AddsUp'
      BY <2>2, <2>4 DEF AddsUp, Clearing
    <2> QED
      BY <1>1, <2>1, <2>5 DEF CountInv
  <1>10. CASE ResetDropped
    <2>1. /\ pc["reader"] = "clear.dropped"
          /\ pc' = [pc EXCEPT !["reader"] = "idle"]
          /\ dropped' = 0
          /\ UNCHANGED <<captured, adv_reports, forwarded, oversized, pending>>
      BY <1>10 DEF ResetDropped, Store, Goes
    <2>2. /\ pc'["reader"] = "idle" /\ KindEarly' = 0 /\ LengthEarly' = 0
          /\ Apart' = captured' + 0
      BY <1>5, <2>1
    <2>3. /\ captured = 0 /\ adv_reports <= captured + KindEarly
          /\ forwarded + Len(pending) <= 1
          /\ oversized <= captured + LengthEarly
      BY <1>1, <2>1 DEF AddsUp, Clearing
    <2>4. /\ captured' = 0 /\ adv_reports' <= captured' + KindEarly'
          /\ oversized' <= captured' + LengthEarly'
          /\ Apart' <= forwarded' + dropped' + Len(pending')
          /\ forwarded' + dropped' + Len(pending') <= Apart' + 1
      BY <1>0, <1>1, <1>4, <2>1, <2>2, <2>3
    <2>5. AddsUp'
      BY <2>2, <2>4 DEF AddsUp, Clearing
    <2> QED
      BY <1>1, <2>1, <2>5 DEF CountInv
  <1> QED
    BY <1>6, <1>7, <1>8, <1>9, <1>10 DEF Resetting

(* The counters as they are read, at any point but the counter reset.       *)
LEMMA StatsAddUp ==
  ASSUME MutexInv, BufferInv, CountInv, pc["reader"] \notin Clearing
  PROVE  /\ forwarded + dropped <= captured + 1
         /\ captured <= forwarded + dropped + MaxEntries
         /\ adv_reports <= captured + 1 /\ oversized <= captured + 1
  <1>1. /\ captured \in Nat /\ adv_reports \in Nat /\ oversized \in Nat
        /\ forwarded \in Nat /\ dropped \in Nat /\ AddsUp
    BY DEF CountInv
  <1>2. /\ Len(pending) \in Nat /\ Len(pending) <= MaxEntries
        /\ pc["fwd"] = "count" => Len(pending) > 0
    <2>1. /\ pending \in Seq(Kept) /\ bbuf \in Seq(Entry)
          /\ HalfDone => Len(pending) = 0
          /\ ~HalfDone => Len(pending) = Len(bbuf)
          /\ Len(bbuf) \in Nat /\ Len(bbuf) <= MaxEntries
      BY DEF BufferInv, Filling
    <2>2. pc["fwd"] = "count" => Len(pending) > 0
      <3>1. pc["fwd"] = "count" => bbuf # <<>>
        BY DEF BufferInv, AtPlaces, Flushing, Threads
      <3>2. pc["fwd"] = "count" => ~HalfDone
        BY OnlyOwner DEF Threads, Owning, HandedPlaces
      <3> QED
        BY <2>1, <3>1, <3>2
    <2> QED
      BY <2>1, <2>2, ForwardAssumption
  <1>3. /\ Apart <= forwarded + dropped + Len(pending)
        /\ forwarded + dropped + Len(pending) <= Apart + 1
        /\ adv_reports <= captured + KindEarly
        /\ oversized <= captured + LengthEarly
    BY <1>1 DEF AddsUp, Clearing
  <1>4. /\ KindEarly \in {0, 1} /\ LengthEarly \in {0, 1}
        /\ Apart = captured \/ (Apart = captured + 1 /\ Len(pending) > 0)
    BY <1>1, <1>2 DEF Apart, KindEarly, LengthEarly
  <1>5. MaxEntries \in Nat
    BY ForwardAssumption
  <1>6. adv_reports <= captured + 1 /\ oversized <= captured + 1
    BY <1>1, <1>3, <1>4
  <1>7. forwarded + dropped <= captured + 1
    BY <1>1, <1>2, <1>3, <1>4
  <1>8. captured <= forwarded + dropped + MaxEntries
    BY <1>1, <1>2, <1>3, <1>4, <1>5
  <1> QED
    BY <1>6, <1>7, <1>8

(* The counters add up after every step.                                    *)
LEMMA CountNext ==
  MutexInv /\ SessionInv /\ BufferInv /\ StopInv /\ CountInv /\ [Next]_vars
    => CountInv'
  <1> SUFFICES ASSUME MutexInv, SessionInv, BufferInv, StopInv, CountInv, [Next]_vars
               PROVE  CountInv'
    OBVIOUS
  <1> USE DEF batchVars, sendVars, takeVars, otherVars
  <1>0. /\ "fwd" \in Threads /\ "reader" \in Threads /\ "wq" \in Threads
        /\ pending \in Seq(Kept) /\ Filling
    BY DEF Threads, BufferInv, Filling
  <1>1. CASE Forward \/ \E p \in Arrivals : FwdTake(p)
    BY <1>1, CountForward
  <1>2. CASE Resetting
    BY <1>2, CountReset
  <1>3. CASE TimerExpires \/ ScanStarted \/ UNCHANGED vars \/ Linger
    <2>1. /\ Stays("fwd")
          /\ \/ pc'["reader"] = pc["reader"]
             \/ pc["reader"] \notin Clearing /\ pc'["reader"] \notin Clearing
      BY <1>3, OthersStay, StillReader
    <2>2. UNCHANGED <<captured, adv_reports, oversized>>
      BY <1>3 DEF TimerExpires, ScanStarted, vars, Linger, LingerStart, Lock,
                  LingerEnter, Enter, LingerSent
    <2>3. Apart' = Apart /\ KindEarly' = KindEarly /\ LengthEarly' = LengthEarly
      BY <2>1, <2>2, StillEarly
    <2>4. CASE LingerSent
      <3>1. pc["wq"] \in Owning \ HandedPlaces /\ Handed
        BY <2>4 DEF LingerSent, Owning, HandedPlaces
      <3>2. ~HalfDone
        BY <1>0, <3>1, OnlyOwner
      <3> QED
        BY <1>0, <2>1, <2>2, <2>3, <3>1, <3>2, CountHanded
    <2>5. CASE ~LingerSent
      <3>1. UNCHANGED <<forwarded, dropped, pending>>
        BY <1>3, <2>5 DEF TimerExpires, ScanStarted, vars, Linger, LingerStart,
                          Lock, LingerEnter, Enter
      <3> QED
        BY <1>0, <2>1, <2>2, <2>3, <3>1, CountStill
    <2> QED
      BY <2>4, <2>5
  <1>4. CASE Stop \/ (Stopping /\ ~Resetting)
    <2>1. Stays("fwd")
      BY <1>4, OthersStay
    <2>2. UNCHANGED <<captured, adv_reports, oversized>>
      BY <1>4 DEF Stop, Stopping, Lock, StopEnter, Enter, StopSent, Sends,
                  StopCleared, StopReturns
    <2>3. Apart' = Apart /\ KindEarly' = KindEarly /\ LengthEarly' = LengthEarly
      BY <2>1, <2>2, StillEarly
    <2>4. pc["reader"] \notin Clearing
      BY <1>4 DEF Stop, Stopping, Lock, StopEnter, Enter, StopSent, Sends,
                  StopCleared, StopReturns, Clearing
    <2>5. pc'["reader"] \notin Clearing
      <3>1. \/ \E at \in {"lock", "locked", "wait", "send", "send.clear", "idle"} :
                 pc' = [pc EXCEPT !["reader"] = at]
            \/ Unlock("reader", "reset") /\ pc["reader"] \in Owning
        BY <1>4 DEF Stop, Stopping, Lock, StopEnter, Enter, StopSent, Sends,
                    StopCleared, StopReturns, Goes, Owning
      <3>2. ASSUME NEW at \in {"lock", "locked", "wait", "send", "send.clear", "idle"},
                   pc' = [pc EXCEPT !["reader"] = at]
            PROVE  pc'["reader"] \notin Clearing
        <4>1. pc'["reader"] = at
          BY <1>0, <3>2, OneMoves
        <4> QED
          BY <4>1 DEF Clearing
      <3>3. ASSUME Unlock("reader", "reset"), pc["reader"] \in Owning
            PROVE  pc'["reader"] \notin Clearing
        <4>1. "reset" \in PlacesOf("reader")
          BY DEF PlacesOf, ReaderPlaces
        <4>2. pc'["reader"] = "reset"
          BY <1>0, <3>3, <4>1, AfterUnlock
        <4> QED
          BY <4>2 DEF Clearing
      <3> QED
        BY <3>1, <3>2, <3>3
    <2>6. CASE StopSent
      <3>1. pc["reader"] \in Owning \ HandedPlaces /\ Handed
        BY <2>6 DEF StopSent, Sends, Owning, HandedPlaces
      <3>2. ~HalfDone
        BY <1>0, <3>1, OnlyOwner
      <3> QED
        BY <1>0, <2>2, <2>3, <2>4, <2>5, <3>1, <3>2, CountHanded
    <2>7. CASE ~StopSent
      <3>1. UNCHANGED <<forwarded, dropped, pending>>
        BY <1>4, <2>7 DEF Stop, Stopping, Lock, StopEnter, Enter, StopCleared,
                          StopReturns
      <3> QED
        BY <1>0, <2>2, <2>3, <2>4, <2>5, <3>1, CountStill
    <2> QED
      BY <2>6, <2>7
  <1> QED
    BY <1>1, <1>2, <1>3, <1>4 DEF Next
-----------------------------------------------------------------------------
(* The invariant as a whole. *)

Inv == MutexInv /\ SessionInv /\ BufferInv /\ StopInv /\ CountInv /\ TimerInv

(* The invariant holds at first.                                            *)
LEMMA InvInit == Init => Inv
  <1> SUFFICES ASSUME Init PROVE Inv
    OBVIOUS
  <1>1. Len(bbuf) = 0 /\ bbuf = <<>> /\ pc["fwd"] = "idle"
    BY DEF Init, Threads
  <1>2. StopInv /\ TimerInv
    BY <1>1 DEF Init, StopInv, Coming, TimerInv, LingerCovers, LingerIdle
  <1> QED
    BY <1>2, MutexInit, SessionInit, BufferInit, CountInit DEF Inv

(* Every step keeps it.                                                     *)
LEMMA InvNext == Inv /\ [Next]_vars => Inv'
  BY MutexNext, SessionNext, BufferNext, StopNext, CountNext, TimerNext DEF Inv

(* It holds always.                                                         *)
LEMMA Invariant == Spec => []Inv
  BY InvInit, InvNext, PTL DEF Spec

(* The variables keep their types; a batch fits its buffer and the host's   *)
(* limit on entries, though the append tests neither; the mutex has one     *)
(* owner, and the threads queued for it are those that wait.                *)
THEOREM ForwardTypeCorrect == Spec => []TypeOK
  <1>1. Inv => TypeOK
    <2> SUFFICES ASSUME Inv PROVE TypeOK
      OBVIOUS
    <2>1. /\ pc["fwd"] \in FwdPlaces /\ pc["reader"] \in ReaderPlaces
          /\ pc["wq"] \in WqPlaces
      BY DEF Inv, MutexInv, PlacesOf, Threads
    <2>2. bcount <= MaxEntries
      BY DEF Inv, BufferInv, Filling, bcount
    <2> QED
      BY <2>1, <2>2
      DEF Inv, TypeOK, MutexInv, SessionInv, BufferInv, Filling, CountInv,
          TimerInv, FwdPlaces, ReaderPlaces, WqPlaces
  <1> QED
    BY <1>1, Invariant, PTL

(* Behind the flush of a STOP comes one packet of the capture at most, the  *)
(* one fwd_loop had let through before running was cleared, however the     *)
(* threads are scheduled; and none is in forward when the counters are      *)
(* reset.                                                                   *)
THEOREM OneAtMostComesAfterStop == Spec => []OneAtMostAfterStop
  <1>1. Inv => OneAtMostAfterStop
    <2> SUFFICES ASSUME Inv PROVE OneAtMostAfterStop
      OBVIOUS
    <2>1. pc["reader"] \in Clearing => pc["fwd"] = "idle"
      BY DEF Inv, SessionInv
    <2>2. ASSUME ~running, pc["reader"] \in {"idle", "reset"} \cup Clearing
          PROVE  /\ bcount + InHand <= 1
                 /\ pc["fwd"] \notin {"early", "early.clear", "full", "full.clear"}
      <3>1. /\ pc["fwd"] \in Coming \cup {"idle", "count"}
            /\ pc["fwd"] \in Coming => bbuf = <<>>
            /\ Len(bbuf) <= 1
        BY <2>2 DEF Inv, StopInv, Behind
      <3>2. bbuf \in Seq(Entry) /\ Len(bbuf) \in Nat
        BY DEF Inv, BufferInv, Filling
      <3>3. CASE pc["fwd"] \in Coming
        <4>1. Len(bbuf) = 0 /\ InHand = 1
          BY <3>1, <3>3 DEF Coming, InHand
        <4> QED
          BY <3>3, <4>1 DEF bcount, Coming
      <3>4. CASE pc["fwd"] \notin Coming
        <4>1. InHand = 0
          BY <3>4 DEF Coming, InHand
        <4> QED
          BY <3>1, <3>2, <3>4, <4>1 DEF bcount
      <3> QED
        BY <3>3, <3>4
    <2> QED
      BY <2>1, <2>2 DEF OneAtMostAfterStop
  <1> QED
    BY <1>1, Invariant, PTL

(* Every packet is counted once, as forwarded, refused or still in the      *)
(* batch, but for the one that came behind a GET_INFO's flush and for the   *)
(* one whose captured++ is still to come; and a STATS frame, read with no   *)
(* lock at any point of the other threads but the counter reset, is off by  *)
(* that one packet at most.                                                 *)
THEOREM CountsAlwaysAddUp == Spec => []CountsAddUp
  <1>1. Inv => CountsAddUp
    <2> SUFFICES ASSUME Inv, pc["reader"] \notin Clearing
                 PROVE  /\ Apart <= forwarded + dropped + Len(pending)
                        /\ forwarded + dropped + Len(pending) <= Apart + 1
                        /\ forwarded + dropped <= captured + 1
                        /\ captured <= forwarded + dropped + MaxEntries
                        /\ adv_reports <= captured + 1
                        /\ oversized <= captured + 1
      BY DEF CountsAddUp, Stats
    <2> QED
      BY StatsAddUp DEF Inv, CountInv, AddsUp
  <1> QED
    BY <1>1, Invariant, PTL

(* No packet is left in the batch with nothing on its way to send it.       *)
THEOREM LingerAlwaysCoversBatch == Spec => []LingerCovers
  <1>1. Inv => LingerCovers
    BY DEF Inv, TimerInv
  <1> QED
    BY <1>1, Invariant, PTL
-----------------------------------------------------------------------------
(* The host decodes the open batch to the packets that were taken.          *)
LEMMA DecodeIsPending ==
  ASSUME BufferInv, bbuf # <<>>, ~HalfDone
  PROVE  Decode(bbase_us, bbuf) = pending
  <1> DEFINE n == Len(bbuf)
             host == HostTime(bbase_us, bbuf)
             stamp == IF n = 1 THEN <<bbase_us>> ELSE host
  <1>1. /\ bbuf \in Seq(Entry) /\ pending \in Seq(Kept)
        /\ n \in Nat /\ n > 0 /\ Len(pending) = n /\ bbase_us \in Nat
        /\ pending # <<>>
    BY DEF BufferInv, Filling
  <1>2. \A i \in 1 .. n :
          /\ pending[i].ts \in Nat
          /\ pending[i] = [kind |-> pending[i].kind, ts |-> pending[i].ts,
                           full |-> pending[i].full, take |-> pending[i].take,
                           truncated |-> pending[i].truncated]
    <2> TAKE i \in 1 .. n
    <2>1. pending[i] \in Kept
      BY <1>1
    <2> QED
      BY <2>1, KeptFacts
  <1>3. /\ bbase_us = pending[1].ts /\ bbuf[1].dt = 0
        /\ \A i \in 1 .. n :
             /\ pending[i].kind = bbuf[i].kind /\ pending[i].full = bbuf[i].full
             /\ pending[i].take = bbuf[i].take
             /\ pending[i].truncated = bbuf[i].truncated
        /\ \A i \in 2 .. n : bbuf[i].dt = pending[i].ts - pending[i - 1].ts
    BY <1>1 DEF BufferInv, DeltasExact, bcount
  <1>4. host = [i \in 1 .. n |-> pending[i].ts]
    <2> DEFINE ts == [i \in 1 .. n |-> pending[i].ts]
    <2>1. n > 0 => ts[1] = bbase_us + bbuf[1].dt
      <3>1. 1 \in 1 .. n
        BY <1>1
      <3> QED
        BY <3>1, <1>1, <1>3
    <2>2. \A i \in 2 .. n : ts[i] = ts[i - 1] + bbuf[i].dt
      <3> TAKE i \in 2 .. n
      <3>1. i \in 1 .. n /\ i - 1 \in 1 .. n
        BY <1>1
      <3>2. ts[i] = pending[i].ts /\ ts[i - 1] = pending[i - 1].ts
        BY <3>1
      <3>3. ts[i] \in Nat /\ ts[i - 1] \in Nat
        BY <3>1, <3>2, <1>2
      <3>4. bbuf[i].dt = ts[i] - ts[i - 1]
        BY <1>3, <3>2
      <3> HIDE DEF ts
      <3> QED
        BY <3>3, <3>4
    <2>3. ts \in [1 .. Len(bbuf) -> Nat]
      BY <1>1, <1>2
    <2>4. bbase_us \in Nat /\ Len(bbuf) \in Nat
      BY <1>1
    <2> HIDE DEF ts
    <2>5. HostTime(bbase_us, bbuf) = ts
      BY <2>1, <2>2, <2>3, <2>4, HostTimeExact
    <2> QED
      BY <2>5 DEF ts
  <1>5. \A i \in 1 .. n : stamp[i] = pending[i].ts
    <2> HIDE DEF host
    <2>1. CASE n = 1
      BY <2>1, <1>3
    <2>2. CASE n # 1
      BY <2>2, <1>4
    <2> QED
      BY <2>1, <2>2
  <1>6. Decode(bbase_us, bbuf) =
          [i \in 1 .. n |->
            [kind |-> bbuf[i].kind, ts |-> stamp[i], full |-> bbuf[i].full,
             take |-> bbuf[i].take, truncated |-> bbuf[i].truncated]]
    BY DEF Decode
  <1> HIDE DEF stamp
  <1>7. Decode(bbase_us, bbuf) = [i \in 1 .. n |-> pending[i]]
    BY <1>2, <1>3, <1>5, <1>6
  <1> QED
    BY <1>1, <1>7

(* A batch handed over delivers what is pending, or refuses all of it.      *)
LEMMA HandedIsPipeStep ==
  ASSUME BufferInv, bbuf # <<>>, ~HalfDone, Handed
  PROVE  Pipe!Deliver \/ Pipe!Refuse
  <1>1. pending # <<>> /\ Len(pending) = bcount
    BY DEF BufferInv, Filling, bcount
  <1>2. /\ pending' = <<>>
        /\ \/ delivered' = delivered \o pending /\ UNCHANGED dropped
           \/ dropped' = dropped + Len(pending) /\ UNCHANGED delivered
    BY <1>1, DecodeIsPending DEF Handed, Loss
  <1> QED
    BY <1>1, <1>2 DEF Pipe!Deliver, Pipe!Refuse

(* Every step of the forwarding is a step of the lossy FIFO, or none.       *)
LEMMA PipeStep ==
  ASSUME MutexInv, BufferInv, [Next]_vars
  PROVE  [Pipe!Next]_(Pipe!vars)
  <1> USE DEF Pipe!vars, batchVars, sendVars
  <1>1. CASE \E p \in Arrivals : FwdTake(p)
    BY <1>1 DEF FwdTake
  <1>2. CASE FwdNote \/ FwdEnter \/ FwdCleared \/ FwdCount \/ FwdReturns
    BY <1>2 DEF FwdNote, FwdEnter, FwdCleared, FwdCount, FwdReturns
  <1>3. CASE Lock("fwd") \/ Lock("reader") \/ Lock("wq")
    BY <1>3 DEF Lock
  <1>4. CASE FwdSentEarly \/ FwdSentFull \/ LingerSent \/ StopSent
    <2>1. PICK t \in Threads : pc[t] \in {"early", "full", "send"} /\ Handed
      BY <1>4 DEF FwdSentEarly, FwdSentFull, LingerSent, StopSent, Sends, Threads
    <2>2. pc[t] \in Flushing /\ pc[t] \in Owning /\ pc[t] \notin HandedPlaces
      BY <2>1 DEF Flushing, Owning, HandedPlaces
    <2>3. bbuf # <<>> /\ ~HalfDone
      BY <2>2, OnlyOwner DEF BufferInv, AtPlaces
    <2> QED
      BY <2>1, <2>3, HandedIsPipeStep DEF Pipe!Next
  <1>5. CASE FwdAppend
    <2>1. pkt \in Kept
      BY <1>5 DEF FwdAppend, BufferInv, AtPlaces, Carrying
    <2> QED
      BY <1>5, <2>1 DEF FwdAppend, Pipe!Take, Pipe!Next
  <1>6. CASE TimerExpires \/ LingerStart \/ LingerEnter
    BY <1>6 DEF TimerExpires, LingerStart, LingerEnter, Enter
  <1>7. CASE ScanStarted \/ Stop \/ StopEnter \/ StopCleared \/ StopReturns
    BY <1>7 DEF ScanStarted, Stop, StopEnter, Enter, StopCleared, StopReturns
  <1>8. CASE ResetCaptured \/ ResetAdvReports \/ ResetForwarded \/ ResetOversized
    BY <1>8 DEF ResetCaptured, ResetAdvReports, ResetForwarded, ResetOversized,
                Store
  <1>9. CASE ResetDropped
    BY <1>9 DEF ResetDropped, Store, Pipe!Reset, Pipe!Next
  <1>10. CASE UNCHANGED vars
    BY <1>10 DEF vars
  <1> QED
    BY <1>1, <1>2, <1>3, <1>4, <1>5, <1>6, <1>7, <1>8, <1>9, <1>10
    DEF Next, Forward, Linger, Stopping, Resetting

(* The BLE path implements the lossy FIFO, for every length of batch and    *)
(* every interleaving: each packet taken reaches the host in order, with    *)
(* its kind, its two lengths and its exact time, or is counted as refused.  *)
THEOREM ForwardIsALossyFifo == Spec => LossyFifoSpec
  <1>1. Init => Pipe!Init
    BY DEF Init, Pipe!Init
  <1>2. Inv /\ [Next]_vars => [Pipe!Next]_(Pipe!vars)
    BY PipeStep DEF Inv
  <1> QED
    BY <1>1, <1>2, Invariant, PTL DEF Spec, LossyFifoSpec, Pipe!Spec
=============================================================================
