--------------------------- MODULE Radio154Proofs ---------------------------
(***************************************************************************)
(* Theorems about the 802.15.4 radio, for any channels that satisfy        *)
(* RadioAssumption, and any number of operations, frames, refused driver   *)
(* calls and measurements that outlast their wait.                         *)
(*                                                                         *)
(* Four invariants, each inductive with Typed: Stopped, what is left of a  *)
(* capture once the radio has stopped; Tuned, where the radio is in the    *)
(* middle of an operation; Tagged, the frames on their way to the batch;   *)
(* and Measured, which measurement the semaphore and the result are of.    *)
(***************************************************************************)
EXTENDS Radio154, TLAPS

EdPlaces == {"ed.tune", "ed.start", "ed.reset", "ed.scan", "ed.wait",
             "ed.restore", "ed.back", "ed.end"}

Places == EdPlaces \cup
  {"idle", "channel.flush", "channel.sent", "channel.tune", "channel.store",
   "start", "start.store", "stop", "stop.store", "stop.flush", "stop.sent",
   "ed"}

Frame == [tag : Nat, on : Nat, heard : {"capture", "retuning", "away"},
          moved : BOOLEAN]
Op == [channel : Nat, was_running : BOOLEAN, previous : Nat, scan : Nat]

Typed ==
  /\ TypeOK
  /\ rxq \in Seq(Frame) /\ rx \in Frame /\ op \in Op /\ pc \in Places
  /\ late \in BOOLEAN /\ raced \in BOOLEAN
  /\ frames \in Nat /\ scans \in Nat /\ lapses \in Nat
  /\ batch_lock = "reader" <=> pc \in {"channel.sent", "stop.sent"}
  /\ measuring <=> pc \in EdPlaces
  /\ pc \in EdPlaces \cup {"ed", "channel.store"} => op.channel \in Channels
  /\ pc \in EdPlaces =>
       op.was_running = running /\ op.previous = current_channel

\* A radio that has stopped hands nothing on, and the flush takes the rest.
Stopped ==
  ~running => /\ pc \notin {"stop.flush", "stop.sent"} => open = 0
              /\ pc # "stop.flush" => ~RxBusy

\* Where the radio is, as long as no call of a restore was refused.
Tuned ==
  /\ pc \notin {"start.store", "stop.store", "ed.reset", "ed.scan", "ed.wait",
                "ed.restore", "ed.back"} => receiving = running
  /\ pc = "start.store" => receiving
  /\ pc = "stop.store" => ~receiving
  /\ pc \notin {"channel.store", "ed.start", "ed.reset", "ed.scan", "ed.wait",
                "ed.restore"} => tuned = current_channel
  /\ pc = "channel.store" => tuned = op.channel
  /\ strays = 0

\* A frame the driver still holds is of the channel it is tuned to, or was
\* left behind; and every frame but those is tagged as it was heard, or will be,
\* if it is still wanted.
Left(f) == f.heard = "retuning" \/ (late /\ f.moved)

Tagged ==
  /\ \A i \in 1 .. Len(rxq) :
       /\ ~rxq[i].moved => rxq[i].on = tuned
       /\ Left(rxq[i]) \/ measuring \/ rxq[i].on = current_channel
  /\ rx # Nothing => Left(rx) \/ rx.tag = rx.on
  /\ \A f \in batched : Left(f) \/ f.tag = f.on

\* The semaphore and the result are the measurement's that is waited for.
Measured ==
  /\ reading.asked = reading.got
  /\ pc = "ed.scan" => ed_done = 0
  /\ pc = "ed.wait" => scan \in {0, op.scan}
  /\ pc = "ed.wait" /\ ed_done = 1 => ed_result \in {op.scan, Failed}

Inv ==
  /\ Typed /\ Stopped
  /\ lapses = 0 => Tuned
  /\ lapses = 0 => Tagged
  /\ ~raced => Measured
-----------------------------------------------------------------------------
(* The invariant holds at first.                                            *)
LEMMA InvInit == Init => Inv
  <1> SUFFICES ASSUME Init PROVE Inv
    OBVIOUS
  <1>1. Typed
    <2>1. Nothing \in Frame /\ NoOp \in Op
      BY DEF Nothing, Frame, NoOp, Op
    <2>2. TypeOK
      <3>1. Len(rxq) = 0 /\ frames = 0 /\ MaxFrames \in Nat
        BY RadioAssumption DEF Init
      <3>2. /\ current_channel \in Channels /\ tuned \in Channels
            /\ running \in BOOLEAN /\ measuring \in BOOLEAN
            /\ receiving \in BOOLEAN /\ batch_lock = "none"
            /\ ed_done = 0 /\ ed_result = 0 /\ open = 0 /\ scan = 0 /\ scans = 0
        BY RadioAssumption DEF Init
      <3> QED
        BY <3>1, <3>2 DEF TypeOK
    <2>3. /\ rxq \in Seq(Frame) /\ rx \in Frame /\ op \in Op /\ pc = "idle"
          /\ late \in BOOLEAN /\ raced \in BOOLEAN
          /\ frames \in Nat /\ scans \in Nat /\ lapses \in Nat
          /\ batch_lock = "none" /\ measuring = FALSE
      <3>1. <<>> \in Seq(Frame)
        OBVIOUS
      <3> QED
        BY <2>1, <3>1 DEF Init
    <2> QED
      BY <2>2, <2>3 DEF Typed, Places, EdPlaces
  <1>2. Stopped /\ Tuned
    BY DEF Init, Stopped, Tuned, RxBusy
  <1>3. Tagged /\ Measured
    BY DEF Init, Tagged, Measured
  <1> QED
    BY <1>1, <1>2, <1>3 DEF Inv

(* The frames a retuning leaves behind are otherwise as they were.          *)
LEMMA RetuneKeeps ==
  ASSUME NEW c, Retune(c), rxq \in Seq(Frame)
  PROVE  /\ rxq' \in Seq(Frame) /\ Len(rxq') = Len(rxq) /\ tuned' = c
         /\ \A i \in 1 .. Len(rxq) :
              /\ rxq'[i].on = rxq[i].on /\ rxq'[i].heard = rxq[i].heard
              /\ rxq'[i].moved = (rxq[i].moved \/ rxq[i].on # c)
  <1>1. /\ tuned' = c
        /\ rxq' = [i \in 1 .. Len(rxq) |->
                     [rxq[i] EXCEPT !.moved = @ \/ rxq[i].on # c]]
    BY DEF Retune
  <1>2. ASSUME NEW i \in 1 .. Len(rxq)
        PROVE  /\ rxq'[i] \in Frame
               /\ rxq'[i].on = rxq[i].on /\ rxq'[i].heard = rxq[i].heard
               /\ rxq'[i].moved = (rxq[i].moved \/ rxq[i].on # c)
    <2>1. rxq[i] \in Frame
      OBVIOUS
    <2>2. rxq'[i] = [rxq[i] EXCEPT !.moved = @ \/ rxq[i].on # c]
      BY <1>1
    <2> QED
      BY <2>1, <2>2 DEF Frame
  <1>3. rxq' \in Seq(Frame) /\ Len(rxq') = Len(rxq)
    <2>1. Len(rxq) \in Nat /\ DOMAIN rxq' = 1 .. Len(rxq)
      BY <1>1
    <2>2. rxq' \in [1 .. Len(rxq) -> Frame]
      BY <1>1, <1>2
    <2> QED
      BY <2>1, <2>2
  <1> QED
    BY <1>1, <1>2, <1>3

(* Every step of the radio keeps its types, and every operation what it     *)
(* noted when it began.                                                     *)
LEMMA TypedNext == Typed /\ [Next]_vars => Typed'
  <1> SUFFICES ASSUME Typed, [Next]_vars PROVE Typed'
    OBVIOUS
  <1> USE RadioAssumption
      DEF codeVars, edVars, readerVars, rxVars, hwVars, lockVars, histVars,
          boundVars, Others
  <1>0. /\ current_channel \in Channels /\ tuned \in Channels
        /\ running \in BOOLEAN /\ measuring \in BOOLEAN /\ receiving \in BOOLEAN
        /\ ed_done \in {0, 1} /\ ed_result \in -1 .. scans
        /\ batch_lock \in {"none", "reader", "wq"}
        /\ open \in Nat /\ scan \in 0 .. scans
        /\ Len(rxq) <= frames /\ frames \in 0 .. MaxFrames
    BY DEF Typed, TypeOK
  <1>1. /\ rxq \in Seq(Frame) /\ rx \in Frame /\ op \in Op /\ pc \in Places
        /\ late \in BOOLEAN /\ raced \in BOOLEAN
        /\ frames \in Nat /\ scans \in Nat /\ lapses \in Nat
        /\ batch_lock = "reader" <=> pc \in {"channel.sent", "stop.sent"}
        /\ measuring <=> pc \in EdPlaces
        /\ pc \in EdPlaces \cup {"ed", "channel.store"} => op.channel \in Channels
        /\ pc \in EdPlaces =>
             op.was_running = running /\ op.previous = current_channel
    BY DEF Typed
  <1>n. Nothing \in Frame /\ NoOp \in Op
    BY DEF Nothing, Frame, NoOp, Op
  <1> DEFINE Radio ==
        /\ current_channel' \in Channels /\ tuned' \in Channels
        /\ running' \in BOOLEAN /\ measuring' \in BOOLEAN /\ receiving' \in BOOLEAN
        /\ ed_done' \in {0, 1} /\ ed_result' \in -1 .. scans'
        /\ batch_lock' \in {"none", "reader", "wq"}
        /\ open' \in Nat /\ scan' \in 0 .. scans'
        /\ scans' \in Nat /\ lapses' \in Nat /\ raced' \in BOOLEAN
        Queue ==
        /\ rxq' \in Seq(Frame) /\ rx' \in Frame
        /\ Len(rxq') <= frames' /\ frames' \in 0 .. MaxFrames
        Operating ==
        /\ op' \in Op /\ pc' \in Places
        /\ batch_lock' = "reader" <=> pc' \in {"channel.sent", "stop.sent"}
        /\ measuring' <=> pc' \in EdPlaces
        /\ pc' \in EdPlaces \cup {"ed", "channel.store"} => op'.channel \in Channels
        /\ pc' \in EdPlaces =>
             op'.was_running = running' /\ op'.previous = current_channel'
  <1>l. late' \in BOOLEAN
    BY <1>1 DEF Next, vars
  <1>2. SUFFICES Radio /\ Queue /\ Operating
    BY <1>l DEF Typed, TypeOK
  <1>a. UNCHANGED <<rxq, rx, frames>> => Queue
    BY <1>0, <1>1
  <1>r. ASSUME NEW c, Retune(c), UNCHANGED <<rx, frames>> PROVE Queue
    BY <1>0, <1>1, <1>r, RetuneKeeps
  <1>b. UNCHANGED <<op, pc, batch_lock, measuring, running, current_channel>>
          => Operating
    BY <1>1
  <1>3. CASE Hear
    <2> DEFINE f == [tag |-> 0, on |-> tuned, heard |-> Heard, moved |-> FALSE]
    <2>1. f \in Frame
      BY <1>0 DEF Frame, Heard
    <2> HIDE DEF f
    <2>2. Append(rxq, f) \in Seq(Frame)
      BY <1>1, <2>1
    <2>3. Queue
      <3>1. rxq' = Append(rxq, f) /\ rx' = rx /\ frames' = frames + 1
            /\ frames < MaxFrames
        BY <1>3 DEF Hear, f
      <3> QED
        BY <1>0, <1>1, <2>1, <2>2, <3>1
    <2> QED
      BY <1>0, <1>1, <1>3, <1>b, <2>3 DEF Hear
  <1>4. CASE RadioEvent
    <2>1. Queue
      BY <1>0, <1>1, <1>4 DEF RadioEvent
    <2> QED
      BY <1>0, <1>1, <1>4, <1>b, <2>1 DEF RadioEvent
  <1>5. CASE EdComplete \/ ScanDropped
    <2>1. raced' \in BOOLEAN
      BY <1>1, <1>5, Zenon DEF EdComplete, ScanDropped
    <2>2. /\ ed_done' \in {0, 1} /\ ed_result' \in {ed_result, scan, -1}
          /\ scan' = 0
      BY <1>0, <1>5 DEF EdComplete, ScanDropped, Failed
    <2>3. UNCHANGED <<codeVars, readerVars, rxVars, hwVars, lockVars, scans,
                      frames, boundVars>>
      BY <1>5 DEF EdComplete, ScanDropped
    <2> QED
      BY <1>0, <1>1, <1>a, <1>b, <2>1, <2>2, <2>3
  <1>6. CASE NetRecvData
    <2>1. Head(rxq) \in Frame /\ Tail(rxq) \in Seq(Frame) /\ Len(Tail(rxq)) < Len(rxq)
      BY <1>1, <1>6 DEF NetRecvData
    <2>2. [Head(rxq) EXCEPT !.tag = current_channel] \in Frame
      BY <1>0, <2>1 DEF Frame
    <2>3. Queue
      <3>1. rxq' \in Seq(Frame) /\ rx' \in Frame
        BY <1>6, <1>n, <2>1, <2>2 DEF NetRecvData
      <3>2. Len(rxq') < Len(rxq) /\ frames' = frames
        BY <1>6, <2>1 DEF NetRecvData
      <3> QED
        BY <1>0, <1>1, <3>1, <3>2
    <2> QED
      BY <1>0, <1>1, <1>6, <1>b, <2>3 DEF NetRecvData
  <1>7. CASE BatchAdd
    BY <1>0, <1>1, <1>7, <1>b, <1>n DEF BatchAdd
  <1>8. CASE LingerLock \/ LingerFlush
    <2>1. /\ UNCHANGED <<codeVars, edVars, readerVars, rxVars, hwVars, scan,
                         scans, frames, histVars, boundVars>>
          /\ batch_lock' \in {"none", "wq"} /\ open' \in {open, 0}
          /\ batch_lock # "reader"
      BY <1>8 DEF LingerLock, LingerFlush
    <2>2. Operating
      BY <1>1, <2>1
    <2> QED
      BY <1>0, <1>1, <1>a, <2>1, <2>2
  <1>9. CASE Operation
    <2>1. ASSUME NEW p \in {"channel.flush", "start", "stop", "ed"}, NEW c \in Nat,
                 Begin(p, c), p = "ed" => c \in Channels
          PROVE  Radio /\ Queue /\ Operating
      <3>1. op' \in Op /\ op'.channel = c
        BY <1>n, <2>1 DEF Begin, Op
      <3>2. Operating
        BY <1>0, <1>1, <2>1, <3>1 DEF Begin, Rest, Places, EdPlaces
      <3> QED
        BY <1>0, <1>1, <1>a, <2>1, <3>2 DEF Begin, Rest
    <2>2. \E p \in {"channel.flush", "start", "stop", "ed"}, c \in Nat :
            Begin(p, c) /\ (p = "ed" => c \in Channels)
      BY <1>9 DEF Operation, SetChannel, StartCapture, StopCapture, EnergyDetect
    <2> QED
      BY <2>1, <2>2
  <1>10. CASE FlushLock \/ FlushUnlock
    <2>1. Operating
      BY <1>0, <1>1, <1>n, <1>10
      DEF FlushLock, FlushUnlock, Goto, Done, Places, EdPlaces
    <2>2. /\ UNCHANGED <<codeVars, edVars, rxVars, hwVars, scan, scans, frames,
                         histVars, boundVars>>
          /\ batch_lock' \in {"none", "reader"} /\ open' \in {open, 0}
      BY <1>10 DEF FlushLock, FlushUnlock
    <2> QED
      BY <1>0, <1>1, <1>a, <2>1, <2>2
  <1>11. CASE Tune \/ TuneStore
    <2>1. Operating
      BY <1>0, <1>1, <1>n, <1>11
      DEF Tune, TuneStore, At, Valid, Rest, Goto, Done, Places, EdPlaces
    <2>2. Radio
      BY <1>0, <1>1, <1>11
      DEF Tune, TuneStore, At, Valid, Rest, Refusal, Retune, EdPlaces
    <2>3. Queue
      BY <1>11, <1>a, <1>r DEF Tune, TuneStore, Rest
    <2> QED
      BY <2>1, <2>2, <2>3
  <1>12. CASE Start \/ StartStore
    <2>1. Operating
      BY <1>0, <1>1, <1>n, <1>12
      DEF Start, StartStore, At, Rest, Goto, Done, Places, EdPlaces
    <2>2. Radio
      BY <1>0, <1>1, <1>12 DEF Start, StartStore, Rest, Refusal
    <2> QED
      BY <1>12, <1>a, <2>1, <2>2 DEF Start, StartStore, Rest
  <1>13. CASE Stop \/ StopStore
    <2>1. Operating
      BY <1>0, <1>1, <1>13
      DEF Stop, StopStore, At, Rest, Goto, Places, EdPlaces
    <2>2. Radio
      BY <1>0, <1>1, <1>13 DEF Stop, StopStore, Rest, Refusal
    <2> QED
      BY <1>13, <1>a, <2>1, <2>2 DEF Stop, StopStore, Rest
  <1>14. CASE EdBegin
    <2>1. /\ op' = [op EXCEPT !.was_running = running, !.previous = current_channel]
          /\ op' \in Op
      BY <1>0, <1>1, <1>14 DEF EdBegin, Op
    <2>2. Operating
      BY <1>0, <1>1, <1>14, <2>1 DEF EdBegin, Mark, At, Rest, Places, EdPlaces, Op
    <2> QED
      BY <1>0, <1>1, <1>14, <1>a, <2>2 DEF EdBegin, Mark, Rest
  <1>15. CASE EdTune \/ EdStart \/ EdReset
    <2>1. Operating
      BY <1>0, <1>1, <1>15
      DEF EdTune, EdStart, EdReset, At, Rest, Goto, Places, EdPlaces
    <2>2. Radio
      BY <1>0, <1>1, <1>15
      DEF EdTune, EdStart, EdReset, SemReset, At, Rest, Refusal, Retune, EdPlaces
    <2>3. Queue
      BY <1>15, <1>a, <1>r DEF EdTune, EdStart, EdReset, Rest
    <2> QED
      BY <2>1, <2>2, <2>3
  <1>16. CASE EdScan
    <2>1. /\ op' \in Op /\ op'.was_running = op.was_running
          /\ op'.previous = op.previous /\ op'.channel = op.channel
      <3>1. op' = op \/ op' = [op EXCEPT !.scan = scans + 1]
        BY <1>16 DEF EdScan, Goto
      <3> QED
        BY <1>1, <3>1 DEF Op
    <2>2. pc = "ed.scan" /\ pc' \in {"ed.wait", "ed.restore"}
      BY <1>16 DEF EdScan, At, Goto
    <2>3. Operating
      BY <1>1, <1>16, <2>1, <2>2 DEF EdScan, Places, EdPlaces
    <2>4. Radio
      <3>1. /\ scans' \in {scans, scans + 1} /\ scan' \in {scan, scans'}
            /\ lapses' = lapses
            /\ UNCHANGED <<codeVars, edVars, hwVars, lockVars, raced>>
        BY <1>16 DEF EdScan, Refusal
      <3> QED
        BY <1>0, <1>1, <3>1
    <2> QED
      BY <1>16, <1>a, <2>3, <2>4 DEF EdScan
  <1>17. CASE EdRead \/ EdTimesOut
    <2>1. Operating
      BY <1>0, <1>1, <1>17
      DEF EdRead, EdTimesOut, At, Rest, Goto, Places, EdPlaces
    <2> QED
      BY <1>0, <1>1, <1>17, <1>a, <2>1 DEF EdRead, EdTimesOut, Rest
  <1>18. CASE EdRestore \/ EdBack \/ EdEnd
    <2>1. Operating
      BY <1>0, <1>1, <1>n, <1>18
      DEF EdRestore, EdBack, EdEnd, At, Rest, Goto, Done, Places, EdPlaces
    <2>2. Radio
      <3>1. op.previous \in Channels /\ op.was_running \in BOOLEAN
        BY <1>0, <1>1, <1>18 DEF EdRestore, EdBack, EdEnd, At, EdPlaces
      <3>2. tuned' \in {tuned, op.previous} /\ lapses' \in {lapses, lapses + 1}
        BY <1>18 DEF EdRestore, EdBack, EdEnd, Back, Lapse, Retune
      <3>3. receiving' \in {receiving, op.was_running}
        BY <1>18 DEF EdRestore, EdBack, EdEnd
      <3>4. /\ UNCHANGED <<current_channel, running, edVars, lockVars, scan,
                           scans, raced>>
            /\ measuring' \in {measuring, FALSE}
        BY <1>18 DEF EdRestore, EdBack, EdEnd, Rest
      <3>5. receiving' \in BOOLEAN /\ measuring' \in BOOLEAN
        BY <1>0, <3>1, <3>3, <3>4
      <3>6. tuned' \in Channels /\ lapses' \in Nat
        BY <1>0, <1>1, <3>1, <3>2
      <3> QED
        BY <1>0, <1>1, <3>4, <3>5, <3>6
    <2>3. Queue
      BY <1>18, <1>a, <1>r DEF EdRestore, EdBack, EdEnd, Rest
    <2> QED
      BY <2>1, <2>2, <2>3
  <1>19. CASE UNCHANGED vars
    BY <1>0, <1>1, <1>19, <1>a, <1>b DEF vars
  <1> QED
    BY <1>3, <1>4, <1>5, <1>6, <1>7, <1>8, <1>9, <1>10, <1>11, <1>12, <1>13,
       <1>14, <1>15, <1>16, <1>17, <1>18, <1>19 DEF Next, ReaderStep

(* A frame not wanted does not make the RX thread busy, and a flush begins  *)
(* only when it is not.                                                     *)
LEMMA StoppedNext == Typed /\ Stopped /\ [Next]_vars => Stopped'
  <1> SUFFICES ASSUME Typed, Stopped, [Next]_vars, ~running'
               PROVE  /\ pc' \notin {"stop.flush", "stop.sent"} => open' = 0
                      /\ pc' # "stop.flush" => ~RxBusy'
    BY DEF Stopped
  <1> USE DEF codeVars, edVars, readerVars, rxVars, hwVars, lockVars, histVars,
              boundVars, Others
  <1>0. /\ running \in BOOLEAN /\ pc \in Places
        /\ batch_lock = "reader" <=> pc \in {"channel.sent", "stop.sent"}
        /\ ~running => /\ pc \notin {"stop.flush", "stop.sent"} => open = 0
                       /\ pc # "stop.flush" => ~RxBusy
    BY DEF Typed, TypeOK, Stopped
  <1>1. CASE Hear \/ RadioEvent \/ EdComplete \/ ScanDropped
    BY <1>0, <1>1 DEF Hear, RadioEvent, EdComplete, ScanDropped, RxBusy
  <1>2. CASE NetRecvData \/ BatchAdd \/ LingerLock \/ LingerFlush
    BY <1>0, <1>2
    DEF NetRecvData, Wanted, BatchAdd, LingerLock, LingerFlush, RxBusy
  <1>3. CASE Operation
    BY <1>0, <1>3
    DEF Operation, SetChannel, StartCapture, StopCapture, EnergyDetect, Begin,
        Rest, RxBusy
  <1>4. CASE FlushLock
    BY <1>0, <1>4 DEF FlushLock, ReaderMayRun, Goto, RxBusy
  <1>5. CASE FlushUnlock
    BY <1>0, <1>5 DEF FlushUnlock, Goto, Done, RxBusy
  <1>6. CASE Tune \/ TuneStore \/ Start \/ StartStore
    BY <1>0, <1>6
    DEF Tune, TuneStore, Start, StartStore, At, Goto, Done, Rest, RxBusy
  <1>7. CASE Stop \/ StopStore
    BY <1>0, <1>7 DEF Stop, StopStore, At, Goto, Rest, RxBusy
  <1>8. CASE EdBegin \/ EdTune \/ EdStart \/ EdReset
    BY <1>0, <1>8
    DEF EdBegin, EdTune, EdStart, EdReset, At, Goto, Rest, RxBusy
  <1>9. CASE EdScan \/ EdRead \/ EdTimesOut
    BY <1>0, <1>9 DEF EdScan, EdRead, EdTimesOut, At, Goto, Rest, RxBusy
  <1>10. CASE EdRestore \/ EdBack \/ EdEnd
    BY <1>0, <1>10 DEF EdRestore, EdBack, EdEnd, At, Goto, Done, Rest, RxBusy
  <1>11. CASE UNCHANGED vars
    BY <1>0, <1>11 DEF vars, RxBusy
  <1> QED
    BY <1>1, <1>2, <1>3, <1>4, <1>5, <1>6, <1>7, <1>8, <1>9, <1>10, <1>11
    DEF Next, ReaderStep

(* The radio leaves its channel and its state only inside an operation, and *)
(* is put back before that ends.                                            *)
LEMMA TunedNext ==
  Typed /\ (lapses = 0 => Tuned) /\ [Next]_vars => (lapses' = 0 => Tuned')
  <1> SUFFICES ASSUME Typed, lapses = 0 => Tuned, [Next]_vars, lapses' = 0
               PROVE  Tuned'
    OBVIOUS
  <1> USE DEF codeVars, edVars, readerVars, rxVars, hwVars, lockVars, histVars,
              boundVars, Others
  <1>t. lapses = 0
    <2>1. lapses \in Nat /\ lapses' \in {lapses, lapses + 1}
      BY DEF Typed, Next, vars, Hear, RadioEvent, EdComplete, ScanDropped,
         NetRecvData, BatchAdd, LingerLock, LingerFlush, Operation, SetChannel,
         StartCapture, StopCapture, EnergyDetect, Begin, ReaderStep, FlushLock,
         FlushUnlock, Tune, TuneStore, Start, StartStore, Stop, StopStore,
         EdBegin, EdTune, EdStart, EdReset, EdScan, EdRead, EdTimesOut,
         EdRestore, EdBack, EdEnd, Refusal, Lapse
    <2> QED
      BY <2>1
  <1>0. Tuned
    BY <1>t
  <1>1. /\ pc \in Places /\ running \in BOOLEAN /\ receiving \in BOOLEAN
        /\ measuring <=> pc \in EdPlaces
        /\ pc \in EdPlaces =>
             op.was_running = running /\ op.previous = current_channel
    BY DEF Typed, TypeOK
  <1>2. CASE Hear
    BY <1>0, <1>2 DEF Hear, Tuned
  <1>3. CASE RadioEvent
    <2>1. Counted /\ tuned # current_channel => Retuning
      BY <1>0, <1>1 DEF Counted, Retuning, Tuned, EdPlaces
    <2>2. strays' = strays
      BY <1>0, <1>3, <2>1 DEF RadioEvent, Tuned
    <2> QED
      BY <1>0, <1>3, <2>2 DEF RadioEvent, Tuned
  <1>4. CASE \/ EdComplete \/ ScanDropped \/ NetRecvData \/ BatchAdd
             \/ LingerLock \/ LingerFlush
    BY <1>0, <1>4
    DEF EdComplete, ScanDropped, NetRecvData, BatchAdd, LingerLock, LingerFlush,
        Tuned
  <1>5. CASE Operation
    BY <1>0, <1>5
    DEF Operation, SetChannel, StartCapture, StopCapture, EnergyDetect, Begin,
        Rest, Tuned
  <1>6. CASE FlushLock \/ FlushUnlock
    BY <1>0, <1>6 DEF FlushLock, FlushUnlock, Goto, Done, Tuned
  <1>7. CASE Tune \/ TuneStore
    BY <1>0, <1>7 DEF Tune, TuneStore, Retune, At, Goto, Done, Rest, Tuned
  <1>8. CASE Start \/ StartStore \/ Stop \/ StopStore
    <2>1. CASE Start \/ StartStore
      BY <1>0, <1>1, <2>1 DEF Start, StartStore, At, Goto, Done, Rest, Tuned
    <2>2. CASE Stop \/ StopStore
      BY <1>0, <1>1, <2>2 DEF Stop, StopStore, At, Goto, Rest, Tuned
    <2> QED
      BY <1>8, <2>1, <2>2
  <1>9. CASE EdBegin \/ EdTune \/ EdStart \/ EdReset
    BY <1>0, <1>9
    DEF EdBegin, EdTune, EdStart, EdReset, Retune, At, Goto, Rest, Tuned
  <1>10. CASE EdScan \/ EdRead \/ EdTimesOut
    BY <1>0, <1>10 DEF EdScan, EdRead, EdTimesOut, At, Goto, Rest, Tuned
  <1>11. CASE EdRestore
    <2>1. tuned' = current_channel
      BY <1>1, <1>11, <1>t DEF EdRestore, Retune, At, Back, Lapse, EdPlaces
    <2> QED
      BY <1>0, <1>11, <2>1 DEF EdRestore, At, Goto, Rest, Tuned
  <1>12. CASE EdBack
    <2>1. receiving' = running
      BY <1>1, <1>12, <1>t DEF EdBack, At, Lapse, EdPlaces
    <2> QED
      BY <1>0, <1>12, <2>1 DEF EdBack, At, Goto, Rest, Tuned
  <1>13. CASE EdEnd
    BY <1>0, <1>13 DEF EdEnd, At, Done, Rest, Tuned
  <1>14. CASE UNCHANGED vars
    BY <1>0, <1>14 DEF vars, Tuned
  <1> QED
    BY <1>2, <1>3, <1>4, <1>5, <1>6, <1>7, <1>8, <1>9, <1>10, <1>11, <1>12,
       <1>13, <1>14 DEF Next, ReaderStep

(* The reader changes the channel, or ends a measurement, when the RX       *)
(* thread has nothing to do: at any other moment it waits for it.           *)
LEMMA Drained ==
  ASSUME Typed, ~late, ReaderMayRun, pc \notin {"channel.sent", "stop.sent"}
  PROVE  rxq = <<>> /\ ~RxBusy
  BY DEF Typed, ReaderMayRun

(* Every step leaves the frames tagged with the channel they were heard on. *)
LEMMA TaggedNext ==
  /\ Typed /\ (lapses = 0 => Tuned)
  /\ lapses = 0 => Tagged
  /\ [Next]_vars
  => (lapses' = 0 => Tagged')
  <1> SUFFICES ASSUME Typed, lapses = 0 => Tuned, lapses = 0 => Tagged,
                      [Next]_vars, lapses' = 0
               PROVE  Tagged'
    OBVIOUS
  <1> USE DEF codeVars, edVars, readerVars, rxVars, hwVars, lockVars, histVars,
              boundVars, Others
  <1>t. lapses = 0 /\ late' = late
    <2>1. lapses \in Nat /\ lapses' \in {lapses, lapses + 1} /\ late' = late
      BY DEF Typed, Next, vars, Hear, RadioEvent, EdComplete, ScanDropped,
         NetRecvData, BatchAdd, LingerLock, LingerFlush, Operation, SetChannel,
         StartCapture, StopCapture, EnergyDetect, Begin, ReaderStep, FlushLock,
         FlushUnlock, Tune, TuneStore, Start, StartStore, Stop, StopStore,
         EdBegin, EdTune, EdStart, EdReset, EdScan, EdRead, EdTimesOut,
         EdRestore, EdBack, EdEnd, Refusal, Lapse
    <2> QED
      BY <2>1
  <1>0. Tagged /\ Tuned
    BY <1>t
  <1>1. /\ rxq \in Seq(Frame) /\ pc \in Places
        /\ measuring <=> pc \in EdPlaces
    BY DEF Typed
  <1>l. ASSUME NEW f PROVE Left(f)' <=> Left(f)
    BY <1>t DEF Left
  \* What stays when the frames do, and neither channel nor the flag moves.
  <1>2. ASSUME UNCHANGED <<rxVars, current_channel, tuned>>, measuring => measuring'
        PROVE  Tagged'
    BY <1>0, <1>2, <1>l DEF Tagged
  \* The driver retuned: what it leaves behind is marked.
  <1>r. ASSUME NEW c, Retune(c), UNCHANGED <<rx, batched, current_channel, measuring>>
        PROVE  Tagged'
    <2>1. Len(rxq') = Len(rxq) /\ tuned' = c
      BY <1>1, <1>r, RetuneKeeps
    <2>2. ASSUME NEW i \in 1 .. Len(rxq)
          PROVE  /\ ~rxq'[i].moved => rxq'[i].on = c
                 /\ Left(rxq[i]) => Left(rxq'[i])
                 /\ rxq'[i].on = rxq[i].on
      BY <1>1, <1>r, RetuneKeeps DEF Left
    <2>3. ASSUME NEW i \in 1 .. Len(rxq')
          PROVE  /\ ~rxq'[i].moved => rxq'[i].on = tuned'
                 /\ Left(rxq'[i]) \/ measuring' \/ rxq'[i].on = current_channel'
      BY <1>0, <1>r, <2>1, <2>2 DEF Tagged
    <2> QED
      BY <1>0, <1>l, <1>r, <2>3 DEF Tagged
  <1>3. CASE Hear
    <2>1. Retuning \/ measuring \/ tuned = current_channel
      BY <1>0, <1>1 DEF Retuning, Tuned, EdPlaces
    <2> DEFINE f == [tag |-> 0, on |-> tuned, heard |-> Heard, moved |-> FALSE]
    <2>2. /\ f.on = tuned
          /\ Left(f) \/ measuring \/ f.on = current_channel
      BY <2>1 DEF Left, Heard
    <2> HIDE DEF f
    <2>3. /\ rxq' = Append(rxq, f)
          /\ UNCHANGED <<measuring, current_channel, tuned, rx, batched>>
      BY <1>3 DEF Hear, f
    <2>4. ASSUME NEW i \in 1 .. Len(rxq')
          PROVE  \/ rxq'[i] = f
                 \/ i \in 1 .. Len(rxq) /\ rxq'[i] = rxq[i]
      BY <1>1, <2>3, <2>4
    <2>5. ASSUME NEW i \in 1 .. Len(rxq')
          PROVE  /\ ~rxq'[i].moved => rxq'[i].on = tuned
                 /\ Left(rxq'[i]) \/ measuring \/ rxq'[i].on = current_channel
      BY <1>0, <2>2, <2>4, <2>5 DEF Tagged
    <2> QED
      BY <1>0, <1>l, <2>3, <2>5 DEF Tagged
  <1>4. CASE \/ RadioEvent \/ EdComplete \/ ScanDropped
             \/ LingerLock \/ LingerFlush
    BY <1>2, <1>4 DEF RadioEvent, EdComplete, ScanDropped, LingerLock, LingerFlush
  <1>5. CASE NetRecvData
    <2>1. rxq # <<>> /\ rxq' = Tail(rxq)
      BY <1>5 DEF NetRecvData
    <2>2. ASSUME NEW i \in 1 .. Len(rxq')
          PROVE  i + 1 \in 1 .. Len(rxq) /\ rxq'[i] = rxq[i + 1]
      BY <1>1, <2>1, <2>2
    <2>3. Head(rxq) = rxq[1] /\ 1 \in 1 .. Len(rxq)
      BY <1>1, <2>1
    <2>4. rx' # Nothing => Left(rx') \/ rx'.tag = rx'.on
      <3>1. SUFFICES ASSUME rx' # Nothing PROVE Left(rx') \/ rx'.tag = rx'.on
        OBVIOUS
      <3>2. ~measuring /\ rx' = [Head(rxq) EXCEPT !.tag = current_channel]
        BY <1>5, <3>1 DEF NetRecvData, Wanted
      <3>3. Head(rxq) \in Frame
        BY <1>1, <2>3
      <3>4. Left(Head(rxq)) \/ Head(rxq).on = current_channel
        BY <1>0, <2>3, <3>2 DEF Tagged
      <3>5. /\ rx'.tag = current_channel /\ rx'.on = Head(rxq).on
            /\ rx'.heard = Head(rxq).heard /\ rx'.moved = Head(rxq).moved
        BY <3>2, <3>3 DEF Frame
      <3> QED
        BY <3>4, <3>5 DEF Left
    <2>5. UNCHANGED <<measuring, current_channel, tuned, batched>>
      BY <1>5 DEF NetRecvData
    <2>6. ASSUME NEW i \in 1 .. Len(rxq')
          PROVE  /\ ~rxq'[i].moved => rxq'[i].on = tuned
                 /\ Left(rxq'[i]) \/ measuring \/ rxq'[i].on = current_channel
      BY <1>0, <2>2, <2>6 DEF Tagged
    <2> QED
      BY <1>0, <1>l, <2>4, <2>5, <2>6 DEF Tagged
  <1>6. CASE BatchAdd
    BY <1>0, <1>6, <1>l DEF BatchAdd, RxBusy, Tagged
  <1>7. CASE Operation
    BY <1>2, <1>7
    DEF Operation, SetChannel, StartCapture, StopCapture, EnergyDetect, Begin, Rest
  <1>8. CASE \/ FlushLock \/ FlushUnlock \/ Start \/ StartStore
             \/ Stop \/ StopStore
    BY <1>2, <1>8
    DEF FlushLock, FlushUnlock, Start, StartStore, Stop, StopStore, Rest
  <1>r1. CASE Tune
    BY <1>2, <1>r, <1>r1 DEF Tune
  <1>r2. CASE EdTune
    BY <1>2, <1>r, <1>r2 DEF EdTune
  <1>r3. CASE EdRestore
    BY <1>2, <1>r, <1>r3 DEF EdRestore
  <1>9. CASE TuneStore \/ EdEnd
    <2>1. ~late => rxq = <<>>
      BY <1>9, Drained DEF TuneStore, EdEnd, At
    <2>2. UNCHANGED <<rxVars, tuned>>
      BY <1>9 DEF TuneStore, EdEnd, Rest
    <2>3. tuned = current_channel'
      BY <1>0, <1>9 DEF TuneStore, EdEnd, At, Tuned
    <2>4. ASSUME NEW i \in 1 .. Len(rxq)
          PROVE  /\ ~rxq[i].moved => rxq[i].on = tuned
                 /\ Left(rxq[i]) \/ measuring' \/ rxq[i].on = current_channel'
      <3>1. ~rxq[i].moved => rxq[i].on = tuned
        BY <1>0, <2>4 DEF Tagged
      <3>2. late
        BY <2>1, <2>4
      <3> QED
        BY <2>3, <3>1, <3>2 DEF Left
    <2> QED
      BY <1>0, <1>l, <2>2, <2>4 DEF Tagged
  <1>10. CASE EdBegin \/ EdStart \/ EdReset \/ EdScan
    BY <1>2, <1>10 DEF EdBegin, Mark, EdStart, EdReset, EdScan, Rest
  <1>11. CASE EdRead \/ EdTimesOut \/ EdBack
    BY <1>2, <1>11 DEF EdRead, EdTimesOut, EdBack, Rest
  <1>12. CASE UNCHANGED vars
    BY <1>2, <1>12 DEF vars
  <1> QED
    BY <1>3, <1>4, <1>5, <1>6, <1>7, <1>8, <1>9, <1>10, <1>11, <1>12,
       <1>r1, <1>r2, <1>r3
    DEF Next, ReaderStep

(* From k_sem_reset on, the one completion that can come is that of the     *)
(* measurement asked for, unless an earlier one falls in before ed_scan.    *)
LEMMA MeasuredNext ==
  Typed /\ (~raced => Measured) /\ [Next]_vars => (~raced' => Measured')
  <1> SUFFICES ASSUME Typed, ~raced => Measured, [Next]_vars, ~raced'
               PROVE  Measured'
    OBVIOUS
  <1> USE DEF codeVars, edVars, readerVars, rxVars, hwVars, lockVars, histVars,
              boundVars, Others
  <1>t. ~raced
    BY DEF Next, vars, Hear, RadioEvent, EdComplete, ScanDropped,
       NetRecvData, BatchAdd, LingerLock, LingerFlush, Operation, SetChannel,
       StartCapture, StopCapture, EnergyDetect, Begin, ReaderStep, FlushLock,
       FlushUnlock, Tune, TuneStore, Start, StartStore, Stop, StopStore,
       EdBegin, EdTune, EdStart, EdReset, EdScan, EdRead, EdTimesOut,
       EdRestore, EdBack, EdEnd, Rest
  <1>0. Measured
    BY <1>t
  <1>1. /\ ed_done \in {0, 1} /\ scan \in 0 .. scans /\ scans \in Nat
        /\ op \in Op
    BY DEF Typed, TypeOK
  \* What does not touch the measurement.
  <1>2. ASSUME UNCHANGED <<edVars, scan, reading>>,
               pc' \notin {"ed.scan", "ed.wait"} \/ UNCHANGED <<pc, op>>
        PROVE  Measured'
    BY <1>0, <1>2 DEF Measured
  <1>3. CASE \/ Hear \/ RadioEvent \/ NetRecvData \/ BatchAdd
             \/ LingerLock \/ LingerFlush
    BY <1>2, <1>3
    DEF Hear, RadioEvent, NetRecvData, BatchAdd, LingerLock, LingerFlush
  <1>4. CASE EdComplete
    <2>1. pc # "ed.scan"
      BY <1>4 DEF EdComplete
    <2>2. scan # 0 /\ ed_result' \in {scan, Failed} /\ scan' = 0
      BY <1>4 DEF EdComplete
    <2>3. UNCHANGED <<pc, op, reading>>
      BY <1>4 DEF EdComplete
    <2> QED
      BY <1>0, <2>1, <2>2, <2>3 DEF Measured
  <1>5. CASE ScanDropped
    BY <1>0, <1>5 DEF ScanDropped, Measured
  <1>6. CASE Operation
    BY <1>2, <1>6
    DEF Operation, SetChannel, StartCapture, StopCapture, EnergyDetect, Begin, Rest
  <1>7. CASE FlushLock \/ FlushUnlock \/ Tune \/ TuneStore
    BY <1>2, <1>7
    DEF FlushLock, FlushUnlock, Tune, TuneStore, At, Goto, Done, Rest
  <1>8. CASE Start \/ StartStore \/ Stop \/ StopStore
    BY <1>2, <1>8
    DEF Start, StartStore, Stop, StopStore, At, Goto, Done, Rest
  <1>9. CASE EdBegin \/ EdTune \/ EdStart
    BY <1>2, <1>9 DEF EdBegin, EdTune, EdStart, At, Goto, Rest
  <1>10. CASE EdReset
    BY <1>0, <1>10 DEF EdReset, SemReset, Goto, Rest, Measured
  <1>11. CASE EdScan
    <2>1. pc = "ed.scan" /\ ed_done' = 0 /\ reading' = reading
      BY <1>0, <1>11 DEF EdScan, At, Measured
    <2>2. pc' = "ed.wait" => scan' = scans' /\ op'.scan = scans'
      BY <1>1, <1>11 DEF EdScan, Goto, Op
    <2>3. pc' # "ed.scan"
      BY <1>11 DEF EdScan, Goto
    <2> QED
      BY <1>0, <2>1, <2>2, <2>3 DEF Measured
  <1>12. CASE EdRead
    <2>1. ed_result \in {op.scan, Failed}
      BY <1>0, <1>12 DEF EdRead, At, Measured
    <2>2. reading'.asked = reading'.got
      BY <1>0, <1>12, <2>1 DEF EdRead, Measured
    <2>3. pc' = "ed.restore"
      BY <1>12 DEF EdRead, Goto
    <2> QED
      BY <2>2, <2>3 DEF Measured
  <1>13. CASE EdTimesOut \/ EdRestore \/ EdBack \/ EdEnd
    BY <1>2, <1>13
    DEF EdTimesOut, EdRestore, EdBack, EdEnd, At, Goto, Done, Rest
  <1>14. CASE UNCHANGED vars
    BY <1>2, <1>14 DEF vars
  <1> QED
    BY <1>3, <1>4, <1>5, <1>6, <1>7, <1>8, <1>9, <1>10, <1>11, <1>12, <1>13,
       <1>14 DEF Next, ReaderStep

(* The invariant holds always.                                              *)
LEMMA Invariant == Spec => []Inv
  <1>1. Inv /\ [Next]_vars => Inv'
    BY TypedNext, StoppedNext, TunedNext, TaggedNext, MeasuredNext DEF Inv
  <1> QED
    BY <1>1, InvInit, PTL DEF Spec
-----------------------------------------------------------------------------
(* The radio's variables keep their types: every channel it is on is one it *)
(* has, and what waits in the driver was heard.                             *)
THEOREM RadioTypeCorrect == Spec => []TypeOK
  <1>1. Inv => TypeOK
    BY DEF Inv, Typed
  <1> QED
    BY <1>1, Invariant, PTL

(* Once a STOP has been answered nothing of the capture is still to come,   *)
(* however late the driver hands its frames over.                           *)
THEOREM EveryStopIsClean == Spec => []StopIsClean
  <1>1. Inv => StopIsClean
    BY DEF Inv, Stopped, StopIsClean
  <1> QED
    BY <1>1, Invariant, PTL

(* Between operations the radio is on the channel and in the state the      *)
(* firmware believes, unless a call of a restore was refused.               *)
THEOREM RadioIsAsBelieved == Spec => []RadioAsBelieved
  <1>1. Inv => RadioAsBelieved
    BY DEF Inv, Tuned, RadioAsBelieved
  <1> QED
    BY <1>1, Invariant, PTL

(* While no call of a restore was refused: every bad checksum counted is    *)
(* the capture's own, and every frame recorded is tagged with its channel,  *)
(* if it was not heard between the retuning and the store of the channel    *)
(* nor held by the driver across a retuning.                                *)
THEOREM EveryRecordIsTrue == Spec => []RecordsAreTrue
  <1>1. Inv => RecordsAreTrue
    BY DEF Inv, Tuned, Tagged, Left, RecordsAreTrue
  <1> QED
    BY <1>1, Invariant, PTL

(* A measurement reports its own reading, and none of one given up on.      *)
THEOREM EveryReadingIsOwn == Spec => []ReadingIsOwn
  <1>1. Inv => ReadingIsOwn
    BY DEF Inv, Measured, ReadingIsOwn
  <1> QED
    BY <1>1, Invariant, PTL
=============================================================================
