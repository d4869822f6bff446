---------------------------- MODULE ControlProofs ----------------------------
(***************************************************************************)
(* Theorems about the control channel, for any channels, values, timings   *)
(* and lists that satisfy ControlAssumption, and any number of commands,   *)
(* sessions and driver errors.                                             *)
(*                                                                         *)
(* The invariant adds to the properties what a command relies on: that the *)
(* 802.15.4 radio receives when the driver's flag says so, that the radio  *)
(* which is not selected is still, and what the host believes it sent.     *)
(***************************************************************************)
EXTENDS Control, TLAPS

Host ==
  [radio : {RADIO_154, RADIO_BLE}, scan : Timing, phys : 0 .. 255,
   periodic : BOOLEAN, antenna : {0, 1}, channel : Values \cup {Unknown},
   receiving : {"no", "yes", "unknown"}, keys : KeyLists, filter : FilterLists]

Radio == [on : BOOLEAN, channel : Channels, running : BOOLEAN]

Ble == [scanning : BOOLEAN, scan : Timing, phys : 0 .. 255,
        keys : KeyLists, filter : FilterLists]

Typed ==
  /\ selected_radio \in {RADIO_154, RADIO_BLE}
  /\ ble_scan \in Timing /\ ble_phys \in 0 .. 255
  /\ periodic_enabled \in BOOLEAN /\ ready \in BOOLEAN /\ ble_running \in BOOLEAN
  /\ keys \in KeyLists /\ filter \in FilterLists
  /\ radio \in Radio /\ antenna \in {0, 1} /\ controller \in Ble
  /\ host \in Host /\ refusals \in Nat /\ lapses \in Nat

\* A radio receives only if its driver's flag says so, and a controller that
\* never came up does not.
Driven ==
  /\ radio.on <=> radio.running
  /\ ~ready => ~controller.scanning

\* What holds as long as no error was cast to void: the radio that is not
\* selected is still, the host knows the settings, and a scan that is over has
\* left no keys.
Right ==
  /\ selected_radio = RADIO_154 => ~controller.scanning
  /\ selected_radio = RADIO_BLE => ~radio.on
  /\ host.radio = selected_radio
  /\ host.scan = ble_scan /\ host.phys = ble_phys
  /\ host.periodic = periodic_enabled
  /\ host.antenna = 0 <=> antenna > 0
  /\ host.channel > 255 \/ host.channel \in {Unknown, radio.channel}
  /\ host.receiving = "yes" => Receiving
  /\ host.receiving = "no" => ~Receiving
  /\ ready => /\ keys = host.keys
              /\ host.receiving = "no" \/ host.radio = RADIO_154 =>
                   controller.keys = NoList

Inv == Typed /\ Driven /\ (lapses = 0 => Right)
-----------------------------------------------------------------------------
(* Every frame the board keeps fits its table, and nothing set is a value.  *)
LEMMA ListsKept ==
  /\ NoList \in KeyLists /\ NoList \in FilterLists /\ Unset \in Timing
  /\ \A l \in KeyFrames : WellFormed(l) => l \in KeyLists
  /\ \A l \in FilterFrames :
       SubSeq(l, 1, IF Len(l) < MaxFilter THEN Len(l) ELSE MaxFilter)
         \in FilterLists
  <1> USE ControlAssumption DEF KeyLists, FilterLists
  <1>1. NoList \in Seq(Entries) /\ Len(NoList) = 0
    BY DEF NoList
  <1>2. NoList \in KeyLists /\ NoList \in FilterLists
    BY <1>1 DEF WellFormed
  <1>3. Unset \in Timing
    BY ControlAssumption DEF Unset, Timing
  <1>4. \A l \in KeyFrames : WellFormed(l) => l \in KeyLists
    OBVIOUS
  <1>5. ASSUME NEW l \in FilterFrames
        PROVE  SubSeq(l, 1, IF Len(l) < MaxFilter THEN Len(l) ELSE MaxFilter)
                 \in FilterLists
    <2> DEFINE n == IF Len(l) < MaxFilter THEN Len(l) ELSE MaxFilter
    <2>1. l \in Seq(Entries) /\ n \in Nat /\ n <= MaxFilter /\ n <= Len(l)
      OBVIOUS
    <2> HIDE DEF n
    <2>2. SubSeq(l, 1, n) \in Seq(Entries)
      <3>1. \A i \in 1 .. n : l[i] \in Entries
        BY <2>1
      <3> QED
        BY <2>1, <3>1
    <2>3. Len(SubSeq(l, 1, n)) = n
      BY <2>1
    <2>4. SubSeq(l, 1, n) \in FilterLists
      BY <2>1, <2>2, <2>3
    <2> QED
      BY <2>4 DEF n
  <1> QED
    BY <1>2, <1>3, <1>4, <1>5

(* A controller that was reset is one.                                      *)
LEMMA IdleIsBle == Idle \in Ble
  BY ListsKept DEF Idle, Ble

(* What the units of a time are, if they fit sixteen bits.                  *)
LEMMA UnitsHold ==
  ASSUME NEW ms \in Nat, FitsUnits(ms)
  PROVE  Units(ms) \in Nat /\ Units(ms) < Wide /\ Holds(Units(ms), ms)
  <1> DEFINE q == (ms * 1000) \div 625
  <1>0. Wide \in Nat /\ ms * 1000 < 625 * Wide
    BY ControlAssumption DEF FitsUnits
  <1>1. q \in Nat /\ 625 * q <= ms * 1000 /\ ms * 1000 < 625 * q + 625
    OBVIOUS
  <1>2. Units(ms) = q % Wide
    BY DEF Units
  <1> HIDE DEF q
  <1>3. q < Wide
    BY <1>0, <1>1
  <1>4. Units(ms) = q
    <2>1. ASSUME NEW a \in Nat, NEW b \in Nat, a < b PROVE a % b = a
      BY <2>1
    <2> QED
      BY <1>0, <1>1, <1>2, <1>3, <2>1
  <1> QED
    BY <1>1, <1>3, <1>4 DEF Holds

(* A longer time has more units.                                            *)
LEMMA UnitsGrow ==
  ASSUME NEW a \in Nat, NEW b \in Nat, a <= b, FitsUnits(b)
  PROVE  Units(a) <= Units(b)
  <1>1. FitsUnits(a)
    BY ControlAssumption DEF FitsUnits
  <1>2. Units(a) \in Nat /\ Units(b) \in Nat
    BY <1>1, UnitsHold
  <1>3. Units(a) * 625 <= a * 1000 /\ b * 1000 < (Units(b) + 1) * 625
    BY <1>1, UnitsHold DEF Holds
  <1>4. ASSUME NEW x \in Nat, NEW y \in Nat,
               x * 625 <= a * 1000, b * 1000 < (y + 1) * 625
        PROVE  x <= y
    BY <1>4
  <1> QED
    BY <1>2, <1>3, <1>4

(* The scan timing fits its sixteen bits.                                   *)
LEMMA ScanTimingTyped == ble_scan \in Timing => ScanTiming \in Timing
  <1> SUFFICES ASSUME ble_scan \in Timing PROVE ScanTiming \in Timing
    OBVIOUS
  <1>1. ASSUME NEW ms \in Nat PROVE Units(ms) \in 0 .. Wide - 1
    <2>1. ASSUME NEW a \in Nat, NEW b \in Nat \ {0} PROVE a % b \in 0 .. b - 1
      OBVIOUS
    <2>2. (ms * 1000) \div 625 \in Nat /\ Wide \in Nat \ {0}
      BY ControlAssumption
    <2> QED
      BY <2>1, <2>2 DEF Units
  <1>2. Interval(ble_scan) \in Nat /\ Window(ble_scan) \in Nat
    BY ControlAssumption DEF Timing, Interval, Window, DefaultInterval
  <1>3. /\ Units(Interval(ble_scan)) \in 0 .. Wide - 1
        /\ Units(Window(ble_scan)) \in 0 .. Wide - 1
    BY <1>1, <1>2
  <1> QED
    BY <1>3 DEF ScanTiming, Timing

(* What the controller is told is the timing asked for, where its units     *)
(* fit.                                                                     *)
LEMMA ScanTimingAsAsked ==
  ASSUME ble_scan \in Timing, FitsUnits(ble_scan.interval)
  PROVE  TimedAsAsked(ScanTiming, ble_scan)
  <1> DEFINE t == ble_scan
             i == IF t.interval = 0 THEN 60 ELSE t.interval
  <1>1. /\ t.interval \in Nat /\ t.window \in Nat
        /\ i \in Nat /\ FitsUnits(i) /\ Interval(ble_scan) = i
    BY ControlAssumption DEF Timing, Interval, DefaultInterval, FitsUnits
  <1>2. /\ Window(ble_scan) \in Nat /\ Window(ble_scan) <= i
        /\ Window(ble_scan) = IF t.window \in 1 .. i THEN t.window ELSE i
    BY <1>1 DEF Window
  <1>3. ScanTiming.interval = Units(i) /\ ScanTiming.window = Units(Window(ble_scan))
    BY <1>1 DEF ScanTiming
  <1> HIDE DEF i
  <1>4. Holds(ScanTiming.interval, i)
    BY <1>1, <1>3, UnitsHold
  <1>5. ScanTiming.window <= ScanTiming.interval
    BY <1>1, <1>2, <1>3, UnitsGrow
  <1>6. FitsUnits(Window(ble_scan))
    BY ControlAssumption, <1>1, <1>2 DEF FitsUnits
  <1>7. t.window \in 1 .. i => Holds(ScanTiming.window, t.window)
    BY <1>2, <1>3, <1>6, UnitsHold
  <1>8. t.window \notin 1 .. i => ScanTiming.window = ScanTiming.interval
    BY <1>2, <1>3
  <1>9. TimedAsAsked(ScanTiming, ble_scan) <=>
          /\ Holds(ScanTiming.interval, i)
          /\ ScanTiming.window <= ScanTiming.interval
          /\ IF t.window \in 1 .. i THEN Holds(ScanTiming.window, t.window)
             ELSE ScanTiming.window = ScanTiming.interval
    BY DEF TimedAsAsked, i
  <1> QED
    BY <1>4, <1>5, <1>7, <1>8, <1>9

(* Types at start-up.                                                       *)
LEMMA TypedInit == Init => Typed
  <1> SUFFICES ASSUME Init PROVE Typed
    OBVIOUS
  <1>1. controller \in Ble
    BY IdleIsBle DEF Init
  <1>2. host \in Host
    BY ListsKept DEF Init, NewSession, Host, RADIO_154, Unknown
  <1>3. radio \in Radio
    BY ControlAssumption DEF Init, Radio
  <1>4. keys \in KeyLists /\ filter \in FilterLists
    BY ListsKept DEF Init
  <1>5. /\ periodic_enabled \in BOOLEAN /\ ready \in BOOLEAN
        /\ ble_running \in BOOLEAN
    BY DEF Init
  <1>6. /\ selected_radio \in {RADIO_154, RADIO_BLE}
        /\ ble_scan \in Timing /\ ble_phys \in 0 .. 255
        /\ antenna \in {0, 1} /\ refusals \in Nat /\ lapses \in Nat
    BY ListsKept DEF Init
  <1> QED
    BY <1>1, <1>2, <1>3, <1>4, <1>5, <1>6 DEF Typed

(* Whatever a driver says, the counts of its errors only grow.              *)
LEMMA Errors ==
  ASSUME Typed, Refused \/ Ignored \/ Works
  PROVE  /\ refusals' \in Nat /\ lapses' \in Nat
         /\ lapses' = 0 => lapses = 0 /\ ~Ignored
  BY ControlAssumption DEF Typed, Refused, Ignored, Works

(* Types after the BLE side has stopped.                                    *)
LEMMA TypedStopBle ==
  ASSUME Typed, NEW ok \in BOOLEAN, StopBle(ok)
  PROVE  controller' \in Ble /\ ble_running' \in BOOLEAN /\ keys' \in KeyLists
  <1>1. controller' \in {controller, Idle} /\ ble_running' = FALSE /\ keys' = NoList
    BY DEF StopBle, WipeKeys
  <1>2. controller \in Ble /\ NoList \in KeyLists
    BY ListsKept DEF Typed
  <1> QED
    BY <1>1, <1>2, IdleIsBle

\* What the host believes of the radio changes within its type.
LEMMA HostStays ==
  ASSUME host \in Host
  PROVE  /\ \A v \in Values : [host EXCEPT !.channel = v] \in Host
         /\ \A v \in Values :
              [host EXCEPT !.channel = v, !.receiving = "yes"] \in Host
  <1>1. ASSUME NEW v \in Values PROVE [host EXCEPT !.channel = v] \in Host
    BY DEF Host
  <1>2. ASSUME NEW v \in Values
        PROVE  [host EXCEPT !.channel = v, !.receiving = "yes"] \in Host
    BY DEF Host
  <1> QED
    BY <1>1, <1>2

(* The regulator's count follows the switch.                                *)
LEMMA AntennaStays ==
  ASSUME antenna \in {0, 1}, NEW v \in {0, 1}, SetAntenna(v)
  PROVE  antenna' \in {0, 1} /\ (v = 0 <=> antenna' > 0)
  <1>1. CASE antenna = 0
    BY <1>1 DEF SetAntenna, onboard
  <1>2. CASE antenna = 1
    BY <1>2 DEF SetAntenna, onboard
  <1> QED
    BY <1>1, <1>2

(* Types after the radio that was left has stopped, or has not.             *)
LEMMA TypedStopBehind ==
  ASSUME Typed, StopBehind
  PROVE  /\ radio' \in Radio /\ controller' \in Ble
         /\ ble_running' \in BOOLEAN /\ ready' = ready
         /\ keys' \in KeyLists /\ filter' = filter
         /\ Refused \/ Ignored \/ Works
  <1>1. CASE selected_radio = RADIO_154
    <2>1. radio' \in Radio
      BY <1>1 DEF StopBehind, Stop154Works, Stop154Fails, Stop154, Typed, Radio
    <2> QED
      BY <1>1, <2>1
      DEF StopBehind, Stop154Works, Stop154Fails, Fails, bleVars, lists, Typed
  <1>2. CASE selected_radio # RADIO_154
    <2>1. CASE \E ok \in BOOLEAN : StopBle(ok)
      BY <1>2, <2>1, TypedStopBle
      DEF StopBehind, StopBleWorks, StopBleFails, Fails, StopBle, Typed
    <2>2. CASE UNCHANGED <<bleVars, lists>>
      BY <1>2, <2>2
      DEF StopBehind, StopBleWorks, StopBleFails, Fails, bleVars, lists, Typed
    <2> QED
      BY <1>2, <2>1, <2>2 DEF StopBehind, StopBleWorks, StopBleFails, StopBleIfUp
  <1> QED
    BY <1>1, <1>2

(* Every command keeps the types.                                           *)
LEMMA TypedNext == Typed /\ [Next]_vars => Typed'
  <1> SUFFICES ASSUME Typed, [Next]_vars PROVE Typed'
    OBVIOUS
  <1> USE DEF settings, lists, bleVars
  <1>0. host \in Host /\ NoList \in KeyLists /\ Unset \in Timing
    BY ListsKept DEF Typed
  <1>1. ASSUME NEW l \in FilterFrames, BleFilter(l) PROVE Typed'
    <2>1. filter' \in FilterLists /\ host' = [host EXCEPT !.filter = filter']
      BY <1>1, ListsKept DEF BleFilter, Answer
    <2>2. host' \in Host
      BY <1>0, <2>1 DEF Host
    <2>3. UNCHANGED <<settings, keys, bleVars, radio, antenna, refusals, lapses>>
      BY <1>1 DEF BleFilter, Works
    <2> QED
      BY <2>1, <2>2, <2>3 DEF Typed
  <1>2. ASSUME NEW l \in KeyFrames, BleKeys(l) PROVE Typed'
    <2>1. \/ keys' \in KeyLists /\ host' = [host EXCEPT !.keys = keys']
          \/ keys' = keys /\ host' = host
      BY <1>2, ListsKept DEF BleKeys, Answer
    <2>2. host' \in Host /\ keys' \in KeyLists
      BY <1>0, <2>1 DEF Host, Typed
    <2>3. UNCHANGED <<settings, filter, bleVars, radio, antenna, refusals, lapses>>
      BY <1>2 DEF BleKeys, Works
    <2> QED
      BY <2>2, <2>3 DEF Typed
  <1>3. ASSUME NEW v \in Radios, SetRadioRefused(v) PROVE Typed'
    BY <1>3 DEF SetRadioRefused, Answer, Works, Typed
  <1>4. ASSUME NEW v \in Radios, SetRadio(v) PROVE Typed'
    <2>1. host' \in Host
      <3>1. /\ v \in {RADIO_154, RADIO_BLE}
            /\ host' = [host EXCEPT !.radio = v,
                         !.receiving = IF v = host.radio THEN @ ELSE "no",
                         !.keys = IF v = RADIO_154 /\ v # host.radio /\ ready
                                  THEN NoList ELSE @]
        BY <1>4 DEF SetRadio, Answer
      <3> DEFINE r == IF v = host.radio THEN host.receiving ELSE "no"
                 k == IF v = RADIO_154 /\ v # host.radio /\ ready
                      THEN NoList ELSE host.keys
      <3>2. r \in {"no", "yes", "unknown"} /\ k \in KeyLists
        BY <1>0 DEF Host
      <3>3. host' = [host EXCEPT !.radio = v, !.receiving = r, !.keys = k]
        BY <3>1
      <3> HIDE DEF r, k
      <3> QED
        <4>1. [host EXCEPT !.radio = v, !.receiving = r, !.keys = k] \in Host
          BY <1>0, <3>1, <3>2 DEF Host
        <4> QED
          BY <3>3, <4>1
    <2>2. CASE v = selected_radio
      BY <1>4, <2>1, <2>2 DEF SetRadio, Works, Typed
    <2>3. CASE v # selected_radio
      BY <1>4, <2>1, <2>3, TypedStopBehind, Errors DEF SetRadio, Typed
    <2> QED
      BY <2>2, <2>3
  <1>5. ASSUME NEW v \in Phys, SetBlePhys(v) PROVE Typed'
    <2>1. CASE v > 255
      BY <1>5, <2>1 DEF SetBlePhys, Answer, Works, Typed
    <2>2. CASE ~(v > 255)
      <3>1. v \in 0 .. 255
        BY <2>2, ControlAssumption
      <3>2. host' \in Host
        BY <1>0, <1>5, <2>2, <3>1 DEF SetBlePhys, Answer, Host
      <3> QED
        BY <1>5, <2>2, <3>1, <3>2 DEF SetBlePhys, Works, Typed
    <2> QED
      BY <2>1, <2>2
  <1>6. ASSUME NEW v \in BOOLEAN, SetBlePeriodic(v) PROVE Typed'
    <2>1. host' \in Host
      BY <1>0, <1>6 DEF SetBlePeriodic, Answer, Host
    <2> QED
      BY <1>6, <2>1 DEF SetBlePeriodic, Works, Typed
  <1>7. ASSUME NEW v \in Timings, SetBleScan(v) PROVE Typed'
    <2>0. v \in Timing
      BY ControlAssumption
    <2>1. host' \in Host
      BY <1>0, <1>7, <2>0 DEF SetBleScan, Answer, Host
    <2> QED
      BY <1>7, <2>0, <2>1 DEF SetBleScan, Works, Typed
  <1>8. ASSUME NEW v \in Values, SetChannel(v) PROVE Typed'
    <2>1. host' \in Host
      BY <1>0, <1>8, HostStays DEF SetChannel, Answer
    <2>2. radio' \in Radio
      <3>1. radio \in Radio
        BY DEF Typed
      <3>2. CASE radio' = radio
        BY <3>1, <3>2
      <3>3. CASE Byte(v) \in Channels /\ radio' = [radio EXCEPT !.channel = Byte(v)]
        <4> DEFINE c == Byte(v)
        <4>1. c \in Channels
          BY <3>3
        <4> HIDE DEF c
        <4>2. [radio EXCEPT !.channel = c] \in Radio
          BY <3>1, <4>1 DEF Radio
        <4> QED
          BY <3>3, <4>2 DEF c
      <3>4. CASE /\ Byte(v) \in Channels
                 /\ radio' = [on |-> TRUE, channel |-> Byte(v), running |-> TRUE]
        BY <3>4 DEF Radio
      <3> QED
        BY <1>8, <3>2, <3>3, <3>4 DEF SetChannel
    <2> QED
      BY <1>8, <2>1, <2>2, Errors DEF SetChannel, Typed
  <1>9. ASSUME NEW v \in Values, EnergyDetect(v) PROVE Typed'
    BY <1>9, Errors DEF EnergyDetect, Answer, Typed
  <1>10. CASE Start154
    <2>1. host' \in Host
      BY <1>0, <1>10 DEF Start154, Answer, Host
    <2>2. radio' \in Radio
      BY <1>10 DEF Start154, Typed, Radio
    <2> QED
      BY <1>10, <2>1, <2>2, Errors DEF Start154, Typed
  <1>11. CASE StartScan
    <2>1. host' \in Host
      BY <1>0, <1>11 DEF StartScan, Answer, InDoubt, Host
    <2>2. Configured \in Ble
      BY ScanTimingTyped DEF Configured, Ble, Typed
    <2>3. CASE ready /\ StartBle /\ Works
      BY <1>11, <2>1, <2>2, <2>3 DEF StartScan, StartBle, Works, Typed
    <2>4. CASE ready /\ StartBleFails /\ Refused
      <3>1. controller' \in Ble
        <4>1. /\ controller \in Ble /\ Idle \in Ble /\ keys \in KeyLists /\ filter \in FilterLists
          BY IdleIsBle DEF Typed
        <4>2. /\ [Idle EXCEPT !.keys = keys] \in Ble
              /\ [Idle EXCEPT !.keys = keys, !.filter = filter] \in Ble
          BY <4>1 DEF Ble
        <4>3. [Configured EXCEPT !.scanning = FALSE] \in Ble
          BY <2>2 DEF Ble
        <4> QED
          BY <2>2, <2>4, <4>1, <4>2, <4>3 DEF StartBleFails
      <3> QED
        BY <1>11, <2>1, <2>4, <3>1, Errors DEF StartScan, StartBleFails, Typed
    <2>5. CASE Works /\ UNCHANGED bleVars
      BY <1>11, <2>1, <2>5 DEF StartScan, Works, Typed
    <2> QED
      BY <1>11, <2>3, <2>4, <2>5 DEF StartScan
  <1>12. CASE StopRadio
    <2>1. host' \in Host
      <3>1. [host EXCEPT !.receiving = "no"] \in Host /\ InDoubt \in Host
        BY <1>0 DEF Host, InDoubt
      <3>k. NoList \in KeyLists
        BY ListsKept
      <3>2. [InDoubt EXCEPT !.keys = NoList] \in Host
        <4>1. \A h \in Host : [h EXCEPT !.keys = NoList] \in Host
          BY <3>k DEF Host
        <4> QED
          BY <3>1, <4>1
      <3>3. [host EXCEPT !.receiving = "no",
                         !.keys = IF ready THEN NoList ELSE @] \in Host
        BY <1>0 DEF Host
      <3> QED
        BY <1>12, <3>1, <3>2, <3>3 DEF StopRadio, Answer
    <2>2. /\ radio' \in Radio /\ controller' \in Ble
          /\ ble_running' \in BOOLEAN /\ ready' = ready
          /\ keys' \in KeyLists /\ filter' = filter
          /\ Refused \/ Ignored \/ Works
      <3>1. CASE selected_radio = RADIO_154
        <4>0. \E ok \in BOOLEAN : Stop154(ok)
          BY <1>12, <3>1 DEF StopRadio, Stop154Works, Stop154Fails
        <4>1. radio' \in Radio
          BY <4>0 DEF Stop154, Typed, Radio
        <4> QED
          BY <1>12, <3>1, <4>1
          DEF StopRadio, Stop154Works, Stop154Fails, Fails, Typed
      <3>2. CASE selected_radio # RADIO_154
        <4>1. CASE \E ok \in BOOLEAN : StopBle(ok)
          BY <1>12, <3>2, <4>1, TypedStopBle
          DEF StopRadio, StopBleWorks, StopBleFails, Fails, StopBle, Typed
        <4>2. CASE UNCHANGED <<bleVars, lists>>
          BY <1>12, <3>2, <4>2
          DEF StopRadio, StopBleWorks, StopBleFails, Fails, Typed
        <4> QED
          BY <1>12, <3>2, <4>1, <4>2
          DEF StopRadio, StopBleWorks, StopBleFails, StopBleIfUp
      <3> QED
        BY <3>1, <3>2
    <2> QED
      BY <1>12, <2>1, <2>2, Errors DEF StopRadio, Typed
  <1>13. CASE GetInfo
    <2>1. host' \in Host
      BY ListsKept, <1>13
      DEF GetInfo, Answer, NewSession, Host, RADIO_154, Unknown
    <2>2. radio' \in Radio
      BY <1>13 DEF GetInfo, Stop154, Stop154Fails, Typed, Radio
    <2>3. antenna' \in {0, 1}
      <3>1. antenna \in {0, 1}
        BY DEF Typed
      <3> QED
        BY <1>13, <3>1, AntennaStays DEF GetInfo
    <2>4. Refused \/ Ignored \/ Works
      BY <1>13 DEF GetInfo, StopBleWorks, StopBleFails, Stop154Fails,
                  SetAntennaFails, Fails
    <2>5. /\ controller' \in Ble /\ ble_running' \in BOOLEAN /\ ready' = ready
          /\ keys' \in KeyLists /\ filter' = filter
      <3>1. CASE \E ok \in BOOLEAN : StopBle(ok)
        BY <3>1, TypedStopBle DEF StopBle
      <3>2. CASE UNCHANGED <<bleVars, lists>>
        BY <3>2 DEF Typed
      <3> QED
        BY <1>13, <3>1, <3>2 DEF GetInfo, StopBleWorks, StopBleFails, StopBleIfUp
    <2>6. /\ selected_radio' = RADIO_154 /\ ble_scan' \in Timing
          /\ ble_phys' \in 0 .. 255 /\ periodic_enabled' \in BOOLEAN
      <3>1. Defaults
        BY <1>13 DEF GetInfo
      <3> QED
        <4>1. periodic_enabled' \in BOOLEAN
          BY <3>1 DEF Defaults
        <4>2. selected_radio' = RADIO_154 /\ ble_scan' = Unset /\ ble_phys' = 1
          BY <3>1 DEF Defaults
        <4> QED
          BY <1>0, <4>1, <4>2
    <2> QED
      BY <2>1, <2>2, <2>3, <2>4, <2>5, <2>6, Errors DEF Typed
  <1>14. ASSUME NEW v \in 0 .. 2, SetAntennaCommand(v) PROVE Typed'
    <2>1. host' \in Host
      <3>1. v \in {0, 1} => [host EXCEPT !.antenna = v] \in Host
        BY <1>0 DEF Host
      <3> QED
        BY <1>0, <1>14, <3>1 DEF SetAntennaCommand, Answer
    <2>2. antenna' \in {0, 1}
      <3>1. antenna \in {0, 1}
        BY DEF Typed
      <3> QED
        BY <1>14, <3>1, AntennaStays DEF SetAntennaCommand
    <2>3. Refused \/ Ignored \/ Works
      BY <1>14 DEF SetAntennaCommand, SetAntennaFails, Fails
    <2> QED
      BY <1>14, <2>1, <2>2, <2>3, Errors DEF SetAntennaCommand, Typed
  <1>15. CASE UnknownCommand
    BY <1>15 DEF UnknownCommand, Answer, Works, Typed
  <1>16. CASE UNCHANGED vars
    BY <1>16 DEF vars, Typed
  <1> QED
    BY <1>1, <1>2, <1>3, <1>4, <1>5, <1>6, <1>7, <1>8, <1>9, <1>10, <1>11,
       <1>12, <1>13, <1>14, <1>15, <1>16 DEF Next
-----------------------------------------------------------------------------
(* The invariant holds at start-up.                                         *)
LEMMA InvInit == Init => Inv
  <1> SUFFICES ASSUME Init PROVE Inv
    OBVIOUS
  <1>1. Driven
    BY DEF Init, Driven, Idle
  <1>2. Right
    <2>0. RADIO_154 # RADIO_BLE
      BY DEF RADIO_154, RADIO_BLE
    <2>1. /\ host.radio = RADIO_154 /\ host.scan = Unset /\ host.phys = 1
          /\ host.periodic = FALSE /\ host.antenna = 0 /\ host.channel = Unknown
          /\ host.receiving = "no" /\ host.keys = NoList
      BY DEF Init, NewSession
    <2>2. /\ selected_radio = RADIO_154 /\ ble_scan = Unset /\ ble_phys = 1
          /\ periodic_enabled = FALSE /\ antenna = 1 /\ keys = NoList
          /\ radio.on = FALSE /\ controller.scanning = FALSE
          /\ controller.keys = NoList
      BY DEF Init, Idle
    <2>3. ~Receiving
      BY <2>2 DEF Receiving
    <2>4. host.antenna = 0 <=> antenna > 0
      BY <2>1, <2>2
    <2>5. /\ host.channel > 255 \/ host.channel \in {Unknown, radio.channel}
          /\ host.receiving = "yes" => Receiving
      BY <2>1
    <2>6. /\ selected_radio # RADIO_BLE
          /\ host.radio = selected_radio
          /\ host.scan = ble_scan /\ host.phys = ble_phys
          /\ host.periodic = periodic_enabled
          /\ keys = host.keys
      BY <2>0, <2>1, <2>2
    <2> QED
      BY <2>2, <2>3, <2>4, <2>5, <2>6 DEF Right
  <1> QED
    BY <1>1, <1>2, TypedInit DEF Inv

(* After any command the radios receive as driven.                          *)
LEMMA DrivenNext == Typed /\ Driven /\ [Next]_vars => Driven'
  <1> SUFFICES ASSUME Typed, Driven, [Next]_vars PROVE Driven'
    OBVIOUS
  <1> USE DEF settings, lists, bleVars
  <1>0. /\ radio \in Radio /\ controller \in Ble
        /\ Idle.scanning = FALSE
    BY DEF Typed, Idle
  <1>1. ASSUME NEW ok \in BOOLEAN, Stop154(ok) PROVE radio'.on <=> radio'.running
    BY <1>0, <1>1 DEF Stop154, Radio, Driven
  <1>2. ASSUME NEW ok \in BOOLEAN, StopBle(ok)
        PROVE  ~ready' => ~controller'.scanning
    BY <1>0, <1>2 DEF StopBle, Driven
  <1>3. CASE UNCHANGED <<radio, ready, controller>>
    BY <1>3 DEF Driven
  <1>4. ASSUME NEW v \in Values, SetChannel(v) PROVE Driven'
    BY <1>0, <1>4 DEF SetChannel, Radio, Driven
  <1>5. CASE Start154
    BY <1>0, <1>5 DEF Start154, Radio, Driven
  <1>6. CASE StartScan
    BY <1>0, <1>6 DEF StartScan, StartBle, StartBleFails, Driven
  <1>7. ASSUME NEW v \in Radios, SetRadio(v) PROVE Driven'
    <2>1. CASE v = selected_radio
      BY <1>3, <1>7, <2>1 DEF SetRadio
    <2>2. CASE v # selected_radio
      <3>1. StopBehind
        BY <1>7, <2>2 DEF SetRadio
      <3>2. \/ UNCHANGED <<ready, controller>> /\ \E ok \in BOOLEAN : Stop154(ok)
            \/ UNCHANGED radio /\ \E ok \in BOOLEAN : StopBle(ok)
            \/ UNCHANGED <<radio, ready, controller>>
        BY <3>1 DEF StopBehind, Stop154Works, Stop154Fails, StopBleWorks,
                    StopBleFails, StopBleIfUp
      <3> QED
        BY <1>1, <1>2, <1>3, <3>2 DEF Driven
    <2> QED
      BY <2>1, <2>2
  <1>8. CASE StopRadio
    <2>1. \/ UNCHANGED <<ready, controller>> /\ \E ok \in BOOLEAN : Stop154(ok)
          \/ UNCHANGED radio /\ \E ok \in BOOLEAN : StopBle(ok)
          \/ UNCHANGED <<radio, ready, controller>>
      BY <1>8 DEF StopRadio, Stop154Works, Stop154Fails, StopBleWorks,
                  StopBleFails, StopBleIfUp
    <2> QED
      BY <1>1, <1>2, <1>3, <2>1 DEF Driven
  <1>9. CASE GetInfo
    <2>1. \E ok \in BOOLEAN : Stop154(ok)
      BY <1>9 DEF GetInfo, Stop154Fails
    <2>2. UNCHANGED <<ready, controller>> \/ \E ok \in BOOLEAN : StopBle(ok)
      BY <1>9 DEF GetInfo, StopBleWorks, StopBleFails, StopBleIfUp
    <2> QED
      BY <1>1, <1>2, <2>1, <2>2 DEF Driven
  <1> QED
    BY <1>3, <1>4, <1>5, <1>6, <1>7, <1>8, <1>9
    DEF Next, vars, BleFilter, BleKeys, SetRadioRefused, SetBlePhys,
        SetBlePeriodic, SetBleScan, EnergyDetect, SetAntennaCommand,
        UnknownCommand

(* After any command the host is right.                                     *)
LEMMA RightNext ==
  ASSUME Inv, [Next]_vars, lapses' = 0
  PROVE  Right'
  <1> USE DEF settings, lists, bleVars, RADIO_154, RADIO_BLE
  <1>0. Typed /\ Driven /\ host \in Host /\ radio \in Radio /\ controller \in Ble
    BY DEF Inv, Typed
  <1>1. Ignored => FALSE
    BY <1>0, Errors
  <1>2. Refused \/ Works => Right
    BY <1>0, Errors DEF Inv
  <1>3. UNCHANGED vars => Right'
    BY DEF vars, Right, Receiving, Inv
  <1>4. ASSUME NEW l \in FilterFrames, BleFilter(l) PROVE Right'
    <2>1. host' = [host EXCEPT !.filter = filter'] /\ Right
      BY <1>2, <1>4 DEF BleFilter, Answer
    <2> QED
      BY <1>0, <1>4, <2>1 DEF BleFilter, Right, Receiving, Host
  <1>5. ASSUME NEW l \in KeyFrames, BleKeys(l) PROVE Right'
    <2>1. /\ Right
          /\ \/ host' = [host EXCEPT !.keys = keys']
             \/ keys' = keys /\ host' = host
          /\ UNCHANGED <<settings, filter, bleVars, radio, antenna>>
      BY <1>2, <1>5 DEF BleKeys, Answer
    <2> QED
      BY <1>0, <2>1 DEF Right, Receiving, Host
  <1>6. ASSUME NEW v \in Radios, SetRadioRefused(v) PROVE Right'
    BY <1>2, <1>6 DEF SetRadioRefused, Answer, Right, Receiving
  <1>7. ASSUME NEW v \in Radios, SetRadio(v) PROVE Right'
    <2>1. CASE v = selected_radio
      <3>1. Right /\ UNCHANGED <<radio, bleVars, lists>> /\ v = host.radio
        BY <1>2, <1>7, <2>1 DEF SetRadio, Right
      <3>2. host' = host
        BY <1>0, <1>7, <3>1 DEF SetRadio, Answer, Host
      <3> QED
        BY <1>7, <2>1, <3>1, <3>2 DEF SetRadio, Right, Receiving
    <2>2. CASE v # selected_radio
      <3>1. StopBehind /\ v \in {RADIO_154, RADIO_BLE} /\ selected_radio' = v
        BY <1>7, <2>2 DEF SetRadio
      <3>2. CASE selected_radio = RADIO_154
        <4>1. \/ Works /\ Stop154(TRUE) /\ UNCHANGED <<bleVars, lists>>
              \/ Ignored
          BY <3>1, <3>2 DEF StopBehind, Stop154Works, Stop154Fails, Fails
        <4>2. Right /\ Stop154(TRUE) /\ UNCHANGED <<bleVars, lists>> /\ v = RADIO_BLE
          BY <1>1, <1>2, <2>2, <3>1, <3>2, <4>1
        <4>3. ~radio'.on /\ radio'.channel = radio.channel
          BY <1>0, <4>2 DEF Stop154, Radio, Driven
        <4>4. host' = [host EXCEPT !.radio = v, !.receiving = "no"]
          BY <1>0, <1>7, <2>2, <3>2, <4>2 DEF SetRadio, Answer, Right, Host
        <4> QED
          BY <1>0, <1>7, <3>1, <3>2, <4>2, <4>3, <4>4
          DEF SetRadio, Right, Receiving, Host
      <3>3. CASE selected_radio = RADIO_BLE
        <4>0. selected_radio # RADIO_154
          BY <3>3 DEF RADIO_154, RADIO_BLE
        <4>a. (StopBleWorks \/ StopBleFails(FALSE)) /\ UNCHANGED radio
          BY <3>1, <4>0 DEF StopBehind
        <4>b. StopBleFails(FALSE) => Ignored
          BY DEF StopBleFails, Fails
        <4>1. (Works /\ StopBleIfUp /\ UNCHANGED radio) \/ Ignored
          BY <4>a, <4>b DEF StopBleWorks
        <4>2. Right /\ StopBleIfUp /\ UNCHANGED radio /\ v = RADIO_154
          BY <1>1, <1>2, <2>2, <3>1, <3>3, <4>1
        <4>3. CASE ready
          <5>1. /\ controller' = Idle /\ keys' = NoList /\ ready' = ready
            BY <4>2, <4>3 DEF StopBleIfUp, StopBle, WipeKeys
          <5>2. host' = [host EXCEPT !.radio = v, !.receiving = "no", !.keys = NoList]
            BY <1>0, <1>7, <2>2, <3>3, <4>2, <4>3 DEF SetRadio, Answer, Right, Host
          <5> QED
            BY <1>0, <1>7, <3>1, <3>3, <4>2, <5>1, <5>2
            DEF SetRadio, Right, Receiving, Host, Idle
        <4>4. CASE ~ready
          <5>1. UNCHANGED <<controller, keys, ready>> /\ ~controller.scanning
            BY <1>0, <4>2, <4>4 DEF StopBleIfUp, Driven
          <5>2. host' = [host EXCEPT !.radio = v, !.receiving = "no"]
            BY <1>0, <1>7, <2>2, <3>3, <4>2, <4>4 DEF SetRadio, Answer, Right, Host
          <5> QED
            BY <1>0, <1>7, <3>1, <3>3, <4>2, <4>4, <5>1, <5>2
            DEF SetRadio, Right, Receiving, Host
        <4> QED
          BY <4>3, <4>4
      <3> QED
        BY <1>0, <3>2, <3>3 DEF Typed
    <2> QED
      BY <2>1, <2>2
  <1>8. ASSUME NEW v \in Phys, SetBlePhys(v) PROVE Right'
    <2>1. Right
      BY <1>2, <1>8 DEF SetBlePhys
    <2>2. CASE v > 255
      BY <1>8, <2>1, <2>2 DEF SetBlePhys, Answer, Right, Receiving
    <2>3. CASE ~(v > 255)
      BY <1>0, <1>8, <2>1, <2>3 DEF SetBlePhys, Answer, Right, Receiving, Host
    <2> QED
      BY <2>2, <2>3
  <1>9. ASSUME NEW v \in BOOLEAN, SetBlePeriodic(v) PROVE Right'
    <2>1. Right
      BY <1>2, <1>9 DEF SetBlePeriodic
    <2> QED
      BY <1>0, <1>9, <2>1 DEF SetBlePeriodic, Answer, Right, Receiving, Host
  <1>10. ASSUME NEW v \in Timings, SetBleScan(v) PROVE Right'
    <2>1. Right
      BY <1>2, <1>10 DEF SetBleScan
    <2> QED
      BY <1>0, <1>10, <2>1 DEF SetBleScan, Answer, Right, Receiving, Host
  <1>11. ASSUME NEW v \in Values, SetChannel(v) PROVE Right'
    <2>1. Right
      BY <1>2, <1>11 DEF SetChannel
    <2>2. CASE host' = host /\ UNCHANGED radio
      BY <1>11, <2>1, <2>2 DEF SetChannel, Right, Receiving
    <2>3. v > 255 \/ Byte(v) = v
      BY ControlAssumption DEF Byte
    <2>4. CASE /\ selected_radio = RADIO_154
               /\ radio' = [radio EXCEPT !.channel = Byte(v)]
               /\ host' = [host EXCEPT !.channel = v]
      <3>1. radio'.on = radio.on /\ radio'.channel = Byte(v)
        BY <1>0, <2>4 DEF Radio
      <3> QED
        BY <1>0, <1>11, <2>1, <2>3, <2>4, <3>1
        DEF SetChannel, Right, Receiving, Host
    <2>5. CASE /\ selected_radio = RADIO_154
               /\ radio' = [on |-> TRUE, channel |-> Byte(v), running |-> TRUE]
               /\ host' = [host EXCEPT !.channel = v, !.receiving = "yes"]
      <3>1. radio'.on = TRUE /\ radio'.channel = Byte(v)
        BY <2>5
      <3> QED
        BY <1>0, <1>11, <2>1, <2>3, <2>5, <3>1
        DEF SetChannel, Right, Receiving, Host
    <2> QED
      BY <1>11, <2>2, <2>4, <2>5 DEF SetChannel, Answer
  <1>12. ASSUME NEW v \in Values, EnergyDetect(v) PROVE Right'
    BY <1>2, <1>12 DEF EnergyDetect, Answer, Right, Receiving
  <1>13. CASE Start154
    <2>1. Right
      BY <1>2, <1>13 DEF Start154
    <2>2. CASE host' = host /\ UNCHANGED radio
      BY <1>13, <2>1, <2>2 DEF Start154, Right, Receiving
    <2>3. CASE /\ radio' = [radio EXCEPT !.on = TRUE, !.running = TRUE]
               /\ host' = [host EXCEPT !.receiving = "yes"]
      <3>1. radio'.on = TRUE /\ radio'.channel = radio.channel
        BY <1>0, <2>3 DEF Radio
      <3> QED
        BY <1>0, <1>13, <2>1, <2>3, <3>1 DEF Start154, Right, Receiving, Host
    <2> QED
      BY <1>13, <2>2, <2>3 DEF Start154, Answer
  <1>14. CASE StartScan
    <2>1. Right
      BY <1>2, <1>14 DEF StartScan
    <2>2. CASE host' = host /\ UNCHANGED bleVars
      BY <1>14, <2>1, <2>2 DEF StartScan, Right, Receiving
    <2>3. CASE StartBle /\ host' = [host EXCEPT !.receiving = "yes"]
      <3>1. controller'.scanning = TRUE
        BY <2>3 DEF StartBle, Configured
      <3> QED
        BY <1>0, <1>14, <2>1, <2>3, <3>1
        DEF StartScan, StartBle, Right, Receiving, Host
    <2>4. CASE StartBleFails /\ host' = InDoubt
      BY <1>0, <1>14, <2>1, <2>4
      DEF StartScan, StartBleFails, InDoubt, Right, Receiving, Host
    <2> QED
      BY <1>14, <2>2, <2>3, <2>4 DEF StartScan, Answer
  <1>15. CASE StopRadio
    <2>1. CASE selected_radio = RADIO_154
      <3>1. CASE /\ Stop154Works
                 /\ host' = [host EXCEPT !.receiving = "no"]
        <4>1. Right /\ Stop154(TRUE) /\ UNCHANGED <<bleVars, lists>>
          BY <1>2, <1>15, <2>1, <3>1 DEF StopRadio, Stop154Works
        <4>2. ~radio'.on /\ radio'.channel = radio.channel
          BY <1>0, <4>1 DEF Stop154, Radio, Driven
        <4> QED
          BY <1>0, <1>15, <2>1, <3>1, <4>1, <4>2
          DEF StopRadio, Right, Receiving, Host
      <3>2. CASE Stop154Fails(TRUE) /\ host' = InDoubt
        <4>1. Right /\ UNCHANGED <<bleVars, lists, radio>>
          BY <1>2, <1>15, <2>1, <3>2 DEF StopRadio, Stop154Fails, Stop154, Fails
        <4> QED
          BY <1>0, <1>15, <2>1, <3>2, <4>1
          DEF StopRadio, InDoubt, Right, Receiving, Host
      <3> QED
        BY <1>15, <2>1, <3>1, <3>2 DEF StopRadio, Answer
    <2>2. CASE selected_radio = RADIO_BLE
      <3>1. CASE /\ StopBleWorks
                 /\ host' = [host EXCEPT !.receiving = "no",
                                         !.keys = IF ready THEN NoList ELSE @]
        <4>1. Right /\ StopBleIfUp /\ UNCHANGED radio
          BY <1>2, <1>15, <2>2, <3>1 DEF StopRadio, StopBleWorks
        <4>2. CASE ready
          <5>1. controller' = Idle /\ keys' = NoList /\ ready' = ready
            BY <4>1, <4>2 DEF StopBleIfUp, StopBle, WipeKeys
          <5> QED
            BY <1>0, <1>15, <2>2, <3>1, <4>1, <4>2, <5>1
            DEF StopRadio, Right, Receiving, Host, Idle
        <4>3. CASE ~ready
          <5>1. UNCHANGED <<controller, keys, ready>> /\ ~controller.scanning
            BY <1>0, <4>1, <4>3 DEF StopBleIfUp, Driven
          <5> QED
            BY <1>0, <1>15, <2>2, <3>1, <4>1, <4>3, <5>1
            DEF StopRadio, Right, Receiving, Host
        <4> QED
          BY <4>2, <4>3
      <3>2. CASE /\ StopBleFails(TRUE)
                 /\ host' = [InDoubt EXCEPT !.keys = NoList]
        <4>1. Right /\ UNCHANGED radio /\ keys' = NoList
          BY <1>2, <1>15, <2>2, <3>2
          DEF StopRadio, StopBleFails, Fails, StopBle, WipeKeys
        <4> QED
          BY <1>0, <1>15, <2>2, <3>2, <4>1
          DEF StopRadio, InDoubt, Right, Receiving, Host
      <3>0. selected_radio # RADIO_154
        BY <2>2 DEF RADIO_154, RADIO_BLE
      <3>a. \/ /\ StopBleWorks
               /\ Answer("OK", [host EXCEPT !.receiving = "no",
                                  !.keys = IF ready THEN NoList ELSE @])
            \/ /\ StopBleFails(TRUE)
               /\ Answer("FAILED", [InDoubt EXCEPT !.keys = NoList])
        BY <1>15, <3>0, Zenon DEF StopRadio
      <3> QED
        BY <3>a, <3>1, <3>2 DEF Answer
    <2> QED
      BY <1>0, <2>1, <2>2 DEF Typed
  <1>16. CASE GetInfo
    <2>1. Stop154(TRUE) /\ StopBleWorks /\ SetAntenna(0)
      BY <1>1, <1>16 DEF GetInfo, Stop154Fails, StopBleFails, SetAntennaFails, Fails
    <2>2. Right /\ StopBleIfUp /\ antenna' > 0
      BY <1>0, <1>2, <2>1, AntennaStays DEF StopBleWorks, Typed
    <2>3. ~radio'.on
      BY <1>0, <2>1 DEF Stop154, Radio, Driven
    <2>4. /\ ~controller'.scanning
          /\ ready' => keys' = NoList /\ controller'.keys = NoList
      BY <1>0, <2>2 DEF StopBleIfUp, StopBle, WipeKeys, Idle, Driven
    <2>5. /\ host'.radio = RADIO_154 /\ host'.scan = Unset /\ host'.phys = 1
          /\ host'.periodic = FALSE /\ host'.antenna = 0
          /\ host'.channel = Unknown /\ host'.receiving = "no"
          /\ host'.keys = NoList
      BY <1>16 DEF GetInfo, Answer, NewSession
    <2>6. /\ selected_radio' = RADIO_154 /\ ble_scan' = Unset /\ ble_phys' = 1
          /\ periodic_enabled' = FALSE
      BY <1>16 DEF GetInfo, Defaults
    <2> QED
      BY <2>2, <2>3, <2>4, <2>5, <2>6 DEF Right, Receiving
  <1>17. ASSUME NEW v \in 0 .. 2, SetAntennaCommand(v) PROVE Right'
    <2>1. Right /\ UNCHANGED <<settings, lists, bleVars, radio>>
      BY <1>2, <1>17
      DEF SetAntennaCommand, SetAntennaFails, Fails
    <2>2. CASE host' = host /\ UNCHANGED antenna
      BY <2>1, <2>2 DEF Right, Receiving
    <2>3. CASE /\ v \in {0, 1} /\ SetAntenna(v)
               /\ host' = [host EXCEPT !.antenna = v]
      <3>1. v = 0 <=> antenna' > 0
        BY <1>0, <2>3, AntennaStays DEF Typed
      <3> QED
        BY <1>0, <2>1, <2>3, <3>1 DEF Right, Receiving, Host
    <2> QED
      BY <1>17, <2>2, <2>3 DEF SetAntennaCommand, Answer
  <1>18. CASE UnknownCommand
    BY <1>2, <1>18 DEF UnknownCommand, Answer, Right, Receiving
  <1> QED
    BY <1>3, <1>4, <1>5, <1>6, <1>7, <1>8, <1>9, <1>10, <1>11, <1>12, <1>13,
       <1>14, <1>15, <1>16, <1>17, <1>18 DEF Next

(* It holds always.                                                         *)
LEMMA Invariant == Spec => []Inv
  <1>1. Inv /\ [Next]_vars => Inv'
    BY TypedNext, DrivenNext, RightNext DEF Inv
  <1> QED
    BY <1>1, InvInit, PTL DEF Spec
-----------------------------------------------------------------------------
(* The board's variables keep their types, and the antenna switch's enable  *)
(* count stays at a value one call can undo, whatever the regulator refuses.*)
THEOREM ControlTypeCorrect == Spec => []TypeOK
  <1>1. Inv => TypeOK
    BY DEF Inv, Typed, TypeOK, Radio, Ble
  <1> QED
    BY <1>1, Invariant, PTL

(* Unless the firmware ignored a driver's error, the two radios never       *)
(* receive at once.                                                         *)
THEOREM OnlyOneReceiver == Spec => []OneReceiver
  <1>1. Inv => OneReceiver
    BY DEF Inv, Typed, Right, OneReceiver
  <1> QED
    BY <1>1, Invariant, PTL

(* Unless the firmware ignored a driver's error, what a host may conclude   *)
(* from its replies is so, over any number of sessions.                     *)
THEOREM HostIsAlwaysRight == Spec => []HostIsRight
  <1>1. Inv => HostIsRight
    BY DEF Inv, Typed, Host, Right, HostIsRight, Receiving, onboard
  <1> QED
    BY <1>1, Invariant, PTL

(* Keys are gone from the board and its controller once a capture is over.  *)
THEOREM KeysLiveForOneCapture == Spec => []KeysLiveOneCapture
  <1>1. Inv => KeysLiveOneCapture
    BY DEF Inv, Right, KeysLiveOneCapture
  <1> QED
    BY <1>1, Invariant, PTL

(* A START answered OK has the controller scan with the PHYs the host has   *)
(* set, with the timing it asked for where its units fit sixteen bits, and  *)
(* with the keys of this session's last well-formed frame and no other.     *)
THEOREM EveryStartIsAsAsked == Spec => StartsAsAsked
  <1> DEFINE AsAsked ==
               /\ controller'.scanning
               /\ FitsUnits(host.scan.interval) =>
                    TimedAsAsked(controller'.scan, host.scan)
               /\ controller'.phys = host.phys
               /\ controller'.keys = host.keys
  <1>1. ASSUME Inv, StartScan, reply' = "OK", lapses = 0
        PROVE  AsAsked
    <2>1. ready /\ StartBle
      BY <1>1 DEF StartScan, Answer
    <2>2. Right /\ ble_scan \in Timing
      BY <1>1 DEF Inv, Typed
    <2>3. /\ controller'.scanning = TRUE /\ controller'.scan = ScanTiming
          /\ controller'.phys = ble_phys /\ controller'.keys = keys
      BY <2>1 DEF StartBle, Configured
    <2>4. /\ host.scan = ble_scan /\ host.phys = ble_phys /\ host.keys = keys
      BY <2>1, <2>2 DEF Right
    <2>5. FitsUnits(host.scan.interval) =>
            TimedAsAsked(controller'.scan, host.scan)
      BY <2>2, <2>3, <2>4, ScanTimingAsAsked
    <2> QED
      BY <2>3, <2>4, <2>5
  <1>2. Inv => [StartScan /\ reply' = "OK" /\ lapses = 0 => AsAsked]_vars
    BY <1>1
  <1> QED
    BY <1>2, Invariant, PTL DEF StartsAsAsked
=============================================================================
