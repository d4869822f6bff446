------------------------------- MODULE Control -------------------------------
(***************************************************************************)
(* The control channel, src/control.c: what the board does with each       *)
(* command of a host, over both radios, and what it answers.               *)
(*                                                                         *)
(* The link's reader thread runs sn_control_handle to its end before it    *)
(* looks for the next frame, so a command is one action here; what comes   *)
(* between its steps is modules Radio154's and HciCommand's.  The radios   *)
(* and the antenna switch are drivers that may refuse: START of BLE is a   *)
(* dozen HCI commands, of which any may be refused or time out, and what   *)
(* the ones before it did stays done.                                      *)
(*                                                                         *)
(* Beside the board's state stands the host's: what a host may believe of  *)
(* the board from the frames it sent and the replies it had.               *)
(***************************************************************************)
EXTENDS Integers, FiniteSets, Sequences

CONSTANTS
  Channels,      \* channels the 802.15.4 radio has
  BootChannel,   \* the channel at boot, 11
  Values,        \* what a SET_CHANNEL or ENERGY_DETECT may carry
  Radios,        \* what a SET_RADIO may carry
  Phys,          \* what a SET_BLE_PHYS may carry
  Timings,       \* what a SET_BLE_SCAN may carry
  Entries,       \* what an accept list or a key frame is made of
  BadEntry,      \* a key cut short, or with an address type that is none
  KeyFrames,     \* the key frames a host may send
  FilterFrames,  \* the accept lists a host may send
  MaxKeys,       \* MAX_KEYS, 8
  MaxFilter,     \* MAX_FILTER, 8
  Wide,          \* 2^16, what a uint16_t wraps at
  MaxCommands,   \* bound of the model: frames handled
  MaxRefusals,   \* bound of the model: driver errors the host is told of
  MaxLapses      \* bound of the model: driver errors cast to void

RADIO_154  == 0
RADIO_WIFI == 1
RADIO_BLE  == 2

\* Interval and window in milliseconds, a uint16_t each; 0 is "not set".
Timing == [interval : 0 .. Wide - 1, window : 0 .. Wide - 1]

Unset == [interval |-> 0, window |-> 0]

NoList == <<>>

ASSUME ControlAssumption ==
  /\ Channels \subseteq 0 .. 255 /\ BootChannel \in Channels
  /\ Values \subseteq Nat /\ Radios \subseteq Nat /\ Phys \subseteq Nat
  /\ Wide \in Nat /\ Wide > 96 /\ Timings \subseteq Timing
  /\ KeyFrames \subseteq Seq(Entries) /\ FilterFrames \subseteq Seq(Entries)
  /\ MaxKeys \in Nat /\ MaxFilter \in Nat
  /\ MaxCommands \in Nat /\ MaxRefusals \in Nat /\ MaxLapses \in Nat

VARIABLES
  selected_radio, ble_scan, ble_phys,      \* control.c; ble_scan stands for
                                           \* ble_interval_ms, ble_window_ms
  ready, ble_running, periodic_enabled,    \* radio_ble.c
  keys, filter,
  radio,         \* the 802.15.4 radio: [on, channel, running]
  antenna,       \* enable count of the antenna switch: 1 is onboard
  controller,    \* the BLE controller: [scanning, scan, phys, keys, filter]
  host,          \* what the host believes; Unknown where it cannot know
  reply,         \* the last reply: "OK", "BAD_VALUE", "FAILED", "UNKNOWN", "none"
  commands, refusals, lapses

settings == <<selected_radio, ble_scan, ble_phys, periodic_enabled>>
lists    == <<keys, filter>>
bleVars  == <<ready, ble_running, controller>>
vars == <<settings, lists, bleVars, radio, antenna, host, reply, commands,
          refusals, lapses>>

Unknown == -1

Idle == [scanning |-> FALSE, scan |-> Unset, phys |-> 0,
         keys |-> NoList, filter |-> NoList]

\* A host that has just opened a session: nothing runs, nothing is set.
NewSession ==
  [radio |-> RADIO_154, scan |-> Unset, phys |-> 1, periodic |-> FALSE,
   antenna |-> 0, channel |-> Unknown, receiving |-> "no",
   keys |-> NoList, filter |-> NoList]
-----------------------------------------------------------------------------
(* Driver errors. *)

Refused == refusals < MaxRefusals /\ refusals' = refusals + 1 /\ UNCHANGED lapses
Ignored == lapses < MaxLapses /\ lapses' = lapses + 1 /\ UNCHANGED refusals
Works   == UNCHANGED <<refusals, lapses>>

\* Whose result is looked at, or cast to void.
Fails(checked) == IF checked THEN Refused ELSE Ignored

Answer(status, believed) == reply' = status /\ host' = believed

\* A FAILED that leaves the host knowing that something did not happen, not
\* whether the board still receives.
InDoubt == [host EXCEPT !.receiving = "unknown"]

Command == commands < MaxCommands /\ commands' = commands + 1
-----------------------------------------------------------------------------
(* The 802.15.4 radio. *)

\* sn_radio154_stop, sn_batch_flush.  True in ok when it returns 0.
Stop154(ok) ==
  radio' = IF ok /\ radio.running
           THEN [radio EXCEPT !.on = FALSE, !.running = FALSE]
           ELSE radio

\* Stopping a radio that does not run cannot fail: the driver is not called.
Stop154Fails(checked) == radio.running /\ Fails(checked) /\ Stop154(FALSE)
Stop154Works          == Works /\ Stop154(TRUE)
-----------------------------------------------------------------------------
(* The BLE radio. *)

\* The keys left for the next capture.
WipeKeys_Not == UNCHANGED keys

WipeKeys == keys' = NoList

\* sn_radio_ble_stop.  A reset that timed out may yet have been done.
StopBle(ok) ==
  /\ ble_running' = FALSE
  /\ WipeKeys
  /\ controller' \in IF ok THEN {Idle} ELSE {controller, Idle}
  /\ UNCHANGED <<ready, filter>>

\* stop_radio(RADIO_BLE) does nothing when the controller never came up.
StopBleIfUp == IF ready THEN StopBle(TRUE) ELSE UNCHANGED <<bleVars, lists>>

StopBleFails(checked) == ready /\ Fails(checked) /\ StopBle(FALSE)
StopBleWorks          == Works /\ StopBleIfUp

\* SN_BLE_DEFAULT_INTERVAL_MS
DefaultInterval == 60

\* UNITS_PER_MS: HCI counts 0.625 ms, in sixteen bits.
Units(ms) == ((ms * 1000) \div 625) % Wide

\* "Defaulted and clamped rather than rejected".
Interval(t) == IF t.interval = 0 THEN DefaultInterval ELSE t.interval

Window(t) ==
  IF t.window = 0 \/ t.window > Interval(t) THEN Interval(t) ELSE t.window

ScanTiming ==
  [interval |-> Units(Interval(ble_scan)), window |-> Units(Window(ble_scan))]

\* Without the reset the lists add up.
Configured_NoReset ==
  [scanning |-> TRUE, scan |-> ScanTiming, phys |-> ble_phys,
   keys |-> IF keys = NoList THEN controller.keys ELSE keys,
   filter |-> IF filter = NoList THEN controller.filter ELSE filter]

\* What the controller holds once START has sent everything, by the legacy
\* commands (phys 0) or the extended ones.
Configured ==
  [scanning |-> TRUE, scan |-> ScanTiming, phys |-> ble_phys, keys |-> keys,
   filter |-> filter]

\* sn_radio_ble_start: reset, keys, accept list, parameters, enable, and only
\* then scan_started.
StartBle ==
  /\ ble_running' = TRUE
  /\ controller' = Configured
  /\ UNCHANGED ready

\* It fails part-way: what was reset is reset, what was loaded is loaded, and
\* an enable whose answer timed out may have been obeyed.
StartBleFails ==
  /\ controller' \in
       {controller, Idle, [Idle EXCEPT !.keys = keys],
        [Idle EXCEPT !.keys = keys, !.filter = filter],
        [Configured EXCEPT !.scanning = FALSE], Configured}
  /\ UNCHANGED <<ready, ble_running>>
-----------------------------------------------------------------------------
(* The antenna switch: a regulator with an enable count. *)

onboard == antenna > 0

\* Enabled again though it is on.
SetAntenna_Recount(v) == antenna' = IF v = 0 THEN antenna + 1 ELSE antenna - 1

\* set_antenna: "is_enabled keeps its reference count at one".
SetAntenna(v) ==
  antenna' = IF (v = 0) = onboard THEN antenna
             ELSE IF v = 0 THEN antenna + 1 ELSE antenna - 1

\* The regulator is only called to change it.
SetAntennaFails(v, checked) == (v = 0) # onboard /\ Fails(checked)
-----------------------------------------------------------------------------
(* sn_control_handle *)

\* BLE_FILTER and BLE_KEYS are not answered.  An accept list keeps as many
\* entries as the board has room for.
BleFilter(list) ==
  LET held == SubSeq(list, 1, IF Len(list) < MaxFilter THEN Len(list) ELSE MaxFilter)
  IN
  /\ Command
  /\ filter' = held
  /\ Answer("none", [host EXCEPT !.filter = held])
  /\ Works
  /\ UNCHANGED <<settings, keys, bleVars, radio, antenna>>

\* "Refused whole if malformed or more than CONFIG_BT_CTLR_RL_SIZE."
WellFormed(list) ==
  Len(list) <= MaxKeys /\ \A i \in 1 .. Len(list) : list[i] # BadEntry

\* A key frame refused leaves the keys of the one before.
BleKeys(list) ==
  /\ Command
  /\ IF WellFormed(list)
     THEN keys' = list /\ Answer("none", [host EXCEPT !.keys = list])
     ELSE Answer("none", host) /\ UNCHANGED keys
  /\ Works
  /\ UNCHANGED <<settings, filter, bleVars, radio, antenna>>

SetRadioRefused(v) ==
  /\ Command
  /\ v \notin {RADIO_154, RADIO_BLE}
  /\ Answer("BAD_VALUE", host)
  /\ Works
  /\ UNCHANGED <<settings, lists, bleVars, radio, antenna>>

\* The radio left behind keeps running.
StopBehind_Not == Works /\ UNCHANGED <<radio, bleVars, lists>>

\* "The radio left behind is stopped."
StopBehind ==
  IF selected_radio = RADIO_154
  THEN /\ Stop154Works \/ Stop154Fails(FALSE)
       /\ UNCHANGED <<bleVars, lists>>
  ELSE /\ StopBleWorks \/ StopBleFails(FALSE)
       /\ UNCHANGED radio

SetRadio(v) ==
  /\ Command
  /\ v \in {RADIO_154, RADIO_BLE}
  /\ selected_radio' = v
  /\ Answer("OK", [host EXCEPT !.radio = v,
                     !.receiving = IF v = host.radio THEN @ ELSE "no",
                     !.keys = IF v = RADIO_154 /\ v # host.radio /\ ready
                              THEN NoList ELSE @])
  /\ IF v = selected_radio
     THEN Works /\ UNCHANGED <<radio, bleVars, lists>>
     ELSE StopBehind
  /\ UNCHANGED <<ble_scan, ble_phys, periodic_enabled, antenna>>

SetBlePhys(v) ==
  /\ Command
  /\ IF v > 255
     THEN Answer("BAD_VALUE", host) /\ UNCHANGED ble_phys
     ELSE /\ ble_phys' = v
          /\ Answer("OK", [host EXCEPT !.phys = v])
  /\ Works
  /\ UNCHANGED <<selected_radio, ble_scan, periodic_enabled, lists, bleVars,
                 radio, antenna>>

SetBlePeriodic(v) ==
  /\ Command
  /\ periodic_enabled' = v
  /\ Answer("OK", [host EXCEPT !.periodic = v])
  /\ Works
  /\ UNCHANGED <<selected_radio, ble_scan, ble_phys, lists, bleVars, radio,
                 antenna>>

SetBleScan(v) ==
  /\ Command
  /\ ble_scan' = v
  /\ Answer("OK", [host EXCEPT !.scan = v])
  /\ Works
  /\ UNCHANGED <<selected_radio, ble_phys, periodic_enabled, lists, bleVars,
                 radio, antenna>>

\* (uint8_t)value
Byte(v) == v % 256

\* sn_batch_flush, sn_radio154_set_channel, sn_radio154_start.
SetChannel(v) ==
  /\ Command
  /\ \/ /\ selected_radio = RADIO_BLE \/ Byte(v) \notin Channels
        /\ Answer("BAD_VALUE", host)
        /\ Works /\ UNCHANGED radio
     \/ /\ selected_radio = RADIO_154 /\ Byte(v) \in Channels
        /\ \/ /\ Refused
              /\ Answer("BAD_VALUE", host)
              /\ UNCHANGED radio
           \/ /\ radio' = [radio EXCEPT !.channel = Byte(v)]   \* not started
              /\ Refused
              /\ Answer("FAILED", [host EXCEPT !.channel = v])
           \/ /\ radio' = [on |-> TRUE, channel |-> Byte(v), running |-> TRUE]
              /\ Works
              /\ Answer("OK", [host EXCEPT !.channel = v, !.receiving = "yes"])
  /\ UNCHANGED <<settings, lists, bleVars, antenna>>

\* START of 802.15.4.
Start154 ==
  /\ Command
  /\ selected_radio = RADIO_154
  /\ \/ /\ radio' = [radio EXCEPT !.on = TRUE, !.running = TRUE]
        /\ Works
        /\ Answer("OK", [host EXCEPT !.receiving = "yes"])
     \/ /\ Refused
        /\ Answer("FAILED", host)
        /\ UNCHANGED radio
  /\ UNCHANGED <<settings, lists, bleVars, antenna>>

\* START of BLE: -ENODEV when the controller never came up.
StartScan ==
  /\ Command
  /\ selected_radio = RADIO_BLE
  /\ \/ /\ ready
        /\ StartBle
        /\ Works
        /\ Answer("OK", [host EXCEPT !.receiving = "yes"])
     \/ /\ ready
        /\ StartBleFails
        /\ Refused
        /\ Answer("FAILED", InDoubt)
     \/ /\ ~ready
        /\ Works
        /\ Answer("FAILED", host)
        /\ UNCHANGED bleVars
  /\ UNCHANGED <<settings, lists, radio, antenna>>

\* STOP
StopRadio ==
  /\ Command
  /\ IF selected_radio = RADIO_154
     THEN /\ \/ Stop154Works /\ Answer("OK", [host EXCEPT !.receiving = "no"])
             \/ Stop154Fails(TRUE) /\ Answer("FAILED", InDoubt)
          /\ UNCHANGED <<bleVars, lists>>
     ELSE /\ \/ /\ StopBleWorks
                /\ Answer("OK", [host EXCEPT !.receiving = "no",
                                   !.keys = IF ready THEN NoList ELSE @])
             \/ /\ StopBleFails(TRUE)
                /\ Answer("FAILED", [InDoubt EXCEPT !.keys = NoList])
          /\ UNCHANGED radio
  /\ UNCHANGED <<settings, antenna>>

\* The PHY reset and nothing else, as it once was.
Defaults_PhysOnly ==
  /\ selected_radio' = RADIO_154
  /\ ble_phys' = 1
  /\ UNCHANGED <<ble_scan, periodic_enabled>>

\* "Every setting back to its default, not only the PHY".
Defaults ==
  /\ selected_radio' = RADIO_154
  /\ ble_phys' = 1
  /\ ble_scan' = Unset
  /\ periodic_enabled' = FALSE

\* GET_INFO opens a session.  Every error on the way is cast to void.
GetInfo ==
  /\ Command
  /\ \/ /\ Stop154(TRUE) /\ StopBleWorks /\ SetAntenna(0)
     \/ Stop154Fails(FALSE) /\ StopBleIfUp /\ SetAntenna(0)
     \/ Stop154(TRUE) /\ StopBleFails(FALSE) /\ SetAntenna(0)
     \/ /\ Stop154(TRUE) /\ StopBleIfUp
        /\ SetAntennaFails(0, FALSE) /\ UNCHANGED antenna
  /\ Defaults
  /\ Answer("OK", NewSession)

SetAntennaCommand(v) ==
  /\ Command
  /\ \/ /\ v > 1
        /\ Answer("BAD_VALUE", host)
        /\ Works /\ UNCHANGED antenna
     \/ /\ v \in {0, 1} /\ SetAntenna(v)
        /\ Works
        /\ Answer("OK", [host EXCEPT !.antenna = v])
     \/ /\ v \in {0, 1} /\ SetAntennaFails(v, TRUE)
        /\ Answer("FAILED", host)
        /\ UNCHANGED antenna
  /\ UNCHANGED <<settings, lists, bleVars, radio>>

\* sn_radio154_energy_detect, the window in the upper bytes: the radio as it
\* was, or not, see Radio154.
EnergyDetect(v) ==
  /\ Command
  /\ IF selected_radio = RADIO_BLE \/ Byte(v) \notin Channels \/ v \div 256 = 0
     THEN Works /\ Answer("BAD_VALUE", host)
     ELSE \/ Works /\ Answer("OK", host)
          \/ Refused /\ Answer("FAILED", host)
  /\ UNCHANGED <<settings, lists, bleVars, radio, antenna>>

UnknownCommand ==
  /\ Command
  /\ Answer("UNKNOWN", host)
  /\ Works
  /\ UNCHANGED <<settings, lists, bleVars, radio, antenna>>
-----------------------------------------------------------------------------
\* main: both radios initialised and neither receiving, the BLE controller up
\* or not; the host opens with GET_INFO.
Init ==
  /\ selected_radio = RADIO_154
  /\ ble_scan = Unset /\ ble_phys = 1
  /\ ready \in BOOLEAN /\ ble_running = FALSE /\ periodic_enabled = FALSE
  /\ keys = NoList /\ filter = NoList
  /\ radio = [on |-> FALSE, channel |-> BootChannel, running |-> FALSE]
  /\ antenna = 1
  /\ controller = Idle
  /\ host = NewSession
  /\ reply = "none"
  /\ commands = 0 /\ refusals = 0 /\ lapses = 0

Next ==
  \/ \E l \in FilterFrames : BleFilter(l)
  \/ \E l \in KeyFrames : BleKeys(l)
  \/ \E v \in Radios : SetRadio(v) \/ SetRadioRefused(v)
  \/ \E v \in Phys : SetBlePhys(v)
  \/ \E v \in BOOLEAN : SetBlePeriodic(v)
  \/ \E v \in Timings : SetBleScan(v)
  \/ \E v \in Values : SetChannel(v) \/ EnergyDetect(v)
  \/ Start154 \/ StartScan \/ StopRadio
  \/ GetInfo
  \/ \E v \in 0 .. 2 : SetAntennaCommand(v)
  \/ UnknownCommand

Spec == Init /\ [][Next]_vars
-----------------------------------------------------------------------------
(* Properties *)

KeyLists == {l \in Seq(Entries) : WellFormed(l)}

FilterLists == {l \in Seq(Entries) : Len(l) <= MaxFilter}

\* The board's variables have their types, neither list outgrows its table
\* whatever frames come, and the antenna switch's enable count never leaves the
\* two values one enable can undo.
TypeOK ==
  /\ selected_radio \in {RADIO_154, RADIO_BLE}
  /\ ble_scan \in Timing
  /\ ble_phys \in 0 .. 255
  /\ periodic_enabled \in BOOLEAN /\ ready \in BOOLEAN /\ ble_running \in BOOLEAN
  /\ keys \in KeyLists /\ filter \in FilterLists
  /\ radio \in [on : BOOLEAN, channel : Channels, running : BOOLEAN]
  /\ antenna \in {0, 1}
  /\ controller \in [scanning : BOOLEAN, scan : Timing, phys : 0 .. 255,
                     keys : KeyLists, filter : FilterLists]

\* "they share one antenna so only one can run at a time" (main.c): whatever
\* the host sends, in whatever order, and whatever the drivers refuse, the two
\* radios never receive at once, errors the firmware casts to void aside.
OneReceiver == lapses = 0 => ~(radio.on /\ controller.scanning)

Receiving ==
  IF selected_radio = RADIO_154 THEN radio.on ELSE controller.scanning

\* What a host may believe of the board from its replies is so: the radio
\* selected, every setting, also those it never sent in this session, the
\* channel and whether the board is receiving.  Sessions opened by GET_INFO
\* without a STOP, and commands answered FAILED, come in between.  Set aside
\* are errors cast to void, and a channel above 255, of which the radio takes
\* the low byte.
HostIsRight ==
  lapses = 0 =>
    /\ host.radio = selected_radio
    /\ host.scan = ble_scan /\ host.phys = ble_phys
    /\ host.periodic = periodic_enabled
    /\ (host.antenna = 0) = onboard
    /\ host.channel > 255 \/ host.channel \in {Unknown, radio.channel}
    /\ host.receiving \in {"unknown", IF Receiving THEN "yes" ELSE "no"}

\* "Keys are secrets; they live for one capture.": once a capture is over, the
\* board and its controller hold only the keys a host has sent since, also
\* when a START failed after it had loaded them.
KeysLiveOneCapture ==
  ready /\ lapses = 0 =>
    /\ keys = host.keys
    /\ host.receiving = "no" \/ host.radio = RADIO_154 =>
         controller.keys = NoList

\* The units of a time in milliseconds: as many of 0.625 ms as it has whole.
Holds(units, ms) == units * 625 <= ms * 1000 /\ ms * 1000 < (units + 1) * 625

\* The timing a host asks for: its interval, or the default where it sets none;
\* its window where it sets one that fits the interval, and otherwise scanning
\* without a gap.
TimedAsAsked(scan, asked) ==
  /\ Holds(scan.interval, IF asked.interval = 0 THEN 60 ELSE asked.interval)
  /\ scan.window <= scan.interval
  /\ IF asked.window \in 1 .. (IF asked.interval = 0 THEN 60 ELSE asked.interval)
     THEN Holds(scan.window, asked.window)
     ELSE scan.window = scan.interval

\* A time whose units fit sixteen bits: up to 40.9 seconds.
FitsUnits(ms) == ms * 1000 < 625 * Wide

\* A START answered OK leaves the controller with the PHYs and the keys the host
\* has set in this session, those of the last key frame the format allows, with
\* the scan timing it has asked for unless that is longer than 40.9 seconds, whose
\* units wrap, and
\* with nothing of an earlier scan.
StartsAsAsked ==
  [][StartScan /\ reply' = "OK" /\ lapses = 0 =>
       /\ controller'.scanning
       /\ FitsUnits(host.scan.interval) =>
            TimedAsAsked(controller'.scan, host.scan)
       /\ controller'.phys = host.phys
       /\ controller'.keys = host.keys]_vars

\* "Every setting back to its default, not only the PHY": nor does it filter
\* by a list the host has not sent in this session.
FilterAsAsked ==
  [][StartScan /\ reply' = "OK" => controller'.filter = host.filter]_vars
=============================================================================
