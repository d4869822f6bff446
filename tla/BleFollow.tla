------------------------------ MODULE BleFollow ------------------------------
(***************************************************************************)
(* Following periodic trains and broadcasts, src/radio_ble.c: what three   *)
(* threads make of one controller that holds one of each.                  *)
(*                                                                         *)
(* The forwarding thread notices trains and BIGInfos among the events and  *)
(* keeps the count of syncs; the system work queue asks the controller for *)
(* them, one work item at a time; the reader starts and stops the capture. *)
(* All three share running, sync_count and big_synced, without a lock.     *)
(* The work queue is cooperative and above the other two: while it can run *)
(* neither does.  The other two have one priority and are time-sliced: a   *)
(* STOP may come between the forwarding thread's test of running and what  *)
(* it then makes of the event.                                             *)
(*                                                                         *)
(* An HCI command is: the lock, the answer or two seconds without one, the *)
(* unlock; module HciCommand has the rest of it.  Of a train and of a      *)
(* broadcast only their being there is kept.  The controller is external:  *)
(* it obeys the commands it was given in order and at any time, or never,  *)
(* may refuse any but the reset, and a reset drops all it held.            *)
(***************************************************************************)
EXTENDS Integers, Sequences, SequencesExt

CONSTANTS
  MaxSyncs,      \* MAX_SYNCS, 1
  QueueDepth,    \* of sync_q, 4
  MaxBis,        \* MAX_BIS: streams of a broadcast
  Repeats,       \* whether announcements and refusals go on without end
  MaxReports,    \* bound of the model otherwise: advertisements and BIGInfos
  MaxRefusals,   \* bound of the model otherwise: refusals of what could be done
  MaxInFlight,   \* bound of the model: events on their way
  MaxGiven,      \* bound of the model: commands the controller has before it
  MaxOps,        \* bound of the model: STARTs and STOPs
  Restarts       \* whether a START may come while a capture is running

ASSUME FollowAssumption ==
  /\ MaxSyncs \in Nat \ {0} /\ QueueDepth \in Nat \ {0} /\ MaxBis \in Nat \ {0}
  /\ MaxReports \in Nat /\ MaxRefusals \in Nat /\ MaxOps \in Nat
  /\ MaxInFlight \in Nat /\ MaxGiven \in Nat
  /\ Repeats \in BOOLEAN /\ Restarts \in BOOLEAN

VARIABLES
  running, periodic_enabled,
  sync_count, sync_q,            \* sync_q as the number of its requests
  big_synced, big_pending,
  big_wait,                      \* big_retry_at is in the future
  bis_count,
  queue,         \* work items submitted and not begun, oldest first
  wq, reader,    \* where the work queue and the reader are
  stream,        \* i of iso_path_work_fn
  cmd_lock,      \* its owner, or "none"
  cmd,           \* where each is in hci_command: [at, op], see Commanding
  pending,       \* pending_opcode
  given,         \* commands given to the controller and not obeyed
  hci_rx,        \* events on their way to the forwarding thread
  through,       \* whether the first of them has passed the test of running
  controller,    \* [scanning, train, big, paths, denied]: streams whose data
                 \* path is set up, and streams whose path it refused
  capturing,     \* history: the last START was answered OK and no STOP since
  stopped,       \* history: the last STOP was answered OK and no START since
  joined,        \* history: a broadcast has been joined since the scan started
  silent,        \* history: a command was given up on, or never sent
  lateReset,     \* history: a reset was given up on
  reports, refusals, ops   \* for the bounds

flagVars  == <<running, periodic_enabled>>
syncVars  == <<sync_count, sync_q>>
bigVars   == <<big_synced, big_pending, big_wait, bis_count>>
wqVars    == <<queue, wq, stream>>
cmdVars   == <<cmd_lock, cmd, pending>>
ctlVars   == <<given, hci_rx, controller>>
histVars  == <<capturing, stopped, joined, silent, lateReset>>
boundVars == <<reports, refusals, ops>>
allButThrough == <<flagVars, syncVars, bigVars, wqVars, reader, cmdVars, ctlVars,
                   histVars, boundVars>>
vars == <<allButThrough, through>>

Threads == {"wq", "reader"}

Reset == [scanning |-> FALSE, train |-> "none", big |-> "none", paths |-> {},
          denied |-> {}]

Event(kind) == [kind |-> kind, op |-> "none", ok |-> FALSE]
-----------------------------------------------------------------------------
(* hci_command, and who runs. *)

\* at: "idle", "lock", "wait", and then "accepted" or "failed".
NoCommand == [at |-> "idle", op |-> "none"]

Call(op) == [at |-> "lock", op |-> op]

Begins(t, op) == cmd' = [cmd EXCEPT ![t] = Call(op)]

Returned(t) == cmd[t].at \in {"accepted", "failed"}

\* k_mutex_unlock gives the lock to a thread that waits for it.
Unlocks(t, then) ==
  /\ cmd' = [cmd EXCEPT ![t] = then]
  /\ cmd_lock' = IF \E u \in Threads \ {t} : cmd[u].at = "lock"
                 THEN CHOOSE u \in Threads \ {t} : cmd[u].at = "lock"
                 ELSE "none"
  /\ pending' = "none"

\* The work queue lets the others run only where it waits.
WqWaits ==
  \/ wq = "idle" /\ queue = <<>>
  \/ cmd["wq"].at = "wait"
  \/ cmd["wq"].at = "lock" /\ cmd_lock = "reader"

MayRun(t) == t # "wq" => WqWaits

\* The command goes to the controller, once the lock is held.
Sends(t) ==
  /\ cmd[t].at = "lock" /\ cmd_lock \in {"none", t} /\ MayRun(t)
  /\ cmd_lock' = t
  /\ \/ /\ cmd' = [cmd EXCEPT ![t].at = "wait"]
        /\ pending' = cmd[t].op
        /\ Len(given) < MaxGiven /\ given' = Append(given, cmd[t].op)
        /\ UNCHANGED silent
     \/ /\ cmd' = [cmd EXCEPT ![t].at = "failed"]   \* -ENOBUFS, or bt_send failed
        /\ silent' = TRUE
        /\ UNCHANGED <<pending, given>>
  /\ UNCHANGED <<flagVars, syncVars, bigVars, wqVars, reader, hci_rx,
                 controller, capturing, stopped, joined, lateReset, boundVars, through>>

TimesOut(t) ==
  /\ cmd[t].at = "wait"
  /\ silent' = TRUE
  /\ cmd' = [cmd EXCEPT ![t].at = "failed"]
  /\ lateReset' = (lateReset \/ cmd[t].op = "reset")
  /\ UNCHANGED <<flagVars, syncVars, bigVars, wqVars, reader, cmd_lock, pending,
                 ctlVars, capturing, stopped, joined, boundVars, through>>
-----------------------------------------------------------------------------
(* The controller *)

Obeyed(op) ==
  CASE op = "reset"  -> Reset
    [] op = "enable" -> [controller EXCEPT !.scanning = TRUE]
    [] op = "sync"   -> [controller EXCEPT !.train = "pending"]
    [] op = "big"    -> [controller EXCEPT !.big = "pending", !.paths = {}, !.denied = {}]
    [] op = "path"   -> [controller EXCEPT !.paths = @ \cup {stream}]
    [] OTHER         -> controller

\* What it cannot do, it refuses: a sync or a broadcast too many, a broadcast
\* of a train it does not follow, a stream it does not have.
CanObey(op) ==
  CASE op = "sync" -> controller.train = "none"
    [] op = "big"  -> controller.big = "none" /\ controller.train = "synced"
    [] op = "path" -> controller.big = "synced"
    [] OTHER       -> TRUE

Obeys ==
  /\ given # <<>> /\ CanObey(Head(given)) /\ Len(hci_rx) < MaxInFlight
  /\ controller' = Obeyed(Head(given))
  /\ hci_rx' = Append(hci_rx, [kind |-> "answer", op |-> Head(given), ok |-> TRUE])
  /\ given' = Tail(given)
  /\ UNCHANGED <<flagVars, syncVars, bigVars, wqVars, reader, cmdVars, histVars,
                 boundVars, through>>

\* What it could do it may refuse too, a data path like anything else.
Denied(op) ==
  IF op = "path" /\ CanObey(op)
  THEN [controller EXCEPT !.denied = @ \cup {stream}]
  ELSE controller

\* One more of n, where the model counts them.
Another(n, max) == Repeats \/ n < max

Count(n) == IF Repeats THEN n ELSE n + 1

Refuses ==
  /\ given # <<>> /\ Head(given) # "reset" /\ Len(hci_rx) < MaxInFlight
  /\ IF CanObey(Head(given))
     THEN Another(refusals, MaxRefusals) /\ refusals' = Count(refusals)
     ELSE UNCHANGED refusals
  /\ controller' = Denied(Head(given))
  /\ hci_rx' = Append(hci_rx, [kind |-> "answer", op |-> Head(given), ok |-> FALSE])
  /\ given' = Tail(given)
  /\ UNCHANGED <<flagVars, syncVars, bigVars, wqVars, reader, cmdVars, histVars,
                 reports, ops, through>>

Reports(kind) ==
  /\ Len(hci_rx) < MaxInFlight
  /\ hci_rx' = Append(hci_rx, Event(kind))
  /\ UNCHANGED <<flagVars, syncVars, bigVars, wqVars, reader, cmdVars, given,
                 histVars, refusals, ops, through>>

\* An advertisement that announces a train, or a BIGInfo of one followed, time
\* and again.
Announces ==
  /\ Another(reports, MaxReports) /\ reports' = Count(reports)
  /\ \/ controller.scanning /\ Reports("announce")
     \/ controller.train = "synced" /\ Reports("biginfo")
  /\ UNCHANGED controller

\* A sync asked for is made, or fails; a train followed is lost.
Train(from, to, kind) ==
  /\ controller.train = from
  /\ controller' = [controller EXCEPT !.train = to]
  /\ Reports(kind) /\ UNCHANGED reports

TrainChanges ==
  \/ Train("pending", "synced", "sync_made")
  \/ Train("pending", "none", "sync_failed")
  \/ Train("synced", "none", "sync_lost")

Big(from, to, kind) ==
  /\ controller.big = from
  /\ controller' = [controller EXCEPT !.big = to]
  /\ Reports(kind) /\ UNCHANGED reports

BigChanges ==
  \/ Big("pending", "synced", "big_made")
  \/ Big("pending", "none", "big_failed")
  \/ Big("synced", "none", "big_lost")
-----------------------------------------------------------------------------
(* The forwarding thread *)

Submit(item) == queue' = IF item \in ToSet(queue) THEN queue ELSE Append(queue, item)

\* note_command_result
NoteAnswer(e) ==
  /\ e.kind = "answer"
  /\ IF e.op = pending
     THEN /\ pending' = "none"
          /\ cmd' = [t \in Threads |->
                       IF cmd[t].at = "wait"
                       THEN [cmd[t] EXCEPT !.at = IF e.ok THEN "accepted" ELSE "failed"]
                       ELSE cmd[t]]
     ELSE UNCHANGED <<pending, cmd>>
  /\ UNCHANGED <<syncVars, bigVars, queue, cmd_lock, joined>>

\* A failed sync's slot not given back.
FreeSlot_Never == UNCHANGED sync_count

\* Given back without a look at whether one is taken.
FreeSlot_Unguarded == sync_count' = sync_count - 1

FreeSlot == sync_count' = IF sync_count > 0 THEN sync_count - 1 ELSE 0

\* note_counts, of periodic syncs.
NoteSync(e) ==
  /\ e.kind \in {"sync_made", "sync_failed", "sync_lost"}
  /\ IF e.kind = "sync_made" THEN UNCHANGED sync_count ELSE FreeSlot
  /\ UNCHANGED <<sync_q, bigVars, queue, cmdVars, joined>>

\* The last stream forgotten.
Kept_ButLast == MaxBis - 1

Kept == MaxBis

\* note_counts and note_big_established.
NoteBig(e) ==
  /\ e.kind \in {"big_made", "big_failed", "big_lost"}
  /\ big_synced' = (e.kind = "big_made")
  /\ big_wait' = (big_wait \/ e.kind = "big_failed")
  /\ IF e.kind = "big_made"
     THEN bis_count' = Kept /\ joined' = TRUE /\ Submit("iso")
     ELSE UNCHANGED <<bis_count, joined, queue>>
  /\ UNCHANGED <<syncVars, big_pending, cmdVars>>

Room == sync_q < QueueDepth

\* note_periodic: a full queue drops the request.
NotePeriodic(e) ==
  /\ e.kind = "announce"
  /\ IF periodic_enabled /\ Room
     THEN sync_q' = sync_q + 1 /\ Submit("sync")
     ELSE UNCHANGED <<sync_q, queue>>
  /\ UNCHANGED <<sync_count, bigVars, cmdVars, joined>>

\* note_biginfo
NoteBigInfo(e) ==
  /\ e.kind = "biginfo"
  /\ IF periodic_enabled /\ ~big_synced /\ ~big_wait /\ ~big_pending
     THEN big_pending' = TRUE /\ Submit("big")
     ELSE UNCHANGED <<big_pending, queue>>
  /\ UNCHANGED <<syncVars, big_synced, big_wait, bis_count, cmdVars, joined>>

\* forward is called only if running is found set,
FwdPasses ==
  /\ hci_rx # <<>> /\ ~through /\ MayRun("fwd")
  /\ running /\ Head(hci_rx).kind # "answer"
  /\ through' = TRUE
  /\ UNCHANGED allButThrough

\* whatever it is by the time the event is handled; the answers to our own
\* commands are looked at in any case.
Forward ==
  /\ hci_rx # <<>> /\ MayRun("fwd")
  /\ hci_rx' = Tail(hci_rx)
  /\ LET e == Head(hci_rx)
     IN  \/ ~through /\ NoteAnswer(e)
         \/ through /\ (NoteSync(e) \/ NoteBig(e) \/ NotePeriodic(e) \/ NoteBigInfo(e))
         \/ /\ ~through /\ ~running /\ e.kind # "answer"
            /\ UNCHANGED <<syncVars, bigVars, queue, cmdVars, joined>>
  /\ through' = FALSE
  /\ UNCHANGED <<flagVars, wq, stream, reader, given, controller, capturing,
                 stopped, silent, lateReset, boundVars>>

\* Five seconds go by.
RetryDue ==
  /\ big_wait
  /\ big_wait' = FALSE
  /\ UNCHANGED <<flagVars, syncVars, big_synced, big_pending, bis_count, wqVars,
                 reader, cmdVars, ctlVars, histVars, boundVars, through>>
-----------------------------------------------------------------------------
(* The work queue *)

\* What a step of a work handler leaves alone.
WqRest == UNCHANGED <<flagVars, reader, ctlVars, histVars, boundVars, through>>

WqBegins ==
  /\ wq = "idle" /\ queue # <<>>
  /\ wq' = Head(queue) /\ queue' = Tail(queue)
  /\ stream' = 0
  /\ UNCHANGED <<syncVars, bigVars, cmdVars>> /\ WqRest

WqEnds == wq' = "idle" /\ UNCHANGED <<queue, stream>>

\* The test of running forgotten.
Wanted_Always == periodic_enabled /\ sync_count < MaxSyncs

\* Whether a request for a sync is still to be made.
Wanted == running /\ periodic_enabled /\ sync_count < MaxSyncs

\* sync_work_fn, up to its command.
SyncWork ==
  /\ wq = "sync" /\ cmd["wq"].at = "idle"
  /\ IF sync_q = 0
     THEN WqEnds /\ UNCHANGED <<sync_q, cmd>>
     ELSE /\ sync_q' = sync_q - 1
          /\ IF Wanted THEN Begins("wq", "sync") ELSE UNCHANGED cmd
          /\ UNCHANGED wqVars
  /\ UNCHANGED <<sync_count, bigVars, cmd_lock, pending>> /\ WqRest

\* ... and after it.
SyncWorkOn ==
  /\ wq = "sync" /\ Returned("wq")
  /\ sync_count' = IF cmd["wq"].at = "accepted" THEN sync_count + 1 ELSE sync_count
  /\ Unlocks("wq", NoCommand)
  /\ UNCHANGED <<sync_q, bigVars, wqVars>> /\ WqRest

\* The flag that says a request is in flight left up.
BigOver_StillPending == UNCHANGED big_pending

BigOver == big_pending' = FALSE

\* big_work_fn
BigWork ==
  /\ wq = "big" /\ cmd["wq"].at = "idle"
  /\ IF running
     THEN Begins("wq", "big") /\ UNCHANGED <<big_pending, big_wait, wqVars>>
     ELSE big_wait' = TRUE /\ BigOver /\ WqEnds /\ UNCHANGED cmd
  /\ UNCHANGED <<syncVars, big_synced, bis_count, cmd_lock, pending>> /\ WqRest

BigWorkOn ==
  /\ wq = "big" /\ Returned("wq")
  /\ IF cmd["wq"].at = "accepted"
     THEN big_synced' = TRUE /\ UNCHANGED big_wait
     ELSE big_wait' = TRUE /\ UNCHANGED big_synced
  /\ BigOver
  /\ Unlocks("wq", NoCommand) /\ WqEnds
  /\ UNCHANGED <<syncVars, bis_count>> /\ WqRest

\* iso_path_work_fn
IsoWork ==
  /\ wq = "iso" /\ cmd["wq"].at = "idle"
  /\ IF stream < bis_count /\ running
     THEN Begins("wq", "path") /\ UNCHANGED wqVars
     ELSE WqEnds /\ UNCHANGED cmd
  /\ UNCHANGED <<syncVars, bigVars, cmd_lock, pending>> /\ WqRest

IsoWorkOn ==
  /\ wq = "iso" /\ Returned("wq")
  /\ stream' = stream + 1
  /\ Unlocks("wq", NoCommand)
  /\ UNCHANGED <<syncVars, bigVars, queue, wq>> /\ WqRest
-----------------------------------------------------------------------------
(* The reader *)

ReaderRest == UNCHANGED <<periodic_enabled, sync_q, big_pending, wqVars, ctlVars,
                          joined, silent, lateReset, reports, refusals, through>>

\* sn_radio_ble_start: a reset first,
StartBegins ==
  /\ reader = "idle" /\ MayRun("reader")
  /\ ops < MaxOps /\ (running => Restarts)
  /\ ops' = ops + 1
  /\ reader' = "start"
  /\ Begins("reader", "reset")
  /\ capturing' = FALSE /\ stopped' = FALSE
  /\ UNCHANGED <<running, sync_count, big_synced, big_wait, bis_count, cmd_lock,
                 pending>>
  /\ ReaderRest

\* then masks, keys, filter and parameters, one command standing for all, and
\* the enable.
After(op) == IF op = "reset" THEN "config" ELSE "enable"

StartGoesOn ==
  /\ reader = "start" /\ cmd["reader"].at = "accepted" /\ MayRun("reader")
  /\ IF cmd["reader"].op = "enable"
     THEN reader' = "started" /\ Unlocks("reader", NoCommand)
     ELSE /\ Unlocks("reader", Call(After(cmd["reader"].op)))
          /\ UNCHANGED reader
  /\ UNCHANGED <<running, sync_count, big_synced, big_wait, bis_count, capturing,
                 stopped, ops>>
  /\ ReaderRest

\* The first that is not accepted ends it, and running stays what it was.
StartFails ==
  /\ reader = "start" /\ cmd["reader"].at = "failed" /\ MayRun("reader")
  /\ reader' = "idle"
  /\ Unlocks("reader", NoCommand)
  /\ UNCHANGED <<running, sync_count, big_synced, big_wait, bis_count, capturing,
                 stopped, ops>>
  /\ ReaderRest

\* The streams of the last capture kept.
ForgetStreams_Not == UNCHANGED bis_count

ForgetStreams == bis_count' = 0

\* scan_started
ScanStarted ==
  /\ reader = "started" /\ MayRun("reader")
  /\ sync_count' = 0 /\ big_synced' = FALSE /\ big_wait' = FALSE
  /\ ForgetStreams
  /\ sync_q' = 0
  /\ running' = TRUE
  /\ reader' = "idle"
  /\ capturing' = TRUE /\ joined' = FALSE
  /\ UNCHANGED <<periodic_enabled, big_pending, wqVars, cmdVars, ctlVars, stopped,
                 silent, lateReset, boundVars, through>>

\* sn_radio_ble_stop: running down, the batch flushed,
StopBegins ==
  /\ reader = "idle" /\ MayRun("reader")
  /\ ops < MaxOps
  /\ ops' = ops + 1
  /\ running' = FALSE
  /\ reader' = "stop"
  /\ capturing' = FALSE /\ stopped' = FALSE
  /\ UNCHANGED <<sync_count, big_synced, big_wait, bis_count, cmdVars>>
  /\ ReaderRest

\* the counts forgotten, and a reset,
StopGoesOn ==
  /\ reader = "stop" /\ cmd["reader"].at = "idle" /\ MayRun("reader")
  /\ sync_count' = 0 /\ big_synced' = FALSE
  /\ Begins("reader", "reset")
  /\ UNCHANGED <<running, big_wait, bis_count, reader, cmd_lock, pending,
                 capturing, stopped, ops>>
  /\ ReaderRest

\* whose result is the answer to STOP.
StopEnds ==
  /\ reader = "stop" /\ Returned("reader") /\ MayRun("reader")
  /\ reader' = "idle"
  /\ stopped' = (cmd["reader"].at = "accepted")
  /\ Unlocks("reader", NoCommand)
  /\ UNCHANGED <<running, sync_count, big_synced, big_wait, bis_count, capturing,
                 ops>>
  /\ ReaderRest

\* sn_radio_ble_set_periodic
SetPeriodic ==
  /\ reader = "idle" /\ MayRun("reader")
  /\ ops < MaxOps
  /\ ops' = ops + 1
  /\ periodic_enabled' = ~periodic_enabled
  /\ UNCHANGED <<running, syncVars, bigVars, wqVars, reader, cmdVars, ctlVars,
                 histVars, reports, refusals, through>>
-----------------------------------------------------------------------------
Init ==
  /\ running = FALSE /\ periodic_enabled \in BOOLEAN
  /\ sync_count = 0 /\ sync_q = 0
  /\ big_synced = FALSE /\ big_pending = FALSE /\ big_wait = FALSE
  /\ bis_count = 0
  /\ queue = <<>> /\ wq = "idle" /\ stream = 0 /\ reader = "idle"
  /\ cmd_lock = "none" /\ cmd = [t \in Threads |-> NoCommand]
  /\ pending = "none"
  /\ given = <<>> /\ hci_rx = <<>> /\ through = FALSE /\ controller = Reset
  /\ capturing = FALSE /\ stopped = FALSE /\ joined = FALSE
  /\ silent = FALSE /\ lateReset = FALSE
  /\ reports = 0 /\ refusals = 0 /\ ops = 0

Work ==
  \/ Sends("wq") \/ WqBegins
  \/ SyncWork \/ SyncWorkOn \/ BigWork \/ BigWorkOn \/ IsoWork \/ IsoWorkOn

ReaderStep ==
  \/ Sends("reader")
  \/ StartGoesOn \/ StartFails \/ ScanStarted \/ StopGoesOn \/ StopEnds

Operation == StartBegins \/ StopBegins \/ SetPeriodic

Controller == Obeys \/ Refuses \/ Announces \/ TrainChanges \/ BigChanges

Next ==
  \/ Controller
  \/ \E t \in Threads : TimesOut(t)
  \/ FwdPasses \/ Forward \/ RetryDue
  \/ Work
  \/ ReaderStep
  \/ Operation

Spec == Init /\ [][Next]_vars

\* The threads run, events are forwarded, and a wait that is not answered runs
\* out.  Nothing obliges the controller to answer.
FairSpec ==
  /\ Spec
  /\ WF_vars(Work) /\ WF_vars(ReaderStep)
  /\ WF_vars(FwdPasses \/ Forward)
  /\ \A t \in Threads : WF_vars(TimesOut(t))
-----------------------------------------------------------------------------
(* Properties *)

\* The variables have their types; no more requests wait than sync_q holds.
TypeOK ==
  /\ running \in BOOLEAN /\ periodic_enabled \in BOOLEAN
  /\ sync_count \in 0 .. MaxSyncs /\ sync_q \in 0 .. QueueDepth
  /\ big_synced \in BOOLEAN /\ big_pending \in BOOLEAN /\ big_wait \in BOOLEAN
  /\ bis_count \in 0 .. MaxBis
  /\ wq \in {"idle", "sync", "big", "iso"} /\ stream \in 0 .. MaxBis
  /\ reader \in {"idle", "start", "started", "stop"}
  /\ cmd_lock \in Threads \cup {"none"}
  /\ \A t \in Threads : cmd[t].at \in {"idle", "lock", "wait", "accepted", "failed"}
  /\ through \in BOOLEAN /\ (through => hci_rx # <<>>)

\* "Not after a STOP: a sync made then would run on, taking radio time, into
\* whatever the next capture is": once a STOP has been answered OK the
\* controller holds no sync and no broadcast, nor will it take one from a work
\* item that was under way, until the next START.
NothingAfterStop ==
  stopped /\ ~lateReset =>
    /\ controller.train = "none" /\ controller.big = "none"
    /\ \A i \in 1 .. Len(given) : given[i] \notin {"sync", "big", "path"}

InFlight(kinds) == \E i \in 1 .. Len(hci_rx) : hci_rx[i].kind \in kinds

\* What the flags claim is held is held.  While the one slot counts as taken
\* the controller follows a train or is about to say that it does not: "with
\* one sync to give, a failure that left it up would stop this board following
\* any train for the rest of the capture".  The same of the broadcast: "a
\* failure here has to bring it down, or no broadcast would be joined again
\* until the next START".  A reset that was given up on may be obeyed in the
\* midst of a later capture, and drops what it holds without a word.
FlagsAreReal ==
  capturing /\ ~lateReset =>
    /\ sync_count > 0 =>
         controller.train # "none" \/ InFlight({"sync_failed", "sync_lost"})
    /\ big_synced =>
         controller.big # "none" \/ InFlight({"big_failed", "big_lost"})

\* "a BIG joined perfectly put no audio in the capture": once the events of a
\* broadcast are forwarded and the work queue is done, every stream of it has
\* its data path, but for those whose own path the controller refused: a refusal
\* costs no other stream.  Set aside is a command given up on.
PathsAreSet ==
  capturing /\ ~silent /\ controller.big = "synced" /\ big_synced
      /\ wq = "idle" /\ queue = <<>> /\ ~InFlight({"big_made", "big_lost", "big_failed"})
    => controller.paths \cup controller.denied = 0 .. MaxBis - 1

\* "A data-path setup still queued from the last capture would otherwise be
\* sent for its streams into this one": during a capture none is asked for
\* before this scan has joined a broadcast.
PathsOfThisScan ==
  [][Begins("wq", "path") /\ capturing => joined]_vars

\* "One request in flight is enough": none stays in flight for ever to keep
\* later ones from being made.  The handler of syncs takes requests for as long
\* as there are any, each with a command of up to two seconds, and more may come
\* meanwhile: it gets to the end of sync_q once no sync is wanted any more.  A
\* request for a broadcast waits behind it, and is dealt with if it ends.
RequestsEnd ==
  /\ <>[]~Wanted => []<>(sync_q = 0)
  /\ []<>(wq # "sync") => (big_pending ~> ~big_pending)

\* "A fresh scan is a fresh controller": a scan starts with a controller that
\* follows nothing, which is what its counts are set to.
FreshScan ==
  [][ScanStarted => controller.train = "none" /\ "sync" \notin ToSet(given)]_vars
=============================================================================
