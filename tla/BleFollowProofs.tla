-------------------------- MODULE BleFollowProofs --------------------------
(***************************************************************************)
(* Theorems about the following of trains and broadcasts, for any numbers  *)
(* of syncs, requests, streams, reports and operations, with and without   *)
(* restarts and refusals.                                                  *)
(*                                                                         *)
(* The invariant has nine parts. ThroughInv: an event that has passed the  *)
(* test of running is there. Typed and CallInv: who has the lock and is    *)
(* where in a command. RunInv: what running says of the threads. ResetInv  *)
(* follows a reset through the controller and back. SyncInv and BigInv:    *)
(* what is claimed is held, or its end is on the way. QuietInv: until a    *)
(* command is given up on, one at a time is under way. PathInv: the        *)
(* streams the controller has still to answer for are those the work queue *)
(* has yet to come to.                                                     *)
(***************************************************************************)
EXTENDS BleFollow, SequenceTheorems, TLAPS

Ops == {"reset", "config", "enable", "sync", "big", "path"}

Kinds == {"answer", "announce", "biginfo", "sync_made", "sync_failed", "sync_lost",
          "big_made", "big_failed", "big_lost"}

Events == [kind : Kinds, op : Ops \cup {"none"}, ok : BOOLEAN]

States == {"none", "pending", "synced"}

Answer(e, op) == e.kind = "answer" /\ e.op = op

Bools ==
  /\ running \in BOOLEAN /\ periodic_enabled \in BOOLEAN
  /\ big_synced \in BOOLEAN /\ big_pending \in BOOLEAN /\ big_wait \in BOOLEAN

Counts ==
  /\ sync_count \in 0 .. MaxSyncs /\ sync_q \in 0 .. QueueDepth
  /\ bis_count \in 0 .. MaxBis

Places ==
  /\ wq \in {"idle", "sync", "big", "iso"} /\ stream \in 0 .. MaxBis
  /\ reader \in {"idle", "start", "started", "stop"}
  /\ cmd_lock \in Threads \cup {"none"}

CmdTyped ==
  /\ cmd \in [Threads -> [at : {"idle", "lock", "wait", "accepted", "failed"},
                          op : Ops \cup {"none"}]]
  /\ pending \in Ops \cup {"none"}

QueuesTyped ==
  /\ queue \in Seq({"sync", "big", "iso"})
  /\ given \in Seq(Ops) /\ hci_rx \in Seq(Events)

ControllerTyped ==
  controller \in [scanning : BOOLEAN, train : States, big : States,
                  paths : SUBSET (0 .. MaxBis), denied : SUBSET (0 .. MaxBis)]

HistoryTyped ==
  /\ capturing \in BOOLEAN /\ stopped \in BOOLEAN /\ joined \in BOOLEAN
  /\ silent \in BOOLEAN /\ lateReset \in BOOLEAN

\* A command is only begun while there is a sync, or a stream, to give it for.
WorkFits ==
  /\ wq = "sync" /\ cmd["wq"].at # "idle" => sync_count < MaxSyncs
  /\ wq = "iso" /\ cmd["wq"].at # "idle" => stream < MaxBis

Typed ==
  /\ Bools /\ Counts /\ Places /\ CmdTyped /\ QueuesTyped /\ ControllerTyped
  /\ HistoryTyped /\ WorkFits

\* The command a work handler gives.
WorkOp == CASE wq = "sync" -> "sync" [] wq = "big" -> "big" [] OTHER -> "path"

Holds(t) == cmd[t].at \in {"wait", "accepted", "failed"}

CallInv ==
  /\ \A t \in Threads :
       /\ Holds(t) => cmd_lock = t
       /\ cmd[t].at = "idle" => cmd_lock # t
       /\ cmd[t].at = "wait" => pending = cmd[t].op
  /\ IF wq = "idle" \/ cmd["wq"].at = "idle"
     THEN cmd["wq"] = NoCommand
     ELSE cmd["wq"].op = WorkOp
  /\ CASE reader = "start" -> /\ cmd["reader"].at # "idle"
                              /\ cmd["reader"].op \in {"reset", "config", "enable"}
       [] reader = "stop"  -> \/ cmd["reader"] = NoCommand
                              \/ cmd["reader"].at # "idle" /\ cmd["reader"].op = "reset"
       [] OTHER            -> cmd["reader"] = NoCommand

RunInv ==
  /\ ~running => cmd["wq"].at # "lock"
  /\ reader = "stop" => ~running
  /\ reader = "stop" /\ Holds("reader") => cmd["wq"].at = "idle"
  /\ stopped => ~running /\ reader = "idle" /\ cmd["wq"].at = "idle"
  /\ capturing => running /\ reader = "idle"
  /\ capturing /\ ~joined => bis_count = 0 /\ cmd["wq"] # Call("path")

\* The reader waits for the answer to a reset.
Resetting == cmd["reader"] = [at |-> "wait", op |-> "reset"]

ResetInv ==
  ~lateReset =>
    /\ \A i \in 1 .. Len(given) :
         given[i] = "reset" => i = Len(given) /\ Resetting
    /\ \A i \in 1 .. Len(hci_rx) :
         Answer(hci_rx[i], "reset") =>
           i = Len(hci_rx) /\ Resetting /\ given = <<>> /\ controller = Reset
    /\ \/ cmd["reader"] = [at |-> "accepted", op |-> "reset"]
       \/ stopped
       => given = <<>> /\ controller = Reset

\* From place n of the events on, the end of what is held comes before another
\* is granted; or there is no end, because it is still held.
Covered(s, n, held, op, ends) ==
  \/ \E j \in n .. Len(s) :
       s[j].kind \in ends /\ \A k \in n .. j : ~(Answer(s[k], op) /\ s[k].ok)
  \/ held /\ \A k \in n .. Len(s) : ~(Answer(s[k], op) /\ s[k].ok)

ResetAnswered == \E i \in 1 .. Len(hci_rx) : Answer(hci_rx[i], "reset")

SyncCovered(n) ==
  Covered(hci_rx, n, controller.train # "none", "sync", {"sync_failed", "sync_lost"})

Granted(op) == cmd["wq"] = [at |-> "accepted", op |-> op]

SyncInv ==
  ~lateReset =>
    /\ \A i \in 1 .. Len(hci_rx) :
         Answer(hci_rx[i], "sync") /\ hci_rx[i].ok => SyncCovered(i + 1) \/ ResetAnswered
    /\ capturing /\ (sync_count > 0 \/ Granted("sync")) =>
         /\ SyncCovered(1)
         /\ sync_count + (IF Granted("sync") THEN 1 ELSE 0) = 1

BigCovered(n) ==
  Covered(hci_rx, n, controller.big # "none", "big", {"big_failed", "big_lost"})

BigInv ==
  ~lateReset =>
    /\ \A i \in 1 .. Len(hci_rx) :
         \/ Answer(hci_rx[i], "big") /\ hci_rx[i].ok
         \/ hci_rx[i].kind = "big_made"
         => BigCovered(i + 1) \/ ResetAnswered
    /\ capturing /\ (big_synced \/ Granted("big")) => BigCovered(1)

WaitsFor(op) == \E t \in Threads : cmd[t] = [at |-> "wait", op |-> op]

\* The streams the controller has answered for.
Settled == controller.paths \cup controller.denied

QuietInv ==
  ~silent =>
    /\ given # <<>> => Len(given) = 1 /\ WaitsFor(given[1])
    /\ \A i \in 1 .. Len(hci_rx) :
         hci_rx[i].kind = "answer" =>
           /\ WaitsFor(hci_rx[i].op) /\ given = <<>>
           /\ \A j \in 1 .. Len(hci_rx) : hci_rx[j].kind = "answer" => i = j
    /\ Settled \subseteq 0 .. MaxBis - 1
    /\ ~lateReset

\* A broadcast granted and made: that it was made is still to be heard.
MadeUnheard(n) == \E j \in n .. Len(hci_rx) : hci_rx[j].kind = "big_made"

\* The present stream has its answer, or will have.
PathGoing ==
  \/ cmd["wq"].at \in {"idle", "lock"}
  \/ /\ cmd["wq"].at = "wait"
     /\ \A i \in 1 .. Len(hci_rx) : hci_rx[i].kind = "answer" => stream \in Settled
  \/ cmd["wq"].at \in {"accepted", "failed"} /\ stream \in Settled

PathsComing ==
  \/ "iso" \in ToSet(queue)
  \/ wq = "iso" /\ 0 .. stream - 1 \subseteq Settled /\ PathGoing
  \/ 0 .. MaxBis - 1 \subseteq Settled

PathInv ==
  ~silent /\ controller.big = "synced" =>
    /\ \A i \in 1 .. Len(hci_rx) :
         Answer(hci_rx[i], "big") /\ hci_rx[i].ok => MadeUnheard(i + 1)
    /\ Granted("big") => MadeUnheard(1)
    /\ capturing /\ big_synced /\ ~InFlight({"big_made", "big_lost", "big_failed"}) =>
         bis_count = MaxBis /\ PathsComing

\* Only an event that is there has passed the test of running.
ThroughInv == through \in BOOLEAN /\ (through => hci_rx # <<>>)

Inv ==
  ThroughInv
  /\ Typed /\ CallInv /\ RunInv /\ ResetInv /\ SyncInv /\ BigInv /\ QuietInv /\ PathInv
-----------------------------------------------------------------------------
\* Nothing but that test.
Stutter == UNCHANGED allButThrough

\* The steps of the work queue and of the reader.
Working ==
  \/ WqBegins \/ SyncWork \/ SyncWorkOn \/ BigWork \/ BigWorkOn \/ IsoWork \/ IsoWorkOn

Reading ==
  \/ StartGoesOn \/ StartFails \/ ScanStarted \/ StopGoesOn \/ StopEnds
  \/ StartBegins \/ StopBegins \/ SetPeriodic

(* A step is one of these.                                                  *)
LEMMA Actions ==
  ASSUME [Next]_vars
  PROVE  \/ Obeys \/ Refuses \/ Announces \/ TrainChanges \/ BigChanges \/ Stutter
         \/ \E t \in Threads : Sends(t) \/ TimesOut(t)
         \/ Forward \/ RetryDue \/ Working \/ Reading
  <1>1. FwdPasses \/ UNCHANGED vars => Stutter
    BY DEF FwdPasses, Stutter, vars
  <1> QED
    BY <1>1 DEF Next, Controller, Work, ReaderStep, Operation, Threads, Working, Reading

(* What the forwarding thread makes of an event.                            *)
LEMMA Forwarded ==
  ASSUME Forward
  PROVE  /\ hci_rx # <<>> /\ hci_rx' = Tail(hci_rx) /\ MayRun("fwd")
         /\ UNCHANGED <<flagVars, wq, stream, reader, given, controller, capturing,
                        stopped, silent, lateReset, boundVars>>
         /\ \/ NoteAnswer(Head(hci_rx))
            \/ NoteSync(Head(hci_rx))
            \/ NoteBig(Head(hci_rx))
            \/ NotePeriodic(Head(hci_rx))
            \/ NoteBigInfo(Head(hci_rx))
            \/ /\ ~running /\ Head(hci_rx).kind # "answer"
               /\ UNCHANGED <<syncVars, bigVars, queue, cmdVars, joined>>
  BY DEF Forward

(* The controller, and a step of nobody, leave the threads alone.           *)
LEMMA ControllerFrame ==
  ASSUME Obeys \/ Refuses \/ Announces \/ TrainChanges \/ BigChanges \/ Stutter
  PROVE  UNCHANGED <<running, periodic_enabled, sync_count, sync_q, big_synced,
                     big_pending, big_wait, bis_count, queue, wq, stream, reader,
                     cmd_lock, cmd, pending, capturing, stopped, joined, silent, lateReset>>
  BY DEF Obeys, Refuses, Announces, TrainChanges, Train, BigChanges, Big, Reports,
     Stutter, allButThrough,
     flagVars, syncVars, bigVars, wqVars, cmdVars, ctlVars, histVars

(* What is sent or given up on changes no thread's place.                   *)
LEMMA CommandFrame ==
  ASSUME NEW t \in Threads, Sends(t) \/ TimesOut(t)
  PROVE  UNCHANGED <<running, periodic_enabled, sync_count, sync_q, big_synced,
                     big_pending, big_wait, bis_count, queue, wq, stream, reader,
                     hci_rx, controller, capturing, stopped, joined>>
  BY DEF Sends, TimesOut, flagVars, syncVars, bigVars, wqVars, ctlVars

(* Nor the passing of time.                                                 *)
LEMMA RetryFrame ==
  ASSUME RetryDue
  PROVE  UNCHANGED <<running, periodic_enabled, sync_count, sync_q, big_synced,
                     big_pending, bis_count, queue, wq, stream, reader,
                     cmd_lock, cmd, pending, given, hci_rx, controller,
                     capturing, stopped, joined, silent, lateReset>>
  BY DEF RetryDue, flagVars, syncVars, wqVars, cmdVars, ctlVars, histVars

(* The work queue gives no command without the lock, and is not the reader. *)
LEMMA WorkFrame ==
  ASSUME Working
  PROVE  UNCHANGED <<running, periodic_enabled, reader, given, hci_rx, controller,
                     capturing, stopped, joined, silent, lateReset>>
  BY DEF Working, WqBegins, SyncWork, SyncWorkOn, BigWork, BigWorkOn, IsoWork, IsoWorkOn,
     WqRest, flagVars, ctlVars, histVars

(* Nor the reader.                                                          *)
LEMMA ReaderFrame ==
  ASSUME Reading
  PROVE  UNCHANGED <<big_pending, queue, wq, stream, given, hci_rx, controller, silent,
                     lateReset>>
  BY DEF Reading, StartGoesOn, StartFails, ScanStarted, StopGoesOn, StopEnds, StartBegins,
     StopBegins, SetPeriodic, ReaderRest, bigVars, wqVars, ctlVars, histVars

(* Who gets the lock.                                                       *)
LEMMA Unlocked ==
  ASSUME NEW t \in Threads, NEW u \in Threads, t # u, NEW then, Unlocks(t, then)
  PROVE  cmd_lock' = IF cmd[u].at = "lock" THEN u ELSE "none"
  <1>1. Threads \ {t} = {u}
    BY DEF Threads
  <1>2. cmd[u].at = "lock" => (CHOOSE v \in {u} : cmd[v].at = "lock") = u
    OBVIOUS
  <1> QED
    BY <1>1, <1>2 DEF Unlocks

(* The variables have their types at first.                                 *)
LEMMA TypedInit == Init => Typed
  <1> SUFFICES ASSUME Init PROVE Typed
    OBVIOUS
  <1>1. Bools /\ HistoryTyped
    BY DEF Init, Bools, HistoryTyped
  <1>2. Counts
    BY FollowAssumption DEF Init, Counts
  <1>3. Places /\ QueuesTyped
    BY FollowAssumption DEF Init, Places, QueuesTyped
  <1>4. CmdTyped /\ WorkFits
    BY DEF Init, CmdTyped, NoCommand, Threads, WorkFits
  <1>5. ControllerTyped
    BY DEF Init, ControllerTyped, Reset, States
  <1> QED
    BY <1>1, <1>2, <1>3, <1>4, <1>5 DEF Typed

(* The flags stay flags.                                                    *)
LEMMA BoolsNext == Typed /\ [Next]_vars => Bools' /\ HistoryTyped'
  <1> SUFFICES ASSUME Typed, [Next]_vars PROVE Bools' /\ HistoryTyped'
    OBVIOUS
  <1> USE DEF Typed, Bools, HistoryTyped, flagVars, bigVars, histVars
  <1>1. CASE Obeys \/ Refuses \/ Announces \/ TrainChanges \/ BigChanges \/ Stutter
    BY <1>1, ControllerFrame
  <1>2. ASSUME NEW t \in Threads, Sends(t) \/ TimesOut(t) PROVE Bools' /\ HistoryTyped'
    <2>1. silent' \in BOOLEAN /\ lateReset' \in BOOLEAN
      BY <1>2 DEF Sends, TimesOut
    <2> QED
      BY <1>2, <2>1, CommandFrame
  <1>3. CASE RetryDue
    <2>1. big_wait' = FALSE
      BY <1>3 DEF RetryDue
    <2> QED
      BY <1>3, <2>1, RetryFrame
  <1>4. CASE Forward
    <2> DEFINE e == Head(hci_rx)
    <2> HIDE DEF e
    <2>1. /\ UNCHANGED <<running, periodic_enabled, capturing, stopped, silent, lateReset>>
          /\ \/ NoteAnswer(e) \/ NoteSync(e) \/ NoteBig(e) \/ NotePeriodic(e) \/ NoteBigInfo(e)
             \/ UNCHANGED <<big_synced, big_pending, big_wait, joined>>
      BY <1>4, Forwarded DEF e
    <2>2. Bools'
      BY <2>1 DEF NoteAnswer, NoteSync, NoteBig, NotePeriodic, NoteBigInfo
    <2>3. HistoryTyped'
      BY <2>1 DEF NoteAnswer, NoteSync, NoteBig, NotePeriodic, NoteBigInfo
    <2> QED
      BY <2>2, <2>3
  <1>5. CASE Working
    <2>1. big_synced' \in BOOLEAN /\ big_pending' \in BOOLEAN /\ big_wait' \in BOOLEAN
      BY <1>5 DEF Working, WqBegins, SyncWork, SyncWorkOn, BigWork, BigWorkOn, IsoWork,
         IsoWorkOn, BigOver
    <2> QED
      BY <1>5, <2>1, WorkFrame
  <1>6. CASE Reading
    <2>1. /\ running' \in BOOLEAN /\ periodic_enabled' \in BOOLEAN
          /\ big_synced' \in BOOLEAN /\ big_wait' \in BOOLEAN
      BY <1>6 DEF Reading, StartGoesOn, StartFails, ScanStarted, StopGoesOn, StopEnds,
         StartBegins, StopBegins, SetPeriodic, ReaderRest
    <2>2. capturing' \in BOOLEAN /\ stopped' \in BOOLEAN /\ joined' \in BOOLEAN
      BY <1>6 DEF Reading, StartGoesOn, StartFails, ScanStarted, StopGoesOn, StopEnds,
         StartBegins, StopBegins, SetPeriodic, ReaderRest
    <2> QED
      BY <1>6, <2>1, <2>2, ReaderFrame
  <1> QED
    BY Actions, <1>1, <1>2, <1>3, <1>4, <1>5, <1>6

(* The counts stay within their limits.                                     *)
LEMMA CountsNext == Typed /\ [Next]_vars => Counts'
  <1> SUFFICES ASSUME Typed, [Next]_vars PROVE Counts'
    OBVIOUS
  <1> USE DEF Typed, Counts
  <1>0. MaxSyncs \in Nat /\ QueueDepth \in Nat /\ MaxBis \in Nat
    BY FollowAssumption
  <1>1. CASE Obeys \/ Refuses \/ Announces \/ TrainChanges \/ BigChanges \/ Stutter
    BY <1>1, ControllerFrame
  <1>2. ASSUME NEW t \in Threads, Sends(t) \/ TimesOut(t) PROVE Counts'
    BY <1>2, CommandFrame
  <1>3. CASE RetryDue
    BY <1>3, RetryFrame
  <1>4. CASE Forward
    <2> DEFINE e == Head(hci_rx)
    <2> HIDE DEF e
    <2>1. \/ NoteAnswer(e) \/ NoteSync(e) \/ NoteBig(e) \/ NotePeriodic(e) \/ NoteBigInfo(e)
          \/ UNCHANGED <<sync_count, sync_q, bis_count>>
      BY <1>4, Forwarded DEF e, syncVars, bigVars
    <2>2. sync_count' = sync_count \/ FreeSlot
      BY <2>1 DEF NoteAnswer, NoteSync, NoteBig, NotePeriodic, NoteBigInfo, syncVars
    <2>3. sync_q' = sync_q \/ (sync_q' = sync_q + 1 /\ sync_q < QueueDepth)
      BY <2>1 DEF NoteAnswer, NoteSync, NoteBig, NotePeriodic, NoteBigInfo, Room, syncVars
    <2>4. bis_count' \in {bis_count, MaxBis}
      BY <2>1 DEF NoteAnswer, NoteSync, NoteBig, NotePeriodic, NoteBigInfo, Kept, bigVars
    <2>5. sync_count' \in 0 .. MaxSyncs
      BY <1>0, <2>2 DEF FreeSlot
    <2>6. sync_q' \in 0 .. QueueDepth
      BY <1>0, <2>3
    <2> QED
      BY <1>0, <2>4, <2>5, <2>6
  <1>5. CASE Working
    <2>1. sync_count' \in 0 .. MaxSyncs
      BY <1>0, <1>5 DEF Working, WqBegins, SyncWork, SyncWorkOn, BigWork, BigWorkOn, IsoWork,
         IsoWorkOn, WorkFits, Returned, syncVars
    <2>2. sync_q' \in 0 .. QueueDepth
      BY <1>0, <1>5 DEF Working, WqBegins, SyncWork, SyncWorkOn, BigWork, BigWorkOn, IsoWork,
         IsoWorkOn, syncVars
    <2>3. bis_count' = bis_count
      BY <1>5 DEF Working, WqBegins, SyncWork, SyncWorkOn, BigWork, BigWorkOn, IsoWork,
         IsoWorkOn, bigVars
    <2> QED
      BY <2>1, <2>2, <2>3
  <1>6. CASE Reading
    <2>1. sync_count' \in {sync_count, 0} /\ sync_q' \in {sync_q, 0}
               /\ bis_count' \in {bis_count, 0}
      BY <1>6 DEF Reading, StartGoesOn, StartFails, ScanStarted, StopGoesOn, StopEnds,
         StartBegins, StopBegins, SetPeriodic, ReaderRest, ForgetStreams, syncVars, bigVars
    <2> QED
      BY <1>0, <2>1
  <1> QED
    BY Actions, <1>1, <1>2, <1>3, <1>4, <1>5, <1>6

(* A command sent, or not.                                                  *)
LEMMA Sent ==
  ASSUME Typed, NEW t \in Threads, Sends(t)
  PROVE  /\ CmdTyped'
         /\ cmd[t].at = "lock" /\ cmd_lock \in {"none", t} /\ MayRun(t) /\ cmd_lock' = t
         /\ \A u \in Threads \ {t} : cmd'[u] = cmd[u]
         /\ UNCHANGED lateReset
         /\ \/ /\ cmd'[t] = [at |-> "wait", op |-> cmd[t].op]
               /\ pending' = cmd[t].op /\ given' = Append(given, cmd[t].op)
               /\ UNCHANGED silent
            \/ /\ cmd'[t] = [at |-> "failed", op |-> cmd[t].op]
               /\ silent' = TRUE /\ UNCHANGED <<pending, given>>
  <1>1. /\ cmd[t].at = "lock" /\ cmd_lock \in {"none", t} /\ MayRun(t) /\ cmd_lock' = t
        /\ UNCHANGED lateReset
        /\ \/ /\ cmd' = [cmd EXCEPT ![t].at = "wait"]
              /\ pending' = cmd[t].op /\ given' = Append(given, cmd[t].op)
              /\ UNCHANGED silent
           \/ /\ cmd' = [cmd EXCEPT ![t].at = "failed"]
              /\ silent' = TRUE /\ UNCHANGED <<pending, given>>
    BY DEF Sends
  <1> QED
    BY <1>1 DEF Typed, CmdTyped

(* A command given up on.                                                   *)
LEMMA TimedOut ==
  ASSUME Typed, NEW t \in Threads, TimesOut(t)
  PROVE  /\ CmdTyped'
         /\ cmd[t].at = "wait" /\ cmd'[t] = [at |-> "failed", op |-> cmd[t].op]
         /\ \A u \in Threads \ {t} : cmd'[u] = cmd[u]
         /\ silent' = TRUE /\ lateReset' = (lateReset \/ cmd[t].op = "reset")
         /\ UNCHANGED <<cmd_lock, pending, given>>
  <1>1. /\ cmd[t].at = "wait" /\ cmd' = [cmd EXCEPT ![t].at = "failed"]
        /\ silent' = TRUE /\ lateReset' = (lateReset \/ cmd[t].op = "reset")
        /\ UNCHANGED <<cmd_lock, pending, given>>
    BY DEF TimesOut, ctlVars
  <1> QED
    BY <1>1 DEF Typed, CmdTyped

(* A command begun.                                                         *)
LEMMA Begun ==
  ASSUME Typed, NEW t \in Threads, NEW op \in Ops, Begins(t, op), UNCHANGED pending
  PROVE  /\ CmdTyped'
         /\ cmd'[t] = [at |-> "lock", op |-> op]
         /\ \A u \in Threads \ {t} : cmd'[u] = cmd[u]
  BY DEF Typed, CmdTyped, Begins, Call

(* A command over: another may follow it.                                   *)
LEMMA Over ==
  ASSUME Typed, NEW t \in Threads, NEW then, Unlocks(t, then),
         then = NoCommand \/ \E op \in Ops : then = Call(op)
  PROVE  /\ CmdTyped'
         /\ cmd'[t] = then /\ pending' = "none"
         /\ \A u \in Threads \ {t} : cmd'[u] = cmd[u]
  <1>1. cmd' = [cmd EXCEPT ![t] = then] /\ pending' = "none"
    BY DEF Unlocks
  <1>2. then \in [at : {"idle", "lock", "wait", "accepted", "failed"}, op : Ops \cup {"none"}]
    BY DEF NoCommand, Call
  <1> QED
    BY <1>1, <1>2 DEF Typed, CmdTyped

(* An answer noted: it is for whoever waits, if it is for what is pending.  *)
LEMMA Noted ==
  ASSUME Typed, NEW e \in Events, NoteAnswer(e)
  PROVE  /\ CmdTyped'
         /\ e.kind = "answer"
         /\ UNCHANGED <<sync_count, sync_q, big_synced, big_pending, big_wait, bis_count,
                        queue, cmd_lock, joined>>
         /\ e.op = pending =>
              /\ pending' = "none"
              /\ \A t \in Threads :
                   cmd'[t] = IF cmd[t].at = "wait"
                             THEN [at |-> IF e.ok THEN "accepted" ELSE "failed",
                                   op |-> cmd[t].op]
                             ELSE cmd[t]
         /\ e.op # pending => UNCHANGED <<pending, cmd>>
  <1>1. /\ e.kind = "answer"
        /\ UNCHANGED <<sync_count, sync_q, big_synced, big_pending, big_wait, bis_count,
                        queue, cmd_lock, joined>>
    BY DEF NoteAnswer, syncVars, bigVars
  <1>2. CASE e.op = pending
    <2>1. /\ pending' = "none"
          /\ cmd' = [t \in Threads |->
                       IF cmd[t].at = "wait"
                       THEN [cmd[t] EXCEPT !.at = IF e.ok THEN "accepted" ELSE "failed"]
                       ELSE cmd[t]]
      BY <1>2 DEF NoteAnswer
    <2>2. ASSUME NEW t \in Threads
          PROVE  [cmd[t] EXCEPT !.at = IF e.ok THEN "accepted" ELSE "failed"]
                   = [at |-> IF e.ok THEN "accepted" ELSE "failed", op |-> cmd[t].op]
      BY DEF Typed, CmdTyped
    <2>3. CmdTyped'
      BY <2>1, <2>2 DEF Typed, CmdTyped
    <2> QED
      BY <1>1, <1>2, <2>1, <2>2, <2>3
  <1>3. CASE e.op # pending
    <2>1. UNCHANGED <<pending, cmd>>
      BY <1>3 DEF NoteAnswer
    <2> QED
      BY <1>1, <1>3, <2>1 DEF Typed, CmdTyped
  <1> QED
    BY <1>2, <1>3

(* The other events change no command.                                      *)
LEMMA NotAnswered ==
  ASSUME NEW e, NoteSync(e) \/ NoteBig(e) \/ NotePeriodic(e) \/ NoteBigInfo(e)
  PROVE  /\ e.kind # "answer" /\ UNCHANGED <<cmd_lock, cmd, pending>>
         /\ \/ e.kind \in {"sync_made", "sync_failed", "sync_lost", "announce", "biginfo"}
               /\ UNCHANGED <<big_synced, bis_count, joined>>
            \/ e.kind \in {"big_made", "big_failed", "big_lost"} /\ NoteBig(e)
  BY DEF NoteSync, NoteBig, NotePeriodic, NoteBigInfo, cmdVars, bigVars

(* The first of the events.                                                 *)
LEMMA FirstEvent ==
  ASSUME Typed, hci_rx # <<>>
  PROVE  /\ Head(hci_rx) \in Events /\ Head(hci_rx) = hci_rx[1]
         /\ Len(hci_rx) \in Nat /\ 1 \in 1 .. Len(hci_rx)
         /\ Len(Tail(hci_rx)) = Len(hci_rx) - 1 /\ Tail(hci_rx) \in Seq(Events)
         /\ \A i \in 1 .. Len(Tail(hci_rx)) :
              i + 1 \in 1 .. Len(hci_rx) /\ Tail(hci_rx)[i] = hci_rx[i + 1]
  <1>1. hci_rx \in Seq(Events)
    BY DEF Typed, QueuesTyped
  <1> QED
    BY <1>1

(* What work steps do to commands.                                          *)
LEMMA WorkCommands ==
  ASSUME Typed, Working
  PROVE  /\ CmdTyped'
         /\ cmd'["reader"] = cmd["reader"]
         /\ \/ WqBegins /\ UNCHANGED <<cmd, cmd_lock, pending>>
            \/ /\ (SyncWork \/ BigWork \/ IsoWork) /\ cmd["wq"].at = "idle"
               /\ UNCHANGED <<cmd_lock, pending>>
               /\ \/ UNCHANGED cmd
                  \/ /\ UNCHANGED wq /\ running
                     /\ \/ SyncWork /\ cmd'["wq"] = Call("sync")
                        \/ BigWork /\ cmd'["wq"] = Call("big")
                        \/ IsoWork /\ cmd'["wq"] = Call("path")
            \/ /\ (SyncWorkOn \/ BigWorkOn \/ IsoWorkOn) /\ Returned("wq")
               /\ cmd'["wq"] = NoCommand /\ pending' = "none"
               /\ cmd_lock' = IF cmd["reader"].at = "lock" THEN "reader" ELSE "none"
  <1>t. "wq" \in Threads /\ "reader" \in Threads \ {"wq"}
    BY DEF Threads
  <1>1. CASE WqBegins
    BY <1>1 DEF WqBegins, cmdVars, Typed, CmdTyped
  <1>2. CASE SyncWork
    <2>1. UNCHANGED cmd \/ (Begins("wq", "sync") /\ running /\ UNCHANGED wq)
      BY <1>2 DEF SyncWork, Wanted, wqVars
    <2>2. cmd["wq"].at = "idle" /\ UNCHANGED <<cmd_lock, pending>>
      BY <1>2 DEF SyncWork
    <2>3. "sync" \in Ops
      BY DEF Ops
    <2> QED
      BY <1>2, <1>t, <2>1, <2>2, <2>3, Begun DEF Typed, CmdTyped, Call
  <1>3. CASE BigWork
    <2>1. UNCHANGED cmd \/ (Begins("wq", "big") /\ running /\ UNCHANGED wq)
      BY <1>3 DEF BigWork, wqVars
    <2>2. cmd["wq"].at = "idle" /\ UNCHANGED <<cmd_lock, pending>>
      BY <1>3 DEF BigWork
    <2>3. "big" \in Ops
      BY DEF Ops
    <2> QED
      BY <1>3, <1>t, <2>1, <2>2, <2>3, Begun DEF Typed, CmdTyped, Call
  <1>4. CASE IsoWork
    <2>1. UNCHANGED cmd \/ (Begins("wq", "path") /\ running /\ UNCHANGED wq)
      BY <1>4 DEF IsoWork, wqVars
    <2>2. cmd["wq"].at = "idle" /\ UNCHANGED <<cmd_lock, pending>>
      BY <1>4 DEF IsoWork
    <2>3. "path" \in Ops
      BY DEF Ops
    <2> QED
      BY <1>4, <1>t, <2>1, <2>2, <2>3, Begun DEF Typed, CmdTyped, Call
  <1>5. CASE SyncWorkOn \/ BigWorkOn \/ IsoWorkOn
    <2>1. Unlocks("wq", NoCommand) /\ Returned("wq")
      BY <1>5 DEF SyncWorkOn, BigWorkOn, IsoWorkOn
    <2> QED
      BY <1>5, <1>t, <2>1, Over, Unlocked
  <1> QED
    BY <1>1, <1>2, <1>3, <1>4, <1>5 DEF Working

(* What the reader's steps do to commands.                                  *)
LEMMA ReaderCommands ==
  ASSUME Typed, Reading
  PROVE  /\ CmdTyped'
         /\ cmd'["wq"] = cmd["wq"] /\ MayRun("reader")
         /\ \/ /\ ScanStarted \/ StopBegins \/ SetPeriodic
               /\ UNCHANGED <<cmd_lock, cmd, pending>>
            \/ /\ StartBegins \/ StopGoesOn
               /\ cmd'["reader"] = Call("reset") /\ UNCHANGED <<cmd_lock, pending>>
            \/ /\ StartGoesOn \/ StartFails \/ StopEnds
               /\ Returned("reader") /\ pending' = "none"
               /\ cmd_lock' = IF cmd["wq"].at = "lock" THEN "wq" ELSE "none"
               /\ \/ cmd'["reader"] = NoCommand /\ reader' \in {"idle", "started"}
                  \/ /\ StartGoesOn /\ reader' = "start"
                     /\ cmd'["reader"] \in {Call("config"), Call("enable")}
  <1>t. "reader" \in Threads /\ "wq" \in Threads \ {"reader"}
    BY DEF Threads
  <1>o. "reset" \in Ops /\ "config" \in Ops /\ "enable" \in Ops
    BY DEF Ops
  <1>1. CASE ScanStarted \/ StopBegins \/ SetPeriodic
    BY <1>1 DEF ScanStarted, StopBegins, SetPeriodic, cmdVars, Typed, CmdTyped
  <1>2. CASE StartBegins \/ StopGoesOn
    <2>1. Begins("reader", "reset") /\ UNCHANGED <<cmd_lock, pending>> /\ MayRun("reader")
      BY <1>2 DEF StartBegins, StopGoesOn
    <2> QED
      BY <1>2, <1>t, <1>o, <2>1, Begun DEF Call
  <1>3. CASE StartGoesOn
    <2>1. /\ Returned("reader") /\ MayRun("reader")
          /\ \/ Unlocks("reader", NoCommand) /\ reader' = "started"
             \/ Unlocks("reader", Call("config")) /\ reader' = "start"
             \/ Unlocks("reader", Call("enable")) /\ reader' = "start"
      BY <1>3 DEF StartGoesOn, Returned, After
    <2>2. ASSUME Unlocks("reader", NoCommand)
          PROVE  /\ CmdTyped' /\ cmd'["wq"] = cmd["wq"] /\ cmd'["reader"] = NoCommand
                 /\ pending' = "none"
                 /\ cmd_lock' = IF cmd["wq"].at = "lock" THEN "wq" ELSE "none"
      BY <1>t, <2>2, Over, Unlocked
    <2>3. ASSUME NEW op \in {"config", "enable"}, Unlocks("reader", Call(op))
          PROVE  /\ CmdTyped' /\ cmd'["wq"] = cmd["wq"] /\ cmd'["reader"] = Call(op)
                 /\ pending' = "none"
                 /\ cmd_lock' = IF cmd["wq"].at = "lock" THEN "wq" ELSE "none"
      <3>1. \E o \in Ops : Call(op) = Call(o)
        BY <1>o, <2>3
      <3> QED
        BY <1>t, <2>3, <3>1, Over, Unlocked
    <2> QED
      BY <1>3, <2>1, <2>2, <2>3
  <1>4. CASE StartFails \/ StopEnds
    <2>1. Unlocks("reader", NoCommand) /\ Returned("reader") /\ reader' = "idle"
               /\ MayRun("reader")
      BY <1>4 DEF StartFails, StopEnds, Returned
    <2> QED
      BY <1>4, <1>t, <2>1, Over, Unlocked
  <1> QED
    BY <1>1, <1>2, <1>3, <1>4 DEF Reading

(* A thread that is in a command has one to give.                           *)
LEMMA InCommand ==
  ASSUME Typed, CallInv, NEW t \in Threads, cmd[t].at # "idle"
  PROVE  /\ cmd[t].op \in Ops
         /\ t = "wq" => wq \in {"sync", "big", "iso"} /\ cmd[t].op = WorkOp
         /\ t = "reader" => /\ reader \in {"start", "stop"}
                            /\ cmd[t].op \in {"reset", "config", "enable"}
                            /\ reader = "stop" => cmd[t].op = "reset"
  <1>1. CASE t = "wq"
    <2>1. wq # "idle" /\ cmd["wq"].op = WorkOp
      BY <1>1 DEF CallInv, NoCommand
    <2> QED
      BY <1>1, <2>1 DEF Typed, Places, WorkOp, Ops
  <1>2. CASE t = "reader"
    <2>1. /\ reader \in {"start", "stop"} /\ cmd["reader"].op \in {"reset", "config", "enable"}
          /\ reader = "stop" => cmd["reader"].op = "reset"
      BY <1>2 DEF CallInv, NoCommand
    <2> QED
      BY <1>2, <2>1 DEF Ops
  <1> QED
    BY <1>1, <1>2 DEF Threads

(* The lock and the commands have their types.                              *)
LEMMA CmdNext == Typed /\ [Next]_vars => CmdTyped' /\ cmd_lock' \in Threads \cup {"none"}
  <1> SUFFICES ASSUME Typed, [Next]_vars
               PROVE  CmdTyped' /\ cmd_lock' \in Threads \cup {"none"}
    OBVIOUS
  <1>0. CmdTyped /\ cmd_lock \in Threads \cup {"none"} /\ "reader" \in Threads
             /\ "wq" \in Threads
    BY DEF Typed, Places, Threads
  <1>1. CASE Obeys \/ Refuses \/ Announces \/ TrainChanges \/ BigChanges \/ Stutter
    BY <1>0, <1>1, ControllerFrame DEF CmdTyped
  <1>2. ASSUME NEW t \in Threads, Sends(t) \/ TimesOut(t)
        PROVE  CmdTyped' /\ cmd_lock' \in Threads \cup {"none"}
    BY <1>0, <1>2, Sent, TimedOut
  <1>3. CASE RetryDue
    BY <1>0, <1>3, RetryFrame DEF CmdTyped
  <1>4. CASE Forward
    <2> DEFINE e == Head(hci_rx)
    <2> HIDE DEF e
    <2>1. e \in Events
      BY <1>4, Forwarded, FirstEvent DEF e
    <2>2. NoteAnswer(e) \/ UNCHANGED <<cmd_lock, cmd, pending>>
      BY <1>4, Forwarded, NotAnswered DEF e, cmdVars
    <2> QED
      BY <1>0, <2>1, <2>2, Noted DEF CmdTyped
  <1>5. CASE Working
    BY <1>0, <1>5, WorkCommands
  <1>6. CASE Reading
    BY <1>0, <1>6, ReaderCommands
  <1> QED
    BY Actions, <1>1, <1>2, <1>3, <1>4, <1>5, <1>6

(* Everybody is somewhere.                                                  *)
LEMMA PlacesNext == Typed /\ CallInv /\ [Next]_vars => Places'
  <1> SUFFICES ASSUME Typed, CallInv, [Next]_vars
               PROVE  wq' \in {"idle", "sync", "big", "iso"} /\ stream' \in 0 .. MaxBis
                      /\ reader' \in {"idle", "start", "started", "stop"}
    BY CmdNext DEF Places
  <1>0. /\ wq \in {"idle", "sync", "big", "iso"} /\ stream \in 0 .. MaxBis
        /\ reader \in {"idle", "start", "started", "stop"}
        /\ MaxBis \in Nat /\ "reader" \in Threads /\ "wq" \in Threads
    BY FollowAssumption DEF Typed, Places, Threads
  <1>1. CASE Obeys \/ Refuses \/ Announces \/ TrainChanges \/ BigChanges \/ Stutter
    BY <1>0, <1>1, ControllerFrame
  <1>2. ASSUME NEW t \in Threads, Sends(t) \/ TimesOut(t)
        PROVE  UNCHANGED <<wq, stream, reader>>
    BY <1>0, <1>2, CommandFrame
  <1>3. CASE RetryDue
    BY <1>0, <1>3, RetryFrame
  <1>4. CASE Forward
    BY <1>0, <1>4, Forwarded
  <1>5. CASE Working
    <2>1. queue # <<>> => Head(queue) \in {"sync", "big", "iso"}
      BY DEF Typed, QueuesTyped
    <2>2. IsoWorkOn => stream < MaxBis
      BY <1>0 DEF IsoWorkOn, Returned, Typed, WorkFits
    <2>3. wq' \in {wq, "idle", Head(queue)} /\ (wq' = Head(queue) => wq' = wq
               \/ wq' = "idle" \/ queue # <<>>)
      BY <1>5 DEF Working, WqBegins, SyncWork, SyncWorkOn, BigWork, BigWorkOn, IsoWork,
         IsoWorkOn, WqEnds, wqVars
    <2>4. stream' \in {stream, 0} \/ (IsoWorkOn /\ stream' = stream + 1)
      BY <1>5 DEF Working, WqBegins, SyncWork, SyncWorkOn, BigWork, BigWorkOn, IsoWork,
         IsoWorkOn, WqEnds, wqVars
    <2>5. wq' \in {"idle", "sync", "big", "iso"}
      BY <1>0, <2>1, <2>3
    <2>6. stream' \in 0 .. MaxBis
      BY <1>0, <2>2, <2>4
    <2> QED
      BY <1>0, <1>5, <2>5, <2>6, WorkFrame
  <1>6. CASE Reading
    <2>1. reader' \in {reader, "start", "started", "idle", "stop"}
      BY <1>6 DEF Reading, StartGoesOn, StartFails, ScanStarted, StopGoesOn, StopEnds,
         StartBegins, StopBegins, SetPeriodic
    <2> QED
      BY <1>0, <1>6, <2>1, ReaderFrame
  <1> QED
    BY Actions, <1>0, <1>1, <1>2, <1>3, <1>4, <1>5, <1>6

(* A work item submitted.                                                   *)
LEMMA Submitted ==
  ASSUME Typed, NEW item \in {"sync", "big", "iso"}, Submit(item)
  PROVE  /\ queue' \in Seq({"sync", "big", "iso"})
         /\ item \in ToSet(queue') /\ ToSet(queue) \subseteq ToSet(queue')
  <1>1. queue \in Seq({"sync", "big", "iso"})
    BY DEF Typed, QueuesTyped
  <1>2. CASE item \in ToSet(queue)
    BY <1>1, <1>2 DEF Submit
  <1>3. CASE item \notin ToSet(queue)
    <2>1. queue' = Append(queue, item)
      BY <1>3 DEF Submit
    <2>2. /\ queue' \in Seq({"sync", "big", "iso"}) /\ Len(queue') = Len(queue) + 1
          /\ queue'[Len(queue) + 1] = item /\ \A i \in 1 .. Len(queue) : queue'[i] = queue[i]
      BY <1>1, <2>1
    <2>3. ToSet(queue) \subseteq ToSet(queue')
      BY <1>1, <2>2 DEF ToSet
    <2>4. item \in ToSet(queue')
      BY <1>1, <2>2 DEF ToSet
    <2> QED
      BY <2>2, <2>3, <2>4
  <1> QED
    BY <1>2, <1>3

(* What is queued is what there is.                                         *)
LEMMA QueuesNext == Typed /\ CallInv /\ [Next]_vars => QueuesTyped'
  <1> SUFFICES ASSUME Typed, CallInv, [Next]_vars PROVE QueuesTyped'
    OBVIOUS
  <1>0. queue \in Seq({"sync", "big", "iso"}) /\ given \in Seq(Ops) /\ hci_rx \in Seq(Events)
    BY DEF Typed, QueuesTyped
  <1>g. given # <<>> => Head(given) \in Ops /\ Tail(given) \in Seq(Ops)
    BY <1>0
  <1>1. CASE Obeys \/ Refuses
    <2>1. /\ given' = Tail(given) /\ given # <<>>
          /\ \E b \in BOOLEAN :
               hci_rx' = Append(hci_rx, [kind |-> "answer", op |-> Head(given), ok |-> b])
      BY <1>1 DEF Obeys, Refuses
    <2>2. \A b \in BOOLEAN : [kind |-> "answer", op |-> Head(given), ok |-> b] \in Events
      BY <1>g, <2>1 DEF Events, Kinds
    <2> QED
      BY <1>0, <1>1, <1>g, <2>1, <2>2, ControllerFrame DEF QueuesTyped
  <1>2. CASE Announces \/ TrainChanges \/ BigChanges
    <2>1. UNCHANGED given /\ \E k \in Kinds : hci_rx' = Append(hci_rx, Event(k))
      BY <1>2 DEF Announces, TrainChanges, BigChanges, Train, Big, Reports, Kinds
    <2>2. \A k \in Kinds : Event(k) \in Events
      BY DEF Event, Events
    <2> QED
      BY <1>0, <1>2, <2>1, <2>2, ControllerFrame DEF QueuesTyped
  <1>3. CASE Stutter \/ RetryDue
    <2>1. UNCHANGED <<queue, given, hci_rx>>
      BY <1>3, RetryFrame DEF Stutter, allButThrough, wqVars, ctlVars
    <2> QED
      BY <1>0, <2>1 DEF QueuesTyped
  <1>4. ASSUME NEW t \in Threads, Sends(t) \/ TimesOut(t) PROVE QueuesTyped'
    <2>1. given' = given \/ (given' = Append(given, cmd[t].op) /\ cmd[t].at = "lock")
      BY <1>4, Sent, TimedOut
    <2>2. cmd[t].at = "lock" => cmd[t].op \in Ops
      BY InCommand
    <2> QED
      BY <1>0, <1>4, <2>1, <2>2, CommandFrame DEF QueuesTyped
  <1>5. CASE Forward
    <2> DEFINE e == Head(hci_rx)
    <2> HIDE DEF e
    <2>1. UNCHANGED given /\ hci_rx' \in Seq(Events)
      BY <1>5, Forwarded, FirstEvent
    <2>2. \/ NoteAnswer(e) \/ NoteSync(e) \/ NoteBig(e) \/ NotePeriodic(e) \/ NoteBigInfo(e)
          \/ UNCHANGED queue
      BY <1>5, Forwarded DEF e
    <2>3. UNCHANGED queue \/ Submit("sync") \/ Submit("big") \/ Submit("iso")
      BY <2>2 DEF NoteAnswer, NoteSync, NoteBig, NotePeriodic, NoteBigInfo
    <2>4. queue' \in Seq({"sync", "big", "iso"})
      BY <1>0, <2>3, Submitted
    <2> QED
      BY <1>0, <2>1, <2>4 DEF QueuesTyped
  <1>6. CASE Working
    <2>1. queue' = queue \/ (queue' = Tail(queue) /\ queue # <<>>)
      BY <1>6 DEF Working, WqBegins, SyncWork, SyncWorkOn, BigWork, BigWorkOn, IsoWork,
         IsoWorkOn, WqEnds, wqVars
    <2>2. queue' \in Seq({"sync", "big", "iso"})
      BY <1>0, <2>1
    <2>3. UNCHANGED <<given, hci_rx>>
      BY <1>6, WorkFrame
    <2> QED
      BY <1>0, <2>2, <2>3 DEF QueuesTyped
  <1>7. CASE Reading
    BY <1>0, <1>7, ReaderFrame DEF QueuesTyped
  <1> QED
    BY Actions, <1>1, <1>2, <1>3, <1>4, <1>5, <1>6, <1>7

(* The controller has its type.                                             *)
LEMMA ControllerNext == Typed /\ [Next]_vars => ControllerTyped'
  <1> SUFFICES ASSUME Typed, [Next]_vars PROVE ControllerTyped'
    OBVIOUS
  <1>0. ControllerTyped /\ stream \in 0 .. MaxBis /\ given \in Seq(Ops)
    BY DEF Typed, Places, QueuesTyped
  <1>1. CASE Obeys
    <2>1. controller' = Obeyed(Head(given)) /\ Head(given) \in Ops
      BY <1>0, <1>1 DEF Obeys
    <2>2. Reset \in [scanning : BOOLEAN, train : States, big : States,
                     paths : SUBSET (0 .. MaxBis), denied : SUBSET (0 .. MaxBis)]
      BY DEF Reset, States
    <2>3. controller.paths \cup {stream} \subseteq 0 .. MaxBis
      BY <1>0 DEF ControllerTyped
    <2> DEFINE op == Head(given)
    <2> HIDE DEF op
    <2>4. /\ op = "reset"  => Obeyed(op) = Reset
          /\ op = "enable" => Obeyed(op) = [controller EXCEPT !.scanning = TRUE]
          /\ op = "sync"   => Obeyed(op) = [controller EXCEPT !.train = "pending"]
          /\ op = "big"    => Obeyed(op) = [controller EXCEPT !.big = "pending",
                                                             !.paths = {}, !.denied = {}]
          /\ op = "path"   => Obeyed(op) = [controller EXCEPT !.paths = @ \cup {stream}]
          /\ op = "config" => Obeyed(op) = controller
      BY DEF Obeyed
    <2>5. op \in Ops /\ controller' = Obeyed(op)
      BY <2>1 DEF op
    <2> QED
      BY <1>0, <2>2, <2>3, <2>4, <2>5 DEF ControllerTyped, Ops, States
  <1>2. CASE TrainChanges \/ BigChanges
    <2>1. \E s \in States : \/ controller' = [controller EXCEPT !.train = s]
                            \/ controller' = [controller EXCEPT !.big = s]
      BY <1>2 DEF TrainChanges, BigChanges, Train, Big, States
    <2> QED
      BY <1>0, <2>1 DEF ControllerTyped
  <1>6. CASE Refuses
    <2>1. controller' \in {controller, [controller EXCEPT !.denied = @ \cup {stream}]}
      BY <1>6 DEF Refuses, Denied
    <2> QED
      BY <1>0, <2>1 DEF ControllerTyped
  <1>3. CASE Announces \/ Stutter
    BY <1>0, <1>3 DEF Announces, Stutter, allButThrough, ctlVars, ControllerTyped
  <1>4. ASSUME NEW t \in Threads, Sends(t) \/ TimesOut(t) PROVE UNCHANGED controller
    BY <1>4, CommandFrame
  <1>5. CASE RetryDue \/ Forward \/ Working \/ Reading
    BY <1>0, <1>5, RetryFrame, Forwarded, WorkFrame, ReaderFrame DEF ControllerTyped
  <1> QED
    BY Actions, <1>0, <1>1, <1>2, <1>3, <1>4, <1>5, <1>6 DEF ControllerTyped

(* A command of the work queue still has something to be given for.         *)
LEMMA WorkFitsNext == Typed /\ CallInv /\ [Next]_vars => WorkFits'
  <1> SUFFICES ASSUME Typed, CallInv, [Next]_vars PROVE WorkFits'
    OBVIOUS
  <1>0. /\ sync_count \in Nat /\ sync_count <= MaxSyncs /\ MaxSyncs \in Nat \ {0}
        /\ "reader" \in Threads /\ "wq" \in Threads
        /\ WorkFits
    BY FollowAssumption DEF Typed, Counts, Threads
  <1>1. CASE Obeys \/ Refuses \/ Announces \/ TrainChanges \/ BigChanges \/ Stutter
    BY <1>0, <1>1, ControllerFrame DEF WorkFits
  <1>2. ASSUME NEW t \in Threads, Sends(t) \/ TimesOut(t) PROVE WorkFits'
    <2>1. cmd["wq"].at = "idle" => cmd'["wq"].at = "idle"
      BY <1>0, <1>2, Sent, TimedOut
    <2> QED
      BY <1>0, <1>2, <2>1, CommandFrame DEF WorkFits
  <1>3. CASE RetryDue
    BY <1>0, <1>3, RetryFrame DEF WorkFits
  <1>4. CASE Forward
    <2> DEFINE e == Head(hci_rx)
    <2> HIDE DEF e
    <2>1. e \in Events
      BY <1>4, Forwarded, FirstEvent DEF e
    <2>2. NoteAnswer(e) \/ UNCHANGED <<cmd_lock, cmd, pending>>
      BY <1>4, Forwarded, NotAnswered DEF e, cmdVars
    <2>3. cmd["wq"].at = "idle" => cmd'["wq"].at = "idle"
      BY <1>0, <2>1, <2>2, Noted
    <2>4. \/ NoteAnswer(e) \/ NoteSync(e) \/ NoteBig(e) \/ NotePeriodic(e) \/ NoteBigInfo(e)
          \/ UNCHANGED <<sync_count, sync_q, bis_count>>
      BY <1>4, Forwarded DEF e, syncVars, bigVars
    <2>5. sync_count' = sync_count \/ FreeSlot
      BY <2>4 DEF NoteAnswer, NoteSync, NoteBig, NotePeriodic, NoteBigInfo, syncVars
    <2>6. sync_count < MaxSyncs => sync_count' < MaxSyncs
      BY <1>0, <2>5 DEF FreeSlot
    <2>7. UNCHANGED <<wq, stream>>
      BY <1>4, Forwarded
    <2> QED
      BY <1>0, <2>3, <2>6, <2>7 DEF WorkFits
  <1>5. CASE Working
    <2>1. CASE WqBegins
      <3>1. cmd'["wq"].at = "idle"
        BY <2>1 DEF WqBegins, cmdVars, CallInv, NoCommand
      <3> QED
        BY <3>1 DEF WorkFits
    <2>2. CASE SyncWork \/ BigWork \/ IsoWork
      <3>1. \/ cmd'["wq"].at = "idle"
            \/ SyncWork /\ wq' = "sync" /\ sync_count' = sync_count /\ sync_count < MaxSyncs
            \/ BigWork /\ wq' = "big"
            \/ IsoWork /\ wq' = "iso" /\ stream' = stream /\ stream < MaxBis
        <4>1. CASE SyncWork
          BY <2>2, <4>1 DEF SyncWork, Wanted, wqVars
        <4>2. CASE BigWork
          BY <2>2, <4>2 DEF BigWork, wqVars
        <4>3. CASE IsoWork
          <5>1. (stream < bis_count /\ UNCHANGED <<wq, stream>> /\ wq = "iso")
                     \/ (UNCHANGED cmd /\ cmd["wq"].at = "idle")
            BY <4>3 DEF IsoWork, wqVars
          <5>2. stream < bis_count => stream < MaxBis
            BY FollowAssumption DEF Typed, Counts, Places
          <5> QED
            BY <4>3, <5>1, <5>2
        <4> QED
          BY <2>2, <4>1, <4>2, <4>3
      <3> QED
        BY <3>1 DEF WorkFits
    <2>3. CASE SyncWorkOn \/ BigWorkOn \/ IsoWorkOn
      <3>1. Unlocks("wq", NoCommand)
        BY <2>3 DEF SyncWorkOn, BigWorkOn, IsoWorkOn
      <3>2. cmd'["wq"].at = "idle"
        BY <1>0, <3>1, Over DEF NoCommand
      <3> QED
        BY <3>2 DEF WorkFits
    <2> QED
      BY <1>5, <2>1, <2>2, <2>3 DEF Working
  <1>6. CASE Reading
    <2>1. sync_count' \in {sync_count, 0}
      BY <1>6 DEF Reading, StartGoesOn, StartFails, ScanStarted, StopGoesOn, StopEnds,
         StartBegins, StopBegins, SetPeriodic, syncVars
    <2>2. cmd'["wq"] = cmd["wq"] /\ UNCHANGED <<wq, stream>>
      BY <1>6, ReaderCommands, ReaderFrame
    <2>3. sync_count < MaxSyncs => sync_count' < MaxSyncs
      BY <1>0, <2>1
    <2> QED
      BY <1>0, <2>2, <2>3 DEF WorkFits
  <1> QED
    BY Actions, <1>1, <1>2, <1>3, <1>4, <1>5, <1>6

(* The variables keep their types.                                          *)
LEMMA TypedNext == Typed /\ CallInv /\ [Next]_vars => Typed'
  BY BoolsNext, CountsNext, PlacesNext, CmdNext, QueuesNext, ControllerNext, WorkFitsNext
     DEF Typed

(* Nobody is in a command at first.                                         *)
LEMMA CallInit == Init => CallInv
  BY DEF Init, CallInv, Threads, NoCommand, Holds

(* CallInv, thread by thread.                                               *)
Locked(t) ==
  /\ Holds(t) => cmd_lock = t
  /\ cmd[t].at = "idle" => cmd_lock # t
  /\ cmd[t].at = "wait" => pending = cmd[t].op

WqCall ==
  IF wq = "idle" \/ cmd["wq"].at = "idle"
  THEN cmd["wq"] = NoCommand
  ELSE cmd["wq"].op = WorkOp

ReaderCall ==
  CASE reader = "start" -> /\ cmd["reader"].at # "idle"
                           /\ cmd["reader"].op \in {"reset", "config", "enable"}
    [] reader = "stop"  -> \/ cmd["reader"] = NoCommand
                           \/ cmd["reader"].at # "idle" /\ cmd["reader"].op = "reset"
    [] OTHER            -> cmd["reader"] = NoCommand

(* Who is where in a command, thread by thread.                             *)
LEMMA CallParts == CallInv <=> (\A t \in Threads : Locked(t)) /\ WqCall /\ ReaderCall
  BY DEF CallInv, Locked, WqCall, ReaderCall

(* The lock is held by the one that is in a command, and by it alone.       *)
LEMMA LockedNext ==
  ASSUME Typed, CallInv, [Next]_vars
  PROVE  \A t \in Threads : Locked(t)'
  <1>0. /\ Threads = {"wq", "reader"}
        /\ Locked("wq") /\ Locked("reader")
        /\ cmd["wq"].at \in {"idle", "lock", "wait", "accepted", "failed"}
        /\ cmd["reader"].at \in {"idle", "lock", "wait", "accepted", "failed"}
        /\ cmd_lock \in {"wq", "reader", "none"}
    BY CallParts DEF Threads, Typed, CmdTyped, Places
  <1> SUFFICES Locked("wq")' /\ Locked("reader")'
    BY <1>0
  <1>1. CASE Obeys \/ Refuses \/ Announces \/ TrainChanges \/ BigChanges \/ Stutter
    BY <1>0, <1>1, ControllerFrame DEF Locked, Holds
  <1>2. ASSUME NEW t \in Threads, Sends(t) \/ TimesOut(t) PROVE Locked("wq")'
             /\ Locked("reader")'
    <2>1. CASE Sends(t)
      <3>1. /\ cmd[t].at = "lock" /\ cmd_lock \in {"none", t} /\ cmd_lock' = t
            /\ \A u \in Threads \ {t} : cmd'[u] = cmd[u]
            /\ \/ cmd'[t] = [at |-> "wait", op |-> cmd[t].op] /\ pending' = cmd[t].op
               \/ cmd'[t] = [at |-> "failed", op |-> cmd[t].op]
        BY <2>1, Sent
      <3> QED
        BY <1>0, <3>1 DEF Locked, Holds
    <2>2. CASE TimesOut(t)
      <3>1. /\ cmd[t].at = "wait" /\ cmd'[t] = [at |-> "failed", op |-> cmd[t].op]
            /\ \A u \in Threads \ {t} : cmd'[u] = cmd[u]
            /\ UNCHANGED <<cmd_lock, pending>>
        BY <2>2, TimedOut
      <3> QED
        BY <1>0, <3>1 DEF Locked, Holds
    <2> QED
      BY <1>2, <2>1, <2>2
  <1>3. CASE RetryDue
    BY <1>0, <1>3, RetryFrame DEF Locked, Holds
  <1>4. CASE Forward
    <2> DEFINE e == Head(hci_rx)
    <2> HIDE DEF e
    <2>1. e \in Events
      BY <1>4, Forwarded, FirstEvent DEF e
    <2>2. NoteAnswer(e) \/ UNCHANGED <<cmd_lock, cmd, pending>>
      BY <1>4, Forwarded, NotAnswered DEF e, cmdVars
    <2>3. CASE UNCHANGED <<cmd_lock, cmd, pending>>
      BY <1>0, <2>3 DEF Locked, Holds
    <2>4. CASE NoteAnswer(e)
      <3>1. /\ UNCHANGED cmd_lock
            /\ \/ UNCHANGED <<cmd, pending>>
               \/ \A t \in Threads :
                    cmd'[t] = IF cmd[t].at = "wait"
                              THEN [at |-> IF e.ok THEN "accepted" ELSE "failed",
                                    op |-> cmd[t].op]
                              ELSE cmd[t]
        BY <2>1, <2>4, Noted
      <3> QED
        BY <1>0, <3>1 DEF Locked, Holds
    <2> QED
      BY <2>2, <2>3, <2>4
  <1>5. CASE Working
    <2>1. /\ cmd'["reader"] = cmd["reader"]
          /\ \/ UNCHANGED <<cmd_lock, pending>> /\ cmd'["wq"] = cmd["wq"]
             \/ cmd["wq"].at = "idle" /\ UNCHANGED <<cmd_lock, pending>>
                  /\ cmd'["wq"].at = "lock"
             \/ /\ Holds("wq") /\ cmd'["wq"].at = "idle"
                /\ cmd_lock' = IF cmd["reader"].at = "lock" THEN "reader" ELSE "none"
      BY <1>5, WorkCommands DEF Call, NoCommand, Returned, Holds
    <2> QED
      BY <1>0, <2>1 DEF Locked, Holds
  <1>6. CASE Reading
    <2>0. StartBegins \/ StopGoesOn => cmd["reader"].at = "idle"
      BY DEF StartBegins, StopGoesOn, CallInv, NoCommand
    <2>1. /\ cmd'["wq"] = cmd["wq"]
          /\ \/ UNCHANGED <<cmd_lock, pending>> /\ cmd'["reader"] = cmd["reader"]
             \/ cmd["reader"].at = "idle" /\ UNCHANGED <<cmd_lock, pending>>
                /\ cmd'["reader"].at = "lock"
             \/ /\ Holds("reader") /\ cmd'["reader"].at \in {"idle", "lock"}
                /\ cmd_lock' = IF cmd["wq"].at = "lock" THEN "wq" ELSE "none"
      BY <1>6, <2>0, ReaderCommands DEF Call, NoCommand, Returned, Holds
    <2> QED
      BY <1>0, <2>1 DEF Locked, Holds
  <1> QED
    BY Actions, <1>1, <1>2, <1>3, <1>4, <1>5, <1>6

(* A command sent, given up on or answered is still the one it was.         *)
LEMMA InHand ==
  ASSUME Typed, NEW t \in Threads,
         \/ Sends(t) \/ TimesOut(t)
         \/ \E e \in Events : NoteAnswer(e)
  PROVE  \/ cmd'[t] = cmd[t]
         \/ /\ cmd[t].at \in {"lock", "wait"} /\ cmd'[t].at \in {"wait", "accepted", "failed"}
            /\ cmd'[t].op = cmd[t].op
  <1>1. CASE Sends(t)
    <2>1. /\ cmd[t].at = "lock"
          /\ \/ cmd'[t] = [at |-> "wait", op |-> cmd[t].op]
             \/ cmd'[t] = [at |-> "failed", op |-> cmd[t].op]
      BY <1>1, Sent
    <2> QED
      BY <2>1
  <1>2. CASE TimesOut(t)
    <2>1. cmd[t].at = "wait" /\ cmd'[t] = [at |-> "failed", op |-> cmd[t].op]
      BY <1>2, TimedOut
    <2> QED
      BY <2>1
  <1>3. ASSUME NEW e \in Events, NoteAnswer(e)
        PROVE  \/ cmd'[t] = cmd[t]
               \/ /\ cmd[t].at \in {"lock", "wait"}
                    /\ cmd'[t].at \in {"wait", "accepted", "failed"}
                  /\ cmd'[t].op = cmd[t].op
    <2>1. \/ cmd' = cmd
          \/ cmd'[t] = IF cmd[t].at = "wait"
                       THEN [at |-> IF e.ok THEN "accepted" ELSE "failed", op |-> cmd[t].op]
                       ELSE cmd[t]
      BY <1>3, Noted
    <2>2. CASE e.ok
      BY <2>1, <2>2
    <2>3. CASE ~e.ok
      BY <2>1, <2>3
    <2> QED
      BY <2>2, <2>3
  <1> QED
    BY <1>1, <1>2, <1>3

(* What a thread sends or gives up on leaves the other where it was.        *)
LEMMA Bystander ==
  ASSUME Typed, NEW t \in Threads, Sends(t) \/ TimesOut(t), NEW u \in Threads, u # t
  PROVE  cmd'[u] = cmd[u]
  BY Sent, TimedOut

(* The work queue is in the command of its work item, if in any.            *)
LEMMA WqCallNext ==
  ASSUME Typed, CallInv, [Next]_vars
  PROVE  WqCall'
  <1>w. WqCall
    BY CallParts
  <1>s. ASSUME UNCHANGED wq,
               \/ cmd'["wq"] = cmd["wq"]
               \/ /\ cmd["wq"].at # "idle" /\ cmd'["wq"].at # "idle"
                  /\ cmd'["wq"].op = cmd["wq"].op
        PROVE  WqCall'
    BY <1>w, <1>s DEF WqCall, WorkOp, NoCommand
  <1>t. "reader" \in Threads /\ "wq" \in Threads /\ Threads = {"wq", "reader"}
    BY DEF Threads
  <1>1. CASE Obeys \/ Refuses \/ Announces \/ TrainChanges \/ BigChanges \/ Stutter
    BY <1>1, <1>s, ControllerFrame
  <1>2. ASSUME NEW t \in Threads, Sends(t) \/ TimesOut(t) PROVE WqCall'
    <2>1. \/ cmd'["wq"] = cmd["wq"]
          \/ /\ cmd["wq"].at # "idle" /\ cmd'["wq"].at # "idle"
             /\ cmd'["wq"].op = cmd["wq"].op
      BY <1>2, <1>t, InHand, Bystander
    <2> QED
      BY <1>2, <1>s, <1>t, <2>1, CommandFrame
  <1>3. CASE RetryDue
    BY <1>3, <1>s, RetryFrame
  <1>4. CASE Forward
    <2> DEFINE e == Head(hci_rx)
    <2> HIDE DEF e
    <2>1. e \in Events /\ UNCHANGED wq
      BY <1>4, Forwarded, FirstEvent DEF e
    <2>2. NoteAnswer(e) \/ UNCHANGED <<cmd_lock, cmd, pending>>
      BY <1>4, Forwarded, NotAnswered DEF e, cmdVars
    <2>3. \/ cmd'["wq"] = cmd["wq"]
          \/ /\ cmd["wq"].at # "idle" /\ cmd'["wq"].at # "idle"
             /\ cmd'["wq"].op = cmd["wq"].op
      BY <1>t, <2>1, <2>2, InHand
    <2> QED
      BY <1>s, <2>1, <2>3
  <1>5. CASE Working
    <2>1. CASE WqBegins
      <3>1. wq = "idle" /\ UNCHANGED cmd
        BY <2>1 DEF WqBegins, cmdVars
      <3>2. cmd'["wq"] = NoCommand
        BY <1>w, <3>1 DEF WqCall
      <3> QED
        BY <3>2 DEF WqCall, NoCommand
    <2>2. CASE SyncWork \/ BigWork \/ IsoWork
      <3>1. \/ cmd["wq"].at = "idle" /\ UNCHANGED cmd
            \/ wq = "sync" /\ wq' = wq /\ cmd'["wq"] = Call("sync")
            \/ wq = "big" /\ wq' = wq /\ cmd'["wq"] = Call("big")
            \/ wq = "iso" /\ wq' = wq /\ cmd'["wq"] = Call("path")
        <4>1. SyncWork => wq = "sync" /\ cmd["wq"].at = "idle" /\ (cmd' = cmd
                   \/ (Begins("wq", "sync") /\ wq' = wq))
          BY DEF SyncWork, wqVars
        <4>2. BigWork => wq = "big" /\ cmd["wq"].at = "idle" /\ (cmd' = cmd
                   \/ (Begins("wq", "big") /\ wq' = wq))
          BY DEF BigWork, wqVars
        <4>3. IsoWork => wq = "iso" /\ cmd["wq"].at = "idle" /\ (cmd' = cmd
                   \/ (Begins("wq", "path") /\ wq' = wq))
          BY DEF IsoWork, wqVars
        <4>4. \A op \in Ops : Begins("wq", op) => cmd'["wq"] = Call(op)
          BY <1>t DEF Begins, Typed, CmdTyped
        <4>5. "sync" \in Ops /\ "big" \in Ops /\ "path" \in Ops
          BY DEF Ops
        <4> QED
          BY <2>2, <4>1, <4>2, <4>3, <4>4, <4>5
      <3>2. cmd["wq"].at = "idle" => cmd["wq"] = NoCommand
        BY <1>w DEF WqCall
      <3> QED
        BY <3>1, <3>2 DEF WqCall, WorkOp, Call, NoCommand
    <2>3. CASE SyncWorkOn \/ BigWorkOn \/ IsoWorkOn
      <3>1. Unlocks("wq", NoCommand)
        BY <2>3 DEF SyncWorkOn, BigWorkOn, IsoWorkOn
      <3>2. cmd'["wq"] = NoCommand
        BY <1>t, <3>1, Over
      <3> QED
        BY <3>2 DEF WqCall, NoCommand
    <2> QED
      BY <1>5, <2>1, <2>2, <2>3 DEF Working
  <1>6. CASE Reading
    BY <1>6, <1>s, ReaderCommands, ReaderFrame
  <1> QED
    BY Actions, <1>1, <1>2, <1>3, <1>4, <1>5, <1>6

(* The reader is in a command of what it does, if in any.                   *)
LEMMA ReaderCallNext ==
  ASSUME Typed, CallInv, [Next]_vars
  PROVE  ReaderCall'
  <1>w. ReaderCall
    BY CallParts
  <1>t. "reader" \in Threads /\ "wq" \in Threads /\ Threads = {"wq", "reader"}
    BY DEF Threads
  <1>s. ASSUME UNCHANGED reader,
               \/ cmd'["reader"] = cmd["reader"]
               \/ /\ cmd["reader"].at # "idle" /\ cmd'["reader"].at # "idle"
                  /\ cmd'["reader"].op = cmd["reader"].op
        PROVE  ReaderCall'
    BY <1>w, <1>s DEF ReaderCall, NoCommand
  <1>1. CASE Obeys \/ Refuses \/ Announces \/ TrainChanges \/ BigChanges \/ Stutter
    BY <1>1, <1>s, ControllerFrame
  <1>2. ASSUME NEW t \in Threads, Sends(t) \/ TimesOut(t) PROVE ReaderCall'
    <2>1. \/ cmd'["reader"] = cmd["reader"]
          \/ /\ cmd["reader"].at # "idle" /\ cmd'["reader"].at # "idle"
             /\ cmd'["reader"].op = cmd["reader"].op
      BY <1>2, <1>t, InHand, Bystander
    <2> QED
      BY <1>2, <1>s, <1>t, <2>1, CommandFrame
  <1>3. CASE RetryDue
    BY <1>3, <1>s, RetryFrame
  <1>4. CASE Forward
    <2> DEFINE e == Head(hci_rx)
    <2> HIDE DEF e
    <2>1. e \in Events /\ UNCHANGED reader
      BY <1>4, Forwarded, FirstEvent DEF e
    <2>2. NoteAnswer(e) \/ UNCHANGED <<cmd_lock, cmd, pending>>
      BY <1>4, Forwarded, NotAnswered DEF e, cmdVars
    <2>3. \/ cmd'["reader"] = cmd["reader"]
          \/ /\ cmd["reader"].at # "idle" /\ cmd'["reader"].at # "idle"
             /\ cmd'["reader"].op = cmd["reader"].op
      BY <1>t, <2>1, <2>2, InHand
    <2> QED
      BY <1>s, <2>1, <2>3
  <1>5. CASE Working
    BY <1>5, <1>s, WorkCommands, WorkFrame
  <1>6. CASE Reading
    <2>1. ScanStarted => reader = "started" /\ reader' = "idle"
      BY DEF ScanStarted
    <2>2. StopBegins => reader = "idle" /\ reader' = "stop"
      BY DEF StopBegins
    <2>3. SetPeriodic => reader' = reader
      BY DEF SetPeriodic
    <2>4. StartBegins => reader' = "start"
      BY DEF StartBegins
    <2>5. StopGoesOn => reader = "stop" /\ reader' = "stop"
      BY DEF StopGoesOn
    <2>6. CASE (ScanStarted \/ StopBegins \/ SetPeriodic) /\ UNCHANGED cmd
      BY <1>w, <2>1, <2>2, <2>3, <2>6 DEF ReaderCall, NoCommand
    <2>7. CASE (StartBegins \/ StopGoesOn) /\ cmd'["reader"] = Call("reset")
      BY <2>4, <2>5, <2>7 DEF ReaderCall, Call, NoCommand
    <2>8. CASE \/ cmd'["reader"] = NoCommand /\ reader' \in {"idle", "started"}
               \/ /\ reader' = "start"
                  /\ cmd'["reader"] \in {Call("config"), Call("enable")}
      BY <2>8 DEF ReaderCall, Call, NoCommand
    <2> QED
      BY <1>6, <2>6, <2>7, <2>8, ReaderCommands
  <1> QED
    BY Actions, <1>1, <1>2, <1>3, <1>4, <1>5, <1>6

(* Every step keeps who has the lock and is where in a command.             *)
LEMMA CallNext == Typed /\ CallInv /\ [Next]_vars => CallInv'
  BY CallParts, LockedNext, WqCallNext, ReaderCallNext DEF CallInv, Locked, WqCall, ReaderCall

(* While the reader has no lock to hold back the work queue, it runs only   *)
(* when that is done or waits for an answer.                                *)
LEMMA WqParked ==
  ASSUME Typed, CallInv, MayRun("reader"), cmd["reader"].at = "idle"
  PROVE  \/ wq = "idle" /\ queue = <<>> /\ cmd["wq"] = NoCommand
         \/ cmd["wq"].at = "wait"
  <1>1. cmd_lock # "reader"
    BY DEF CallInv, Threads
  <1>2. WqWaits
    BY DEF MayRun
  <1> QED
    BY <1>1, <1>2 DEF WqWaits, CallInv

(* At first the reader does nothing, and no capture runs.                   *)
LEMMA RunInit == Init => RunInv
  BY DEF Init, RunInv, NoCommand, Holds, Threads

(* What running says of the threads.                                        *)
LEMMA RunNext == Typed /\ CallInv /\ RunInv /\ [Next]_vars => RunInv'
  <1> SUFFICES ASSUME Typed, CallInv, RunInv, [Next]_vars PROVE RunInv'
    OBVIOUS
  <1>t. "reader" \in Threads /\ "wq" \in Threads /\ Threads = {"wq", "reader"}
    BY DEF Threads
  <1>b. /\ running \in BOOLEAN /\ stopped \in BOOLEAN /\ capturing \in BOOLEAN
        /\ joined \in BOOLEAN
    BY DEF Typed, Bools, HistoryTyped
  <1>1. CASE Obeys \/ Refuses \/ Announces \/ TrainChanges \/ BigChanges \/ Stutter
    BY <1>1, ControllerFrame DEF RunInv, Holds
  <1>2. CASE Sends("wq") \/ TimesOut("wq")
    <2>1. /\ cmd'["reader"] = cmd["reader"]
          /\ \/ cmd'["wq"] = cmd["wq"]
             \/ cmd["wq"].at # "idle" /\ cmd'["wq"].at # "lock"
      BY <1>2, <1>t, InHand, Bystander
    <2>2. UNCHANGED <<running, reader, stopped, capturing, joined, bis_count>>
      BY <1>2, <1>t, CommandFrame
    <2> QED
      BY <2>1, <2>2 DEF RunInv, Holds, Call
  <1>3. CASE Sends("reader")
    <2>1. /\ cmd'["wq"] = cmd["wq"] /\ cmd["reader"].at = "lock"
          /\ cmd_lock \in {"none", "reader"} /\ MayRun("reader")
      BY <1>3, <1>t, Sent
    <2>2. UNCHANGED <<running, reader, stopped, capturing, joined, bis_count>>
      BY <1>3, <1>t, CommandFrame
    <2>3. reader = "stop" => cmd["wq"].at = "idle"
      BY <1>t, <2>1 DEF RunInv, MayRun, WqWaits, CallInv, Holds, NoCommand
    <2> QED
      BY <2>1, <2>2, <2>3 DEF RunInv
  <1>4. CASE TimesOut("reader")
    <2>1. cmd'["wq"] = cmd["wq"] /\ cmd["reader"].at = "wait"
      BY <1>4, <1>t, TimedOut
    <2>2. UNCHANGED <<running, reader, stopped, capturing, joined, bis_count>>
      BY <1>4, <1>t, CommandFrame
    <2> QED
      BY <2>1, <2>2 DEF RunInv, Holds
  <1>5. CASE RetryDue
    BY <1>5, RetryFrame DEF RunInv, Holds
  <1>6. CASE Forward
    <2> DEFINE e == Head(hci_rx)
    <2> HIDE DEF e
    <2>1. e \in Events /\ UNCHANGED <<running, reader, stopped, capturing>>
      <3>1. e \in Events
        BY <1>6, Forwarded, FirstEvent DEF e
      <3>2. UNCHANGED <<running, reader, stopped, capturing>>
        BY <1>6, Forwarded DEF flagVars
      <3> QED
        BY <3>1, <3>2
    <2>2. CASE NoteAnswer(e)
      <3>1. UNCHANGED <<joined, bis_count>>
        BY <2>1, <2>2, Noted
      <3>2. \A t \in Threads :
              \/ cmd'[t] = cmd[t]
              \/ cmd[t].at # "idle" /\ cmd'[t].at \in {"wait", "accepted", "failed"}
        BY <2>1, <2>2, InHand
      <3>3. Holds("reader")' => Holds("reader")
        BY <1>t, <2>1, <2>2, Noted DEF Holds
      <3> QED
        BY <1>t, <2>1, <3>1, <3>2, <3>3 DEF RunInv, Call
    <2>3. CASE UNCHANGED cmd /\ (UNCHANGED <<bis_count, joined>> \/ NoteBig(e))
      <3>1. UNCHANGED <<bis_count, joined>> \/ joined' = TRUE
        BY <2>3 DEF NoteBig
      <3> QED
        BY <2>1, <2>3, <3>1 DEF RunInv, Holds
    <2> QED
      BY <1>6, <2>2, <2>3, Forwarded, NotAnswered DEF e, cmdVars, bigVars
  <1>7. CASE Working
    <2>1. cmd'["reader"] = cmd["reader"]
      BY <1>7, WorkCommands
    <2>2. UNCHANGED <<running, reader, stopped, capturing, joined>>
      BY <1>7, WorkFrame
    <2>3. UNCHANGED bis_count
      BY <1>7 DEF Working, WqBegins, SyncWork, SyncWorkOn, BigWork, BigWorkOn, IsoWork,
         IsoWorkOn, bigVars
    <2>4. \/ cmd'["wq"] = cmd["wq"] \/ cmd'["wq"] = NoCommand
          \/ running /\ cmd'["wq"] \in {Call("sync"), Call("big")}
          \/ running /\ cmd'["wq"] = Call("path") /\ IsoWork
      BY <1>7, WorkCommands
    <2>5. IsoWork /\ cmd'["wq"] = Call("path") => cmd'["wq"] = cmd["wq"] \/ stream < bis_count
      BY DEF IsoWork
    <2>6. ~(stream < 0)
      BY FollowAssumption DEF Typed, Places
    <2> QED
      BY <1>b, <2>1, <2>2, <2>3, <2>4, <2>5, <2>6 DEF RunInv, Holds, Call, NoCommand
  <1>8. CASE Reading
    <2>1. cmd'["wq"] = cmd["wq"]
      BY <1>8, ReaderCommands
    <2>2. MayRun("reader") /\ cmd["reader"] = NoCommand => cmd["wq"].at # "lock"
      BY WqParked DEF NoCommand
    <2>3. CASE ScanStarted
      <3>1. /\ reader = "started" /\ MayRun("reader") /\ running' = TRUE /\ reader' = "idle"
            /\ bis_count' = 0 /\ UNCHANGED stopped
        BY <2>3 DEF ScanStarted, ForgetStreams
      <3>2. cmd["wq"].at # "lock"
        BY <2>2, <3>1 DEF CallInv
      <3> QED
        BY <2>1, <3>1, <3>2 DEF RunInv, Call
    <2>4. CASE StopBegins
      <3>1. /\ reader = "idle" /\ MayRun("reader") /\ running' = FALSE /\ reader' = "stop"
            /\ capturing' = FALSE /\ stopped' = FALSE /\ cmd' = cmd
        BY <2>4 DEF StopBegins, cmdVars
      <3>2. cmd["wq"].at # "lock" /\ cmd["reader"] = NoCommand
        BY <2>2, <3>1 DEF CallInv
      <3> QED
        BY <3>1, <3>2 DEF RunInv, Holds, NoCommand
    <2>5. CASE StopEnds
      <3>1. /\ reader = "stop" /\ Holds("reader") /\ reader' = "idle"
            /\ UNCHANGED <<running, capturing>>
        BY <2>5 DEF StopEnds, Returned, Holds
      <3> QED
        BY <2>1, <3>1 DEF RunInv
    <2>6. CASE StartBegins
      <3>1. /\ reader' = "start" /\ UNCHANGED running
            /\ capturing' = FALSE /\ stopped' = FALSE
        BY <2>6 DEF StartBegins
      <3> QED
        BY <2>1, <3>1 DEF RunInv
    <2>7. CASE StartGoesOn \/ StartFails
      <3>1. /\ reader = "start" /\ reader' \in {"start", "started", "idle"}
            /\ UNCHANGED <<running, capturing, stopped>>
        BY <2>7 DEF StartGoesOn, StartFails
      <3> QED
        BY <2>1, <3>1 DEF RunInv
    <2>8. CASE StopGoesOn
      <3>1. /\ reader = "stop" /\ reader' = "stop"
            /\ UNCHANGED <<running, capturing, stopped>> /\ cmd'["reader"] = Call("reset")
        BY <2>8, ReaderCommands DEF StopGoesOn, Reading, StartBegins, StartGoesOn,
             StartFails, StopEnds, ScanStarted, StopBegins, SetPeriodic
      <3> QED
        BY <2>1, <3>1 DEF RunInv, Holds, Call
    <2>9. CASE SetPeriodic
      BY <2>9 DEF SetPeriodic, RunInv, Holds, bigVars, cmdVars, histVars
    <2> QED
      BY <1>8, <2>3, <2>4, <2>5, <2>6, <2>7, <2>8, <2>9 DEF Reading
  <1> QED
    BY Actions, <1>t, <1>1, <1>2, <1>3, <1>4, <1>5, <1>6, <1>7, <1>8

(* No reset is under way at first.                                          *)
LEMMA ResetInit == Init => ResetInv
  BY DEF Init, ResetInv, Threads, NoCommand

(* What is in the controller's hands, place by place.                       *)
LEMMA Given ==
  ASSUME Typed, given # <<>>
  PROVE  /\ Head(given) \in Ops /\ Head(given) = given[1] /\ 1 \in 1 .. Len(given)
         /\ Len(given) \in Nat /\ Len(Tail(given)) = Len(given) - 1
         /\ Len(given) = 1 => Tail(given) = <<>>
         /\ \A i \in 1 .. Len(Tail(given)) :
              i + 1 \in 1 .. Len(given) /\ Tail(given)[i] = given[i + 1]
  <1>1. given \in Seq(Ops) /\ given # <<>>
    BY DEF Typed, QueuesTyped
  <1>2. Len(given) = 1 => Tail(given) = <<>>
    <2>1. Tail(given) \in Seq(Ops) /\ Len(Tail(given)) = Len(given) - 1
      BY <1>1
    <2>2. Len(given) = 1 => ~(Len(Tail(given)) \in Nat \ {0})
      BY <2>1
    <2> QED
      BY <2>1, <2>2, EmptySeq
  <1> QED
    BY <1>1, <1>2

(* An event appended.                                                       *)
LEMMA Appended ==
  ASSUME Typed, NEW e, hci_rx' = Append(hci_rx, e)
  PROVE  /\ Len(hci_rx) \in Nat /\ Len(hci_rx') = Len(hci_rx) + 1
         /\ hci_rx'[Len(hci_rx) + 1] = e
         /\ \A i \in 1 .. Len(hci_rx) : hci_rx'[i] = hci_rx[i]
  <1>1. hci_rx \in Seq(Events)
    BY DEF Typed, QueuesTyped
  <1> QED
    BY <1>1

(* What the controller does with the first command it was given.            *)
LEMMA Answered ==
  ASSUME Typed, Obeys \/ Refuses
  PROVE  /\ given # <<>> /\ given' = Tail(given)
         /\ \/ /\ CanObey(Head(given)) /\ controller' = Obeyed(Head(given))
               /\ hci_rx' = Append(hci_rx, [kind |-> "answer", op |-> Head(given), ok |-> TRUE])
            \/ /\ Head(given) # "reset" /\ controller' = Denied(Head(given))
               /\ hci_rx' = Append(hci_rx, [kind |-> "answer", op |-> Head(given), ok |-> FALSE])
  BY DEF Obeys, Refuses, CanObey

(* A refusal takes nothing from what the controller holds.                  *)
LEMMA DeniedKeeps ==
  ASSUME Typed, NEW op
  PROVE  /\ Denied(op).train = controller.train /\ Denied(op).big = controller.big
         /\ Denied(op).paths = controller.paths
         /\ Denied(op).denied = IF op = "path" /\ CanObey(op)
                               THEN controller.denied \cup {stream} ELSE controller.denied
  BY DEF Denied, Typed, ControllerTyped

(* What it reports of itself.                                               *)
LEMMA Reported ==
  ASSUME Typed, Announces \/ TrainChanges \/ BigChanges
  PROVE  /\ UNCHANGED given
         /\ controller # Reset
         /\ \E k \in Kinds \ {"answer"} : hci_rx' = Append(hci_rx, Event(k))
  <1>1. Reset.scanning = FALSE /\ Reset.train = "none" /\ Reset.big = "none"
    BY DEF Reset
  <1>2. \/ controller.scanning \/ controller.train \in {"pending", "synced"}
        \/ controller.big \in {"pending", "synced"}
    BY DEF Announces, TrainChanges, BigChanges, Train, Big
  <1>3. UNCHANGED given /\ \E k \in Kinds \ {"answer"} : hci_rx' = Append(hci_rx, Event(k))
    BY DEF Announces, TrainChanges, BigChanges, Train, Big, Reports, Kinds
  <1> QED
    BY <1>1, <1>2, <1>3

(* While the reader waits, its reset is pending, and nobody else has the lock. *)
LEMMA WaitingForReset ==
  ASSUME CallInv, Resetting
  PROVE  /\ cmd_lock = "reader" /\ pending = "reset"
         /\ cmd["wq"].at \notin {"wait", "accepted", "failed"}
         /\ reader \in {"start", "stop"}
  BY DEF CallInv, Resetting, Holds, Threads, NoCommand

(* What an event does to the reader's reset.                                *)
LEMMA ResetHeard ==
  ASSUME Typed, CallInv, Forward
  PROVE  \/ cmd'["reader"] = cmd["reader"]
         \/ /\ cmd["reader"].at = "wait" /\ cmd["reader"].op = pending
            /\ Answer(hci_rx[1], pending)
            /\ cmd'["reader"] = [at |-> IF hci_rx[1].ok THEN "accepted" ELSE "failed",
                                 op |-> pending]
  <1> DEFINE e == Head(hci_rx)
  <1> HIDE DEF e
  <1>1. e \in Events /\ e = hci_rx[1]
    BY Forwarded, FirstEvent DEF e
  <1>2. NoteAnswer(e) \/ UNCHANGED <<cmd_lock, cmd, pending>>
    BY Forwarded, NotAnswered DEF e, cmdVars
  <1>3. "reader" \in Threads
    BY DEF Threads
  <1>4. cmd["reader"].at = "wait" => cmd["reader"].op = pending
    BY <1>3 DEF CallInv
  <1>5. CASE NoteAnswer(e) /\ e.op = pending
    BY <1>1, <1>3, <1>4, <1>5, Noted DEF Answer
  <1>6. CASE NoteAnswer(e) /\ e.op # pending
    BY <1>1, <1>3, <1>6, Noted
  <1> QED
    BY <1>2, <1>5, <1>6

(* A reset stays the last command given, and its answer the last event.     *)
LEMMA ResetNext == Typed /\ CallInv /\ RunInv /\ ResetInv /\ [Next]_vars => ResetInv'
  <1> SUFFICES ASSUME Typed, CallInv, RunInv, ResetInv, [Next]_vars, ~lateReset' PROVE ResetInv'
    BY DEF ResetInv
  <1>t. "reader" \in Threads /\ "wq" \in Threads /\ Threads = {"wq", "reader"}
    BY DEF Threads
  <1>c. controller = Reset => ~controller.scanning /\ controller.train = "none"
             /\ controller.big = "none"
    BY DEF Reset
  <1>1. CASE Obeys \/ Refuses
    <2>1. ~lateReset
      BY <1>1, ControllerFrame
    <2>2. UNCHANGED <<cmd, stopped>>
      BY <1>1, ControllerFrame
    <2>3. given # <<>> /\ given' = Tail(given)
      BY <1>1, Answered
    <2>4. ~(cmd["reader"] = [at |-> "accepted", op |-> "reset"] \/ stopped)
      BY <2>1, <2>3 DEF ResetInv
    <2>5. \A i \in 1 .. Len(hci_rx) : ~Answer(hci_rx[i], "reset")
      BY <2>1, <2>3 DEF ResetInv
    <2>6. \A i \in 1 .. Len(given') : given'[i] = "reset" => i = Len(given') /\ Resetting
      <3>1. \A i \in 1 .. Len(given) : given[i] = "reset" => i = Len(given) /\ Resetting
        BY <2>1 DEF ResetInv
      <3>2. /\ Len(given) \in Nat /\ Len(given') = Len(given) - 1
            /\ \A i \in 1 .. Len(given') :
                 i + 1 \in 1 .. Len(given) /\ given'[i] = given[i + 1]
        BY <2>3, Given
      <3>3. ASSUME NEW i \in 1 .. Len(given'), given'[i] = "reset"
            PROVE  i = Len(given') /\ Resetting
        <4>1. i + 1 = Len(given) /\ Resetting
          BY <3>1, <3>2, <3>3
        <4> QED
          BY <3>2, <4>1
      <3> QED
        BY <3>3
    <2>7. Head(given) = "reset" => given' = <<>> /\ controller' = Reset /\ Resetting
      <3>1. Head(given) = "reset" => given[1] = "reset" /\ 1 = Len(given) /\ Resetting
        BY <2>1, <2>3, Given DEF ResetInv
      <3>2. Head(given) = "reset" => controller' = Obeyed("reset")
        BY <1>1, Answered
      <3> QED
        BY <2>3, <3>1, <3>2, Given DEF Obeyed
    <2>8. \E b \in BOOLEAN :
            hci_rx' = Append(hci_rx, [kind |-> "answer", op |-> Head(given), ok |-> b])
      BY <1>1, Answered
    <2>9. ASSUME NEW i \in 1 .. Len(hci_rx'), Answer(hci_rx'[i], "reset")
          PROVE  i = Len(hci_rx') /\ Resetting /\ given' = <<>> /\ controller' = Reset
      <3>1. PICK b \in BOOLEAN :
              hci_rx' = Append(hci_rx, [kind |-> "answer", op |-> Head(given), ok |-> b])
        BY <2>8
      <3>2. i \in 1 .. Len(hci_rx) \/ i = Len(hci_rx')
        BY <3>1, Appended
      <3>3. i \notin 1 .. Len(hci_rx)
        BY <2>5, <2>9, <3>1, Appended
      <3>4. hci_rx'[i].op = Head(given)
        BY <3>1, <3>2, <3>3, Appended
      <3> QED
        BY <2>7, <2>9, <3>2, <3>3, <3>4 DEF Answer
    <2> QED
      BY <2>2, <2>4, <2>6, <2>9 DEF ResetInv, Resetting
  <1>2. CASE Announces \/ TrainChanges \/ BigChanges
    <2>1. ~lateReset /\ UNCHANGED <<cmd, stopped>>
      BY <1>2, ControllerFrame
    <2>2. UNCHANGED given /\ controller # Reset
      BY <1>2, Reported
    <2>3. ~(cmd["reader"] = [at |-> "accepted", op |-> "reset"] \/ stopped)
      BY <2>1, <2>2 DEF ResetInv
    <2>4. \A i \in 1 .. Len(hci_rx) : ~Answer(hci_rx[i], "reset")
      BY <2>1, <2>2 DEF ResetInv
    <2>5. ASSUME NEW i \in 1 .. Len(hci_rx') PROVE ~Answer(hci_rx'[i], "reset")
      <3>1. PICK k \in Kinds \ {"answer"} : hci_rx' = Append(hci_rx, Event(k))
        BY <1>2, Reported
      <3>2. i \in 1 .. Len(hci_rx) \/ i = Len(hci_rx) + 1
        BY <3>1, Appended
      <3>3. i \in 1 .. Len(hci_rx) => hci_rx'[i] = hci_rx[i]
        BY <3>1, Appended
      <3>4. i = Len(hci_rx) + 1 => hci_rx'[i].kind # "answer"
        BY <3>1, Appended DEF Event
      <3> QED
        BY <2>4, <3>2, <3>3, <3>4 DEF Answer
    <2>6. \A i \in 1 .. Len(given) : given[i] = "reset" => i = Len(given) /\ Resetting
      BY <2>1 DEF ResetInv
    <2> QED
      BY <2>1, <2>2, <2>3, <2>5, <2>6 DEF ResetInv, Resetting
  <1>3. CASE Stutter \/ RetryDue
    BY <1>3, ControllerFrame, RetryFrame DEF ResetInv, Resetting, Stutter, allButThrough, ctlVars
  <1>4. ASSUME NEW t \in Threads, Sends(t) PROVE ResetInv'
    <2>1. /\ cmd[t].at = "lock" /\ cmd_lock \in {"none", t} /\ ~lateReset
          /\ \A u \in Threads \ {t} : cmd'[u] = cmd[u]
          /\ \/ /\ cmd'[t] = [at |-> "wait", op |-> cmd[t].op]
                /\ given' = Append(given, cmd[t].op)
             \/ cmd'[t] = [at |-> "failed", op |-> cmd[t].op] /\ given' = given
      BY <1>4, Sent
    <2>2. UNCHANGED <<hci_rx, controller, stopped>>
      BY <1>4, CommandFrame
    <2>3. ~Resetting
      BY <1>t, <2>1, WaitingForReset DEF Resetting
    <2>4. ~stopped
      BY <1>t, <2>1 DEF RunInv, CallInv, NoCommand
    <2>5. cmd'["reader"].at # "accepted"
      <3>1. CASE t = "reader"
        BY <2>1, <3>1
      <3>2. CASE t = "wq"
        BY <1>t, <2>1, <3>2 DEF CallInv, Holds
      <3> QED
        BY <1>t, <3>1, <3>2
    <2>6. \A i \in 1 .. Len(given) : given[i] # "reset"
      BY <2>1, <2>3 DEF ResetInv
    <2>7. \A i \in 1 .. Len(hci_rx) : ~Answer(hci_rx[i], "reset")
      BY <2>1, <2>3 DEF ResetInv
    <2>8. cmd[t].op = "reset" => t = "reader"
      BY <1>t, <2>1, InCommand DEF WorkOp
    <2>9. ASSUME NEW i \in 1 .. Len(given'), given'[i] = "reset"
          PROVE  i = Len(given') /\ Resetting'
      <3>1. given \in Seq(Ops)
        BY DEF Typed, QueuesTyped
      <3>2. given' # given
        BY <2>6, <2>9
      <3>3. given' = Append(given, cmd[t].op) /\ cmd'[t] = [at |-> "wait", op |-> cmd[t].op]
        BY <2>1, <3>2
      <3>4. Len(given') = Len(given) + 1 /\ (i \in 1 .. Len(given) => given'[i] = given[i])
        BY <3>1, <3>3
      <3>5. i = Len(given') /\ given'[i] = cmd[t].op
        BY <2>6, <2>9, <3>1, <3>3, <3>4
      <3> QED
        BY <2>8, <2>9, <3>3, <3>5 DEF Resetting
    <2> QED
      BY <2>2, <2>4, <2>5, <2>7, <2>9 DEF ResetInv
  <1>5. ASSUME NEW t \in Threads, TimesOut(t) PROVE ResetInv'
    <2>1. /\ cmd[t].at = "wait" /\ cmd'[t] = [at |-> "failed", op |-> cmd[t].op]
          /\ \A u \in Threads \ {t} : cmd'[u] = cmd[u]
          /\ ~lateReset /\ cmd[t].op # "reset" /\ UNCHANGED given
      BY <1>5, TimedOut
    <2>2. UNCHANGED <<hci_rx, controller, stopped>>
      BY <1>5, CommandFrame
    <2>3. Resetting => Resetting'
      BY <1>t, <2>1 DEF Resetting
    <2>4. cmd'["reader"].at = "accepted" => cmd'["reader"] = cmd["reader"]
      BY <1>t, <2>1
    <2> QED
      BY <2>1, <2>2, <2>3, <2>4 DEF ResetInv
  <1>6. CASE Forward
    <2>1. ~lateReset /\ UNCHANGED <<given, controller, stopped>> /\ hci_rx # <<>>
               /\ hci_rx' = Tail(hci_rx)
      BY <1>6, Forwarded
    <2>2. Resetting /\ ~Answer(hci_rx[1], "reset") => Resetting'
      BY <1>6, ResetHeard, WaitingForReset DEF Resetting
    <2>3. 1 \in 1 .. Len(hci_rx) /\ Len(hci_rx) \in Nat
      BY <2>1, FirstEvent
    <2>4. ASSUME NEW i \in 1 .. Len(given'), given'[i] = "reset"
          PROVE  i = Len(given') /\ Resetting'
      <3>1. i \in 1 .. Len(given) /\ given # <<>> /\ given[i] = "reset"
        BY <2>1, <2>4 DEF Typed, QueuesTyped
      <3>2. i = Len(given) /\ Resetting /\ ~Answer(hci_rx[1], "reset")
        BY <2>1, <2>3, <3>1 DEF ResetInv
      <3> QED
        BY <2>1, <2>2, <3>2
    <2>5. ASSUME NEW i \in 1 .. Len(hci_rx'), Answer(hci_rx'[i], "reset")
          PROVE  i = Len(hci_rx') /\ Resetting' /\ given' = <<>> /\ controller' = Reset
      <3>1. /\ i + 1 \in 1 .. Len(hci_rx) /\ hci_rx'[i] = hci_rx[i + 1]
            /\ Len(hci_rx') = Len(hci_rx) - 1
        BY <2>1, FirstEvent
      <3>a. \A j \in 1 .. Len(hci_rx) :
              Answer(hci_rx[j], "reset") =>
                j = Len(hci_rx) /\ Resetting /\ given = <<>> /\ controller = Reset
        BY <2>1 DEF ResetInv
      <3>b. Answer(hci_rx[i + 1], "reset")
        BY <2>5, <3>1
      <3>2. i + 1 = Len(hci_rx) /\ Resetting /\ given = <<>> /\ controller = Reset
        BY <3>1, <3>a, <3>b
      <3>3. ~Answer(hci_rx[1], "reset")
        <4>1. 1 # i + 1
          BY <2>5, <2>3, <3>1
        <4> QED
          BY <2>3, <3>2, <3>a, <4>1
      <3>4. i = Len(hci_rx')
        BY <2>3, <2>5, <3>1, <3>2
      <3> QED
        BY <2>1, <2>2, <3>2, <3>3, <3>4
    <2>6. cmd'["reader"] = [at |-> "accepted", op |-> "reset"] \/ stopped'
          => given' = <<>> /\ controller' = Reset
      <3>1. ASSUME cmd'["reader"] = [at |-> "accepted", op |-> "reset"]
            PROVE  cmd["reader"] = cmd'["reader"] \/ Answer(hci_rx[1], "reset")
        BY <1>6, <3>1, ResetHeard
      <3> QED
        BY <2>1, <2>3, <3>1 DEF ResetInv
    <2> QED
      BY <2>4, <2>5, <2>6 DEF ResetInv
  <1>7. CASE Working
    <2>1. cmd'["reader"] = cmd["reader"]
               /\ UNCHANGED <<given, hci_rx, controller, stopped, lateReset>>
      BY <1>7, WorkCommands, WorkFrame
    <2> QED
      BY <2>1 DEF ResetInv, Resetting
  <1>8. CASE Reading
    <2>1. UNCHANGED <<given, hci_rx, controller, lateReset>>
      BY <1>8, ReaderFrame
    <2>2. cmd'["reader"] = cmd["reader"] \/ cmd'["reader"].at \in {"idle", "lock"}
      BY <1>8, ReaderCommands DEF NoCommand, Call
    <2>3. StartBegins \/ StopGoesOn => cmd["reader"].at = "idle"
      BY DEF StartBegins, StopGoesOn, CallInv, NoCommand
    <2>4. Resetting => Resetting'
      BY <1>8, <2>3, ReaderCommands DEF Resetting, Returned
    <2>5. stopped' => stopped \/ cmd["reader"] = [at |-> "accepted", op |-> "reset"]
      <3>1. CASE StopEnds
        <4>1. reader = "stop" /\ cmd["reader"].at \in {"accepted", "failed"}
              /\ stopped' = (cmd["reader"].at = "accepted")
          BY <3>1 DEF StopEnds, Returned
        <4>2. cmd["reader"].op = "reset"
          BY <4>1 DEF CallInv, NoCommand
        <4>3. cmd["reader"] = [at |-> cmd["reader"].at, op |-> cmd["reader"].op]
          BY <1>t DEF Typed, CmdTyped
        <4> QED
          BY <4>1, <4>2, <4>3
      <3>2. CASE stopped' = stopped \/ stopped' = FALSE
        BY <3>2
      <3> QED
        BY <1>8, <3>1, <3>2 DEF Reading, StartGoesOn, StartFails, ScanStarted, StopGoesOn,
           StartBegins, StopBegins, SetPeriodic, histVars
    <2> QED
      BY <2>1, <2>2, <2>4, <2>5 DEF ResetInv
  <1> QED
    BY Actions, <1>1, <1>2, <1>3, <1>4, <1>5, <1>6, <1>7, <1>8

Grants(e, op) == Answer(e, op) /\ e.ok

(* An event appended that does not grant what is held, and is the end of it *)
(* when it is no longer held.                                               *)
LEMMA CoveredAppend ==
  ASSUME NEW s \in Seq(Events), NEW e \in Events, NEW n \in 1 .. Len(s) + 1,
         NEW held, NEW heldThen, NEW op, NEW ends,
         Covered(s, n, held, op, ends),
         held => ~Grants(e, op) /\ (heldThen \/ e.kind \in ends)
  PROVE  Covered(Append(s, e), n, heldThen, op, ends)
  <1>1. /\ Len(s) \in Nat /\ Len(Append(s, e)) = Len(s) + 1
        /\ Append(s, e)[Len(s) + 1] = e
        /\ \A i \in 1 .. Len(s) : Append(s, e)[i] = s[i]
    OBVIOUS
  <1>2. ASSUME NEW j \in n .. Len(s), s[j].kind \in ends,
               \A k \in n .. j : ~(Answer(s[k], op) /\ s[k].ok)
        PROVE  Covered(Append(s, e), n, heldThen, op, ends)
    <2>1. j \in n .. Len(Append(s, e)) /\ Append(s, e)[j] = s[j]
      BY <1>1
    <2>2. \A k \in n .. j : Append(s, e)[k] = s[k]
      BY <1>1
    <2> QED
      BY <1>2, <2>1, <2>2 DEF Covered
  <1>3. ASSUME held, \A k \in n .. Len(s) : ~(Answer(s[k], op) /\ s[k].ok)
        PROVE  Covered(Append(s, e), n, heldThen, op, ends)
    <2>1. \A k \in n .. Len(s) + 1 : ~(Answer(Append(s, e)[k], op) /\ Append(s, e)[k].ok)
      <3> TAKE k \in n .. Len(s) + 1
      <3>1. CASE k \in n .. Len(s)
        <4>1. Append(s, e)[k] = s[k]
          BY <1>1, <3>1
        <4> QED
          BY <1>3, <3>1, <4>1
      <3>2. CASE k = Len(s) + 1
        BY <1>1, <1>3, <3>2 DEF Grants
      <3> QED
        BY <1>1, <3>1, <3>2
    <2>2. CASE heldThen
      BY <1>1, <2>1, <2>2 DEF Covered
    <2>3. CASE e.kind \in ends
      <3>1. Len(s) + 1 \in n .. Len(Append(s, e))
        BY <1>1
      <3> QED
        BY <1>1, <2>1, <2>3, <3>1 DEF Covered
    <2> QED
      BY <1>3, <2>2, <2>3
  <1> QED
    BY <1>2, <1>3 DEF Covered

(* The first event taken away.                                              *)
LEMMA CoveredTail ==
  ASSUME NEW s \in Seq(Events), s # <<>>, NEW n \in Nat \ {0},
         NEW held, NEW op, NEW ends,
         \/ Covered(s, n + 1, held, op, ends)
         \/ n = 1 /\ Covered(s, 1, held, op, ends) /\ s[1].kind \notin ends
  PROVE  Covered(Tail(s), n, held, op, ends)
  <1>1. /\ Len(s) \in Nat /\ Len(Tail(s)) = Len(s) - 1
        /\ \A i \in 1 .. Len(Tail(s)) : Tail(s)[i] = s[i + 1]
    OBVIOUS
  <1>2. Covered(s, n + 1, held, op, ends)
    <2>1. CASE n = 1 /\ Covered(s, 1, held, op, ends) /\ s[1].kind \notin ends
      <3>1. ASSUME NEW j \in 1 .. Len(s), s[j].kind \in ends,
                   \A k \in 1 .. j : ~(Answer(s[k], op) /\ s[k].ok)
            PROVE  Covered(s, 2, held, op, ends)
        <4>1. j \in 2 .. Len(s) /\ \A k \in 2 .. j : k \in 1 .. j
          BY <1>1, <2>1, <3>1
        <4> QED
          BY <3>1, <4>1 DEF Covered
      <3>2. ASSUME held, \A k \in 1 .. Len(s) : ~(Answer(s[k], op) /\ s[k].ok)
            PROVE  Covered(s, 2, held, op, ends)
        BY <1>1, <3>2 DEF Covered
      <3> QED
        BY <2>1, <3>1, <3>2 DEF Covered
    <2> QED
      BY <2>1
  <1>3. ASSUME NEW j \in n + 1 .. Len(s), s[j].kind \in ends,
               \A k \in n + 1 .. j : ~(Answer(s[k], op) /\ s[k].ok)
        PROVE  Covered(Tail(s), n, held, op, ends)
    <2>1. j - 1 \in n .. Len(Tail(s)) /\ Tail(s)[j - 1] = s[j]
      BY <1>1
    <2>2. \A k \in n .. j - 1 : k + 1 \in n + 1 .. j /\ Tail(s)[k] = s[k + 1]
      BY <1>1
    <2> QED
      BY <1>3, <2>1, <2>2 DEF Covered
  <1>4. ASSUME held, \A k \in n + 1 .. Len(s) : ~(Answer(s[k], op) /\ s[k].ok)
        PROVE  Covered(Tail(s), n, held, op, ends)
    <2>1. \A k \in n .. Len(Tail(s)) : k + 1 \in n + 1 .. Len(s) /\ Tail(s)[k] = s[k + 1]
      BY <1>1
    <2> QED
      BY <1>4, <2>1 DEF Covered
  <1> QED
    BY <1>2, <1>3, <1>4 DEF Covered

(* Nothing is granted first while what is held, or its end, comes after.    *)
LEMMA CoveredHead ==
  ASSUME NEW s \in Seq(Events), s # <<>>, NEW held, NEW op, NEW ends,
         Covered(s, 1, held, op, ends)
  PROVE  ~Grants(s[1], op)
  <1>1. Len(s) \in Nat /\ Len(s) >= 1
    OBVIOUS
  <1> QED
    BY <1>1 DEF Covered, Grants

(* A reset answered is the last of what there is to hear.                   *)
LEMMA ResetAnsweredLast ==
  ASSUME Typed, ResetInv, ~lateReset, ResetAnswered
  PROVE  hci_rx # <<>> /\ Answer(hci_rx[Len(hci_rx)], "reset") /\ Resetting
  BY DEF ResetInv, ResetAnswered, Typed, QueuesTyped

(* A capture is under way: nobody resets.                                   *)
LEMMA NoResetInCapture ==
  ASSUME Typed, CallInv, RunInv, ResetInv, ~lateReset, capturing
  PROVE  /\ ~Resetting /\ ~ResetAnswered
         /\ given # <<>> => Head(given) # "reset"
  <1>1. ~Resetting
    BY WaitingForReset DEF RunInv
  <1> QED
    BY <1>1, ResetAnsweredLast, Given DEF ResetInv

(* What the controller reports of trains and broadcasts.                    *)
LEMMA ReportedEnds ==
  ASSUME Typed, Announces \/ TrainChanges \/ BigChanges
  PROVE  \E k \in Kinds \ {"answer"} :
           /\ hci_rx' = Append(hci_rx, Event(k)) /\ Event(k) \in Events
           /\ controller.train # "none" =>
                controller'.train # "none" \/ k \in {"sync_failed", "sync_lost"}
           /\ controller.big # "none" =>
                controller'.big # "none" \/ k \in {"big_failed", "big_lost"}
           /\ k = "big_made" => controller'.big # "none"
  <1>0. \A k \in Kinds : Event(k) \in Events
    BY DEF Event, Events
  <1>1. CASE Announces
    <2>1. PICK k \in {"announce", "biginfo"} : hci_rx' = Append(hci_rx, Event(k))
      BY <1>1 DEF Announces, Reports
    <2>2. k \in Kinds \ {"answer"} /\ k # "big_made" /\ UNCHANGED controller
      BY <1>1 DEF Announces, Kinds
    <2> QED
      BY <1>0, <2>1, <2>2
  <1>2. CASE TrainChanges
    <2>1. PICK from \in {"pending", "synced"}, to \in {"synced", "none"},
               k \in {"sync_made", "sync_failed", "sync_lost"} :
            /\ Train(from, to, k) /\ (to = "none" => k \in {"sync_failed", "sync_lost"})
      BY <1>2 DEF TrainChanges
    <2>2. controller'.train = to /\ controller'.big = controller.big
      BY <2>1 DEF Train, Typed, ControllerTyped
    <2>3. hci_rx' = Append(hci_rx, Event(k)) /\ k \in Kinds \ {"answer"} /\ k # "big_made"
      BY <2>1 DEF Train, Reports, Kinds
    <2> QED
      BY <1>0, <2>1, <2>2, <2>3
  <1>3. CASE BigChanges
    <2>1. PICK from \in {"pending", "synced"}, to \in {"synced", "none"},
               k \in {"big_made", "big_failed", "big_lost"} :
            /\ Big(from, to, k) /\ (to = "none" <=> k \in {"big_failed", "big_lost"})
      BY <1>3 DEF BigChanges
    <2>2. controller'.big = to /\ controller'.train = controller.train
      BY <2>1 DEF Big, Typed, ControllerTyped
    <2>3. hci_rx' = Append(hci_rx, Event(k)) /\ k \in Kinds \ {"answer"}
      BY <2>1 DEF Big, Reports, Kinds
    <2> QED
      BY <1>0, <2>1, <2>2, <2>3
  <1> QED
    BY <1>1, <1>2, <1>3

(* What the controller answers, of trains and broadcasts.                   *)
LEMMA AnsweredEnds ==
  ASSUME Typed, Obeys \/ Refuses
  PROVE  \E e \in Events :
           /\ e.kind = "answer" /\ e.op = Head(given) /\ given # <<>>
           /\ hci_rx' = Append(hci_rx, e)
           /\ e.op = "reset" \/ /\ controller.train # "none" =>
                                     controller'.train # "none" /\ ~Grants(e, "sync")
                                /\ controller.big # "none" =>
                                     controller'.big # "none" /\ ~Grants(e, "big")
           /\ Grants(e, "sync") => controller'.train # "none"
           /\ Grants(e, "big") => controller'.big # "none"
  <1> DEFINE op == Head(given)
             e(b) == [kind |-> "answer", op |-> op, ok |-> b]
  <1>0. op \in Ops
    BY Answered, Given
  <1> HIDE DEF op
  <1>1. \A b \in BOOLEAN : e(b) \in Events
    BY <1>0 DEF Events, Kinds
  <1>2. CASE hci_rx' = Append(hci_rx, e(FALSE)) /\ controller' = Denied(op)
    <2>1. ~Grants(e(FALSE), "sync") /\ ~Grants(e(FALSE), "big")
      BY DEF Grants
    <2>2. controller'.train = controller.train /\ controller'.big = controller.big
      BY <1>2, DeniedKeeps
    <2> QED
      BY <1>1, <1>2, <2>1, <2>2, Answered DEF op
  <1>3. CASE hci_rx' = Append(hci_rx, e(TRUE)) /\ CanObey(op) /\ controller' = Obeyed(op)
    <2> USE DEF Typed, ControllerTyped
    <2>1. op = "sync" => controller.train = "none" /\ controller'.train = "pending"
                         /\ controller'.big = controller.big
      BY <1>3 DEF CanObey, Obeyed
    <2>2. op = "big" => controller.big = "none" /\ controller'.big = "pending"
                        /\ controller'.train = controller.train
      BY <1>3 DEF CanObey, Obeyed
    <2>3. op \in {"enable", "config", "path"} =>
            controller'.train = controller.train /\ controller'.big = controller.big
      BY <1>3 DEF Obeyed
    <2>4. \A o : Grants(e(TRUE), o) <=> op = o
      BY DEF Grants, Answer
    <2> QED
      BY <1>0, <1>1, <1>3, <2>1, <2>2, <2>3, <2>4, Answered DEF op, Ops
  <1> QED
    BY <1>2, <1>3, Answered DEF op

(* Nothing is followed at first.                                            *)
LEMMA SyncInit == Init => SyncInv
  BY DEF Init, SyncInv, Granted, NoCommand, Threads

(* The reset's answer stays among the events, while others come before it.  *)
LEMMA ResetAnsweredTail ==
  ASSUME Typed, ResetInv, ~lateReset, ResetAnswered, Forward, Len(hci_rx) > 1
  PROVE  ResetAnswered'
  <1>1. /\ hci_rx # <<>> /\ hci_rx' = Tail(hci_rx) /\ Len(hci_rx) \in Nat
        /\ Len(hci_rx') = Len(hci_rx) - 1
        /\ \A i \in 1 .. Len(hci_rx') : hci_rx'[i] = hci_rx[i + 1]
    BY Forwarded, FirstEvent
  <1>2. Answer(hci_rx[Len(hci_rx)], "reset")
    BY ResetAnsweredLast
  <1>3. Len(hci_rx') \in 1 .. Len(hci_rx') /\ hci_rx'[Len(hci_rx')] = hci_rx[Len(hci_rx)]
    BY <1>1
  <1> QED
    BY <1>2, <1>3 DEF ResetAnswered

(* An event more takes the reset's answer away from nobody, or brings it.   *)
LEMMA ResetAnsweredAppend ==
  ASSUME Typed, NEW e, hci_rx' = Append(hci_rx, e), ResetAnswered \/ Answer(e, "reset")
  PROVE  ResetAnswered'
  <1>1. /\ Len(hci_rx) \in Nat /\ Len(hci_rx') = Len(hci_rx) + 1
        /\ hci_rx'[Len(hci_rx) + 1] = e
        /\ \A i \in 1 .. Len(hci_rx) : hci_rx'[i] = hci_rx[i]
    BY Appended
  <1> QED
    BY <1>1 DEF ResetAnswered

(* Every sync granted is held, or its end is to be heard after it.          *)
SyncTold ==
  \A i \in 1 .. Len(hci_rx) : Grants(hci_rx[i], "sync") => SyncCovered(i + 1) \/ ResetAnswered

(* So is what sync_count says, or is about to.                              *)
SyncKept ==
  capturing /\ (sync_count > 0 \/ Granted("sync")) =>
    /\ SyncCovered(1)
    /\ sync_count + (IF Granted("sync") THEN 1 ELSE 0) = 1

(* The two halves of SyncInv.                                               *)
LEMMA SyncParts == SyncInv <=> (~lateReset => SyncTold /\ SyncKept)
  BY DEF SyncInv, SyncTold, SyncKept, Grants

(* An event more.                                                           *)
LEMMA SyncAppend ==
  ASSUME Typed, NEW e \in Events, hci_rx' = Append(hci_rx, e), SyncTold, SyncKept,
         controller.train # "none" =>
           \/ ~Grants(e, "sync") /\ (controller'.train # "none"
                \/ e.kind \in {"sync_failed", "sync_lost"})
           \/ ~capturing /\ Answer(e, "reset"),
         Grants(e, "sync") => controller'.train # "none",
         UNCHANGED <<cmd, capturing, sync_count>>
  PROVE  SyncTold' /\ SyncKept'
  <1> DEFINE ends == {"sync_failed", "sync_lost"}
  <1>1. hci_rx \in Seq(Events)
    BY DEF Typed, QueuesTyped
  <1>2. /\ Len(hci_rx) \in Nat /\ Len(hci_rx') = Len(hci_rx) + 1
        /\ hci_rx'[Len(hci_rx) + 1] = e
        /\ \A i \in 1 .. Len(hci_rx) : hci_rx'[i] = hci_rx[i]
    BY Appended
  <1>3. ASSUME NEW n \in 1 .. Len(hci_rx) + 1, SyncCovered(n)
        PROVE  (~capturing /\ ResetAnswered') \/ SyncCovered(n)'
    <2>1. CASE ~capturing /\ Answer(e, "reset")
      BY <2>1, ResetAnsweredAppend
    <2>2. CASE ~(~capturing /\ Answer(e, "reset"))
      <3>1. Covered(hci_rx, n, controller.train # "none", "sync", ends)
        BY <1>3 DEF SyncCovered
      <3>2. controller.train # "none" =>
              ~Grants(e, "sync") /\ ((controller'.train # "none") \/ e.kind \in ends)
        BY <2>2
      <3> HIDE DEF ends
      <3>3. Covered(Append(hci_rx, e), n, controller'.train # "none", "sync", ends)
        BY <1>1, <3>1, <3>2, CoveredAppend
      <3> USE DEF ends
      <3> QED
        BY <3>3 DEF SyncCovered
    <2> QED
      BY <2>1, <2>2
  <1>4. SyncTold'
    <2> SUFFICES ASSUME NEW i \in 1 .. Len(hci_rx'), Grants(hci_rx'[i], "sync")
                 PROVE  SyncCovered(i + 1)' \/ ResetAnswered'
      BY DEF SyncTold
    <2>1. CASE i \in 1 .. Len(hci_rx)
      <3>1. SyncCovered(i + 1) \/ ResetAnswered
        BY <1>2, <2>1 DEF SyncTold
      <3>2. i + 1 \in 1 .. Len(hci_rx) + 1
        BY <1>2, <2>1
      <3> QED
        BY <1>3, <3>1, <3>2, ResetAnsweredAppend
    <2>2. CASE i = Len(hci_rx) + 1
      <3>1. controller'.train # "none"
        BY <1>2, <2>2
      <3>2. i + 1 .. Len(hci_rx') = {}
        BY <1>2, <2>2
      <3> QED
        BY <3>1, <3>2 DEF SyncCovered, Covered
    <2> QED
      BY <1>2, <2>1, <2>2
  <1>5. SyncKept'
    <2>1. 1 \in 1 .. Len(hci_rx) + 1
      BY <1>2
    <2> QED
      BY <1>3, <2>1 DEF SyncKept, Granted
  <1> QED
    BY <1>4, <1>5

(* An event heard.                                                          *)
LEMMA SyncTail ==
  ASSUME Typed, ResetInv, ~lateReset, Forward, NEW n \in Nat \ {0},
         \/ SyncCovered(n + 1)
         \/ n = 1 /\ SyncCovered(1) /\ hci_rx[1].kind \notin {"sync_failed", "sync_lost"}
  PROVE  SyncCovered(n)'
  <1> DEFINE ends == {"sync_failed", "sync_lost"}
  <1>1. hci_rx \in Seq(Events) /\ hci_rx # <<>> /\ hci_rx' = Tail(hci_rx)
             /\ UNCHANGED controller
    BY Forwarded DEF Typed, QueuesTyped
  <1>2. \/ Covered(hci_rx, n + 1, controller.train # "none", "sync", ends)
        \/ /\ n = 1 /\ Covered(hci_rx, 1, controller.train # "none", "sync", ends)
           /\ hci_rx[1].kind \notin ends
    BY DEF SyncCovered
  <1> HIDE DEF ends
  <1>3. Covered(Tail(hci_rx), n, controller.train # "none", "sync", ends)
    BY <1>1, <1>2, CoveredTail
  <1> USE DEF ends
  <1> QED
    BY <1>1, <1>3 DEF SyncCovered

(* While events are heard nothing has just been granted to the work queue.  *)
LEMMA NotGrantedYet ==
  ASSUME Typed, CallInv, Forward, NEW op
  PROVE  /\ ~Granted(op)
         /\ Granted(op)' => Grants(hci_rx[1], op) /\ cmd["wq"].at = "wait"
  <1> DEFINE e == Head(hci_rx)
  <1> HIDE DEF e
  <1>1. e \in Events /\ e = hci_rx[1]
    BY Forwarded, FirstEvent DEF e
  <1>2. NoteAnswer(e) \/ UNCHANGED <<cmd_lock, cmd, pending>>
    BY Forwarded, NotAnswered DEF e, cmdVars
  <1>3. "wq" \in Threads
    BY DEF Threads
  <1>4. ~Granted(op)
    BY Forwarded, <1>3 DEF MayRun, WqWaits, Granted, CallInv, NoCommand
  <1>5. cmd["wq"].at = "wait" => cmd["wq"].op = pending
    BY <1>3 DEF CallInv
  <1>6. ASSUME Granted(op)' PROVE Grants(e, op) /\ cmd["wq"].at = "wait"
    <2>1. cmd'["wq"] # cmd["wq"]
      BY <1>4, <1>6 DEF Granted
    <2>2. NoteAnswer(e) /\ e.op = pending
      BY <1>1, <1>2, <1>3, <2>1, Noted
    <2>3. cmd["wq"].at = "wait" /\ cmd'["wq"] = [at |-> IF e.ok THEN "accepted" ELSE "failed",
                                                 op |-> cmd["wq"].op]
      BY <1>1, <1>3, <2>1, <2>2, Noted
    <2>4. e.kind = "answer"
      BY <1>1, <2>2, Noted
    <2> QED
      BY <1>5, <1>6, <2>2, <2>3, <2>4 DEF Granted, Grants, Answer
  <1> QED
    BY <1>1, <1>4, <1>6

(* What is claimed of trains is held, or its end is on the way.             *)
LEMMA SyncNext ==
  Typed /\ CallInv /\ RunInv /\ ResetInv /\ SyncInv /\ [Next]_vars => SyncInv'
  <1> SUFFICES ASSUME Typed, CallInv, RunInv, ResetInv, SyncInv, [Next]_vars, ~lateReset'
               PROVE  SyncTold' /\ SyncKept'
    BY SyncParts DEF SyncInv, SyncTold, SyncKept, Grants
  <1>t. "reader" \in Threads /\ "wq" \in Threads /\ Threads = {"wq", "reader"}
    BY DEF Threads
  <1>i. ~lateReset => SyncTold /\ SyncKept
    BY SyncParts
  <1>n. sync_count \in Nat
    BY DEF Typed, Counts
  <1>s. ASSUME ~lateReset, UNCHANGED <<hci_rx, controller, capturing, sync_count>>,
               Granted("sync")' <=> Granted("sync")
        PROVE  SyncTold' /\ SyncKept'
    BY <1>s, <1>i DEF SyncTold, SyncKept, SyncCovered, ResetAnswered
  <1>1. CASE Obeys \/ Refuses
    <2>1. ~lateReset /\ UNCHANGED <<cmd, capturing, sync_count>>
      BY <1>1, ControllerFrame
    <2>2. PICK e \in Events :
           /\ e.kind = "answer" /\ e.op = Head(given) /\ given # <<>>
           /\ hci_rx' = Append(hci_rx, e)
           /\ e.op = "reset" \/ (controller.train # "none" =>
                                     controller'.train # "none" /\ ~Grants(e, "sync"))
           /\ Grants(e, "sync") => controller'.train # "none"
      BY <1>1, AnsweredEnds
    <2>3. capturing => e.op # "reset"
      BY <2>1, <2>2, NoResetInCapture
    <2>4. controller.train # "none" =>
           \/ ~Grants(e, "sync") /\ (controller'.train # "none"
                \/ e.kind \in {"sync_failed", "sync_lost"})
           \/ ~capturing /\ Answer(e, "reset")
      BY <2>2, <2>3 DEF Answer
    <2> QED
      BY <1>i, <2>1, <2>2, <2>4, SyncAppend
  <1>2. CASE Announces \/ TrainChanges \/ BigChanges
    <2>1. ~lateReset /\ UNCHANGED <<cmd, capturing, sync_count>>
      BY <1>2, ControllerFrame
    <2>2. PICK k \in Kinds \ {"answer"} :
           /\ hci_rx' = Append(hci_rx, Event(k)) /\ Event(k) \in Events
           /\ controller.train # "none" =>
                controller'.train # "none" \/ k \in {"sync_failed", "sync_lost"}
      BY <1>2, ReportedEnds
    <2>3. Event(k).kind = k /\ ~Grants(Event(k), "sync")
      BY DEF Event, Grants, Answer
    <2>4. controller.train # "none" =>
            controller'.train # "none" \/ Event(k).kind \in {"sync_failed", "sync_lost"}
      BY <2>2, <2>3
    <2> QED
      BY <1>i, <2>1, <2>2, <2>3, <2>4, SyncAppend
  <1>3. CASE Stutter \/ RetryDue
    BY <1>3, <1>s, ControllerFrame, RetryFrame DEF Granted, Stutter, allButThrough,
       ctlVars, histVars, syncVars
  <1>4. ASSUME NEW t \in Threads, Sends(t) \/ TimesOut(t) PROVE SyncTold' /\ SyncKept'
    <2>1. ~lateReset
      BY <1>4, Sent, TimedOut
    <2>2. UNCHANGED <<hci_rx, controller, capturing, sync_count>>
      BY <1>4, CommandFrame
    <2>3. \/ cmd'["wq"] = cmd["wq"]
          \/ t = "wq" /\ cmd["wq"].at \in {"lock", "wait"}
               /\ cmd'["wq"].at \in {"wait", "failed"}
      <3>1. CASE t = "reader"
        BY <1>4, <1>t, <3>1, Bystander
      <3>2. CASE t = "wq" /\ Sends("wq")
        <4>1. \/ cmd'["wq"] = [at |-> "wait", op |-> cmd["wq"].op]
              \/ cmd'["wq"] = [at |-> "failed", op |-> cmd["wq"].op]
          BY <1>t, <3>2, Sent
        <4>2. cmd["wq"].at = "lock"
          BY <1>t, <3>2, Sent
        <4> QED
          BY <3>2, <4>1, <4>2
      <3>3. CASE t = "wq" /\ TimesOut("wq")
        <4>1. cmd'["wq"] = [at |-> "failed", op |-> cmd["wq"].op] /\ cmd["wq"].at = "wait"
          BY <1>t, <3>3, TimedOut
        <4> QED
          BY <3>3, <4>1
      <3> QED
        BY <1>4, <1>t, <3>1, <3>2, <3>3
    <2>4. Granted("sync")' <=> Granted("sync")
      BY <2>3 DEF Granted
    <2> QED
      BY <1>s, <2>1, <2>2, <2>4
  <1>5. CASE Forward
    <2>1. ~lateReset /\ hci_rx # <<>> /\ UNCHANGED capturing
      BY <1>5, Forwarded
    <2>2. /\ Len(hci_rx) \in Nat /\ Len(hci_rx') = Len(hci_rx) - 1 /\ 1 \in 1 .. Len(hci_rx)
          /\ \A i \in 1 .. Len(hci_rx') : i + 1 \in 1 .. Len(hci_rx)
               /\ hci_rx'[i] = hci_rx[i + 1]
      BY <1>5, <2>1, Forwarded, FirstEvent
    <2>3. SyncTold'
      <3> SUFFICES ASSUME NEW i \in 1 .. Len(hci_rx'), Grants(hci_rx'[i], "sync")
                   PROVE  SyncCovered(i + 1)' \/ ResetAnswered'
        BY DEF SyncTold
      <3>1. SyncCovered(i + 1 + 1) \/ ResetAnswered
        BY <1>i, <2>1, <2>2 DEF SyncTold
      <3>2. Len(hci_rx) > 1 /\ i + 1 \in Nat \ {0}
        BY <2>2
      <3> QED
        BY <1>5, <2>1, <3>1, <3>2, SyncTail, ResetAnsweredTail
    <2>4. SyncKept'
      <3> SUFFICES ASSUME capturing, sync_count' > 0 \/ Granted("sync")'
                   PROVE  /\ SyncCovered(1)'
                          /\ sync_count' + (IF Granted("sync")' THEN 1 ELSE 0) = 1
        BY <2>1 DEF SyncKept
      <3>1. ~Granted("sync")
        BY <1>5, NotGrantedYet
      <3>2. sync_count > 0 => SyncCovered(1) /\ sync_count = 1
        BY <1>i, <1>n, <2>1, <3>1 DEF SyncKept
      <3>3. sync_count > 0 => ~Grants(hci_rx[1], "sync")
        BY <2>1, <3>2, CoveredHead DEF SyncCovered, Typed, QueuesTyped
      <3> DEFINE over == hci_rx[1].kind \in {"sync_failed", "sync_lost"}
      <3>4. (sync_count' = sync_count /\ ~over) \/ (FreeSlot /\ over)
        <4>1. running
          BY <2>1 DEF RunInv
        <4> DEFINE e == Head(hci_rx)
        <4> HIDE DEF e
        <4>2. e = hci_rx[1]
          BY <2>1, FirstEvent DEF e
        <4>3. NoteAnswer(e) \/ NoteSync(e) \/ NoteBig(e) \/ NotePeriodic(e) \/ NoteBigInfo(e)
          BY <1>5, <4>1, Forwarded DEF e
        <4>4. \/ sync_count' = sync_count /\ e.kind \notin {"sync_failed", "sync_lost"}
              \/ FreeSlot /\ e.kind \in {"sync_failed", "sync_lost"}
          BY <4>3 DEF NoteAnswer, NoteSync, NoteBig, NotePeriodic, NoteBigInfo, syncVars
        <4> QED
          BY <4>2, <4>4
      <3>o. over => ~Grants(hci_rx[1], "sync")
        BY DEF Grants, Answer
      <3> HIDE DEF over
      <3>5. CASE Granted("sync")'
        <4>1. Grants(hci_rx[1], "sync") /\ ~ResetAnswered
          BY <1>5, <2>1, <3>5, NotGrantedYet, NoResetInCapture
        <4>2. SyncCovered(1 + 1)
          BY <1>i, <2>1, <2>2, <4>1 DEF SyncTold
        <4>3. sync_count = 0 /\ sync_count' = 0
          BY <1>n, <3>3, <3>4, <3>o, <4>1
        <4>4. SyncCovered(1)'
          <5>1. 1 \in Nat \ {0} /\ ~lateReset
            BY <2>1
          <5> QED
            BY <1>5, <4>2, <5>1, SyncTail
        <4> QED
          BY <3>5, <4>3, <4>4
      <3>6. CASE ~Granted("sync")'
        <4>1. sync_count' > 0
          BY <3>6
        <4>3. sync_count' = sync_count /\ ~over
          BY <1>n, <3>2, <3>4, <4>1 DEF FreeSlot
        <4>2. SyncCovered(1)'
          <5>1. 1 \in Nat \ {0} /\ ~lateReset /\ SyncCovered(1)
            BY <2>1, <3>2, <4>1, <4>3
          <5>2. hci_rx[1].kind \notin {"sync_failed", "sync_lost"}
            BY <4>3 DEF over
          <5> QED
            BY <1>5, <5>1, <5>2, SyncTail
        <4> QED
          BY <3>2, <3>6, <4>1, <4>2, <4>3
      <3> QED
        BY <3>5, <3>6
    <2> QED
      BY <2>3, <2>4
  <1>6. CASE Working
    <2>1. ~lateReset /\ UNCHANGED <<hci_rx, controller, capturing>>
      BY <1>6, WorkFrame
    <2>2. CASE SyncWorkOn
      <3>1. /\ wq = "sync" /\ Returned("wq") /\ Unlocks("wq", NoCommand)
            /\ sync_count' = IF cmd["wq"].at = "accepted" THEN sync_count + 1 ELSE sync_count
        BY <2>2 DEF SyncWorkOn
      <3>2. cmd["wq"].op = "sync"
        BY <3>1 DEF CallInv, Returned, WorkOp
      <3>3. cmd["wq"] = [at |-> cmd["wq"].at, op |-> cmd["wq"].op]
        BY <1>t DEF Typed, CmdTyped
      <3>4. cmd["wq"].at = "accepted" <=> Granted("sync")
        BY <3>2, <3>3 DEF Granted
      <3>5. cmd'["wq"] = NoCommand
        BY <1>t, <3>1, Over
      <3>6. ~Granted("sync")'
        BY <3>5 DEF Granted, NoCommand
      <3>7. sync_count' + 0 = sync_count + (IF Granted("sync") THEN 1 ELSE 0)
            /\ (sync_count' > 0 => sync_count > 0 \/ Granted("sync"))
        BY <1>n, <3>1, <3>4
      <3>8. SyncTold' /\ (SyncCovered(1) => SyncCovered(1)')
        BY <1>i, <2>1 DEF SyncTold, SyncCovered, ResetAnswered
      <3> QED
        BY <1>i, <1>n, <2>1, <3>6, <3>7, <3>8 DEF SyncKept
    <2>3. CASE WqBegins \/ SyncWork \/ BigWork \/ IsoWork \/ BigWorkOn \/ IsoWorkOn
      <3>1. UNCHANGED sync_count
        BY <2>3 DEF WqBegins, SyncWork, BigWork, IsoWork, BigWorkOn, IsoWorkOn, syncVars
      <3>2. \/ cmd'["wq"] = cmd["wq"]
            \/ cmd["wq"].at = "idle" /\ cmd'["wq"].at = "lock"
            \/ cmd["wq"].op # "sync" /\ cmd'["wq"] = NoCommand
        <4>1. CASE BigWorkOn \/ IsoWorkOn
          <5>1. wq \in {"big", "iso"} /\ Returned("wq") /\ Unlocks("wq", NoCommand)
            BY <4>1 DEF BigWorkOn, IsoWorkOn
          <5>2. cmd["wq"].op # "sync"
            BY <5>1 DEF CallInv, Returned, WorkOp
          <5> QED
            BY <1>t, <5>1, <5>2, Over
        <4>2. CASE ~(BigWorkOn \/ IsoWorkOn) /\ ~SyncWorkOn
          <5>1. \/ UNCHANGED cmd
                \/ cmd["wq"].at = "idle"
                     /\ \E o \in {"sync", "big", "path"} : cmd'["wq"] = Call(o)
            BY <1>6, <4>2, WorkCommands
          <5> QED
            BY <5>1 DEF Call
        <4>3. CASE SyncWorkOn
          BY <2>3, <4>3 DEF WqBegins, SyncWork, BigWork, IsoWork, BigWorkOn, IsoWorkOn,
               SyncWorkOn, Returned
        <4> QED
          BY <4>1, <4>2, <4>3
      <3>3. Granted("sync")' <=> Granted("sync")
        BY <3>2 DEF Granted, NoCommand
      <3> QED
        BY <1>s, <2>1, <3>1, <3>3
    <2> QED
      BY <1>6, <2>2, <2>3 DEF Working
  <1>7. CASE Reading
    <2>1. ~lateReset /\ UNCHANGED <<hci_rx, controller>> /\ cmd'["wq"] = cmd["wq"]
      BY <1>7, ReaderCommands, ReaderFrame
    <2>2. SyncTold' /\ (SyncCovered(1) => SyncCovered(1)')
      BY <1>i, <2>1 DEF SyncTold, SyncCovered, ResetAnswered
    <2>3. Granted("sync")' <=> Granted("sync")
      BY <2>1 DEF Granted
    <2>4. CASE ScanStarted
      <3>1. MayRun("reader") /\ reader = "started" /\ sync_count' = 0
        BY <2>4 DEF ScanStarted
      <3>2. cmd["reader"].at = "idle"
        BY <3>1 DEF CallInv, NoCommand
      <3>3. ~Granted("sync")
        BY <3>1, <3>2, WqParked DEF Granted, NoCommand
      <3> QED
        BY <2>2, <2>3, <3>1, <3>3 DEF SyncKept
    <2>5. CASE ~capturing'
      BY <2>2, <2>5 DEF SyncKept
    <2>6. CASE UNCHANGED <<capturing, sync_count>>
      BY <1>s, <2>1, <2>3, <2>6
    <2>7. StartBegins \/ StopBegins => ~capturing'
      BY DEF StartBegins, StopBegins
    <2>8. StopGoesOn => ~capturing'
      BY DEF StopGoesOn, RunInv
    <2>9. StartGoesOn \/ StartFails \/ StopEnds \/ SetPeriodic
               => UNCHANGED <<capturing, sync_count>>
      BY DEF StartGoesOn, StartFails, StopEnds, SetPeriodic, syncVars, histVars
    <2> QED
      BY <1>7, <2>4, <2>5, <2>6, <2>7, <2>8, <2>9 DEF Reading
  <1> QED
    BY Actions, <1>1, <1>2, <1>3, <1>4, <1>5, <1>6, <1>7

(* No broadcast is followed at first.                                       *)
LEMMA BigInit == Init => BigInv
  BY DEF Init, BigInv, Granted, NoCommand, Threads

(* Every broadcast granted, or made, is held, or its end is to be heard.    *)
Joins(e) == Grants(e, "big") \/ e.kind = "big_made"

BigTold ==
  \A i \in 1 .. Len(hci_rx) : Joins(hci_rx[i]) => BigCovered(i + 1) \/ ResetAnswered

(* So is what big_synced says, or is about to.                              *)
BigKept == capturing /\ (big_synced \/ Granted("big")) => BigCovered(1)

(* The two halves of BigInv.                                                *)
LEMMA BigParts == BigInv <=> (~lateReset => BigTold /\ BigKept)
  BY DEF BigInv, BigTold, BigKept, Grants, Joins

(* An event more.                                                           *)
LEMMA BigAppend ==
  ASSUME Typed, NEW e \in Events, hci_rx' = Append(hci_rx, e), BigTold, BigKept,
         controller.big # "none" =>
           \/ ~Grants(e, "big") /\ (controller'.big # "none"
                \/ e.kind \in {"big_failed", "big_lost"})
           \/ ~capturing /\ Answer(e, "reset"),
         Joins(e) => controller'.big # "none",
         UNCHANGED <<cmd, capturing, big_synced>>
  PROVE  BigTold' /\ BigKept'
  <1> DEFINE ends == {"big_failed", "big_lost"}
  <1>1. hci_rx \in Seq(Events)
    BY DEF Typed, QueuesTyped
  <1>2. /\ Len(hci_rx) \in Nat /\ Len(hci_rx') = Len(hci_rx) + 1
        /\ hci_rx'[Len(hci_rx) + 1] = e
        /\ \A i \in 1 .. Len(hci_rx) : hci_rx'[i] = hci_rx[i]
    BY Appended
  <1>3. ASSUME NEW n \in 1 .. Len(hci_rx) + 1, BigCovered(n)
        PROVE  (~capturing /\ ResetAnswered') \/ BigCovered(n)'
    <2>1. CASE ~capturing /\ Answer(e, "reset")
      BY <2>1, ResetAnsweredAppend
    <2>2. CASE ~(~capturing /\ Answer(e, "reset"))
      <3>1. Covered(hci_rx, n, controller.big # "none", "big", ends)
        BY <1>3 DEF BigCovered
      <3>2. controller.big # "none" =>
              ~Grants(e, "big") /\ ((controller'.big # "none") \/ e.kind \in ends)
        BY <2>2
      <3> HIDE DEF ends
      <3>3. Covered(Append(hci_rx, e), n, controller'.big # "none", "big", ends)
        BY <1>1, <3>1, <3>2, CoveredAppend
      <3> USE DEF ends
      <3> QED
        BY <3>3 DEF BigCovered
    <2> QED
      BY <2>1, <2>2
  <1>4. BigTold'
    <2> SUFFICES ASSUME NEW i \in 1 .. Len(hci_rx'), Joins(hci_rx'[i])
                 PROVE  BigCovered(i + 1)' \/ ResetAnswered'
      BY DEF BigTold, Joins, Grants, Answer
    <2>1. CASE i \in 1 .. Len(hci_rx)
      <3>1. BigCovered(i + 1) \/ ResetAnswered
        BY <1>2, <2>1 DEF BigTold
      <3>2. i + 1 \in 1 .. Len(hci_rx) + 1
        BY <1>2, <2>1
      <3> QED
        BY <1>3, <3>1, <3>2, ResetAnsweredAppend
    <2>2. CASE i = Len(hci_rx) + 1
      <3>1. controller'.big # "none"
        BY <1>2, <2>2
      <3>2. i + 1 .. Len(hci_rx') = {}
        BY <1>2, <2>2
      <3> QED
        BY <3>1, <3>2 DEF BigCovered, Covered
    <2> QED
      BY <1>2, <2>1, <2>2
  <1>5. BigKept'
    <2>1. 1 \in 1 .. Len(hci_rx) + 1
      BY <1>2
    <2> QED
      BY <1>3, <2>1 DEF BigKept, Granted
  <1> QED
    BY <1>4, <1>5

(* An event heard.                                                          *)
LEMMA BigTail ==
  ASSUME Typed, ResetInv, ~lateReset, Forward, NEW n \in Nat \ {0},
         \/ BigCovered(n + 1)
         \/ n = 1 /\ BigCovered(1) /\ hci_rx[1].kind \notin {"big_failed", "big_lost"}
  PROVE  BigCovered(n)'
  <1> DEFINE ends == {"big_failed", "big_lost"}
  <1>1. hci_rx \in Seq(Events) /\ hci_rx # <<>> /\ hci_rx' = Tail(hci_rx)
             /\ UNCHANGED controller
    BY Forwarded DEF Typed, QueuesTyped
  <1>2. \/ Covered(hci_rx, n + 1, controller.big # "none", "big", ends)
        \/ /\ n = 1 /\ Covered(hci_rx, 1, controller.big # "none", "big", ends)
           /\ hci_rx[1].kind \notin ends
    BY DEF BigCovered
  <1> HIDE DEF ends
  <1>3. Covered(Tail(hci_rx), n, controller.big # "none", "big", ends)
    BY <1>1, <1>2, CoveredTail
  <1> USE DEF ends
  <1> QED
    BY <1>1, <1>3 DEF BigCovered

(* What is claimed of broadcasts is held, or its end is on the way.         *)
LEMMA BigNext ==
  Typed /\ CallInv /\ RunInv /\ ResetInv /\ BigInv /\ [Next]_vars => BigInv'
  <1> SUFFICES ASSUME Typed, CallInv, RunInv, ResetInv, BigInv, [Next]_vars, ~lateReset'
               PROVE  BigTold' /\ BigKept'
    BY BigParts DEF BigInv, BigTold, BigKept, Grants, Joins
  <1>t. "reader" \in Threads /\ "wq" \in Threads /\ Threads = {"wq", "reader"}
    BY DEF Threads
  <1>i. ~lateReset => BigTold /\ BigKept
    BY BigParts
  <1>s. ASSUME ~lateReset, UNCHANGED <<hci_rx, controller, capturing>>,
               big_synced' \/ Granted("big")' => big_synced \/ Granted("big")
        PROVE  BigTold' /\ BigKept'
    BY <1>s, <1>i DEF BigTold, BigKept, BigCovered, ResetAnswered, Joins, Grants, Answer
  <1>1. CASE Obeys \/ Refuses
    <2>1. ~lateReset /\ UNCHANGED <<cmd, capturing, big_synced>>
      BY <1>1, ControllerFrame
    <2>2. PICK e \in Events :
           /\ e.kind = "answer" /\ e.op = Head(given) /\ given # <<>>
           /\ hci_rx' = Append(hci_rx, e)
           /\ e.op = "reset" \/ (controller.big # "none" =>
                                     controller'.big # "none" /\ ~Grants(e, "big"))
           /\ Grants(e, "big") => controller'.big # "none"
      BY <1>1, AnsweredEnds
    <2>3. capturing => e.op # "reset"
      BY <2>1, <2>2, NoResetInCapture
    <2>4. controller.big # "none" =>
           \/ ~Grants(e, "big") /\ (controller'.big # "none"
                \/ e.kind \in {"big_failed", "big_lost"})
           \/ ~capturing /\ Answer(e, "reset")
      BY <2>2, <2>3 DEF Answer
    <2>5. Joins(e) => controller'.big # "none"
      BY <2>2 DEF Joins
    <2> QED
      BY <1>i, <2>1, <2>2, <2>4, <2>5, BigAppend
  <1>2. CASE Announces \/ TrainChanges \/ BigChanges
    <2>1. ~lateReset /\ UNCHANGED <<cmd, capturing, big_synced>>
      BY <1>2, ControllerFrame
    <2>2. PICK k \in Kinds \ {"answer"} :
           /\ hci_rx' = Append(hci_rx, Event(k)) /\ Event(k) \in Events
           /\ controller.big # "none" =>
                controller'.big # "none" \/ k \in {"big_failed", "big_lost"}
           /\ k = "big_made" => controller'.big # "none"
      BY <1>2, ReportedEnds
    <2>3. Event(k).kind = k /\ ~Grants(Event(k), "big")
      BY DEF Event, Grants, Answer
    <2>4. controller.big # "none" =>
            controller'.big # "none" \/ Event(k).kind \in {"big_failed", "big_lost"}
      BY <2>2, <2>3
    <2>5. Joins(Event(k)) => controller'.big # "none"
      BY <2>2, <2>3 DEF Joins
    <2> QED
      BY <1>i, <2>1, <2>2, <2>3, <2>4, <2>5, BigAppend
  <1>3. CASE Stutter \/ RetryDue
    BY <1>3, <1>s, ControllerFrame, RetryFrame DEF Granted, Stutter, allButThrough,
       ctlVars, histVars, bigVars
  <1>4. ASSUME NEW t \in Threads, Sends(t) \/ TimesOut(t) PROVE BigTold' /\ BigKept'
    <2>1. ~lateReset
      BY <1>4, Sent, TimedOut
    <2>2. UNCHANGED <<hci_rx, controller, capturing, big_synced>>
      BY <1>4, CommandFrame
    <2>3. cmd'["wq"] = cmd["wq"] \/ cmd'["wq"].at # "accepted"
      <3>1. CASE t = "reader"
        BY <1>4, <1>t, <3>1, Bystander
      <3>2. CASE t = "wq" /\ Sends("wq")
        <4>1. \/ cmd'["wq"] = [at |-> "wait", op |-> cmd["wq"].op]
              \/ cmd'["wq"] = [at |-> "failed", op |-> cmd["wq"].op]
          BY <1>t, <3>2, Sent
        <4> QED
          BY <4>1
      <3>3. CASE t = "wq" /\ TimesOut("wq")
        <4>1. cmd'["wq"] = [at |-> "failed", op |-> cmd["wq"].op]
          BY <1>t, <3>3, TimedOut
        <4> QED
          BY <4>1
      <3> QED
        BY <1>4, <1>t, <3>1, <3>2, <3>3
    <2>4. Granted("big")' => Granted("big")
      BY <2>3 DEF Granted
    <2> QED
      BY <1>s, <2>1, <2>2, <2>4
  <1>5. CASE Forward
    <2>1. ~lateReset /\ hci_rx # <<>> /\ UNCHANGED capturing
      BY <1>5, Forwarded
    <2>2. /\ Len(hci_rx) \in Nat /\ Len(hci_rx') = Len(hci_rx) - 1 /\ 1 \in 1 .. Len(hci_rx)
          /\ \A i \in 1 .. Len(hci_rx') : i + 1 \in 1 .. Len(hci_rx)
               /\ hci_rx'[i] = hci_rx[i + 1]
      BY <1>5, <2>1, Forwarded, FirstEvent
    <2>3. BigTold'
      <3> SUFFICES ASSUME NEW i \in 1 .. Len(hci_rx'), Joins(hci_rx'[i])
                   PROVE  BigCovered(i + 1)' \/ ResetAnswered'
        BY DEF BigTold, Joins, Grants, Answer
      <3>1. BigCovered(i + 1 + 1) \/ ResetAnswered
        BY <1>i, <2>1, <2>2 DEF BigTold
      <3>2. Len(hci_rx) > 1 /\ i + 1 \in Nat \ {0}
        BY <2>2
      <3> QED
        BY <1>5, <2>1, <3>1, <3>2, BigTail, ResetAnsweredTail
    <2>4. BigKept'
      <3> SUFFICES ASSUME capturing, big_synced' \/ Granted("big")' PROVE BigCovered(1)'
        BY <2>1 DEF BigKept
      <3>1. ~Granted("big") /\ (Granted("big")' => Grants(hci_rx[1], "big"))
        BY <1>5, NotGrantedYet
      <3>2. 1 \in Nat \ {0}
        OBVIOUS
      <3>3. \/ Joins(hci_rx[1])
            \/ big_synced /\ hci_rx[1].kind \notin {"big_failed", "big_lost"}
        <4>1. running
          BY <2>1 DEF RunInv
        <4> DEFINE e == Head(hci_rx)
        <4> HIDE DEF e
        <4>2. e = hci_rx[1]
          BY <2>1, FirstEvent DEF e
        <4>3. NoteAnswer(e) \/ NoteSync(e) \/ NoteBig(e) \/ NotePeriodic(e) \/ NoteBigInfo(e)
          BY <1>5, <4>1, Forwarded DEF e
        <4>4. \/ big_synced' = big_synced
                   /\ e.kind \notin {"big_made", "big_failed", "big_lost"}
              \/ /\ big_synced' = (e.kind = "big_made")
                 /\ e.kind \in {"big_made", "big_failed", "big_lost"}
          BY <4>3 DEF NoteAnswer, NoteSync, NoteBig, NotePeriodic, NoteBigInfo, bigVars
        <4>5. Granted("big")' => Joins(e)
          BY <3>1, <4>2 DEF Joins
        <4>6. big_synced' => Joins(e) \/ (big_synced
                   /\ e.kind \notin {"big_failed", "big_lost"})
          BY <4>4 DEF Joins
        <4> QED
          BY <4>2, <4>5, <4>6
      <3>4. CASE Joins(hci_rx[1])
        <4>1. BigCovered(1 + 1) /\ ~lateReset
          BY <1>i, <2>1, <2>2, <3>4, NoResetInCapture DEF BigTold
        <4> QED
          BY <1>5, <3>2, <4>1, BigTail
      <3>5. CASE big_synced /\ hci_rx[1].kind \notin {"big_failed", "big_lost"}
        <4>1. BigCovered(1) /\ ~lateReset
          BY <1>i, <2>1, <3>5 DEF BigKept
        <4> QED
          BY <1>5, <3>2, <3>5, <4>1, BigTail
      <3> QED
        BY <3>3, <3>4, <3>5
    <2> QED
      BY <2>3, <2>4
  <1>6. CASE Working
    <2>1. ~lateReset /\ UNCHANGED <<hci_rx, controller, capturing>>
      BY <1>6, WorkFrame
    <2>2. big_synced' \/ Granted("big")' => big_synced \/ Granted("big")
      <3>1. CASE BigWorkOn
        <4>1. /\ wq = "big" /\ Returned("wq") /\ Unlocks("wq", NoCommand)
              /\ cmd["wq"].at = "accepted" \/ big_synced' = big_synced
          BY <3>1 DEF BigWorkOn
        <4>2. cmd["wq"].op = "big"
          BY <4>1 DEF CallInv, Returned, WorkOp
        <4>3. cmd["wq"] = [at |-> cmd["wq"].at, op |-> cmd["wq"].op]
          BY <1>t DEF Typed, CmdTyped
        <4>4. cmd["wq"].at = "accepted" => Granted("big")
          BY <4>2, <4>3 DEF Granted
        <4>5. ~Granted("big")'
          BY <1>t, <4>1, Over DEF Granted, NoCommand
        <4> QED
          BY <4>1, <4>4, <4>5
      <3>2. CASE ~BigWorkOn
        <4>1. UNCHANGED big_synced
          BY <1>6, <3>2 DEF Working, WqBegins, SyncWork, SyncWorkOn, BigWork, IsoWork,
               IsoWorkOn,
             bigVars
        <4>2. \/ UNCHANGED cmd \/ cmd'["wq"] = NoCommand
              \/ \E o \in {"sync", "big", "path"} : cmd'["wq"] = Call(o)
          BY <1>6, WorkCommands
        <4>3. Granted("big")' => Granted("big")
          BY <4>2 DEF Granted, NoCommand, Call
        <4> QED
          BY <4>1, <4>3
      <3> QED
        BY <3>1, <3>2
    <2> QED
      BY <1>s, <2>1, <2>2
  <1>7. CASE Reading
    <2>1. ~lateReset /\ UNCHANGED <<hci_rx, controller>> /\ cmd'["wq"] = cmd["wq"]
      BY <1>7, ReaderCommands, ReaderFrame
    <2>2. BigTold' /\ (BigCovered(1) => BigCovered(1)')
      BY <1>i, <2>1 DEF BigTold, BigCovered, ResetAnswered, Joins, Grants, Answer
    <2>3. Granted("big")' <=> Granted("big")
      BY <2>1 DEF Granted
    <2>4. CASE ScanStarted
      <3>1. MayRun("reader") /\ reader = "started" /\ big_synced' = FALSE
        BY <2>4 DEF ScanStarted
      <3>2. cmd["reader"].at = "idle"
        BY <3>1 DEF CallInv, NoCommand
      <3>3. ~Granted("big")
        BY <3>1, <3>2, WqParked DEF Granted, NoCommand
      <3> QED
        BY <2>2, <2>3, <3>1, <3>3 DEF BigKept
    <2>5. CASE ~capturing'
      BY <2>2, <2>5 DEF BigKept
    <2>6. CASE UNCHANGED <<capturing, big_synced>>
      BY <1>s, <2>1, <2>3, <2>6
    <2>7. StartBegins \/ StopBegins => ~capturing'
      BY DEF StartBegins, StopBegins
    <2>8. StopGoesOn => ~capturing'
      BY DEF StopGoesOn, RunInv
    <2>9. StartGoesOn \/ StartFails \/ StopEnds \/ SetPeriodic
               => UNCHANGED <<capturing, big_synced>>
      BY DEF StartGoesOn, StartFails, StopEnds, SetPeriodic, bigVars, histVars
    <2> QED
      BY <1>7, <2>4, <2>5, <2>6, <2>7, <2>8, <2>9 DEF Reading
  <1> QED
    BY Actions, <1>1, <1>2, <1>3, <1>4, <1>5, <1>6, <1>7

(* Nothing is under way at first.                                           *)
LEMMA QuietInit == Init => QuietInv
  BY DEF Init, QuietInv, Settled, Reset

(* Whoever waits does nothing else.                                         *)
LEMMA WaitsOn ==
  ASSUME Typed, CallInv, Working \/ Reading, NEW op, WaitsFor(op)
  PROVE  WaitsFor(op)'
  <1>1. CASE Working
    <2>1. cmd'["reader"] = cmd["reader"]
      BY <1>1, WorkCommands
    <2>2. cmd["wq"].at = "wait" => cmd'["wq"] = cmd["wq"]
      BY <1>1, WorkCommands DEF WqBegins, Returned
    <2> QED
      BY <2>1, <2>2 DEF WaitsFor, Threads
  <1>2. CASE Reading
    <2>1. cmd'["wq"] = cmd["wq"]
      BY <1>2, ReaderCommands
    <2>2. StartBegins \/ StopGoesOn => cmd["reader"].at = "idle"
      BY DEF StartBegins, StopGoesOn, CallInv, NoCommand
    <2>3. cmd["reader"].at = "wait" => cmd'["reader"] = cmd["reader"]
      BY <1>2, <2>2, ReaderCommands DEF Returned
    <2> QED
      BY <2>1, <2>3 DEF WaitsFor, Threads
  <1> QED
    BY <1>1, <1>2

(* Of a stream it is the work queue that waits, and for one there is.       *)
LEMMA WaitsForPath ==
  ASSUME Typed, CallInv, WaitsFor("path")
  PROVE  /\ cmd["wq"] = [at |-> "wait", op |-> "path"] /\ wq = "iso"
         /\ stream \in 0 .. MaxBis - 1
  <1>1. PICK t \in Threads : cmd[t] = [at |-> "wait", op |-> "path"]
    BY DEF WaitsFor
  <1>2. t = "wq" /\ wq = "iso"
    BY <1>1, InCommand DEF Threads, WorkOp
  <1>3. stream < MaxBis
    BY <1>1, <1>2 DEF Typed, WorkFits
  <1>4. stream \in 0 .. MaxBis - 1
    BY <1>3, FollowAssumption DEF Typed, Places
  <1> QED
    BY <1>1, <1>2, <1>4

(* Whoever has the lock to send, nobody waits.                              *)
LEMMA NobodyWaits ==
  ASSUME Typed, CallInv, NEW t \in Threads, Sends(t), NEW op
  PROVE  ~WaitsFor(op)
  <1>1. cmd[t].at = "lock" /\ cmd_lock \in {"none", t}
    BY Sent
  <1>2. ASSUME NEW u \in Threads, cmd[u] = [at |-> "wait", op |-> op] PROVE FALSE
    <2>1. cmd_lock = u
      BY <1>2 DEF CallInv, Holds
    <2>2. u = t
      BY <1>1, <2>1 DEF Threads
    <2> QED
      BY <1>1, <1>2, <2>2
  <1> QED
    BY <1>2 DEF WaitsFor

(* One command given, and waited for; or one answer, and waited for.        *)
GivenQuiet == given # <<>> => Len(given) = 1 /\ WaitsFor(given[1])

AnswerQuiet ==
  \A i \in 1 .. Len(hci_rx) :
    hci_rx[i].kind = "answer" =>
      /\ WaitsFor(hci_rx[i].op) /\ given = <<>>
      /\ \A j \in 1 .. Len(hci_rx) : hci_rx[j].kind = "answer" => i = j

PathsQuiet == Settled \subseteq 0 .. MaxBis - 1

(* The parts of QuietInv.                                                   *)
LEMMA QuietParts == QuietInv <=> (~silent => GivenQuiet /\ AnswerQuiet /\ PathsQuiet
     /\ ~lateReset)
  BY DEF QuietInv, GivenQuiet, AnswerQuiet, PathsQuiet

(* The streams set up are a broadcast's.                                    *)
LEMMA PathsQuietNext ==
  ASSUME Typed, CallInv, GivenQuiet, PathsQuiet, [Next]_vars
  PROVE  PathsQuiet'
  <1>0. controller \in [scanning : BOOLEAN, train : States, big : States,
                        paths : SUBSET (0 .. MaxBis), denied : SUBSET (0 .. MaxBis)]
    BY DEF Typed, ControllerTyped
  <1>1. CASE Obeys \/ Refuses
    <2> DEFINE op == Head(given)
    <2>1. given # <<>> /\ (controller' = Denied(op) \/ controller' = Obeyed(op))
      BY <1>1, Answered
    <2>2. op \in Ops /\ WaitsFor(op)
      BY <2>1, Given DEF GivenQuiet
    <2> HIDE DEF op
    <2>3. op = "path" => stream \in 0 .. MaxBis - 1
      BY <2>2, WaitsForPath
    <2>4. /\ op \in {"reset", "big"} => Obeyed(op).paths = {} /\ Obeyed(op).denied = {}
          /\ op = "path" => /\ Obeyed(op).paths = controller.paths \cup {stream}
                            /\ Obeyed(op).denied = controller.denied
          /\ op \in {"enable", "config", "sync"} =>
               Obeyed(op).paths = controller.paths /\ Obeyed(op).denied = controller.denied
      BY <1>0 DEF Obeyed, Reset
    <2>5. Obeyed(op).paths \cup Obeyed(op).denied \subseteq 0 .. MaxBis - 1
      BY <2>2, <2>3, <2>4 DEF PathsQuiet, Settled, Ops
    <2>6. Denied(op).paths \cup Denied(op).denied \subseteq 0 .. MaxBis - 1
      BY <2>3, DeniedKeeps DEF PathsQuiet, Settled
    <2> QED
      BY <2>1, <2>5, <2>6 DEF PathsQuiet, Settled
  <1>2. CASE Announces \/ TrainChanges \/ BigChanges \/ Stutter
    <2>1. controller'.paths = controller.paths /\ controller'.denied = controller.denied
      BY <1>0, <1>2 DEF Announces, TrainChanges, BigChanges, Train, Big, Stutter,
         allButThrough, ctlVars
    <2> QED
      BY <2>1 DEF PathsQuiet, Settled
  <1>3. ASSUME NEW t \in Threads, Sends(t) \/ TimesOut(t) PROVE PathsQuiet'
    BY <1>3, CommandFrame DEF PathsQuiet, Settled
  <1>4. CASE RetryDue \/ Forward \/ Working \/ Reading
    BY <1>4, RetryFrame, Forwarded, WorkFrame, ReaderFrame DEF PathsQuiet, Settled
  <1> QED
    BY Actions, <1>1, <1>2, <1>3, <1>4

(* Until a command is given up on, one at a time is under way.              *)
LEMMA QuietNext == Typed /\ CallInv /\ QuietInv /\ [Next]_vars => QuietInv'
  <1> SUFFICES ASSUME Typed, CallInv, QuietInv, [Next]_vars, ~silent'
               PROVE  GivenQuiet' /\ AnswerQuiet' /\ PathsQuiet' /\ ~lateReset'
    BY QuietParts DEF QuietInv, GivenQuiet, AnswerQuiet, PathsQuiet
  <1>i. ~silent => GivenQuiet /\ AnswerQuiet /\ PathsQuiet /\ ~lateReset
    BY QuietParts
  <1>g. given \in Seq(Ops) /\ hci_rx \in Seq(Events)
    BY DEF Typed, QueuesTyped
  <1>p. ~silent => PathsQuiet'
    BY <1>i, PathsQuietNext
  <1>1. CASE Obeys \/ Refuses
    <2>1. ~silent /\ UNCHANGED <<cmd, lateReset>>
      BY <1>1, ControllerFrame
    <2>2. PICK e \in Events :
            e.kind = "answer" /\ e.op = Head(given) /\ given # <<>>
                 /\ hci_rx' = Append(hci_rx, e)
      BY <1>1, AnsweredEnds
    <2>3. Len(given) = 1 /\ WaitsFor(given[1]) /\ given[1] = Head(given) /\ given' = <<>>
      BY <1>1, <1>i, <2>1, <2>2, Given, Answered DEF GivenQuiet
    <2>4. \A i \in 1 .. Len(hci_rx) : hci_rx[i].kind # "answer"
      BY <1>i, <2>1, <2>2 DEF AnswerQuiet
    <2>5. /\ Len(hci_rx) \in Nat /\ Len(hci_rx') = Len(hci_rx) + 1
          /\ hci_rx'[Len(hci_rx) + 1] = e
          /\ \A i \in 1 .. Len(hci_rx) : hci_rx'[i] = hci_rx[i]
      BY <2>2, Appended
    <2>6. \A i \in 1 .. Len(hci_rx') : hci_rx'[i].kind = "answer" => i = Len(hci_rx) + 1
      BY <2>4, <2>5
    <2>7. WaitsFor(e.op)'
      BY <2>1, <2>2, <2>3 DEF WaitsFor
    <2>8. ASSUME NEW i \in 1 .. Len(hci_rx'), hci_rx'[i].kind = "answer"
          PROVE  \E t \in Threads : cmd'[t] = [at |-> "wait", op |-> hci_rx'[i].op]
      <3>1. hci_rx'[i] = e
        BY <2>5, <2>6, <2>8
      <3> QED
        BY <2>7, <3>1 DEF WaitsFor
    <2>9. AnswerQuiet'
      BY <2>3, <2>6, <2>8 DEF AnswerQuiet, WaitsFor
    <2> QED
      BY <1>i, <1>p, <2>1, <2>3, <2>9 DEF GivenQuiet
  <1>2. CASE Announces \/ TrainChanges \/ BigChanges
    <2>1. ~silent /\ UNCHANGED <<cmd, lateReset>> /\ UNCHANGED given
      BY <1>2, ControllerFrame, Reported
    <2>2. PICK k \in Kinds \ {"answer"} : hci_rx' = Append(hci_rx, Event(k))
      BY <1>2, Reported
    <2>5. /\ Len(hci_rx) \in Nat /\ Len(hci_rx') = Len(hci_rx) + 1
          /\ hci_rx'[Len(hci_rx) + 1] = Event(k)
          /\ \A i \in 1 .. Len(hci_rx) : hci_rx'[i] = hci_rx[i]
      BY <2>2, Appended
    <2>6. \A i \in 1 .. Len(hci_rx') :
            hci_rx'[i].kind = "answer" => i \in 1 .. Len(hci_rx) /\ hci_rx'[i] = hci_rx[i]
      BY <2>5 DEF Event
    <2>7. AnswerQuiet'
      BY <1>i, <2>1, <2>6 DEF AnswerQuiet, WaitsFor
    <2>8. GivenQuiet'
      BY <1>i, <2>1 DEF GivenQuiet, WaitsFor
    <2> QED
      BY <1>i, <1>p, <2>1, <2>7, <2>8
  <1>3. CASE Stutter \/ RetryDue
    <2>1. ~silent /\ UNCHANGED <<cmd, lateReset, given, hci_rx>>
      BY <1>3, ControllerFrame, RetryFrame DEF Stutter, allButThrough, ctlVars
    <2> QED
      BY <1>i, <1>p, <2>1 DEF GivenQuiet, AnswerQuiet, WaitsFor
  <1>4. ASSUME NEW t \in Threads, Sends(t)
        PROVE  GivenQuiet' /\ AnswerQuiet' /\ PathsQuiet' /\ ~lateReset'
    <2>1. /\ ~silent /\ UNCHANGED <<lateReset, hci_rx>>
          /\ cmd'[t] = [at |-> "wait", op |-> cmd[t].op]
          /\ given' = Append(given, cmd[t].op)
      BY <1>4, Sent, CommandFrame
    <2>2. given = <<>>
      BY <1>i, <1>4, <2>1, NobodyWaits DEF GivenQuiet
    <2>3. \A i \in 1 .. Len(hci_rx) : hci_rx[i].kind # "answer"
      BY <1>i, <1>4, <2>1, NobodyWaits DEF AnswerQuiet
    <2>4. Len(given') = 1 /\ given'[1] = cmd[t].op
      BY <2>1, <2>2
    <2>5. \E u \in Threads : cmd'[u] = [at |-> "wait", op |-> given'[1]]
      BY <2>1, <2>4 DEF WaitsFor
    <2>6. GivenQuiet'
      BY <2>4, <2>5 DEF GivenQuiet, WaitsFor
    <2> QED
      BY <1>i, <1>p, <2>1, <2>3, <2>6 DEF AnswerQuiet
  <1>5. ASSUME NEW t \in Threads, TimesOut(t) PROVE FALSE
    BY <1>5, TimedOut
  <1>6. CASE Forward
    <2>1. ~silent /\ UNCHANGED <<given, lateReset>> /\ hci_rx # <<>> /\ hci_rx' = Tail(hci_rx)
      BY <1>6, Forwarded
    <2>2. /\ Len(hci_rx) \in Nat /\ Len(hci_rx') = Len(hci_rx) - 1 /\ 1 \in 1 .. Len(hci_rx)
          /\ \A i \in 1 .. Len(hci_rx') : i + 1 \in 1 .. Len(hci_rx)
               /\ hci_rx'[i] = hci_rx[i + 1]
      BY <2>1, FirstEvent
    <2>3. CASE hci_rx[1].kind = "answer"
      <3>1. given' = <<>> /\ \A j \in 1 .. Len(hci_rx) : hci_rx[j].kind = "answer" => 1 = j
        BY <1>i, <2>1, <2>2, <2>3 DEF AnswerQuiet
      <3>2. \A i \in 1 .. Len(hci_rx') : hci_rx'[i].kind # "answer"
        BY <2>2, <3>1
      <3> QED
        BY <1>i, <1>p, <2>1, <3>1, <3>2 DEF AnswerQuiet, GivenQuiet
    <2>4. CASE hci_rx[1].kind # "answer"
      <3>1. UNCHANGED cmd
        <4>1. Head(hci_rx).kind # "answer"
          BY <2>1, <2>4, FirstEvent
        <4> QED
          BY <1>6, <4>1, Forwarded, NotAnswered DEF NoteAnswer, cmdVars
      <3>2. ASSUME NEW i \in 1 .. Len(hci_rx'), hci_rx'[i].kind = "answer"
            PROVE  /\ \E t \in Threads : cmd'[t] = [at |-> "wait", op |-> hci_rx'[i].op]
                   /\ given' = <<>>
                   /\ \A j \in 1 .. Len(hci_rx') : hci_rx'[j].kind = "answer" => i = j
        <4>1. i + 1 \in 1 .. Len(hci_rx) /\ hci_rx[i + 1] = hci_rx'[i]
          BY <2>2
        <4>2. /\ WaitsFor(hci_rx'[i].op) /\ given = <<>>
              /\ \A j \in 1 .. Len(hci_rx) : hci_rx[j].kind = "answer" => i + 1 = j
          BY <1>i, <2>1, <3>2, <4>1 DEF AnswerQuiet
        <4>3. ASSUME NEW j \in 1 .. Len(hci_rx'), hci_rx'[j].kind = "answer" PROVE i = j
          <5>1. j + 1 \in 1 .. Len(hci_rx) /\ hci_rx[j + 1].kind = "answer"
            BY <2>2, <4>3
          <5>2. i + 1 = j + 1
            BY <4>2, <5>1
          <5> QED
            BY <2>2, <5>2
        <4> QED
          BY <2>1, <3>1, <4>2, <4>3 DEF WaitsFor
      <3>3. AnswerQuiet'
        BY <3>2 DEF AnswerQuiet, WaitsFor
      <3> QED
        BY <1>i, <1>p, <2>1, <3>1, <3>3 DEF GivenQuiet, WaitsFor
    <2> QED
      BY <2>3, <2>4
  <1>7. CASE Working \/ Reading
    <2>1. ~silent /\ UNCHANGED <<given, hci_rx, lateReset>>
      BY <1>7, WorkFrame, ReaderFrame
    <2>2. \A op : WaitsFor(op) => WaitsFor(op)'
      BY <1>7, WaitsOn
    <2>3. GivenQuiet'
      BY <1>i, <2>1, <2>2 DEF GivenQuiet, WaitsFor
    <2>4. AnswerQuiet'
      BY <1>i, <2>1, <2>2 DEF AnswerQuiet, WaitsFor
    <2> QED
      BY <1>i, <1>p, <2>1, <2>3, <2>4
  <1> QED
    BY Actions, <1>1, <1>2, <1>3, <1>4, <1>5, <1>6, <1>7

(* No broadcast is synced at first.                                         *)
LEMMA PathInit == Init => PathInv
  BY DEF Init, PathInv, Reset

BigNews == {"big_made", "big_lost", "big_failed"}

(* That a broadcast was made is heard after that it was granted, and first  *)
(* of all when that has just been heard.                                    *)
MadeTold ==
  /\ \A i \in 1 .. Len(hci_rx) : Grants(hci_rx[i], "big") => MadeUnheard(i + 1)
  /\ Granted("big") => MadeUnheard(1)

PathKept ==
  capturing /\ big_synced /\ ~InFlight(BigNews) => bis_count = MaxBis /\ PathsComing

(* The two halves of PathInv.                                               *)
LEMMA PathParts ==
  PathInv <=> (~silent /\ controller.big = "synced" => MadeTold /\ PathKept)
  BY DEF PathInv, MadeTold, PathKept, Grants, BigNews

(* An event more takes nothing back.                                        *)
LEMMA NewsAppend ==
  ASSUME Typed, NEW e, hci_rx' = Append(hci_rx, e), MadeTold \/ e.kind = "big_made",
         Grants(e, "big") => FALSE, UNCHANGED cmd
  PROVE  /\ MadeTold'
         /\ InFlight(BigNews) => InFlight(BigNews)'
         /\ e.kind \in BigNews => InFlight(BigNews)'
  <1>1. /\ Len(hci_rx) \in Nat /\ Len(hci_rx') = Len(hci_rx) + 1
        /\ hci_rx'[Len(hci_rx) + 1] = e
        /\ \A i \in 1 .. Len(hci_rx) : hci_rx'[i] = hci_rx[i]
    BY Appended
  <1>2. ASSUME NEW n \in 1 .. Len(hci_rx) + 1, MadeUnheard(n) \/ e.kind = "big_made"
        PROVE  MadeUnheard(n)'
    BY <1>1, <1>2 DEF MadeUnheard
  <1>3. ASSUME NEW i \in 1 .. Len(hci_rx'), Grants(hci_rx'[i], "big")
        PROVE  MadeUnheard(i + 1)'
    <2>1. i \in 1 .. Len(hci_rx) /\ Grants(hci_rx[i], "big")
      BY <1>1, <1>3
    <2>2. i + 1 \in 1 .. Len(hci_rx) + 1
      BY <1>1, <2>1
    <2> QED
      BY <1>2, <2>1, <2>2 DEF MadeTold
  <1>4. Granted("big")' => MadeUnheard(1)'
    <2>1. 1 \in 1 .. Len(hci_rx) + 1
      BY <1>1
    <2> QED
      BY <1>2, <2>1 DEF MadeTold, Granted
  <1>5. MadeTold'
    BY <1>3, <1>4 DEF MadeTold, Grants, Answer
  <1>6. /\ InFlight(BigNews) => InFlight(BigNews)'
        /\ e.kind \in BigNews => InFlight(BigNews)'
    BY <1>1 DEF InFlight, BigNews
  <1> QED
    BY <1>5, <1>6

(* The work queue waits alone.                                              *)
LEMMA WqAlone ==
  ASSUME Typed, CallInv, NEW op, WaitsFor(op), cmd["wq"].at = "wait"
  PROVE  cmd["wq"].op = op
  <1>1. PICK t \in Threads : cmd[t] = [at |-> "wait", op |-> op]
    BY DEF WaitsFor
  <1>2. t = "wq"
    BY <1>1 DEF CallInv, Holds, Threads
  <1> QED
    BY <1>1, <1>2

(* The controller obeys, or refuses.                                        *)
LEMMA PathAnswered ==
  ASSUME Typed, CallInv, GivenQuiet, AnswerQuiet, PathsComing, Obeys \/ Refuses,
         controller.big = "synced", controller'.big = "synced"
  PROVE  PathsComing'
  <1> DEFINE op == Head(given)
  <1>0. controller \in [scanning : BOOLEAN, train : States, big : States,
                        paths : SUBSET (0 .. MaxBis), denied : SUBSET (0 .. MaxBis)]
    BY DEF Typed, ControllerTyped
  <1>1. UNCHANGED <<queue, wq, stream, cmd>>
    BY ControllerFrame
  <1>2. given # <<>> /\ op \in Ops /\ WaitsFor(op)
    BY Answered, Given DEF GivenQuiet
  <1>3. \A i \in 1 .. Len(hci_rx) : hci_rx[i].kind # "answer"
    BY <1>2 DEF AnswerQuiet
  <1>4. /\ controller' = Obeyed(op) \/ controller' = Denied(op)
        /\ \E b \in BOOLEAN :
             hci_rx' = Append(hci_rx, [kind |-> "answer", op |-> op, ok |-> b])
    BY Answered
  <1> HIDE DEF op
  <1>5. CanObey("path")
    BY DEF CanObey
  <1>6. /\ op = "reset" => Obeyed(op).big = "none"
        /\ op = "big" => Obeyed(op).big = "pending"
        /\ op = "path" => /\ Obeyed(op).paths = controller.paths \cup {stream}
                          /\ Obeyed(op).denied = controller.denied
        /\ op \in {"enable", "config", "sync"} =>
             Obeyed(op).paths = controller.paths /\ Obeyed(op).denied = controller.denied
    BY <1>0 DEF Obeyed, Reset
  <1>7. Settled \subseteq Settled' /\ (op = "path" => stream \in Settled')
    <2>1. CASE controller' = Obeyed(op)
      BY <1>2, <1>6, <2>1 DEF Ops, Settled
    <2>2. CASE controller' = Denied(op)
      BY <1>5, <2>2, DeniedKeeps DEF Settled
    <2> QED
      BY <1>4, <2>1, <2>2
  <1>9. ASSUME wq = "iso", PathGoing PROVE PathGoing'
    <2>1. CASE cmd["wq"].at # "wait"
      BY <1>1, <1>7, <1>9, <2>1 DEF PathGoing
    <2>2. CASE cmd["wq"].at = "wait"
      <3>1. op = "path"
        BY <1>2, <1>9, <2>2, WqAlone DEF CallInv, WorkOp
      <3>2. stream' \in Settled'
        BY <1>1, <1>7, <3>1
      <3> QED
        BY <1>1, <2>2, <3>2 DEF PathGoing
    <2> QED
      BY <2>1, <2>2
  <1> QED
    BY <1>1, <1>7, <1>9 DEF PathsComing

(* An event is heard.                                                       *)
LEMMA PathHeard ==
  ASSUME Typed, CallInv, PathsComing, Forward
  PROVE  PathsComing'
  <1>1. UNCHANGED <<wq, stream, controller>> /\ hci_rx # <<>> /\ hci_rx' = Tail(hci_rx)
    BY Forwarded
  <1> DEFINE e == Head(hci_rx)
  <1> HIDE DEF e
  <1>2. e \in Events /\ e = hci_rx[1]
    BY <1>1, FirstEvent DEF e
  <1>3. \/ NoteAnswer(e) \/ NoteSync(e) \/ NoteBig(e) \/ NotePeriodic(e) \/ NoteBigInfo(e)
        \/ UNCHANGED queue
    BY Forwarded DEF e
  <1>4. UNCHANGED queue \/ Submit("sync") \/ Submit("big") \/ Submit("iso")
    BY <1>3 DEF NoteAnswer, NoteSync, NoteBig, NotePeriodic, NoteBigInfo
  <1>5. ToSet(queue) \subseteq ToSet(queue')
    BY <1>4, Submitted
  <1>6. ASSUME PathGoing PROVE PathGoing'
    <2>1. /\ Len(hci_rx) \in Nat /\ Len(hci_rx') = Len(hci_rx) - 1 /\ 1 \in 1 .. Len(hci_rx)
          /\ \A i \in 1 .. Len(hci_rx') : i + 1 \in 1 .. Len(hci_rx)
               /\ hci_rx'[i] = hci_rx[i + 1]
      BY <1>1, FirstEvent
    <2>2. \/ cmd'["wq"] = cmd["wq"]
          \/ /\ cmd["wq"].at = "wait" /\ e.kind = "answer"
             /\ cmd'["wq"].at \in {"accepted", "failed"}
      <3>1. NoteAnswer(e) \/ UNCHANGED <<cmd_lock, cmd, pending>>
        BY Forwarded, NotAnswered DEF e, cmdVars
      <3>2. "wq" \in Threads
        BY DEF Threads
      <3>3. CASE NoteAnswer(e)
        <4>1. /\ e.kind = "answer"
              /\ \/ UNCHANGED cmd
                 \/ cmd'["wq"] = IF cmd["wq"].at = "wait"
                                 THEN [at |-> IF e.ok THEN "accepted" ELSE "failed",
                                       op |-> cmd["wq"].op]
                                 ELSE cmd["wq"]
          BY <1>2, <3>2, <3>3, Noted
        <4>2. CASE e.ok
          BY <4>1, <4>2
        <4>3. CASE ~e.ok
          BY <4>1, <4>3
        <4> QED
          BY <4>2, <4>3
      <3> QED
        BY <3>1, <3>3
    <2>3. CASE cmd["wq"].at = "wait"
      <3>s. Settled' = Settled /\ stream' = stream
        BY <1>1 DEF Settled
      <3>1. \A i \in 1 .. Len(hci_rx) : hci_rx[i].kind = "answer" => stream \in Settled
        BY <1>6, <2>3 DEF PathGoing
      <3>2. \A i \in 1 .. Len(hci_rx') : hci_rx'[i].kind = "answer" => stream' \in Settled'
        BY <2>1, <3>s, <3>1
      <3>3. e.kind = "answer" => stream' \in Settled'
        BY <1>2, <2>1, <3>s, <3>1
      <3> QED
        BY <2>2, <2>3, <3>2, <3>3 DEF PathGoing
    <2>4. CASE cmd["wq"].at # "wait"
      BY <1>1, <1>6, <2>2, <2>4 DEF PathGoing, Settled
    <2> QED
      BY <2>3, <2>4
  <1> QED
    BY <1>1, <1>5, <1>6 DEF PathsComing, Settled

(* What was appended is one event.                                          *)
LEMMA SameAppended ==
  ASSUME Typed, NEW e, NEW f, hci_rx' = Append(hci_rx, e), hci_rx' = Append(hci_rx, f)
  PROVE  e = f
  <1>1. hci_rx'[Len(hci_rx) + 1] = e
    BY Appended
  <1>2. hci_rx'[Len(hci_rx) + 1] = f
    BY Appended
  <1> QED
    BY <1>1, <1>2

(* The work queue goes on with its streams, or comes to them.               *)
LEMMA PathWorked ==
  ASSUME Typed, CallInv, PathsComing, Working, running, bis_count = MaxBis
  PROVE  PathsComing'
  <1>1. UNCHANGED <<hci_rx, controller, Settled>>
    BY WorkFrame DEF Settled
  <1>2. queue \in Seq({"sync", "big", "iso"}) /\ stream \in 0 .. MaxBis /\ MaxBis \in Nat \ {0}
    BY FollowAssumption DEF Typed, QueuesTyped, Places
  <1>t. "wq" \in Threads
    BY DEF Threads
  <1>3. CASE WqBegins
    <2>1. /\ wq = "idle" /\ queue # <<>> /\ wq' = Head(queue) /\ queue' = Tail(queue)
          /\ stream' = 0 /\ UNCHANGED cmd
      BY <1>3 DEF WqBegins, cmdVars
    <2>2. cmd["wq"].at = "idle"
      BY <2>1 DEF CallInv, NoCommand
    <2>3. ASSUME Head(queue) # "iso", "iso" \in ToSet(queue) PROVE "iso" \in ToSet(queue')
      <3>1. PICK i \in 1 .. Len(queue) : queue[i] = "iso"
        BY <2>3 DEF ToSet
      <3>2. i # 1 /\ i - 1 \in 1 .. Len(Tail(queue)) /\ Tail(queue)[i - 1] = "iso"
        BY <1>2, <2>1, <2>3, <3>1
      <3>3. i - 1 \in DOMAIN queue' /\ queue'[i - 1] = "iso"
        BY <1>2, <2>1, <3>2
      <3> QED
        BY <3>3 DEF ToSet
    <2>4. CASE wq' = "iso"
      <3>1. 0 .. stream' - 1 \subseteq Settled'
        BY <2>1
      <3> QED
        BY <2>1, <2>2, <2>4, <3>1 DEF PathsComing, PathGoing
    <2>5. CASE wq' # "iso"
      BY <1>1, <2>1, <2>3, <2>5 DEF PathsComing
    <2> QED
      BY <2>4, <2>5
  <1>4. CASE SyncWork \/ SyncWorkOn \/ BigWork \/ BigWorkOn
    <2>1. wq # "iso" /\ UNCHANGED queue
      BY <1>4 DEF SyncWork, SyncWorkOn, BigWork, BigWorkOn, WqEnds, wqVars
    <2> QED
      BY <1>1, <2>1 DEF PathsComing
  <1>5. CASE IsoWork
    <2>1. /\ wq = "iso" /\ cmd["wq"].at = "idle" /\ UNCHANGED <<queue, stream>>
          /\ IF stream < bis_count /\ running THEN Begins("wq", "path") /\ UNCHANGED wq
                                              ELSE TRUE
      BY <1>5 DEF IsoWork, WqEnds, wqVars
    <2>2. CASE stream < bis_count
      <3>1. cmd'["wq"].at = "lock" /\ wq' = "iso"
        BY <1>t, <2>1, <2>2 DEF Begins, Call, Typed, CmdTyped
      <3> QED
        BY <1>1, <2>1, <3>1 DEF PathsComing, PathGoing
    <2>3. CASE ~(stream < bis_count)
      <3>1. stream - 1 = MaxBis - 1
        BY <1>2, <2>3
      <3> QED
        BY <1>1, <2>1, <3>1 DEF PathsComing
    <2> QED
      BY <2>2, <2>3
  <1>6. CASE IsoWorkOn
    <2>1. /\ wq = "iso" /\ wq' = "iso" /\ UNCHANGED queue /\ stream' = stream + 1
          /\ Returned("wq") /\ Unlocks("wq", NoCommand)
      BY <1>6 DEF IsoWorkOn
    <2>2. cmd'["wq"].at = "idle"
      BY <1>t, <2>1, Over DEF NoCommand
    <2>3. ASSUME 0 .. stream - 1 \subseteq Settled, PathGoing
          PROVE  0 .. stream' - 1 \subseteq Settled'
      <3>1. stream \in Settled
        BY <2>1, <2>3 DEF PathGoing, Returned
      <3>2. 0 .. stream' - 1 = (0 .. stream - 1) \cup {stream}
        BY <1>2, <2>1
      <3> QED
        BY <1>1, <2>3, <3>1, <3>2
    <2> QED
      BY <1>1, <2>1, <2>2, <2>3 DEF PathsComing, PathGoing
  <1> QED
    BY <1>3, <1>4, <1>5, <1>6 DEF Working

(* The streams of a broadcast are set up, or will be.                       *)
LEMMA PathNext ==
  Typed /\ CallInv /\ RunInv /\ QuietInv /\ PathInv /\ [Next]_vars => PathInv'
  <1> SUFFICES ASSUME Typed, CallInv, RunInv, QuietInv, PathInv, [Next]_vars,
                      ~silent', controller'.big = "synced"
               PROVE  MadeTold' /\ PathKept'
    BY PathParts DEF PathInv, MadeTold, PathKept, Grants, BigNews
  <1>i. /\ ~silent => GivenQuiet /\ AnswerQuiet
        /\ ~silent /\ controller.big = "synced" => MadeTold /\ PathKept
    BY PathParts, QuietParts
  <1>t. "wq" \in Threads /\ "reader" \in Threads /\ Threads = {"wq", "reader"}
    BY DEF Threads
  <1>0. controller \in [scanning : BOOLEAN, train : States, big : States,
                        paths : SUBSET (0 .. MaxBis), denied : SUBSET (0 .. MaxBis)]
    BY DEF Typed, ControllerTyped
  <1>1. CASE Obeys \/ Refuses
    <2>1. ~silent /\ UNCHANGED <<cmd, capturing, big_synced, bis_count>>
      BY <1>1, ControllerFrame
    <2>2. PICK e \in Events : e.kind = "answer" /\ e.op = Head(given)
               /\ hci_rx' = Append(hci_rx, e)
      BY <1>1, AnsweredEnds
    <2>3. controller.big = "synced" /\ ~Grants(e, "big")
      <3> DEFINE op == Head(given)
                 answer(b) == [kind |-> "answer", op |-> op, ok |-> b]
      <3>1. op \in Ops
        BY <1>1, Answered, Given
      <3>2. \/ CanObey(op) /\ controller' = Obeyed(op) /\ hci_rx' = Append(hci_rx, answer(TRUE))
            \/ controller' = Denied(op) /\ hci_rx' = Append(hci_rx, answer(FALSE))
        BY <1>1, Answered
      <3>3. hci_rx' = Append(hci_rx, answer(FALSE)) => ~e.ok
        <4>1. answer(FALSE).ok = FALSE
          OBVIOUS
        <4> HIDE DEF answer
        <4>2. hci_rx' = Append(hci_rx, answer(FALSE)) => answer(FALSE) = e
          BY <2>2, SameAppended
        <4> QED
          BY <4>1, <4>2
      <3> HIDE DEF op
      <3>4. /\ op = "reset" => Obeyed(op).big = "none"
            /\ op = "big" => Obeyed(op).big = "pending"
            /\ op \in {"enable", "config", "sync", "path"} => Obeyed(op).big = controller.big
        BY <1>0 DEF Obeyed, Reset
      <3>d. Denied(op).big = controller.big
        BY DeniedKeeps
      <3>5. controller.big = "synced"
        BY <3>1, <3>2, <3>4, <3>d DEF Ops
      <3>6. op = "big" => ~e.ok
        BY <3>2, <3>3, <3>4
      <3> QED
        BY <2>2, <3>5, <3>6 DEF Grants, Answer, op
    <2>4. MadeTold' /\ (InFlight(BigNews) => InFlight(BigNews)')
      BY <1>i, <2>1, <2>2, <2>3, NewsAppend
    <2>5. PathKept'
      BY <1>1, <1>i, <2>1, <2>3, <2>4, PathAnswered DEF PathKept
    <2> QED
      BY <2>4, <2>5
  <1>2. CASE Announces \/ TrainChanges \/ BigChanges
    <2>1. /\ ~silent /\ UNCHANGED given
          /\ UNCHANGED <<cmd, capturing, big_synced, bis_count, queue, wq, stream>>
      BY <1>2, ControllerFrame, Reported
    <2>2. PICK k \in Kinds \ {"answer"} :
            /\ hci_rx' = Append(hci_rx, Event(k))
            /\ k = "big_made" \/ (controller.big = "synced"
                 /\ Settled' = Settled)
      <3>1. CASE Announces \/ TrainChanges
        <4>1. PICK k \in Kinds \ {"answer"} : hci_rx' = Append(hci_rx, Event(k))
          BY <1>2, Reported
        <4>2. /\ controller'.big = controller.big /\ controller'.paths = controller.paths
              /\ controller'.denied = controller.denied
          BY <1>0, <3>1 DEF Announces, TrainChanges, Train
        <4> QED
          BY <4>1, <4>2 DEF Settled
      <3>2. CASE BigChanges
        <4>1. PICK from \in {"pending", "synced"}, to \in {"synced", "none"},
                   k \in {"big_made", "big_failed", "big_lost"} :
                /\ Big(from, to, k) /\ (to = "synced" => k = "big_made")
          BY <3>2 DEF BigChanges
        <4>2. controller'.big = to
          BY <1>0, <4>1 DEF Big
        <4>3. k = "big_made" /\ hci_rx' = Append(hci_rx, Event(k)) /\ k \in Kinds \ {"answer"}
          BY <4>1, <4>2 DEF Big, Reports, Kinds
        <4> QED
          BY <4>3
      <3> QED
        BY <1>2, <3>1, <3>2
    <2>3. Event(k).kind = k /\ ~Grants(Event(k), "big")
      BY DEF Event, Grants, Answer
    <2>4. /\ MadeTold' /\ (InFlight(BigNews) => InFlight(BigNews)')
          /\ k = "big_made" => InFlight(BigNews)'
      <3>1. MadeTold \/ Event(k).kind = "big_made"
        BY <1>i, <2>1, <2>2, <2>3
      <3>2. /\ MadeTold' /\ (InFlight(BigNews) => InFlight(BigNews)')
            /\ Event(k).kind \in BigNews => InFlight(BigNews)'
        BY <2>1, <2>2, <2>3, <3>1, NewsAppend
      <3> QED
        BY <2>3, <3>2 DEF BigNews
    <2>5. ASSUME PathsComing, k # "big_made" PROVE PathsComing'
      <3>1. /\ Len(hci_rx) \in Nat /\ Len(hci_rx') = Len(hci_rx) + 1
            /\ hci_rx'[Len(hci_rx) + 1] = Event(k)
            /\ \A i \in 1 .. Len(hci_rx) : hci_rx'[i] = hci_rx[i]
        BY <2>2, Appended
      <3>2. \A i \in 1 .. Len(hci_rx') :
              hci_rx'[i].kind = "answer" => i \in 1 .. Len(hci_rx) /\ hci_rx'[i] = hci_rx[i]
        BY <2>3, <3>1
      <3>3. Settled' = Settled
        BY <2>2, <2>5
      <3>4. PathGoing => PathGoing'
        BY <2>1, <3>2, <3>3 DEF PathGoing
      <3> QED
        BY <2>1, <2>5, <3>3, <3>4 DEF PathsComing
    <2>6. PathKept'
      BY <1>i, <2>1, <2>2, <2>4, <2>5 DEF PathKept
    <2> QED
      BY <2>4, <2>6
  <1>3. CASE Stutter \/ RetryDue
    <2>1. /\ ~silent /\ UNCHANGED <<cmd, capturing, big_synced, bis_count, queue, wq, stream>>
          /\ UNCHANGED <<hci_rx, controller>>
      BY <1>3, ControllerFrame, RetryFrame DEF Stutter, allButThrough, ctlVars
    <2> QED
      BY <1>i, <2>1 DEF MadeTold, PathKept, MadeUnheard, Granted, InFlight, PathsComing,
           PathGoing, Settled
  <1>4. ASSUME NEW t \in Threads, Sends(t) PROVE MadeTold' /\ PathKept'
    <2>1. /\ ~silent /\ cmd[t].at = "lock"
          /\ cmd'[t] = [at |-> "wait", op |-> cmd[t].op]
          /\ \A u \in Threads \ {t} : cmd'[u] = cmd[u]
      BY <1>4, Sent
    <2>2. UNCHANGED <<capturing, big_synced, bis_count, queue, wq, stream, hci_rx, controller>>
      BY <1>4, CommandFrame
    <2>3. \A i \in 1 .. Len(hci_rx) : hci_rx[i].kind # "answer"
      BY <1>i, <1>4, <2>1, NobodyWaits DEF AnswerQuiet
    <2>4. Granted("big")' => Granted("big")
      BY <1>t, <2>1 DEF Granted
    <2>5. PathGoing => PathGoing'
      BY <1>t, <2>1, <2>2, <2>3 DEF PathGoing, Settled
    <2>6. MadeTold'
      BY <1>i, <2>1, <2>2, <2>4 DEF MadeTold, MadeUnheard
    <2>7. PathsComing => PathsComing'
      BY <2>2, <2>5 DEF PathsComing, Settled
    <2>8. PathKept'
      BY <1>i, <2>1, <2>2, <2>7 DEF PathKept, InFlight
    <2> QED
      BY <2>6, <2>8
  <1>5. ASSUME NEW t \in Threads, TimesOut(t) PROVE FALSE
    BY <1>5, TimedOut
  <1>6. CASE Forward
    <2>1. /\ ~silent /\ UNCHANGED <<controller, capturing>> /\ hci_rx # <<>>
          /\ MadeTold /\ PathKept
      BY <1>6, <1>i, Forwarded
    <2>2. /\ Len(hci_rx) \in Nat /\ Len(hci_rx') = Len(hci_rx) - 1 /\ 1 \in 1 .. Len(hci_rx)
          /\ \A i \in 1 .. Len(hci_rx') : i + 1 \in 1 .. Len(hci_rx)
               /\ hci_rx'[i] = hci_rx[i + 1]
      BY <1>6, <2>1, Forwarded, FirstEvent
    <2>3. ASSUME NEW n \in Nat, MadeUnheard(n + 1), n >= 1 PROVE MadeUnheard(n)'
      <3>1. PICK j \in n + 1 .. Len(hci_rx) : hci_rx[j].kind = "big_made"
        BY <2>3 DEF MadeUnheard
      <3>2. j - 1 \in n .. Len(hci_rx') /\ hci_rx'[j - 1] = hci_rx[j]
        BY <2>2, <2>3, <3>1
      <3> QED
        BY <3>1, <3>2 DEF MadeUnheard
    <2>4. ASSUME NEW i \in 1 .. Len(hci_rx'), Grants(hci_rx'[i], "big")
          PROVE  MadeUnheard(i + 1)'
      <3>1. MadeUnheard(i + 1 + 1) /\ i + 1 \in Nat /\ i + 1 >= 1
        BY <2>1, <2>2, <2>4 DEF MadeTold
      <3> QED
        BY <2>3, <3>1
    <2>5. Granted("big")' => MadeUnheard(1)'
      <3>1. Granted("big")' => MadeUnheard(1 + 1)
        BY <1>6, <2>1, <2>2, NotGrantedYet DEF MadeTold
      <3> QED
        BY <2>3, <3>1
    <2>6. MadeTold'
      BY <2>4, <2>5 DEF MadeTold, Grants, Answer
    <2>7. ASSUME capturing, big_synced', ~InFlight(BigNews)'
          PROVE  bis_count' = MaxBis /\ PathsComing'
      <3>1. running
        BY <2>7 DEF RunInv
      <3> DEFINE e == Head(hci_rx)
      <3> HIDE DEF e
      <3>2. e = hci_rx[1]
        BY <2>1, FirstEvent DEF e
      <3>3. NoteAnswer(e) \/ NoteSync(e) \/ NoteBig(e) \/ NotePeriodic(e) \/ NoteBigInfo(e)
        BY <1>6, <3>1, Forwarded DEF e
      <3>4. CASE e.kind \in BigNews
        <4>1. NoteBig(e)
          BY <3>3, <3>4 DEF BigNews, NoteAnswer, NoteSync, NotePeriodic, NoteBigInfo
        <4>2. bis_count' = MaxBis /\ Submit("iso")
          BY <2>7, <4>1 DEF NoteBig, Kept
        <4> QED
          BY <4>2, Submitted DEF PathsComing
      <3>5. CASE e.kind \notin BigNews
        <4>1. UNCHANGED <<big_synced, bis_count>>
          BY <3>3, <3>5 DEF BigNews, NoteAnswer, NoteSync, NoteBig, NotePeriodic,
               NoteBigInfo, bigVars
        <4>2. ~InFlight(BigNews)
          <5>1. ASSUME NEW i \in 1 .. Len(hci_rx), hci_rx[i].kind \in BigNews PROVE FALSE
            <6>1. i # 1
              BY <3>2, <3>5, <5>1
            <6>2. i - 1 \in 1 .. Len(hci_rx') /\ hci_rx'[i - 1] = hci_rx[i]
              BY <2>2, <5>1, <6>1
            <6> QED
              BY <2>7, <5>1, <6>2 DEF InFlight, BigNews
          <5> QED
            BY <5>1 DEF InFlight
        <4>3. bis_count = MaxBis /\ PathsComing
          BY <2>1, <2>7, <4>1, <4>2 DEF PathKept
        <4> QED
          BY <1>6, <4>1, <4>3, PathHeard
      <3> QED
        BY <3>4, <3>5
    <2>8. PathKept'
      BY <2>1, <2>7 DEF PathKept
    <2> QED
      BY <2>6, <2>8
  <1>7. CASE Working
    <2>1. ~silent /\ UNCHANGED <<hci_rx, controller, capturing>> /\ MadeTold /\ PathKept
      BY <1>7, <1>i, WorkFrame
    <2>2. UNCHANGED bis_count
      BY <1>7 DEF Working, WqBegins, SyncWork, SyncWorkOn, BigWork, BigWorkOn, IsoWork,
         IsoWorkOn, bigVars
    <2>3. Granted("big")' => Granted("big")
      <3>1. \/ UNCHANGED cmd \/ cmd'["wq"] = NoCommand
            \/ \E o \in {"sync", "big", "path"} : cmd'["wq"] = Call(o)
        BY <1>7, WorkCommands
      <3> QED
        BY <3>1 DEF Granted, NoCommand, Call
    <2>4. big_synced' => big_synced \/ Granted("big")
      <3>1. CASE BigWorkOn
        <4>1. /\ wq = "big" /\ Returned("wq")
              /\ cmd["wq"].at = "accepted" \/ big_synced' = big_synced
          BY <3>1 DEF BigWorkOn
        <4>2. cmd["wq"].op = "big"
          BY <4>1 DEF CallInv, Returned, WorkOp
        <4>3. cmd["wq"] = [at |-> cmd["wq"].at, op |-> cmd["wq"].op]
          BY <1>t DEF Typed, CmdTyped
        <4> QED
          BY <4>1, <4>2, <4>3 DEF Granted
      <3>2. CASE ~BigWorkOn
        BY <1>7, <3>2 DEF Working, WqBegins, SyncWork, SyncWorkOn, BigWork, IsoWork, IsoWorkOn,
           bigVars
      <3> QED
        BY <3>1, <3>2
    <2>5. Granted("big") => InFlight(BigNews)
      BY <2>1 DEF MadeTold, MadeUnheard, InFlight, BigNews
    <2>6. ASSUME capturing, big_synced', ~InFlight(BigNews)
          PROVE  bis_count' = MaxBis /\ PathsComing'
      <3>1. bis_count = MaxBis /\ PathsComing
        BY <2>1, <2>4, <2>5, <2>6 DEF PathKept
      <3>2. running
        BY <2>6 DEF RunInv
      <3> QED
        BY <1>7, <2>2, <3>1, <3>2, PathWorked
    <2>7. PathKept'
      BY <2>1, <2>6 DEF PathKept, InFlight
    <2>8. MadeTold'
      BY <2>1, <2>3 DEF MadeTold, MadeUnheard
    <2> QED
      BY <2>7, <2>8
  <1>8. CASE Reading
    <2>1. /\ ~silent /\ UNCHANGED <<hci_rx, controller, queue, wq, stream>>
          /\ cmd'["wq"] = cmd["wq"]
          /\ MadeTold /\ PathKept
      BY <1>8, <1>i, ReaderCommands, ReaderFrame
    <2>2. MadeTold' /\ (PathsComing => PathsComing')
      BY <2>1 DEF MadeTold, MadeUnheard, Granted, PathsComing, PathGoing,
         Settled
    <2>3. \/ ~capturing' \/ ~big_synced'
          \/ UNCHANGED <<capturing, big_synced, bis_count>>
      <3>1. ScanStarted => ~big_synced'
        BY DEF ScanStarted
      <3>2. StartBegins \/ StopBegins => ~capturing'
        BY DEF StartBegins, StopBegins
      <3>3. StopGoesOn => ~capturing'
        BY DEF StopGoesOn, RunInv
      <3>4. StartGoesOn \/ StartFails \/ StopEnds \/ SetPeriodic
              => UNCHANGED <<capturing, big_synced, bis_count>>
        BY DEF StartGoesOn, StartFails, StopEnds, SetPeriodic, bigVars, histVars
      <3> QED
        BY <1>8, <3>1, <3>2, <3>3, <3>4 DEF Reading
    <2>4. PathKept'
      BY <2>1, <2>2, <2>3 DEF PathKept, InFlight
    <2> QED
      BY <2>2, <2>4
  <1> QED
    BY Actions, <1>1, <1>2, <1>3, <1>4, <1>5, <1>6, <1>7, <1>8
-----------------------------------------------------------------------------
(* Nothing has passed the test at first.                                    *)
LEMMA ThroughInit == Init => ThroughInv
  BY DEF Init, ThroughInv

(* The event that passed it is there until it has been handled.             *)
LEMMA ThroughNext == Typed /\ ThroughInv /\ [Next]_vars => ThroughInv'
  <1> SUFFICES ASSUME Typed, ThroughInv, [Next]_vars PROVE ThroughInv'
    OBVIOUS
  <1>0. hci_rx \in Seq(Events)
    BY DEF Typed, QueuesTyped
  <1>1. CASE Forward
    BY <1>1 DEF Forward, ThroughInv
  <1>2. CASE FwdPasses
    BY <1>2 DEF FwdPasses, ThroughInv, allButThrough, ctlVars
  <1>3. CASE UNCHANGED <<through, hci_rx>>
    BY <1>3 DEF ThroughInv
  <1>4. CASE UNCHANGED through /\ \E e : hci_rx' = Append(hci_rx, e)
    <2>1. PICK e : hci_rx' = Append(hci_rx, e)
      BY <1>4
    <2>2. Len(hci_rx') = Len(hci_rx) + 1 /\ Len(hci_rx) \in Nat
      BY <2>1, Appended
    <2>3. hci_rx' # <<>>
      BY <2>2
    <2> QED
      BY <1>4, <2>3 DEF ThroughInv
  <1>5. ASSUME NEW t \in Threads, Sends(t) \/ TimesOut(t) PROVE UNCHANGED <<through, hci_rx>>
    BY <1>5 DEF Sends, TimesOut, ctlVars
  <1>6. CASE Controller
    <2>1. UNCHANGED through
      BY <1>6 DEF Controller, Obeys, Refuses, Announces, TrainChanges, Train, BigChanges, Big,
         Reports
    <2>2. \E e : hci_rx' = Append(hci_rx, e)
      BY <1>6 DEF Controller, Obeys, Refuses, Announces, TrainChanges, Train, BigChanges, Big,
         Reports
    <2> QED
      BY <1>4, <2>1, <2>2
  <1>7. CASE RetryDue
    BY <1>3, <1>7 DEF RetryDue, ctlVars
  <1>8. CASE Working
    BY <1>3, <1>8 DEF Working, WqBegins, SyncWork, SyncWorkOn, BigWork, BigWorkOn, IsoWork,
       IsoWorkOn, WqRest, ctlVars
  <1>9. CASE Reading
    BY <1>3, <1>9 DEF Reading, StartGoesOn, StartFails, ScanStarted, StopGoesOn, StopEnds,
       StartBegins, StopBegins, SetPeriodic, ReaderRest, ctlVars
  <1>10. CASE UNCHANGED vars
    BY <1>3, <1>10 DEF vars, allButThrough, ctlVars
  <1> QED
    BY <1>1, <1>2, <1>3, <1>5, <1>6, <1>7, <1>8, <1>9, <1>10
       DEF Next, Work, ReaderStep, Operation, Threads, Working, Reading
-----------------------------------------------------------------------------
(* The invariant holds.                                                     *)
LEMMA Invariant == Spec => []Inv
  <1>1. Init => Inv
    BY ThroughInit, TypedInit, CallInit, RunInit, ResetInit, SyncInit, BigInit,
       QuietInit, PathInit DEF Inv
  <1>2. Inv /\ [Next]_vars => Inv'
    BY ThroughNext, TypedNext, CallNext, RunNext, ResetNext, SyncNext, BigNext,
       QuietNext, PathNext DEF Inv
  <1> QED
    BY <1>1, <1>2, PTL DEF Spec

(* The variables have their types; no more requests wait than sync_q holds, *)
(* no more syncs are counted than MAX_SYNCS and no stream is set up that a  *)
(* broadcast does not have.                                                 *)
THEOREM TypesHold == Spec => []TypeOK
  <1>1. Inv => TypeOK
    <2> SUFFICES ASSUME Inv PROVE TypeOK
      OBVIOUS
    <2>1. Bools /\ Counts /\ Places /\ ThroughInv
      BY DEF Inv, Typed
    <2>2. \A t \in Threads : cmd[t].at \in {"idle", "lock", "wait", "accepted", "failed"}
      BY DEF Inv, Typed, CmdTyped
    <2> QED
      BY <2>1, <2>2 DEF TypeOK, Bools, Counts, Places, ThroughInv
  <1> QED
    BY <1>1, Invariant, PTL

(* After a STOP answered OK the controller holds no sync and no broadcast,  *)
(* and nothing that was under way in the work queue reaches it, unless the  *)
(* answer to some reset came too late.                                      *)
THEOREM StopLeavesNothing == Spec => []NothingAfterStop
  <1>1. Inv => NothingAfterStop
    <2> SUFFICES ASSUME Inv, stopped, ~lateReset
                 PROVE  /\ controller.train = "none" /\ controller.big = "none"
                        /\ \A i \in 1 .. Len(given) : given[i] \notin {"sync", "big", "path"}
      BY DEF NothingAfterStop
    <2>1. given = <<>> /\ controller = Reset
      BY DEF Inv, ResetInv
    <2> QED
      BY <2>1 DEF Reset
  <1> QED
    BY <1>1, Invariant, PTL

(* During a capture, what sync_count and big_synced claim the controller    *)
(* holds, or the event that says it no longer does is on its way.           *)
THEOREM FlagsTellTheTruth == Spec => []FlagsAreReal
  <1>1. Inv => FlagsAreReal
    <2> SUFFICES ASSUME Inv, capturing, ~lateReset
                 PROVE  /\ sync_count > 0 =>
                             controller.train # "none" \/ InFlight({"sync_failed", "sync_lost"})
                        /\ big_synced =>
                             controller.big # "none" \/ InFlight({"big_failed", "big_lost"})
      BY DEF FlagsAreReal
    <2>1. sync_count > 0 => SyncCovered(1)
      BY DEF Inv, SyncInv
    <2>2. SyncCovered(1) => controller.train # "none" \/ InFlight({"sync_failed", "sync_lost"})
      BY DEF SyncCovered, Covered, InFlight
    <2>3. big_synced => BigCovered(1)
      BY DEF Inv, BigInv
    <2>4. BigCovered(1) => controller.big # "none" \/ InFlight({"big_failed", "big_lost"})
      BY DEF BigCovered, Covered, InFlight
    <2> QED
      BY <2>1, <2>2, <2>3, <2>4
  <1> QED
    BY <1>1, Invariant, PTL

(* Once the events of a broadcast have been forwarded and the work queue is *)
(* done, every stream of it has its data path but for those whose path the  *)
(* controller refused, unless a command was given up on or not sent.        *)
THEOREM EveryStreamIsAnswered == Spec => []PathsAreSet
  <1>1. Inv => PathsAreSet
    <2> SUFFICES ASSUME Inv, capturing, ~silent, controller.big = "synced", big_synced,
                        wq = "idle", queue = <<>>,
                        ~InFlight({"big_made", "big_lost", "big_failed"})
                 PROVE  controller.paths \cup controller.denied = 0 .. MaxBis - 1
      BY DEF PathsAreSet
    <2>1. PathsComing
      BY DEF Inv, PathInv
    <2>2. "iso" \notin ToSet(queue)
      BY DEF ToSet
    <2>3. 0 .. MaxBis - 1 \subseteq Settled
      BY <2>1, <2>2 DEF PathsComing
    <2>4. Settled \subseteq 0 .. MaxBis - 1
      BY DEF Inv, QuietInv
    <2> QED
      BY <2>3, <2>4 DEF Settled
  <1> QED
    BY <1>1, Invariant, PTL

(* In a capture no data path is asked for before this scan has joined a     *)
(* broadcast: none is left over from the last.                              *)
THEOREM NoPathLeftOver == Spec => PathsOfThisScan
  <1>1. Inv /\ Inv' /\ [Next]_vars => [Begins("wq", "path") /\ capturing => joined]_vars
    <2> SUFFICES ASSUME Inv, Inv', [Next]_vars, Begins("wq", "path"), capturing PROVE joined
      OBVIOUS
    <2>t. "wq" \in Threads /\ "reader" \in Threads /\ Threads = {"wq", "reader"}
      BY DEF Threads
    <2>0. Typed /\ RunInv /\ RunInv'
      BY DEF Inv
    <2>1. cmd'["wq"] = Call("path")
      BY <2>t, <2>0 DEF Begins, Typed, CmdTyped
    <2>2. CASE cmd["wq"] = Call("path")
      BY <2>0, <2>2 DEF RunInv
    <2>3. CASE Working
      <3>1. UNCHANGED <<capturing, joined>>
        BY <2>3, WorkFrame
      <3> QED
        BY <2>0, <2>1, <3>1 DEF RunInv
    <2>4. CASE ~Working
      <3>1. cmd'["wq"].at = "lock"
        BY <2>1 DEF Call
      <3>2. ASSUME NEW t \in Threads, Sends(t) \/ TimesOut(t) PROVE cmd'["wq"] = cmd["wq"]
        BY <2>0, <2>t, <3>1, <3>2, InHand, Bystander
      <3>3. ASSUME Forward PROVE cmd'["wq"] = cmd["wq"]
        <4> DEFINE e == Head(hci_rx)
        <4> HIDE DEF e
        <4>1. e \in Events
          BY <2>0, <3>3, Forwarded, FirstEvent DEF e
        <4>2. NoteAnswer(e) \/ UNCHANGED <<cmd_lock, cmd, pending>>
          BY <3>3, Forwarded, NotAnswered DEF e, cmdVars
        <4> QED
          BY <2>0, <2>t, <3>1, <4>1, <4>2, InHand
      <3>4. ASSUME RetryDue \/ Reading PROVE cmd'["wq"] = cmd["wq"]
        BY <2>0, <3>4, RetryFrame, ReaderCommands
      <3>5. ASSUME \/ Obeys \/ Refuses \/ Announces \/ TrainChanges \/ BigChanges
                   \/ Stutter
            PROVE  cmd'["wq"] = cmd["wq"]
        BY <3>5, ControllerFrame
      <3>6. cmd'["wq"] = cmd["wq"]
        BY <2>4, <3>2, <3>3, <3>4, <3>5, Actions
      <3> QED
        BY <2>1, <2>2, <3>6
    <2> QED
      BY <2>3, <2>4
  <1> QED
    BY <1>1, Invariant, PTL DEF Spec, PathsOfThisScan
=============================================================================
