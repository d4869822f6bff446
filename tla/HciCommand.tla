----------------------------- MODULE HciCommand -----------------------------
(***************************************************************************)
(* One HCI command at a time, src/radio_ble.c: hci_command, which sends a  *)
(* command and waits two seconds for its answer, and note_command_result,  *)
(* which picks that answer out of the events on the forwarding thread.     *)
(*                                                                         *)
(* Two threads issue commands: the reader (START, STOP, GET_INFO) and the  *)
(* system work queue (following trains and broadcasts).  The work queue is *)
(* cooperative and above both the reader and the forwarding thread, which  *)
(* have one priority and may be interleaved anywhere.  The controller and  *)
(* its driver are external: the driver owns the one command buffer until   *)
(* the controller has read it, and the controller answers every command it *)
(* was given, in order, at any time, unless it has gone silent.            *)
(***************************************************************************)
EXTENDS Integers, Sequences

CONSTANTS
  Callers,       \* threads that issue commands
  Coop,          \* those of them that nothing preempts
  Opcodes,       \* opcodes they send; 0 stands for none
  MaxCalls,      \* bound of the model: calls of hci_command
  MaxTimeouts,   \* bound of the model: waits that run out
  MaxFailures    \* bound of the model: times bt_send fails

ASSUME HciAssumption ==
  /\ Coop \subseteq Callers
  /\ Callers \cap {"none", "pool", "driver"} = {}
  /\ Opcodes \subseteq Nat \ {0}
  /\ MaxCalls \in Nat /\ MaxTimeouts \in Nat /\ MaxFailures \in Nat

VARIABLES
  cmd_lock,        \* its owner, or "none"
  cmd_done,        \* count of the semaphore, at most one
  pending_opcode, pending_status,
  buf,             \* who has the command buffer: "pool", "driver" or a caller
  pc,              \* where each caller is in hci_command
  call,            \* what it is asking: [id, op]
  err,             \* what it will return
  fwd,             \* where the forwarding thread is in note_command_result
  event,           \* the answer it is looking at: [id, op, status]
  controller,      \* commands given to it and not answered, oldest first
  hci_rx,          \* answers on their way to the forwarding thread
  verdict,         \* history: how the controller answered each call
  returned,        \* history: what each finished call returned
  calls, timeouts, failures

cmdVars  == <<cmd_lock, pc, call, err>>
ansVars  == <<cmd_done, pending_opcode, pending_status>>
fwdVars  == <<fwd, event>>
ctlVars  == <<controller, hci_rx, verdict>>
countVars == <<calls, timeouts, failures>>
vars == <<cmdVars, ansVars, buf, fwdVars, ctlVars, returned, countVars>>

NoCall  == [id |-> 0, op |-> 0]
NoEvent == [id |-> 0, op |-> 0, status |-> 0]

Accepted   == 0       \* BT_HCI_ERR_SUCCESS
Refused    == 1       \* any other status
NoStatus   == 255     \* 0xFF, before an answer
-----------------------------------------------------------------------------
(* A cooperative caller that can run is the only thread that does. *)

Waiting(c) ==
  \/ pc[c] = "lock" /\ cmd_lock # "none"
  \/ pc[c] = "buffer" /\ buf # "pool"
  \/ pc[c] = "wait" /\ cmd_done = 0

Busy(c) == pc[c] # "idle" /\ ~Waiting(c)

MayRun(c) == \A d \in Coop \ {c} : ~Busy(d)

FwdMayRun == \A d \in Coop : ~Busy(d)

Goto(c, place) == pc' = [pc EXCEPT ![c] = place]
-----------------------------------------------------------------------------
(* hci_command *)

Call(c, op) ==
  /\ pc[c] = "idle" /\ MayRun(c)
  /\ calls < MaxCalls
  /\ calls' = calls + 1
  /\ call' = [call EXCEPT ![c] = [id |-> calls + 1, op |-> op]]
  /\ Goto(c, "lock")
  /\ UNCHANGED <<cmd_lock, err, ansVars, buf, fwdVars, ctlVars, returned,
                 timeouts, failures>>

LockFree == cmd_lock = "none"

Lock(c) ==
  /\ pc[c] = "lock" /\ LockFree /\ MayRun(c)
  /\ cmd_lock' = c
  /\ Goto(c, "buffer")
  /\ UNCHANGED <<call, err, ansVars, buf, fwdVars, ctlVars, returned, countVars>>

GetBuffer(c) ==
  /\ pc[c] = "buffer" /\ buf = "pool" /\ MayRun(c)
  /\ buf' = c
  /\ Goto(c, "reset")
  /\ UNCHANGED <<cmd_lock, call, err, ansVars, fwdVars, ctlVars, returned,
                 countVars>>

Return(c, result) ==
  /\ returned' = [returned EXCEPT ![call[c].id] = result]
  /\ call' = [call EXCEPT ![c] = NoCall]
  /\ err' = [err EXCEPT ![c] = "none"]
  /\ Goto(c, "idle")

\* The early return taken with the lock still held.
UnlockEarly_Not == UNCHANGED cmd_lock

UnlockEarly == cmd_lock' = "none"

\* A second without a buffer.
NoBuffer(c) ==
  /\ pc[c] = "buffer" /\ buf # "pool" /\ MayRun(c)
  /\ timeouts < MaxTimeouts
  /\ timeouts' = timeouts + 1
  /\ UnlockEarly
  /\ Return(c, "ENOBUFS")
  /\ UNCHANGED <<ansVars, buf, fwdVars, ctlVars, calls, failures>>

\* k_sem_reset(&cmd_done); pending_status = 0xFF
ResetAnswer(c) ==
  /\ pc[c] = "reset" /\ MayRun(c)
  /\ cmd_done' = 0
  /\ pending_status' = NoStatus
  /\ Goto(c, "arm")
  /\ UNCHANGED <<cmd_lock, call, err, pending_opcode, buf, fwdVars, ctlVars,
                 returned, countVars>>

\* pending_opcode = opcode
Arm(c) ==
  /\ pc[c] = "arm" /\ MayRun(c)
  /\ pending_opcode' = call[c].op
  /\ Goto(c, "send")
  /\ UNCHANGED <<cmd_lock, call, err, cmd_done, pending_status, buf, fwdVars,
                 ctlVars, returned, countVars>>

\* Its answer not waited for.
Await_Not(c) == Goto(c, "finish") /\ err' = [err EXCEPT ![c] = "accepted"]

Await(c) == Goto(c, "wait") /\ UNCHANGED err

\* bt_send hands the buffer to the driver.
Send(c) ==
  /\ pc[c] = "send" /\ MayRun(c)
  /\ buf' = "driver"
  /\ controller' = Append(controller, call[c])
  /\ Await(c)
  /\ UNCHANGED <<cmd_lock, call, ansVars, fwdVars, hci_rx, verdict, returned,
                 countVars>>

\* The buffer kept when bt_send fails.
Unref_Not == UNCHANGED buf

\* net_buf_unref
Unref == buf' = "pool"

\* "On failure the buffer is still ours": it goes back to the pool.
SendFails(c) ==
  /\ pc[c] = "send" /\ MayRun(c)
  /\ failures < MaxFailures
  /\ failures' = failures + 1
  /\ Unref
  /\ err' = [err EXCEPT ![c] = "send"]
  /\ Goto(c, "finish")
  /\ UNCHANGED <<cmd_lock, call, ansVars, fwdVars, ctlVars, returned, calls,
                 timeouts>>

\* The semaphore is taken, and the status read.
Answered(c) ==
  /\ pc[c] = "wait" /\ cmd_done = 1 /\ MayRun(c)
  /\ cmd_done' = 0
  /\ err' = [err EXCEPT ![c] =
               IF pending_status = Accepted THEN "accepted" ELSE "EIO"]
  /\ Goto(c, "finish")
  /\ UNCHANGED <<cmd_lock, call, pending_opcode, pending_status, buf, fwdVars,
                 ctlVars, returned, countVars>>

\* Two seconds without one.
TimesOut(c) ==
  /\ pc[c] = "wait" /\ cmd_done = 0 /\ MayRun(c)
  /\ timeouts < MaxTimeouts
  /\ timeouts' = timeouts + 1
  /\ err' = [err EXCEPT ![c] = "ETIMEDOUT"]
  /\ Goto(c, "finish")
  /\ UNCHANGED <<cmd_lock, call, ansVars, buf, fwdVars, ctlVars, returned,
                 calls, failures>>

Finish(c) ==
  /\ pc[c] = "finish" /\ MayRun(c)
  /\ pending_opcode' = 0
  /\ cmd_lock' = "none"
  /\ Return(c, err[c])
  /\ UNCHANGED <<cmd_done, pending_status, buf, fwdVars, ctlVars, countVars>>
-----------------------------------------------------------------------------
(* The controller and its driver *)

\* The command is read, and its buffer freed.
DriverFrees ==
  /\ buf = "driver"
  /\ buf' = "pool"
  /\ UNCHANGED <<cmdVars, ansVars, fwdVars, ctlVars, returned, countVars>>

\* Command Complete or Command Status.
Answer(status) ==
  /\ controller # <<>>
  /\ LET c == Head(controller)
     IN  /\ hci_rx' = Append(hci_rx, [id |-> c.id, op |-> c.op,
                                      status |-> status])
         /\ verdict' = [verdict EXCEPT ![c.id] = status]
  /\ controller' = Tail(controller)
  /\ UNCHANGED <<cmdVars, ansVars, buf, fwdVars, returned, countVars>>
-----------------------------------------------------------------------------
(* note_command_result, on the forwarding thread *)

\* opcode == 0u || opcode != pending_opcode
Mine(e) == e.op # 0 /\ e.op = pending_opcode

FwdLook ==
  /\ fwd = "idle" /\ hci_rx # <<>> /\ FwdMayRun
  /\ hci_rx' = Tail(hci_rx)
  /\ IF Mine(Head(hci_rx))
     THEN fwd' = "status" /\ event' = Head(hci_rx)
     ELSE UNCHANGED fwdVars
  /\ UNCHANGED <<cmdVars, ansVars, buf, controller, verdict, returned, countVars>>

FwdStatus ==
  /\ fwd = "status" /\ FwdMayRun
  /\ pending_status' = event.status
  /\ fwd' = "opcode"
  /\ UNCHANGED <<cmdVars, cmd_done, pending_opcode, buf, event, ctlVars,
                 returned, countVars>>

FwdOpcode ==
  /\ fwd = "opcode" /\ FwdMayRun
  /\ pending_opcode' = 0
  /\ fwd' = "give"
  /\ UNCHANGED <<cmdVars, cmd_done, pending_status, buf, event, ctlVars,
                 returned, countVars>>

\* The semaphore without its limit of one.
GiveDone_NoLimit == cmd_done' = cmd_done + 1

GiveDone == cmd_done' = 1

FwdGive ==
  /\ fwd = "give" /\ FwdMayRun
  /\ GiveDone
  /\ fwd' = "idle"
  /\ event' = NoEvent
  /\ UNCHANGED <<cmdVars, pending_opcode, pending_status, buf, ctlVars,
                 returned, countVars>>
-----------------------------------------------------------------------------
Init ==
  /\ cmd_lock = "none" /\ cmd_done = 0
  /\ pending_opcode = 0 /\ pending_status = 0
  /\ buf = "pool"
  /\ pc = [c \in Callers |-> "idle"]
  /\ call = [c \in Callers |-> NoCall]
  /\ err = [c \in Callers |-> "none"]
  /\ fwd = "idle" /\ event = NoEvent
  /\ controller = <<>> /\ hci_rx = <<>>
  /\ verdict = [i \in 1 .. MaxCalls |-> NoStatus]
  /\ returned = [i \in 1 .. MaxCalls |-> "none"]
  /\ calls = 0 /\ timeouts = 0 /\ failures = 0

Work(c) ==
  \/ Lock(c) \/ GetBuffer(c) \/ NoBuffer(c) \/ ResetAnswer(c) \/ Arm(c)
  \/ Send(c) \/ SendFails(c) \/ Answered(c) \/ TimesOut(c) \/ Finish(c)

Forward == FwdLook \/ FwdStatus \/ FwdOpcode \/ FwdGive

Next ==
  \/ \E c \in Callers : Work(c) \/ \E op \in Opcodes : Call(c, op)
  \/ DriverFrees
  \/ \E status \in {Accepted, Refused} : Answer(status)
  \/ Forward

Spec == Init /\ [][Next]_vars

\* The threads run and the driver frees its buffer.  Nothing obliges the
\* controller to answer: a wait that is not answered runs out.
FairSpec ==
  /\ Spec
  /\ \A c \in Callers : WF_vars(Work(c))
  /\ WF_vars(Forward)
  /\ WF_vars(DriverFrees)
-----------------------------------------------------------------------------
(* Properties *)

\* The command path's variables have their types.
TypeOK ==
  /\ cmd_lock \in Callers \cup {"none"}
  /\ cmd_done \in {0, 1}
  /\ pending_opcode \in Opcodes \cup {0}
  /\ pending_status \in {Accepted, Refused, NoStatus}
  /\ buf \in Callers \cup {"pool", "driver"}
  /\ pc \in [Callers -> {"idle", "lock", "buffer", "reset", "arm", "send",
                         "wait", "finish"}]
  /\ call \in [Callers -> [id : 0 .. MaxCalls, op : Opcodes \cup {0}]]
  /\ err \in [Callers -> {"none", "send", "accepted", "EIO", "ETIMEDOUT"}]
  /\ fwd \in {"idle", "status", "opcode", "give"}
  /\ calls \in 0 .. MaxCalls

OwnAnswer(i) ==
  /\ returned[i] = "accepted" => verdict[i] = Accepted
  /\ returned[i] = "EIO" => verdict[i] = Refused

\* "waits for the controller's answer to it: 0 accepted, -EIO refused": what a
\* call returns is how the controller answered that very call, whichever of the
\* two threads makes it, unless a wait has run out before.
AnswerIsOwn ==
  timeouts = 0 => \A i \in 1 .. MaxCalls : OwnAnswer(i)

\* The same with nothing set aside: an answer that comes late is not taken for
\* that of a later call.
AnswerIsAlwaysOwn == \A i \in 1 .. MaxCalls : OwnAnswer(i)

\* Between calls the one command buffer is never in a caller's hands: whoever
\* took it from the pool has given it to the driver or put it back.
BufferNotKept ==
  buf \in Callers => /\ cmd_lock = buf
                     /\ pc[buf] \in {"reset", "arm", "send"}

\* Every call returns, though the controller may have gone silent and the
\* driver may fail: no lock, buffer or semaphore is left for it to wait on.
EveryCallReturns ==
  \A c \in Callers : pc[c] # "idle" ~> pc[c] = "idle"
=============================================================================
