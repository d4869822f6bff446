-------------------------- MODULE HciCommandProofs --------------------------
(***************************************************************************)
(* Theorems about the HCI command path, for any callers and opcodes that   *)
(* satisfy HciAssumption, and any number of calls, timeouts and failures.  *)
(*                                                                         *)
(* The invariant has three parts: LockInv, where the lock and the one      *)
(* command buffer are; CallInv, which calls are under way; and Exchange,   *)
(* where the answer is of the one call that waits for it, as long as no    *)
(* wait has run out.                                                       *)
(***************************************************************************)
EXTENDS HciCommand, TLAPS

Calls  == [id : 0 .. MaxCalls, op : Opcodes \cup {0}]
Events == [id : 0 .. MaxCalls, op : Opcodes \cup {0},
           status : {Accepted, Refused, NoStatus}]

Places == {"idle", "lock", "buffer", "reset", "arm", "send", "wait", "finish"}
Inside == {"buffer", "reset", "arm", "send", "wait", "finish"}

LockInv ==
  /\ TypeOK
  /\ timeouts \in Nat
  /\ controller \in Seq(Calls) /\ hci_rx \in Seq(Events) /\ event \in Events
  /\ \A c \in Callers : cmd_lock = c <=> pc[c] \in Inside
  /\ \A c \in Callers : buf = c <=> pc[c] \in {"reset", "arm", "send"}

CallInv ==
  /\ \A c \in Callers :
       pc[c] # "idle" => /\ call[c].id \in 1 .. calls
                         /\ returned[call[c].id] = "none"
  /\ \A c, d \in Callers :
       pc[c] # "idle" /\ pc[d] # "idle" /\ c # d => call[c].id # call[d].id
  /\ \A i \in calls + 1 .. MaxCalls : returned[i] = "none"
  /\ returned = [i \in 1 .. MaxCalls |-> returned[i]]
  /\ verdict = [i \in 1 .. MaxCalls |-> verdict[i]]

\* The exchange of the call k, from the command on its way to the controller
\* to the status its caller will find.
Asked(k) ==
  \/ /\ controller = <<k>> /\ hci_rx = <<>> /\ fwd = "idle"
     /\ pending_opcode = k.op /\ k.op # 0 /\ cmd_done = 0
  \/ /\ controller = <<>> /\ fwd = "idle"
     /\ hci_rx = <<[id |-> k.id, op |-> k.op, status |-> verdict[k.id]]>>
     /\ verdict[k.id] \in {Accepted, Refused}
     /\ pending_opcode = k.op /\ k.op # 0 /\ cmd_done = 0
  \/ /\ controller = <<>> /\ hci_rx = <<>> /\ fwd = "status"
     /\ verdict[k.id] \in {Accepted, Refused}
     /\ event.status = verdict[k.id] /\ cmd_done = 0
  \/ /\ controller = <<>> /\ hci_rx = <<>> /\ fwd \in {"opcode", "give"}
     /\ verdict[k.id] \in {Accepted, Refused}
     /\ pending_status = verdict[k.id] /\ cmd_done = 0
  \/ /\ controller = <<>> /\ hci_rx = <<>> /\ fwd = "idle"
     /\ verdict[k.id] \in {Accepted, Refused}
     /\ pending_status = verdict[k.id] /\ cmd_done = 1

Quiet == controller = <<>> /\ hci_rx = <<>> /\ fwd = "idle"

Right(c) ==
  /\ pc[c] = "wait" => Asked(call[c])
  /\ pc[c] = "send" => pending_opcode = call[c].op
  /\ pc[c] \in {"arm", "send"} => cmd_done = 0
  /\ pc[c] # "idle" => call[c].op \in Opcodes
  /\ pc[c] = "finish" =>
       /\ err[c] = "accepted" => verdict[call[c].id] = Accepted
       /\ err[c] = "EIO" => verdict[call[c].id] = Refused

Exchange ==
  /\ \A c \in Callers : Right(c)
  /\ (\A c \in Callers : pc[c] # "wait") => Quiet
  /\ \A i \in 1 .. MaxCalls : OwnAnswer(i)

Inv == LockInv /\ CallInv /\ (timeouts = 0 => Exchange)
-----------------------------------------------------------------------------
(* The invariant holds at first.                                            *)
LEMMA InvInit == Init => Inv
  <1> SUFFICES ASSUME Init PROVE Inv
    OBVIOUS
  <1>1. LockInv
    <2>1. NoEvent \in Events /\ NoCall \in Calls
      BY HciAssumption DEF NoEvent, NoCall, Events, Calls, Accepted
    <2> QED
      BY <2>1, HciAssumption
      DEF Init, LockInv, TypeOK, Calls, NoStatus, Accepted, Refused, Inside
  <1>2. CallInv
    BY HciAssumption DEF Init, CallInv
  <1>3. Exchange
    BY DEF Init, Exchange, Right, Quiet, OwnAnswer
  <1> QED
    BY <1>1, <1>2, <1>3 DEF Inv

(* Every action leaves the lock with its owner and the buffer where it is.  *)
LEMMA LockNext == LockInv /\ [Next]_vars => LockInv'
  <1> SUFFICES ASSUME LockInv, [Next]_vars PROVE LockInv'
    OBVIOUS
  <1> USE HciAssumption DEF Inside, countVars, ctlVars, fwdVars, ansVars, cmdVars
  <1>0. /\ cmd_lock \in Callers \cup {"none"} /\ cmd_done \in {0, 1}
        /\ pending_opcode \in Opcodes \cup {0}
        /\ pending_status \in {Accepted, Refused, NoStatus}
        /\ buf \in Callers \cup {"pool", "driver"}
        /\ pc \in [Callers -> Places] /\ call \in [Callers -> Calls]
        /\ err \in [Callers -> {"none", "send", "accepted", "EIO", "ETIMEDOUT"}]
        /\ fwd \in {"idle", "status", "opcode", "give"}
        /\ calls \in 0 .. MaxCalls /\ timeouts \in Nat
        /\ controller \in Seq(Calls) /\ hci_rx \in Seq(Events) /\ event \in Events
        /\ \A c \in Callers : cmd_lock = c <=> pc[c] \in Inside
        /\ \A c \in Callers : buf = c <=> pc[c] \in {"reset", "arm", "send"}
    BY DEF LockInv, TypeOK, Calls, Places
  <1>g. \A c \in Callers, p \in Places : [pc EXCEPT ![c] = p] \in [Callers -> Places]
    BY <1>0
  <1>c. NoCall \in Calls
    BY DEF NoCall, Calls
  <1> DEFINE Rest ==
        /\ cmd_lock' \in Callers \cup {"none"} /\ cmd_done' \in {0, 1}
        /\ pending_opcode' \in Opcodes \cup {0}
        /\ pending_status' \in {Accepted, Refused, NoStatus}
        /\ buf' \in Callers \cup {"pool", "driver"}
        /\ pc' \in [Callers -> Places] /\ call' \in [Callers -> Calls]
        /\ err' \in [Callers -> {"none", "send", "accepted", "EIO", "ETIMEDOUT"}]
        /\ fwd' \in {"idle", "status", "opcode", "give"}
        /\ calls' \in 0 .. MaxCalls /\ timeouts' \in Nat
        /\ controller' \in Seq(Calls) /\ hci_rx' \in Seq(Events)
        /\ event' \in Events
        Held ==
        /\ \A c \in Callers : cmd_lock' = c <=> pc'[c] \in Inside
        /\ \A c \in Callers : buf' = c <=> pc'[c] \in {"reset", "arm", "send"}
  <1>1. SUFFICES Rest /\ Held
    BY DEF LockInv, TypeOK, Calls, Places
  <1>2. ASSUME NEW c \in Callers, NEW op \in Opcodes, Call(c, op)
        PROVE  Rest /\ Held
    <2>1. [id |-> calls + 1, op |-> op] \in Calls
      BY <1>0, <1>2 DEF Call, Calls
    <2>2. [call EXCEPT ![c] = [id |-> calls + 1, op |-> op]] \in [Callers -> Calls]
      BY <1>0, <2>1
    <2> QED
      BY <1>0, <1>2, <2>2 DEF Call, Goto, Places
  <1>3. ASSUME NEW c \in Callers, Lock(c) PROVE Rest /\ Held
    BY <1>0, <1>3 DEF Lock, LockFree, Goto, Places
  <1>4. ASSUME NEW c \in Callers, GetBuffer(c) PROVE Rest /\ Held
    BY <1>0, <1>4 DEF GetBuffer, Goto, Places
  <1>5. ASSUME NEW c \in Callers, NoBuffer(c) PROVE Rest /\ Held
    BY <1>0, <1>5, <1>c DEF NoBuffer, UnlockEarly, Return, Goto, Places
  <1>6. ASSUME NEW c \in Callers, ResetAnswer(c) PROVE Rest /\ Held
    BY <1>0, <1>6 DEF ResetAnswer, Goto, Places
  <1>7. ASSUME NEW c \in Callers, Arm(c) PROVE Rest /\ Held
    <2>1. call[c].op \in Opcodes \cup {0}
      BY <1>0 DEF Calls
    <2> QED
      BY <1>0, <1>7, <2>1 DEF Arm, Goto, Places
  <1>8. ASSUME NEW c \in Callers, Send(c) PROVE Rest /\ Held
    <2>1. Append(controller, call[c]) \in Seq(Calls)
      BY <1>0
    <2> QED
      BY <1>0, <1>8, <2>1 DEF Send, Await, Goto, Places
  <1>9. ASSUME NEW c \in Callers, SendFails(c) PROVE Rest /\ Held
    BY <1>0, <1>9 DEF SendFails, Unref, Goto, Places
  <1>10. ASSUME NEW c \in Callers, Answered(c) PROVE Rest /\ Held
    BY <1>0, <1>10 DEF Answered, Goto, Places
  <1>11. ASSUME NEW c \in Callers, TimesOut(c) PROVE Rest /\ Held
    BY <1>0, <1>11 DEF TimesOut, Goto, Places
  <1>12. ASSUME NEW c \in Callers, Finish(c) PROVE Rest /\ Held
    BY <1>0, <1>12, <1>c DEF Finish, Return, Goto, Places
  <1>13. CASE DriverFrees
    BY <1>0, <1>13 DEF DriverFrees
  <1>14. ASSUME NEW status \in {Accepted, Refused}, Answer(status)
         PROVE  Rest /\ Held
    <2>1. Head(controller) \in Calls /\ Tail(controller) \in Seq(Calls)
      BY <1>0, <1>14 DEF Answer
    <2>2. [id |-> Head(controller).id, op |-> Head(controller).op,
           status |-> status] \in Events
      BY <2>1 DEF Calls, Events
    <2>3. hci_rx' \in Seq(Events)
      BY <1>0, <1>14, <2>2 DEF Answer
    <2> QED
      BY <1>0, <1>14, <2>1, <2>3 DEF Answer
  <1>15. CASE FwdLook
    <2>1. Head(hci_rx) \in Events /\ Tail(hci_rx) \in Seq(Events)
      BY <1>0, <1>15 DEF FwdLook
    <2> QED
      BY <1>0, <1>15, <2>1 DEF FwdLook
  <1>16. CASE FwdStatus
    <2>1. event.status \in {Accepted, Refused, NoStatus}
      BY <1>0 DEF Events
    <2> QED
      BY <1>0, <1>16, <2>1 DEF FwdStatus
  <1>17. CASE FwdOpcode
    BY <1>0, <1>17 DEF FwdOpcode
  <1>18. CASE FwdGive
    <2>1. NoEvent \in Events
      BY DEF NoEvent, Events, Accepted
    <2> QED
      BY <1>0, <1>18, <2>1 DEF FwdGive, GiveDone
  <1>19. CASE UNCHANGED vars
    BY <1>0, <1>19 DEF vars
  <1> QED
    BY <1>2, <1>3, <1>4, <1>5, <1>6, <1>7, <1>8, <1>9, <1>10, <1>11, <1>12,
       <1>13, <1>14, <1>15, <1>16, <1>17, <1>18, <1>19
    DEF Next, Work, Forward

(* Every call has a number of its own, and returns once.                    *)
LEMMA CallNext == LockInv /\ CallInv /\ [Next]_vars => CallInv'
  <1> SUFFICES ASSUME LockInv, CallInv, [Next]_vars PROVE CallInv'
    OBVIOUS
  <1> USE HciAssumption DEF countVars, ctlVars, fwdVars, ansVars, cmdVars
  <1>0. /\ pc \in [Callers -> Places] /\ call \in [Callers -> Calls]
        /\ calls \in 0 .. MaxCalls
        /\ controller \in Seq(Calls)
    BY DEF LockInv, TypeOK, Calls, Places
  <1>n. \A i \in calls + 1 .. MaxCalls : returned[i] = "none"
    BY DEF CallInv
  <1>d. \A c, d \in Callers :
          pc[c] # "idle" /\ pc[d] # "idle" /\ c # d => call[c].id # call[d].id
    BY DEF CallInv
  <1>1. ASSUME NEW c \in Callers, NEW op \in Opcodes, Call(c, op) PROVE CallInv'
    <2>1. /\ calls < MaxCalls /\ calls' = calls + 1 /\ call'[c].id = calls + 1
          /\ UNCHANGED <<returned, verdict>>
          /\ \A d \in Callers \ {c} : pc'[d] = pc[d] /\ call'[d] = call[d]
      BY <1>0, <1>1 DEF Call, Goto
    <2>2. returned[calls + 1] = "none"
      BY <1>0, <1>n, <2>1
    <2>3. \A d \in Callers \ {c} : pc[d] # "idle" =>
            call[d].id \in 1 .. calls /\ returned[call[d].id] = "none"
      BY DEF CallInv
    <2>4. \A d \in Callers : pc'[d] # "idle" =>
            call'[d].id \in 1 .. calls' /\ returned'[call'[d].id] = "none"
      BY <1>0, <2>1, <2>2, <2>3
    <2>5. \A d, e \in Callers :
            pc'[d] # "idle" /\ pc'[e] # "idle" /\ d # e => call'[d].id # call'[e].id
      <3>1. \A d \in Callers \ {c} : pc[d] # "idle" => call'[d].id # calls + 1
        BY <1>0, <2>1, <2>3
      <3> QED
        BY <1>d, <2>1, <3>1
    <2>6. \A i \in calls' + 1 .. MaxCalls : returned'[i] = "none"
      <3>1. SUFFICES ASSUME NEW i \in calls + 2 .. MaxCalls
                     PROVE  returned[i] = "none"
        BY <1>0, <2>1
      <3>2. i \in calls + 1 .. MaxCalls
        BY <1>0
      <3> QED
        BY <1>n, <3>2
    <2> QED
      BY <2>1, <2>4, <2>5, <2>6 DEF CallInv
  <1>2. ASSUME NEW c \in Callers, NEW result, pc[c] # "idle",
               Return(c, result), UNCHANGED <<calls, verdict>>
        PROVE  CallInv'
    <2>1. /\ call[c].id \in 1 .. calls /\ pc'[c] = "idle"
          /\ \A d \in Callers \ {c} :
               pc'[d] = pc[d] /\ call'[d] = call[d]
      BY <1>0, <1>2 DEF Return, Goto, CallInv
    <2>2. /\ returned' = [i \in 1 .. MaxCalls |-> returned'[i]]
          /\ \A i \in 1 .. MaxCalls : i # call[c].id => returned'[i] = returned[i]
      BY <1>2 DEF Return, CallInv
    <2>3. \A d \in Callers \ {c} : pc[d] # "idle" =>
            /\ call[d].id \in 1 .. calls /\ call[d].id # call[c].id
            /\ returned[call[d].id] = "none"
      BY <1>2 DEF CallInv
    <2>4. \A d \in Callers : pc'[d] # "idle" =>
            call'[d].id \in 1 .. calls' /\ returned'[call'[d].id] = "none"
      BY <1>0, <1>2, <2>1, <2>2, <2>3
    <2>5. \A d, e \in Callers :
            pc'[d] # "idle" /\ pc'[e] # "idle" /\ d # e => call'[d].id # call'[e].id
      BY <2>1 DEF CallInv
    <2>6. \A i \in calls' + 1 .. MaxCalls : returned'[i] = "none"
      <3>1. SUFFICES ASSUME NEW i \in calls + 1 .. MaxCalls
                     PROVE  returned'[i] = "none"
        BY <1>2
      <3>2. returned[i] = "none" /\ i \in 1 .. MaxCalls /\ i # call[c].id
        BY <1>0, <1>n, <2>1
      <3> QED
        BY <2>2, <3>2
    <2>7. verdict' = [i \in 1 .. MaxCalls |-> verdict'[i]]
      BY <1>2 DEF CallInv
    <2> QED
      BY <2>2, <2>4, <2>5, <2>6, <2>7 DEF CallInv
  <1>3. ASSUME UNCHANGED <<call, calls, returned, verdict>>,
               \A c \in Callers : pc'[c] = "idle" <=> pc[c] = "idle"
        PROVE  CallInv'
    BY <1>3 DEF CallInv
  <1>4. ASSUME NEW c \in Callers, Work(c) PROVE CallInv'
    <2>1. CASE NoBuffer(c)
      BY <1>0, <1>2, <2>1 DEF NoBuffer
    <2>2. CASE Finish(c)
      BY <1>0, <1>2, <2>2 DEF Finish
    <2>3. CASE \/ Lock(c) \/ GetBuffer(c) \/ ResetAnswer(c) \/ Arm(c)
               \/ Send(c) \/ SendFails(c) \/ Answered(c) \/ TimesOut(c)
      <3>1. /\ UNCHANGED <<call, calls, returned, verdict>>
            /\ \E p \in Places \ {"idle"} : Goto(c, p)
            /\ pc[c] # "idle"
        BY <2>3
        DEF Lock, GetBuffer, ResetAnswer, Arm, Send, SendFails, Answered,
            TimesOut, Await, Places
      <3> QED
        BY <1>0, <1>3, <3>1 DEF Goto
    <2> QED
      BY <1>4, <2>1, <2>2, <2>3 DEF Work
  <1>5. ASSUME NEW status \in {Accepted, Refused}, Answer(status) PROVE CallInv'
    BY <1>5 DEF Answer, CallInv
  <1>6. CASE Forward \/ DriverFrees
    BY <1>3, <1>6
    DEF Forward, FwdLook, FwdStatus, FwdOpcode, FwdGive, DriverFrees
  <1>7. CASE UNCHANGED vars
    BY <1>3, <1>7 DEF vars
  <1> QED
    BY <1>1, <1>4, <1>5, <1>6, <1>7 DEF Next

(* While no wait has run out, the only answer on its way is that of the one *)
(* call which waits for it.                                                 *)
LEMMA ExchangeNext ==
  Inv /\ [Next]_vars => (timeouts' = 0 => Exchange')
  <1> SUFFICES ASSUME LockInv, CallInv, timeouts = 0 => Exchange,
                      [Next]_vars, timeouts' = 0
               PROVE  Exchange'
    BY DEF Inv
  <1> USE HciAssumption DEF countVars, ctlVars, fwdVars, ansVars, cmdVars
  <1>0. /\ pc \in [Callers -> Places] /\ call \in [Callers -> Calls]
        /\ err \in [Callers -> {"none", "send", "accepted", "EIO", "ETIMEDOUT"}]
        /\ calls \in 0 .. MaxCalls /\ timeouts \in Nat
        /\ \A c \in Callers : cmd_lock = c <=> pc[c] \in Inside
        /\ fwd \in {"idle", "status", "opcode", "give"}
    BY DEF LockInv, TypeOK, Calls, Places
  <1>t. timeouts = 0 /\ Exchange
    BY <1>0 DEF Next, Work, Forward, Call, Lock, GetBuffer, NoBuffer,
       ResetAnswer, Arm, Send, SendFails, Answered, TimesOut, Finish,
       DriverFrees, Answer, FwdLook, FwdStatus, FwdOpcode, FwdGive, vars
  <1>r. \A c \in Callers : Right(c)
    BY <1>t DEF Exchange
  <1>q. (\A c \in Callers : pc[c] # "wait") => Quiet
    BY <1>t DEF Exchange
  <1>o. \A i \in 1 .. MaxCalls : OwnAnswer(i)
    BY <1>t DEF Exchange
  <1>one. \A c, d \in Callers : pc[c] \in Inside /\ pc[d] \in Inside => c = d
    BY <1>0
  <1>i. \A c \in Callers : pc[c] # "idle" => call[c].id \in 1 .. MaxCalls
    BY <1>0 DEF CallInv
  <1>1. ASSUME NEW c \in Callers, NEW op \in Opcodes, Call(c, op)
        PROVE  Exchange'
    <2>1. \A d \in Callers \ {c} : Right(d)'
      BY <1>0, <1>1, <1>r DEF Call, Goto, Right, Asked
    <2>2. Right(c)'
      BY <1>0, <1>1 DEF Call, Goto, Right
    <2>3. (\A d \in Callers : pc'[d] # "wait") => Quiet'
      BY <1>0, <1>1, <1>q DEF Call, Goto, Quiet
    <2> QED
      BY <1>1, <2>1, <2>2, <2>3, <1>o DEF Call, Exchange, OwnAnswer
  \* What stays of the others when the caller inside moves.
  <1>2. ASSUME NEW c \in Callers, pc[c] \in Inside
        PROVE  /\ \A d \in Callers \ {c} : pc[d] \in {"idle", "lock"}
               /\ pc[c] # "wait" => Quiet
    <2>1. \A d \in Callers \ {c} : pc[d] \in {"idle", "lock"}
      BY <1>0, <1>2 DEF Inside, Places
    <2> QED
      BY <1>q, <2>1
  <1>3. ASSUME NEW c \in Callers, pc[c] \in Inside, NEW p \in Places, Goto(c, p),
               \A d \in Callers \ {c} : call'[d] = call[d],
               Right(c)', p # "wait" => Quiet',
               UNCHANGED <<returned, verdict>>
        PROVE  Exchange'
    <2>1. pc'[c] = p /\ \A d \in Callers \ {c} : pc'[d] = pc[d]
      BY <1>0, <1>3 DEF Goto
    <2>2. \A d \in Callers \ {c} : Right(d)'
      BY <1>2, <1>3, <1>r, <2>1 DEF Right
    <2> QED
      BY <1>3, <1>o, <2>1, <2>2 DEF Exchange, OwnAnswer
  <1>4. ASSUME NEW c \in Callers, Lock(c) PROVE Exchange'
    <2>1. cmd_lock = "none" /\ \A d \in Callers : pc[d] \in {"idle", "lock"}
      BY <1>0, <1>4 DEF Lock, LockFree, Inside, Places
    <2>2. pc'[c] = "buffer" /\ \A d \in Callers \ {c} : pc'[d] = pc[d]
      BY <1>0, <1>4 DEF Lock, Goto
    <2>3. Quiet
      BY <1>q, <2>1
    <2>4. \A d \in Callers : Right(d)'
      BY <1>4, <1>r, <2>1, <2>2 DEF Lock, Right
    <2> QED
      BY <1>4, <1>o, <2>3, <2>4 DEF Lock, Exchange, OwnAnswer, Quiet
  <1>5. ASSUME NEW c \in Callers, GetBuffer(c) PROVE Exchange'
    <2>1. Right(c)'
      BY <1>0, <1>5, <1>r DEF GetBuffer, Goto, Right
    <2> QED
      BY <1>2, <1>3, <1>5, <2>1 DEF GetBuffer, Inside, Places, Quiet
  <1>6. ASSUME NEW c \in Callers, ResetAnswer(c) PROVE Exchange'
    <2>1. Right(c)'
      BY <1>0, <1>6, <1>r DEF ResetAnswer, Goto, Right
    <2> QED
      BY <1>2, <1>3, <1>6, <2>1 DEF ResetAnswer, Inside, Places, Quiet
  <1>7. ASSUME NEW c \in Callers, Arm(c) PROVE Exchange'
    <2>1. Right(c)'
      BY <1>0, <1>7, <1>r DEF Arm, Goto, Right
    <2> QED
      BY <1>2, <1>3, <1>7, <2>1 DEF Arm, Inside, Places, Quiet
  <1>8. ASSUME NEW c \in Callers, Send(c) PROVE Exchange'
    <2>1. Quiet
      BY <1>2, <1>8 DEF Send, Inside
    <2>2. Right(c)
      BY <1>r
    <2>3. Asked(call[c])'
      <3>1. controller' = <<call[c]>> /\ hci_rx' = <<>> /\ fwd' = "idle"
        BY <1>8, <2>1 DEF Send, Quiet
      <3>2. pending_opcode' = call[c].op /\ call[c].op # 0 /\ cmd_done' = 0
        BY <1>8, <2>2 DEF Send, Right
      <3>3. call' = call
        BY <1>8 DEF Send
      <3> QED
        BY <3>1, <3>2, <3>3 DEF Asked
    <2>4. Right(c)'
      BY <1>0, <1>8, <2>2, <2>3 DEF Send, Await, Goto, Right
    <2> QED
      BY <1>3, <1>8, <2>4 DEF Send, Await, Inside, Places
  <1>9. ASSUME NEW c \in Callers, SendFails(c) PROVE Exchange'
    <2>1. Right(c)'
      BY <1>0, <1>9, <1>r DEF SendFails, Goto, Right
    <2> QED
      BY <1>2, <1>3, <1>9, <2>1 DEF SendFails, Inside, Places, Quiet
  <1>10. ASSUME NEW c \in Callers, Answered(c) PROVE Exchange'
    <2>1. Asked(call[c]) /\ cmd_done = 1
      BY <1>10, <1>r DEF Answered, Right
    <2>2. /\ Quiet /\ verdict[call[c].id] \in {Accepted, Refused}
          /\ pending_status = verdict[call[c].id]
      BY <2>1 DEF Asked, Quiet
    <2>3. pc'[c] = "finish"
      BY <1>0, <1>10 DEF Answered, Goto
    <2>4. err'[c] = IF pending_status = Accepted THEN "accepted" ELSE "EIO"
      BY <1>0, <1>10 DEF Answered
    <2>5. UNCHANGED <<call, verdict>>
      BY <1>10 DEF Answered
    <2>6. Right(c)'
      <3>1. call'[c].op \in Opcodes
        BY <1>10, <1>r, <2>5 DEF Answered, Right
      <3>2. /\ err'[c] = "accepted" => verdict'[call'[c].id] = Accepted
            /\ err'[c] = "EIO" => verdict'[call'[c].id] = Refused
        BY <2>2, <2>4, <2>5
      <3> QED
        BY <2>3, <3>1, <3>2 DEF Right
    <2> QED
      BY <1>3, <1>10, <2>2, <2>6 DEF Answered, Inside, Places, Quiet
  <1>11. ASSUME NEW c \in Callers, Finish(c) PROVE Exchange'
    <2>1. Quiet /\ \A d \in Callers \ {c} : pc[d] \in {"idle", "lock"}
      BY <1>2, <1>11 DEF Finish, Inside
    <2>2. pc'[c] = "idle" /\ \A d \in Callers \ {c} : pc'[d] = pc[d]
      BY <1>0, <1>11 DEF Finish, Return, Goto
    <2>3. \A d \in Callers \ {c} : call'[d] = call[d]
      BY <1>0, <1>11 DEF Finish, Return
    <2>4. \A d \in Callers : Right(d)'
      BY <1>11, <1>r, <2>1, <2>2, <2>3 DEF Finish, Right
    <2>5. Quiet'
      BY <1>11, <2>1 DEF Finish, Quiet
    <2>6. ASSUME NEW i \in 1 .. MaxCalls PROVE OwnAnswer(i)'
      <3>1. verdict' = verdict
        BY <1>11 DEF Finish
      <3>2. CASE i = call[c].id
        <4>1. returned'[i] = err[c]
          BY <1>11, <3>2 DEF Finish, Return, CallInv
        <4> QED
          BY <1>11, <1>r, <3>1, <3>2, <4>1 DEF Finish, Right, OwnAnswer
      <3>3. CASE i # call[c].id
        <4>1. returned'[i] = returned[i]
          BY <1>11, <3>3 DEF Finish, Return, CallInv
        <4> QED
          BY <1>o, <3>1, <4>1 DEF OwnAnswer
      <3> QED
        BY <3>2, <3>3
    <2> QED
      BY <2>4, <2>5, <2>6 DEF Exchange
  \* Nothing of the callers changes in what follows: only the exchange does.
  <1>12. ASSUME UNCHANGED <<pc, call, err, returned>>,
                \A c \in Callers : pc[c] = "send" => UNCHANGED pending_opcode,
                \A c \in Callers : pc[c] \in {"arm", "send"} => UNCHANGED cmd_done,
                \A c \in Callers : pc[c] = "wait" => Asked(call[c])',
                (\A c \in Callers : pc[c] # "wait") => Quiet',
                \A i \in 1 .. MaxCalls : verdict'[i] # verdict[i] =>
                  \E c \in Callers : pc[c] = "wait" /\ call[c].id = i
         PROVE  Exchange'
    <2>1. ASSUME NEW c \in Callers PROVE Right(c)'
      <3>1. pc[c] = "finish" => verdict'[call[c].id] = verdict[call[c].id]
        BY <1>12, <1>i, <1>one DEF Inside
      <3> QED
        BY <1>12, <1>r, <3>1 DEF Right
    <2>2. ASSUME NEW i \in 1 .. MaxCalls PROVE OwnAnswer(i)'
      <3>1. CASE verdict'[i] = verdict[i]
        BY <1>12, <1>o, <3>1 DEF OwnAnswer
      <3>2. CASE verdict'[i] # verdict[i]
        <4>1. returned'[i] = "none"
          BY <1>12, <3>2 DEF CallInv
        <4> QED
          BY <4>1 DEF OwnAnswer
      <3> QED
        BY <3>1, <3>2
    <2> QED
      BY <1>12, <2>1, <2>2 DEF Exchange
  <1>13. CASE DriverFrees \/ UNCHANGED vars
    BY <1>12, <1>13, <1>r, <1>q DEF DriverFrees, vars, Right, Asked, Quiet
  <1>14. ASSUME NEW status \in {Accepted, Refused}, Answer(status)
         PROVE  Exchange'
    <2>1. PICK c \in Callers : pc[c] = "wait"
      BY <1>14, <1>q DEF Answer, Quiet
    <2>2. /\ controller = <<call[c]>> /\ hci_rx = <<>> /\ fwd = "idle"
          /\ pending_opcode = call[c].op /\ call[c].op # 0 /\ cmd_done = 0
      BY <1>14, <1>r, <2>1 DEF Answer, Right, Asked
    <2>3. call[c].id \in 1 .. MaxCalls
      BY <1>i, <2>1
    <2>4. /\ verdict'[call[c].id] = status
          /\ \A i \in 1 .. MaxCalls : i # call[c].id => verdict'[i] = verdict[i]
      BY <1>14, <2>2, <2>3 DEF Answer, CallInv
    <2>5. /\ controller' = <<>>
          /\ hci_rx' = <<[id |-> call[c].id, op |-> call[c].op, status |-> status]>>
          /\ UNCHANGED <<call, fwd, pending_opcode, cmd_done>>
      BY <1>14, <2>2 DEF Answer
    <2>6. Asked(call[c])'
      BY <2>2, <2>4, <2>5 DEF Asked
    <2>7. \A d \in Callers : pc[d] = "wait" => d = c
      BY <1>one, <2>1 DEF Inside
    <2> QED
      BY <1>12, <1>14, <2>1, <2>4, <2>6, <2>7 DEF Answer
  <1>15. ASSUME Forward PROVE Exchange'
    <2>1. PICK c \in Callers : pc[c] = "wait"
      BY <1>15, <1>q
      DEF Forward, FwdLook, FwdStatus, FwdOpcode, FwdGive, Quiet
    <2>2. Asked(call[c])
      BY <1>r, <2>1 DEF Right
    <2>3. \A d \in Callers : pc[d] \in Inside => d = c
      BY <1>one, <2>1 DEF Inside
    <2>4. UNCHANGED <<pc, call, err, returned, verdict, controller>>
      BY <1>15 DEF Forward, FwdLook, FwdStatus, FwdOpcode, FwdGive
    <2>5. Asked(call[c])'
      <3>1. CASE FwdLook
        <4>1. /\ controller = <<>>
              /\ hci_rx = <<[id |-> call[c].id, op |-> call[c].op,
                             status |-> verdict[call[c].id]]>>
              /\ verdict[call[c].id] \in {Accepted, Refused}
              /\ pending_opcode = call[c].op /\ call[c].op # 0 /\ cmd_done = 0
          BY <2>2, <3>1 DEF FwdLook, Asked
        <4>2. Mine(Head(hci_rx)) /\ Head(hci_rx).status = verdict[call[c].id]
              /\ Tail(hci_rx) = <<>>
          BY <4>1 DEF Mine
        <4>3. /\ fwd' = "status" /\ event' = Head(hci_rx) /\ hci_rx' = <<>>
              /\ cmd_done' = cmd_done
          BY <3>1, <4>2 DEF FwdLook
        <4> QED
          BY <2>4, <4>1, <4>2, <4>3 DEF Asked
      <3>2. CASE FwdStatus
        BY <2>2, <2>4, <3>2 DEF FwdStatus, Asked
      <3>3. CASE FwdOpcode
        BY <2>2, <2>4, <3>3 DEF FwdOpcode, Asked
      <3>4. CASE FwdGive
        BY <2>2, <2>4, <3>4 DEF FwdGive, GiveDone, Asked
      <3> QED
        BY <1>15, <3>1, <3>2, <3>3, <3>4 DEF Forward
    <2> QED
      BY <1>12, <2>1, <2>3, <2>4, <2>5 DEF Inside
  <1>16. ASSUME NEW c \in Callers, NoBuffer(c) \/ TimesOut(c) PROVE FALSE
    BY <1>0, <1>16, <1>t DEF NoBuffer, TimesOut
  <1> QED
    BY <1>1, <1>4, <1>5, <1>6, <1>7, <1>8, <1>9, <1>10, <1>11, <1>13, <1>14,
       <1>15, <1>16 DEF Next, Work

(* It holds always.                                                         *)
LEMMA Invariant == Spec => []Inv
  <1>1. Inv /\ [Next]_vars => Inv'
    BY LockNext, CallNext, ExchangeNext DEF Inv
  <1> QED
    BY <1>1, InvInit, PTL DEF Spec
-----------------------------------------------------------------------------
(* The command path's variables keep their types: the semaphore never       *)
(* counts beyond one, and a call is numbered as it was made.                *)
THEOREM CommandTypeCorrect == Spec => []TypeOK
  <1>1. Inv => TypeOK
    BY DEF Inv, LockInv
  <1> QED
    BY <1>1, Invariant, PTL

(* Until a wait has run out, every call returns the controller's answer to  *)
(* that very call, however many threads call and in whatever order.         *)
THEOREM EveryAnswerIsOwn == Spec => []AnswerIsOwn
  <1>1. Inv => AnswerIsOwn
    BY DEF Inv, Exchange, AnswerIsOwn
  <1> QED
    BY <1>1, Invariant, PTL

(* The one command buffer is in nobody's hands between two calls, whichever *)
(* way the calls end.                                                       *)
THEOREM BufferIsNeverKept == Spec => []BufferNotKept
  <1>1. Inv => BufferNotKept
    BY DEF Inv, LockInv, BufferNotKept, Inside
  <1> QED
    BY <1>1, Invariant, PTL
=============================================================================
