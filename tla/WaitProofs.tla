----------------------------- MODULE WaitProofs -----------------------------
(***************************************************************************)
(* Proof that the two programs never wait for each other, for every set of *)
(* faults, every set of -e options and programs, and either start order.   *)
(* WaitInv says what a program that waits can count on.  It is preserved   *)
(* by every step that starts in a state of IInv; together with IInv it     *)
(* rules out, pair by pair, the statements that both could wait at.        *)
(***************************************************************************)
EXTENDS HelloUcpProofs

(* The statements at which a program waits for an operation to end.        *)
WaitLabels == {"wait_send", "wait_recv", "wait_flush", "wait_close"}

(* WaitInv is preserved.  First the messages: what was sent is not unsent, *)
(* what was received stays so, a message is only lost when its sender is   *)
(* gone, and it is only taken by the peer's probe or receive.              *)
Takes(p) ==
  \/ pc[p] = "probe" /\ pc'[p] \in {"recv", "raise"}
  \/ op[p].kind = "recv" /\ pc'[p] = pc[p]

SentKept(p, q) ==
  /\ sent[q] # "none" => sent'[q] # "none"
  /\ sent[q] = "delivered" => sent'[q] = "delivered"
  /\ sent'[q] = "lost" =>
       sent[q] = "lost" \/ ~worker[q] \/ (PeerErr(q) /\ ep[q] = "closed")
  /\ sent'[q] \in {"matched", "delivered"} =>
       sent[q] \in {"matched", "delivered"} \/ (q = Peer(p) /\ Takes(p))

LEMMA SentKeeps ==
  ASSUME TypeOK, AddressUnsent, MessageInv,
         NEW p \in Proc, Step(p), NEW q \in Proc
  PROVE  SentKept(p, q)
<1> USE TwoPrograms DEF TypeOK, SentKept
<1>1. CASE sent' = sent
  BY <1>1
<1>2. CASE p = Server /\ ServerProbe
  BY <1>2 DEF ServerProbe, Takes, Jump
<1>3. CASE p = Server /\ ServerSend
  <2>1. sent[Server] = "none"
    BY <1>3 DEF ServerSend, MessageInv
  <2>2. sent' \in {sent, [sent EXCEPT ![Server] = "flight"]}
    BY <1>3 DEF ServerSend, SendNbx
  <2> QED
    BY <2>1, <2>2
<1>4. CASE p = Client /\ ClientSend
  <2>1. sent[Client] = "none"
    BY <1>4 DEF ClientSend, AddressUnsent
  <2>2. sent' \in {sent, [sent EXCEPT ![Client] = "flight"]}
    BY <1>4 DEF ClientSend, SendNbx
  <2> QED
    BY <2>1, <2>2
<1>5. CASE p = Client /\ ClientProbe
  BY <1>5 DEF ClientProbe, Takes, Jump
<1>6. CASE Deliver(p)
  BY <1>6 DEF Deliver
<1>7. CASE Complete(p)
  <2>1. CASE op[p].kind = "recv" /\ sent' = [sent EXCEPT ![Peer(p)] = "delivered"]
    <3>1. Takes(p)
      BY <1>7, <2>1 DEF Complete, Takes
    <3> QED
      BY <2>1, <3>1
  <2> QED
    BY <1>1, <1>7, <2>1 DEF Complete
<1>8. CASE Lose(p)
  BY <1>8 DEF Lose
<1>9. CASE /\ RunStep(p)
           /\ ~(p = Server /\ (ServerProbe \/ ServerSend))
           /\ ~(p = Client /\ (ClientSend \/ ClientProbe))
           /\ ~Deliver(p) /\ ~Complete(p) /\ ~Lose(p)
  <2>1. sent' = sent
    BY <1>9
       DEF RunStep, RunServer, RunUcxClient, Progress, ServerRecv, ServerReceived,
           ServerEpCreate, ServerAlloc, ServerSleep, ServerSent, ServerFailureSeen,
           ServerPeerDead, ServerFlush, ServerFlushed, ClientEpCreate, ClientSent,
           ClientDisconnected, ClientRecv, ClientReceived, EpClose, EpClosed,
           FailureHandler, requests
  <2> QED
    BY <1>1, <2>1
<1>10. CASE OutsideRun(p)
  BY <1>1, <1>10, OutsideSummary
<1> QED
  BY <1>2, <1>3, <1>4, <1>5, <1>6, <1>7, <1>8, <1>9, <1>10, StepKinds

(* A step of p touches neither the worker nor the ep_status of the other   *)
(* program, and what is gone does not come back.                           *)
Lasting(p, q) ==
  /\ q # p => worker'[q] = worker[q] /\ epStatus'[q] = epStatus[q]
  /\ worker'[q] => worker[q]
  /\ ep[q] = "closed" => ep'[q] = "closed"

LEMMA StepLasting ==
  ASSUME TypeOK, ResourceInv, NEW p \in Proc, Step(p), NEW q \in Proc
  PROVE  Lasting(p, q)
<1>1. ep[p] = "closed" => pc[p] \in ClosedLabels \cup {"killed"}
  BY DEF ResourceInv, ResourceOK
<1>2. q # p => ep'[q] = ep[q]
  BY Frame DEF Untouched
<1> USE DEF TypeOK, Lasting
<1>3. CASE p = Server /\ RunServer
  BY <1>1, <1>2, <1>3
     DEF RunServer, ServerProbe, ServerRecv, ServerReceived, ServerEpCreate, ServerAlloc,
         ServerSleep, ServerSend, ServerSent, ServerFailureSeen, ServerPeerDead,
         ServerFlush, ServerFlushed, endpoints, ClosedLabels
<1>4. CASE p = Client /\ RunUcxClient
  BY <1>1, <1>2, <1>4
     DEF RunUcxClient, ClientEpCreate, ClientSend, ClientSent, ClientDisconnected,
         ClientProbe, ClientRecv, ClientReceived, endpoints, ClosedLabels
<1>5. CASE EpClose(p) \/ EpClosed(p) \/ Progress(p) \/ Lose(p)
  BY <1>1, <1>2, <1>5
     DEF EpClose, EpClosed, Progress, Deliver, Complete, FailureHandler, Lose, endpoints,
         ClosedLabels
<1>6. CASE OutsideRun(p)
  BY <1>2, <1>6
     DEF OutsideRun, ServerListen, ServerAccept, ServerSendLength, ServerSendAddress,
         BrokenPipe, ClientConnect, ClientRecvLength, ClientRecvAddress, BarrierSend,
         BarrierRecv, CloseOob, DestroyAndExit, Raise, Crash, End, endpoints
<1> QED
  BY <1>3, <1>4, <1>5, <1>6, StepKinds DEF RunStep

(* The program that takes the step stays at its own statements, with a     *)
(* worker until it is gone.                                                *)
AtOwnLabel(p) ==
  /\ pc[p] \in LabelsOf(p)
  /\ pc[p] \notin {"exited", "killed"} => worker[p]

LEMMA LabelOwn ==
  ASSUME TypeOK, NEW p \in Proc, Step(p), AtOwnLabel(p)
  PROVE  AtOwnLabel(p)'
<1> USE TwoPrograms DEF TypeOK, AtOwnLabel, LabelsOf, Labels, Jump, endpoints
<1>1. CASE p = Server /\ RunServer
  BY <1>1
     DEF RunServer, ServerProbe, ServerRecv, ServerReceived, ServerEpCreate, ServerAlloc,
         ServerSleep, ServerSend, ServerSent, ServerFailureSeen, ServerPeerDead,
         ServerFlush, ServerFlushed, AfterRun
<1>2. CASE p = Client /\ RunUcxClient
  BY <1>2
     DEF RunUcxClient, ClientEpCreate, ClientSend, ClientSent, ClientDisconnected,
         ClientProbe, ClientRecv, ClientReceived, AfterRun
<1>3. CASE EpClose(p) \/ EpClosed(p) \/ Progress(p) \/ Lose(p)
  <2>1. CASE EpClose(p)
    BY <2>1 DEF EpClose
  <2>2. CASE EpClosed(p)
    BY <2>2 DEF EpClosed, AfterRun
  <2>3. CASE Progress(p) \/ Lose(p)
    <3>1. pc' = pc /\ worker' = worker
      BY <2>3 DEF Progress, Deliver, Complete, FailureHandler, Lose
    <3> QED
      BY <3>1
  <2> QED
    BY <1>3, <2>1, <2>2, <2>3
<1>4. CASE p = Server /\ (ServerListen \/ ServerAccept \/ ServerSendLength
                           \/ ServerSendAddress \/ BrokenPipe)
  BY <1>4
     DEF ServerListen, ServerAccept, ServerSendLength, ServerSendAddress, BrokenPipe, End,
         LeaveWith
<1>5. CASE p = Client /\ (ClientConnect \/ ClientRecvLength \/ ClientRecvAddress)
  BY <1>5 DEF ClientConnect, ClientRecvLength, ClientRecvAddress, LeaveWith
<1>6. CASE \/ BarrierSend(p) \/ BarrierRecv(p) \/ CloseOob(p) \/ DestroyAndExit(p)
           \/ Raise(p) \/ Crash(p)
  <2>1. CASE BarrierSend(p) \/ BarrierRecv(p) \/ CloseOob(p)
    BY <2>1 DEF BarrierSend, BarrierRecv, CloseOob
  <2>2. CASE DestroyAndExit(p) \/ Raise(p) \/ Crash(p)
    <3>1. pc'[p] \in {"exited", "killed"}
      BY <2>2 DEF DestroyAndExit, Raise, Crash, End
    <3> QED
      BY <3>1
  <2> QED
    BY <1>6, <2>1, <2>2
<1> HIDE DEF TypeOK, AtOwnLabel, LabelsOf, Labels, Jump, endpoints
<1> QED
  BY <1>1, <1>2, <1>3, <1>4, <1>5, <1>6, StepKinds DEF RunStep, OutsideRun

(* It waits for the operation that it issued; ucx_wait is told of the end  *)
(* of it; and a send that was not refused has put the message on its way.  *)
WaitsFor(p) ==
  /\ \A k \in {"send", "recv", "flush", "close"} : pc[p] = WaitLabel(k) => op[p].kind = k
  /\ op[p].kind \in {"send", "recv"} /\ op[p].req /\ op[p].st # "INPROGRESS" => completed[p]
  /\ op[p].kind = "send" /\ op[p].st # "ERR" => sent[p] # "none"

(* Three ways to that: no operation, one just issued, one that just ended. *)
LEMMA WaitsForNothing ==
  ASSUME NEW p \in Proc, op'[p] = NoOp, pc'[p] \notin WaitLabels
  PROVE  WaitsFor(p)'
BY DEF WaitsFor, NoOp, WaitLabels, WaitLabel

LEMMA NbxRequest ==
  ASSUME op \in [Proc -> Ops], NEW p \in Proc,
         NEW k \in {"send", "recv", "flush", "close"}, NbxReturns(p, k)
  PROVE  op'[p].kind = k /\ (op'[p].req <=> op'[p].st = "INPROGRESS")
BY DEF NbxReturns

LEMMA WaitsForIssued ==
  ASSUME op \in [Proc -> Ops], NEW p \in Proc,
         NEW k \in {"send", "recv", "flush", "close"}, NbxReturns(p, k),
         pc'[p] = WaitLabel(k),
         k = "send" => op'[p].st = "ERR" \/ sent'[p] # "none"
  PROVE  WaitsFor(p)'
<1>1. op'[p].kind = k /\ (op'[p].req <=> op'[p].st = "INPROGRESS")
  BY NbxRequest
<1> QED
  BY <1>1 DEF WaitsFor, WaitLabel

LEMMA WaitsForOwn ==
  ASSUME TypeOK, RequestInv, AddressUnsent, MessageInv,
         NEW p \in Proc, Step(p), WaitsFor(p)
  PROVE  WaitsFor(p)'
<1> USE TwoPrograms DEF TypeOK, Jump
<1>0. op[p] \in Ops /\ RequestOK(p)
  BY DEF RequestInv
<1>1. pc[p] \notin WaitLabels \cup {"killed"} => op[p] = NoOp
  BY <1>0, RequestIdle DEF WaitLabels
<1>2. CASE op' = op /\ pc[p] \notin WaitLabels \cup {"killed"} /\ pc'[p] \notin WaitLabels
  BY <1>1, <1>2, WaitsForNothing
<1>3. CASE p = Server /\ ServerRecv
  <2>1. CASE NbxReturns(Server, "recv") /\ pc'[Server] = "wait_recv"
    BY <1>3, <2>1, WaitsForIssued DEF WaitLabel
  <2>2. CASE op' = op /\ pc'[Server] \notin WaitLabels
    BY <1>2, <1>3, <2>2 DEF ServerRecv, WaitLabels
  <2> QED
    BY <1>3, <2>1, <2>2 DEF ServerRecv, AfterRun, WaitLabels
<1>4. CASE p = Server /\ (ServerReceived \/ ServerSent)
  <2>1. op'[p] = NoOp /\ pc'[p] \notin WaitLabels
    BY <1>4, FreeResult DEF ServerReceived, ServerSent, AfterRun, WaitLabels
  <2> QED
    BY <2>1, WaitsForNothing
<1>5. CASE p = Server /\ ServerSend
  <2>1. /\ NbxReturns(Server, "send") /\ pc'[Server] = "wait_send"
        /\ op'[Server].st = "ERR" \/ sent'[Server] = "flight"
    BY <1>5 DEF ServerSend, SendNbx
  <2> QED
    BY <1>5, <2>1, WaitsForIssued DEF WaitLabel
<1>6. CASE p = Server /\ ServerFlush
  BY <1>6, WaitsForIssued DEF ServerFlush, WaitLabel
<1>7. CASE p = Server /\ ServerFlushed
  <2>1. op'[p] = NoOp /\ pc'[p] \notin WaitLabels
    BY <1>7 DEF ServerFlushed, WaitLabels
  <2> QED
    BY <2>1, WaitsForNothing
<1>8. CASE p = Server /\ (ServerProbe \/ ServerEpCreate \/ ServerAlloc \/ ServerSleep
                           \/ ServerFailureSeen \/ ServerPeerDead)
  BY <1>2, <1>8
     DEF ServerProbe, ServerEpCreate, ServerAlloc, ServerSleep, ServerFailureSeen,
         ServerPeerDead, AfterRun, requests, WaitLabels
<1>9. CASE p = Client /\ ClientSend
  <2>1. CASE SendNbx(Client) /\ pc'[Client] = "wait_send"
    <3>1. /\ NbxReturns(Client, "send")
          /\ op'[Client].st = "ERR" \/ sent'[Client] = "flight"
      BY <2>1 DEF SendNbx
    <3> QED
      BY <1>9, <2>1, <3>1, WaitsForIssued DEF WaitLabel
  <2>2. CASE op' = op /\ pc'[Client] \notin WaitLabels
    BY <1>2, <1>9, <2>2 DEF ClientSend, WaitLabels
  <2> QED
    BY <1>9, <2>1, <2>2 DEF ClientSend, WaitLabels
<1>10. CASE p = Client /\ (ClientSent \/ ClientReceived)
  <2>1. op'[p] = NoOp /\ pc'[p] \notin WaitLabels
    BY <1>10, FreeResult DEF ClientSent, ClientReceived, WaitLabels
  <2> QED
    BY <2>1, WaitsForNothing
<1>11. CASE p = Client /\ ClientRecv
  <2>1. CASE NbxReturns(Client, "recv") /\ pc'[Client] = "wait_recv"
    BY <1>11, <2>1, WaitsForIssued DEF WaitLabel
  <2>2. CASE op' = op /\ pc'[Client] \notin WaitLabels
    BY <1>2, <1>11, <2>2 DEF ClientRecv, WaitLabels
  <2> QED
    BY <1>11, <2>1, <2>2 DEF ClientRecv, WaitLabels
<1>12. CASE p = Client /\ (ClientEpCreate \/ ClientDisconnected \/ ClientProbe)
  BY <1>2, <1>12
     DEF ClientEpCreate, ClientDisconnected, ClientProbe, AfterRun, requests, WaitLabels
<1>13. CASE EpClose(p)
  BY <1>13, WaitsForIssued DEF EpClose, WaitLabel
<1>14. CASE EpClosed(p)
  <2>1. op'[p] = NoOp /\ pc'[p] \notin WaitLabels
    BY <1>14 DEF EpClosed, AfterRun, WaitLabels
  <2> QED
    BY <2>1, WaitsForNothing
<1>15. CASE Complete(p)
  <2>1. PICK s \in {"OK", "ERR"} : op' = [op EXCEPT ![p] = [op[p] EXCEPT !.st = s]]
    BY <1>15 DEF Complete
  <2>2. /\ op'[p].kind = op[p].kind /\ op'[p].st \in {"OK", "ERR"}
        /\ op[p].st = "INPROGRESS"
    BY <1>0, <1>15, <2>1, NewStatus DEF Complete
  <2>3. pc' = pc /\ (op[p].kind \in {"send", "recv"} => completed'[p])
    BY <1>15 DEF Complete, Handler
  <2>4. sent[p] # "none" => sent'[p] # "none"
    BY SentKeeps DEF SentKept
  <2> QED
    BY <2>2, <2>3, <2>4 DEF WaitsFor
<1>16. CASE Deliver(p) \/ FailureHandler(p) \/ Lose(p)
  <2>1. op' = op /\ completed' = completed /\ pc' = pc
    BY <1>16 DEF Deliver, FailureHandler, Lose, requests
  <2>2. sent[p] # "none" => sent'[p] # "none"
    BY SentKeeps DEF SentKept
  <2> QED
    BY <2>1, <2>2 DEF WaitsFor
<1>17. CASE p = Server /\ (ServerListen \/ ServerAccept \/ ServerSendLength
                            \/ ServerSendAddress \/ BrokenPipe)
  BY <1>2, <1>17
     DEF ServerListen, ServerAccept, ServerSendLength, ServerSendAddress, BrokenPipe, End,
         LeaveWith, requests, WaitLabels
<1>18. CASE p = Client /\ (ClientConnect \/ ClientRecvLength \/ ClientRecvAddress)
  BY <1>2, <1>18
     DEF ClientConnect, ClientRecvLength, ClientRecvAddress, LeaveWith, requests, WaitLabels
<1>19. CASE BarrierSend(p) \/ BarrierRecv(p) \/ CloseOob(p) \/ DestroyAndExit(p) \/ Raise(p)
  BY <1>2, <1>19
     DEF BarrierSend, BarrierRecv, CloseOob, DestroyAndExit, Raise, End, requests, WaitLabels
<1>20. CASE Crash(p)
  <2>1. op' = op /\ completed' = completed /\ sent' = sent /\ pc'[p] = "killed"
    BY <1>20 DEF Crash, End, requests
  <2> QED
    BY <2>1 DEF WaitsFor, WaitLabel
<1> QED
  BY <1>3, <1>4, <1>5, <1>6, <1>7, <1>8, <1>9, <1>10, <1>11, <1>12, <1>13, <1>14, <1>15,
     <1>16, <1>17, <1>18, <1>19, <1>20, StepKinds
     DEF RunStep, RunServer, RunUcxClient, Progress, OutsideRun

(* Both programs keep WaitOK, in a step of either.                         *)
LEMMA WaitOKStep ==
  ASSUME TypeOK, RequestInv, ResourceInv, BarrierInv, MessageInv,
         NEW p \in Proc, Step(p), NEW q \in Proc, WaitOK(q)
  PROVE  WaitOK(q)'
<1>1. SentKept(p, q) /\ Lasting(p, q) /\ mode' = mode
  BY SentKeeps, StepLasting, StepKeeps DEF BarrierInv
<1>2. sent'[q] = "lost" => ~worker'[q] \/ (PeerErr(q)' /\ ep'[q] = "closed")
  BY <1>1 DEF WaitOK, SentKept, Lasting, PeerErr
<1>3. AtOwnLabel(q) /\ WaitsFor(q)
  BY DEF WaitOK, AtOwnLabel, WaitsFor
<1>4. CASE q = p
  <2>1. AtOwnLabel(q)' /\ WaitsFor(q)'
    BY <1>3, <1>4, LabelOwn, WaitsForOwn DEF BarrierInv
  <2> QED
    BY <1>2, <2>1 DEF WaitOK, AtOwnLabel, WaitsFor
<1>5. CASE q # p
  <2>1. Untouched(q)
    BY <1>5, Frame
  <2>2. AtOwnLabel(q)' /\ WaitsFor(q)'
    BY <1>1, <1>3, <1>5, <2>1
       DEF AtOwnLabel, WaitsFor, SentKept, Lasting, Untouched, LabelsOf
  <2> QED
    BY <1>2, <2>2 DEF WaitOK, AtOwnLabel, WaitsFor
<1> QED
  BY <1>4, <1>5

(* No program goes back to where it has not found the peer's message.      *)
LEMMA BeforeOwn ==
  ASSUME TypeOK, NEW p \in Proc, Step(p), pc[p] \notin BeforeMessage(p)
  PROVE  pc'[p] \notin BeforeMessage(p)
<1> USE TwoPrograms DEF TypeOK, BeforeMessage, Connecting, Jump
<1>1. CASE p = Server /\ RunServer
  BY <1>1
     DEF RunServer, ServerProbe, ServerRecv, ServerReceived, ServerEpCreate, ServerAlloc,
         ServerSleep, ServerSend, ServerSent, ServerFailureSeen, ServerPeerDead,
         ServerFlush, ServerFlushed, AfterRun
<1>2. CASE p = Client /\ RunUcxClient
  BY <1>2
     DEF RunUcxClient, ClientEpCreate, ClientSend, ClientSent, ClientDisconnected,
         ClientProbe, ClientRecv, ClientReceived, AfterRun
<1>3. CASE EpClose(p) \/ EpClosed(p) \/ Progress(p) \/ Lose(p)
  BY <1>3
     DEF EpClose, EpClosed, Progress, Deliver, Complete, FailureHandler, Lose, AfterRun
<1>4. CASE p = Server /\ (ServerListen \/ ServerAccept \/ ServerSendLength
                           \/ ServerSendAddress \/ BrokenPipe)
  BY <1>4
     DEF ServerListen, ServerAccept, ServerSendLength, ServerSendAddress, BrokenPipe, End
<1>5. CASE p = Client /\ (ClientConnect \/ ClientRecvLength \/ ClientRecvAddress)
  BY <1>5 DEF ClientConnect, ClientRecvLength, ClientRecvAddress
<1>6. CASE \/ BarrierSend(p) \/ BarrierRecv(p) \/ CloseOob(p) \/ DestroyAndExit(p)
           \/ Raise(p) \/ Crash(p)
  <2>1. pc'[p] \in {"poll", "close_oob", "destroy", "exited", "killed"}
    BY <1>6 DEF BarrierSend, BarrierRecv, CloseOob, DestroyAndExit, Raise, Crash, End
  <2> QED
    BY <2>1
<1> HIDE DEF TypeOK, BeforeMessage, Connecting, Jump
<1> QED
  BY <1>1, <1>2, <1>3, <1>4, <1>5, <1>6, StepKinds DEF RunStep, OutsideRun

(* A receive that has succeeded was one before, or has just taken the      *)
(* message.                                                                *)
LEMMA ReceiveEnds ==
  ASSUME TypeOK, NEW p \in Proc, Step(p), op'[p].kind = "recv", op'[p].st = "OK"
  PROVE  op'[p] = op[p] \/ sent'[Peer(p)] = "delivered"
<1> USE TwoPrograms DEF TypeOK
<1>1. CASE Complete(p)
  <2>1. PICK s \in {"OK", "ERR"} :
          /\ op' = [op EXCEPT ![p] = [op[p] EXCEPT !.st = s]]
          /\ s = "OK" /\ op[p].kind = "recv" =>
               sent' = [sent EXCEPT ![Peer(p)] = "delivered"]
    BY <1>1 DEF Complete
  <2>2. op'[p].kind = op[p].kind /\ op'[p].st = s
    BY <2>1, NewStatus
  <2> QED
    BY <2>1, <2>2
<1>2. CASE /\ p = Server
           /\ ServerRecv \/ ServerReceived \/ ServerSend \/ ServerSent \/ ServerFlush
              \/ ServerFlushed
  <2>1. op' = op \/ op'[p] = NoOp \/ op'[p].kind # "recv" \/ op'[p].st # "OK"
    BY <1>2, NbxResult, SendResult, FreeResult
       DEF ServerRecv, ServerReceived, ServerSend, ServerSent, ServerFlush, ServerFlushed
  <2> QED
    BY <2>1 DEF NoOp
<1>3. CASE p = Client /\ (ClientSend \/ ClientSent \/ ClientRecv \/ ClientReceived)
  <2>1. op' = op \/ op'[p] = NoOp \/ op'[p].kind # "recv" \/ op'[p].st # "OK"
    BY <1>3, NbxResult, SendResult, FreeResult
       DEF ClientSend, ClientSent, ClientRecv, ClientReceived
  <2> QED
    BY <2>1 DEF NoOp
<1>4. CASE EpClose(p) \/ EpClosed(p)
  <2>1. op'[p] = NoOp \/ op'[p].kind # "recv"
    BY <1>4, NbxResult DEF EpClose, EpClosed
  <2> QED
    BY <2>1 DEF NoOp
<1>5. CASE \/ p = Server /\ (ServerProbe \/ ServerEpCreate \/ ServerAlloc \/ ServerSleep
                              \/ ServerFailureSeen \/ ServerPeerDead)
           \/ p = Client /\ (ClientEpCreate \/ ClientDisconnected \/ ClientProbe)
           \/ Deliver(p) \/ FailureHandler(p) \/ Lose(p)
  BY <1>5
     DEF ServerProbe, ServerEpCreate, ServerAlloc, ServerSleep, ServerFailureSeen,
         ServerPeerDead, ClientEpCreate, ClientDisconnected, ClientProbe, Deliver,
         FailureHandler, Lose, requests
<1>6. CASE OutsideRun(p)
  BY <1>6
     DEF OutsideRun, ServerListen, ServerAccept, ServerSendLength, ServerSendAddress,
         BrokenPipe, ClientConnect, ClientRecvLength, ClientRecvAddress, BarrierSend,
         BarrierRecv, CloseOob, DestroyAndExit, Raise, Crash, End, LeaveWith, requests
<1> QED
  BY <1>1, <1>2, <1>3, <1>4, <1>5, <1>6, StepKinds
     DEF RunStep, RunServer, RunUcxClient, Progress

(* Both programs keep ArrivalOK.                                           *)
LEMMA ArrivalStep ==
  ASSUME TypeOK, RequestInv, BarrierInv, MessageInv,
         NEW p \in Proc, Step(p), NEW q \in Proc, ArrivalOK(q)
  PROVE  ArrivalOK(q)'
<1>1. Peer(q) \in Proc
  BY TwoPrograms
<1>2. SentKept(p, Peer(q))
  BY <1>1, SentKeeps DEF BarrierInv
<1>3. CASE q = p
  <2>1. Takes(p) => pc'[p] \notin BeforeMessage(p)
    <3>1. op[p].kind = "recv" => pc[p] \in {"wait_recv", "killed"}
      BY DEF RequestInv, RequestOK, WaitLabel
    <3>2. Takes(p) => pc'[p] \in {"recv", "raise", "wait_recv", "killed"}
      BY <3>1 DEF Takes
    <3> QED
      BY <3>2 DEF BeforeMessage, Connecting
  <2>2. sent'[Peer(p)] \in {"matched", "delivered"} => pc'[p] \notin BeforeMessage(p)
    BY <1>2, <1>3, <2>1, BeforeOwn DEF ArrivalOK, SentKept
  <2>3. op'[p].kind = "recv" /\ op'[p].st = "OK" => sent'[Peer(p)] = "delivered"
    BY <1>2, <1>3, ReceiveEnds DEF ArrivalOK, SentKept
  <2> QED
    BY <1>3, <2>2, <2>3 DEF ArrivalOK, BeforeMessage
<1>4. CASE q # p
  <2>1. Untouched(q) /\ ~(Peer(q) = Peer(p))
    BY <1>4, Frame, TwoPrograms
  <2> QED
    BY <1>2, <2>1 DEF ArrivalOK, SentKept, Untouched, BeforeMessage
<1> QED
  BY <1>3, <1>4

(* The statements of a server that has received the client's address.      *)
WithAddress ==
  (Running \ {"probe", "recv", "wait_recv", "raise"}) \cup {"barrier", "poll"}

(* The client comes to its probe from a send that succeeded, and the       *)
(* server to those statements from a receive that did.                     *)
LEMMA EnterProbe ==
  ASSUME TypeOK, RequestInv, Step(Client), pc'[Client] = "probe"
  PROVE  \/ pc[Client] = "probe"
         \/ op[Client].kind = "send" /\ op[Client].st = "OK"
<1> USE TwoPrograms DEF TypeOK, Jump
<1>1. CASE ClientSent
  <2>1. op[Client].kind = "send"
    BY <1>1 DEF ClientSent, WaitReturns, RequestInv, RequestOK, WaitLabel, Ops
  <2>2. op[Client].st = "OK"
    BY <1>1 DEF ClientSent
  <2> QED
    BY <2>1, <2>2
<1>2. CASE \/ ClientEpCreate \/ ClientSend \/ ClientDisconnected \/ ClientProbe \/ ClientRecv
           \/ ClientReceived
  BY <1>2
     DEF ClientEpCreate, ClientSend, ClientDisconnected, ClientProbe, ClientRecv,
         ClientReceived, AfterRun
<1>3. CASE EpClose(Client) \/ EpClosed(Client) \/ Progress(Client) \/ Lose(Client)
  BY <1>3
     DEF EpClose, EpClosed, Progress, Deliver, Complete, FailureHandler, Lose, AfterRun
<1>4. CASE OutsideRun(Client)
  BY <1>4
     DEF OutsideRun, ClientConnect, ClientRecvLength, ClientRecvAddress, LeaveWith,
         BarrierSend, BarrierRecv, CloseOob, DestroyAndExit, Raise, Crash, End
<1> QED
  BY <1>1, <1>2, <1>3, <1>4, StepKinds DEF RunStep, RunUcxClient

LEMMA EnterWithAddress ==
  ASSUME TypeOK, RequestInv, Step(Server), pc'[Server] \in WithAddress
  PROVE  \/ pc[Server] \in WithAddress
         \/ op[Server].kind = "recv" /\ op[Server].st = "OK"
<1> USE TwoPrograms DEF TypeOK, Jump, WithAddress, Running
<1>1. CASE ServerReceived
  <2>1. op[Server].kind = "recv"
    BY <1>1 DEF ServerReceived, WaitReturns, RequestInv, RequestOK, WaitLabel, Ops
  <2>2. op[Server].st = "OK"
    BY <1>1 DEF ServerReceived, AfterRun
  <2> QED
    BY <2>1, <2>2
<1>2. CASE ServerProbe \/ ServerRecv
  BY <1>2 DEF ServerProbe, ServerRecv, AfterRun
<1>3. CASE \/ ServerEpCreate \/ ServerAlloc \/ ServerSleep \/ ServerSend \/ ServerSent
           \/ ServerFailureSeen \/ ServerPeerDead \/ ServerFlush \/ ServerFlushed
  BY <1>3
     DEF ServerEpCreate, ServerAlloc, ServerSleep, ServerSend, ServerSent,
         ServerFailureSeen, ServerPeerDead, ServerFlush, ServerFlushed
<1>4. CASE EpClose(Server) \/ EpClosed(Server) \/ Progress(Server) \/ Lose(Server)
  BY <1>4 DEF EpClose, EpClosed, Progress, Deliver, Complete, FailureHandler, Lose
<1>5. CASE OutsideRun(Server)
  BY <1>5
     DEF OutsideRun, ServerListen, ServerAccept, ServerSendLength, ServerSendAddress,
         BrokenPipe, LeaveWith, BarrierSend, BarrierRecv, CloseOob, DestroyAndExit, Raise,
         Crash, End
<1> HIDE DEF TypeOK, Jump, WithAddress, Running
<1> QED
  BY <1>1, <1>2, <1>3, <1>4, <1>5, StepKinds DEF RunStep, RunServer

LEMMA AddressStep ==
  ASSUME TypeOK, RequestInv, BarrierInv, MessageInv,
         WaitOK(Client), ArrivalOK(Server), AddressSent,
         NEW p \in Proc, Step(p)
  PROVE  AddressSent'
<1>1. /\ sent[Client] # "none" => sent'[Client] # "none"
      /\ sent[Client] = "delivered" => sent'[Client] = "delivered"
  BY SentKeeps, TwoPrograms DEF BarrierInv, SentKept
<1>2. pc'[Client] = "probe" => sent'[Client] # "none"
  <2>1. CASE p = Client
    BY <1>1, <2>1, EnterProbe DEF AddressSent, WaitOK
  <2>2. CASE p # Client
    <3>1. pc'[Client] = pc[Client]
      BY <2>2, Frame, TwoPrograms DEF Untouched
    <3> QED
      BY <1>1, <3>1 DEF AddressSent
  <2> QED
    BY <2>1, <2>2
<1>3. pc'[Server] \in WithAddress => sent'[Client] = "delivered"
  <2>1. CASE p = Server
    BY <1>1, <2>1, EnterWithAddress, TwoPrograms DEF AddressSent, ArrivalOK, WithAddress
  <2>2. CASE p # Server
    <3>1. pc'[Server] = pc[Server]
      BY <2>2, Frame, TwoPrograms DEF Untouched
    <3> QED
      BY <1>1, <3>1 DEF AddressSent, WithAddress
  <2> QED
    BY <2>1, <2>2
<1> QED
  BY <1>2, <1>3 DEF AddressSent, WithAddress

(* failure_handler is called for a failure that UCX may report, and what   *)
(* it has stored in ep_status stays.                                       *)
LEMMA StatusChange ==
  ASSUME TypeOK, Step(Server)
  PROVE  /\ epStatus[Server] = "ERR" => epStatus'[Server] = "ERR"
         /\ epStatus'[Server] = "ERR" => epStatus[Server] = "ERR" \/ Unreachable(Server)
<1> USE TwoPrograms DEF TypeOK, endpoints
<1>1. CASE FailureHandler(Server)
  BY <1>1 DEF FailureHandler
<1>2. CASE RunServer
  BY <1>2
     DEF RunServer, ServerProbe, ServerRecv, ServerReceived, ServerEpCreate, ServerAlloc,
         ServerSleep, ServerSend, ServerSent, ServerFailureSeen, ServerPeerDead,
         ServerFlush, ServerFlushed
<1>3. CASE EpClose(Server) \/ EpClosed(Server) \/ Deliver(Server) \/ Complete(Server)
           \/ Lose(Server)
  BY <1>3 DEF EpClose, EpClosed, Deliver, Complete, Lose
<1>4. CASE OutsideRun(Server)
  BY <1>4
     DEF OutsideRun, ServerListen, ServerAccept, ServerSendLength, ServerSendAddress,
         BrokenPipe, BarrierSend, BarrierRecv, CloseOob, DestroyAndExit, Raise, Crash, End
<1> QED
  BY <1>1, <1>2, <1>3, <1>4, StepKinds DEF RunStep, Progress

(* Where the server's own step leads from, on the way to its close.        *)
Known == sent[Server] # "none" \/ epStatus[Server] = "ERR"

Closing ==
  \/ pc[Server] \in {"close", "wait_close"} /\ ret[Server] = 0
  \/ pc[Server] \in {"barrier", "poll"}

Flushing == pc[Server] \in {"keepalive", "flush", "wait_flush"}

LEMMA EnterClosing ==
  ASSUME TypeOK, RequestInv, Step(Server)
  PROVE  /\ Flushing' => Flushing \/ (op[Server].kind = "send" /\ op[Server].st = "OK")
         /\ Closing' => Closing \/ Flushing \/ epStatus[Server] = "ERR"
         /\ pc'[Server] = "await_failure" =>
              pc[Server] = "await_failure" \/ mode[Server] = "NONE"
<1> USE TwoPrograms DEF TypeOK, Jump, Closing, Flushing
<1>1. CASE ServerSent
  <2>1. op[Server].kind = "send"
    BY <1>1 DEF ServerSent, WaitReturns, RequestInv, RequestOK, WaitLabel, Ops
  <2> QED
    BY <1>1, <2>1 DEF ServerSent
<1>2. CASE ServerProbe \/ ServerRecv \/ ServerReceived \/ ServerEpCreate
  BY <1>2 DEF ServerProbe, ServerRecv, ServerReceived, ServerEpCreate, AfterRun, PeerErr
<1>3. CASE ServerAlloc \/ ServerSleep \/ ServerSend
  BY <1>3 DEF ServerAlloc, ServerSleep, ServerSend
<1>4. CASE ServerFailureSeen \/ ServerPeerDead \/ ServerFlush \/ ServerFlushed
  BY <1>4 DEF ServerFailureSeen, ServerPeerDead, ServerFlush, ServerFlushed
<1>5. CASE EpClose(Server) \/ EpClosed(Server)
  BY <1>5 DEF EpClose, EpClosed, AfterRun
<1>6. CASE Progress(Server) \/ Lose(Server)
  BY <1>6 DEF Progress, Deliver, Complete, FailureHandler, Lose
<1>7. CASE OutsideRun(Server)
  BY <1>7
     DEF OutsideRun, ServerListen, ServerAccept, ServerSendLength, ServerSendAddress,
         BrokenPipe, LeaveWith, BarrierSend, BarrierRecv, CloseOob, DestroyAndExit, Raise,
         Crash, End
<1> HIDE DEF TypeOK, Jump, Closing, Flushing
<1> QED
  BY <1>1, <1>2, <1>3, <1>4, <1>5, <1>6, <1>7, StepKinds DEF RunStep, RunServer

LEMMA StringStep ==
  ASSUME TypeOK, RequestInv, ResourceInv, BarrierInv, MessageInv,
         WaitOK(Server), StringSent, NEW p \in Proc, Step(p)
  PROVE  StringSent'
<1>1. /\ sent[Server] # "none" => sent'[Server] # "none"
      /\ mode' = mode
      /\ Unreachable(Server) => Unreachable(Server)'
  BY SentKeeps, StepKeeps, UnreachableStays, TwoPrograms DEF BarrierInv, SentKept
<1>2. /\ Flushing => sent[Server] # "none"
      /\ Closing => Known
      /\ pc[Server] = "await_failure" => mode[Server] = "NONE"
      /\ epStatus[Server] = "ERR" => Unreachable(Server)
  BY DEF StringSent, Flushing, Closing, Known
<1>3. CASE p = Server
  <2>1. /\ epStatus[Server] = "ERR" => epStatus'[Server] = "ERR"
        /\ epStatus'[Server] = "ERR" => epStatus[Server] = "ERR" \/ Unreachable(Server)
    BY <1>3, StatusChange
  <2>2. Flushing' => sent'[Server] # "none"
    BY <1>1, <1>2, <1>3, EnterClosing DEF WaitOK
  <2>3. Closing' => Known'
    BY <1>1, <1>2, <1>3, <2>1, EnterClosing DEF Known
  <2>4. pc'[Server] = "await_failure" => mode'[Server] = "NONE"
    BY <1>1, <1>2, <1>3, EnterClosing
  <2> QED
    BY <1>1, <1>2, <2>1, <2>2, <2>3, <2>4 DEF StringSent, Flushing, Closing, Known
<1>4. CASE p # Server
  <2>1. pc'[Server] = pc[Server] /\ ret'[Server] = ret[Server]
    BY <1>4, Frame, TwoPrograms DEF Untouched
  <2>2. epStatus'[Server] = epStatus[Server]
    BY <1>4, StepLasting, TwoPrograms DEF Lasting
  <2> QED
    BY <1>1, <1>2, <2>1, <2>2 DEF StringSent, Flushing, Closing, Known
<1> QED
  BY <1>3, <1>4

(* Every step preserves WaitInv.                                           *)
LEMMA WaitStep ==
  IInv /\ WaitInv /\ [Next]_vars => WaitInv'
<1> SUFFICES ASSUME IInv, WaitInv, [Next]_vars PROVE WaitInv'
  OBVIOUS
<1>1. ASSUME NEW p \in Proc, Step(p) PROVE WaitInv'
  <2>1. \A q \in Proc : WaitOK(q)'
    BY <1>1, WaitOKStep DEF IInv, WaitInv
  <2>2. \A q \in Proc : ArrivalOK(q)'
    BY <1>1, ArrivalStep DEF IInv, WaitInv
  <2>3. AddressSent'
    BY <1>1, AddressStep, TwoPrograms DEF IInv, WaitInv
  <2>4. StringSent'
    BY <1>1, StringStep, TwoPrograms DEF IInv, WaitInv
  <2> QED
    BY <2>1, <2>2, <2>3, <2>4 DEF WaitInv
<1>2. CASE LinkDown
  <2>1. Unreachable(Server) => Unreachable(Server)'
    BY <1>2, TwoPrograms DEF LinkDown, Unreachable, Broken, PeerErr, config
  <2>2. StringSent'
    BY <1>2, <2>1 DEF LinkDown, config, requests, WaitInv, StringSent
  <2>3. ASSUME NEW q \in Proc PROVE WaitOK(q)' /\ ArrivalOK(q)'
    BY <1>2, <2>3
       DEF LinkDown, config, requests, WaitInv, WaitOK, ArrivalOK, LabelsOf, PeerErr,
           BeforeMessage
  <2> QED
    BY <1>2, <2>2, <2>3 DEF LinkDown, requests, WaitInv, AddressSent
<1>3. CASE UNCHANGED vars
  <2>1. StringSent'
    BY <1>3 DEF vars, WaitInv, StringSent, Unreachable, Broken, PeerErr
  <2>2. ASSUME NEW q \in Proc PROVE WaitOK(q)' /\ ArrivalOK(q)'
    BY <1>3, <2>2 DEF vars, WaitInv, WaitOK, ArrivalOK, LabelsOf, PeerErr, BeforeMessage
  <2> QED
    BY <1>3, <2>1, <2>2 DEF vars, WaitInv, AddressSent
<1> QED
  BY <1>1, <1>2, <1>3, NextSteps

(* Initially no program waits.                                             *)
LEMMA WaitInit == Init => WaitInv
<1> SUFFICES ASSUME Init PROVE WaitInv
  OBVIOUS
<1>1. ASSUME NEW p \in Proc PROVE WaitOK(p) /\ ArrivalOK(p)
  BY <1>1, TwoPrograms
     DEF Init, WaitOK, ArrivalOK, LabelsOf, Labels, WaitLabel, NoOp, BeforeMessage
<1>2. AddressSent /\ StringSent
  BY TwoPrograms DEF Init, AddressSent, StringSent, Running
<1> QED
  BY <1>1, <1>2 DEF WaitInv

(* The layers of HelloUcpInv hold in every reachable state, and so does    *)
(* what a program that waits can count on.                                 *)
THEOREM WaitInductive == Spec => []AllInv
<1>1. Init => WaitInv
  BY WaitInit
<1>2. IInv /\ WaitInv /\ [Next]_vars => WaitInv'
  BY WaitStep
<1>3. IInv /\ WaitInv => AllInv
  BY DEF AllInv
<1> QED
  BY <1>1, <1>2, <1>3, Inductive, PTL DEF Spec

(* While the transport works and both programs are blocked, both are alive *)
(* and inside a loop that calls ucp_worker_progress: the server is past    *)
(* accept, since a client that waits has connected, and the client past    *)
(* the exchange, since a server that is past accept has sent its address.  *)
LEMMA BothProgress ==
  ASSUME IInv, WaitInv, Blocked(Client), Blocked(Server)
  PROVE  \A p \in Proc : worker[p] /\ Progressing(p)
<1>1. \A p \in Proc : worker[p] /\ pc[p] \in LabelsOf(p)
  BY TwoPrograms DEF WaitInv, WaitOK, Blocked, Waiting
<1>2. pc[Server] # "accept"
  <2>1. SUFFICES ASSUME pc[Server] = "accept" PROVE FALSE
    OBVIOUS
  <2>2. sock[Client] = "none"
    BY <2>1, TwoPrograms DEF Blocked, Waiting
  <2>3. pc[Client] # "accept"
    BY <1>1, TwoPrograms DEF LabelsOf
  <2>4. pc[Client] \in (Connecting \ {"start", "accept"}) \cup Running \cup {"poll"}
    BY <2>3 DEF Blocked, Waiting, Connecting, Running
  <2> QED
    BY <2>2, <2>4, TwoPrograms DEF IInv, SocketInv, SocketOK
<1>3. pc[Server] \in Running \cup {"poll"}
  BY <1>1, <1>2, TwoPrograms DEF LabelsOf, Blocked, Waiting, Running
<1>4. oobSent[Server] >= 2
  <2>1. oobSent[Server] \in Nat
    BY TwoPrograms DEF IInv, TypeOK
  <2>2. pc[Server] = "poll" => oobSent[Server] > 2
    BY TwoPrograms DEF IInv, AgreementInv, AgreedOK, Agreed
  <2>3. pc[Server] \in Running => oobSent[Server] = 2
    BY DEF IInv, StreamInv
  <2> QED
    BY <1>3, <2>1, <2>2, <2>3
<1>5. pc[Client] \notin {"recv_len", "recv_addr"}
  <2>1. pc[Client] \in {"recv_len", "recv_addr"} => oobRead[Client] \in {0, 1}
    BY DEF IInv, StreamInv
  <2>2. oobSent[Server] \in Nat
    BY TwoPrograms DEF IInv, TypeOK
  <2>3. pc[Client] \in {"recv_len", "recv_addr"} => Readable(Client)
    BY <1>4, <2>1, <2>2, TwoPrograms DEF Readable
  <2> QED
    BY <2>3, TwoPrograms DEF Blocked, Waiting
<1>6. Progressing(Client)
  BY <1>1, <1>5, TwoPrograms DEF LabelsOf, Blocked, Waiting, Progressing
<1>7. Progressing(Server)
  BY <1>1, <1>2, TwoPrograms DEF LabelsOf, Blocked, Waiting, Progressing
<1> QED
  BY <1>1, <1>6, <1>7, TwoPrograms

(* Then nothing is in flight and nothing is lost, so every flush, graceful *)
(* close and receive can succeed: what is left to wait for is a message, a *)
(* send that the peer has not received, a failure, or the barrier's int.   *)
LEMMA WhatIsLeft ==
  ASSUME IInv, WaitInv, link, Blocked(Client), Blocked(Server), NEW p \in Proc
  PROVE  /\ ~Broken(p)
         /\ sent[p] \in {"none", "arrived", "matched", "delivered"}
         /\ pc[p] \in {"wait_send", "probe", "await_failure", "keepalive", "poll"}
         /\ pc[p] = "wait_send" => sent[p] \in {"arrived", "matched"}
<1> DEFINE q == Peer(p)
<1>1. q \in Proc /\ Peer(q) = p
  BY TwoPrograms
<1>2. worker[p] /\ worker[q] /\ Progressing(p) /\ Progressing(q) /\ Blocked(p) /\ Blocked(q)
  BY <1>1, BothProgress, TwoPrograms
<1>3. ~Broken(p)
  BY <1>2 DEF Broken
<1>4. sent[p] # "lost"
  <2>1. sent[p] = "lost" => PeerErr(p) /\ ep[p] = "closed"
    BY <1>2 DEF WaitInv, WaitOK
  <2>2. ep[p] = "closed" => pc[p] \in ClosedLabels \cup {"killed"}
    BY DEF IInv, ResourceInv, ResourceOK
  <2>3. ep[p] = "closed" => pc[p] = "poll"
    BY <1>2, <2>2 DEF ClosedLabels, Progressing
  <2>4. pc[p] = "poll" => mode[p] = "NONE"
    BY DEF IInv, AgreementInv, AgreedOK
  <2> QED
    BY <2>1, <2>3, <2>4 DEF PeerErr
<1>5. sent[p] # "flight"
  BY <1>1, <1>2 DEF Blocked, EventDue
<1>6. sent[p] \in {"none", "arrived", "matched", "delivered"}
  BY <1>4, <1>5 DEF IInv, TypeOK, MessageStates
<1>7. Flushed(p)
  BY <1>2, <1>3, <1>6 DEF Flushed
<1>8. op[p].st = "INPROGRESS" => ~CanSucceed(p, op[p].kind)
  BY <1>2 DEF Blocked, EventDue
<1>9. pc[p] \in WaitLabels =>
        /\ op[p].kind \in {"send", "recv", "flush", "close"} /\ pc[p] = WaitLabel(op[p].kind)
        /\ op[p].st = "INPROGRESS"
  <2>1. ASSUME NEW k \in {"send", "recv", "flush", "close"}, pc[p] = WaitLabel(k)
        PROVE  op[p].kind = k /\ op[p].st = "INPROGRESS"
    <3>1. op[p].kind = k
      BY <2>1 DEF WaitInv, WaitOK
    <3>2. k \in {"send", "recv"} => op[p].req /\ ~completed[p]
      BY <1>2, <2>1, <3>1 DEF Blocked, Waiting, WaitReturns, WaitLabel
    <3>3. k \in {"send", "recv"} => op[p].st = "INPROGRESS"
      BY <3>1, <3>2 DEF WaitInv, WaitOK
    <3>4. k \in {"flush", "close"} => op[p].st = "INPROGRESS"
      BY <1>2, <2>1 DEF Blocked, Waiting, WaitLabel
    <3> QED
      BY <3>1, <3>3, <3>4
  <2> QED
    BY <2>1 DEF WaitLabels, WaitLabel
<1>10. pc[p] \notin {"wait_recv", "wait_flush", "wait_close"}
  BY <1>3, <1>7, <1>8, <1>9 DEF WaitLabels, WaitLabel, CanSucceed
<1>11. pc[p] \in {"wait_send", "probe", "await_failure", "keepalive", "poll"}
  <2>1. pc[p] # "progress"
    BY <1>2 DEF Blocked, Waiting
  <2> QED
    BY <1>2, <1>10, <2>1 DEF Progressing
<1>12. pc[p] = "wait_send" => sent[p] \in {"arrived", "matched"}
  <2> SUFFICES ASSUME pc[p] = "wait_send" PROVE sent[p] \in {"arrived", "matched"}
    OBVIOUS
  <2>1. op[p].kind = "send" /\ op[p].st = "INPROGRESS"
    BY <1>9 DEF WaitLabels, WaitLabel
  <2>2. sent[p] # "delivered"
    BY <1>8, <2>1 DEF CanSucceed
  <2>3. sent[p] # "none"
    BY <2>1 DEF WaitInv, WaitOK
  <2> QED
    BY <1>6, <2>2, <2>3
<1> QED
  BY <1>3, <1>6, <1>11, <1>12

(* No pair of the statements that are left can be waited at together.      *)
LEMMA PairsExcluded ==
  IInv /\ WaitInv => NoCircularWait
<1> SUFFICES ASSUME IInv, WaitInv, link, Blocked(Client), Blocked(Server),
                    ~(pc[Server] = "await_failure" /\ "nbx" \in Faults),
                    ~(pc[Server] = "keepalive" /\ pc[Client] = "poll")
             PROVE  FALSE
  BY DEF NoCircularWait
<1>1. /\ sent[Client] \in {"none", "arrived", "matched", "delivered"}
      /\ pc[Client] \in {"wait_send", "probe", "poll"}
      /\ pc[Client] = "wait_send" => sent[Client] \in {"arrived", "matched"}
  <2>1. pc[Client] \in LabelsOf(Client)
    BY TwoPrograms DEF WaitInv, WaitOK
  <2> QED
    BY <2>1, WhatIsLeft, TwoPrograms DEF LabelsOf
<1>2. /\ ~Broken(Server)
      /\ sent[Server] \in {"none", "arrived", "matched", "delivered"}
      /\ pc[Server] \in {"wait_send", "probe", "await_failure", "keepalive", "poll"}
      /\ pc[Server] = "wait_send" => sent[Server] \in {"arrived", "matched"}
  BY WhatIsLeft, TwoPrograms
<1>3. pc[Client] = "poll" => sent[Server] = "delivered" /\ mode[Client] = "NONE"
  BY TwoPrograms DEF IInv, BarrierInv, ClientInBarrier, MessageInv, AgreementInv, AgreedOK
(* The server has found the client's message: the client has sent it.      *)
<1>4. pc[Server] # "probe"
  <2> SUFFICES ASSUME pc[Server] = "probe" PROVE FALSE
    OBVIOUS
  <2>1. sent[Client] # "arrived"
    BY TwoPrograms DEF Blocked, Waiting
  <2>2. sent[Client] \notin {"matched", "delivered"}
    BY TwoPrograms DEF WaitInv, ArrivalOK, BeforeMessage
  <2>3. pc[Client] # "wait_send" /\ pc[Client] # "probe"
    BY <1>1, <2>1, <2>2 DEF WaitInv, AddressSent
  <2>4. sent[Server] = "none"
    BY DEF IInv, MessageInv
  <2> QED
    BY <1>1, <1>3, <2>3, <2>4
(* So it has received it, and the client's send can end.                   *)
<1>5. pc[Client] # "wait_send"
  <2>1. sent[Client] = "delivered"
    BY <1>2, <1>4 DEF WaitInv, AddressSent, Running
  <2> QED
    BY <1>1, <2>1
(* A client that still looks for the string has a live endpoint, so the    *)
(* server knows of no failure and has sent the string.                     *)
<1>6. pc[Client] # "probe"
  <2> SUFFICES ASSUME pc[Client] = "probe" PROVE FALSE
    OBVIOUS
  <2>1. ep[Client] # "closed"
    BY TwoPrograms DEF IInv, ResourceInv, ResourceOK, ClosedLabels
  <2>2. ~Unreachable(Server)
    BY <1>2, <2>1, TwoPrograms DEF Unreachable
  <2>3. sent[Server] # "arrived"
    <3>1. epStatus[Client] \in {"OK", "ERR"}
      BY TwoPrograms DEF IInv, TypeOK
    <3> QED
      BY <3>1, TwoPrograms DEF Blocked, Waiting
  <2>4. sent[Server] = "none"
    BY <1>2, <2>3, TwoPrograms DEF WaitInv, ArrivalOK, BeforeMessage
  <2>5. pc[Server] \notin {"wait_send", "keepalive"}
    BY <1>2, <2>4 DEF WaitInv, StringSent
  <2>6. pc[Server] # "poll"
    BY <2>2, <2>4 DEF WaitInv, StringSent
  <2>7. pc[Server] # "await_failure"
    BY <2>2 DEF IInv, FailureInv, Reportable
  <2> QED
    BY <1>2, <1>4, <2>5, <2>6, <2>7
(* A client in the barrier has printed the string, so the server is in the *)
(* barrier too, and has written the int that the client polls for.         *)
<1>7. pc[Client] = "poll" /\ sent[Server] = "delivered" /\ mode[Client] = "NONE"
  BY <1>1, <1>3, <1>5, <1>6
<1>8. pc[Server] # "await_failure"
  <2> SUFFICES ASSUME pc[Server] = "await_failure" PROVE FALSE
    OBVIOUS
  <2>1. mode[Server] = "NONE"
    BY DEF WaitInv, StringSent
  <2>2. ~Unreachable(Server)
    BY <1>2, <1>7, <2>1, TwoPrograms DEF Unreachable, PeerErr
  <2> QED
    BY <2>2 DEF IInv, FailureInv, Reportable
<1>9. pc[Server] = "poll"
  BY <1>2, <1>4, <1>7, <1>8
<1>10. Readable(Client)
  <2>1. oobRead[Client] = 2
    BY <1>7 DEF IInv, StreamInv
  <2>2. oobSent[Server] > 2
    BY <1>9, TwoPrograms DEF IInv, AgreementInv, AgreedOK, Agreed
  <2> QED
    BY <2>1, <2>2, TwoPrograms DEF Readable
<1> QED
  BY <1>7, <1>10 DEF Blocked, Waiting

(* The two programs never wait for each other while the transport works:   *)
(* the loops of the run, the graceful close and the barrier are entered in *)
(* an order in which one of them can always go on.                         *)
THEOREM NeverBothWait == Spec => []NoCircularWait
<1>1. AllInv => NoCircularWait
  BY PairsExcluded DEF AllInv
<1> QED
  BY <1>1, WaitInductive, PTL
=============================================================================
