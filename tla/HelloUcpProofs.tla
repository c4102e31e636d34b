--------------------------- MODULE HelloUcpProofs ---------------------------
(***************************************************************************)
(* Proofs of the safety properties of HelloUcp, for every set of faults,   *)
(* every set of -e options and programs, and either start order.  Type     *)
(* correctness comes first; then each layer of HelloUcpInv is proved from  *)
(* the layers before it, one step per action; the properties follow.       *)
(***************************************************************************)
EXTENDS HelloUcpInv, TLAPS

(* The two programs.                                                       *)
LEMMA TwoPrograms ==
  /\ Client \in Proc /\ Server \in Proc /\ Client # Server
  /\ \A p \in Proc : p = Client \/ p = Server
  /\ Peer(Client) = Server /\ Peer(Server) = Client
  BY DEF Client, Server, Proc, Peer

(* What the helpers of UcxUtils do to the operation of a program.          *)
LEMMA NbxResult ==
  ASSUME op \in [Proc -> Ops], NEW p \in Proc,
         NEW k \in {"send", "recv", "flush", "close"}, NbxReturns(p, k)
  PROVE  /\ op' \in [Proc -> Ops]
         /\ \A q \in Proc : q # p => op'[q] = op[q]
         /\ op'[p].kind = k
         /\ op'[p].st = "INPROGRESS" => op'[p].req
         /\ k = "recv" => op'[p].st # "OK"
<1>1. PICK r \in BOOLEAN, s \in {"OK", "ERR", "INPROGRESS"} :
        /\ op' = [op EXCEPT ![p] = [kind |-> k, req |-> r, st |-> s]]
        /\ s = "INPROGRESS" => r
        /\ k = "recv" => s # "OK"
  BY DEF NbxReturns
<1>2. [kind |-> k, req |-> r, st |-> s] \in Ops
  BY DEF Ops
<1> QED
  BY <1>1, <1>2

(* SendNbx also puts the message in flight, unless the call failed.         *)
LEMMA SendResult ==
  ASSUME op \in [Proc -> Ops], sent \in [Proc -> MessageStates],
         NEW p \in Proc, SendNbx(p)
  PROVE  /\ op' \in [Proc -> Ops]
         /\ \A q \in Proc : q # p => op'[q] = op[q]
         /\ op'[p].kind = "send"
         /\ op'[p].st = "INPROGRESS" => op'[p].req
         /\ sent' \in [Proc -> MessageStates]
         /\ \A q \in Proc : q # p => sent'[q] = sent[q]
         /\ sent'[p] \in {sent[p], "flight"}
<1>1. NbxReturns(p, "send") /\ sent' \in {sent, [sent EXCEPT ![p] = "flight"]}
  BY DEF SendNbx
<1> QED
  BY <1>1, NbxResult DEF MessageStates

(* Replacing the status of an operation changes nothing else of it.         *)
LEMMA NewStatus ==
  ASSUME NEW o \in Ops, NEW s \in {"OK", "ERR"}
  PROVE  /\ [o EXCEPT !.st = s] \in Ops
         /\ [o EXCEPT !.st = s].kind = o.kind
         /\ [o EXCEPT !.st = s].req = o.req
         /\ [o EXCEPT !.st = s].st = s
  BY DEF Ops

(* FreeRequest leaves no operation, and completed only if there was no      *)
(* request.                                                                *)
LEMMA FreeResult ==
  ASSUME op \in [Proc -> Ops], completed \in [Proc -> BOOLEAN],
         NEW p \in Proc, FreeRequest(p)
  PROVE  /\ op' \in [Proc -> Ops] /\ completed' \in [Proc -> BOOLEAN]
         /\ op'[p] = NoOp
         /\ \A q \in Proc : q # p => op'[q] = op[q] /\ completed'[q] = completed[q]
         /\ completed'[p] => completed[p] /\ ~op[p].req
<1>1. op' = [op EXCEPT ![p] = NoOp] /\ NoOp \in Ops
  BY DEF FreeRequest, NoOp, Ops
<1>2. completed' \in {completed, [completed EXCEPT ![p] = FALSE]}
  BY DEF FreeRequest
<1>3. op[p].req => completed' = [completed EXCEPT ![p] = FALSE]
  BY DEF FreeRequest
<1>4. ~op[p].req => completed' = completed
  BY DEF FreeRequest
<1> QED
  BY <1>1, <1>2, <1>3, <1>4

(* Every step preserves the type invariant.                                *)
LEMMA TypeStep ==
  TypeOK /\ [Next]_vars => TypeOK'
<1> SUFFICES ASSUME TypeOK, [Next]_vars PROVE TypeOK'
  OBVIOUS
<1> USE TwoPrograms, AddrLenAssumption DEF TypeOK
<1>1. CASE ServerListen
  BY <1>1
     DEF ServerListen, config, endpoints, requests, LeaveWith, Jump, oob,
         Labels, Results, LenBytes, Proc, Client, Server
<1>2. CASE ServerAccept
  BY <1>2
     DEF ServerAccept, config, endpoints, requests, Jump, Labels, Results,
         LenBytes, Proc, Client, Server
<1>3. CASE ServerSendLength
  BY <1>3
     DEF ServerSendLength, config, endpoints, requests, LeaveWith, Write,
         Jump, oob, Labels, Results, LenBytes, Proc, Client, Server
<1>4. CASE ServerSendAddress
  BY <1>4
     DEF ServerSendAddress, config, endpoints, requests, LeaveWith, Write,
         Jump, oob, Labels, Results, LenBytes, Proc, Client, Server
<1>5. CASE BrokenPipe
  BY <1>5
     DEF BrokenPipe, End, config, requests, Jump, Labels, Proc, Client, Server
<1>6. CASE ServerProbe
  BY <1>6
     DEF ServerProbe, config, endpoints, oob, Jump, Labels, MessageStates,
         Proc, Client, Server
<1>7. CASE ServerRecv
  <2>1. pc' \in [Proc -> Labels]
    BY <1>7 DEF ServerRecv, Jump, AfterRun, LeaveWith, End, Labels
  <2>2. ret' \in [Proc -> Results]
    BY <1>7 DEF ServerRecv, LeaveWith, Results, LenBytes
  <2>3. buf' \in [Proc -> BOOLEAN]
    BY <1>7 DEF ServerRecv
  <2>4. op' \in [Proc -> Ops]
    BY <1>7, NbxResult DEF ServerRecv
  <2> QED
    BY <1>7, <2>1, <2>2, <2>3, <2>4 DEF ServerRecv, config, endpoints, oob
<1>8. CASE ServerReceived
  BY <1>8, FreeResult
     DEF ServerReceived, config, endpoints, oob, Jump, Labels, AfterRun,
         Results, LenBytes, Proc, Client, Server
<1>9. CASE ServerEpCreate
  BY <1>9
     DEF ServerEpCreate, config, requests, oob, Jump, Labels, AfterRun,
         Results, LenBytes, Proc, Client, Server
<1>10. CASE ServerAlloc
  <2>1. pc' \in [Proc -> Labels]
    BY <1>10 DEF ServerAlloc, Jump, AfterRun, LeaveWith, End, Labels
  <2>2. ret' \in [Proc -> Results]
    BY <1>10 DEF ServerAlloc, LeaveWith, Results, LenBytes
  <2>3. buf' \in [Proc -> BOOLEAN]
    BY <1>10 DEF ServerAlloc
  <2> QED
    BY <1>10, <2>1, <2>2, <2>3
       DEF ServerAlloc, config, endpoints, requests, oob
<1>11. CASE ServerSleep
  BY <1>11
     DEF ServerSleep, config, endpoints, requests, oob, Jump, Labels, Proc,
         Client, Server
<1>12. CASE ServerSend
  BY <1>12, SendResult
     DEF ServerSend, config, endpoints, oob, Jump, Labels, Proc, Client,
         Server
<1>13. CASE ServerSent
  <2>1. pc' \in [Proc -> Labels]
    BY <1>13 DEF ServerSent, Jump, AfterRun, LeaveWith, End, Labels
  <2>2. ret' \in [Proc -> Results]
    BY <1>13 DEF ServerSent, LeaveWith, Results, LenBytes
  <2>3. buf' \in [Proc -> BOOLEAN]
    BY <1>13 DEF ServerSent
  <2>4. op' \in [Proc -> Ops]
    BY <1>13, FreeResult DEF ServerSent
  <2>5. completed' \in [Proc -> BOOLEAN]
    BY <1>13, FreeResult DEF ServerSent
  <2> QED
    BY <1>13, <2>1, <2>2, <2>3, <2>4, <2>5
       DEF ServerSent, config, endpoints, oob
<1>14. CASE ServerFailureSeen
  BY <1>14
     DEF ServerFailureSeen, config, endpoints, requests, oob, Jump, Labels,
         Proc, Client, Server
<1>15. CASE ServerPeerDead
  BY <1>15
     DEF ServerPeerDead, config, endpoints, requests, oob, Jump, Labels, Proc,
         Client, Server
<1>16. CASE ServerFlush
  BY <1>16, NbxResult
     DEF ServerFlush, config, endpoints, oob, Jump, Labels, Proc, Client,
         Server
<1>17. CASE ServerFlushed
  BY <1>17
     DEF ServerFlushed, config, endpoints, oob, Jump, Labels, Results,
         LenBytes, NoOp, Ops, Proc, Client, Server
<1>18. CASE ClientConnect
  BY <1>18
     DEF ClientConnect, config, endpoints, requests, LeaveWith, Jump, oob,
         Labels, Results, LenBytes, Proc, Client, Server
<1>19. CASE ClientRecvLength
  BY <1>19
     DEF ClientRecvLength, config, endpoints, requests, LeaveWith, Read, Jump,
         oob, Labels, Results, LenBytes, Proc, Client, Server
<1>20. CASE ClientRecvAddress
  BY <1>20
     DEF ClientRecvAddress, config, endpoints, requests, LeaveWith, Read,
         Jump, oob, Labels, Results, LenBytes, Proc, Client, Server
<1>21. CASE ClientEpCreate
  BY <1>21
     DEF ClientEpCreate, config, requests, oob, Jump, Labels, AfterRun,
         Results, LenBytes, Proc, Client, Server
<1>22. CASE ClientSend
  <2>1. pc' \in [Proc -> Labels]
    BY <1>22 DEF ClientSend, Jump, AfterRun, LeaveWith, End, Labels
  <2>2. buf' \in [Proc -> BOOLEAN]
    BY <1>22 DEF ClientSend
  <2>3. sent' \in [Proc -> MessageStates]
    BY <1>22, SendResult DEF ClientSend, MessageStates
  <2>4. op' \in [Proc -> Ops]
    BY <1>22, SendResult DEF ClientSend
  <2> QED
    BY <1>22, <2>1, <2>2, <2>3, <2>4
       DEF ClientSend, config, endpoints, oob, SendNbx
<1>23. CASE ClientSent
  BY <1>23, FreeResult
     DEF ClientSent, config, endpoints, oob, Jump, Labels, Proc, Client,
         Server
<1>24. CASE ClientDisconnected
  BY <1>24
     DEF ClientDisconnected, config, endpoints, requests, oob, Jump, Labels,
         Proc, Client, Server
<1>25. CASE ClientProbe
  BY <1>25
     DEF ClientProbe, config, endpoints, oob, Jump, Labels, MessageStates,
         Proc, Client, Server
<1>26. CASE ClientRecv
  <2>1. pc' \in [Proc -> Labels]
    BY <1>26 DEF ClientRecv, Jump, AfterRun, LeaveWith, End, Labels
  <2>2. buf' \in [Proc -> BOOLEAN]
    BY <1>26 DEF ClientRecv
  <2>3. op' \in [Proc -> Ops]
    BY <1>26, NbxResult DEF ClientRecv
  <2> QED
    BY <1>26, <2>1, <2>2, <2>3 DEF ClientRecv, config, endpoints, oob
<1>27. CASE ClientReceived
  <2>1. pc' \in [Proc -> Labels]
    BY <1>27 DEF ClientReceived, Jump, AfterRun, LeaveWith, End, Labels
  <2>2. ret' \in [Proc -> Results]
    BY <1>27 DEF ClientReceived, LeaveWith, Results, LenBytes
  <2>3. buf' \in [Proc -> BOOLEAN]
    BY <1>27 DEF ClientReceived
  <2>4. printed' \in BOOLEAN
    BY <1>27 DEF ClientReceived
  <2>5. op' \in [Proc -> Ops]
    BY <1>27, FreeResult DEF ClientReceived
  <2>6. completed' \in [Proc -> BOOLEAN]
    BY <1>27, FreeResult DEF ClientReceived
  <2> QED
    BY <1>27, <2>1, <2>2, <2>3, <2>4, <2>5, <2>6
       DEF ClientReceived, config, endpoints, oob
<1>28. ASSUME NEW p \in Proc, EpClose(p) PROVE TypeOK'
  BY <1>28, NbxResult
     DEF EpClose, config, oob, Jump, Labels, Proc, Client, Server
<1>29. ASSUME NEW p \in Proc, EpClosed(p) PROVE TypeOK'
  BY <1>29
     DEF EpClosed, config, oob, Jump, Labels, AfterRun, NoOp, Ops, Proc,
         Client, Server
<1>30. ASSUME NEW p \in Proc, BarrierSend(p) PROVE TypeOK'
  BY <1>30
     DEF BarrierSend, config, endpoints, requests, oob, Write, Jump, Labels,
         Results, LenBytes, Proc, Client, Server
<1>31. ASSUME NEW p \in Proc, BarrierRecv(p) PROVE TypeOK'
  BY <1>31
     DEF BarrierRecv, config, endpoints, requests, oob, Read, Jump, Labels,
         Results, LenBytes, Proc, Client, Server
<1>32. ASSUME NEW p \in Proc, CloseOob(p) PROVE TypeOK'
  BY <1>32
     DEF CloseOob, config, endpoints, requests, Jump, Labels, Proc, Client,
         Server
<1>33. ASSUME NEW p \in Proc, DestroyAndExit(p) PROVE TypeOK'
  BY <1>33
     DEF DestroyAndExit, End, config, requests, Jump, Labels, Proc, Client,
         Server
<1>34. ASSUME NEW p \in Proc, Raise(p) PROVE TypeOK'
  BY <1>34 DEF Raise, End, config, requests, Jump, Labels, Proc, Client, Server
<1>35. ASSUME NEW p \in Proc, Deliver(p) PROVE TypeOK'
  BY <1>35
     DEF Deliver, config, endpoints, oob, MessageStates, Proc, Client, Server,
         Peer
<1>36. ASSUME NEW p \in Proc, Complete(p) PROVE TypeOK'
  <2>1. sent' \in [Proc -> MessageStates]
    BY <1>36 DEF Complete, MessageStates
  <2>2. op' \in [Proc -> Ops]
    <3>1. PICK s \in {"OK", "ERR"} : op' = [op EXCEPT ![p] = [op[p] EXCEPT !.st = s]]
      BY <1>36 DEF Complete
    <3>2. [op[p] EXCEPT !.st = s] \in Ops
      BY NewStatus
    <3> QED
      BY <3>1, <3>2
  <2>3. completed' \in [Proc -> BOOLEAN]
    BY <1>36 DEF Complete, Handler
  <2> QED
    BY <1>36, <2>1, <2>2, <2>3 DEF Complete, config, endpoints, oob
<1>37. ASSUME NEW p \in Proc, FailureHandler(p) PROVE TypeOK'
  BY <1>37 DEF FailureHandler, config, requests, oob, Proc, Client, Server
<1>38. ASSUME NEW p \in Proc, Crash(p) PROVE TypeOK'
  BY <1>38 DEF Crash, End, config, requests, Jump, Labels, Proc, Client, Server
<1>39. ASSUME NEW p \in Proc, Lose(p) PROVE TypeOK'
  BY <1>39
     DEF Lose, config, endpoints, oob, MessageStates, Proc, Client, Server
<1>40. CASE LinkDown
  BY <1>40 DEF LinkDown, config, requests, oob
<1>41. CASE UNCHANGED vars
  BY <1>41 DEF vars
<1> QED
  BY <1>1, <1>2, <1>3, <1>4, <1>5, <1>6, <1>7, <1>8, <1>9, <1>10,
     <1>11, <1>12, <1>13, <1>14, <1>15, <1>16, <1>17, <1>18, <1>19, <1>20,
     <1>21, <1>22, <1>23, <1>24, <1>25, <1>26, <1>27, <1>28, <1>29, <1>30,
     <1>31, <1>32, <1>33, <1>34, <1>35, <1>36, <1>37, <1>38, <1>39, <1>40,
     <1>41
     DEF Next, ServerStep, ClientStep, RunServer, RunUcxClient,
     Main, Progress

(* A step of program p, and what it leaves alone of the other program.     *)
Step(p) ==
  \/ p = Server /\ ServerStep
  \/ p = Client /\ ClientStep
  \/ Progress(p) \/ Crash(p) \/ Lose(p)

Untouched(q) ==
  /\ pc'[q] = pc[q] /\ ret'[q] = ret[q] /\ buf'[q] = buf[q] /\ ep'[q] = ep[q]
  /\ op'[q] = op[q] /\ completed'[q] = completed[q]
  /\ sock'[q] = sock[q] /\ oobSent'[q] = oobSent[q] /\ oobRead'[q] = oobRead[q]

(* Every step is a step of a program, or breaks the transport.             *)
LEMMA NextSteps ==
  [Next]_vars => \/ \E p \in Proc : Step(p)
                 \/ LinkDown \/ UNCHANGED vars
  BY TwoPrograms
     DEF Next, Step, ServerStep, ClientStep, RunServer, RunUcxClient, Main

(* A step of p leaves the other program's part of the state alone.         *)
LEMMA Frame ==
  ASSUME TypeOK, NEW p \in Proc, Step(p), NEW q \in Proc, q # p
  PROVE  Untouched(q)
<1> USE TwoPrograms DEF TypeOK, Untouched
<1>1. CASE p = Server /\ ServerListen
  BY <1>1 DEF ServerListen, config, endpoints, requests, LeaveWith, Jump, oob
<1>2. CASE p = Server /\ ServerAccept
  BY <1>2 DEF ServerAccept, config, endpoints, requests, Jump
<1>3. CASE p = Server /\ ServerSendLength
  BY <1>3
     DEF ServerSendLength, config, endpoints, requests, LeaveWith, Write,
         Jump, oob
<1>4. CASE p = Server /\ ServerSendAddress
  BY <1>4
     DEF ServerSendAddress, config, endpoints, requests, LeaveWith, Write,
         Jump, oob
<1>5. CASE p = Server /\ BrokenPipe
  BY <1>5 DEF BrokenPipe, End, config, requests, Jump
<1>6. CASE p = Server /\ ServerProbe
  BY <1>6 DEF ServerProbe, config, endpoints, oob, Jump
<1>7. CASE p = Server /\ ServerRecv
  BY <1>7, NbxResult DEF ServerRecv, config, endpoints, oob, Jump
<1>8. CASE p = Server /\ ServerReceived
  BY <1>8, FreeResult DEF ServerReceived, config, endpoints, oob, Jump
<1>9. CASE p = Server /\ ServerEpCreate
  BY <1>9 DEF ServerEpCreate, config, requests, oob, Jump
<1>10. CASE p = Server /\ ServerAlloc
  BY <1>10 DEF ServerAlloc, config, endpoints, requests, oob, Jump
<1>11. CASE p = Server /\ ServerSleep
  BY <1>11 DEF ServerSleep, config, endpoints, requests, oob, Jump
<1>12. CASE p = Server /\ ServerSend
  BY <1>12, SendResult DEF ServerSend, config, endpoints, oob, Jump
<1>13. CASE p = Server /\ ServerSent
  BY <1>13, FreeResult DEF ServerSent, config, endpoints, oob, Jump
<1>14. CASE p = Server /\ ServerFailureSeen
  BY <1>14 DEF ServerFailureSeen, config, endpoints, requests, oob, Jump
<1>15. CASE p = Server /\ ServerPeerDead
  BY <1>15 DEF ServerPeerDead, config, endpoints, requests, oob, Jump
<1>16. CASE p = Server /\ ServerFlush
  BY <1>16, NbxResult DEF ServerFlush, config, endpoints, oob, Jump
<1>17. CASE p = Server /\ ServerFlushed
  BY <1>17 DEF ServerFlushed, config, endpoints, oob, Jump
<1>18. CASE p = Client /\ ClientConnect
  BY <1>18 DEF ClientConnect, config, endpoints, requests, LeaveWith, Jump, oob
<1>19. CASE p = Client /\ ClientRecvLength
  BY <1>19
     DEF ClientRecvLength, config, endpoints, requests, LeaveWith, Read, Jump,
         oob
<1>20. CASE p = Client /\ ClientRecvAddress
  BY <1>20
     DEF ClientRecvAddress, config, endpoints, requests, LeaveWith, Read,
         Jump, oob
<1>21. CASE p = Client /\ ClientEpCreate
  BY <1>21 DEF ClientEpCreate, config, requests, oob, Jump
<1>22. CASE p = Client /\ ClientSend
  BY <1>22, SendResult DEF ClientSend, config, endpoints, oob, Jump
<1>23. CASE p = Client /\ ClientSent
  BY <1>23, FreeResult DEF ClientSent, config, endpoints, oob, Jump
<1>24. CASE p = Client /\ ClientDisconnected
  BY <1>24 DEF ClientDisconnected, config, endpoints, requests, oob, Jump
<1>25. CASE p = Client /\ ClientProbe
  BY <1>25 DEF ClientProbe, config, endpoints, oob, Jump
<1>26. CASE p = Client /\ ClientRecv
  BY <1>26, NbxResult DEF ClientRecv, config, endpoints, oob, Jump
<1>27. CASE p = Client /\ ClientReceived
  BY <1>27, FreeResult DEF ClientReceived, config, endpoints, oob, Jump
<1>28. CASE EpClose(p)
  BY <1>28, NbxResult DEF EpClose, config, oob, Jump
<1>29. CASE EpClosed(p)
  BY <1>29 DEF EpClosed, config, oob, Jump
<1>30. CASE BarrierSend(p)
  BY <1>30 DEF BarrierSend, config, endpoints, requests, oob, Write, Jump
<1>31. CASE BarrierRecv(p)
  BY <1>31 DEF BarrierRecv, config, endpoints, requests, oob, Read, Jump
<1>32. CASE CloseOob(p)
  BY <1>32 DEF CloseOob, config, endpoints, requests, Jump
<1>33. CASE DestroyAndExit(p)
  BY <1>33 DEF DestroyAndExit, End, config, requests, Jump
<1>34. CASE Raise(p)
  BY <1>34 DEF Raise, End, config, requests, Jump
<1>35. CASE Deliver(p)
  BY <1>35 DEF Deliver, config, endpoints, oob
<1>36. CASE Complete(p)
  BY <1>36 DEF Complete, config, endpoints, oob, Handler
<1>37. CASE FailureHandler(p)
  BY <1>37 DEF FailureHandler, config, requests, oob
<1>38. CASE Crash(p)
  BY <1>38 DEF Crash, End, config, requests, Jump
<1>39. CASE Lose(p)
  BY <1>39 DEF Lose, config, endpoints, oob
<1> QED
  BY <1>1, <1>2, <1>3, <1>4, <1>5, <1>6, <1>7, <1>8, <1>9, <1>10, <1>11,
     <1>12, <1>13, <1>14, <1>15, <1>16, <1>17, <1>18, <1>19, <1>20, <1>21,
     <1>22, <1>23, <1>24, <1>25, <1>26, <1>27, <1>28, <1>29, <1>30, <1>31,
     <1>32, <1>33, <1>34, <1>35, <1>36, <1>37, <1>38, <1>39
     DEF Step, ServerStep, ClientStep, RunServer, RunUcxClient, Main,
         Progress

(* The request layer.  A program that waits for nothing has no operation.  *)
LEMMA RequestIdle ==
  ASSUME NEW p \in Proc, op[p] \in Ops, RequestOK(p),
         pc[p] \notin {"wait_send", "wait_recv", "wait_flush", "wait_close", "killed"}
  PROVE  op[p] = NoOp /\ ~completed[p]
<1>1. op[p].kind = "none"
  BY DEF RequestOK, WaitLabel, Ops
<1> QED
  BY <1>1 DEF RequestOK

(* After a nonblocking call.                                               *)
LEMMA RequestIssued ==
  ASSUME NEW p \in Proc, NEW k \in {"send", "recv", "flush", "close"},
         op'[p].kind = k, op'[p].st = "INPROGRESS" => op'[p].req,
         pc'[p] = WaitLabel(k), ~completed'[p]
  PROVE  RequestOK(p)'
  BY DEF RequestOK

(* After the return of a wait.                                             *)
LEMMA RequestDone ==
  ASSUME NEW p \in Proc, op'[p] = NoOp, ~completed'[p]
  PROVE  RequestOK(p)'
  BY DEF RequestOK, NoOp

(* The program that takes the step keeps its part of the layer ...         *)
LEMMA RequestOwn ==
  ASSUME TypeOK, RequestInv, NEW p \in Proc, Step(p)
  PROVE  RequestOK(p)'
<1> USE TwoPrograms DEF TypeOK, RequestInv
<1>0. op[p] \in Ops /\ RequestOK(p)
  OBVIOUS
<1>1. CASE p = Server /\ ServerListen
  BY <1>0, <1>1, RequestIdle, RequestDone
     DEF ServerListen, config, endpoints, requests, LeaveWith, Jump, oob
<1>2. CASE p = Server /\ ServerAccept
  BY <1>0, <1>2, RequestIdle, RequestDone
     DEF ServerAccept, config, endpoints, requests, Jump
<1>3. CASE p = Server /\ ServerSendLength
  BY <1>0, <1>3, RequestIdle, RequestDone
     DEF ServerSendLength, config, endpoints, requests, LeaveWith, Write,
         Jump, oob
<1>4. CASE p = Server /\ ServerSendAddress
  BY <1>0, <1>4, RequestIdle, RequestDone
     DEF ServerSendAddress, config, endpoints, requests, LeaveWith, Write,
         Jump, oob
<1>5. CASE p = Server /\ BrokenPipe
  BY <1>0, <1>5, RequestIdle, RequestDone
     DEF BrokenPipe, End, config, requests, Jump
<1>6. CASE p = Server /\ ServerProbe
  BY <1>0, <1>6, RequestIdle, RequestDone
     DEF ServerProbe, config, endpoints, oob, Jump
<1>7. CASE p = Server /\ ServerRecv
  <2>1. op[p] = NoOp /\ ~completed[p]
    BY <1>0, <1>7, RequestIdle DEF ServerRecv
  <2>2. ~completed'[p]
    BY <1>7, <2>1 DEF ServerRecv, config, endpoints, oob, Jump
  <2>3. CASE op' = op
    BY <2>1, <2>2, <2>3, RequestDone
  <2>4. CASE NbxReturns(p, "recv") /\ pc'[p] = "wait_recv"
    <3>1. op'[p].kind = "recv" /\ (op'[p].st = "INPROGRESS" => op'[p].req)
      BY <2>4, NbxResult
    <3> QED
      BY <2>2, <2>4, <3>1, RequestIssued DEF WaitLabel
  <2> QED
    BY <1>7, <2>3, <2>4 DEF ServerRecv, config, endpoints, oob, Jump
<1>8. CASE p = Server /\ ServerReceived
  BY <1>0, <1>8, FreeResult, RequestDone
     DEF ServerReceived, WaitReturns, RequestOK
<1>9. CASE p = Server /\ ServerEpCreate
  BY <1>0, <1>9, RequestIdle, RequestDone
     DEF ServerEpCreate, config, requests, oob, Jump
<1>10. CASE p = Server /\ ServerAlloc
  BY <1>0, <1>10, RequestIdle, RequestDone
     DEF ServerAlloc, config, endpoints, requests, oob, Jump
<1>11. CASE p = Server /\ ServerSleep
  BY <1>0, <1>11, RequestIdle, RequestDone
     DEF ServerSleep, config, endpoints, requests, oob, Jump
<1>12. CASE p = Server /\ ServerSend
  <2>1. op[p] = NoOp /\ ~completed[p]
    BY <1>0, <1>12, RequestIdle DEF ServerSend
  <2>2. ~completed'[p]
    BY <1>12, <2>1 DEF ServerSend, config, endpoints, oob, Jump
  <2>3. op'[p].kind = "send" /\ (op'[p].st = "INPROGRESS" => op'[p].req)
    BY <1>12, SendResult DEF ServerSend
  <2>4. pc'[p] = "wait_send"
    BY <1>12 DEF ServerSend, Jump
  <2> QED
    BY <2>2, <2>3, <2>4, RequestIssued DEF WaitLabel
<1>13. CASE p = Server /\ ServerSent
  BY <1>0, <1>13, FreeResult, RequestDone
     DEF ServerSent, WaitReturns, RequestOK
<1>14. CASE p = Server /\ ServerFailureSeen
  BY <1>0, <1>14, RequestIdle, RequestDone
     DEF ServerFailureSeen, config, endpoints, requests, oob, Jump
<1>15. CASE p = Server /\ ServerPeerDead
  BY <1>0, <1>15, RequestIdle, RequestDone
     DEF ServerPeerDead, config, endpoints, requests, oob, Jump
<1>16. CASE p = Server /\ ServerFlush
  <2>1. op[p] = NoOp /\ ~completed[p]
    BY <1>0, <1>16, RequestIdle DEF ServerFlush
  <2>2. ~completed'[p]
    BY <1>16, <2>1 DEF ServerFlush, config, endpoints, oob, Jump
  <2>3. op'[p].kind = "flush" /\ (op'[p].st = "INPROGRESS" => op'[p].req)
    BY <1>16, NbxResult DEF ServerFlush
  <2>4. pc'[p] = "wait_flush"
    BY <1>16 DEF ServerFlush, Jump
  <2> QED
    BY <2>2, <2>3, <2>4, RequestIssued DEF WaitLabel
<1>17. CASE p = Server /\ ServerFlushed
  BY <1>0, <1>17, RequestDone
     DEF ServerFlushed, config, endpoints, oob, Jump, StatusReturns, RequestOK
<1>18. CASE p = Client /\ ClientConnect
  BY <1>0, <1>18, RequestIdle, RequestDone
     DEF ClientConnect, config, endpoints, requests, LeaveWith, Jump, oob
<1>19. CASE p = Client /\ ClientRecvLength
  BY <1>0, <1>19, RequestIdle, RequestDone
     DEF ClientRecvLength, config, endpoints, requests, LeaveWith, Read, Jump,
         oob
<1>20. CASE p = Client /\ ClientRecvAddress
  BY <1>0, <1>20, RequestIdle, RequestDone
     DEF ClientRecvAddress, config, endpoints, requests, LeaveWith, Read,
         Jump, oob
<1>21. CASE p = Client /\ ClientEpCreate
  BY <1>0, <1>21, RequestIdle, RequestDone
     DEF ClientEpCreate, config, requests, oob, Jump
<1>22. CASE p = Client /\ ClientSend
  <2>1. op[p] = NoOp /\ ~completed[p]
    BY <1>0, <1>22, RequestIdle DEF ClientSend
  <2>2. ~completed'[p]
    BY <1>22, <2>1 DEF ClientSend, config, endpoints, oob, Jump
  <2>3. CASE op' = op
    BY <2>1, <2>2, <2>3, RequestDone
  <2>4. CASE SendNbx(p) /\ pc'[p] = "wait_send"
    <3>1. op'[p].kind = "send" /\ (op'[p].st = "INPROGRESS" => op'[p].req)
      BY <2>4, SendResult
    <3> QED
      BY <2>2, <2>4, <3>1, RequestIssued DEF WaitLabel
  <2> QED
    BY <1>22, <2>3, <2>4 DEF ClientSend, config, endpoints, oob, Jump
<1>23. CASE p = Client /\ ClientSent
  BY <1>0, <1>23, FreeResult, RequestDone
     DEF ClientSent, WaitReturns, RequestOK
<1>24. CASE p = Client /\ ClientDisconnected
  BY <1>0, <1>24, RequestIdle, RequestDone
     DEF ClientDisconnected, config, endpoints, requests, oob, Jump
<1>25. CASE p = Client /\ ClientProbe
  BY <1>0, <1>25, RequestIdle, RequestDone
     DEF ClientProbe, config, endpoints, oob, Jump
<1>26. CASE p = Client /\ ClientRecv
  <2>1. op[p] = NoOp /\ ~completed[p]
    BY <1>0, <1>26, RequestIdle DEF ClientRecv
  <2>2. ~completed'[p]
    BY <1>26, <2>1 DEF ClientRecv, config, endpoints, oob, Jump
  <2>3. CASE op' = op
    BY <2>1, <2>2, <2>3, RequestDone
  <2>4. CASE NbxReturns(p, "recv") /\ pc'[p] = "wait_recv"
    <3>1. op'[p].kind = "recv" /\ (op'[p].st = "INPROGRESS" => op'[p].req)
      BY <2>4, NbxResult
    <3> QED
      BY <2>2, <2>4, <3>1, RequestIssued DEF WaitLabel
  <2> QED
    BY <1>26, <2>3, <2>4 DEF ClientRecv, config, endpoints, oob, Jump
<1>27. CASE p = Client /\ ClientReceived
  BY <1>0, <1>27, FreeResult, RequestDone
     DEF ClientReceived, WaitReturns, RequestOK
<1>28. CASE EpClose(p)
  <2>1. op[p] = NoOp /\ ~completed[p]
    BY <1>0, <1>28, RequestIdle DEF EpClose
  <2>2. ~completed'[p]
    BY <1>28, <2>1 DEF EpClose, config, oob, Jump
  <2>3. op'[p].kind = "close" /\ (op'[p].st = "INPROGRESS" => op'[p].req)
    BY <1>28, NbxResult DEF EpClose
  <2>4. pc'[p] = "wait_close"
    BY <1>28 DEF EpClose, Jump
  <2> QED
    BY <2>2, <2>3, <2>4, RequestIssued DEF WaitLabel
<1>29. CASE EpClosed(p)
  BY <1>0, <1>29, RequestDone
     DEF EpClosed, config, oob, Jump, StatusReturns, RequestOK
<1>30. CASE BarrierSend(p)
  BY <1>0, <1>30, RequestIdle, RequestDone
     DEF BarrierSend, config, endpoints, requests, oob, Write, Jump
<1>31. CASE BarrierRecv(p)
  BY <1>0, <1>31, RequestIdle, RequestDone
     DEF BarrierRecv, config, endpoints, requests, oob, Read, Jump
<1>32. CASE CloseOob(p)
  BY <1>0, <1>32, RequestIdle, RequestDone
     DEF CloseOob, config, endpoints, requests, Jump
<1>33. CASE DestroyAndExit(p)
  BY <1>0, <1>33, RequestIdle, RequestDone
     DEF DestroyAndExit, End, config, requests, Jump
<1>34. CASE Raise(p)
  BY <1>0, <1>34, RequestIdle, RequestDone
     DEF Raise, End, config, requests, Jump
<1>35. CASE Deliver(p)
  BY <1>0, <1>35 DEF Deliver, config, endpoints, oob, RequestOK
<1>36. CASE Complete(p)
  <2>1. PICK s \in {"OK", "ERR"} : op' = [op EXCEPT ![p] = [op[p] EXCEPT !.st = s]]
    BY <1>36 DEF Complete
  <2>2. /\ op'[p].kind = op[p].kind /\ op'[p].req = op[p].req
        /\ op'[p].st # "INPROGRESS"
    BY <1>0, <2>1, NewStatus
  <2>3. /\ op[p].req /\ op[p].kind # "none"
        /\ completed'[p] => op[p].kind \in {"send", "recv"}
    BY <1>0, <1>36 DEF Complete, Handler, RequestOK, NoOp
  <2>4. pc'[p] = pc[p]
    BY <1>36 DEF Complete
  <2> QED
    BY <1>0, <2>2, <2>3, <2>4 DEF RequestOK
<1>37. CASE FailureHandler(p)
  BY <1>0, <1>37 DEF FailureHandler, config, requests, oob, RequestOK
<1>38. CASE Crash(p)
  BY <1>0, <1>38 DEF Crash, End, config, requests, Jump, RequestOK
<1>39. CASE Lose(p)
  BY <1>0, <1>39 DEF Lose, config, endpoints, oob, RequestOK
<1> QED
  BY <1>1, <1>2, <1>3, <1>4, <1>5, <1>6, <1>7, <1>8, <1>9, <1>10, <1>11,
     <1>12, <1>13, <1>14, <1>15, <1>16, <1>17, <1>18, <1>19, <1>20, <1>21,
     <1>22, <1>23, <1>24, <1>25, <1>26, <1>27, <1>28, <1>29, <1>30, <1>31,
     <1>32, <1>33, <1>34, <1>35, <1>36, <1>37, <1>38, <1>39
     DEF Step, ServerStep, ClientStep, RunServer, RunUcxClient, Main,
         Progress

(* ... and so does every step.                                             *)
LEMMA RequestStep ==
  TypeOK /\ RequestInv /\ [Next]_vars => RequestInv'
<1> SUFFICES ASSUME TypeOK, RequestInv, [Next]_vars, NEW q \in Proc
             PROVE  RequestOK(q)'
  BY DEF RequestInv
<1>1. RequestOK(q)
  BY DEF RequestInv
<1>2. CASE Untouched(q)
  BY <1>1, <1>2 DEF Untouched, RequestOK
<1>3. ASSUME NEW p \in Proc, Step(p) PROVE RequestOK(q)'
  BY <1>2, <1>3, Frame, RequestOwn
<1>4. CASE LinkDown \/ UNCHANGED vars
  BY <1>2, <1>4 DEF Untouched, LinkDown, config, requests, oob, vars
<1> QED
  BY <1>3, <1>4, NextSteps

(* The initial states.                                                     *)
LEMMA TypeInit == Init => TypeOK
<1> SUFFICES ASSUME Init PROVE TypeOK
  OBVIOUS
<1>1. mode \in [Proc -> FailureModes] /\ app \in [Proc -> {"hello_ucp", "run_ucp"}]
  BY ModesAssumption, AppsAssumption DEF Init
<1>2. op \in [Proc -> Ops]
  BY DEF Init, Ops, NoOp
<1> QED
  BY <1>1, <1>2 DEF Init, TypeOK, Labels, Results, MessageStates

(* Initially no operation is pending.                                      *)
LEMMA RequestInit == Init => RequestInv
  BY DEF Init, RequestInv, RequestOK, NoOp

(* Type correctness.                                                       *)
THEOREM TypeCorrect == Spec => []TypeOK
  BY TypeInit, TypeStep, PTL DEF Spec

(* No step of p gives back what p's pending operation uses.                *)
LEMMA HeldOwn ==
  ASSUME TypeOK, RequestInv, NEW p \in Proc, Step(p)
  PROVE  Held(p)
<1> SUFFICES ASSUME op[p].st = "INPROGRESS"
             PROVE  op'[p].kind = op[p].kind /\ (buf[p] => buf'[p])
  BY DEF Held
<1> USE TwoPrograms DEF TypeOK
<1>0. /\ op[p].req /\ ~completed[p]
      /\ pc[p] \in {"wait_send", "wait_recv", "wait_flush", "wait_close", "killed"}
      /\ pc[p] \in {WaitLabel(op[p].kind), "killed"}
  <2>1. op[p] \in Ops /\ RequestOK(p) /\ op[p] # NoOp
    BY DEF RequestInv, NoOp
  <2> QED
    BY <2>1 DEF RequestOK, WaitLabel, Ops
<1>1. CASE p = Server /\ ServerListen
  BY <1>0, <1>1
     DEF ServerListen, config, endpoints, requests, LeaveWith, Jump, oob
<1>2. CASE p = Server /\ ServerAccept
  BY <1>0, <1>2 DEF ServerAccept, config, endpoints, requests, Jump
<1>3. CASE p = Server /\ ServerSendLength
  BY <1>0, <1>3
     DEF ServerSendLength, config, endpoints, requests, LeaveWith, Write,
         Jump, oob
<1>4. CASE p = Server /\ ServerSendAddress
  BY <1>0, <1>4
     DEF ServerSendAddress, config, endpoints, requests, LeaveWith, Write,
         Jump, oob
<1>5. CASE p = Server /\ BrokenPipe
  BY <1>0, <1>5 DEF BrokenPipe, End, config, requests, Jump
<1>6. CASE p = Server /\ ServerProbe
  BY <1>0, <1>6 DEF ServerProbe, config, endpoints, oob, Jump
<1>7. CASE p = Server /\ ServerRecv
  BY <1>0, <1>7 DEF ServerRecv, config, endpoints, oob, Jump
<1>8. CASE p = Server /\ ServerReceived
  BY <1>0, <1>8 DEF ServerReceived, WaitReturns
<1>9. CASE p = Server /\ ServerEpCreate
  BY <1>0, <1>9 DEF ServerEpCreate, config, requests, oob, Jump
<1>10. CASE p = Server /\ ServerAlloc
  BY <1>0, <1>10 DEF ServerAlloc, config, endpoints, requests, oob, Jump
<1>11. CASE p = Server /\ ServerSleep
  BY <1>0, <1>11 DEF ServerSleep, config, endpoints, requests, oob, Jump
<1>12. CASE p = Server /\ ServerSend
  BY <1>0, <1>12 DEF ServerSend, config, endpoints, oob, Jump
<1>13. CASE p = Server /\ ServerSent
  BY <1>0, <1>13 DEF ServerSent, WaitReturns
<1>14. CASE p = Server /\ ServerFailureSeen
  BY <1>0, <1>14 DEF ServerFailureSeen, config, endpoints, requests, oob, Jump
<1>15. CASE p = Server /\ ServerPeerDead
  BY <1>0, <1>15 DEF ServerPeerDead, config, endpoints, requests, oob, Jump
<1>16. CASE p = Server /\ ServerFlush
  BY <1>0, <1>16 DEF ServerFlush, config, endpoints, oob, Jump
<1>17. CASE p = Server /\ ServerFlushed
  BY <1>0, <1>17 DEF ServerFlushed, StatusReturns
<1>18. CASE p = Client /\ ClientConnect
  BY <1>0, <1>18
     DEF ClientConnect, config, endpoints, requests, LeaveWith, Jump, oob
<1>19. CASE p = Client /\ ClientRecvLength
  BY <1>0, <1>19
     DEF ClientRecvLength, config, endpoints, requests, LeaveWith, Read, Jump,
         oob
<1>20. CASE p = Client /\ ClientRecvAddress
  BY <1>0, <1>20
     DEF ClientRecvAddress, config, endpoints, requests, LeaveWith, Read,
         Jump, oob
<1>21. CASE p = Client /\ ClientEpCreate
  BY <1>0, <1>21 DEF ClientEpCreate, config, requests, oob, Jump
<1>22. CASE p = Client /\ ClientSend
  BY <1>0, <1>22 DEF ClientSend, config, endpoints, oob, Jump
<1>23. CASE p = Client /\ ClientSent
  BY <1>0, <1>23 DEF ClientSent, WaitReturns
<1>24. CASE p = Client /\ ClientDisconnected
  BY <1>0, <1>24 DEF ClientDisconnected, config, endpoints, requests, oob, Jump
<1>25. CASE p = Client /\ ClientProbe
  BY <1>0, <1>25 DEF ClientProbe, config, endpoints, oob, Jump
<1>26. CASE p = Client /\ ClientRecv
  BY <1>0, <1>26 DEF ClientRecv, config, endpoints, oob, Jump
<1>27. CASE p = Client /\ ClientReceived
  BY <1>0, <1>27 DEF ClientReceived, WaitReturns
<1>28. CASE EpClose(p)
  BY <1>0, <1>28 DEF EpClose, config, oob, Jump
<1>29. CASE EpClosed(p)
  BY <1>0, <1>29 DEF EpClosed, StatusReturns
<1>30. CASE BarrierSend(p)
  BY <1>0, <1>30 DEF BarrierSend, config, endpoints, requests, oob, Write, Jump
<1>31. CASE BarrierRecv(p)
  BY <1>0, <1>31 DEF BarrierRecv, config, endpoints, requests, oob, Read, Jump
<1>32. CASE CloseOob(p)
  BY <1>0, <1>32 DEF CloseOob, config, endpoints, requests, Jump
<1>33. CASE DestroyAndExit(p)
  BY <1>0, <1>33 DEF DestroyAndExit, End, config, requests, Jump
<1>34. CASE Raise(p)
  BY <1>0, <1>34 DEF Raise, End, config, requests, Jump
<1>35. CASE Deliver(p)
  BY <1>0, <1>35 DEF Deliver, config, endpoints, oob
<1>36. CASE Complete(p)
  <2>1. PICK s \in {"OK", "ERR"} : op' = [op EXCEPT ![p] = [op[p] EXCEPT !.st = s]]
    BY <1>36 DEF Complete
  <2> QED
    BY <1>36, <2>1, NewStatus DEF Complete
<1>37. CASE FailureHandler(p)
  BY <1>0, <1>37 DEF FailureHandler, config, requests, oob
<1>38. CASE Crash(p)
  BY <1>0, <1>38 DEF Crash, End, config, requests, Jump
<1>39. CASE Lose(p)
  BY <1>0, <1>39 DEF Lose, config, endpoints, oob
<1> QED
  BY <1>1, <1>2, <1>3, <1>4, <1>5, <1>6, <1>7, <1>8, <1>9, <1>10, <1>11,
     <1>12, <1>13, <1>14, <1>15, <1>16, <1>17, <1>18, <1>19, <1>20, <1>21,
     <1>22, <1>23, <1>24, <1>25, <1>26, <1>27, <1>28, <1>29, <1>30, <1>31,
     <1>32, <1>33, <1>34, <1>35, <1>36, <1>37, <1>38, <1>39
     DEF Step, ServerStep, ClientStep, RunServer, RunUcxClient, Main,
         Progress

(* Neither the request nor the buffer of a pending operation is given back.*)
THEOREM BuffersHeld == Spec => HeldUntilDone
<1>1. TypeOK /\ RequestInv /\ [Next]_vars => [\A p \in Proc : Held(p)]_vars
  <2> SUFFICES ASSUME TypeOK, RequestInv, [Next]_vars, NEW q \in Proc
               PROVE  Held(q) \/ UNCHANGED vars
    OBVIOUS
  <2>1. ASSUME Untouched(q) PROVE Held(q)
    BY <2>1 DEF Untouched, Held
  <2>2. ASSUME NEW p \in Proc, Step(p) PROVE Held(q)
    BY <2>1, <2>2, Frame, HeldOwn
  <2>3. CASE LinkDown
    BY <2>1, <2>3 DEF Untouched, LinkDown, config, requests, oob
  <2> QED
    BY <2>2, <2>3, NextSteps
<1>2. Init => TypeOK /\ RequestInv
  BY TypeInit, RequestInit
<1> QED
  BY <1>1, <1>2, TypeStep, RequestStep, PTL DEF Spec, HeldUntilDone

(* The resource layer: a step of p keeps p's part.                         *)
LEMMA ResourceOwn ==
  ASSUME TypeOK, RequestInv, ResourceInv, NEW p \in Proc, Step(p)
  PROVE  ResourceOK(p)'
<1> USE TwoPrograms DEF TypeOK, EndpointLabels, ClosedLabels, BufferLabels,
           ResourceOK
<1>0. ResourceOK(p)
  BY DEF ResourceInv
<1>1. CASE p = Server /\ ServerListen
  BY <1>0, <1>1
     DEF ServerListen, config, endpoints, requests, LeaveWith, Jump, oob
<1>2. CASE p = Server /\ ServerAccept
  BY <1>0, <1>2 DEF ServerAccept, config, endpoints, requests, Jump
<1>3. CASE p = Server /\ ServerSendLength
  BY <1>0, <1>3
     DEF ServerSendLength, config, endpoints, requests, LeaveWith, Write,
         Jump, oob
<1>4. CASE p = Server /\ ServerSendAddress
  BY <1>0, <1>4
     DEF ServerSendAddress, config, endpoints, requests, LeaveWith, Write,
         Jump, oob
<1>5. CASE p = Server /\ BrokenPipe
  BY <1>0, <1>5 DEF BrokenPipe, End, config, requests, Jump
<1>6. CASE p = Server /\ ServerProbe
  BY <1>0, <1>6 DEF ServerProbe, config, endpoints, oob, Jump, AfterRun
<1>7. CASE p = Server /\ ServerRecv
  BY <1>0, <1>7 DEF ServerRecv, config, endpoints, oob, Jump, AfterRun
<1>8. CASE p = Server /\ ServerReceived
  BY <1>0, <1>8 DEF ServerReceived, config, endpoints, oob, Jump, AfterRun
<1>9. CASE p = Server /\ ServerEpCreate
  <2>1. buf' = buf /\ pc[Server] = "ep_create"
    BY <1>9 DEF ServerEpCreate
  <2>2. CASE ep' = ep /\ pc'[Server] = AfterRun(Server, ret'[Server])
    <3>1. AfterRun(Server, ret'[Server]) = "close_oob"
      BY <1>9 DEF ServerEpCreate, AfterRun, PeerErr
    <3> QED
      BY <1>0, <1>9, <2>1, <2>2, <3>1
  <2>3. CASE ep'[Server] = "open" /\ pc'[Server] = "alloc"
    BY <1>0, <1>9, <2>1, <2>3
  <2> QED
    BY <1>9, <2>2, <2>3 DEF ServerEpCreate, Jump
<1>10. CASE p = Server /\ ServerAlloc
  BY <1>0, <1>10 DEF ServerAlloc, config, endpoints, requests, oob, Jump
<1>11. CASE p = Server /\ ServerSleep
  BY <1>0, <1>11 DEF ServerSleep, config, endpoints, requests, oob, Jump
<1>12. CASE p = Server /\ ServerSend
  BY <1>0, <1>12 DEF ServerSend, config, endpoints, oob, Jump
<1>13. CASE p = Server /\ ServerSent
  BY <1>0, <1>13 DEF ServerSent, config, endpoints, oob, Jump
<1>14. CASE p = Server /\ ServerFailureSeen
  BY <1>0, <1>14 DEF ServerFailureSeen, config, endpoints, requests, oob, Jump
<1>15. CASE p = Server /\ ServerPeerDead
  BY <1>0, <1>15 DEF ServerPeerDead, config, endpoints, requests, oob, Jump
<1>16. CASE p = Server /\ ServerFlush
  BY <1>0, <1>16 DEF ServerFlush, config, endpoints, oob, Jump
<1>17. CASE p = Server /\ ServerFlushed
  BY <1>0, <1>17 DEF ServerFlushed, config, endpoints, oob, Jump
<1>18. CASE p = Client /\ ClientConnect
  BY <1>0, <1>18
     DEF ClientConnect, config, endpoints, requests, LeaveWith, Jump, oob
<1>19. CASE p = Client /\ ClientRecvLength
  BY <1>0, <1>19
     DEF ClientRecvLength, config, endpoints, requests, LeaveWith, Read, Jump,
         oob
<1>20. CASE p = Client /\ ClientRecvAddress
  BY <1>0, <1>20
     DEF ClientRecvAddress, config, endpoints, requests, LeaveWith, Read,
         Jump, oob
<1>21. CASE p = Client /\ ClientEpCreate
  BY <1>0, <1>21 DEF ClientEpCreate, config, requests, oob, Jump, AfterRun
<1>22. CASE p = Client /\ ClientSend
  BY <1>0, <1>22 DEF ClientSend, config, endpoints, oob, Jump, AfterRun
<1>23. CASE p = Client /\ ClientSent
  BY <1>0, <1>23 DEF ClientSent, config, endpoints, oob, Jump, AfterRun
<1>24. CASE p = Client /\ ClientDisconnected
  BY <1>0, <1>24
     DEF ClientDisconnected, config, endpoints, requests, oob, Jump, AfterRun
<1>25. CASE p = Client /\ ClientProbe
  BY <1>0, <1>25 DEF ClientProbe, config, endpoints, oob, Jump
<1>26. CASE p = Client /\ ClientRecv
  BY <1>0, <1>26 DEF ClientRecv, config, endpoints, oob, Jump
<1>27. CASE p = Client /\ ClientReceived
  BY <1>0, <1>27 DEF ClientReceived, config, endpoints, oob, Jump
<1>28. CASE EpClose(p)
  BY <1>0, <1>28 DEF EpClose, config, oob, Jump, AfterRun
<1>29. CASE EpClosed(p)
  BY <1>0, <1>29 DEF EpClosed, config, oob, Jump, AfterRun
<1>30. CASE BarrierSend(p)
  BY <1>0, <1>30 DEF BarrierSend, config, endpoints, requests, oob, Write, Jump
<1>31. CASE BarrierRecv(p)
  BY <1>0, <1>31 DEF BarrierRecv, config, endpoints, requests, oob, Read, Jump
<1>32. CASE CloseOob(p)
  BY <1>0, <1>32 DEF CloseOob, config, endpoints, requests, Jump
<1>33. CASE DestroyAndExit(p)
  BY <1>0, <1>33 DEF DestroyAndExit, End, config, requests, Jump
<1>34. CASE Raise(p)
  BY <1>0, <1>34 DEF Raise, End, config, requests, Jump
<1>35. CASE Deliver(p)
  BY <1>0, <1>35 DEF Deliver, config, endpoints, oob
<1>36. CASE Complete(p)
  BY <1>0, <1>36 DEF Complete, config, endpoints, oob
<1>37. CASE FailureHandler(p)
  BY <1>0, <1>37 DEF FailureHandler, config, requests, oob
<1>38. CASE Crash(p)
  BY <1>0, <1>38 DEF Crash, End, config, requests, Jump
<1>39. CASE Lose(p)
  BY <1>0, <1>39 DEF Lose, config, endpoints, oob
<1> QED
  BY <1>1, <1>2, <1>3, <1>4, <1>5, <1>6, <1>7, <1>8, <1>9, <1>10, <1>11,
     <1>12, <1>13, <1>14, <1>15, <1>16, <1>17, <1>18, <1>19, <1>20, <1>21,
     <1>22, <1>23, <1>24, <1>25, <1>26, <1>27, <1>28, <1>29, <1>30, <1>31,
     <1>32, <1>33, <1>34, <1>35, <1>36, <1>37, <1>38, <1>39
     DEF Step, ServerStep, ClientStep, RunServer, RunUcxClient, Main,
         Progress

(* Every step preserves the layer.                                         *)
LEMMA ResourceStep ==
  TypeOK /\ RequestInv /\ ResourceInv /\ [Next]_vars => ResourceInv'
<1> SUFFICES ASSUME TypeOK, RequestInv, ResourceInv, [Next]_vars, NEW q \in Proc
             PROVE  ResourceOK(q)'
  BY DEF ResourceInv
<1>1. ResourceOK(q)
  BY DEF ResourceInv
<1>2. CASE Untouched(q)
  BY <1>1, <1>2 DEF Untouched, ResourceOK, EndpointLabels
<1>3. ASSUME NEW p \in Proc, Step(p) PROVE ResourceOK(q)'
  BY <1>2, <1>3, Frame, ResourceOwn
<1>4. CASE LinkDown \/ UNCHANGED vars
  BY <1>2, <1>4 DEF Untouched, LinkDown, config, requests, oob, vars
<1> QED
  BY <1>3, <1>4, NextSteps

(* Initially there is neither an endpoint nor a buffer.                    *)
LEMMA ResourceInit == Init => ResourceInv
  BY DEF Init, ResourceInv, ResourceOK

(* Every endpoint that was created is closed on every way out.             *)
THEOREM EndpointsClosed == Spec => []EndpointClosedFirst
<1>1. TypeOK /\ ResourceInv => EndpointClosedFirst
  BY TwoPrograms
     DEF TypeOK, ResourceInv, ResourceOK, EndpointClosedFirst, Leaving,
     EndpointLabels
<1> QED
  BY <1>1, TypeInit, TypeStep, RequestInit, RequestStep, ResourceInit,
     ResourceStep, PTL DEF Spec

(* The message buffer is released on every way out.                        *)
THEOREM BuffersReleased == Spec => []BufferReleased
<1>1. ResourceInv => BufferReleased
  BY DEF ResourceInv, ResourceOK, BufferReleased, Leaving, BufferLabels
<1> QED
  BY <1>1, TypeInit, TypeStep, RequestInit, RequestStep, ResourceInit,
     ResourceStep, PTL DEF Spec

(* The stream layer: no step writes or reads an item out of turn.          *)
LEMMA StreamOwn ==
  ASSUME TypeOK, StreamInv, NEW p \in Proc, Step(p)
  PROVE  StreamInv'
<1> USE TwoPrograms DEF TypeOK, StreamInv, Connecting, Running
<1>1. CASE p = Server /\ ServerListen
  BY <1>1 DEF ServerListen, config, endpoints, requests, LeaveWith, Jump, oob
<1>2. CASE p = Server /\ ServerAccept
  BY <1>2 DEF ServerAccept, config, endpoints, requests, Jump
<1>3. CASE p = Server /\ ServerSendLength
  BY <1>3
     DEF ServerSendLength, config, endpoints, requests, LeaveWith, Write,
         Jump, oob
<1>4. CASE p = Server /\ ServerSendAddress
  BY <1>4
     DEF ServerSendAddress, config, endpoints, requests, LeaveWith, Write,
         Jump, oob
<1>5. CASE p = Server /\ BrokenPipe
  BY <1>5 DEF BrokenPipe, End, config, requests, Jump
<1>6. CASE p = Server /\ ServerProbe
  BY <1>6 DEF ServerProbe, config, endpoints, oob, Jump
<1>7. CASE p = Server /\ ServerRecv
  BY <1>7 DEF ServerRecv, config, endpoints, oob, Jump, AfterRun
<1>8. CASE p = Server /\ ServerReceived
  BY <1>8 DEF ServerReceived, config, endpoints, oob, Jump, AfterRun
<1>9. CASE p = Server /\ ServerEpCreate
  BY <1>9 DEF ServerEpCreate, config, requests, oob, Jump, AfterRun
<1>10. CASE p = Server /\ ServerAlloc
  BY <1>10 DEF ServerAlloc, config, endpoints, requests, oob, Jump
<1>11. CASE p = Server /\ ServerSleep
  BY <1>11 DEF ServerSleep, config, endpoints, requests, oob, Jump
<1>12. CASE p = Server /\ ServerSend
  BY <1>12 DEF ServerSend, config, endpoints, oob, Jump
<1>13. CASE p = Server /\ ServerSent
  BY <1>13 DEF ServerSent, config, endpoints, oob, Jump
<1>14. CASE p = Server /\ ServerFailureSeen
  BY <1>14 DEF ServerFailureSeen, config, endpoints, requests, oob, Jump
<1>15. CASE p = Server /\ ServerPeerDead
  BY <1>15 DEF ServerPeerDead, config, endpoints, requests, oob, Jump
<1>16. CASE p = Server /\ ServerFlush
  BY <1>16 DEF ServerFlush, config, endpoints, oob, Jump
<1>17. CASE p = Server /\ ServerFlushed
  BY <1>17 DEF ServerFlushed, config, endpoints, oob, Jump
<1>18. CASE p = Client /\ ClientConnect
  BY <1>18 DEF ClientConnect, config, endpoints, requests, LeaveWith, Jump, oob
<1>19. CASE p = Client /\ ClientRecvLength
  BY <1>19
     DEF ClientRecvLength, config, endpoints, requests, LeaveWith, Read, Jump,
         oob
<1>20. CASE p = Client /\ ClientRecvAddress
  BY <1>20
     DEF ClientRecvAddress, config, endpoints, requests, LeaveWith, Read,
         Jump, oob
<1>21. CASE p = Client /\ ClientEpCreate
  BY <1>21 DEF ClientEpCreate, config, requests, oob, Jump, AfterRun
<1>22. CASE p = Client /\ ClientSend
  BY <1>22 DEF ClientSend, config, endpoints, oob, Jump
<1>23. CASE p = Client /\ ClientSent
  BY <1>23 DEF ClientSent, config, endpoints, oob, Jump
<1>24. CASE p = Client /\ ClientDisconnected
  BY <1>24 DEF ClientDisconnected, config, endpoints, requests, oob, Jump
<1>25. CASE p = Client /\ ClientProbe
  BY <1>25 DEF ClientProbe, config, endpoints, oob, Jump
<1>26. CASE p = Client /\ ClientRecv
  BY <1>26 DEF ClientRecv, config, endpoints, oob, Jump
<1>27. CASE p = Client /\ ClientReceived
  BY <1>27 DEF ClientReceived, config, endpoints, oob, Jump
<1>28. CASE EpClose(p)
  BY <1>28 DEF EpClose, config, oob, Jump
<1>29. CASE EpClosed(p)
  BY <1>29 DEF EpClosed, config, oob, Jump, AfterRun
<1>30. CASE BarrierSend(p)
  BY <1>30 DEF BarrierSend, config, endpoints, requests, oob, Write, Jump
<1>31. CASE BarrierRecv(p)
  BY <1>31 DEF BarrierRecv, config, endpoints, requests, oob, Read, Jump
<1>32. CASE CloseOob(p)
  BY <1>32 DEF CloseOob, config, endpoints, requests, Jump
<1>33. CASE DestroyAndExit(p)
  BY <1>33 DEF DestroyAndExit, End, config, requests, Jump
<1>34. CASE Raise(p)
  BY <1>34 DEF Raise, End, config, requests, Jump
<1>35. CASE Deliver(p)
  BY <1>35 DEF Deliver, config, endpoints, oob
<1>36. CASE Complete(p)
  BY <1>36 DEF Complete, config, endpoints, oob
<1>37. CASE FailureHandler(p)
  BY <1>37 DEF FailureHandler, config, requests, oob
<1>38. CASE Crash(p)
  BY <1>38 DEF Crash, End, config, requests, Jump
<1>39. CASE Lose(p)
  BY <1>39 DEF Lose, config, endpoints, oob
<1> HIDE DEF TypeOK, StreamInv, Connecting, Running
<1> QED
  BY <1>1, <1>2, <1>3, <1>4, <1>5, <1>6, <1>7, <1>8, <1>9, <1>10, <1>11,
     <1>12, <1>13, <1>14, <1>15, <1>16, <1>17, <1>18, <1>19, <1>20, <1>21,
     <1>22, <1>23, <1>24, <1>25, <1>26, <1>27, <1>28, <1>29, <1>30, <1>31,
     <1>32, <1>33, <1>34, <1>35, <1>36, <1>37, <1>38, <1>39
     DEF Step, ServerStep, ClientStep, RunServer, RunUcxClient, Main,
         Progress

(* Every step preserves the layer.                                         *)
LEMMA StreamStep ==
  TypeOK /\ StreamInv /\ [Next]_vars => StreamInv'
<1> SUFFICES ASSUME TypeOK, StreamInv, [Next]_vars PROVE StreamInv'
  OBVIOUS
<1>1. ASSUME NEW p \in Proc, Step(p) PROVE StreamInv'
  BY <1>1, StreamOwn
<1>2. CASE LinkDown \/ UNCHANGED vars
  BY <1>2 DEF StreamInv, LinkDown, config, requests, oob, vars
<1> QED
  BY <1>1, <1>2, NextSteps

(* Initially both streams are empty.                                       *)
LEMMA StreamInit == Init => StreamInv
  BY TwoPrograms DEF Init, StreamInv, Connecting, Running

(* The barrier layer: what the other layers say of the two programs when   *)
(* one of them enters or leaves the barrier.                               *)
LEMMA BarrierOwn ==
  ASSUME TypeOK, RequestInv, ResourceInv, StreamInv, BarrierInv,
         NEW p \in Proc, Step(p)
  PROVE  BarrierInv'
<1> USE TwoPrograms
    DEF TypeOK, BarrierInv, AddressUnsent, AddressTaken, ClientResult,
        ClientInBarrier, ClientSynced, ServerSynced, ServerPassed,
        ClientPassed, PastBarrierSend, Connecting, Running, Leaving, Succeeded
<1>1. CASE p = Server /\ ServerListen
  BY <1>1 DEF ServerListen, config, endpoints, requests, LeaveWith, Jump, oob
<1>2. CASE p = Server /\ ServerAccept
  BY <1>2 DEF ServerAccept, config, endpoints, requests, Jump
<1>3. CASE p = Server /\ ServerSendLength
  <2>1. AddressTaken'
    BY <1>3
       DEF ServerSendLength, config, endpoints, requests, LeaveWith, Write,
           Jump, oob, NoOp
  <2>2. ClientSynced'
    BY <1>3
       DEF ServerSendLength, config, endpoints, requests, LeaveWith, Write,
           Jump, oob, StreamInv
  <2>3. ServerSynced'
    BY <1>3
       DEF ServerSendLength, config, endpoints, requests, LeaveWith, Write,
           Jump, oob, StreamInv
  <2>4. /\ AddressUnsent' /\ ClientResult' /\ ClientInBarrier' /\ ServerPassed'
        /\ ClientPassed'
    BY <1>3
       DEF ServerSendLength, config, endpoints, requests, LeaveWith, Write,
           Jump, oob
  <2> QED
    BY <2>1, <2>2, <2>3, <2>4
<1>4. CASE p = Server /\ ServerSendAddress
  <2>1. AddressTaken'
    BY <1>4
       DEF ServerSendAddress, config, endpoints, requests, LeaveWith, Write,
           Jump, oob, NoOp
  <2>2. ClientSynced'
    BY <1>4
       DEF ServerSendAddress, config, endpoints, requests, LeaveWith, Write,
           Jump, oob, StreamInv
  <2>3. ServerSynced'
    BY <1>4
       DEF ServerSendAddress, config, endpoints, requests, LeaveWith, Write,
           Jump, oob, StreamInv
  <2>4. /\ AddressUnsent' /\ ClientResult' /\ ClientInBarrier' /\ ServerPassed'
        /\ ClientPassed'
    BY <1>4
       DEF ServerSendAddress, config, endpoints, requests, LeaveWith, Write,
           Jump, oob
  <2> QED
    BY <2>1, <2>2, <2>3, <2>4
<1>5. CASE p = Server /\ BrokenPipe
  BY <1>5 DEF BrokenPipe, End, config, requests, Jump
<1>6. CASE p = Server /\ ServerProbe
  BY <1>6 DEF ServerProbe, config, endpoints, oob, Jump
<1>7. CASE p = Server /\ ServerRecv
  BY <1>7, NbxResult DEF ServerRecv, config, endpoints, oob, Jump, AfterRun
<1>8. CASE p = Server /\ ServerReceived
  <2>1. AddressTaken'
    BY <1>8, FreeResult
       DEF ServerReceived, config, endpoints, oob, Jump, AfterRun, NoOp
  <2>2. /\ AddressUnsent' /\ ClientResult' /\ ClientInBarrier' /\ ClientSynced'
        /\ ServerSynced' /\ ServerPassed' /\ ClientPassed'
    BY <1>8, FreeResult
       DEF ServerReceived, config, endpoints, oob, Jump, AfterRun
  <2> QED
    BY <2>1, <2>2
<1>9. CASE p = Server /\ ServerEpCreate
  <2>1. AddressTaken'
    BY <1>9 DEF ServerEpCreate, config, requests, oob, Jump, AfterRun, NoOp
  <2>2. ServerPassed'
    BY <1>9
       DEF ServerEpCreate, config, requests, oob, Jump, AfterRun, PeerErr,
           ResourceInv, ResourceOK, ClosedLabels
  <2>3. ClientPassed'
    BY <1>9
       DEF ServerEpCreate, config, requests, oob, Jump, AfterRun, PeerErr,
           ResourceInv, ResourceOK, ClosedLabels
  <2>4. /\ AddressUnsent' /\ ClientResult' /\ ClientInBarrier' /\ ClientSynced'
        /\ ServerSynced'
    BY <1>9 DEF ServerEpCreate, config, requests, oob, Jump, AfterRun
  <2> QED
    BY <2>1, <2>2, <2>3, <2>4
<1>10. CASE p = Server /\ ServerAlloc
  BY <1>10 DEF ServerAlloc, config, endpoints, requests, oob, Jump
<1>11. CASE p = Server /\ ServerSleep
  BY <1>11 DEF ServerSleep, config, endpoints, requests, oob, Jump
<1>12. CASE p = Server /\ ServerSend
  BY <1>12, SendResult DEF ServerSend, config, endpoints, oob, Jump
<1>13. CASE p = Server /\ ServerSent
  <2>1. AddressTaken'
    BY <1>13, FreeResult DEF ServerSent, config, endpoints, oob, Jump, NoOp
  <2>2. /\ AddressUnsent' /\ ClientResult' /\ ClientInBarrier' /\ ClientSynced'
        /\ ServerSynced' /\ ServerPassed' /\ ClientPassed'
    BY <1>13, FreeResult DEF ServerSent, config, endpoints, oob, Jump
  <2> QED
    BY <2>1, <2>2
<1>14. CASE p = Server /\ ServerFailureSeen
  BY <1>14 DEF ServerFailureSeen, config, endpoints, requests, oob, Jump
<1>15. CASE p = Server /\ ServerPeerDead
  BY <1>15 DEF ServerPeerDead, config, endpoints, requests, oob, Jump
<1>16. CASE p = Server /\ ServerFlush
  BY <1>16, NbxResult DEF ServerFlush, config, endpoints, oob, Jump
<1>17. CASE p = Server /\ ServerFlushed
  <2>1. AddressTaken'
    BY <1>17 DEF ServerFlushed, config, endpoints, oob, Jump, NoOp
  <2>2. /\ AddressUnsent' /\ ClientResult' /\ ClientInBarrier' /\ ClientSynced'
        /\ ServerSynced' /\ ServerPassed' /\ ClientPassed'
    BY <1>17 DEF ServerFlushed, config, endpoints, oob, Jump
  <2> QED
    BY <2>1, <2>2
<1>18. CASE p = Client /\ ClientConnect
  BY <1>18 DEF ClientConnect, config, endpoints, requests, LeaveWith, Jump, oob
<1>19. CASE p = Client /\ ClientRecvLength
  BY <1>19
     DEF ClientRecvLength, config, endpoints, requests, LeaveWith, Read, Jump,
         oob
<1>20. CASE p = Client /\ ClientRecvAddress
  BY <1>20
     DEF ClientRecvAddress, config, endpoints, requests, LeaveWith, Read,
         Jump, oob
<1>21. CASE p = Client /\ ClientEpCreate
  <2>1. AddressTaken'
    BY <1>21 DEF ClientEpCreate, config, requests, oob, Jump, AfterRun, NoOp
  <2>2. ServerPassed'
    BY <1>21
       DEF ClientEpCreate, config, requests, oob, Jump, AfterRun, ResourceInv,
           ResourceOK, ClosedLabels
  <2>3. ClientPassed'
    BY <1>21
       DEF ClientEpCreate, config, requests, oob, Jump, AfterRun, ResourceInv,
           ResourceOK, ClosedLabels
  <2>4. /\ AddressUnsent' /\ ClientResult' /\ ClientInBarrier' /\ ClientSynced'
        /\ ServerSynced'
    BY <1>21 DEF ClientEpCreate, config, requests, oob, Jump, AfterRun
  <2> QED
    BY <2>1, <2>2, <2>3, <2>4
<1>22. CASE p = Client /\ ClientSend
  BY <1>22, SendResult DEF ClientSend, config, endpoints, oob, Jump
<1>23. CASE p = Client /\ ClientSent
  BY <1>23, FreeResult DEF ClientSent, config, endpoints, oob, Jump
<1>24. CASE p = Client /\ ClientDisconnected
  BY <1>24 DEF ClientDisconnected, config, endpoints, requests, oob, Jump
<1>25. CASE p = Client /\ ClientProbe
  BY <1>25 DEF ClientProbe, config, endpoints, oob, Jump
<1>26. CASE p = Client /\ ClientRecv
  BY <1>26, NbxResult DEF ClientRecv, config, endpoints, oob, Jump
<1>27. CASE p = Client /\ ClientReceived
  BY <1>27, FreeResult DEF ClientReceived, config, endpoints, oob, Jump
<1>28. CASE EpClose(p)
  <2>1. AddressTaken'
    BY <1>28, NbxResult DEF EpClose, config, oob, Jump, NoOp
  <2>2. ServerPassed'
    BY <1>28, NbxResult
       DEF EpClose, config, oob, Jump, ResourceInv, ResourceOK, ClosedLabels
  <2>3. ClientPassed'
    BY <1>28, NbxResult
       DEF EpClose, config, oob, Jump, ResourceInv, ResourceOK, ClosedLabels
  <2>4. /\ AddressUnsent' /\ ClientResult' /\ ClientInBarrier' /\ ClientSynced'
        /\ ServerSynced'
    BY <1>28, NbxResult DEF EpClose, config, oob, Jump
  <2> QED
    BY <2>1, <2>2, <2>3, <2>4
<1>29. CASE EpClosed(p)
  <2>1. AddressTaken'
    BY <1>29 DEF EpClosed, config, oob, Jump, AfterRun, NoOp
  <2>2. ServerPassed'
    BY <1>29 DEF EpClosed, config, oob, Jump, AfterRun, PeerErr
  <2>3. ClientPassed'
    BY <1>29 DEF EpClosed, config, oob, Jump, AfterRun, PeerErr
  <2>4. /\ AddressUnsent' /\ ClientResult' /\ ClientInBarrier' /\ ClientSynced'
        /\ ServerSynced'
    BY <1>29 DEF EpClosed, config, oob, Jump, AfterRun
  <2> QED
    BY <2>1, <2>2, <2>3, <2>4
<1>30. CASE BarrierSend(p)
  <2>1. AddressTaken'
    BY <1>30
       DEF BarrierSend, config, endpoints, requests, oob, Write, Jump, NoOp
  <2>2. ClientSynced'
    BY <1>30
       DEF BarrierSend, config, endpoints, requests, oob, Write, Jump,
           StreamInv, ResourceInv, ResourceOK
  <2>3. ServerSynced'
    BY <1>30
       DEF BarrierSend, config, endpoints, requests, oob, Write, Jump,
           StreamInv, ResourceInv, ResourceOK
  <2>4. /\ AddressUnsent' /\ ClientResult' /\ ClientInBarrier' /\ ServerPassed'
        /\ ClientPassed'
    BY <1>30 DEF BarrierSend, config, endpoints, requests, oob, Write, Jump
  <2> QED
    BY <2>1, <2>2, <2>3, <2>4
<1>31. CASE BarrierRecv(p)
  <2>1. AddressTaken'
    BY <1>31
       DEF BarrierRecv, config, endpoints, requests, oob, Read, Jump, NoOp
  <2>2. ServerPassed'
    BY <1>31
       DEF BarrierRecv, config, endpoints, requests, oob, Read, Jump,
           StreamInv, Readable
  <2>3. ClientPassed'
    BY <1>31
       DEF BarrierRecv, config, endpoints, requests, oob, Read, Jump,
           StreamInv, Readable
  <2>4. /\ AddressUnsent' /\ ClientResult' /\ ClientInBarrier' /\ ClientSynced'
        /\ ServerSynced'
    BY <1>31 DEF BarrierRecv, config, endpoints, requests, oob, Read, Jump
  <2> QED
    BY <2>1, <2>2, <2>3, <2>4
<1>32. CASE CloseOob(p)
  BY <1>32 DEF CloseOob, config, endpoints, requests, Jump
<1>33. CASE DestroyAndExit(p)
  BY <1>33 DEF DestroyAndExit, End, config, requests, Jump
<1>34. CASE Raise(p)
  BY <1>34 DEF Raise, End, config, requests, Jump
<1>35. CASE Deliver(p)
  BY <1>35 DEF Deliver, config, endpoints, oob
<1>36. CASE Complete(p)
  <2>1. AddressTaken'
    <3>1. op'[Server].kind = op[Server].kind /\ pc' = pc
      <4>1. PICK s \in {"OK", "ERR"} : op' = [op EXCEPT ![p] = [op[p] EXCEPT !.st = s]]
        BY <1>36 DEF Complete
      <4> QED
        BY <1>36, <4>1, NewStatus DEF Complete
    <3>2. sent[Client] # "none" => sent'[Client] # "none"
      BY <1>36 DEF Complete
    <3> QED
      BY <3>1, <3>2
  <2>2. /\ AddressUnsent' /\ ClientResult' /\ ClientInBarrier' /\ ClientSynced'
        /\ ServerSynced' /\ ServerPassed' /\ ClientPassed'
    BY <1>36 DEF Complete, config, endpoints, oob
  <2> QED
    BY <2>1, <2>2
<1>37. CASE FailureHandler(p)
  BY <1>37 DEF FailureHandler, config, requests, oob
<1>38. CASE Crash(p)
  BY <1>38 DEF Crash, End, config, requests, Jump
<1>39. CASE Lose(p)
  BY <1>39 DEF Lose, config, endpoints, oob
<1> HIDE DEF TypeOK, BarrierInv, AddressTaken, AddressUnsent, ClientResult, ClientInBarrier,
          ClientSynced, ServerSynced, ServerPassed, ClientPassed
<1> QED
  BY <1>1, <1>2, <1>3, <1>4, <1>5, <1>6, <1>7, <1>8, <1>9, <1>10, <1>11,
     <1>12, <1>13, <1>14, <1>15, <1>16, <1>17, <1>18, <1>19, <1>20, <1>21,
     <1>22, <1>23, <1>24, <1>25, <1>26, <1>27, <1>28, <1>29, <1>30, <1>31,
     <1>32, <1>33, <1>34, <1>35, <1>36, <1>37, <1>38, <1>39
     DEF Step, ServerStep, ClientStep, RunServer, RunUcxClient, Main,
         Progress

(* Every step preserves the layer.                                         *)
LEMMA BarrierStep ==
  TypeOK /\ RequestInv /\ ResourceInv /\ StreamInv /\ BarrierInv /\ [Next]_vars
    => BarrierInv'
<1> SUFFICES ASSUME TypeOK, RequestInv, ResourceInv, StreamInv, BarrierInv,
                    [Next]_vars
             PROVE  BarrierInv'
  OBVIOUS
<1>1. ASSUME NEW p \in Proc, Step(p) PROVE BarrierInv'
  BY <1>1, BarrierOwn
<1>2. CASE LinkDown \/ UNCHANGED vars
  BY <1>2 DEF BarrierInv, LinkDown, config, requests, oob, vars,
     AddressUnsent, AddressTaken, ClientResult, ClientInBarrier, ClientSynced,
     ServerSynced, ServerPassed, ClientPassed, PastBarrierSend,
     Connecting, Running, Leaving, Succeeded
<1> QED
  BY <1>1, <1>2, NextSteps

(* The message layer: a received message was sent, matched and delivered.  *)
LEMMA MessageOwn ==
  ASSUME TypeOK, RequestInv, MessageInv, NEW p \in Proc, Step(p)
  PROVE  MessageInv'
<1> USE TwoPrograms DEF TypeOK, MessageInv, Connecting
<1>1. CASE p = Server /\ ServerListen
  BY <1>1 DEF ServerListen, config, endpoints, requests, LeaveWith, Jump, oob
<1>2. CASE p = Server /\ ServerAccept
  BY <1>2 DEF ServerAccept, config, endpoints, requests, Jump
<1>3. CASE p = Server /\ ServerSendLength
  BY <1>3
     DEF ServerSendLength, config, endpoints, requests, LeaveWith, Write,
         Jump, oob
<1>4. CASE p = Server /\ ServerSendAddress
  BY <1>4
     DEF ServerSendAddress, config, endpoints, requests, LeaveWith, Write,
         Jump, oob
<1>5. CASE p = Server /\ BrokenPipe
  BY <1>5 DEF BrokenPipe, End, config, requests, Jump
<1>6. CASE p = Server /\ ServerProbe
  BY <1>6 DEF ServerProbe, config, endpoints, oob, Jump
<1>7. CASE p = Server /\ ServerRecv
  BY <1>7, NbxResult DEF ServerRecv, config, endpoints, oob, Jump, AfterRun
<1>8. CASE p = Server /\ ServerReceived
  BY <1>8, FreeResult
     DEF ServerReceived, config, endpoints, oob, Jump, AfterRun
<1>9. CASE p = Server /\ ServerEpCreate
  BY <1>9 DEF ServerEpCreate, config, requests, oob, Jump, AfterRun
<1>10. CASE p = Server /\ ServerAlloc
  BY <1>10 DEF ServerAlloc, config, endpoints, requests, oob, Jump
<1>11. CASE p = Server /\ ServerSleep
  BY <1>11 DEF ServerSleep, config, endpoints, requests, oob, Jump
<1>12. CASE p = Server /\ ServerSend
  BY <1>12, SendResult DEF ServerSend, config, endpoints, oob, Jump
<1>13. CASE p = Server /\ ServerSent
  BY <1>13, FreeResult DEF ServerSent, config, endpoints, oob, Jump
<1>14. CASE p = Server /\ ServerFailureSeen
  BY <1>14 DEF ServerFailureSeen, config, endpoints, requests, oob, Jump
<1>15. CASE p = Server /\ ServerPeerDead
  BY <1>15 DEF ServerPeerDead, config, endpoints, requests, oob, Jump
<1>16. CASE p = Server /\ ServerFlush
  BY <1>16, NbxResult DEF ServerFlush, config, endpoints, oob, Jump
<1>17. CASE p = Server /\ ServerFlushed
  BY <1>17 DEF ServerFlushed, config, endpoints, oob, Jump
<1>18. CASE p = Client /\ ClientConnect
  BY <1>18 DEF ClientConnect, config, endpoints, requests, LeaveWith, Jump, oob
<1>19. CASE p = Client /\ ClientRecvLength
  BY <1>19
     DEF ClientRecvLength, config, endpoints, requests, LeaveWith, Read, Jump,
         oob
<1>20. CASE p = Client /\ ClientRecvAddress
  BY <1>20
     DEF ClientRecvAddress, config, endpoints, requests, LeaveWith, Read,
         Jump, oob
<1>21. CASE p = Client /\ ClientEpCreate
  BY <1>21 DEF ClientEpCreate, config, requests, oob, Jump, AfterRun
<1>22. CASE p = Client /\ ClientSend
  BY <1>22, SendResult DEF ClientSend, config, endpoints, oob, Jump
<1>23. CASE p = Client /\ ClientSent
  BY <1>23, FreeResult DEF ClientSent, config, endpoints, oob, Jump, NoOp
<1>24. CASE p = Client /\ ClientDisconnected
  BY <1>24 DEF ClientDisconnected, config, endpoints, requests, oob, Jump
<1>25. CASE p = Client /\ ClientProbe
  BY <1>25 DEF ClientProbe, config, endpoints, oob, Jump
<1>26. CASE p = Client /\ ClientRecv
  BY <1>26, NbxResult DEF ClientRecv, config, endpoints, oob, Jump
<1>27. CASE p = Client /\ ClientReceived
  BY <1>27, FreeResult
     DEF ClientReceived, config, endpoints, oob, Jump, NoOp, WaitReturns,
         RequestInv, RequestOK, WaitLabel
<1>28. CASE EpClose(p)
  BY <1>28, NbxResult DEF EpClose, config, oob, Jump
<1>29. CASE EpClosed(p)
  BY <1>29 DEF EpClosed, config, oob, Jump, AfterRun, NoOp
<1>30. CASE BarrierSend(p)
  BY <1>30 DEF BarrierSend, config, endpoints, requests, oob, Write, Jump
<1>31. CASE BarrierRecv(p)
  BY <1>31 DEF BarrierRecv, config, endpoints, requests, oob, Read, Jump
<1>32. CASE CloseOob(p)
  BY <1>32 DEF CloseOob, config, endpoints, requests, Jump
<1>33. CASE DestroyAndExit(p)
  BY <1>33 DEF DestroyAndExit, End, config, requests, Jump
<1>34. CASE Raise(p)
  BY <1>34 DEF Raise, End, config, requests, Jump
<1>35. CASE Deliver(p)
  BY <1>35 DEF Deliver, config, endpoints, oob
<1>36. CASE Complete(p)
  <2>1. CASE /\ op' = [op EXCEPT ![p] = [op[p] EXCEPT !.st = "OK"]]
             /\ op[p].kind = "recv" => sent' = [sent EXCEPT ![Peer(p)] = "delivered"]
             /\ op[p].kind # "recv" => sent' = sent
    <3>1. op'[p].kind = op[p].kind
      BY <2>1, NewStatus
    <3> QED
      BY <1>36, <2>1, <3>1 DEF Complete
  <2>2. CASE op' = [op EXCEPT ![p] = [op[p] EXCEPT !.st = "ERR"]] /\ sent' = sent
    <3>1. op'[p].st = "ERR"
      BY <2>2, NewStatus
    <3> QED
      BY <1>36, <2>2, <3>1 DEF Complete
  <2> QED
    BY <1>36, <2>1, <2>2 DEF Complete
<1>37. CASE FailureHandler(p)
  BY <1>37 DEF FailureHandler, config, requests, oob
<1>38. CASE Crash(p)
  BY <1>38 DEF Crash, End, config, requests, Jump
<1>39. CASE Lose(p)
  BY <1>39 DEF Lose, config, endpoints, oob
<1> QED
  BY <1>1, <1>2, <1>3, <1>4, <1>5, <1>6, <1>7, <1>8, <1>9, <1>10, <1>11,
     <1>12, <1>13, <1>14, <1>15, <1>16, <1>17, <1>18, <1>19, <1>20, <1>21,
     <1>22, <1>23, <1>24, <1>25, <1>26, <1>27, <1>28, <1>29, <1>30, <1>31,
     <1>32, <1>33, <1>34, <1>35, <1>36, <1>37, <1>38, <1>39
     DEF Step, ServerStep, ClientStep, RunServer, RunUcxClient, Main,
         Progress

(* Every step preserves the layer.                                         *)
LEMMA MessageStep ==
  TypeOK /\ RequestInv /\ MessageInv /\ [Next]_vars => MessageInv'
<1> SUFFICES ASSUME TypeOK, RequestInv, MessageInv, [Next]_vars
             PROVE  MessageInv'
  OBVIOUS
<1>1. ASSUME NEW p \in Proc, Step(p) PROVE MessageInv'
  BY <1>1, MessageOwn
<1>2. CASE LinkDown \/ UNCHANGED vars
  BY <1>2 DEF MessageInv, LinkDown, config, requests, oob, vars
<1> QED
  BY <1>1, <1>2, NextSteps

(* Initially nobody is in the barrier.                                     *)
LEMMA BarrierInit == Init => BarrierInv
  BY TwoPrograms
     DEF Init, BarrierInv, AddressUnsent, AddressTaken, ClientResult,
         ClientInBarrier, ClientSynced, ServerSynced, ServerPassed,
         ClientPassed,
         NoOp, Connecting, Running, Leaving, Succeeded

(* Initially nothing is sent or printed.                                   *)
LEMMA MessageInit == Init => MessageInv
  BY TwoPrograms DEF Init, MessageInv, NoOp

(* What the run, between the exchange of addresses and the barrier, and    *)
(* the progress of UCX do to the part of the state that the last two layers*)
(* speak of: nothing, or they move p within the run or out of it.          *)
RunStep(p) ==
  \/ p = Server /\ RunServer
  \/ p = Client /\ RunUcxClient
  \/ EpClose(p) \/ EpClosed(p) \/ Progress(p) \/ Lose(p)

Stays(p) == pc'[p] = pc[p] /\ ret'[p] = ret[p]

Moves(p) ==
  /\ pc[p] \in Running
  /\ \/ pc'[p] \in Running
     \/ pc'[p] = "barrier" /\ mode[p] = "NONE"
     \/ pc'[p] = "close_oob" /\ (ret'[p] # 0 \/ mode[p] # "NONE")

(* The message of the client is sent by ClientSend and by nothing else.    *)
KeepsSent(p) ==
  (sent'[Client] = "none" <=> sent[Client] = "none") \/ (p = Client /\ pc[Client] = "send")

(* Only ClientReceived prints.                                             *)
KeepsPrinted(p) ==
  \/ printed' = printed
  \/ p = Client /\ printed' /\ pc[Client] = "wait_recv" /\ pc'[Client] = "close"

RunSummary(p) ==
  /\ mode' = mode /\ sock' = sock /\ oobSent' = oobSent /\ oobRead' = oobRead
  /\ Stays(p) \/ Moves(p)
  /\ KeepsSent(p) /\ KeepsPrinted(p)

LEMMA RunStepSummary ==
  ASSUME TypeOK, AddressTaken, NEW p \in Proc, RunStep(p)
  PROVE  RunSummary(p)
<1> USE TwoPrograms
    DEF TypeOK, RunSummary, Stays, Moves, Running, KeepsSent, KeepsPrinted, AfterRun, PeerErr,
        config, oob, Jump
<1>1. CASE p = Server /\ ServerProbe
  BY <1>1 DEF ServerProbe
<1>2. CASE p = Server /\ ServerRecv
  BY <1>2 DEF ServerRecv
<1>3. CASE p = Server /\ ServerReceived
  BY <1>3 DEF ServerReceived
<1>4. CASE p = Server /\ ServerEpCreate
  BY <1>4 DEF ServerEpCreate, requests
<1>5. CASE p = Server /\ ServerAlloc
  BY <1>5 DEF ServerAlloc, endpoints, requests
<1>6. CASE p = Server /\ ServerSleep
  BY <1>6 DEF ServerSleep, endpoints, requests
<1>7. CASE p = Server /\ ServerSend
  BY <1>7, SendResult DEF ServerSend
<1>8. CASE p = Server /\ ServerSent
  BY <1>8 DEF ServerSent
<1>9. CASE p = Server /\ ServerFailureSeen
  BY <1>9 DEF ServerFailureSeen, endpoints, requests
<1>10. CASE p = Server /\ ServerPeerDead
  BY <1>10 DEF ServerPeerDead, endpoints, requests
<1>11. CASE p = Server /\ ServerFlush
  BY <1>11 DEF ServerFlush
<1>12. CASE p = Server /\ ServerFlushed
  BY <1>12 DEF ServerFlushed
<1>13. CASE p = Client /\ ClientEpCreate
  BY <1>13 DEF ClientEpCreate, requests
<1>14. CASE p = Client /\ ClientSend
  BY <1>14 DEF ClientSend
<1>15. CASE p = Client /\ ClientSent
  BY <1>15 DEF ClientSent
<1>16. CASE p = Client /\ ClientDisconnected
  BY <1>16 DEF ClientDisconnected, endpoints, requests
<1>17. CASE p = Client /\ ClientProbe
  BY <1>17 DEF ClientProbe
<1>18. CASE p = Client /\ ClientRecv
  BY <1>18 DEF ClientRecv
<1>19. CASE p = Client /\ ClientReceived
  BY <1>19 DEF ClientReceived
<1>20. CASE EpClose(p)
  BY <1>20 DEF EpClose
<1>21. CASE EpClosed(p)
  BY <1>21 DEF EpClosed
<1>22. CASE Deliver(p)
  BY <1>22 DEF Deliver
<1>23. CASE Complete(p)
  BY <1>23 DEF Complete, AddressTaken
<1>24. CASE FailureHandler(p)
  BY <1>24 DEF FailureHandler, requests
<1>25. CASE Lose(p)
  BY <1>25 DEF Lose
<1> QED
  BY <1>1, <1>2, <1>3, <1>4, <1>5, <1>6, <1>7, <1>8, <1>9, <1>10, <1>11, <1>12, <1>13, <1>14, <1>15, <1>16, <1>17, <1>18, <1>19, <1>20, <1>21, <1>22, <1>23, <1>24, <1>25
     DEF RunStep, RunServer, RunUcxClient, Progress

(* The socket layer.                                                       *)
LEMMA SocketOwn ==
  ASSUME TypeOK, AddressTaken, SocketInv, NEW p \in Proc, Step(p)
  PROVE  SocketOK(p)'
<1> USE TwoPrograms DEF TypeOK, SocketInv, SocketOK, Connecting, Running, Jump, config, endpoints,
        requests, oob
<1>1. CASE RunStep(p)
  BY <1>1, RunStepSummary DEF RunSummary, Stays, Moves
<1>2. CASE p = Server /\ ServerListen
  BY <1>2 DEF ServerListen, LeaveWith
<1>3. CASE p = Server /\ ServerAccept
  BY <1>3 DEF ServerAccept
<1>4. CASE p = Server /\ ServerSendLength
  BY <1>4 DEF ServerSendLength, LeaveWith, Write
<1>5. CASE p = Server /\ ServerSendAddress
  BY <1>5 DEF ServerSendAddress, LeaveWith, Write
<1>6. CASE p = Server /\ BrokenPipe
  BY <1>6 DEF BrokenPipe, End
<1>7. CASE p = Client /\ ClientConnect
  BY <1>7 DEF ClientConnect, LeaveWith
<1>8. CASE p = Client /\ ClientRecvLength
  BY <1>8 DEF ClientRecvLength, LeaveWith, Read
<1>9. CASE p = Client /\ ClientRecvAddress
  BY <1>9 DEF ClientRecvAddress, LeaveWith, Read
<1>10. CASE BarrierSend(p)
  BY <1>10 DEF BarrierSend, Write
<1>11. CASE BarrierRecv(p)
  BY <1>11 DEF BarrierRecv, Read
<1>12. CASE CloseOob(p)
  BY <1>12 DEF CloseOob
<1>13. CASE DestroyAndExit(p)
  BY <1>13 DEF DestroyAndExit, End
<1>14. CASE Raise(p)
  BY <1>14 DEF Raise, End
<1>15. CASE Crash(p)
  BY <1>15 DEF Crash, End
<1> QED
  BY <1>1, <1>2, <1>3, <1>4, <1>5, <1>6, <1>7, <1>8, <1>9, <1>10, <1>11, <1>12, <1>13, <1>14, <1>15
     DEF Step, RunStep, ServerStep, ClientStep, Main, RunServer, RunUcxClient, Progress

(* Every step preserves the layer.                                         *)
LEMMA SocketStep ==
  TypeOK /\ BarrierInv /\ SocketInv /\ [Next]_vars => SocketInv'
<1> SUFFICES ASSUME TypeOK, BarrierInv, SocketInv, [Next]_vars, NEW q \in Proc
             PROVE  SocketOK(q)'
  BY DEF SocketInv
<1>1. SocketOK(q) /\ AddressTaken
  BY DEF SocketInv, BarrierInv
<1>2. CASE Untouched(q)
  BY <1>1, <1>2 DEF Untouched, SocketOK
<1>3. ASSUME NEW p \in Proc, Step(p) PROVE SocketOK(q)'
  BY <1>1, <1>2, <1>3, Frame, SocketOwn
<1>4. CASE LinkDown \/ UNCHANGED vars
  BY <1>2, <1>4 DEF Untouched, LinkDown, config, requests, oob, vars
<1> QED
  BY <1>3, <1>4, NextSteps

(* Initially no program has a socket.                                      *)
LEMMA SocketInit == Init => SocketInv
  BY DEF Init, SocketInv, SocketOK, Connecting, Running

(* The agreement layer.  First, success is not gained from outside: the    *)
(* server that reports it knows that the client's message was sent.        *)
LEMMA SuccessStable ==
  ASSUME TypeOK, ResourceInv, BarrierInv, NEW p \in Proc, NEW q \in Proc,
         KeepsSent(p), mode' = mode, Stays(q)
  PROVE  Succeeded(q)' <=> Succeeded(q)
<1> USE TwoPrograms DEF TypeOK, Succeeded, Leaving, KeepsSent, Stays
<1>1. CASE q = Client
  BY <1>1
<1>2. CASE q = Server /\ pc[Client] # "send"
  BY <1>2
<1>3. CASE q = Server /\ pc[Client] = "send"
  <2>1. ep[Client] # "closed"
    BY <1>3 DEF ResourceInv, ResourceOK, ClosedLabels
  <2> QED
    BY <1>3, <2>1 DEF BarrierInv, ServerPassed
<1> QED
  BY <1>1, <1>2, <1>3

(* Outside the run a step keeps the messages, the options and what the     *)
(* client has printed.                                                     *)
OutsideRun(p) ==
  \/ p = Server /\ (ServerListen \/ ServerAccept \/ ServerSendLength \/ ServerSendAddress \/ BrokenPipe)
  \/ p = Client /\ (ClientConnect \/ ClientRecvLength \/ ClientRecvAddress)
  \/ BarrierSend(p) \/ BarrierRecv(p) \/ CloseOob(p) \/ DestroyAndExit(p) \/ Raise(p) \/ Crash(p)

LEMMA OutsideSummary ==
  ASSUME NEW p \in Proc, OutsideRun(p)
  PROVE  mode' = mode /\ sent' = sent /\ printed' = printed
BY DEF OutsideRun, ServerListen, ServerAccept, ServerSendLength, ServerSendAddress, BrokenPipe,
       ClientConnect, ClientRecvLength, ClientRecvAddress, BarrierSend, BarrierRecv, CloseOob,
       DestroyAndExit, Raise, Crash, End, config, requests

LEMMA StepKinds ==
  ASSUME NEW p \in Proc, Step(p)
  PROVE  RunStep(p) \/ OutsideRun(p)
BY DEF Step, RunStep, OutsideRun, ServerStep, ClientStep, Main

LEMMA StepKeeps ==
  ASSUME TypeOK, BarrierInv, NEW p \in Proc, Step(p)
  PROVE  mode' = mode /\ KeepsSent(p) /\ KeepsPrinted(p)
<1>1. CASE RunStep(p)
  BY <1>1, RunStepSummary DEF BarrierInv, RunSummary
<1>2. CASE OutsideRun(p)
  BY <1>2, OutsideSummary DEF KeepsSent, KeepsPrinted
<1> QED
  BY <1>1, <1>2, StepKinds

(* Who agrees, does so by writing to the socket in the barrier.            *)
LEMMA OobWrites ==
  ASSUME TypeOK, AddressTaken, StreamInv, NEW p \in Proc, Step(p)
  PROVE  \/ oobSent'[p] = oobSent[p] \/ ~Agreed(p)'
         \/ oobSent'[p] = oobSent[p] + 1 /\ pc[p] = "barrier" /\ pc'[p] = "poll"
<1> USE TwoPrograms DEF TypeOK, Jump, oob, Agreed
<1>1. CASE RunStep(p)
  BY <1>1, RunStepSummary DEF RunSummary
<1>2. CASE p = Server /\ (ServerListen \/ ServerAccept \/ BrokenPipe)
  BY <1>2 DEF ServerListen, LeaveWith, ServerAccept, BrokenPipe, End
<1>3. CASE p = Server /\ (ServerSendLength \/ ServerSendAddress)
  BY <1>3 DEF ServerSendLength, ServerSendAddress, LeaveWith, Write, StreamInv
<1>4. CASE p = Client /\ (ClientConnect \/ ClientRecvLength \/ ClientRecvAddress)
  BY <1>4 DEF ClientConnect, ClientRecvLength, ClientRecvAddress, LeaveWith, Read
<1>5. CASE BarrierSend(p)
  BY <1>5 DEF BarrierSend, Write
<1>6. CASE BarrierRecv(p) \/ CloseOob(p) \/ DestroyAndExit(p) \/ Raise(p) \/ Crash(p)
  BY <1>6 DEF BarrierRecv, Read, CloseOob, DestroyAndExit, Raise, Crash, End
<1> QED
  BY <1>1, <1>2, <1>3, <1>4, <1>5, <1>6, StepKinds DEF OutsideRun

(* It is never taken back.                                                 *)
LEMMA AgreedStays ==
  ASSUME TypeOK, AddressTaken, StreamInv, NEW p \in Proc, Step(p), Agreed(p)
  PROVE  Agreed(p)'
<1>1. pc[p] \notin {"start", "send_len", "send_addr"}
  BY TwoPrograms DEF Agreed, StreamInv, Connecting
<1> USE TwoPrograms DEF TypeOK, oob, Agreed
<1>2. CASE RunStep(p)
  BY <1>2, RunStepSummary DEF RunSummary
<1>3. CASE OutsideRun(p)
  BY <1>1, <1>3
     DEF OutsideRun, ServerListen, ServerAccept, ServerSendLength, ServerSendAddress, BrokenPipe,
         ClientConnect, ClientRecvLength, ClientRecvAddress, BarrierSend, BarrierRecv, CloseOob,
         DestroyAndExit, Raise, Crash, End, LeaveWith, Write, Read
<1> QED
  BY <1>2, <1>3, StepKinds

(* A closed socket stays closed.                                           *)
LEMMA ClosedStays ==
  ASSUME TypeOK, AddressTaken, SocketInv, NEW p \in Proc, Step(p), sock[p] = "closed"
  PROVE  sock'[p] = "closed"
<1>1. pc[p] \notin {"start", "accept"}
  BY DEF SocketInv, SocketOK
<1> USE TwoPrograms DEF TypeOK, oob
<1>2. CASE RunStep(p)
  BY <1>2, RunStepSummary DEF RunSummary
<1>3. CASE OutsideRun(p)
  BY <1>1, <1>3
     DEF OutsideRun, ServerListen, ServerAccept, ServerSendLength, ServerSendAddress, BrokenPipe,
         ClientConnect, ClientRecvLength, ClientRecvAddress, BarrierSend, BarrierRecv, CloseOob,
         DestroyAndExit, Raise, Crash, End, LeaveWith, Write, Read
<1> QED
  BY <1>2, <1>3, StepKinds

(* The program that takes the step.                                        *)
LEMMA AgreementOwn ==
  ASSUME TypeOK, ResourceInv, StreamInv, BarrierInv, SocketInv, AgreementInv,
         NEW p \in Proc, Step(p)
  PROVE  AgreedOK(p)'
<1>0. /\ AgreedOK(p) /\ AddressTaken /\ AddressUnsent
      /\ Peer(p) \in Proc /\ Peer(p) # p /\ Untouched(Peer(p))
  BY TwoPrograms, Frame DEF AgreementInv, BarrierInv
<1> USE TwoPrograms DEF TypeOK, AgreedOK, Jump, config, oob
<1>1. CASE RunStep(p)
  <2>1. /\ mode' = mode /\ sock' = sock /\ oobSent' = oobSent /\ KeepsSent(p)
        /\ Stays(p) \/ Moves(p)
    BY <1>0, <1>1, RunStepSummary DEF RunSummary
  <2>2. \A r \in Proc : Agreed(r)' <=> Agreed(r)
    BY <2>1 DEF Agreed
  <2>3. CASE Stays(p)
    <3>1. Succeeded(p)' <=> Succeeded(p)
      BY <2>1, <2>3, SuccessStable
    <3>2. /\ Leaving(p)' <=> Leaving(p)
          /\ PastBarrierSend(p)' <=> PastBarrierSend(p)
      BY <2>3 DEF Stays, Leaving, PastBarrierSend
    <3> QED
      BY <1>0, <2>1, <2>2, <2>3, <3>1, <3>2 DEF Stays
  <2>4. CASE Moves(p)
    <3>1. ~Agreed(p) /\ ~Agreed(p)'
      BY <1>0, <2>2, <2>4 DEF Moves, Running, PastBarrierSend
    <3>2. ~Succeeded(p)' /\ pc'[p] # "poll" /\ (pc'[p] = "barrier" => mode'[p] = "NONE")
      BY <2>1, <2>4 DEF Moves, Running, Succeeded, Leaving
    <3> QED
      BY <3>1, <3>2
  <2> QED
    BY <2>1, <2>3, <2>4
<1>2. CASE pc[p] \in Connecting /\ OutsideRun(p) /\ ~Crash(p)
  <2>1. ~Agreed(p)
    BY <1>0, <1>2 DEF Connecting, PastBarrierSend
  <2>2. ~Agreed(p)'
    BY <1>0, <1>2, <2>1, OobWrites DEF Connecting, Agreed
  <2>3. mode' = mode /\ sent' = sent
    BY <1>2, OutsideSummary
  <2>4. /\ pc'[p] \notin {"barrier", "poll"}
        /\ Leaving(p)' => ret'[p] # 0 \/ (p = Client /\ sent[Client] = "none")
    BY <1>0, <1>2, AddrLenAssumption
       DEF OutsideRun, Connecting, AddressUnsent, Leaving, ServerListen, ServerAccept,
           ServerSendLength, ServerSendAddress, BrokenPipe, ClientConnect, ClientRecvLength,
           ClientRecvAddress, BarrierSend, BarrierRecv, CloseOob, DestroyAndExit, Raise, End,
           LeaveWith, LenBytes
  <2>5. ~Succeeded(p)'
    BY <2>3, <2>4 DEF Succeeded, Leaving
  <2> QED
    BY <2>2, <2>4, <2>5
<1>3. CASE BarrierSend(p)
  <2>1. ~Agreed(p) /\ mode[p] = "NONE" /\ mode' = mode
    BY <1>0, <1>3 DEF BarrierSend, PastBarrierSend
  <2>2. CASE pc'[p] = "close_oob" /\ ret'[p] = -1 /\ oobSent' = oobSent
    BY <2>1, <2>2 DEF Agreed, Succeeded, Leaving
  <2>3. CASE pc'[p] = "poll" /\ oobSent'[p] = oobSent[p] + 1
    <3>1. Agreed(p)'
      BY <1>3, <2>3 DEF BarrierSend, StreamInv, Agreed
    <3> QED
      BY <2>1, <2>3, <3>1 DEF Succeeded, Leaving, PastBarrierSend
  <2> QED
    BY <1>3, <2>2, <2>3 DEF BarrierSend, Write
<1>4. CASE BarrierRecv(p)
  <2>1. Agreed(p) /\ mode[p] = "NONE" /\ mode' = mode /\ sock' = sock /\ pc'[p] = "close_oob"
    BY <1>0, <1>4 DEF BarrierRecv, Read
  <2>2. \A r \in Proc : Agreed(r)' <=> Agreed(r)
    BY <1>4 DEF BarrierRecv, Read, Agreed
  <2>3. CASE Readable(p) /\ ret'[p] = 0
    <3>1. Agreed(Peer(p))
      BY <1>4, <2>3 DEF BarrierRecv, Readable, StreamInv, Agreed
    <3> QED
      BY <1>0, <2>1, <2>2, <2>3, <3>1 DEF PastBarrierSend, Leaving
  <2>4. CASE (Eof(p) \/ "socket" \in Faults) /\ ret'[p] = 1
    <3>1. "socket" \in Faults \/ (~Agreed(Peer(p)) /\ sock[Peer(p)] = "closed")
      BY <1>4, <2>4 DEF BarrierRecv, Eof, Readable, StreamInv, Agreed
    <3> QED
      BY <1>0, <2>1, <2>2, <2>4, <3>1 DEF PastBarrierSend, Leaving, Succeeded
  <2> QED
    BY <1>4, <2>3, <2>4 DEF BarrierRecv, Read
<1>5. CASE CloseOob(p) \/ DestroyAndExit(p) \/ Raise(p) \/ Crash(p)
  <2>1. /\ mode' = mode /\ sent' = sent /\ ret' = ret /\ oobSent' = oobSent
        /\ sock'[Peer(p)] = sock[Peer(p)]
    BY <1>0, <1>5
       DEF CloseOob, DestroyAndExit, Raise, Crash, End, endpoints, requests, Untouched
  <2>2. \A r \in Proc : Agreed(r)' <=> Agreed(r)
    BY <2>1 DEF Agreed
  <2>3. \/ pc'[p] = "killed"
        \/ pc[p] \in {"close_oob", "destroy"} /\ pc'[p] \in {"destroy", "exited"}
    BY <1>5 DEF CloseOob, DestroyAndExit, Raise, Crash, End
  <2>4. (Succeeded(p)' => Succeeded(p)) /\ (Leaving(p)' => Leaving(p)) /\ PastBarrierSend(p)'
    BY <2>1, <2>3 DEF Succeeded, Leaving, PastBarrierSend
  <2> QED
    BY <1>0, <2>1, <2>2, <2>3, <2>4
<1>6. OutsideRun(p) =>
        \/ pc[p] \in Connecting \/ BarrierSend(p) \/ BarrierRecv(p)
        \/ CloseOob(p) \/ DestroyAndExit(p) \/ Raise(p) \/ Crash(p)
  BY DEF OutsideRun, Connecting, ServerListen, ServerAccept, ServerSendLength,
         ServerSendAddress, BrokenPipe, ClientConnect, ClientRecvLength, ClientRecvAddress
<1> QED
  BY <1>1, <1>2, <1>3, <1>4, <1>5, <1>6, StepKinds

(* Its peer.                                                               *)
LEMMA AgreementPeer ==
  ASSUME TypeOK, ResourceInv, StreamInv, BarrierInv, SocketInv, AgreementInv,
         NEW p \in Proc, Step(p)
  PROVE  AgreedOK(Peer(p))'
<1> DEFINE q == Peer(p)
<1>0. /\ AgreedOK(q) /\ AddressTaken /\ q \in Proc /\ q # p /\ Untouched(q) /\ Peer(q) = p
      /\ mode' = mode /\ KeepsSent(p)
  BY TwoPrograms, Frame, StepKeeps DEF AgreementInv, BarrierInv
<1> HIDE DEF q
<1>1. Succeeded(q)' <=> Succeeded(q)
  BY <1>0, SuccessStable DEF Untouched, Stays
<1>2. /\ Leaving(q)' <=> Leaving(q)
      /\ PastBarrierSend(q)' <=> PastBarrierSend(q)
      /\ Agreed(q)' <=> Agreed(q)
  BY <1>0 DEF Untouched, Leaving, PastBarrierSend, Agreed
<1>3. Agreed(p) => Agreed(p)'
  BY <1>0, AgreedStays
<1>4. ~Agreed(p) /\ sock[p] = "closed" => ~Agreed(p)' /\ sock'[p] = "closed"
  <2> SUFFICES ASSUME ~Agreed(p), sock[p] = "closed"
               PROVE  ~Agreed(p)' /\ sock'[p] = "closed"
    OBVIOUS
  <2>1. pc[p] # "barrier"
    BY DEF SocketInv, SocketOK
  <2> QED
    BY <1>0, <2>1, OobWrites, ClosedStays DEF Agreed
<1>5. AgreedOK(q)'
  BY <1>0, <1>1, <1>2, <1>3, <1>4 DEF AgreedOK, Untouched
<1> QED
  BY <1>5 DEF q

(* Every step preserves the layer.                                         *)
LEMMA AgreementStep ==
  TypeOK /\ ResourceInv /\ StreamInv /\ BarrierInv /\ SocketInv /\ AgreementInv /\ [Next]_vars
    => AgreementInv'
<1> SUFFICES ASSUME TypeOK, ResourceInv, StreamInv, BarrierInv, SocketInv, AgreementInv,
                    [Next]_vars
             PROVE  AgreementInv'
  OBVIOUS
<1>1. ASSUME NEW p \in Proc, Step(p) PROVE AgreementInv'
  BY <1>1, TwoPrograms, AgreementOwn, AgreementPeer DEF AgreementInv
<1>2. CASE LinkDown \/ UNCHANGED vars
  BY <1>2 DEF AgreementInv, AgreedOK, Agreed, PastBarrierSend, Leaving, Succeeded,
     LinkDown, config, requests, oob, vars
<1> QED
  BY <1>1, <1>2, NextSteps

(* Initially nobody has agreed.                                            *)
LEMMA AgreementInit == Init => AgreementInv
  BY TwoPrograms DEF Init, AgreementInv, AgreedOK, Agreed, Leaving, Succeeded

(* The failure layer.  First, a peer that UCX may report as unreachable    *)
(* remains so: workers and the transport do not come back, a closed        *)
(* endpoint stays closed, and the options are what they were.              *)
LEMMA UnreachableStays ==
  ASSUME TypeOK, ResourceInv, BarrierInv, NEW p \in Proc, Step(p), Unreachable(Server)
  PROVE  Unreachable(Server)'
<1>1. mode' = mode
  BY StepKeeps
<1>2. /\ worker'[Client] => worker[Client]
      /\ link' => link
      /\ ep[Client] = "closed" => ep'[Client] = "closed"
  <2>1. ep[Client] = "closed" => pc[Client] \in ClosedLabels \cup {"killed"}
    BY TwoPrograms DEF ResourceInv, ResourceOK
  <2> USE TwoPrograms DEF TypeOK
  <2>2. CASE p = Server
    <3>1. ep'[Client] = ep[Client]
      BY <2>2, Frame DEF Untouched
    <3>2. CASE RunStep(p)
      BY <2>2, <3>1, <3>2
         DEF RunStep, RunServer, ServerProbe, ServerRecv, ServerReceived, ServerEpCreate,
             ServerAlloc, ServerSleep, ServerSend, ServerSent, ServerFailureSeen,
             ServerPeerDead, ServerFlush, ServerFlushed, EpClose, EpClosed, Progress,
             Deliver, Complete, FailureHandler, Lose, endpoints
    <3>3. CASE OutsideRun(p)
      BY <2>2, <3>1, <3>3
         DEF OutsideRun, ServerListen, ServerAccept, ServerSendLength, ServerSendAddress,
             BrokenPipe, BarrierSend, BarrierRecv, CloseOob, DestroyAndExit, Raise, Crash,
             End, endpoints
    <3> QED
      BY <3>2, <3>3, StepKinds
  <2>3. CASE p = Client
    <3>2. CASE RunStep(p)
      BY <2>1, <2>3, <3>2
         DEF RunStep, RunUcxClient, ClientEpCreate, ClientSend, ClientSent,
             ClientDisconnected, ClientProbe, ClientRecv, ClientReceived, EpClose, EpClosed,
             Progress, Deliver, Complete, FailureHandler, Lose, endpoints, ClosedLabels
    <3>3. CASE OutsideRun(p)
      BY <2>3, <3>3
         DEF OutsideRun, ClientConnect, ClientRecvLength, ClientRecvAddress, BarrierSend,
             BarrierRecv, CloseOob, DestroyAndExit, Raise, Crash, End, endpoints
    <3> QED
      BY <3>2, <3>3, StepKinds
  <2> QED
    BY <2>2, <2>3
<1> QED
  BY <1>1, <1>2, TwoPrograms DEF Unreachable, Broken, PeerErr

(* The server's operation changes to a failed send only when the send is   *)
(* issued or ends, and the server goes to wait for failure_handler only    *)
(* after a failed send.                                                    *)
LEMMA FailureOwn ==
  ASSUME TypeOK, RequestInv, FailureInv, Step(Server)
  PROVE  /\ op'[Server].kind = "send" /\ op'[Server].st = "ERR" =>
              \/ op'[Server] = op[Server]
              \/ Reportable
         /\ pc'[Server] = "await_failure" =>
              \/ pc[Server] = "await_failure"
              \/ Reportable
<1> USE TwoPrograms DEF TypeOK, Jump
<1>1. CASE ServerSend
  <2>1. NbxReturns(Server, "send") /\ pc'[Server] = "wait_send"
    BY <1>1 DEF ServerSend, SendNbx
  <2>2. op'[Server].st = "ERR" => "nbx" \in Faults \/ CanFail(Server, "send")
    BY <2>1 DEF NbxReturns
  <2> QED
    BY <2>1, <2>2 DEF Reportable, CanFail
<1>2. CASE ServerSent
  <2>1. op'[Server] = NoOp
    BY <1>2, FreeResult DEF ServerSent
  <2>2. pc'[Server] = "await_failure" => op[Server].st # "OK"
    BY <1>2 DEF ServerSent
  <2>3. op[Server].kind = "send" /\ op[Server].st # "INPROGRESS"
    BY <1>2 DEF ServerSent, WaitReturns, RequestInv, RequestOK, WaitLabel, Ops
  <2>4. op[Server].st \in {"OK", "ERR", "INPROGRESS"}
    BY DEF Ops
  <2> QED
    BY <2>1, <2>2, <2>3, <2>4 DEF FailureInv, NoOp
<1>3. CASE Complete(Server)
  <2>1. op'[Server].st = "ERR" => CanFail(Server, op[Server].kind)
    <3>1. PICK s \in {"OK", "ERR"} :
            /\ s = "ERR" => CanFail(Server, op[Server].kind)
            /\ op' = [op EXCEPT ![Server] = [op[Server] EXCEPT !.st = s]]
      BY <1>3 DEF Complete
    <3>2. op'[Server].st = s
      BY <3>1, NewStatus
    <3> QED
      BY <3>1, <3>2
  <2>2. pc' = pc
    BY <1>3 DEF Complete
  <2> QED
    BY <2>1, <2>2 DEF Reportable, CanFail
<1>4. CASE ServerRecv \/ ServerFlush \/ EpClose(Server)
  <2>1. /\ op' = op \/ op'[Server].kind \in {"recv", "flush", "close"}
        /\ pc'[Server] # "await_failure"
    BY <1>4, NbxResult DEF ServerRecv, ServerFlush, EpClose, AfterRun
  <2> QED
    BY <2>1
<1>5. CASE ServerReceived \/ ServerFlushed \/ EpClosed(Server)
  <2>1. op'[Server] = NoOp /\ pc'[Server] # "await_failure"
    BY <1>5, FreeResult DEF ServerReceived, ServerFlushed, EpClosed, AfterRun
  <2> QED
    BY <2>1 DEF NoOp
<1>6. CASE \/ ServerProbe \/ ServerEpCreate \/ ServerAlloc \/ ServerSleep
           \/ ServerFailureSeen \/ ServerPeerDead \/ Deliver(Server)
           \/ FailureHandler(Server) \/ Lose(Server)
  BY <1>6 DEF ServerProbe, ServerEpCreate, ServerAlloc, ServerSleep, ServerFailureSeen,
       ServerPeerDead, Deliver, FailureHandler, Lose, requests, AfterRun
<1>7. CASE OutsideRun(Server)
  BY <1>7 DEF OutsideRun, ServerListen, ServerAccept, ServerSendLength, ServerSendAddress,
       BrokenPipe, BarrierSend, BarrierRecv, CloseOob, DestroyAndExit, Raise, Crash, End,
       LeaveWith, requests
<1> QED
  BY <1>1, <1>2, <1>3, <1>4, <1>5, <1>6, <1>7, StepKinds DEF RunStep, RunServer, Progress

LEMMA FailureStep ==
  TypeOK /\ RequestInv /\ ResourceInv /\ BarrierInv /\ FailureInv /\ [Next]_vars => FailureInv'
<1> SUFFICES ASSUME TypeOK, RequestInv, ResourceInv, BarrierInv, FailureInv, [Next]_vars
             PROVE  FailureInv'
  OBVIOUS
<1>1. ASSUME NEW p \in Proc, Step(p) PROVE FailureInv'
  <2>1. Reportable => Reportable'
    BY <1>1, UnreachableStays DEF Reportable
  <2>2. CASE p = Client
    BY <1>1, <2>1, <2>2, Frame, TwoPrograms DEF FailureInv, Untouched
  <2>3. CASE p = Server
    BY <1>1, <2>1, <2>3, FailureOwn DEF FailureInv
  <2> QED
    BY <2>2, <2>3, TwoPrograms
<1>2. CASE LinkDown
  <2>1. Reportable => Reportable'
    BY <1>2, TwoPrograms DEF LinkDown, Reportable, Unreachable, Broken, PeerErr, config
  <2> QED
    BY <1>2, <2>1 DEF LinkDown, FailureInv, requests
<1>3. CASE UNCHANGED vars
  BY <1>3 DEF vars, FailureInv, Reportable, Unreachable, Broken, PeerErr
<1> QED
  BY <1>1, <1>2, <1>3, NextSteps

(* Initially nothing has failed.                                           *)
LEMMA FailureInit == Init => FailureInv
  BY TwoPrograms DEF Init, FailureInv, NoOp

(* All layers hold in every reachable state.                               *)
THEOREM Inductive == Spec => []IInv
<1>1. Init => IInv
  BY TypeInit, RequestInit, ResourceInit, StreamInit, BarrierInit, MessageInit,
     SocketInit, AgreementInit, FailureInit
     DEF IInv
<1>2. IInv /\ [Next]_vars => IInv'
  BY TypeStep, RequestStep, ResourceStep, StreamStep, BarrierStep, MessageStep,
     SocketStep, AgreementStep, FailureStep
     DEF IInv
<1> QED
  BY <1>1, <1>2, PTL DEF Spec

(* A program that reports success destroys its worker only after the peer  *)
(* has closed its endpoint: barrier does what its caller's comment says.   *)
THEOREM DisconnectedFirst == Spec => []RemoteDisconnectedFirst
<1>1. IInv => RemoteDisconnectedFirst
  BY TwoPrograms
     DEF IInv, BarrierInv, ServerPassed, ClientPassed, Succeeded, PeerErr,
         RemoteDisconnectedFirst
<1> QED
  BY <1>1, Inductive, PTL

(* Success of either program means that the client printed the string.     *)
THEOREM SuccessPrinted == Spec => []SuccessMeansPrinted
<1>1. IInv => SuccessMeansPrinted
  BY TwoPrograms
     DEF IInv, BarrierInv, ServerPassed, ClientPassed, Succeeded, PeerErr,
         SuccessMeansPrinted
<1> QED
  BY <1>1, Inductive, PTL

(* The client prints only a string that was received whole.                *)
THEOREM PrintedReceived == Spec => []PrintedWasReceived
<1>1. IInv => PrintedWasReceived
  BY DEF IInv, MessageInv, PrintedWasReceived
<1> QED
  BY <1>1, Inductive, PTL

(* The server's wait for failure_handler is never one for a failure that   *)
(* cannot be reported: what made its send fail is still there.             *)
THEOREM AwaitedCanBeReported == Spec => []AwaitedCanHappen
<1>1. IInv => AwaitedCanHappen
  BY DEF IInv, FailureInv, Reportable, AwaitedCanHappen
<1> QED
  BY <1>1, Inductive, PTL

(* Without -e the two programs agree.  A program that succeeds has read    *)
(* the int of the peer, so the peer has been in the barrier: it returned 0 *)
(* too, or failed to receive an int that was there.                        *)
THEOREM ExitStatusesAgree == Spec => []ExitsAgree
<1>1. IInv => ExitsAgree
  <2> SUFFICES ASSUME IInv, NEW p \in Proc, pc[Peer(p)] = "exited", Succeeded(p)
               PROVE  Succeeded(Peer(p)) \/ ("socket" \in Faults /\ ret[Peer(p)] = 1)
    BY TwoPrograms DEF ExitsAgree
  <2>1. Peer(p) \in Proc /\ Peer(Peer(p)) = p
    BY TwoPrograms
  <2>2. Agreed(p) /\ Agreed(Peer(p)) /\ Leaving(Peer(p))
    BY DEF IInv, AgreementInv, AgreedOK, Leaving
  <2>3. /\ ret[Peer(p)] \in {0, 1} /\ mode[Peer(p)] = "NONE"
        /\ ret[Peer(p)] = 1 => "socket" \in Faults
    BY <2>1, <2>2 DEF IInv, AgreementInv, AgreedOK
  <2> QED
    BY <2>2, <2>3 DEF Succeeded
<1> QED
  BY <1>1, Inductive, PTL

(* A step on the sockets is a step of Dial or leaves them alone.           *)
LEMMA StepDial ==
  ASSUME IInv, NEW p \in Proc, Step(p)
  PROVE  [D!Next]_sock
<1>0. TypeOK /\ AddressTaken /\ SocketOK(p) /\ sock \in [Proc -> {"none", "listening", "connected", "closed"}]
  BY DEF IInv, BarrierInv, SocketInv, TypeOK
<1> USE DEF oob, D!Proc, D!Client, D!Server, Proc, Client, Server
<1>a. ASSUME sock[p] \in {"listening", "connected"}, sock' = [sock EXCEPT ![p] = "closed"]
      PROVE  D!Next
  BY <1>a DEF D!Next, D!Hangup
<1>b. ASSUME sock' = [sock EXCEPT ![p] = IF @ = "none" THEN "none" ELSE "closed"]
      PROVE  [D!Next]_sock
  <2>1. CASE sock[p] \in {"none", "closed"}
    BY <1>0, <1>b, <2>1
  <2>2. CASE sock[p] \in {"listening", "connected"}
    BY <1>a, <1>b, <2>2
  <2> QED
    BY <1>0, <2>1, <2>2
<1>1. CASE RunStep(p)
  BY <1>0, <1>1, RunStepSummary DEF RunSummary
<1>2. CASE p = Server /\ ServerListen
  BY <1>0, <1>2 DEF ServerListen, LeaveWith, SocketOK, D!Next, D!Listen
<1>3. CASE p = Server /\ ServerAccept
  <2>1. sock[Server] = "listening"
    BY <1>0, <1>3 DEF ServerAccept, SocketOK
  <2> QED
    BY <1>3, <1>a, <2>1 DEF ServerAccept, D!Next, D!Accept
<1>4. CASE p = Client /\ ClientConnect
  BY <1>0, <1>4 DEF ClientConnect, LeaveWith, SocketOK, D!Next, D!Connect
<1>5. CASE CloseOob(p)
  <2>1. sock[p] = "connected"
    BY <1>0, <1>5 DEF CloseOob, SocketOK
  <2>2. CASE app[p] = "hello_ucp"
    BY <1>5, <1>a, <2>1, <2>2 DEF CloseOob
  <2>3. CASE app[p] # "hello_ucp"
    BY <1>0, <1>5, <2>3 DEF CloseOob
  <2> QED
    BY <2>2, <2>3
<1>6. CASE (BrokenPipe /\ p = Server) \/ DestroyAndExit(p) \/ Raise(p) \/ Crash(p)
  BY <1>6, <1>b DEF BrokenPipe, DestroyAndExit, Raise, Crash, End
<1>7. CASE \/ p = Server /\ (ServerSendLength \/ ServerSendAddress)
           \/ p = Client /\ (ClientRecvLength \/ ClientRecvAddress)
           \/ BarrierSend(p) \/ BarrierRecv(p)
  BY <1>7 DEF ServerSendLength, ServerSendAddress, ClientRecvLength, ClientRecvAddress,
              BarrierSend, BarrierRecv, LeaveWith, Write, Read
<1> QED
  BY <1>1, <1>2, <1>3, <1>4, <1>5, <1>6, <1>7, StepKinds DEF OutsideRun

(* The sockets of the two programs live as Dial says.                      *)
THEOREM DialImplemented == Spec => ImplementsDial
<1>1. Init => D!Init
  BY DEF Init, D!Init, D!Proc, D!Client, D!Server, Proc, Client, Server
<1>2. IInv /\ [Next]_vars => [D!Next]_sock
  <2> SUFFICES ASSUME IInv, [Next]_vars PROVE [D!Next]_sock
    OBVIOUS
  <2>1. ASSUME NEW p \in Proc, Step(p) PROVE [D!Next]_sock
    BY <2>1, StepDial
  <2>2. CASE LinkDown \/ UNCHANGED vars
    BY <2>2 DEF LinkDown, oob, vars
  <2> QED
    BY <2>1, <2>2, NextSteps
<1> QED
  BY <1>1, <1>2, Inductive, PTL DEF Spec, ImplementsDial, D!Spec
(* What a program reports.                                                 *)
LEMMA OutcomeCases ==
  ASSUME NEW p \in Proc
  PROVE  /\ pc[p] = "killed" => Outcome(p) = "killed"
         /\ Succeeded(p) => Outcome(p) = "success"
         /\ Leaving(p) /\ ~Succeeded(p) => Outcome(p) = "failure"
         /\ ~Leaving(p) /\ pc[p] # "killed" => Outcome(p) = "none"
  BY DEF Outcome, Succeeded, Leaving

(* The same in the next state.                                             *)
LEMMA NextOutcomeCases ==
  ASSUME NEW p \in Proc
  PROVE  /\ pc'[p] = "killed" => Outcome(p)' = "killed"
         /\ Succeeded(p)' => Outcome(p)' = "success"
         /\ Leaving(p)' /\ ~Succeeded(p)' => Outcome(p)' = "failure"
         /\ ~Leaving(p)' /\ pc'[p] # "killed" => Outcome(p)' = "none"
  BY DEF Outcome, Succeeded, Leaving

(* A program that reports something reports it until it is killed.         *)
LEMMA OutcomeStays ==
  ASSUME IInv, NEW p \in Proc, Step(p), Leaving(p) \/ pc[p] = "killed", pc'[p] # "killed"
  PROVE  Outcome(p)' = Outcome(p)
<1>0. /\ TypeOK /\ ResourceInv /\ BarrierInv /\ AddressTaken
      /\ mode' = mode /\ KeepsSent(p)
  BY StepKeeps DEF IInv, BarrierInv
<1>1. Stays(p) \/ (Leaving(p) /\ Leaving(p)' /\ ret' = ret /\ sent' = sent)
  <2>1. CASE RunStep(p)
    BY <1>0, <2>1, RunStepSummary DEF RunSummary, Moves, Leaving, Running
  <2>2. CASE OutsideRun(p)
    BY <1>0, <2>2, OutsideSummary
       DEF TypeOK, OutsideRun, Leaving, ServerListen, ServerAccept, ServerSendLength,
           ServerSendAddress, BrokenPipe, ClientConnect, ClientRecvLength, ClientRecvAddress,
           BarrierSend, BarrierRecv, CloseOob, DestroyAndExit, Raise, Crash, End, Jump
  <2> QED
    BY <2>1, <2>2, StepKinds
<1>2. Succeeded(p)' <=> Succeeded(p)
  <2>1. CASE Stays(p)
    BY <1>0, <2>1, SuccessStable
  <2>2. CASE Leaving(p) /\ Leaving(p)' /\ ret' = ret /\ sent' = sent
    BY <1>0, <2>2 DEF Succeeded
  <2> QED
    BY <1>1, <2>1, <2>2
<1>3. Leaving(p)' <=> Leaving(p)
  BY <1>1 DEF Stays, Leaving
<1>4. pc[p] = "killed" => pc'[p] = "killed"
  BY <1>1 DEF Stays, Leaving
<1> QED
  BY <1>2, <1>3, <1>4, OutcomeCases, NextOutcomeCases

(* A step of the two programs is a step of Transfer or leaves its variables*)
(* alone.                                                                  *)
LEMMA StepTransfer ==
  ASSUME IInv, IInv', NEW p \in Proc, Step(p)
  PROVE  T!Next \/ UNCHANGED <<printed, agreeing, outcomes>>
<1> DEFINE q == Peer(p)
<1>0. /\ TypeOK /\ ResourceInv /\ StreamInv /\ BarrierInv /\ AddressTaken
      /\ ClientInBarrier /\ AgreedOK(p)
      /\ q \in Proc /\ q # p /\ Untouched(q) /\ Proc = {p, q}
      /\ mode' = mode /\ KeepsSent(p) /\ KeepsPrinted(p)
  BY TwoPrograms, StepKeeps, Frame DEF IInv, BarrierInv, AgreementInv
<1> HIDE DEF q
<1>1. outcomes \in [Proc -> {Outcome(r) : r \in Proc}] /\ outcomes[p] = Outcome(p)
  BY DEF outcomes
<1>2. outcomes' = [outcomes EXCEPT ![p] = Outcome(p)']
  <2>1. Outcome(q)' = Outcome(q)
    <3>1. Succeeded(q)' <=> Succeeded(q)
      BY <1>0, SuccessStable DEF Untouched, Stays
    <3>2. pc'[q] = pc[q] /\ (Leaving(q)' <=> Leaving(q))
      BY <1>0 DEF Untouched, Leaving
    <3> QED
      BY <1>0, <3>1, <3>2, OutcomeCases, NextOutcomeCases
  <2> QED
    BY <1>0, <2>1 DEF outcomes
<1>3. Agreed(q)' <=> Agreed(q)
  BY <1>0 DEF Untouched, Agreed
<1>4. ASSUME printed' # printed
      PROVE  T!PrintString
  <2>1. p = Client /\ printed' /\ pc[Client] = "wait_recv" /\ pc'[Client] = "close"
    BY <1>0, <1>4 DEF KeepsPrinted
  <2>2. ~Agreed(p) /\ ~Agreed(p)'
    BY <1>0, <2>1, OobWrites DEF AgreedOK, PastBarrierSend, Agreed
  <2>3. agreeing' = agreeing /\ p \notin agreeing
    BY <1>0, <1>3, <2>2 DEF agreeing
  <2>4. Outcome(p) = "none" /\ Outcome(p)' = "none"
    BY <2>1, OutcomeCases, NextOutcomeCases DEF Leaving
  <2>5. outcomes' = outcomes
    BY <1>1, <1>2, <2>4
  <2>6. printed \in BOOLEAN /\ agreeing \subseteq {Server} /\ printed' \in BOOLEAN
    BY <1>0, <2>1, <2>3, TwoPrograms DEF TypeOK, agreeing, IInv
  <2>7. p = T!Client
    BY <2>1 DEF Client, T!Client
  <2>8. {Server} = {T!Server}
    BY DEF Server, T!Server
  <2>9. ~printed /\ printed' = TRUE
    BY <1>4, <2>1, <2>6
  <2> QED
    BY <1>1, <2>3, <2>4, <2>5, <2>6, <2>7, <2>8, <2>9 DEF T!PrintString
<1>5. ASSUME printed' = printed, Agreed(p)' # Agreed(p)
      PROVE  T!Agree(p)
  <2>1. ~Agreed(p) /\ Agreed(p)'
    BY <1>0, <1>5, AgreedStays DEF Agreed
  <2>2. pc[p] = "barrier" /\ pc'[p] = "poll"
    BY <1>0, <2>1, OobWrites DEF Agreed
  <2>3. agreeing' = agreeing \cup {p} /\ p \notin agreeing
    BY <1>0, <1>3, <2>1 DEF agreeing
  <2>4. Outcome(p) = "none" /\ Outcome(p)' = "none"
    BY <2>2, OutcomeCases, NextOutcomeCases DEF Leaving
  <2>5. outcomes' = outcomes
    BY <1>1, <1>2, <2>4
  <2>6. p = T!Client => printed
    BY <1>0, <2>2 DEF ClientInBarrier, Client, T!Client
  <2> QED
    BY <1>1, <1>5, <2>3, <2>4, <2>5, <2>6 DEF T!Agree
<1>6. ASSUME printed' = printed, Agreed(p)' = Agreed(p)
      PROVE  T!Next \/ UNCHANGED <<printed, agreeing, outcomes>>
  <2>1. agreeing' = agreeing
    BY <1>0, <1>3, <1>6 DEF agreeing
  <2>2. CASE Outcome(p)' = Outcome(p)
    BY <1>1, <1>2, <1>6, <2>1, <2>2
  <2>3. CASE pc'[p] = "killed" /\ Outcome(p) # "killed"
    <3>1. T!Die(p)
      BY <1>1, <1>2, <1>6, <2>1, <2>3, NextOutcomeCases DEF T!Die
    <3> QED
      BY <3>1 DEF T!Next, T!Proc, T!Client, T!Server, Proc, Client, Server
  <2>4. CASE ~Leaving(p) /\ pc[p] # "killed" /\ pc'[p] # "killed"
    <3>1. outcomes[p] = "none"
      BY <1>1, <2>4, OutcomeCases
    <3>2. CASE ~Leaving(p)'
      BY <1>1, <2>2, <2>4, <3>1, <3>2, NextOutcomeCases
    <3>3. CASE Leaving(p)' /\ ~Succeeded(p)'
      <4>1. T!Fail(p)
        BY <1>2, <1>6, <2>1, <3>1, <3>3, NextOutcomeCases DEF T!Fail
      <4> QED
        BY <4>1 DEF T!Next, T!Proc, T!Client, T!Server, Proc, Client, Server
    <3>4. CASE Succeeded(p)'
      <4>1. Agreed(p)' /\ Agreed(q)'
        <5>1. \A r \in Proc : Succeeded(r)' => Agreed(r)' /\ Agreed(Peer(r))'
          BY DEF IInv, AgreementInv, AgreedOK
        <5> QED
          BY <3>4, <5>1 DEF q
      <4>2. agreeing = Proc
        BY <1>0, <1>3, <1>6, <4>1 DEF agreeing
      <4>3. T!Succeed(p)
        BY <1>2, <1>6, <2>1, <3>1, <3>4, <4>2, NextOutcomeCases
           DEF T!Succeed, T!Proc, T!Client, T!Server, Proc, Client, Server
      <4> QED
        BY <4>3 DEF T!Next, T!Proc, T!Client, T!Server, Proc, Client, Server
    <3> QED
      BY <3>2, <3>3, <3>4
  <2>5. CASE pc'[p] = "killed" /\ Outcome(p) = "killed"
    BY <2>2, <2>5, NextOutcomeCases
  <2>6. CASE (Leaving(p) \/ pc[p] = "killed") /\ pc'[p] # "killed"
    BY <2>2, <2>6, OutcomeStays
  <2> QED
    BY <2>3, <2>4, <2>5, <2>6
<1>7. T!PrintString \/ T!Agree(p) => T!Next
  BY DEF T!Next, T!Proc, T!Client, T!Server, Proc, Client, Server
<1> QED
  BY <1>4, <1>5, <1>6, <1>7

(* The programs implement Transfer, whatever fails and in either start     *)
(* order: the barrier makes success mutual and later than the string.      *)
THEOREM TransferImplemented == Spec => ImplementsTransfer
<1>1. Init => T!Init
  <2> SUFFICES ASSUME Init PROVE T!Init
    OBVIOUS
  <2>1. agreeing = {}
    BY DEF Init, agreeing, Agreed
  <2>2. \A p \in Proc : Outcome(p) = "none"
    BY OutcomeCases DEF Init, Leaving
  <2>3. outcomes = [p \in Proc |-> "none"]
    BY <2>2 DEF outcomes
  <2>4. Proc = T!Proc
    BY DEF Proc, Client, Server, T!Proc, T!Client, T!Server
  <2> QED
    BY <2>1, <2>3, <2>4 DEF Init, T!Init
<1>2. IInv /\ IInv' /\ [Next]_vars => [T!Next]_(T!vars)
  <2> SUFFICES ASSUME IInv, IInv', [Next]_vars
               PROVE  T!Next \/ UNCHANGED <<printed, agreeing, outcomes>>
    BY DEF T!vars
  <2>1. ASSUME NEW p \in Proc, Step(p)
        PROVE  T!Next \/ UNCHANGED <<printed, agreeing, outcomes>>
    BY <2>1, StepTransfer
  <2>2. CASE LinkDown \/ UNCHANGED vars
    BY <2>2 DEF LinkDown, config, requests, oob, vars, agreeing, outcomes, Outcome, Agreed,
       Leaving, Succeeded
  <2> QED
    BY <2>1, <2>2, NextSteps
<1> QED
  BY <1>1, <1>2, Inductive, PTL DEF Spec, ImplementsTransfer, T!Spec
=============================================================================
