---------------------------- MODULE BringUpProofs ---------------------------
(***************************************************************************)
(* Proofs about BringUp, for an address of any length.                     *)
(***************************************************************************)
EXTENDS BringUp, TLAPS

(* The labels, from the end of the run on.                                 *)
Leaving ==
  {"close", "err_peer_addr", "err_addr", "err_worker", "err_cleanup", "err", "returned"}

Core == {"context", "worker", "local_addr"}

(* Which program gets where.                                               *)
ProgramInv ==
  /\ prog \in {"run_ucp_server", "hello_ucx"} => ~named
  /\ prog = "hello_ucx" =>
       pc \in {"config_read", "init", "err_cleanup", "err", "returned"}
  /\ prog = "run_ucp_server" => pc # "err_addr"
  /\ pc \in {"recv_len", "malloc", "recv_addr"} => named
  /\ pc \in {"send_len", "send_addr"} => ~named /\ prog # "run_ucp_client"
  /\ pc = "run" /\ prog = "run_ucp_client" => named
  /\ pc \notin Leaving => failed = "none"

(* What exists at each step on the way in.                                 *)
CreatedInv ==
  /\ pc \in {"parse_cmd", "config_read"} => alive = {}
  /\ pc = "init" => alive = {"config"}
  /\ pc = "worker_create" => alive = {"context"}
  /\ pc = "worker_query" => alive = {"context", "worker"}
  /\ pc = "connect" => alive = Core
  /\ pc \in {"send_len", "send_addr", "recv_len", "malloc"} => alive = Core \cup {"socket"}
  /\ pc = "recv_addr" => alive = Core \cup {"socket", "peer_addr"}
  /\ pc \in {"run", "barrier", "close"} =>
       /\ Core \cup {"socket"} \subseteq alive /\ "config" \notin alive
       /\ named => "peer_addr" \in alive

(* What is left on the way out.                                            *)
ReleasedInv ==
  /\ pc \in Leaving => "config" \notin alive
  /\ pc = "close" => prog = "ucp_hello_v2"
  /\ pc = "close" => failed \in {"none", "run", "barrier"}
  /\ pc = "err_peer_addr" => Core \subseteq alive
  /\ pc = "err_addr" => Core \subseteq alive /\ "peer_addr" \notin alive
  /\ pc = "err_worker" =>
       /\ {"context", "worker"} \subseteq alive /\ "peer_addr" \notin alive
       /\ prog = "run_ucp_server" \/ "local_addr" \notin alive
  /\ pc = "err_cleanup" =>
       /\ "context" \in alive /\ alive \cap {"peer_addr", "worker"} = {}
       /\ prog = "run_ucp_server" \/ "local_addr" \notin alive
  /\ pc \in {"err_peer_addr", "err_addr", "err_worker", "err_cleanup"} =>
       ("socket" \in alive => "socket" \in MayLeave)
  /\ "client_addr" \in alive => ServerRan /\ pc \in Leaving \cup {"barrier"}
  /\ pc \in {"err", "returned"} => alive \subseteq MayLeave

(* What main is going to return.                                           *)
StatusInv ==
  /\ pc \in {"parse_cmd", "config_read", "init", "worker_create", "worker_query", "connect"} =>
       ret = (IF prog = "hello_ucx" THEN 1 ELSE -1)
  /\ pc = "malloc" => ret = LenBytes
  /\ pc = "err_cleanup" /\ prog = "hello_ucx" => failed = "none"
  /\ pc \in Leaving /\ ~(prog = "hello_ucx" /\ pc = "err_cleanup") =>
       /\ failed = "none" => ret = 0
       /\ failed \notin {"none", "recv_len", "recv_addr"} => ret \in {-1, 1, LenBytes}

IInv == TypeOK /\ ProgramInv /\ CreatedInv /\ ReleasedInv /\ StatusInv

LEMMA Initial == Init => IInv
<1> SUFFICES ASSUME Init PROVE IInv
  OBVIOUS
<1> USE DEF Init
<1>1. TypeOK
  <2>1. ret \in {-1, 1}
    OBVIOUS
  <2>2. ret \in -1..LenBytes
    BY <2>1 DEF LenBytes
  <2> QED
    BY <2>2 DEF TypeOK, Programs, Labels
<1>2. ProgramInv
  BY DEF ProgramInv, Programs, Leaving
<1>3. CreatedInv
  BY DEF CreatedInv
<1>4. ReleasedInv
  BY DEF ReleasedInv, Leaving
<1>5. StatusInv
  BY DEF StatusInv, Leaving
<1> QED
  BY <1>1, <1>2, <1>3, <1>4, <1>5 DEF IInv

(* The steps of the four programs, with the labels that main gives them.   *)
Act ==
  \/ ParseCmd \/ ConfigRead \/ WorkerCreate \/ WorkerQuery
  \/ prog # "hello_ucx" /\ UcpInit("worker_create")
  \/ prog = "hello_ucx" /\ UcpInit("err_cleanup")
  \/ prog # "hello_ucx" /\ Connect
  \/ prog \in {"ucp_hello_v2", "run_ucp_server"} /\ Listen
  \/ RecvLength \/ AllocPeerAddr \/ RecvAddress \/ SendLength \/ SendAddress
  \/ prog = "run_ucp_client" /\ NoName
  \/ prog = "ucp_hello_v2" /\ (Run("close") \/ Barrier("close"))
  \/ prog # "ucp_hello_v2" /\ (Run("err_peer_addr") \/ Barrier("err_peer_addr"))
  \/ CloseOob
  \/ prog = "run_ucp_server" /\ FreePeerAddr("err_worker")
  \/ prog \in {"ucp_hello_v2", "run_ucp_client"} /\ FreePeerAddr("err_addr")
  \/ ReleaseAddress \/ WorkerDestroy
  \/ prog # "hello_ucx" /\ Cleanup
  \/ prog = "hello_ucx" /\ CleanupOK
  \/ Return

LEMMA Steps == Next => Act
BY DEF Next, HelloV2, SimpleServer, SimpleClient, HelloUcx, Act

(* Which program gets where.                                               *)
LEMMA ProgramStep ==
  ASSUME TypeOK, ProgramInv, ReleasedInv, Act
  PROVE  ProgramInv'
<1> USE DEF Leaving, ProgramInv, Programs, ReleasedInv, config
<1>1. CASE ParseCmd
  BY <1>1 DEF ParseCmd, Done, Failed
<1>2. CASE ConfigRead
  BY <1>2 DEF ConfigRead, Created, Failed
<1>3. CASE prog # "hello_ucx" /\ UcpInit("worker_create")
  BY <1>3 DEF UcpInit
<1>4. CASE prog = "hello_ucx" /\ UcpInit("err_cleanup")
  BY <1>4 DEF UcpInit
<1>5. CASE WorkerCreate
  BY <1>5 DEF WorkerCreate, Created, Failed
<1>6. CASE WorkerQuery
  BY <1>6 DEF WorkerQuery, Created, Failed
<1>7. CASE prog # "hello_ucx" /\ Connect
  BY <1>7 DEF Connect, Created, Failed
<1>8. CASE prog \in {"ucp_hello_v2", "run_ucp_server"} /\ Listen
  BY <1>8 DEF Listen, Created, Failed
<1>9. CASE RecvLength
  BY <1>9 DEF RecvLength, Recv, Done, Failed
<1>10. CASE AllocPeerAddr
  BY <1>10 DEF AllocPeerAddr, Created, Failed
<1>11. CASE RecvAddress
  BY <1>11 DEF RecvAddress, Recv, Done, Failed
<1>12. CASE SendLength
  BY <1>12 DEF SendLength, Send, Done, Failed
<1>13. CASE SendAddress
  BY <1>13 DEF SendAddress, Send, Done, Failed
<1>14. CASE prog = "run_ucp_client" /\ NoName
  BY <1>14 DEF NoName, Failed
<1>15. CASE prog = "ucp_hello_v2" /\ (Run("close") \/ Barrier("close"))
  BY <1>15 DEF Run, RunLeaves, Barrier, Done, Failed
<1>16. CASE prog # "ucp_hello_v2" /\ (Run("err_peer_addr") \/ Barrier("err_peer_addr"))
  BY <1>16 DEF Run, RunLeaves, Barrier, Done, Failed
<1>17. CASE CloseOob
  BY <1>17 DEF CloseOob, Released
<1>18. CASE prog = "run_ucp_server" /\ FreePeerAddr("err_worker")
  BY <1>18 DEF FreePeerAddr, Released
<1>19. CASE prog \in {"ucp_hello_v2", "run_ucp_client"} /\ FreePeerAddr("err_addr")
  BY <1>19 DEF FreePeerAddr, Released
<1>20. CASE ReleaseAddress
  BY <1>20 DEF ReleaseAddress, Released
<1>21. CASE WorkerDestroy
  BY <1>21 DEF WorkerDestroy, Released
<1>22. CASE prog # "hello_ucx" /\ Cleanup
  BY <1>22 DEF Cleanup, Released
<1>23. CASE prog = "hello_ucx" /\ CleanupOK
  BY <1>23 DEF CleanupOK
<1>24. CASE Return
  BY <1>24 DEF Return, Done
<1> QED
  BY <1>1, <1>2, <1>3, <1>4, <1>5, <1>6, <1>7, <1>8, <1>9, <1>10, <1>11, <1>12, <1>13, <1>14, <1>15, <1>16, <1>17, <1>18, <1>19, <1>20, <1>21, <1>22, <1>23, <1>24 DEF Act

(* What exists on the way in.                                              *)
LEMMA CreatedStep ==
  ASSUME TypeOK, ProgramInv, CreatedInv, Act
  PROVE  CreatedInv'
<1> USE DEF Core, CreatedInv, ProgramInv, TypeOK, config
<1>1. CASE ParseCmd
  BY <1>1 DEF ParseCmd, Done, Failed
<1>2. CASE ConfigRead
  BY <1>2 DEF ConfigRead, Created, Failed
<1>3. CASE prog # "hello_ucx" /\ UcpInit("worker_create")
  BY <1>3 DEF UcpInit
<1>4. CASE prog = "hello_ucx" /\ UcpInit("err_cleanup")
  BY <1>4 DEF UcpInit
<1>5. CASE WorkerCreate
  BY <1>5 DEF WorkerCreate, Created, Failed
<1>6. CASE WorkerQuery
  BY <1>6 DEF WorkerQuery, Created, Failed
<1>7. CASE prog # "hello_ucx" /\ Connect
  BY <1>7 DEF Connect, Created, Failed
<1>8. CASE prog \in {"ucp_hello_v2", "run_ucp_server"} /\ Listen
  BY <1>8 DEF Listen, Created, Failed
<1>9. CASE RecvLength
  BY <1>9 DEF RecvLength, Recv, Done, Failed
<1>10. CASE AllocPeerAddr
  BY <1>10 DEF AllocPeerAddr, Created, Failed
<1>11. CASE RecvAddress
  BY <1>11 DEF RecvAddress, Recv, Done, Failed
<1>12. CASE SendLength
  BY <1>12 DEF SendLength, Send, Done, Failed
<1>13. CASE SendAddress
  BY <1>13 DEF SendAddress, Send, Done, Failed
<1>14. CASE prog = "run_ucp_client" /\ NoName
  BY <1>14 DEF NoName, Failed
<1>15. CASE prog = "ucp_hello_v2" /\ (Run("close") \/ Barrier("close"))
  BY <1>15 DEF Run, RunLeaves, Barrier, Done, Failed
<1>16. CASE prog # "ucp_hello_v2" /\ (Run("err_peer_addr") \/ Barrier("err_peer_addr"))
  BY <1>16 DEF Run, RunLeaves, Barrier, Done, Failed
<1>17. CASE CloseOob
  BY <1>17 DEF CloseOob, Released
<1>18. CASE prog = "run_ucp_server" /\ FreePeerAddr("err_worker")
  BY <1>18 DEF FreePeerAddr, Released
<1>19. CASE prog \in {"ucp_hello_v2", "run_ucp_client"} /\ FreePeerAddr("err_addr")
  BY <1>19 DEF FreePeerAddr, Released
<1>20. CASE ReleaseAddress
  BY <1>20 DEF ReleaseAddress, Released
<1>21. CASE WorkerDestroy
  BY <1>21 DEF WorkerDestroy, Released
<1>22. CASE prog # "hello_ucx" /\ Cleanup
  BY <1>22 DEF Cleanup, Released
<1>23. CASE prog = "hello_ucx" /\ CleanupOK
  BY <1>23 DEF CleanupOK
<1>24. CASE Return
  BY <1>24 DEF Return, Done
<1> QED
  BY <1>1, <1>2, <1>3, <1>4, <1>5, <1>6, <1>7, <1>8, <1>9, <1>10, <1>11, <1>12, <1>13, <1>14, <1>15, <1>16, <1>17, <1>18, <1>19, <1>20, <1>21, <1>22, <1>23, <1>24 DEF Act

(* What is left on the way out.                                            *)
LEMMA ReleasedStep ==
  ASSUME TypeOK, ProgramInv, CreatedInv, ReleasedInv, Act
  PROVE  ReleasedInv'
<1> USE DEF Core, CreatedInv, Handles, Leaving, MayLeave, ProgramInv, Programs, ReleasedInv, ServerRan, TypeOK, config
<1>1. CASE ParseCmd
  BY <1>1 DEF ParseCmd, Done, Failed
<1>2. CASE ConfigRead
  BY <1>2 DEF ConfigRead, Created, Failed
<1>3. CASE prog # "hello_ucx" /\ UcpInit("worker_create")
  BY <1>3 DEF UcpInit
<1>4. CASE prog = "hello_ucx" /\ UcpInit("err_cleanup")
  BY <1>4 DEF UcpInit
<1>5. CASE WorkerCreate
  BY <1>5 DEF WorkerCreate, Created, Failed
<1>6. CASE WorkerQuery
  BY <1>6 DEF WorkerQuery, Created, Failed
<1>7. CASE prog # "hello_ucx" /\ Connect
  BY <1>7 DEF Connect, Created, Failed
<1>8. CASE prog \in {"ucp_hello_v2", "run_ucp_server"} /\ Listen
  BY <1>8 DEF Listen, Created, Failed
<1>9. CASE RecvLength
  BY <1>9 DEF RecvLength, Recv, Done, Failed
<1>10. CASE AllocPeerAddr
  BY <1>10 DEF AllocPeerAddr, Created, Failed
<1>11. CASE RecvAddress
  BY <1>11 DEF RecvAddress, Recv, Done, Failed
<1>12. CASE SendLength
  BY <1>12 DEF SendLength, Send, Done, Failed
<1>13. CASE SendAddress
  BY <1>13 DEF SendAddress, Send, Done, Failed
<1>14. CASE prog = "run_ucp_client" /\ NoName
  BY <1>14 DEF NoName, Failed
<1>15. CASE prog = "ucp_hello_v2" /\ (Run("close") \/ Barrier("close"))
  BY <1>15 DEF Run, RunLeaves, Barrier, Done, Failed
<1>16. CASE prog # "ucp_hello_v2" /\ (Run("err_peer_addr") \/ Barrier("err_peer_addr"))
  BY <1>16 DEF Run, RunLeaves, Barrier, Done, Failed
<1>17. CASE CloseOob
  BY <1>17 DEF CloseOob, Released
<1>18. CASE prog = "run_ucp_server" /\ FreePeerAddr("err_worker")
  BY <1>18 DEF FreePeerAddr, Released
<1>19. CASE prog \in {"ucp_hello_v2", "run_ucp_client"} /\ FreePeerAddr("err_addr")
  BY <1>19 DEF FreePeerAddr, Released
<1>20. CASE ReleaseAddress
  BY <1>20 DEF ReleaseAddress, Released
<1>21. CASE WorkerDestroy
  BY <1>21 DEF WorkerDestroy, Released
<1>22. CASE prog # "hello_ucx" /\ Cleanup
  BY <1>22 DEF Cleanup, Released
<1>23. CASE prog = "hello_ucx" /\ CleanupOK
  BY <1>23 DEF CleanupOK
<1>24. CASE Return
  BY <1>24 DEF Return, Done
<1> QED
  BY <1>1, <1>2, <1>3, <1>4, <1>5, <1>6, <1>7, <1>8, <1>9, <1>10, <1>11, <1>12, <1>13, <1>14, <1>15, <1>16, <1>17, <1>18, <1>19, <1>20, <1>21, <1>22, <1>23, <1>24 DEF Act

(* What main returns.                                                      *)
LEMMA StatusStep ==
  ASSUME TypeOK, ProgramInv, StatusInv, Act
  PROVE  StatusInv'
<1> USE DEF Leaving, LenBytes, ProgramInv, StatusInv, config
<1>1. CASE ParseCmd
  BY <1>1 DEF ParseCmd, Done, Failed
<1>2. CASE ConfigRead
  BY <1>2 DEF ConfigRead, Created, Failed
<1>3. CASE prog # "hello_ucx" /\ UcpInit("worker_create")
  BY <1>3 DEF UcpInit
<1>4. CASE prog = "hello_ucx" /\ UcpInit("err_cleanup")
  BY <1>4 DEF UcpInit
<1>5. CASE WorkerCreate
  BY <1>5 DEF WorkerCreate, Created, Failed
<1>6. CASE WorkerQuery
  BY <1>6 DEF WorkerQuery, Created, Failed
<1>7. CASE prog # "hello_ucx" /\ Connect
  BY <1>7 DEF Connect, Created, Failed
<1>8. CASE prog \in {"ucp_hello_v2", "run_ucp_server"} /\ Listen
  BY <1>8 DEF Listen, Created, Failed
<1>9. CASE RecvLength
  BY <1>9 DEF RecvLength, Recv, Done, Failed
<1>10. CASE AllocPeerAddr
  BY <1>10 DEF AllocPeerAddr, Created, Failed
<1>11. CASE RecvAddress
  BY <1>11 DEF RecvAddress, Recv, Done, Failed
<1>12. CASE SendLength
  BY <1>12 DEF SendLength, Send, Done, Failed
<1>13. CASE SendAddress
  BY <1>13 DEF SendAddress, Send, Done, Failed
<1>14. CASE prog = "run_ucp_client" /\ NoName
  BY <1>14 DEF NoName, Failed
<1>15. CASE prog = "ucp_hello_v2" /\ (Run("close") \/ Barrier("close"))
  BY <1>15 DEF Run, RunLeaves, Barrier, Done, Failed
<1>16. CASE prog # "ucp_hello_v2" /\ (Run("err_peer_addr") \/ Barrier("err_peer_addr"))
  BY <1>16 DEF Run, RunLeaves, Barrier, Done, Failed
<1>17. CASE CloseOob
  BY <1>17 DEF CloseOob, Released
<1>18. CASE prog = "run_ucp_server" /\ FreePeerAddr("err_worker")
  BY <1>18 DEF FreePeerAddr, Released
<1>19. CASE prog \in {"ucp_hello_v2", "run_ucp_client"} /\ FreePeerAddr("err_addr")
  BY <1>19 DEF FreePeerAddr, Released
<1>20. CASE ReleaseAddress
  BY <1>20 DEF ReleaseAddress, Released
<1>21. CASE WorkerDestroy
  BY <1>21 DEF WorkerDestroy, Released
<1>22. CASE prog # "hello_ucx" /\ Cleanup
  BY <1>22 DEF Cleanup, Released
<1>23. CASE prog = "hello_ucx" /\ CleanupOK
  BY <1>23 DEF CleanupOK
<1>24. CASE Return
  BY <1>24 DEF Return, Done
<1> QED
  BY <1>1, <1>2, <1>3, <1>4, <1>5, <1>6, <1>7, <1>8, <1>9, <1>10, <1>11, <1>12, <1>13, <1>14, <1>15, <1>16, <1>17, <1>18, <1>19, <1>20, <1>21, <1>22, <1>23, <1>24 DEF Act

(* Type correctness.  Each step leaves ret, or sets it to what a call      *)
(* returned.                                                               *)
LEMMA TypeStep ==
  ASSUME TypeOK, Act
  PROVE  TypeOK'
<1> DEFINE Returns == -1..LenBytes \cup 0..AddrLen
<1>1. ret' \in Returns
  <2>1. {-1, 0, 1, LenBytes, AddrLen} \subseteq Returns
    BY AddrLenAssumption DEF LenBytes
  <2>2. 0..LenBytes - 1 \subseteq Returns /\ 0..AddrLen - 1 \subseteq Returns
    BY AddrLenAssumption DEF LenBytes
  <2>3. ret \in Returns
    BY DEF TypeOK
  <2> HIDE DEF Returns
  <2>4. CASE ret' = ret
    BY <2>3, <2>4
  <2>5. CASE RecvLength \/ RecvAddress
    BY <2>1, <2>2, <2>5 DEF RecvLength, RecvAddress, Recv
  <2>6. CASE SendLength \/ SendAddress
    BY <2>1, <2>6 DEF SendLength, SendAddress, Send
  <2>7. CASE Run("close") \/ Run("err_peer_addr")
    BY <2>1, <2>7 DEF Run
  <2>8. CASE Barrier("close") \/ Barrier("err_peer_addr") \/ CleanupOK
    BY <2>1, <2>8 DEF Barrier, CleanupOK
  <2> QED
    BY <2>4, <2>5, <2>6, <2>7, <2>8
       DEF Act, ParseCmd, ConfigRead, UcpInit, WorkerCreate, WorkerQuery, Connect, Listen,
           AllocPeerAddr, NoName, CloseOob, FreePeerAddr, ReleaseAddress, WorkerDestroy,
           Cleanup, Return, Released
<1>2. prog' = prog /\ named' = named /\ failing' = failing
  BY DEF Act, ParseCmd, ConfigRead, UcpInit, WorkerCreate, WorkerQuery, Connect, Listen,
         RecvLength, RecvAddress, Recv, SendLength, SendAddress, Send, AllocPeerAddr, NoName,
         Run, Barrier, CloseOob, FreePeerAddr, ReleaseAddress, WorkerDestroy, Cleanup,
         CleanupOK, Return, config
<1>3. pc' \in Labels
  BY DEF Labels,
         Act, ParseCmd, ConfigRead, UcpInit, WorkerCreate, WorkerQuery, Connect, Listen,
         RecvLength, RecvAddress, Recv, SendLength, SendAddress, Send, AllocPeerAddr, NoName,
         Run, Barrier, CloseOob, FreePeerAddr, ReleaseAddress, WorkerDestroy, Cleanup,
         CleanupOK, Return, Done, Failed, Created, Released
<1>4. failed' \in {failed, pc}
  BY DEF Act, ParseCmd, ConfigRead, UcpInit, WorkerCreate, WorkerQuery, Connect, Listen,
         RecvLength, RecvAddress, Recv, SendLength, SendAddress, Send, AllocPeerAddr, NoName,
         Run, Barrier, CloseOob, FreePeerAddr, ReleaseAddress, WorkerDestroy, Cleanup,
         CleanupOK, Return, Done, Failed, Created, Released
<1>5. alive' \subseteq alive \cup Handles
  BY DEF Handles, RunLeaves,
         Act, ParseCmd, ConfigRead, UcpInit, WorkerCreate, WorkerQuery, Connect, Listen,
         RecvLength, RecvAddress, Recv, SendLength, SendAddress, Send, AllocPeerAddr, NoName,
         Run, Barrier, CloseOob, FreePeerAddr, ReleaseAddress, WorkerDestroy, Cleanup,
         CleanupOK, Return, Done, Failed, Created, Released
<1> QED
  BY <1>1, <1>2, <1>3, <1>4, <1>5 DEF TypeOK

LEMMA Unchanged == ASSUME IInv, UNCHANGED vars PROVE IInv'
BY DEF vars, IInv, TypeOK, ProgramInv, CreatedInv, ReleasedInv, StatusInv, MayLeave, ServerRan

LEMMA Inductive == IInv /\ [Next]_vars => IInv'
<1> SUFFICES ASSUME IInv, [Next]_vars PROVE IInv'
  OBVIOUS
<1>1. CASE Act
  BY <1>1, TypeStep, ProgramStep, CreatedStep, ReleasedStep, StatusStep DEF IInv
<1>2. CASE UNCHANGED vars
  BY <1>2, Unchanged
<1> QED
  BY <1>1, <1>2, Steps

THEOREM Invariance == Spec => []IInv
BY Initial, Inductive, PTL DEF Spec

(* Type correctness.                                                       *)
THEOREM TypeCorrect == Spec => []TypeOK
<1>1. IInv => TypeOK
  BY DEF IInv
<1> QED
  BY <1>1, Invariance, PTL

(* Every call of the four programs gets handles that exist, whichever step *)
(* failed before.                                                          *)
THEOREM OnlyLiveHandles == Spec => []HandlesAlive
<1>1. IInv => HandlesAlive
  BY DEF IInv, ProgramInv, CreatedInv, ReleasedInv, HandlesAlive, Needs, Core, Leaving
<1> QED
  BY <1>1, Invariance, PTL

(* What is not released when main returns, for each program.               *)
THEOREM Leftovers == Spec => []LeftAtReturn
<1>1. IInv => LeftAtReturn
  BY DEF IInv, ReleasedInv, LeftAtReturn
<1> QED
  BY <1>1, Invariance, PTL

(* The exit status tells a failure, but for a stream that ended early.     *)
THEOREM StatusTells == Spec => []ExitTellsFailure
<1>1. 0 % 256 = 0 /\ -1 % 256 # 0 /\ 1 % 256 # 0 /\ 8 % 256 # 0
  OBVIOUS
<1>2. IInv => ExitTellsFailure
  <2> SUFFICES ASSUME IInv, pc = "returned"
               PROVE  /\ failed = "none" => ret % 256 = 0
                      /\ failed \notin {"none", "recv_len", "recv_addr"} => ret % 256 # 0
    BY DEF ExitTellsFailure
  <2>1. /\ failed = "none" => ret = 0
        /\ failed \notin {"none", "recv_len", "recv_addr"} => ret \in {-1, 1, 8}
    BY DEF IInv, StatusInv, Leaving, LenBytes
  <2> QED
    BY <1>1, <2>1
<1> QED
  BY <1>2, Invariance, PTL
=============================================================================
