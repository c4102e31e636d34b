------------------------------ MODULE HelloUcp ------------------------------
(***************************************************************************)
(* The client and the server program, from the out-of-band TCP connection  *)
(* to their exit: main of ucp_hello_world_v2.cpp (app "hello_ucp"), main   *)
(* of simple_ucp_server.cpp and simple_ucp_client.cpp ("run_ucp"), barrier *)
(* of ucx_utils.cpp, and runServer and runUcxClient between them.          *)
(*                                                                         *)
(* The socket is FIFO: the n-th item a program reads is the n-th its peer  *)
(* wrote.  The server writes its address length, its address and the       *)
(* barrier's int; the client writes the barrier's int.                     *)
(***************************************************************************)
EXTENDS UcpClient, UcpServer

CONSTANTS
  Modes,          (* the pairs of -e options to consider                   *)
  Apps,           (* the pairs of programs to consider                     *)
  ServerFirst     (* the client is only started once the server listens    *)

ASSUME ModesAssumption == Modes \subseteq [Proc -> FailureModes]
ASSUME AppsAssumption == Apps \subseteq [Proc -> {"hello_ucp", "run_ucp"}]
ASSUME ServerFirstAssumption == ServerFirst \in BOOLEAN

LenBytes == 8      (* sizeof(uint64_t), what the address length is sent in *)

vars == <<mode, app, proto, pc, ret, buf, printed, worker, link, ep, epStatus,
          sent, op, completed, sock, oobSent, oobRead>>

Init ==
  /\ mode \in Modes
  /\ app \in Apps
  /\ proto \in [Proc -> {"eager", "rndv"}]
  /\ pc = [p \in Proc |-> "start"]
  /\ ret = [p \in Proc |-> -1]
  /\ buf = [p \in Proc |-> FALSE]
  /\ printed = FALSE
  /\ worker = [p \in Proc |-> TRUE]
  /\ link = TRUE
  /\ ep = [p \in Proc |-> "none"]
  /\ epStatus = [p \in Proc |-> "OK"]
  /\ sent = [p \in Proc |-> "none"]
  /\ op = [p \in Proc |-> NoOp]
  /\ completed = [p \in Proc |-> FALSE]
  /\ sock = [p \in Proc |-> "none"]
  /\ oobSent = [p \in Proc |-> 0]
  /\ oobRead = [p \in Proc |-> 0]
-----------------------------------------------------------------------------
(* The socket.                                                             *)

Readable(p) == oobRead[p] < oobSent[Peer(p)]

Eof(p) == ~Readable(p) /\ sock[Peer(p)] = "closed"

Write(p) ==
  /\ oobSent' = [oobSent EXCEPT ![p] = @ + 1]
  /\ UNCHANGED <<sock, oobRead>>

Read(p) ==
  /\ Readable(p)
  /\ oobRead' = [oobRead EXCEPT ![p] = @ + 1]
  /\ UNCHANGED <<sock, oobSent>>

(* A call on the socket fails and main leaves with what it returned.       *)
LeaveWith(p, r) ==
  /\ ret' = [ret EXCEPT ![p] = r]
  /\ Jump(p, "destroy")
  /\ UNCHANGED oob

(* connect_common(NULL) or connect_server, up to accept.                   *)
ServerListen ==
  /\ pc[Server] = "start"
  /\ \/ "socket" \in Faults /\ LeaveWith(Server, -1)
     \/ /\ sock' = [sock EXCEPT ![Server] = "listening"]
        /\ Jump(Server, "accept")
        /\ UNCHANGED <<ret, oobSent, oobRead>>
  /\ UNCHANGED <<config, endpoints, requests, buf, printed>>

(* The listening socket is closed, whether or not accept succeeded; it can *)
(* fail before a client has come.                                          *)
ServerAccept ==
  /\ pc[Server] = "accept"
  /\ \/ /\ sock[Client] # "none"
        /\ sock' = [sock EXCEPT ![Server] = "connected"]
        /\ Jump(Server, "send_len")
        /\ UNCHANGED ret
     \/ /\ "socket" \in Faults
        /\ sock' = [sock EXCEPT ![Server] = "closed"]
        /\ ret' = [ret EXCEPT ![Server] = -1]
        /\ Jump(Server, "destroy")
  /\ UNCHANGED <<config, endpoints, requests, buf, printed, oobSent, oobRead>>

ServerSendLength ==
  /\ pc[Server] = "send_len"
  /\ \/ "socket" \in Faults /\ LeaveWith(Server, -1)
     \/ /\ Write(Server)
        /\ ret' = [ret EXCEPT ![Server] = LenBytes]
        /\ Jump(Server, "send_addr")
  /\ UNCHANGED <<config, endpoints, requests, buf, printed>>

ServerSendAddress ==
  /\ pc[Server] = "send_addr"
  /\ \/ ("socket" \in Faults \/ sock[Client] = "closed") /\ LeaveWith(Server, -1)
     \/ /\ Write(Server)
        /\ ret' = [ret EXCEPT ![Server] = AddrLen]
        /\ Jump(Server, "probe")
  /\ UNCHANGED <<config, endpoints, requests, buf, printed>>

(* Mutant: the connection is taken for granted, as if connect did not wait.*)
ClientConnectUnchecked ==
  /\ pc[Client] = "start"
  /\ ServerFirst => sock[Server] # "none"
  /\ sock' = [sock EXCEPT ![Client] = "connected"]
  /\ Jump(Client, "recv_len")
  /\ UNCHANGED <<config, endpoints, requests, buf, printed, ret, oobSent, oobRead>>

(* connect_common(server) or connect_client: one attempt, no retry.        *)
ClientConnect ==
  /\ pc[Client] = "start"
  /\ ServerFirst => sock[Server] # "none"
  /\ \/ "socket" \in Faults /\ LeaveWith(Client, -1)
     \/ sock[Server] # "listening" /\ LeaveWith(Client, -1)
     \/ /\ sock[Server] = "listening"
        /\ sock' = [sock EXCEPT ![Client] = "connected"]
        /\ Jump(Client, "recv_len")
        /\ UNCHANGED <<ret, oobSent, oobRead>>
  /\ UNCHANGED <<config, endpoints, requests, buf, printed>>

(* recv returns 0 at the end of the stream and -1 on an error, and main    *)
(* returns that.  If peer_addr cannot be allocated, ret is still 8.        *)
ClientRecvLength ==
  /\ pc[Client] = "recv_len"
  /\ \/ /\ Read(Client)
        /\ ret' = [ret EXCEPT ![Client] = LenBytes]
        /\ \/ "malloc" \in Faults /\ Jump(Client, "destroy")
           \/ Jump(Client, "recv_addr")
     \/ Eof(Client) /\ LeaveWith(Client, 0)
     \/ (Eof(Client) \/ "socket" \in Faults) /\ LeaveWith(Client, -1)
  /\ UNCHANGED <<config, endpoints, requests, buf, printed>>

ClientRecvAddress ==
  /\ pc[Client] = "recv_addr"
  /\ \/ /\ Read(Client)
        /\ ret' = [ret EXCEPT ![Client] = AddrLen]
        /\ Jump(Client, "ep_create")
     \/ Eof(Client) /\ LeaveWith(Client, 0)
     \/ (Eof(Client) \/ "socket" \in Faults) /\ LeaveWith(Client, -1)
  /\ UNCHANGED <<config, endpoints, requests, buf, printed>>
-----------------------------------------------------------------------------
(* barrier, and the end of main.                                           *)

BarrierSend(p) ==
  /\ pc[p] = "barrier"
  /\ \/ /\ "socket" \in Faults
        /\ ret' = [ret EXCEPT ![p] = -1]
        /\ Jump(p, "close_oob")
        /\ UNCHANGED oob
     \/ /\ Write(p)
        /\ Jump(p, "poll")
        /\ UNCHANGED ret
  /\ UNCHANGED <<config, endpoints, requests, buf, printed>>

(* Mutants: barrier returns 0 whatever it received, or the bytes received. *)
BarrierRecvIgnored(p) ==
  /\ pc[p] = "poll"
  /\ Read(p) \/ ((Eof(p) \/ "socket" \in Faults) /\ UNCHANGED oob)
  /\ ret' = [ret EXCEPT ![p] = 0]
  /\ Jump(p, "close_oob")
  /\ UNCHANGED <<config, endpoints, requests, buf, printed>>
BarrierRecvBytes(p) ==
  /\ pc[p] = "poll"
  /\ Read(p)
  /\ ret' = [ret EXCEPT ![p] = 4]
  /\ Jump(p, "close_oob")
  /\ UNCHANGED <<config, endpoints, requests, buf, printed>>

(* poll returned 1: recv gets the peer's int, or nothing if it is gone.    *)
BarrierRecv(p) ==
  /\ pc[p] = "poll"
  /\ \/ Read(p) /\ ret' = [ret EXCEPT ![p] = 0]
     \/ /\ Eof(p) \/ "socket" \in Faults
        /\ ret' = [ret EXCEPT ![p] = 1]
        /\ UNCHANGED oob
  /\ Jump(p, "close_oob")
  /\ UNCHANGED <<config, endpoints, requests, buf, printed>>

(* Only ucp_hello_world_v2.cpp closes the socket.                          *)
CloseOob(p) ==
  /\ pc[p] = "close_oob"
  /\ sock' = [sock EXCEPT ![p] = IF app[p] = "hello_ucp" THEN "closed" ELSE @]
  /\ Jump(p, "destroy")
  /\ UNCHANGED <<config, endpoints, requests, ret, buf, printed, oobSent, oobRead>>

(* The process is gone, and with it its worker and its socket.             *)
End(p, label) ==
  /\ worker' = [worker EXCEPT ![p] = FALSE]
  /\ sock' = [sock EXCEPT ![p] = IF @ = "none" THEN "none" ELSE "closed"]
  /\ Jump(p, label)
  /\ UNCHANGED <<config, requests, ret, buf, printed, link, ep, epStatus, oobSent, oobRead>>

(* The client closed the socket: the server's second send gets an error,   *)
(* as in ServerSendAddress, or SIGPIPE, which nothing blocks or handles.   *)
BrokenPipe ==
  /\ pc[Server] = "send_addr" /\ sock[Client] = "closed"
  /\ End(Server, "killed")

(* ucp_worker_destroy, ucp_cleanup and the return from main.               *)
DestroyAndExit(p) == pc[p] = "destroy" /\ End(p, "exited")

(* raise(SIGKILL) of the failure modes.                                    *)
Raise(p) == pc[p] = "raise" /\ End(p, "killed")

Main(p) ==
  \/ EpClose(p) \/ EpClosed(p) \/ BarrierSend(p) \/ BarrierRecv(p)
  \/ CloseOob(p) \/ DestroyAndExit(p) \/ Raise(p)

ServerStep ==
  \/ ServerListen \/ ServerAccept \/ ServerSendLength \/ ServerSendAddress
  \/ BrokenPipe \/ RunServer \/ Main(Server)

ClientStep ==
  \/ ClientConnect \/ ClientRecvLength \/ ClientRecvAddress
  \/ RunUcxClient \/ Main(Client)
-----------------------------------------------------------------------------
(* The environment.                                                        *)

Crash(p) ==
  /\ "crash" \in Faults
  /\ pc[p] \notin {"exited", "killed"}
  /\ End(p, "killed")

LinkDown ==
  /\ "link" \in Faults /\ link
  /\ link' = FALSE
  /\ UNCHANGED <<config, requests, oob, pc, ret, buf, printed, worker, ep, epStatus>>

(* What a dead program, or one that forced its endpoint closed, has sent   *)
(* and the peer did not yet take in is lost.                               *)
Lose(p) ==
  /\ "loss" \in Faults /\ sent[p] = "flight"
  /\ ~worker[p] \/ (PeerErr(p) /\ ep[p] = "closed")
  /\ sent' = [sent EXCEPT ![p] = "lost"]
  /\ UNCHANGED <<config, endpoints, oob, op, completed, pc, ret, buf, printed>>

Next ==
  \/ ServerStep \/ ClientStep
  \/ \E p \in Proc : Progress(p) \/ Crash(p) \/ Lose(p)
  \/ LinkDown

Spec == Init /\ [][Next]_vars

(* A program takes its next step; the loops around ucp_worker_progress get *)
(* every message on a working transport, the end of every operation that   *)
(* can succeed, and, if err_mode is PEER, the report of a broken transport.*)
MustComplete(p) ==
  /\ CanSucceed(p, op[p].kind) \/ (PeerErr(p) /\ ep[p] # "none" /\ Broken(p))
  /\ Complete(p)

MustReport(p) == PeerErr(p) /\ Broken(p) /\ FailureHandler(p)

Fairness ==
  /\ WF_vars(ServerStep) /\ WF_vars(ClientStep)
  /\ \A p \in Proc :
       WF_vars(Deliver(p)) /\ WF_vars(MustComplete(p)) /\ WF_vars(MustReport(p))

FairSpec == Spec /\ Fairness
-----------------------------------------------------------------------------
Labels ==
  {"start", "accept", "send_len", "send_addr", "recv_len", "recv_addr",
   "ep_create", "send", "wait_send", "probe", "recv", "wait_recv", "alloc",
   "sleep", "progress", "await_failure", "keepalive", "flush", "wait_flush",
   "close", "wait_close", "barrier", "poll", "close_oob", "destroy", "raise",
   "exited", "killed"}

Ops == [kind : {"none", "send", "recv", "flush", "close"}, req : BOOLEAN,
        st : {"OK", "ERR", "INPROGRESS"}]

Results == {-1, 0, 1, LenBytes, AddrLen}

MessageStates == {"none", "flight", "arrived", "matched", "delivered", "lost"}

(* Type invariant.                                                         *)
TypeOK ==
  /\ mode \in [Proc -> FailureModes]
  /\ app \in [Proc -> {"hello_ucp", "run_ucp"}]
  /\ proto \in [Proc -> {"eager", "rndv"}]
  /\ pc \in [Proc -> Labels]
  /\ ret \in [Proc -> Results]
  /\ buf \in [Proc -> BOOLEAN] /\ printed \in BOOLEAN
  /\ worker \in [Proc -> BOOLEAN] /\ link \in BOOLEAN
  /\ ep \in [Proc -> {"none", "open", "closing", "closed"}]
  /\ epStatus \in [Proc -> {"OK", "ERR"}]
  /\ sent \in [Proc -> MessageStates]
  /\ op \in [Proc -> Ops]
  /\ completed \in [Proc -> BOOLEAN]
  /\ sock \in [Proc -> {"none", "listening", "connected", "closed"}]
  /\ oobSent \in [Proc -> Nat] /\ oobRead \in [Proc -> Nat]

Leaving(p) == pc[p] \in {"close_oob", "destroy", "exited"}

(* p is past the barrier, or returns from main, and reports success after  *)
(* a run without -e.  The client's address message tells the run from an   *)
(* exit before it (see ExchangeFailureReported).                           *)
Succeeded(p) ==
  Leaving(p) /\ ret[p] = 0 /\ mode[p] = "NONE" /\ sent[Client] # "none"

(* "Make sure remote is disconnected before destroying local worker": a    *)
(* program that reports success destroys its worker only once the peer's   *)
(* endpoint to it is closed, whatever fails on the other side.             *)
RemoteDisconnectedFirst ==
  \A p \in Proc : Succeeded(p) => ep[Peer(p)] = "closed"

(* A server that reports success to its caller has had its string printed: *)
(* the local completion of its send and its flush do not say so, the       *)
(* barrier does.                                                           *)
SuccessMeansPrinted == \A p \in Proc : Succeeded(p) => printed

(* Without -e the two programs agree: once both have exited, one reports   *)
(* success only if the other does, whatever failed on the way.  The one    *)
(* exception is a recv that fails in the barrier (status 1), which comes   *)
(* when the peer has been told already.                                    *)
ExitsAgree ==
  (\A p \in Proc : pc[p] = "exited") =>
    \A p \in Proc :
      Succeeded(p) => Succeeded(Peer(p)) \/ ("socket" \in Faults /\ ret[Peer(p)] = 1)

(* The client prints only a string that it received whole.                 *)
PrintedWasReceived == printed => sent[Server] = "delivered"

(* Every endpoint that was created is closed on every path to the worker's *)
(* destruction.                                                            *)
EndpointClosedFirst ==
  \A p \in Proc : Leaving(p) => ep[p] \in {"none", "closed"}

(* The message buffer is released on every path out of the run.  (What else*)
(* the server allocates there, its copy of the client's address, is not:   *)
(* LeftAtReturn of BringUp.)                                               *)
BufferReleased == \A p \in Proc : Leaving(p) => ~buf[p]

(* UCX may read and write the message buffer until the operation on it has *)
(* ended, so the buffer is not freed, and the request not given back, while*)
(* the operation is in progress.  completed must not be left over from the *)
(* previous operation on the same request memory.                          *)
Held(p) ==
  op[p].st = "INPROGRESS" => op'[p].kind = op[p].kind /\ (buf[p] => buf'[p])

HeldUntilDone == [][\A p \in Proc : Held(p)]_vars

(* A server without -e whose send failed waits for failure_handler: unless *)
(* the send was refused at once, there is then a failure of the peer that  *)
(* UCX may still report, for as long as the server waits.                  *)
AwaitedCanHappen ==
  pc[Server] = "await_failure" /\ epStatus[Server] = "OK" =>
    Unreachable(Server) \/ "nbx" \in Faults

(* p is at a statement that it can only leave when something happens: the  *)
(* peer connects or writes, its message or the end of the operation comes, *)
(* or a failure is reported.                                               *)
Waiting(p) ==
  \/ pc[p] = "accept" /\ sock[Peer(p)] = "none"
  \/ pc[p] \in {"recv_len", "recv_addr", "poll"} /\ ~Readable(p) /\ ~Eof(p)
  \/ pc[p] = "probe" /\ sent[Peer(p)] # "arrived" /\ (p = Client => epStatus[p] = "OK")
  \/ pc[p] \in {"wait_send", "wait_recv"} /\ ~WaitReturns(p)
  \/ pc[p] \in {"wait_flush", "wait_close"} /\ op[p].st = "INPROGRESS"
  \/ pc[p] \in {"await_failure", "keepalive"} /\ epStatus[p] = "OK"

(* On a working transport ucp_worker_progress has a message for p, or the  *)
(* end of its operation.                                                   *)
EventDue(p) ==
  /\ Progressing(p)
  /\ \/ sent[Peer(p)] = "flight"
     \/ op[p].st = "INPROGRESS" /\ CanSucceed(p, op[p].kind)

Blocked(p) == Waiting(p) /\ ~EventDue(p)

(* While the transport works the two programs never wait for each other,   *)
(* in the exchange, the run, a graceful close or the barrier, and whatever *)
(* else has failed.  Only a failure that nobody reports is waited for in   *)
(* vain: by a server whose send was refused, and by one that waits for the *)
(* death of a client that lives, was not started with -e and has come to   *)
(* the barrier.                                                            *)
NoCircularWait ==
  link /\ Blocked(Client) /\ Blocked(Server) =>
    \/ pc[Server] = "await_failure" /\ "nbx" \in Faults
    \/ pc[Server] = "keepalive" /\ pc[Client] = "poll"

(* The life of each program's socket is one that Dial allows: the server's *)
(* side is connected only to a client that found it listening, and nothing *)
(* is done to a closed one.                                                *)
D == INSTANCE Dial
ImplementsDial == D!Spec

(* p has written the barrier's int, after the items of the exchange.       *)
Agreed(p) == oobSent[p] > (IF p = Server THEN 2 ELSE 0)

Outcome(p) ==
  CASE pc[p] = "killed" -> "killed"
    [] Succeeded(p) -> "success"
    [] Leaving(p) /\ ~Succeeded(p) -> "failure"
    [] OTHER -> "none"

agreeing == {p \in Proc : Agreed(p)}
outcomes == [p \in Proc |-> Outcome(p)]

(* The run and the barrier implement Transfer: whatever fails, success is  *)
(* reported only after the string was printed and both programs agreed.    *)
T == INSTANCE Transfer WITH agreed <- agreeing, outcome <- outcomes
ImplementsTransfer == T!Spec

(* Started in the documented order, without -e and without faults, both    *)
(* programs end, report success, and the string is printed.                *)
BothSucceed ==
  <>(printed /\ \A p \in Proc : pc[p] = "exited" /\ ret[p] = 0)

(* A program started with -e that has created its endpoint ends, whatever  *)
(* happens to its peer.  Before that the server cannot notice a dead peer. *)
PeerFailureDetected ==
  \A p \in Proc :
    (mode[p] # "NONE" /\ ep[p] # "none") ~> pc[p] \in {"exited", "killed"}

(* The server's first loop has no way out of its own: it ends unless the   *)
(* client is gone, killed or through an error, without its message having  *)
(* got through.                                                            *)
ProbeEnds ==
  pc[Server] = "probe" ~>
    (pc[Server] # "probe" \/ pc[Client] \in {"exited", "killed"} \/ ~link)

(* A client started with -e ends, wherever the server crashes.             *)
ClientNeverStuck ==
  (mode[Client] # "NONE" /\ pc[Client] # "start") ~> pc[Client] \in {"exited", "killed"}
-----------------------------------------------------------------------------
(* What comments and messages of the code say, and the code does not do.   *)

(* ucp_server.cpp:161: "If peer failure testing was requested, set ret = 0 *)
(* to report success from the application", on a failed send.              *)
RequestedFailureReported ==
  [][(/\ pc[Server] = "wait_send" /\ pc'[Server] = "close"
      /\ mode[Server] # "NONE") => ret'[Server] = 0]_vars

(* simple_ucp_client.cpp:102: "Failed to receive address length", a run    *)
(* that main must not report as a success.                                 *)
ExchangeFailureReported ==
  (pc[Client] = "exited" /\ ret[Client] = 0) => printed
=============================================================================
