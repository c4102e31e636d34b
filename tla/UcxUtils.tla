------------------------------ MODULE UcxUtils ------------------------------
(***************************************************************************)
(* The state the client and the server program share, and ucx_utils.cpp:   *)
(* the callbacks, ucx_wait, ep_close_err_mode and flush_ep, on top of the  *)
(* part of the UCX library (external) that they call.                      *)
(*                                                                         *)
(* Every program is one thread, and UCX acts on its behalf only inside     *)
(* ucp_worker_progress.  The loops that call it are the labels for which   *)
(* Progressing holds; one call may handle any number of events, and each   *)
(* event is one step here.                                                 *)
(***************************************************************************)
EXTENDS Integers

CONSTANTS
  Faults,   (* the environment's failures that may happen in this instance *)
  AddrLen   (* the length of the server's UCX address                      *)

FaultKinds ==
  {"socket",     (* a socket call fails                                    *)
   "malloc",     (* an allocation returns NULL                             *)
   "ep_create",  (* ucp_ep_create fails                                    *)
   "nbx",        (* a nonblocking UCX call returns an error pointer        *)
   "link",       (* the transport under UCX breaks                         *)
   "loss",       (* a message dies with its sender                         *)
   "crash"}      (* a program is killed from outside                       *)

ASSUME FaultsAssumption == Faults \subseteq FaultKinds
ASSUME AddrLenAssumption == AddrLen \in Nat \ {0}

VARIABLES
  mode,       (* err_handling_opt.failure_mode, the -e option              *)
  app,        (* which of the two pairs of programs is running             *)
  proto,      (* UCX's protocol for the message each program sends         *)
  pc,         (* the next statement of each program                        *)
  ret,        (* main's ret, in the end the exit status                    *)
  buf,        (* whether the message buffer msg is allocated               *)
  printed,    (* whether the client has printed the test string            *)
  worker,     (* whether the ucp_worker exists                             *)
  link,       (* whether the transport works                               *)
  ep,         (* the endpoint to the peer                                  *)
  epStatus,   (* ep_status, written by failure_handler                     *)
  sent,       (* where the message sent by each program is                 *)
  op,         (* the nonblocking operation each program waits for          *)
  completed,  (* ucx_context.completed in the worker's request memory      *)
  sock,       (* the out-of-band TCP socket                                *)
  oobSent,    (* how many items each program wrote to the socket           *)
  oobRead     (* how many of its peer's items each program read            *)

config == <<mode, app, proto>>
endpoints == <<worker, link, ep, epStatus>>
requests == <<sent, op, completed>>
oob == <<sock, oobSent, oobRead>>

Client == "client"
Server == "server"
Proc == {Client, Server}
Peer(p) == IF p = Client THEN Server ELSE Client

FailureModes == {"NONE", "SEND", "RECV", "KEEPALIVE"}

(* Mutant: the -e option asks for peer error handling with keepalive only. *)
KeepaliveErr(p) == mode[p] = "KEEPALIVE"

(* ucp_err_mode is UCP_ERR_HANDLING_MODE_PEER exactly when -e was given.   *)
PeerErr(p) == mode[p] # "NONE"

Jump(p, label) == pc' = [pc EXCEPT ![p] = label]

(* Mutant: barrier polls its socket without calling progress_cb.           *)
ProgressingOutsideBarrier(p) ==
  pc[p] \in {"probe", "progress", "wait_send", "wait_recv", "await_failure",
             "keepalive", "wait_flush", "wait_close"}

(* Mutant: the server probes without calling ucp_worker_progress.          *)
ProgressingOutsideProbe(p) ==
  pc[p] \in {"progress", "wait_send", "wait_recv", "await_failure",
             "keepalive", "wait_flush", "wait_close", "poll"}

(* The loops of the code that call ucp_worker_progress.                    *)
Progressing(p) ==
  pc[p] \in {"probe", "progress", "wait_send", "wait_recv", "await_failure",
             "keepalive", "wait_flush", "wait_close", "poll"}
-----------------------------------------------------------------------------
(* UCX: when an operation may end, and how.                                *)

(* p's transport to its peer is gone: UCX reports it if err_mode is PEER.  *)
Broken(p) == ~worker[Peer(p)] \/ ~link

(* UCX may report a failure to p, also because the peer closed.            *)
Unreachable(p) ==
  \/ Broken(p)
  \/ ep[Peer(p)] = "closed" /\ (PeerErr(p) \/ PeerErr(Peer(p)))

(* All that p sent was acknowledged, which the peer's progress does.       *)
Flushed(p) ==
  \/ sent[p] = "none"
  \/ /\ sent[p] \in {"arrived", "matched", "delivered"}
     /\ ~Broken(p)
     /\ Progressing(Peer(p))

(* The operation of kind k can end with UCS_OK.                            *)
CanSucceed(p, k) ==
  \/ k = "send" /\ (proto[p] = "eager" \/ sent[p] = "delivered")
  \/ k = "recv" /\ (proto[Peer(p)] = "eager" \/ ~Broken(p))
  \/ k = "flush" /\ Flushed(p)
  \/ k = "close" /\ (PeerErr(p) \/ Flushed(p))

(* The operation of kind k can end with an error.                          *)
CanFail(p, k) ==
  Unreachable(p) /\ (k = "recv" => proto[Peer(p)] = "rndv")

NoOp == [kind |-> "none", req |-> FALSE, st |-> "OK"]

(* What ucp_tag_send_nbx, ucp_tag_msg_recv_nbx, ucp_ep_flush_nbx and       *)
(* ucp_ep_close_nbx return: a request to wait for, NULL when the operation *)
(* ended at once (never for the receive, whose flags forbid it), or an     *)
(* error pointer.                                                          *)
NbxReturns(p, k) ==
  \/ op' = [op EXCEPT ![p] = [kind |-> k, req |-> TRUE, st |-> "INPROGRESS"]]
  \/ /\ k # "recv" /\ CanSucceed(p, k)
     /\ op' = [op EXCEPT ![p] = [kind |-> k, req |-> FALSE, st |-> "OK"]]
  \/ /\ "nbx" \in Faults \/ CanFail(p, k)
     /\ op' = [op EXCEPT ![p] = [kind |-> k, req |-> FALSE, st |-> "ERR"]]

SendNbx(p) ==
  /\ NbxReturns(p, "send")
  /\ sent' = IF op'[p].st = "ERR" THEN sent ELSE [sent EXCEPT ![p] = "flight"]
-----------------------------------------------------------------------------
(* The events of ucp_worker_progress.                                      *)

(* The peer's message reaches this worker, where a probe finds it.         *)
Deliver(p) ==
  /\ Progressing(p)
  /\ sent[Peer(p)] = "flight" /\ link
  /\ sent' = [sent EXCEPT ![Peer(p)] = "arrived"]
  /\ UNCHANGED <<config, endpoints, oob, op, completed, pc, ret, buf, printed>>

(* The callbacks of send and receive store to the request's memory; the    *)
(* flush and the close are issued without a callback.                      *)
Handler(p) ==
  completed' = [completed EXCEPT ![p] = @ \/ op[p].kind \in {"send", "recv"}]

(* The pending operation ends: UCX sets its status and calls its callback. *)
Complete(p) ==
  /\ Progressing(p)
  /\ op[p].req /\ op[p].st = "INPROGRESS"
  /\ \/ /\ CanSucceed(p, op[p].kind)
        /\ op' = [op EXCEPT ![p].st = "OK"]
        /\ sent' = IF op[p].kind = "recv"
                     THEN [sent EXCEPT ![Peer(p)] = "delivered"] ELSE sent
     \/ /\ CanFail(p, op[p].kind)
        /\ op' = [op EXCEPT ![p].st = "ERR"]
        /\ UNCHANGED sent
  /\ Handler(p)
  /\ UNCHANGED <<config, endpoints, oob, pc, ret, buf, printed>>

(* failure_handler, at most once for an endpoint.                          *)
FailureHandler(p) ==
  /\ Progressing(p)
  /\ ep[p] = "open" /\ epStatus[p] = "OK" /\ Unreachable(p)
  /\ epStatus' = [epStatus EXCEPT ![p] = "ERR"]
  /\ UNCHANGED <<config, requests, oob, worker, link, ep, pc, ret, buf, printed>>

Progress(p) == Deliver(p) \/ Complete(p) \/ FailureHandler(p)
-----------------------------------------------------------------------------
(* ucx_wait: it returns at once for NULL and for an error pointer, else    *)
(* when the callback has stored to completed; it resets completed, since   *)
(* UCX runs request_init only on new request memory, and frees the request.*)

WaitReturns(p) == op[p].kind # "none" /\ (op[p].req => completed[p])

(* Mutant: ucx_wait leaves completed set for the next request.             *)
FreeRequestWithoutReset(p) ==
  op' = [op EXCEPT ![p] = NoOp] /\ UNCHANGED completed

FreeRequest(p) ==
  /\ op' = [op EXCEPT ![p] = NoOp]
  /\ completed' = IF op[p].req THEN [completed EXCEPT ![p] = FALSE] ELSE completed

(* ep_close and flush_ep poll the status of their request instead.         *)
StatusReturns(p, k) == op[p].kind = k /\ op[p].st # "INPROGRESS"

(* Mutants: no barrier, and a barrier whatever the run returned.           *)
AfterRunNoBarrier(p, r) == "close_oob"
AfterRunAnyResult(p, r) == IF ~PeerErr(p) THEN "barrier" ELSE "close_oob"

(* main after runServer or runUcxClient returned r.                        *)
AfterRun(p, r) == IF r = 0 /\ ~PeerErr(p) THEN "barrier" ELSE "close_oob"

(* ep_close_err_mode, forced if err_mode is PEER: see CanSucceed.          *)
EpClose(p) ==
  /\ pc[p] = "close"
  /\ NbxReturns(p, "close")
  /\ ep' = [ep EXCEPT ![p] = "closing"]
  /\ Jump(p, "wait_close")
  /\ UNCHANGED <<config, oob, worker, link, epStatus, sent, completed, ret, buf, printed>>

EpClosed(p) ==
  /\ pc[p] = "wait_close" /\ StatusReturns(p, "close")
  /\ op' = [op EXCEPT ![p] = NoOp]
  /\ ep' = [ep EXCEPT ![p] = "closed"]
  /\ Jump(p, AfterRun(p, ret[p]))
  /\ UNCHANGED <<config, oob, worker, link, epStatus, sent, completed, ret, buf, printed>>
=============================================================================
