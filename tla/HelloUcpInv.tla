---------------------------- MODULE HelloUcpInv -----------------------------
(***************************************************************************)
(* The inductive invariant of HelloUcp, in layers.  Each layer is          *)
(* preserved by every step that starts in a state where the layers before  *)
(* it hold; HelloUcpProofs proves this.                                    *)
(***************************************************************************)
EXTENDS HelloUcp

(* Where each kind of operation is waited for.                             *)
WaitLabel(k) ==
  CASE k = "send"  -> "wait_send"
    [] k = "recv"  -> "wait_recv"
    [] k = "flush" -> "wait_flush"
    [] k = "close" -> "wait_close"
    [] OTHER       -> "none"

(* The request's memory: a pending operation is a request that its program *)
(* is waiting for, and completed is set only between the callback of such  *)
(* a request and the return of ucx_wait.                                   *)
RequestOK(p) ==
  /\ op[p].kind # "none" => pc[p] \in {WaitLabel(op[p].kind), "killed"}
  /\ op[p].kind = "none" => op[p] = NoOp
  /\ op[p].st = "INPROGRESS" => op[p].req
  /\ completed[p] =>
       /\ op[p].kind \in {"send", "recv"}
       /\ op[p].req /\ op[p].st # "INPROGRESS"

RequestInv == \A p \in Proc : RequestOK(p)

(* The statements between the creation of the endpoint and its close, those*)
(* after the close, and those at which the message buffer is allocated.    *)
EndpointLabels(p) ==
  {"send", "wait_send", "probe", "recv", "wait_recv", "alloc", "sleep",
   "progress", "await_failure", "keepalive", "flush", "wait_flush", "close",
   "raise"} \ (IF p = Server THEN {"probe", "recv", "wait_recv"} ELSE {})

ClosedLabels == {"barrier", "poll", "close_oob", "destroy", "exited"}

BufferLabels ==
  {"wait_send", "wait_recv", "sleep", "progress", "await_failure",
   "keepalive", "flush", "wait_flush"}

(* What the program counter says of the endpoint and the buffer.           *)
ResourceOK(p) ==
  /\ ep[p] = "open" => pc[p] \in EndpointLabels(p) \cup {"killed"}
  /\ ep[p] = "closing" => pc[p] \in {"wait_close", "killed"}
  /\ ep[p] = "closed" => pc[p] \in ClosedLabels \cup {"killed"}
  /\ pc[p] \in {"barrier", "poll"} => ep[p] = "closed"
  /\ buf[p] => pc[p] \in BufferLabels \cup {"killed"}

ResourceInv == \A p \in Proc : ResourceOK(p)

(* The statements of each program's exchange of addresses and of its run.  *)
Connecting == {"start", "accept", "send_len", "send_addr", "recv_len", "recv_addr"}

Running ==
  {"ep_create", "send", "wait_send", "probe", "recv", "wait_recv", "alloc",
   "sleep", "progress", "await_failure", "keepalive", "flush", "wait_flush",
   "close", "wait_close", "raise"}

(* What the program counters say of the socket's two streams.              *)
StreamInv ==
  /\ pc[Server] \in {"start", "accept", "send_len"} => oobSent[Server] = 0
  /\ pc[Server] = "send_addr" => oobSent[Server] = 1
  /\ pc[Server] \in Running \cup {"barrier"} => oobSent[Server] = 2
  /\ pc[Server] \in Connecting \cup Running \cup {"barrier", "poll"} =>
       oobRead[Server] = 0
  /\ pc[Client] \in Connecting \cup Running \cup {"barrier"} => oobSent[Client] = 0
  /\ pc[Client] \in {"start", "recv_len"} => oobRead[Client] = 0
  /\ pc[Client] = "recv_addr" => oobRead[Client] = 1
  /\ pc[Client] \in Running \cup {"barrier", "poll"} => oobRead[Client] = 2

(* What a program that is in the barrier, has sent its int, or has come    *)
(* back from it with success says of itself and of its peer.               *)
AddressUnsent ==
  pc[Client] \in Connecting \cup {"ep_create", "send"} => sent[Client] = "none"

AddressTaken ==
  pc[Server] = "recv" \/ op[Server].kind = "recv" => sent[Client] # "none"

ClientResult ==
  pc[Client] \in (Running \ {"ep_create"}) \cup {"barrier"} /\ ret[Client] = 0
    => printed

ClientInBarrier == pc[Client] \in {"barrier", "poll"} => printed

PastBarrierSend(p) == pc[p] \in {"poll", "close_oob", "destroy", "exited", "killed"}

ClientSynced ==
  oobSent[Client] > 0 => PastBarrierSend(Client) /\ ep[Client] = "closed" /\ printed

ServerSynced ==
  oobSent[Server] > 2 => PastBarrierSend(Server) /\ ep[Server] = "closed"

ServerPassed ==
  Leaving(Server) /\ ret[Server] = 0 /\ mode[Server] = "NONE" =>
    ep[Client] = "closed" /\ printed

ClientPassed == Succeeded(Client) => ep[Server] = "closed" /\ printed

BarrierInv ==
  /\ AddressUnsent /\ AddressTaken /\ ClientResult /\ ClientInBarrier
  /\ ClientSynced /\ ServerSynced /\ ServerPassed /\ ClientPassed

(* What a program knows of the message it sends, and the client of the one *)
(* it has received.                                                        *)
MessageInv ==
  /\ pc[Server] \in Connecting \cup {"probe", "recv", "wait_recv", "ep_create",
                                    "alloc", "sleep", "progress"} =>
       sent[Server] = "none"
  /\ pc[Client] = "recv" \/ op[Client].kind = "recv" =>
       sent[Server] \in {"matched", "delivered"}
  /\ op[Client].kind = "recv" /\ op[Client].st = "OK" => sent[Server] = "delivered"
  /\ printed => sent[Server] = "delivered"

(* The socket of a program that is not leaving.                            *)
SocketOK(p) ==
  /\ pc[p] = "start" => sock[p] = "none"
  /\ pc[p] = "accept" => sock[p] = "listening"
  /\ pc[p] \in (Connecting \ {"start", "accept"}) \cup Running \cup {"barrier", "poll", "close_oob"} =>
       sock[p] = "connected"

SocketInv == \A p \in Proc : SocketOK(p)

(* What the barrier has made of a program that has written its int: it is  *)
(* in the barrier or past it, and read nothing only if the peer was gone   *)
(* without having agreed, or if recv failed.                               *)
AgreedOK(p) ==
  /\ pc[p] = "poll" => Agreed(p)
  /\ pc[p] \in {"barrier", "poll"} => mode[p] = "NONE"
  /\ Agreed(p) => mode[p] = "NONE" /\ PastBarrierSend(p)
  /\ Agreed(p) /\ Leaving(p) => ret[p] \in {0, 1}
  /\ Agreed(p) /\ Leaving(p) /\ ret[p] = 1 =>
       "socket" \in Faults \/ (~Agreed(Peer(p)) /\ sock[Peer(p)] = "closed")
  /\ Succeeded(p) => Agreed(p) /\ Agreed(Peer(p))

AgreementInv == \A p \in Proc : AgreedOK(p)

(* A send of the server that has failed, while the server still waits for  *)
(* it and while it waits for failure_handler afterwards, failed for a      *)
(* reason that has not gone away.                                          *)
Reportable == Unreachable(Server) \/ "nbx" \in Faults

FailureInv ==
  /\ op[Server].kind = "send" /\ op[Server].st = "ERR" => Reportable
  /\ pc[Server] = "await_failure" => Reportable

(* All layers together.                                                    *)
IInv ==
  /\ TypeOK /\ RequestInv /\ ResourceInv
  /\ StreamInv /\ BarrierInv /\ MessageInv
  /\ SocketInv /\ AgreementInv /\ FailureInv
-----------------------------------------------------------------------------
(* What a program that waits can count on: the invariant that the proof of *)
(* NoCircularWait adds to IInv.                                            *)

(* The statements that each of the programs has.                           *)
LabelsOf(p) ==
  IF p = Server
    THEN Labels \ {"recv_len", "recv_addr", "send"}
    ELSE Labels \ {"accept", "send_len", "send_addr", "alloc", "sleep", "progress",
                   "await_failure", "keepalive", "flush", "wait_flush"}

(* Its worker exists, its wait is for an operation, and ucx_wait is told   *)
(* of the end of that; what it has sent has left and is not lost.          *)
WaitOK(p) ==
  /\ pc[p] \in LabelsOf(p)
  /\ pc[p] \notin {"exited", "killed"} => worker[p]
  /\ \A k \in {"send", "recv", "flush", "close"} : pc[p] = WaitLabel(k) => op[p].kind = k
  /\ op[p].kind \in {"send", "recv"} /\ op[p].req /\ op[p].st # "INPROGRESS" => completed[p]
  /\ op[p].kind = "send" /\ op[p].st # "ERR" => sent[p] # "none"
  /\ sent[p] = "lost" => ~worker[p] \/ (PeerErr(p) /\ ep[p] = "closed")

(* The statements at which a program has not found the peer's message yet. *)
BeforeMessage(p) ==
  Connecting \cup {"probe"} \cup (IF p = Client THEN {"ep_create", "send", "wait_send"} ELSE {})

ArrivalOK(p) ==
  /\ sent[Peer(p)] \in {"matched", "delivered"} => pc[p] \notin BeforeMessage(p)
  /\ op[p].kind = "recv" /\ op[p].st = "OK" => sent[Peer(p)] = "delivered"

(* The client waits for an answer only after it has sent its address, and  *)
(* the server goes on only when it has received that.                      *)
AddressSent ==
  /\ pc[Client] = "probe" => sent[Client] # "none"
  /\ pc[Server] \in (Running \ {"probe", "recv", "wait_recv", "raise"}) \cup {"barrier", "poll"} =>
       sent[Client] = "delivered"

(* A server that closes without an error has sent the string, or knows of  *)
(* the failure that kept it from that.                                     *)
StringSent ==
  /\ pc[Server] \in {"keepalive", "flush", "wait_flush"} => sent[Server] # "none"
  /\ \/ pc[Server] \in {"close", "wait_close"} /\ ret[Server] = 0
     \/ pc[Server] \in {"barrier", "poll"}
     => sent[Server] # "none" \/ epStatus[Server] = "ERR"
  /\ pc[Server] = "await_failure" => mode[Server] = "NONE"
  /\ epStatus[Server] = "ERR" => Unreachable(Server)

WaitInv ==
  /\ \A p \in Proc : WaitOK(p) /\ ArrivalOK(p)
  /\ AddressSent /\ StringSent

(* All that is proved inductive: the layers, and what waiting relies on.   *)
AllInv == IInv /\ WaitInv
=============================================================================
