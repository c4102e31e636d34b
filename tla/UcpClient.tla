----------------------------- MODULE UcpClient ------------------------------
(***************************************************************************)
(* UcpClient::runUcxClient: connect to the server, send it this client's   *)
(* UCX address, and wait for the test string.                              *)
(***************************************************************************)
EXTENDS UcxUtils

ClientEpCreate ==
  /\ pc[Client] = "ep_create"
  /\ ret' = [ret EXCEPT ![Client] = -1]
  /\ \/ /\ "ep_create" \in Faults
        /\ Jump(Client, AfterRun(Client, -1))
        /\ UNCHANGED ep
     \/ /\ ep' = [ep EXCEPT ![Client] = "open"]
        /\ Jump(Client, "send")
  /\ UNCHANGED <<config, requests, oob, worker, link, epStatus, buf, printed>>

ClientSend ==
  /\ pc[Client] = "send"
  /\ \/ /\ "malloc" \in Faults
        /\ Jump(Client, "close")
        /\ UNCHANGED <<buf, sent, op>>
     \/ /\ buf' = [buf EXCEPT ![Client] = TRUE]
        /\ SendNbx(Client)
        /\ Jump(Client, "wait_send")
  /\ UNCHANGED <<config, endpoints, oob, completed, ret, printed>>

ClientSent ==
  /\ pc[Client] = "wait_send" /\ WaitReturns(Client)
  /\ FreeRequest(Client)
  /\ buf' = [buf EXCEPT ![Client] = FALSE]
  /\ Jump(Client, IF op[Client].st # "OK" THEN "close"
                  ELSE IF mode[Client] = "RECV" THEN "raise" ELSE "probe")
  /\ UNCHANGED <<config, endpoints, oob, sent, ret, printed>>

(* Mutants: the loop leaves past the close of the endpoint, or never looks. *)
ClientDisconnectedToErr ==
  /\ pc[Client] = "probe" /\ epStatus[Client] # "OK"
  /\ Jump(Client, AfterRun(Client, ret[Client]))
  /\ UNCHANGED <<config, endpoints, requests, oob, ret, buf, printed>>
ClientNeverLooks == FALSE

(* The receive loop looks at ep_status before every probe.                 *)
ClientDisconnected ==
  /\ pc[Client] = "probe" /\ epStatus[Client] # "OK"
  /\ Jump(Client, "close")
  /\ UNCHANGED <<config, endpoints, requests, oob, ret, buf, printed>>

ClientProbe ==
  /\ pc[Client] = "probe" /\ epStatus[Client] = "OK"
  /\ sent[Server] = "arrived"
  /\ sent' = [sent EXCEPT ![Server] = "matched"]
  /\ Jump(Client, IF mode[Client] = "KEEPALIVE" THEN "raise" ELSE "recv")
  /\ UNCHANGED <<config, endpoints, oob, op, completed, ret, buf, printed>>

ClientRecv ==
  /\ pc[Client] = "recv"
  /\ \/ /\ "malloc" \in Faults
        /\ Jump(Client, "close")
        /\ UNCHANGED <<buf, op>>
     \/ /\ buf' = [buf EXCEPT ![Client] = TRUE]
        /\ NbxReturns(Client, "recv")
        /\ Jump(Client, "wait_recv")
  /\ UNCHANGED <<config, endpoints, oob, sent, completed, ret, printed>>

(* Mutant: the status of the receive is not looked at.                     *)
ClientReceivedUnchecked ==
  /\ pc[Client] = "wait_recv" /\ WaitReturns(Client)
  /\ FreeRequest(Client)
  /\ buf' = [buf EXCEPT ![Client] = FALSE]
  /\ printed' = TRUE
  /\ ret' = [ret EXCEPT ![Client] = 0]
  /\ Jump(Client, "close")
  /\ UNCHANGED <<config, endpoints, oob, sent>>

(* The string is copied out of msg and printed if it was received and the  *)
(* copy could be allocated; msg is freed on every branch.                  *)
ClientReceived ==
  /\ pc[Client] = "wait_recv" /\ WaitReturns(Client)
  /\ FreeRequest(Client)
  /\ buf' = [buf EXCEPT ![Client] = FALSE]
  /\ \/ /\ op[Client].st # "OK" \/ "malloc" \in Faults
        /\ UNCHANGED <<ret, printed>>
     \/ /\ op[Client].st = "OK"
        /\ printed' = TRUE
        /\ ret' = [ret EXCEPT ![Client] = 0]
  /\ Jump(Client, "close")
  /\ UNCHANGED <<config, endpoints, oob, sent>>

RunUcxClient ==
  \/ ClientEpCreate \/ ClientSend \/ ClientSent \/ ClientDisconnected
  \/ ClientProbe \/ ClientRecv \/ ClientReceived
=============================================================================
