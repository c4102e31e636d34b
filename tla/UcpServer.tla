----------------------------- MODULE UcpServer ------------------------------
(***************************************************************************)
(* UcpServer::runServer: receive the client's UCX address, connect back to *)
(* it and send the test string.                                            *)
(***************************************************************************)
EXTENDS UcxUtils

(* do { ucp_worker_progress; ucp_tag_probe_nb } while (msg_tag == NULL)    *)
ServerProbe ==
  /\ pc[Server] = "probe" /\ sent[Client] = "arrived"
  /\ sent' = [sent EXCEPT ![Client] = "matched"]
  /\ Jump(Server, "recv")
  /\ UNCHANGED <<config, endpoints, oob, op, completed, ret, buf, printed>>

ServerRecv ==
  /\ pc[Server] = "recv"
  /\ \/ /\ "malloc" \in Faults
        /\ ret' = [ret EXCEPT ![Server] = -1]
        /\ Jump(Server, AfterRun(Server, -1))
        /\ UNCHANGED <<buf, op>>
     \/ /\ buf' = [buf EXCEPT ![Server] = TRUE]
        /\ NbxReturns(Server, "recv")
        /\ Jump(Server, "wait_recv")
        /\ UNCHANGED ret
  /\ UNCHANGED <<config, endpoints, oob, sent, completed, printed>>

(* ucx_wait returned: msg is freed on every branch, after its copy to      *)
(* peer_addr on the last one.                                              *)
ServerReceived ==
  /\ pc[Server] = "wait_recv" /\ WaitReturns(Server)
  /\ FreeRequest(Server)
  /\ buf' = [buf EXCEPT ![Server] = FALSE]
  /\ \/ /\ op[Server].st # "OK"
        /\ ret' = [ret EXCEPT ![Server] = -1]
        /\ Jump(Server, AfterRun(Server, -1))
     \/ /\ op[Server].st = "OK" /\ mode[Server] = "SEND"
        /\ Jump(Server, "raise")
        /\ UNCHANGED ret
     \/ /\ op[Server].st = "OK" /\ mode[Server] # "SEND" /\ "malloc" \in Faults
        /\ ret' = [ret EXCEPT ![Server] = -1]
        /\ Jump(Server, AfterRun(Server, -1))
     \/ /\ op[Server].st = "OK" /\ mode[Server] # "SEND"
        /\ Jump(Server, "ep_create")
        /\ UNCHANGED ret
  /\ UNCHANGED <<config, endpoints, oob, sent, printed>>

(* ret is 0 here if a failure was asked for, -1 otherwise.                 *)
ServerEpCreate ==
  /\ pc[Server] = "ep_create"
  /\ ret' = [ret EXCEPT ![Server] = IF mode[Server] # "NONE" THEN 0 ELSE -1]
  /\ \/ /\ "ep_create" \in Faults
        /\ Jump(Server, AfterRun(Server, ret'[Server]))
        /\ UNCHANGED ep
     \/ /\ ep' = [ep EXCEPT ![Server] = "open"]
        /\ Jump(Server, "alloc")
  /\ UNCHANGED <<config, requests, oob, worker, link, epStatus, buf, printed>>

(* mem_type_malloc and generate_test_string.  When the latter fails, the   *)
(* buffer is freed before the endpoint is closed.                          *)
ServerAlloc ==
  /\ pc[Server] = "alloc"
  /\ \/ /\ "malloc" \in Faults
        /\ ret' = [ret EXCEPT ![Server] = -1]
        /\ Jump(Server, "close")
        /\ UNCHANGED buf
     \/ /\ buf' = [buf EXCEPT ![Server] = TRUE]
        /\ ret' = [ret EXCEPT ![Server] = 0]
        /\ Jump(Server, IF mode[Server] = "RECV" THEN "sleep" ELSE "progress")
  /\ UNCHANGED <<config, endpoints, requests, oob, printed>>

(* sleep(10): nothing relates its end to what the client has done.         *)
ServerSleep ==
  /\ pc[Server] = "sleep"
  /\ Jump(Server, "progress")
  /\ UNCHANGED <<config, endpoints, requests, oob, ret, buf, printed>>

ServerSend ==
  /\ pc[Server] = "progress"
  /\ SendNbx(Server)
  /\ Jump(Server, "wait_send")
  /\ UNCHANGED <<config, endpoints, oob, completed, ret, buf, printed>>

(* Mutant: without -e, the failure is awaited after a send that succeeded. *)
ServerSentInverted ==
  /\ pc[Server] = "wait_send" /\ WaitReturns(Server)
  /\ FreeRequest(Server)
  /\ ret' = [ret EXCEPT ![Server] = 0]
  /\ Jump(Server, IF op[Server].st = "OK" /\ mode[Server] = "NONE"
                    THEN "await_failure" ELSE "flush")
  /\ UNCHANGED <<config, endpoints, oob, sent, printed, buf>>

(* A failed send ends with -1 if a failure was asked for, otherwise with 0 *)
(* once failure_handler was called.                                        *)
ServerSent ==
  /\ pc[Server] = "wait_send" /\ WaitReturns(Server)
  /\ FreeRequest(Server)
  /\ \/ /\ op[Server].st # "OK" /\ mode[Server] # "NONE"
        /\ ret' = [ret EXCEPT ![Server] = -1]
        /\ buf' = [buf EXCEPT ![Server] = FALSE]
        /\ Jump(Server, "close")
     \/ /\ op[Server].st # "OK" /\ mode[Server] = "NONE"
        /\ ret' = [ret EXCEPT ![Server] = 0]
        /\ Jump(Server, "await_failure")
        /\ UNCHANGED buf
     \/ /\ op[Server].st = "OK"
        /\ Jump(Server, IF mode[Server] = "KEEPALIVE" THEN "keepalive" ELSE "flush")
        /\ UNCHANGED <<ret, buf>>
  /\ UNCHANGED <<config, endpoints, oob, sent, printed>>

(* Mutant: goto err_ep instead of err_free_mem_type_msg.                   *)
ServerFailureSeenKeepingBuffer ==
  /\ pc[Server] = "await_failure" /\ epStatus[Server] # "OK"
  /\ Jump(Server, "close")
  /\ UNCHANGED <<config, endpoints, requests, oob, ret, buf, printed>>

(* while (ep_status == UCS_OK) after the failed send ...                   *)
ServerFailureSeen ==
  /\ pc[Server] = "await_failure" /\ epStatus[Server] # "OK"
  /\ buf' = [buf EXCEPT ![Server] = FALSE]
  /\ Jump(Server, "close")
  /\ UNCHANGED <<config, endpoints, requests, oob, ret, printed>>

(* ... and in keepalive mode, until the client is known to be dead.        *)
ServerPeerDead ==
  /\ pc[Server] = "keepalive" /\ epStatus[Server] # "OK"
  /\ Jump(Server, "flush")
  /\ UNCHANGED <<config, endpoints, requests, oob, ret, buf, printed>>

ServerFlush ==
  /\ pc[Server] = "flush"
  /\ NbxReturns(Server, "flush")
  /\ Jump(Server, "wait_flush")
  /\ UNCHANGED <<config, endpoints, oob, sent, completed, ret, buf, printed>>

(* The status of the flush is only printed.                                *)
ServerFlushed ==
  /\ pc[Server] = "wait_flush" /\ StatusReturns(Server, "flush")
  /\ op' = [op EXCEPT ![Server] = NoOp]
  /\ ret' = [ret EXCEPT ![Server] = 0]
  /\ buf' = [buf EXCEPT ![Server] = FALSE]
  /\ Jump(Server, "close")
  /\ UNCHANGED <<config, endpoints, oob, sent, completed, printed>>

RunServer ==
  \/ ServerProbe \/ ServerRecv \/ ServerReceived \/ ServerEpCreate
  \/ ServerAlloc \/ ServerSleep \/ ServerSend \/ ServerSent
  \/ ServerFailureSeen \/ ServerPeerDead \/ ServerFlush \/ ServerFlushed
=============================================================================
