------------------------------ MODULE BringUp -------------------------------
(***************************************************************************)
(* What the programs create before they meet their peer and release on     *)
(* every way out: main of ucp_hello_world_v2.cpp, simple_ucp_server.cpp,   *)
(* simple_ucp_client.cpp and hello_ucx.cpp, each as the list of its steps  *)
(* with the goto label that each step fails to.  One program runs; what    *)
(* its peer does is the result of a call, and what the run does in between *)
(* is in HelloUcp.                                                         *)
(***************************************************************************)
EXTENDS Integers

CONSTANT AddrLen      (* the length of the peer's UCX address              *)

ASSUME AddrLenAssumption == AddrLen \in Nat \ {0}

Programs == {"ucp_hello_v2", "run_ucp_server", "run_ucp_client", "hello_ucx"}

(* client_addr is runServer's own copy of the client's address, the others *)
(* are main's.                                                             *)
Handles ==
  {"config", "context", "worker", "local_addr", "peer_addr", "socket", "client_addr"}

VARIABLES
  prog,       (* the program                                               *)
  named,      (* whether -n gave it a server, which makes it a client      *)
  failing,    (* whether -e asked for a failure                            *)
  pc,         (* the next step                                             *)
  ret,        (* what main is to return                                    *)
  alive,      (* the handles that were created and not yet released        *)
  failed      (* the step that failed, "none" if none did                  *)

vars == <<prog, named, failing, pc, ret, alive, failed>>

config == <<prog, named, failing>>

LenBytes == 8      (* sizeof(uint64_t) *)

(* hello_ucx has no ret: its status is a failure until it is UCS_OK.       *)
Init ==
  /\ prog \in Programs
  /\ named \in (IF prog \in {"ucp_hello_v2", "run_ucp_client"} THEN BOOLEAN ELSE {FALSE})
  /\ failing \in (IF prog = "hello_ucx" THEN {FALSE} ELSE BOOLEAN)
  /\ pc = IF prog = "hello_ucx" THEN "config_read" ELSE "parse_cmd"
  /\ ret = IF prog = "hello_ucx" THEN 1 ELSE -1
  /\ alive = {}
  /\ failed = "none"
-----------------------------------------------------------------------------
(* The outcomes of a step: it is done and main goes on, it has created a   *)
(* handle, or it has failed.                                               *)
Done(next) == pc' = next /\ UNCHANGED <<alive, failed>>

Created(h, next) == pc' = next /\ alive' = alive \cup {h} /\ UNCHANGED failed

Failed(label) == pc' = label /\ failed' = pc /\ UNCHANGED alive

Released(h, next) == pc' = next /\ alive' = alive \ {h} /\ UNCHANGED <<failed, ret>>

ParseCmd ==
  /\ pc = "parse_cmd"
  /\ Done("config_read") \/ Failed("err")
  /\ UNCHANGED <<config, ret>>

ConfigRead ==
  /\ pc = "config_read"
  /\ Created("config", "init") \/ Failed("err")
  /\ UNCHANGED <<config, ret>>

(* The configuration is released whether or not ucp_init succeeded.        *)
UcpInit(next) ==
  /\ pc = "init"
  /\ \/ alive' = (alive \ {"config"}) \cup {"context"} /\ pc' = next /\ UNCHANGED failed
     \/ alive' = alive \ {"config"} /\ pc' = "err" /\ failed' = pc
  /\ UNCHANGED <<config, ret>>

(* Mutant: every failure after ucp_init jumps to the same label.           *)
WorkerCreateToWorker ==
  /\ pc = "worker_create"
  /\ Created("worker", "worker_query") \/ Failed("err_worker")
  /\ UNCHANGED <<config, ret>>

WorkerCreate ==
  /\ pc = "worker_create"
  /\ Created("worker", "worker_query") \/ Failed("err_cleanup")
  /\ UNCHANGED <<config, ret>>

(* Mutant: the label of the step before.                                   *)
WorkerQueryToCleanup ==
  /\ pc = "worker_query"
  /\ Created("local_addr", "connect") \/ Failed("err_cleanup")
  /\ UNCHANGED <<config, ret>>

WorkerQuery ==
  /\ pc = "worker_query"
  /\ Created("local_addr", "connect") \/ Failed("err_worker")
  /\ UNCHANGED <<config, ret>>

(* connect_common(NULL) or connect_server.                                 *)
Listen ==
  /\ pc = "connect" /\ ~named
  /\ Created("socket", "send_len") \/ Failed("err_peer_addr")
  /\ UNCHANGED <<config, ret>>

(* Mutant: ret counts the bytes of both sends.                             *)
SendCounts(at, length, next) ==
  /\ pc = at
  /\ \/ ret' = ret + length /\ Done(next)
     \/ ret' = -1 /\ Failed("err_peer_addr")
  /\ UNCHANGED config

(* send takes all of it on a blocking socket, or fails.                    *)
Send(at, length, next) ==
  /\ pc = at
  /\ \/ ret' = length /\ Done(next)
     \/ ret' = -1 /\ Failed("err_peer_addr")
  /\ UNCHANGED config

SendLength == Send("send_len", LenBytes, "send_addr")
SendAddress == Send("send_addr", AddrLen, "run")

(* connect_common(server) or connect_client.                               *)
Connect ==
  /\ pc = "connect" /\ named
  /\ Created("socket", "recv_len") \/ Failed("err_addr")
  /\ UNCHANGED <<config, ret>>

(* recv returns how much came before the stream ended, and main returns it.*)
Recv(at, length, next, label) ==
  /\ pc = at
  /\ \/ ret' = length /\ Done(next)
     \/ ret' \in {-1} \cup 0..length - 1 /\ Failed(label)
  /\ UNCHANGED config

(* Mutant: ret is only for what has failed.                                *)
RecvLengthReset ==
  /\ pc = "recv_len"
  /\ \/ ret' = 0 /\ Done("malloc")
     \/ ret' \in {-1} \cup 0..LenBytes - 1 /\ Failed("err_addr")
  /\ UNCHANGED config

RecvLength == Recv("recv_len", LenBytes, "malloc", "err_addr")

AllocPeerAddr ==
  /\ pc = "malloc"
  /\ Created("peer_addr", "recv_addr") \/ Failed("err_addr")
  /\ UNCHANGED <<config, ret>>

RecvAddress == Recv("recv_addr", AddrLen, "run", "err_peer_addr")

(* "Server name not provided", found out after everything was created.     *)
NoName ==
  /\ pc = "connect" /\ ~named
  /\ Failed("err")
  /\ UNCHANGED <<config, ret>>

(* What runServer allocates and nobody frees.                              *)
RunLeaves == IF named THEN {} ELSE {"client_addr"}

(* runServer or runUcxClient returns, on success with all of it done.      *)
Run(next) ==
  /\ pc = "run"
  /\ \/ /\ ret' = 0 /\ pc' = IF failing THEN next ELSE "barrier"
        /\ alive' = alive \cup RunLeaves /\ UNCHANGED failed
     \/ /\ ret' = -1 /\ pc' = next
        /\ alive' \in {alive, alive \cup RunLeaves} /\ failed' = pc
  /\ UNCHANGED config

Barrier(next) ==
  /\ pc = "barrier"
  /\ \/ ret' = 0 /\ Done(next)
     \/ ret' \in {-1, 1} /\ Failed(next)
  /\ UNCHANGED config

CloseOob == pc = "close" /\ Released("socket", "err_peer_addr") /\ UNCHANGED config

(* free(peer_addr), which may be NULL, and what the labels below it do.    *)
FreePeerAddr(next) ==
  pc = "err_peer_addr" /\ Released("peer_addr", next) /\ UNCHANGED config

ReleaseAddress == pc = "err_addr" /\ Released("local_addr", "err_worker") /\ UNCHANGED config

WorkerDestroy == pc = "err_worker" /\ Released("worker", "err_cleanup") /\ UNCHANGED config

Cleanup == pc = "err_cleanup" /\ Released("context", "err") /\ UNCHANGED config

(* hello_ucx prints its line, releases the context and returns UCS_OK.     *)
CleanupOK ==
  /\ pc = "err_cleanup"
  /\ ret' = 0 /\ pc' = "err" /\ alive' = alive \ {"context"}
  /\ UNCHANGED <<config, failed>>

Return == pc = "err" /\ Done("returned") /\ UNCHANGED <<config, ret>>
-----------------------------------------------------------------------------
HelloV2 ==
  /\ prog = "ucp_hello_v2"
  /\ \/ ParseCmd \/ ConfigRead \/ UcpInit("worker_create") \/ WorkerCreate \/ WorkerQuery
     \/ Connect \/ RecvLength \/ AllocPeerAddr \/ RecvAddress
     \/ Listen \/ SendLength \/ SendAddress
     \/ Run("close") \/ Barrier("close") \/ CloseOob
     \/ FreePeerAddr("err_addr") \/ ReleaseAddress \/ WorkerDestroy \/ Cleanup \/ Return

(* simple_ucp_server.cpp neither closes the socket nor has a label for its *)
(* local address.                                                          *)
SimpleServer ==
  /\ prog = "run_ucp_server"
  /\ \/ ParseCmd \/ ConfigRead \/ UcpInit("worker_create") \/ WorkerCreate \/ WorkerQuery
     \/ Listen \/ SendLength \/ SendAddress
     \/ Run("err_peer_addr") \/ Barrier("err_peer_addr")
     \/ FreePeerAddr("err_worker") \/ WorkerDestroy \/ Cleanup \/ Return

(* simple_ucp_client.cpp does not close the socket either, and without a   *)
(* name it leaves below all labels but the last.                           *)
SimpleClient ==
  /\ prog = "run_ucp_client"
  /\ \/ ParseCmd \/ ConfigRead \/ UcpInit("worker_create") \/ WorkerCreate \/ WorkerQuery
     \/ Connect \/ RecvLength \/ AllocPeerAddr \/ RecvAddress \/ NoName
     \/ Run("err_peer_addr") \/ Barrier("err_peer_addr")
     \/ FreePeerAddr("err_addr") \/ ReleaseAddress \/ WorkerDestroy \/ Cleanup \/ Return

HelloUcx ==
  /\ prog = "hello_ucx"
  /\ ConfigRead \/ UcpInit("err_cleanup") \/ CleanupOK \/ Return

Next == HelloV2 \/ SimpleServer \/ SimpleClient \/ HelloUcx

Spec == Init /\ [][Next]_vars
-----------------------------------------------------------------------------
Labels ==
  {"parse_cmd", "config_read", "init", "worker_create", "worker_query", "connect",
   "send_len", "send_addr", "recv_len", "malloc", "recv_addr", "run", "barrier", "close",
   "err_peer_addr", "err_addr", "err_worker", "err_cleanup", "err", "returned"}

(* Type invariant.                                                         *)
TypeOK ==
  /\ prog \in Programs /\ named \in BOOLEAN /\ failing \in BOOLEAN
  /\ pc \in Labels
  /\ ret \in -1..LenBytes \cup 0..AddrLen
  /\ alive \subseteq Handles
  /\ failed \in Labels \cup {"none"}

Needs(at, handles) == pc = at => handles \subseteq alive

(* A call is given only handles that were created and not yet released:    *)
(* whichever step fails, the labels that main then runs through release    *)
(* nothing that does not exist, and nothing before what was made from it.  *)
HandlesAlive ==
  /\ Needs("init", {"config"})
  /\ Needs("worker_create", {"context"})
  /\ Needs("worker_query", {"context", "worker"})
  /\ Needs("send_len", {"socket"}) /\ Needs("send_addr", {"socket", "local_addr"})
  /\ Needs("recv_len", {"socket"}) /\ Needs("recv_addr", {"socket", "peer_addr"})
  /\ Needs("run", {"context", "worker", "local_addr"})
  /\ named => Needs("run", {"peer_addr"})
  /\ Needs("barrier", {"socket", "context", "worker"})
  /\ Needs("close", {"socket"})
  /\ Needs("err_addr", {"context", "worker", "local_addr"})
  /\ Needs("err_worker", {"context", "worker"})
  /\ Needs("err_cleanup", {"context"})

(* A server that got into its run.                                         *)
ServerRan ==
  /\ prog = "run_ucp_server" \/ (prog = "ucp_hello_v2" /\ ~named)
  /\ failed \in {"none", "run", "barrier"}

(* What a program may leave behind: hello_ucx nothing, ucp_hello_v2 the    *)
(* socket if it ends between the connection and the run, the server its    *)
(* local address and runServer's copy of the client's, the client without  *)
(* a name all that it has created.                                         *)
MayLeave ==
  (IF prog = "hello_ucx"
      \/ (prog = "ucp_hello_v2" /\ failed \notin {"send_len", "send_addr", "recv_len", "malloc", "recv_addr"})
     THEN {} ELSE {"socket"})
  \cup (IF prog = "run_ucp_server" THEN {"local_addr"} ELSE {})
  \cup (IF ServerRan THEN {"client_addr"} ELSE {})
  \cup (IF prog = "run_ucp_client" /\ ~named THEN {"context", "worker", "local_addr"} ELSE {})

(* Whichever step fails, main returns with everything released but that.   *)
LeftAtReturn == pc = "returned" => alive \subseteq MayLeave

(* The program's exit status, of which the system keeps eight bits, tells  *)
(* whether a step failed.  The exception is recv: when the stream ends     *)
(* early, the status is the number of bytes that came.                     *)
ExitTellsFailure ==
  pc = "returned" =>
    /\ failed = "none" => ret % 256 = 0
    /\ failed \notin {"none", "recv_len", "recv_addr"} => ret % 256 # 0
=============================================================================
