----------------------------- MODULE MCHelloUcp -----------------------------
(***************************************************************************)
(* Instances of HelloUcp for TLC.                                          *)
(***************************************************************************)
EXTENDS HelloUcpInv

BothInMode(M) == {[p \in Proc |-> m] : m \in M}

(* The two programs are started with the same -e option, as documented.    *)
NoFailure == BothInMode({"NONE"})
SameFailure == BothInMode(FailureModes \ {"NONE"})

(* Every pair of -e options.                                               *)
AnyModes == [Proc -> FailureModes]

(* The client is started with -e.  "recv" and "keepalive" kill it, so the  *)
(* server's other modes are of interest for the client of "send".          *)
ClientWithE ==
  {m \in AnyModes : m[Client] = "SEND"
                    \/ (m[Client] # "NONE" /\ m[Server] \in {m[Client], "NONE"})}

(* Both programs come from ucp_hello_world_v2.cpp; both from one of the two*)
(* sources; any mixture.                                                   *)
HelloOnly == [Proc -> {"hello_ucp"}]
OnePair == {[p \in Proc |-> a] : a \in {"hello_ucp", "run_ucp"}}
AnyApps == [Proc -> {"hello_ucp", "run_ucp"}]
=============================================================================
