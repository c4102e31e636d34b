-------------------------------- MODULE Dial --------------------------------
(***************************************************************************)
(* What connecting the two programs promises to main: at most one TCP      *)
(* connection, which the server has only if the client took its side of it *)
(* while the server was listening; a side that was closed stays closed.    *)
(* Connect implements it with the loops of ucx_utils.cpp, HelloUcp with    *)
(* the life of the socket in main.                                         *)
(***************************************************************************)
VARIABLE sock   (* each program's side of the connection                   *)

Client == "client"
Server == "server"
Proc == {Client, Server}

Init == sock = [p \in Proc |-> "none"]

Listen ==
  /\ sock[Server] = "none"
  /\ sock' = [sock EXCEPT ![Server] = "listening"]

(* The kernel completes the connection to a listening socket.              *)
Connect ==
  /\ sock[Client] = "none" /\ sock[Server] = "listening"
  /\ sock' = [sock EXCEPT ![Client] = "connected"]

(* The connection waits to be accepted even if the client has closed it.   *)
Accept ==
  /\ sock[Server] = "listening" /\ sock[Client] # "none"
  /\ sock' = [sock EXCEPT ![Server] = "connected"]

Hangup(p) ==
  /\ sock[p] \in {"listening", "connected"}
  /\ sock' = [sock EXCEPT ![p] = "closed"]

Next == Listen \/ Connect \/ Accept \/ \E p \in Proc : Hangup(p)

Spec == Init /\ [][Next]_sock
=============================================================================
