------------------------------ MODULE Transfer ------------------------------
(***************************************************************************)
(* What the pair of programs promises without -e: the string is printed    *)
(* before either program agrees to end, and a program reports success only *)
(* when both have agreed.  HelloUcp implements this with the run and the   *)
(* barrier: a program agrees when it writes its int to the socket.         *)
(***************************************************************************)
VARIABLES
  printed,    (* whether the client has printed the string                 *)
  agreed,     (* the programs that have finished their part                *)
  outcome     (* of each program: "none", "success", "failure", "killed"   *)

vars == <<printed, agreed, outcome>>

Client == "client"
Server == "server"
Proc == {Client, Server}

Init ==
  /\ printed = FALSE
  /\ agreed = {}
  /\ outcome = [p \in Proc |-> "none"]

PrintString ==
  /\ ~printed /\ agreed \subseteq {Server} /\ outcome[Client] = "none"
  /\ printed' = TRUE
  /\ UNCHANGED <<agreed, outcome>>

(* The server may agree before the client, but only the client prints.     *)
Agree(p) ==
  /\ p \notin agreed /\ outcome[p] = "none"
  /\ p = Client => printed
  /\ agreed' = agreed \cup {p}
  /\ UNCHANGED <<printed, outcome>>

Succeed(p) ==
  /\ agreed = Proc /\ outcome[p] = "none"
  /\ outcome' = [outcome EXCEPT ![p] = "success"]
  /\ UNCHANGED <<printed, agreed>>

(* A program gives up, before or after it has agreed.                      *)
Fail(p) ==
  /\ outcome[p] = "none"
  /\ outcome' = [outcome EXCEPT ![p] = "failure"]
  /\ UNCHANGED <<printed, agreed>>

(* What a killed program was about to report is not heard.                 *)
Die(p) ==
  /\ outcome[p] # "killed"
  /\ outcome' = [outcome EXCEPT ![p] = "killed"]
  /\ UNCHANGED <<printed, agreed>>

Next ==
  \/ PrintString
  \/ \E p \in Proc : Agree(p) \/ Succeed(p) \/ Fail(p) \/ Die(p)

Spec == Init /\ [][Next]_vars
=============================================================================
