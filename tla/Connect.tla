------------------------------ MODULE Connect -------------------------------
(***************************************************************************)
(* connect_common, connect_server and connect_client of ucx_utils.cpp: the *)
(* loops over the address list that getaddrinfo returns, with the table of *)
(* descriptors and the list they leave behind.  The client and the server  *)
(* run concurrently; each may be the program that calls connect_common     *)
(* (ucp_hello_world_v2.cpp) or one that calls its own function             *)
(* (simple_ucp_server.cpp, simple_ucp_client.cpp).                         *)
(***************************************************************************)
EXTENDS Integers

CONSTANTS
  NAddr,         (* the length of each address list                        *)
  Fd,            (* the descriptors a program may have                     *)
  Others,        (* those it has open already: stdio, UCX                  *)
  Faults,        (* the calls that may fail for no reason shown here       *)
  ServerFirst    (* the client is only started once the server listens     *)

Calls == {"getaddrinfo", "socket", "setsockopt", "bind", "listen", "accept", "connect"}

ASSUME NAddrAssumption == NAddr \in Nat \ {0}
ASSUME FdAssumption == Fd \subseteq Nat
ASSUME OthersAssumption == Others \subseteq Fd
ASSUME FaultsAssumption == Faults \subseteq Calls
ASSUME ServerFirstAssumption == ServerFirst \in BOOLEAN

VARIABLES
  common,     (* whether the program calls connect_common                  *)
  usable,     (* the addresses that the program can bind or reach          *)
  pc,         (* the next call                                             *)
  t,          (* the current address, NAddr + 1 for the end of the list    *)
  sockfd,     (* the result, -1 for failure                                *)
  listenfd,   (* the listening socket                                      *)
  res,        (* the address list: "none", "held", "freed"                 *)
  kind        (* the kernel's table of descriptors                         *)

env == <<common, usable>>
vars == <<common, usable, pc, t, sockfd, listenfd, res, kind>>

Client == "client"
Server == "server"
Proc == {Client, Server}

Init ==
  /\ common \in [Proc -> BOOLEAN]
  /\ usable \in [Proc -> SUBSET (1..NAddr)]
  /\ pc = [p \in Proc |-> "getaddrinfo"]
  /\ t = [p \in Proc |-> 0]
  /\ sockfd = [p \in Proc |-> -1]
  /\ listenfd = [p \in Proc |-> -1]
  /\ res = [p \in Proc |-> "none"]
  /\ kind = [p \in Proc |-> [f \in Fd |-> IF f \in Others THEN "other" ELSE "free"]]
-----------------------------------------------------------------------------
Jump(p, label) == pc' = [pc EXCEPT ![p] = label]

(* POSIX: a new descriptor is the lowest one that is free.                 *)
NewFd(p, f) ==
  /\ kind[p][f] = "free"
  /\ \A g \in Fd : g < f => kind[p][g] # "free"

TableFull(p) == \A f \in Fd : kind[p][f] # "free"

(* Mutant: the failed socket is closed but sockfd keeps its number.        *)
CloseAndKeep(p, label) ==
  /\ kind' = [kind EXCEPT ![p][sockfd[p]] = "free"]
  /\ t' = [t EXCEPT ![p] = @ + 1]
  /\ Jump(p, label)
  /\ UNCHANGED <<env, sockfd, listenfd, res>>

(* close(sockfd); sockfd = -1; and on with the next address.               *)
CloseAndGo(p, label) ==
  /\ kind' = [kind EXCEPT ![p][sockfd[p]] = "free"]
  /\ sockfd' = [sockfd EXCEPT ![p] = -1]
  /\ t' = [t EXCEPT ![p] = @ + 1]
  /\ Jump(p, label)
  /\ UNCHANGED <<env, listenfd, res>>

(* err_close_sockfd, which gives up: the rest of the list is not tried.    *)
CloseAndGiveUp(p) ==
  /\ kind' = [kind EXCEPT ![p][sockfd[p]] = "free"]
  /\ sockfd' = [sockfd EXCEPT ![p] = -1]
  /\ Jump(p, "freeaddrinfo")
  /\ UNCHANGED <<env, t, listenfd, res>>

GetAddrInfo(p) ==
  /\ pc[p] = "getaddrinfo"
  /\ (ServerFirst /\ p = Client) => pc[Server] = "accept"
  /\ \/ /\ res' = [res EXCEPT ![p] = "held"]
        /\ t' = [t EXCEPT ![p] = 1]
        /\ Jump(p, "socket")
     \/ /\ "getaddrinfo" \in Faults
        /\ Jump(p, "returned")
        /\ UNCHANGED <<t, res>>
  /\ UNCHANGED <<env, sockfd, listenfd, kind>>

Socket(p) ==
  /\ pc[p] = "socket" /\ t[p] <= NAddr
  /\ \/ \E f \in Fd :
          /\ NewFd(p, f)
          /\ sockfd' = [sockfd EXCEPT ![p] = f]
          /\ kind' = [kind EXCEPT ![p][f] = "socket"]
          /\ Jump(p, IF p = Client THEN "connect" ELSE "setsockopt")
          /\ UNCHANGED t
     \/ /\ "socket" \in Faults \/ TableFull(p)
        /\ sockfd' = [sockfd EXCEPT ![p] = -1]
        /\ t' = [t EXCEPT ![p] = @ + 1]
        /\ UNCHANGED <<pc, kind>>
  /\ UNCHANGED <<env, listenfd, res>>

(* The end of the list, with sockfd = -1.                                  *)
EndOfList(p) ==
  /\ pc[p] = "socket" /\ t[p] > NAddr
  /\ Jump(p, "return")
  /\ UNCHANGED <<env, t, sockfd, listenfd, res, kind>>
-----------------------------------------------------------------------------
(* Mutant: the client gives up at the first address that refuses.          *)
ConnectOnce(p) ==
  /\ pc[p] = "connect"
  /\ \/ /\ t[p] \in usable[p] /\ pc[Server] = "accept"
        /\ kind' = [kind EXCEPT ![p][sockfd[p]] = "connected"]
        /\ Jump(p, "return")
        /\ UNCHANGED <<env, t, sockfd, listenfd, res>>
     \/ /\ "connect" \in Faults \/ t[p] \notin usable[p] \/ pc[Server] # "accept"
        /\ CloseAndGiveUp(p)

(* connect: only an address that reaches the listening server accepts.     *)
ConnectTo(p) ==
  /\ pc[p] = "connect"
  /\ \/ /\ t[p] \in usable[p] /\ pc[Server] = "accept"
        /\ kind' = [kind EXCEPT ![p][sockfd[p]] = "connected"]
        /\ Jump(p, "return")
        /\ UNCHANGED <<env, t, sockfd, listenfd, res>>
     \/ /\ "connect" \in Faults \/ t[p] \notin usable[p] \/ pc[Server] # "accept"
        /\ CloseAndGo(p, "socket")

SetSockOpt(p) ==
  /\ pc[p] = "setsockopt"
  /\ \/ Jump(p, "bind") /\ UNCHANGED <<env, t, sockfd, listenfd, res, kind>>
     \/ "setsockopt" \in Faults /\ CloseAndGiveUp(p)

Bind(p) ==
  /\ pc[p] = "bind"
  /\ \/ /\ t[p] \in usable[p]
        /\ Jump(p, "listen")
        /\ UNCHANGED <<env, t, sockfd, listenfd, res, kind>>
     \/ /\ "bind" \in Faults \/ t[p] \notin usable[p]
        /\ CloseAndGo(p, "socket")

ListenOn(p) ==
  /\ pc[p] = "listen"
  /\ \/ /\ kind' = [kind EXCEPT ![p][sockfd[p]] = "listening"]
        /\ listenfd' = [listenfd EXCEPT ![p] = sockfd[p]]
        /\ Jump(p, "accept")
        /\ UNCHANGED <<env, t, sockfd, res>>
     \/ "listen" \in Faults /\ CloseAndGiveUp(p)

(* The statements after the loop.                                          *)
Ending == {"return", "freeaddrinfo", "returned"}

(* A connection is waiting to be accepted.                                 *)
Pending ==
  pc[Client] \in Ending /\ sockfd[Client] # -1

(* Mutant: only the accepted connection is kept in mind.                   *)
AcceptKeepingListener(p) ==
  /\ pc[p] = "accept"
  /\ \/ \E f \in Fd :
          /\ Pending /\ NewFd(p, f)
          /\ sockfd' = [sockfd EXCEPT ![p] = f]
          /\ kind' = [kind EXCEPT ![p][f] = "connected"]
     \/ /\ "accept" \in Faults \/ TableFull(p)
        /\ sockfd' = [sockfd EXCEPT ![p] = -1]
        /\ kind' = [kind EXCEPT ![p][listenfd[p]] = "free"]
  /\ Jump(p, "return")
  /\ UNCHANGED <<env, t, listenfd, res>>

(* accept, then close(listenfd) whatever it returned.                      *)
AcceptOne(p) ==
  /\ pc[p] = "accept"
  /\ \/ \E f \in Fd :
          /\ Pending /\ NewFd(p, f)
          /\ sockfd' = [sockfd EXCEPT ![p] = f]
          /\ kind' = [kind EXCEPT ![p][f] = "connected", ![p][listenfd[p]] = "free"]
     \/ /\ "accept" \in Faults \/ TableFull(p)
        /\ sockfd' = [sockfd EXCEPT ![p] = -1]
        /\ kind' = [kind EXCEPT ![p][listenfd[p]] = "free"]
  /\ Jump(p, "return")
  /\ UNCHANGED <<env, t, listenfd, res>>
-----------------------------------------------------------------------------
(* Mutant: connect_common returns like the other two.                      *)
ReturnKeepingList(p) ==
  /\ pc[p] = "return"
  /\ Jump(p, "returned")
  /\ UNCHANGED <<env, t, sockfd, listenfd, res, kind>>

(* connect_common falls through to freeaddrinfo; the others return above   *)
(* it and keep the list.                                                   *)
Return(p) ==
  /\ pc[p] = "return"
  /\ Jump(p, IF common[p] THEN "freeaddrinfo" ELSE "returned")
  /\ UNCHANGED <<env, t, sockfd, listenfd, res, kind>>

FreeAddrInfo(p) ==
  /\ pc[p] = "freeaddrinfo"
  /\ res' = [res EXCEPT ![p] = "freed"]
  /\ Jump(p, "returned")
  /\ UNCHANGED <<env, t, sockfd, listenfd, kind>>

Loop(p) == GetAddrInfo(p) \/ Socket(p) \/ EndOfList(p) \/ Return(p) \/ FreeAddrInfo(p)

ServerStep ==
  \/ Loop(Server) \/ SetSockOpt(Server) \/ Bind(Server) \/ ListenOn(Server)
  \/ AcceptOne(Server)

ClientStep == Loop(Client) \/ ConnectTo(Client)

Next == ServerStep \/ ClientStep

Spec == Init /\ [][Next]_vars

(* The operating system runs both programs.                                *)
FairSpec == Spec /\ WF_vars(ServerStep) /\ WF_vars(ClientStep)
-----------------------------------------------------------------------------
Labels == Calls \cup {"return", "freeaddrinfo", "returned"}

Kinds == {"free", "other", "socket", "listening", "connected"}

Table == [Proc -> [Fd -> Kinds]]

(* Type invariant.                                                         *)
TypeOK ==
  /\ common \in [Proc -> BOOLEAN]
  /\ usable \in [Proc -> SUBSET (1..NAddr)]
  /\ pc \in [Proc -> Labels]
  /\ t \in [Proc -> 0..NAddr + 1]
  /\ sockfd \in [Proc -> Fd \cup {-1}]
  /\ listenfd \in [Proc -> Fd \cup {-1}]
  /\ res \in [Proc -> {"none", "held", "freed"}]
  /\ kind \in Table

(* The descriptors a program holds besides those of its caller.            *)
Opened(p) == {f \in Fd : kind[p][f] \notin {"free", "other"}}

(* "The socket file descriptor on success, or -1 on failure"               *)
(* (ucx_utils.h:50): on return the connection is the only descriptor that  *)
(* is left of the attempts, and -1 leaves none; the caller's are untouched.*)
OnlyConnectionOpen ==
  \A p \in Proc :
    /\ \A f \in Others : kind[p][f] = "other"
    /\ pc[p] = "returned" =>
         IF sockfd[p] = -1
           THEN Opened(p) = {}
           ELSE Opened(p) = {sockfd[p]} /\ kind[p][sockfd[p]] = "connected"

(* A program that never listened nor connected has tried every address of  *)
(* the list, unless it gave up in setsockopt or listen.                    *)
AllAddressesTried ==
  \A p \in Proc :
    (/\ pc[p] = "returned" /\ sockfd[p] = -1 /\ res[p] # "none"
     /\ listenfd[p] = -1 /\ Faults \cap {"setsockopt", "listen"} = {})
      => t[p] = NAddr + 1

(* connect_common gives the address list back on every path; a path that   *)
(* frees it in one of the other two functions is a failure.                *)
ListFreed ==
  \A p \in Proc :
    pc[p] = "returned" =>
      /\ common[p] => res[p] # "held"
      /\ ~common[p] /\ res[p] = "freed" => sockfd[p] = -1

(* Each program's side of the connection, as main sees it.                 *)
Side(p) ==
  CASE pc[p] = "accept" -> "listening"
    [] pc[p] \in Ending /\ sockfd[p] # -1 -> "connected"
    [] pc[p] \in Ending /\ sockfd[p] = -1 /\ listenfd[p] # -1 -> "closed"
    [] OTHER -> "none"

sides == [p \in Proc |-> Side(p)]

D == INSTANCE Dial WITH sock <- sides

(* The loops implement the connection that HelloUcp takes as one step.     *)
ImplementsDial == D!Spec

(* Started in the documented order, with one usable address on each side   *)
(* anywhere in the lists, room for two descriptors and calls that work,    *)
(* both programs get their connection.                                     *)
BothConnect ==
  (\A p \in Proc : usable[p] # {}) =>
    <>[](\A p \in Proc : pc[p] = "returned" /\ sockfd[p] # -1)
-----------------------------------------------------------------------------
(* The inductive invariant.  A program holds at most one descriptor of its *)
(* own, in sockfd, and what it is depends on the next call.                *)
KindAt(label) ==
  CASE label \in {"connect", "setsockopt", "bind", "listen"} -> "socket"
    [] label = "accept" -> "listening"
    [] OTHER -> "connected"

Attempting == {"connect", "setsockopt", "bind", "listen", "accept"}

DescriptorOK(p) ==
  /\ \A f \in Fd :
       kind[p][f] = IF f \in Others THEN "other"
                    ELSE IF f = sockfd[p] THEN KindAt(pc[p])
                    ELSE "free"
  /\ sockfd[p] \notin Others
  /\ pc[p] \in {"getaddrinfo", "socket"} => sockfd[p] = -1
  /\ pc[p] \in Attempting => sockfd[p] # -1
  /\ pc[p] = "accept" => listenfd[p] = sockfd[p]
  /\ pc[p] \notin Ending \cup {"accept"} => listenfd[p] = -1

(* A program that found no address has been through the whole list.        *)
Exhausted(p) ==
  (/\ sockfd[p] = -1 /\ res[p] # "none" /\ listenfd[p] = -1
   /\ Faults \cap {"setsockopt", "listen"} = {})
    => t[p] = NAddr + 1

ListOK(p) ==
  /\ pc[p] = "getaddrinfo" => res[p] = "none"
  /\ pc[p] \in Attempting \cup {"socket", "return", "freeaddrinfo"} => res[p] = "held"
  /\ pc[p] \in Attempting => t[p] <= NAddr
  /\ pc[p] = "freeaddrinfo" /\ ~common[p] => sockfd[p] = -1
  /\ pc[p] = "returned" /\ common[p] => res[p] # "held"
  /\ pc[p] = "returned" /\ ~common[p] /\ res[p] = "freed" => sockfd[p] = -1
  /\ pc[p] \in Ending => Exhausted(p)

IInv == TypeOK /\ \A p \in Proc : DescriptorOK(p) /\ ListOK(p)
=============================================================================
