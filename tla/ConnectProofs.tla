--------------------------- MODULE ConnectProofs ----------------------------
(***************************************************************************)
(* Proofs about Connect, for address lists of any length, any table of     *)
(* descriptors, any set of failing calls and either start order.  A step   *)
(* belongs to one program and leaves the other's variables alone (Frame),  *)
(* so that each part of the invariant is proved for the program that moves.*)
(***************************************************************************)
EXTENDS Connect, TLAPS

(* The disjuncts of Next, for the program that takes the step.             *)
Act(p) ==
  \/ GetAddrInfo(p) \/ Socket(p) \/ EndOfList(p) \/ Return(p) \/ FreeAddrInfo(p)
  \/ p = Server /\ (SetSockOpt(p) \/ Bind(p) \/ ListenOn(p) \/ AcceptOne(p))
  \/ p = Client /\ ConnectTo(p)

LEMMA StepOfOne == Next => \E p \in Proc : Act(p)
BY DEF Next, ServerStep, ClientStep, Loop, Act, Proc

(* -1 is no descriptor.                                                    *)
LEMMA NoFd == -1 \notin Fd
BY FdAssumption

(* What a step of p leaves alone: the environment, and all that the other  *)
(* program has.                                                            *)
Frame(p) ==
  /\ UNCHANGED <<common, usable>>
  /\ \A q \in Proc \ {p} :
       /\ pc'[q] = pc[q] /\ t'[q] = t[q] /\ sockfd'[q] = sockfd[q]
       /\ listenfd'[q] = listenfd[q] /\ res'[q] = res[q] /\ kind'[q] = kind[q]

(* The kernel's table after a change to one descriptor.                    *)
LEMMA TableUpdate ==
  ASSUME NEW k \in Table, NEW p \in Proc, NEW f \in Fd, NEW v \in Kinds
  PROVE  [k EXCEPT ![p][f] = v] \in Table
<1> DEFINE row == [k[p] EXCEPT ![f] = v]
<1>1. row \in [Fd -> Kinds]
  BY DEF Table
<1>2. [k EXCEPT ![p] = row] \in Table
  BY <1>1 DEF Table
<1> QED
  BY <1>2

LEMMA StepFrame ==
  ASSUME TypeOK, NEW p \in Proc, Act(p)
  PROVE  Frame(p)
<1> USE DEF TypeOK, Table, Frame, env
<1>1. CASE GetAddrInfo(p)
  BY <1>1 DEF GetAddrInfo, Jump
<1>2. CASE Socket(p)
  BY <1>2 DEF Socket, Jump, NewFd
<1>3. CASE EndOfList(p)
  BY <1>3 DEF EndOfList, Jump
<1>4. CASE Return(p)
  BY <1>4 DEF Return, Jump
<1>5. CASE FreeAddrInfo(p)
  BY <1>5 DEF FreeAddrInfo, Jump
<1>6. CASE SetSockOpt(p)
  BY <1>6 DEF SetSockOpt, Jump, CloseAndGiveUp
<1>7. CASE Bind(p)
  BY <1>7 DEF Bind, Jump, CloseAndGo
<1>8. CASE ListenOn(p)
  BY <1>8 DEF ListenOn, Jump, CloseAndGiveUp
<1>9. CASE AcceptOne(p)
  BY <1>9 DEF AcceptOne, Jump, NewFd
<1>10. CASE ConnectTo(p)
  BY <1>10 DEF ConnectTo, Jump, CloseAndGo
<1> QED
  BY <1>1, <1>2, <1>3, <1>4, <1>5, <1>6, <1>7, <1>8, <1>9, <1>10 DEF Act

(* Type correctness.                                                       *)
LEMMA StepType ==
  ASSUME TypeOK, NEW p \in Proc, DescriptorOK(p), ListOK(p), Act(p)
  PROVE  TypeOK'
<1>0. pc[p] \in Attempting => sockfd[p] \in Fd /\ t[p] + 1 \in 0..NAddr + 1
  BY NAddrAssumption DEF TypeOK, DescriptorOK, ListOK
<1>a. pc[p] = "accept" => listenfd[p] \in Fd
  BY <1>0 DEF DescriptorOK, Attempting
<1>b. {"free", "socket", "listening", "connected"} \subseteq Kinds
  BY DEF Kinds
<1>c. ASSUME NEW f \in Fd, NEW v \in Kinds
      PROVE  [kind EXCEPT ![p][f] = v] \in Table
  BY <1>c, TableUpdate DEF TypeOK
<1>1. common' = common /\ usable' = usable
  BY StepFrame DEF Frame
<1>2. pc' \in [Proc -> Labels]
  BY DEF Act, GetAddrInfo, Socket, EndOfList, Return, FreeAddrInfo, SetSockOpt,
         Bind, ListenOn, AcceptOne, ConnectTo, CloseAndGo, CloseAndGiveUp, Jump, TypeOK, Labels, Calls
<1>3. t' \in [Proc -> 0..NAddr + 1]
  BY <1>0, NAddrAssumption DEF Act, GetAddrInfo, Socket, EndOfList, Return, FreeAddrInfo, SetSockOpt,
         Bind, ListenOn, AcceptOne, ConnectTo, CloseAndGo, CloseAndGiveUp, Jump, TypeOK, Attempting
<1>4. sockfd' \in [Proc -> Fd \cup {-1}]
  BY DEF Act, GetAddrInfo, Socket, EndOfList, Return, FreeAddrInfo, SetSockOpt,
         Bind, ListenOn, AcceptOne, ConnectTo, CloseAndGo, CloseAndGiveUp, Jump, TypeOK
<1>5. listenfd' \in [Proc -> Fd \cup {-1}]
  BY DEF Act, GetAddrInfo, Socket, EndOfList, Return, FreeAddrInfo, SetSockOpt,
         Bind, ListenOn, AcceptOne, ConnectTo, CloseAndGo, CloseAndGiveUp, Jump, TypeOK
<1>6. res' \in [Proc -> {"none", "held", "freed"}]
  BY DEF Act, GetAddrInfo, Socket, EndOfList, Return, FreeAddrInfo, SetSockOpt,
         Bind, ListenOn, AcceptOne, ConnectTo, CloseAndGo, CloseAndGiveUp, Jump, TypeOK
<1>7. kind' \in Table
  <2>1. CASE GetAddrInfo(p)
    BY <2>1 DEF GetAddrInfo, TypeOK
  <2>2. CASE Socket(p)
    BY <2>2, <1>b, <1>c DEF Socket, TypeOK
  <2>3. CASE EndOfList(p)
    BY <2>3 DEF EndOfList, TypeOK
  <2>4. CASE Return(p)
    BY <2>4 DEF Return, TypeOK
  <2>5. CASE FreeAddrInfo(p)
    BY <2>5 DEF FreeAddrInfo, TypeOK
  <2>6. CASE SetSockOpt(p)
    BY <2>6, <1>0, <1>b, <1>c DEF SetSockOpt, CloseAndGiveUp, Attempting, TypeOK
  <2>7. CASE Bind(p)
    BY <2>7, <1>0, <1>b, <1>c DEF Bind, CloseAndGo, Attempting, TypeOK
  <2>8. CASE ListenOn(p)
    BY <2>8, <1>0, <1>b, <1>c DEF ListenOn, CloseAndGiveUp, Attempting, TypeOK
  <2>9. CASE AcceptOne(p)
    <3>1. listenfd[p] \in Fd
      BY <2>9, <1>a DEF AcceptOne
    <3>2. ASSUME NEW f \in Fd, NEW v \in Kinds, NEW g \in Fd, NEW w \in Kinds
          PROVE  [kind EXCEPT ![p][f] = v, ![p][g] = w] \in Table
      <4>1. [[kind EXCEPT ![p][f] = v] EXCEPT ![p][g] = w] \in Table
        BY <1>c, TableUpdate
      <4> QED
        BY <4>1
    <3>3. ASSUME NEW f \in Fd,
                 kind' = [kind EXCEPT ![p][f] = "connected", ![p][listenfd[p]] = "free"]
          PROVE  kind' \in Table
      BY <1>b, <3>1, <3>2, <3>3
    <3>4. CASE kind' = [kind EXCEPT ![p][listenfd[p]] = "free"]
      BY <1>b, <1>c, <3>1, <3>4
    <3> QED
      BY <2>9, <3>3, <3>4 DEF AcceptOne
  <2>10. CASE ConnectTo(p)
    BY <2>10, <1>0, <1>b, <1>c DEF ConnectTo, CloseAndGo, Attempting, TypeOK
  <2> QED
    BY <2>1, <2>2, <2>3, <2>4, <2>5, <2>6, <2>7, <2>8, <2>9, <2>10 DEF Act
<1> QED
  BY <1>1, <1>2, <1>3, <1>4, <1>5, <1>6, <1>7 DEF TypeOK

(* The mover's descriptors.                                                *)
LEMMA StepDescriptor ==
  ASSUME TypeOK, NEW p \in Proc, DescriptorOK(p), Act(p)
  PROVE  DescriptorOK(p)'
<1> USE NoFd, OthersAssumption DEF TypeOK, Table, env, DescriptorOK, Attempting, Ending, KindAt
<1>1. CASE GetAddrInfo(p)
  BY <1>1 DEF GetAddrInfo, Jump
<1>2. CASE Socket(p)
  BY <1>2 DEF Socket, Jump, NewFd
<1>3. CASE EndOfList(p)
  BY <1>3 DEF EndOfList, Jump
<1>4. CASE Return(p)
  BY <1>4 DEF Return, Jump
<1>5. CASE FreeAddrInfo(p)
  BY <1>5 DEF FreeAddrInfo, Jump
<1>6. CASE SetSockOpt(p)
  BY <1>6 DEF SetSockOpt, Jump, CloseAndGiveUp
<1>7. CASE Bind(p)
  BY <1>7 DEF Bind, Jump, CloseAndGo
<1>8. CASE ListenOn(p)
  BY <1>8 DEF ListenOn, Jump, CloseAndGiveUp
<1>9. CASE AcceptOne(p)
  <2>1. pc[p] = "accept" /\ pc' = [pc EXCEPT ![p] = "return"]
    BY <1>9 DEF AcceptOne, Jump
  <2>2. listenfd[p] \in Fd /\ kind[p][listenfd[p]] = "listening"
    BY <2>1
  <2>3. ASSUME NEW f \in Fd, kind[p][f] = "free",
               sockfd' = [sockfd EXCEPT ![p] = f],
               kind' = [kind EXCEPT ![p][f] = "connected", ![p][listenfd[p]] = "free"]
        PROVE  DescriptorOK(p)'
    <3>1. f # listenfd[p] /\ f \notin Others /\ sockfd'[p] = f /\ f # -1
      BY <2>2, <2>3
    <3>2. \A g \in Fd : kind'[p][g] = IF g = listenfd[p] THEN "free"
                                      ELSE IF g = f THEN "connected" ELSE kind[p][g]
      BY <2>2, <2>3
    <3>3. pc'[p] = "return"
      BY <2>1
    <3> QED
      BY <2>1, <2>2, <3>1, <3>2, <3>3
  <2>4. CASE sockfd' = [sockfd EXCEPT ![p] = -1]
             /\ kind' = [kind EXCEPT ![p][listenfd[p]] = "free"]
    BY <2>1, <2>2, <2>4
  <2> QED
    BY <1>9, <2>3, <2>4 DEF AcceptOne, NewFd
<1>10. CASE ConnectTo(p)
  BY <1>10 DEF ConnectTo, Jump, CloseAndGo
<1> QED
  BY <1>1, <1>2, <1>3, <1>4, <1>5, <1>6, <1>7, <1>8, <1>9, <1>10 DEF Act

(* The mover's address list.                                               *)
LEMMA StepList ==
  ASSUME TypeOK, NEW p \in Proc, DescriptorOK(p), ListOK(p), Act(p)
  PROVE  ListOK(p)'
<1>0. /\ pc[p] = "socket" => sockfd[p] = -1
      /\ pc[p] \in Attempting => sockfd[p] # -1
      /\ pc[p] = "accept" => listenfd[p] # -1
  BY DEF DescriptorOK, Attempting
<1> USE DEF TypeOK, env, ListOK, Attempting, Ending, Exhausted
<1>1. CASE GetAddrInfo(p)
  BY <1>0, <1>1 DEF GetAddrInfo, Jump
<1>2. CASE Socket(p)
  BY <1>0, <1>2 DEF Socket, Jump, NewFd
<1>3. CASE EndOfList(p)
  BY <1>0, <1>3, NAddrAssumption DEF EndOfList, Jump
<1>4. CASE Return(p)
  BY <1>0, <1>4 DEF Return, Jump
<1>5. CASE FreeAddrInfo(p)
  BY <1>0, <1>5 DEF FreeAddrInfo, Jump
<1>6. CASE SetSockOpt(p)
  BY <1>0, <1>6 DEF SetSockOpt, Jump, CloseAndGiveUp
<1>7. CASE Bind(p)
  BY <1>0, <1>7 DEF Bind, Jump, CloseAndGo
<1>8. CASE ListenOn(p)
  BY <1>0, <1>8 DEF ListenOn, Jump, CloseAndGiveUp
<1>9. CASE AcceptOne(p)
  BY <1>0, <1>9, NoFd DEF AcceptOne, Jump, NewFd
<1>10. CASE ConnectTo(p)
  BY <1>0, <1>10 DEF ConnectTo, Jump, CloseAndGo
<1> QED
  BY <1>1, <1>2, <1>3, <1>4, <1>5, <1>6, <1>7, <1>8, <1>9, <1>10 DEF Act

(* The invariant holds in every state.                                     *)
THEOREM Inductive == Spec => []IInv
<1>1. Init => IInv
  BY NAddrAssumption, NoFd, OthersAssumption
     DEF Init, IInv, TypeOK, Table, Kinds, Labels, Calls, DescriptorOK, ListOK, Attempting, Ending, KindAt
<1>2. IInv /\ [Next]_vars => IInv'
  <2> SUFFICES ASSUME IInv, [Next]_vars PROVE IInv'
    OBVIOUS
  <2>1. CASE Next
    <3>1. PICK p \in Proc : Act(p)
      BY <2>1, StepOfOne
    <3>2. TypeOK' /\ DescriptorOK(p)' /\ ListOK(p)'
      BY <3>1, StepType, StepDescriptor, StepList DEF IInv
    <3>3. ASSUME NEW q \in Proc \ {p}
          PROVE  DescriptorOK(q)' /\ ListOK(q)'
      BY <3>1, StepFrame DEF IInv, Frame, DescriptorOK, ListOK, Ending, Exhausted
    <3> QED
      BY <3>2, <3>3 DEF IInv
  <2>2. CASE UNCHANGED vars
    BY <2>2 DEF vars, IInv, TypeOK, DescriptorOK, ListOK, Ending, Exhausted
  <2> QED
    BY <2>1, <2>2
<1> QED
  BY <1>1, <1>2, PTL DEF Spec

(* On return the connection is the only descriptor left of the attempts.   *)
THEOREM ConnectionOnly == Spec => []OnlyConnectionOpen
<1>1. IInv => OnlyConnectionOpen
  BY NoFd, OthersAssumption
     DEF IInv, TypeOK, Table, DescriptorOK, OnlyConnectionOpen, Opened, KindAt, Attempting
<1> QED
  BY <1>1, Inductive, PTL

(* connect_common frees its address list on every path.                    *)
THEOREM CommonFreesList == Spec => []ListFreed
<1>1. IInv => ListFreed
  BY DEF IInv, ListOK, ListFreed
<1> QED
  BY <1>1, Inductive, PTL

(* No address of the list is passed over.                                  *)
THEOREM WholeListTried == Spec => []AllAddressesTried
<1>1. IInv => AllAddressesTried
  BY DEF IInv, ListOK, Exhausted, Ending, AllAddressesTried
<1> QED
  BY <1>1, Inductive, PTL

(* A step of the loops is a step of Dial or leaves its variable alone.     *)
LEMMA StepDial ==
  ASSUME IInv, IInv', NEW p \in Proc, Act(p)
  PROVE  [D!Next]_sides
<1>a. TypeOK /\ DescriptorOK(p)
  BY DEF IInv
<1>b. \A q \in Proc \ {p} : Side(q)' = Side(q)
  BY <1>a, StepFrame DEF Frame, Side, Ending
<1>c. ASSUME Side(p)' = Side(p) PROVE sides' = sides
  BY <1>b, <1>c DEF sides
<1>d. ASSUME NEW v, Side(p)' = v PROVE sides' = [sides EXCEPT ![p] = v]
  BY <1>b, <1>d DEF sides
<1>e. ASSUME Side(p) = "listening", Side(p)' = "closed"
      PROVE  D!Next
  <2>1. sides' = [sides EXCEPT ![p] = "closed"]
    BY <1>d, <1>e
  <2>2. D!Hangup(p)
    BY <1>e, <2>1 DEF D!Hangup, sides
  <2> QED
    BY <2>2 DEF D!Next, D!Proc, D!Client, D!Server, Proc, Client, Server
<1>1. CASE GetAddrInfo(p)
  <2>1. Side(p)' = Side(p)
    BY <1>1, <1>a DEF GetAddrInfo, Jump, env, Side, Ending, TypeOK, DescriptorOK
  <2> QED
    BY <2>1, <1>c DEF sides
<1>2. CASE Socket(p)
  <2>1. Side(p)' = Side(p)
    BY <1>2, <1>a DEF Socket, Jump, NewFd, env, Side, Ending, TypeOK, DescriptorOK
  <2> QED
    BY <2>1, <1>c DEF sides
<1>3. CASE EndOfList(p)
  <2>1. Side(p)' = Side(p)
    BY <1>3, <1>a DEF EndOfList, Jump, env, Side, Ending, TypeOK, DescriptorOK
  <2> QED
    BY <2>1, <1>c DEF sides
<1>4. CASE Return(p)
  <2>1. Side(p)' = Side(p)
    BY <1>4, <1>a DEF Return, Jump, env, Side, Ending, TypeOK, DescriptorOK
  <2> QED
    BY <2>1, <1>c DEF sides
<1>5. CASE FreeAddrInfo(p)
  <2>1. Side(p)' = Side(p)
    BY <1>5, <1>a DEF FreeAddrInfo, Jump, env, Side, Ending, TypeOK, DescriptorOK
  <2> QED
    BY <2>1, <1>c DEF sides
<1>6. CASE SetSockOpt(p)
  <2>1. Side(p)' = Side(p)
    BY <1>6, <1>a DEF SetSockOpt, Jump, CloseAndGiveUp, env, Side, Ending, TypeOK, DescriptorOK
  <2> QED
    BY <2>1, <1>c DEF sides
<1>7. CASE Bind(p)
  <2>1. Side(p)' = Side(p)
    BY <1>7, <1>a DEF Bind, Jump, CloseAndGo, env, Side, Ending, TypeOK, DescriptorOK
  <2> QED
    BY <2>1, <1>c DEF sides
<1>8. CASE p = Server /\ ListenOn(p)
  <2>1. \/ Side(p) = "none" /\ Side(p)' = "listening"
        \/ Side(p)' = Side(p)
    BY <1>8, <1>a DEF ListenOn, Jump, CloseAndGiveUp, env, Side, Ending, TypeOK, DescriptorOK
  <2>2. CASE Side(p) = "none" /\ Side(p)' = "listening"
    <3>1. D!Listen
      BY <1>8, <1>d, <2>2 DEF D!Listen, D!Server, Server, sides
    <3> QED
      BY <3>1 DEF D!Next
  <2> QED
    BY <2>1, <2>2, <1>c DEF sides
<1>9. CASE p = Server /\ AcceptOne(p)
  <2>1. /\ Side(p) = "listening"
        /\ Side(p)' = "closed" \/ (Side(p)' = "connected" /\ Pending)
    BY <1>9, <1>a, NoFd
       DEF AcceptOne, Jump, NewFd, env, Side, Ending, TypeOK, DescriptorOK, Attempting
  <2>2. CASE Side(p)' = "connected" /\ Pending
    <3>1. Side(Client) = "connected"
      BY <2>2 DEF Pending, Side, Ending
    <3>2. D!Accept
      BY <1>9, <1>d, <2>1, <2>2, <3>1
         DEF D!Accept, D!Server, D!Client, Server, Client, Proc, sides
    <3> QED
      BY <3>2 DEF D!Next
  <2> QED
    BY <2>1, <2>2, <1>e
<1>10. CASE p = Client /\ ConnectTo(p)
  <2>1. \/ Side(p)' = Side(p)
        \/ Side(p) = "none" /\ Side(p)' = "connected" /\ pc[Server] = "accept"
    BY <1>10, <1>a DEF ConnectTo, Jump, CloseAndGo, env, Side, Ending, TypeOK, DescriptorOK, Attempting
  <2>2. CASE Side(p) = "none" /\ Side(p)' = "connected" /\ pc[Server] = "accept"
    <3>1. Side(Server) = "listening"
      BY <2>2 DEF Side, Ending
    <3>2. D!Connect
      BY <1>10, <1>d, <2>2, <3>1
         DEF D!Connect, D!Server, D!Client, Server, Client, Proc, sides
    <3> QED
      BY <3>2 DEF D!Next
  <2> QED
    BY <2>1, <2>2, <1>c DEF sides
<1> QED
  BY <1>1, <1>2, <1>3, <1>4, <1>5, <1>6, <1>7, <1>8, <1>9, <1>10 DEF Act, sides

(* Connect implements Dial.                                                *)
THEOREM Implementation == Spec => ImplementsDial
<1>1. Init => D!Init
  BY DEF Init, D!Init, sides, Side, Ending, D!Proc, D!Client, D!Server, Proc, Client, Server
<1>2. IInv /\ IInv' /\ [Next]_vars => [D!Next]_sides
  <2> SUFFICES ASSUME IInv, IInv', [Next]_vars
               PROVE  [D!Next]_sides
    OBVIOUS
  <2>1. CASE Next
    BY <2>1, StepOfOne, StepDial
  <2>2. CASE UNCHANGED vars
    BY <2>2 DEF vars, sides, Side, Ending
  <2> QED
    BY <2>1, <2>2
<1> QED
  BY <1>1, <1>2, Inductive, PTL DEF Spec, ImplementsDial, D!Spec
=============================================================================
