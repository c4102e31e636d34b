---------------------------- MODULE StringProofs ----------------------------
(***************************************************************************)
(* Proofs about TestString, for any length that the command line gives and *)
(* an int of any width.                                                    *)
(***************************************************************************)
EXTENDS TestString, ParseProofs

(* -m leaves the copy that the allocation functions read.                  *)
LEMMA HostInvariant == Spec => []HostMemory
<1>1. Init => HostMemory
  BY DEF Init, HostMemory, Sources
<1>2. TypeOK /\ HostMemory /\ [Next]_vars => HostMemory'
  <2> SUFFICES ASSUME TypeOK, HostMemory, [Next]_vars PROVE HostMemory'
    OBVIOUS
  <2>1. CASE OptMemory
    BY <2>1 DEF OptMemory, HostMemory, TypeOK, Sources, ParserSource
  <2>2. CASE UNCHANGED memType
    BY <2>2 DEF HostMemory
  <2> QED
    BY <2>1, <2>2
       DEF Next, vars, OptError, OptName, OptFamily, OptPort, OptLength, OptPrint,
           OptTestMode, OptHelp, ParseReturns, MainContinues
<1> QED
  BY <1>1, <1>2, TypeCorrect, PTL DEF Spec

(* The narrowed length is at most the length, and the same if it fits.     *)
LEMMA Narrowed ==
  ASSUME NEW n \in Nat
  PROVE  /\ AsInt(n) \in Int /\ AsInt(n) <= n
         /\ 2 * n < IntValues => AsInt(n) = n
<1> DEFINE r == n % IntValues
<1>1. r \in 0..IntValues - 1
  BY IntValuesAssumption
<1>2. r <= n
  BY IntValuesAssumption
<1>3. n < IntValues => r = n
  BY IntValuesAssumption
<1> QED
  BY <1>1, <1>2, <1>3, IntValuesAssumption DEF AsInt

(* The message of length bytes: zero behind what the generator writes.     *)
LEMMA MessageBytes ==
  ASSUME HostMemory, NEW n \in Nat, n > 0
  PROVE  LET size == AsInt(n) IN
           /\ ServerMessage(n).ret >= 0 <=> size >= 0
           /\ size >= 0 =>
                ServerMessage(n).str =
                  [i \in 1..n |-> IF i < size THEN Letter(i) ELSE Nul]
<1> DEFINE size == AsInt(n)
           zero == [i \in 1..n |-> Nul]
           tmp == [i \in 1..size |-> IF i < size THEN Letter(i) ELSE Nul]
<1>1. size \in Int /\ size <= n
  BY Narrowed
<1>2. MemTypeMemset(MemTypeMalloc(n), Nul, n) = zero
  BY DEF MemTypeMemset, MemTypeMalloc
<1>3. ServerMessage(n) = GenerateTestString(zero, size)
  BY <1>2 DEF ServerMessage
<1>4. CASE size < 0
  BY <1>1, <1>3, <1>4 DEF GenerateTestString
<1>5. CASE size >= 0
  <2>1. ServerMessage(n) = [ret |-> 0, str |-> MemTypeMemcpy(zero, tmp, size)]
    BY <1>1, <1>3, <1>5 DEF GenerateTestString
  <2>2. MemTypeMemcpy(zero, tmp, size) = [i \in 1..n |-> IF i <= size THEN tmp[i] ELSE Nul]
    BY DEF MemTypeMemcpy
  <2>3. ASSUME NEW i \in 1..n
        PROVE  (IF i <= size THEN tmp[i] ELSE Nul) = (IF i < size THEN Letter(i) ELSE Nul)
    BY <1>1
  <2> QED
    BY <1>5, <2>1, <2>2, <2>3
<1> QED
  BY <1>1, <1>4, <1>5

(* The client's copy is the message as far as it goes.                     *)
LEMMA Copied ==
  ASSUME HostMemory, NEW n \in Nat, n > 0, ServerMessage(n).ret >= 0, NEW k \in 1..n
  PROVE  ClientString(k, ServerMessage(n).str) =
           [i \in 1..k |-> IF i < AsInt(n) THEN Letter(i) ELSE Nul]
<1> DEFINE msg == [i \in 1..n |-> IF i < AsInt(n) THEN Letter(i) ELSE Nul]
<1>1. ServerMessage(n).str = msg
  BY MessageBytes
<1>2. ClientString(k, msg) = [i \in 1..k |-> msg[i]]
  BY DEF ClientString, MemTypeMemcpy
<1>3. \A i \in 1..k : msg[i] = IF i < AsInt(n) THEN Letter(i) ELSE Nul
  OBVIOUS
<1> QED
  BY <1>1, <1>2, <1>3

LEMMA LengthType == ASSUME TypeOK, main.length > 0 PROVE main.length \in Nat
BY DEF TypeOK, Settings

(* The printed string ends inside the client's buffer.                     *)
THEOREM AlwaysTerminated == Spec => []StringTerminated
<1>1. TypeOK /\ HostMemory => StringTerminated
  <2> SUFFICES ASSUME TypeOK, HostMemory, main.length > 0, ServerMessage(main.length).ret >= 0
               PROVE  Terminated(ClientString(main.length, ServerMessage(main.length).str))
    BY DEF StringTerminated
  <2> DEFINE n == main.length
  <2>0. n \in Nat /\ n > 0 /\ n \in 1..n
    BY LengthType
  <2>1. ClientString(n, ServerMessage(n).str) =
          [i \in 1..n |-> IF i < AsInt(n) THEN Letter(i) ELSE Nul]
    BY <2>0, Copied
  <2>2. n \in 1..n /\ ~(n < AsInt(n))
    BY <2>0, Narrowed
  <2> QED
    BY <2>1, <2>2 DEF Terminated
<1> QED
  BY <1>1, TypeCorrect, HostInvariant, PTL

(* A length that fits is the one that the generator sees.                  *)
LEMMA FittingLength ==
  ASSUME TypeOK, HostMemory, Fits
  PROVE  /\ main.length \in Nat /\ main.length > 0
         /\ AsInt(main.length) = main.length
         /\ ServerMessage(main.length).ret >= 0
<1> DEFINE n == main.length
<1>1. n \in Nat /\ n > 0 /\ AsInt(n) = n
  BY LengthType, Narrowed DEF Fits
<1>2. AsInt(n) >= 0
  BY <1>1
<1> QED
  BY <1>1, <1>2, MessageBytes

(* A length that fits gives the alphabet, over and over, and a final 0.    *)
THEOREM Alphabet == Spec => []StringIsAlphabet
<1>1. TypeOK /\ HostMemory => StringIsAlphabet
  <2> SUFFICES ASSUME TypeOK, HostMemory, Fits
               PROVE  LET copy == ClientString(main.length, ServerMessage(main.length).str)
                      IN  /\ \A i \in 1..main.length - 1 :
                               copy[i] = IF i <= 26 THEN i ELSE copy[i - 26]
                          /\ copy[main.length] = Nul
    BY DEF StringIsAlphabet
  <2> DEFINE n == main.length
             str == ClientString(n, ServerMessage(n).str)
  <2>0. n \in Nat /\ n > 0 /\ n \in 1..n /\ AsInt(n) = n /\ ServerMessage(n).ret >= 0
    BY FittingLength
  <2> HIDE DEF n
  <2>1. str = [i \in 1..n |-> IF i < n THEN Letter(i) ELSE Nul]
    BY <2>0, Copied
  <2> HIDE DEF str
  <2>2. str[n] = Nul
    BY <2>0, <2>1
  <2>3. ASSUME NEW i \in 1..n - 1
        PROVE  str[i] = IF i <= 26 THEN i ELSE str[i - 26]
    <3>1. str[i] = Letter(i)
      BY <2>0, <2>1
    <3>2. CASE i <= 26
      BY <2>0, <3>1, <3>2 DEF Letter
    <3>3. CASE i > 26
      <4>1. str[i - 26] = Letter(i - 26)
        BY <2>0, <2>1, <3>3
      <4>2. Letter(i) = Letter(i - 26)
        BY <2>0, <3>3 DEF Letter
      <4> QED
        BY <3>1, <3>3, <4>1, <4>2
    <3> QED
      BY <2>0, <3>2, <3>3
  <2> QED
    BY <2>2, <2>3 DEF n, str
<1> QED
  BY <1>1, TypeCorrect, HostInvariant, PTL

(* Of the clients whose copy lies within the message, only the one that was*)
(* started with the server's -s has a string that ends inside its buffer.  *)
THEOREM SameLength == Spec => []SameLengthNeeded
<1>1. TypeOK /\ HostMemory => SameLengthNeeded
  <2> SUFFICES ASSUME TypeOK, HostMemory, Fits, NEW k \in 1..main.length
               PROVE  Terminated(ClientString(k, ServerMessage(main.length).str))
                        <=> k = main.length
    BY DEF SameLengthNeeded
  <2> DEFINE n == main.length
             str == ClientString(k, ServerMessage(n).str)
  <2>0. n \in Nat /\ n > 0 /\ k \in 1..n /\ AsInt(n) = n /\ ServerMessage(n).ret >= 0
    BY FittingLength
  <2> HIDE DEF n
  <2>1. str = [i \in 1..k |-> IF i < n THEN Letter(i) ELSE Nul]
    BY <2>0, Copied
  <2> HIDE DEF str
  <2>2. ASSUME NEW i \in 1..k
        PROVE  str[i] = Nul <=> i = n
    <3>1. CASE i < n
      <4>1. str[i] = Letter(i)
        BY <2>1, <3>1
      <4>2. Letter(i) # Nul
        BY <2>0 DEF Letter, Nul
      <4> QED
        BY <2>0, <3>1, <4>1, <4>2
    <3>2. CASE ~(i < n)
      BY <2>0, <2>1, <3>2
    <3> QED
      BY <3>1, <3>2
  <2>3. Terminated(str) <=> \E i \in 1..k : i = n
    BY <2>1, <2>2 DEF Terminated
  <2> QED
    BY <2>0, <2>3 DEF n, str
<1> QED
  BY <1>1, TypeCorrect, HostInvariant, PTL
=============================================================================
