----------------------------- MODULE TestString -----------------------------
(***************************************************************************)
(* What becomes of the length that -s sets in ucp_hello_v2: the server's   *)
(* message with generate_test_string's letters, and the string the client  *)
(* prints.  The length is a long, generate_test_string takes an int, and   *)
(* the client copies as many bytes as its own option says.                 *)
(*                                                                         *)
(* The functions of memory_utils.cpp are those of a build without CUDA.    *)
(***************************************************************************)
EXTENDS ParseCmd

CONSTANT IntValues      (* how many values an int has, 2^32 in the program *)

ASSUME IntValuesAssumption == IntValues \in Nat /\ IntValues > 0 /\ IntValues % 2 = 0

(* Bytes: 'A' to 'Z' as 1 to 26, the terminating 0, and what an allocation *)
(* happens to hold.                                                        *)
Nul == 0
Junk == -1
Letter(i) == 1 + ((i - 1) % 26)

Null == <<>>
(* What generate_test_string's int makes of the long.                      *)
AsInt(n) ==
  LET r == n % IntValues IN IF 2 * r < IntValues THEN r ELSE r - IntValues
-----------------------------------------------------------------------------
(* memory_utils.cpp works on its own copy of test_mem_type.                *)
HostMemory == memType["memory_utils"] = "host"

MemTypeMalloc(n) == IF HostMemory THEN [i \in 1..n |-> Junk] ELSE Null

(* Mutant: the buffer is not cleared.                                      *)
MemTypeMemsetNothing(dst, value, n) == dst

MemTypeMemset(dst, value, n) ==
  [i \in DOMAIN dst |-> IF HostMemory /\ i <= n THEN value ELSE dst[i]]

MemTypeMemcpy(dst, src, n) ==
  [i \in DOMAIN dst |-> IF HostMemory /\ i <= n THEN src[i] ELSE dst[i]]

(* Mutant: the loop runs to the end of the buffer.                         *)
GenerateTestStringToTheEnd(str, size) ==
  IF size < 0 THEN [ret |-> -1, str |-> str]
  ELSE [ret |-> 0, str |-> MemTypeMemcpy(str, [i \in 1..size |-> Letter(i)], size)]

(* Mutant: the loop stops a letter early.                                  *)
GenerateTestStringShort(str, size) ==
  IF size < 0 THEN [ret |-> -1, str |-> str]
  ELSE LET tmp == [i \in 1..size |-> IF i < size - 1 THEN Letter(i) ELSE Nul]
       IN  [ret |-> 0, str |-> MemTypeMemcpy(str, tmp, size)]

(* calloc takes the size as a size_t, which is too much if it is negative; *)
(* the last byte stays 0.                                                  *)
GenerateTestString(str, size) ==
  IF size < 0 THEN [ret |-> -1, str |-> str]
  ELSE LET tmp == [i \in 1..size |-> IF i < size THEN Letter(i) ELSE Nul]
       IN  [ret |-> 0, str |-> MemTypeMemcpy(str, tmp, size)]

(* The server's message behind its header, unless the allocation fails.    *)
ServerMessage(length) ==
  IF ~HostMemory THEN [ret |-> -1, str |-> Null]
  ELSE GenerateTestString(MemTypeMemset(MemTypeMalloc(length), Nul, length), AsInt(length))

(* The client's copy of the message's first length bytes.                  *)
ClientString(length, msg) ==
  MemTypeMemcpy([i \in 1..length |-> Nul], msg, length)
-----------------------------------------------------------------------------
Running == pc = "running" /\ app = "hello_ucp"

(* printf("%s") stops at a 0 inside the copy.                              *)
Terminated(str) == \E i \in DOMAIN str : str[i] = Nul

(* The client that was started with the server's -s prints a string that   *)
(* ends inside its buffer, although the generator may have seen another    *)
(* length; a length that has become negative fails instead, which is all   *)
(* that the server looks at in ret.  A length of 0 leaves no room for the  *)
(* 0.                                                                      *)
StringTerminated ==
  Running /\ main.length > 0 =>
    LET made == ServerMessage(main.length)
    IN  made.ret >= 0 => Terminated(ClientString(main.length, made.str))

(* The lengths that an int can hold.                                       *)
Fits == main.length > 0 /\ 2 * main.length < IntValues

(* With such a length the string is the alphabet, as often as needed, one  *)
(* byte short of the length.                                               *)
StringIsAlphabet ==
  Running /\ Fits =>
    LET str == ClientString(main.length, ServerMessage(main.length).str)
    IN  /\ \A i \in 1..main.length - 1 :
             str[i] = IF i <= 26 THEN i ELSE str[i - 26]
        /\ str[main.length] = Nul

(* A client with an -s of its own copies as many bytes as that says.  Of   *)
(* the copies that lie within the message only the one of a client with the*)
(* server's -s ends inside its buffer: the options have to be the same.    *)
SameLengthNeeded ==
  Running /\ Fits =>
    \A length \in 1..main.length :
      Terminated(ClientString(length, ServerMessage(main.length).str)) <=> length = main.length
=============================================================================
