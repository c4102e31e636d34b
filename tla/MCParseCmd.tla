---------------------------- MODULE MCParseCmd ------------------------------
(***************************************************************************)
(* Instances of ParseCmd and TestString for TLC.                           *)
(***************************************************************************)
EXTENDS TestString

SomeWords == {"", "recv", "send", "keepalive", "host", "cuda", "host1", "host2", "other"}

Flag(o) == [opt |-> o, word |-> "", num |-> 0]
Word(o, w) == [opt |-> o, word |-> w, num |-> 0]
Number(o, n) == [opt |-> o, word |-> "", num |-> n]

(* Each branch of the switch, and the numbers around the port's 16 bits    *)
(* and an int of six bits.                                                 *)
SomeOptions ==
  {Flag(o) : o \in {"w", "b", "6", "c", "h"}}
    \cup {Word("e", w) : w \in {"recv", "send", "keepalive", "other"}}
    \cup {Word("n", w) : w \in {"host1", "host2"}}
    \cup {Word("m", w) : w \in {"host", "cuda", "other"}}
    \cup {Number("p", n) : n \in {-1, 0, 1, 65536, 65537}}
    \cup {Number("s", n) : n \in {-1, 0, 1, 30, 32, 64, 65}}

UpTo(n) == UNION {[1..k -> SomeOptions] : k \in 0..n}

UpToThree == UpTo(3)
AtMostOne == UpTo(1)

AnyTestMode == {"probe", "wait", "eventfd", "garbage"}
OneTestMode == {"garbage"}
=============================================================================
