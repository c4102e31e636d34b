----------------------------- MODULE HelloEpoll -----------------------------
(***************************************************************************)
(* hello_epoll.c: epoll tells the program that standard input can be read, *)
(* and fgets reads a line from it.  epoll looks at what the kernel holds,  *)
(* fgets takes from the buffer of stdio, which it fills from the kernel by *)
(* the block; so a line may be waiting where epoll does not see it.        *)
(*                                                                         *)
(* The input is a sequence of units: the newline, the word "exit", and any *)
(* other text.  A line of the input is longer than fgets's buffer if it    *)
(* has more than Cap units.                                                *)
(***************************************************************************)
EXTENDS Integers, Sequences, SequencesExt

CONSTANTS
  Inputs,     (* what the writer at the other end may write                *)
  Cap,        (* how much text buffer[256] holds                           *)
  Block,      (* how much stdio reads at once                              *)
  Faults      (* which calls may fail: "create", "add", "wait"             *)

Units == {"text", "exit", "newline"}

ASSUME InputsAssumption == Inputs \subseteq Seq(Units)
ASSUME SizesAssumption == Cap \in Nat \ {0} /\ Block \in Nat \ {0}
ASSUME FaultsAssumption == Faults \subseteq {"create", "add", "wait"}

(* The writer: "pipe" writes when it likes and may close its end when it   *)
(* has written all, "terminal" enters lines when it likes, and stays.      *)
Writers == {"pipe", "terminal"}

VARIABLES
  writer,     (* which of them it is                                       *)
  input,      (* all that it writes                                        *)
  unsent,     (* what it has not written yet                               *)
  kernel,     (* what the descriptor holds                                 *)
  closed,     (* whether the writer has closed its end                     *)
  stdio,      (* what stdio has read and fgets has not returned            *)
  buffer,     (* the program's buffer                                      *)
  out,        (* the strings that fgets has stored so far                  *)
  epoll,      (* the epoll descriptor: "none", "open", "closed"            *)
  is_exit,    (* the program's variable                                    *)
  pc          (* its next step                                             *)

vars == <<writer, input, unsent, kernel, closed, stdio, buffer, out, epoll, is_exit, pc>>

env == <<writer, input, unsent, closed>>

Init ==
  /\ writer \in Writers
  /\ input \in Inputs
  /\ unsent = input
  /\ kernel = <<>> /\ closed = FALSE
  /\ stdio = <<>> /\ buffer = <<>> /\ out = <<>>
  /\ epoll = "none"
  /\ is_exit = 1
  /\ pc = "create"
-----------------------------------------------------------------------------
(* The writer.                                                             *)

Take(s, n) == SubSeq(s, 1, n)
Drop(s, n) == SubSeq(s, n + 1, Len(s))

WholeLine(n) == unsent[n] = "newline" /\ \A i \in 1..n - 1 : unsent[i] # "newline"

(* A terminal hands over a line when it is complete, whether or not the    *)
(* program has read the one before.                                        *)
Writes ==
  /\ \E n \in 1..Len(unsent) :
       /\ writer = "terminal" => WholeLine(n)
       /\ kernel' = kernel \o Take(unsent, n)
       /\ unsent' = Drop(unsent, n)
  /\ UNCHANGED <<writer, input, closed, stdio, buffer, out, epoll, is_exit, pc>>

Closes ==
  /\ writer = "pipe" /\ unsent = <<>> /\ ~closed
  /\ closed' = TRUE
  /\ UNCHANGED <<writer, input, unsent, kernel, stdio, buffer, out, epoll, is_exit, pc>>
-----------------------------------------------------------------------------
(* The program.                                                            *)

ExitFailure == pc' = "failed" /\ UNCHANGED <<env, kernel, stdio, buffer, out, epoll, is_exit>>

EpollCreate ==
  /\ pc = "create"
  /\ \/ "create" \in Faults /\ ExitFailure
     \/ epoll' = "open" /\ pc' = "add" /\ UNCHANGED <<env, kernel, stdio, buffer, out, is_exit>>

(* Standard input may be a file, which epoll does not take.                *)
EpollAdd ==
  /\ pc = "add"
  /\ \/ "add" \in Faults /\ ExitFailure
     \/ pc' = "while" /\ UNCHANGED <<env, kernel, stdio, buffer, out, epoll, is_exit>>

(* The condition of the loop, and the way out of main.                     *)
While ==
  /\ pc = "while"
  /\ IF is_exit = 1
       THEN pc' = "wait" /\ UNCHANGED epoll
       ELSE pc' = "returned" /\ epoll' = "closed"
  /\ UNCHANGED <<env, kernel, stdio, buffer, out, is_exit>>

(* Mutant: the writer's close is not looked at.                            *)
ReadableData == kernel # <<>>

(* epoll is level-triggered: the descriptor is reported as long as a read  *)
(* would not block.                                                        *)
Readable == kernel # <<>> \/ closed

EpollWait ==
  /\ pc = "wait"
  /\ \/ ("wait" \in Faults \/ epoll = "closed") /\ ExitFailure
     \/ /\ epoll = "open" /\ Readable
        /\ pc' = "fgets"
        /\ UNCHANGED <<env, kernel, stdio, buffer, out, epoll, is_exit>>

(* Mutant: fgets is given one byte more than the buffer has.               *)
StopsLate(n) ==
  /\ n \in 1..Len(stdio)
  /\ n = Cap + 1 \/ stdio[n] = "newline"
  /\ \A i \in 1..n - 1 : i # Cap + 1 /\ stdio[i] # "newline"

(* Mutant: fgets is given one byte less than the buffer has.               *)
StopsEarly(n) ==
  /\ n \in 1..Len(stdio)
  /\ n = Cap - 1 \/ stdio[n] = "newline"
  /\ \A i \in 1..n - 1 : i # Cap - 1 /\ stdio[i] # "newline"

(* fgets stops behind a newline, or when the buffer is full.               *)
Stops(n) ==
  /\ n \in 1..Len(stdio)
  /\ n = Cap \/ stdio[n] = "newline"
  /\ \A i \in 1..n - 1 : i # Cap /\ stdio[i] # "newline"

Full == \E n \in 1..Len(stdio) : Stops(n)

(* One read returns a block, or what there is; from a terminal no more than*)
(* one line.                                                               *)
EndOfLine(n) == writer = "terminal" /\ kernel[n] = "newline"

Reads(n) ==
  /\ n \in 1..Len(kernel)
  /\ n \in {Block, Len(kernel)} \/ EndOfLine(n)
  /\ \A i \in 1..n - 1 : i # Block /\ ~EndOfLine(i)

(* In the middle of a line fgets reads another block, and blocks in read   *)
(* until there is one.                                                     *)
Fill ==
  /\ pc = "fgets" /\ ~Full
  /\ \E n \in 1..Len(kernel) :
       /\ Reads(n)
       /\ stdio' = stdio \o Take(kernel, n) /\ kernel' = Drop(kernel, n)
  /\ UNCHANGED <<env, buffer, out, epoll, is_exit, pc>>

(* Mutant: what the block holds behind the line is forgotten.              *)
FgetsForgets ==
  /\ pc = "fgets" /\ Full
  /\ \E n \in 1..Len(stdio) :
       Stops(n) /\ buffer' = Take(stdio, n) /\ stdio' = <<>>
  /\ out' = Append(out, buffer') /\ pc' = "compare"
  /\ UNCHANGED <<env, kernel, epoll, is_exit>>

Fgets ==
  /\ pc = "fgets" /\ Full
  /\ \E n \in 1..Len(stdio) :
       Stops(n) /\ buffer' = Take(stdio, n) /\ stdio' = Drop(stdio, n)
  /\ out' = Append(out, buffer') /\ pc' = "compare"
  /\ UNCHANGED <<env, kernel, epoll, is_exit>>

(* The stream ends: fgets returns the rest of the input, or NULL, and then *)
(* the buffer is what the previous turn left in the same place of the      *)
(* stack; before the first turn that is not "exit" either.                 *)
FgetsEnd ==
  /\ pc = "fgets" /\ ~Full /\ kernel = <<>> /\ closed
  /\ IF stdio # <<>>
       THEN buffer' = stdio /\ out' = Append(out, stdio)
       ELSE UNCHANGED <<buffer, out>>
  /\ stdio' = <<>> /\ pc' = "compare"
  /\ UNCHANGED <<env, kernel, epoll, is_exit>>

(* Mutant: a prefix of the buffer is compared.                             *)
ComparePrefix ==
  /\ pc = "compare"
  /\ IF buffer # <<>> /\ buffer[1] = "exit"
       THEN epoll' = "closed" /\ is_exit' = 0
       ELSE UNCHANGED <<epoll, is_exit>>
  /\ pc' = "while"
  /\ UNCHANGED <<env, kernel, stdio, buffer, out>>

(* strcmp(buffer, "exit\n"), whether or not fgets has stored anything.     *)
Compare ==
  /\ pc = "compare"
  /\ IF buffer = <<"exit", "newline">>
       THEN epoll' = "closed" /\ is_exit' = 0
       ELSE UNCHANGED <<epoll, is_exit>>
  /\ pc' = "while"
  /\ UNCHANGED <<env, kernel, stdio, buffer, out>>

Main ==
  \/ EpollCreate \/ EpollAdd \/ While \/ EpollWait
  \/ Fill \/ Fgets \/ FgetsEnd \/ Compare

Next == Main \/ Writes \/ Closes

Spec == Init /\ [][Next]_vars

(* The program runs, although no call has to fail.  The writer does what it*)
(* likes: it may stop writing, and leave its end open for ever.            *)
FairSpec == Spec /\ WF_vars(Main /\ pc' # "failed")
-----------------------------------------------------------------------------
(* Type invariant; the buffer is not overrun.                              *)
TypeOK ==
  /\ writer \in Writers
  /\ {input, unsent, kernel, stdio, buffer} \subseteq Seq(Units)
  /\ Len(buffer) <= Cap
  /\ closed \in BOOLEAN
  /\ out \in Seq(Seq(Units))
  /\ epoll \in {"none", "open", "closed"}
  /\ is_exit \in {0, 1}
  /\ pc \in {"create", "add", "while", "wait", "fgets", "compare", "returned", "failed"}

(* The string that fgets makes of the text s behind position n, if the text*)
(* is all there, ends at m: with a newline, with a full buffer, or with the*)
(* text.                                                                   *)
EndsAt(s, n, m) ==
  /\ m \in n + 1..Len(s)
  /\ m \in {n + Cap, Len(s)} \/ s[m] = "newline"
  /\ \A i \in n + 1..m - 1 : i # n + Cap /\ s[i] # "newline"

NextEnd(s, n) == IF n < Len(s) THEN CHOOSE m \in n + 1..Len(s) : EndsAt(s, n, m) ELSE n

(* The ends of the strings of s, from 0 on, and the k-th string.           *)
LineEnd(s) == LET end[k \in Nat] == IF k = 0 THEN 0 ELSE NextEnd(s, end[k - 1])
              IN  end

Line(s, k) == SubSeq(s, LineEnd(s)[k - 1] + 1, LineEnd(s)[k])

(* However the writes, the events and the blocks of stdio fall, the program*)
(* gets the lines of the input, in order and each once.                    *)
LinesInOrder ==
  \A k \in 1..Len(out) : LineEnd(input)[k - 1] < Len(input) /\ out[k] = Line(input, k)

ExitLine == <<"exit", "newline">>

(* The program returns only on the line "exit", and handles nothing behind *)
(* it, although the line may have come in one block with others.           *)
ReturnsOnExit ==
  /\ pc = "returned" => out # <<>> /\ Last(out) = ExitLine
  /\ \A i \in 1..Len(out) - 1 : out[i] # ExitLine

(* Every line of the input fits into the buffer.                           *)
ShortLines ==
  \A k \in 1..Len(input) :
    Len(Line(input, k)) = Cap => Last(Line(input, k)) = "newline"

(* At a terminal, if the lines fit, the program never waits in epoll while *)
(* a line that epoll cannot see is in stdio's buffer: the user would have  *)
(* to enter another line to get an answer to this one.                     *)
NoLineUnseen ==
  pc = "wait" /\ writer = "terminal" /\ ShortLines => stdio = <<>>

Written(k) == LineEnd(input)[k] <= Len(input) - Len(unsent)

(* A line that stdio has read ahead is not seen by epoll.  It is handled   *)
(* all the same once the pipe is closed, because that is reported for ever,*)
(* and at a terminal nothing is read ahead (NoLineUnseen).  So the line    *)
(* "exit" ends the program there, and need not while a pipe is open.       *)
ExitEnds ==
  (/\ \E k \in 1..Len(input) : Line(input, k) = ExitLine /\ Written(k)
   /\ closed \/ (writer = "terminal" /\ ShortLines)) ~> pc \in {"returned", "failed"}
-----------------------------------------------------------------------------
(* What the comment says, and the program does not do.                     *)

(* hello_epoll.c:10: "it reads input from stdin using read() and prints the*)
(* read bytes".  It does not sleep for ever on bytes that it has read.     *)
ReadIsPrinted == (pc = "wait" /\ stdio # <<>>) ~> pc # "wait"
-----------------------------------------------------------------------------
(* The inductive invariant.                                                *)

(* What fgets has not returned is the input behind the last string's end,  *)
(* wherever it is; only a writer that has written all closes.              *)
StreamInv ==
  /\ stdio \o kernel \o unsent = Drop(input, LineEnd(input)[Len(out)])
  /\ closed => unsent = <<>> /\ writer = "pipe"

(* The buffer holds the last string, also when fgets has returned NULL; the*)
(* program looks at it once and then stops if it is "exit".                *)
ExitInv ==
  /\ buffer = IF out = <<>> THEN <<>> ELSE Last(out)
  /\ is_exit = 0 => pc \in {"while", "returned"} /\ buffer = ExitLine
  /\ pc = "returned" => is_exit = 0
  /\ buffer = ExitLine => is_exit = 0 \/ pc = "compare"
  /\ \A k \in 1..Len(out) - 1 : out[k] # ExitLine

(* At a terminal, if the lines fit, stdio holds at most one line, and only *)
(* while fgets is reading it.                                              *)
TerminalInv ==
  writer = "terminal" /\ ShortLines =>
    /\ stdio # <<>> => pc = "fgets"
    /\ \A i \in 1..Len(stdio) - 1 : stdio[i] # "newline"

IInv == TypeOK /\ LinesInOrder /\ StreamInv /\ ExitInv /\ TerminalInv
=============================================================================
