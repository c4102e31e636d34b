------------------------------ MODULE ParseCmd ------------------------------
(***************************************************************************)
(* parse_cmd and what main sees of it afterwards.  ucp_hello_world_v2.cpp  *)
(* ("hello_ucp") has a parse_cmd of its own that writes main's statics;    *)
(* simple_ucp_client.cpp and simple_ucp_server.cpp call the one of         *)
(* print_utils.cpp, which gets most settings by value.                     *)
(*                                                                         *)
(* An option is what getopt returns: a letter ("?" for one it does not     *)
(* know), the word of its argument where the code compares it, and the     *)
(* number atoi or atol makes of it.                                        *)
(***************************************************************************)
EXTENDS Integers, Sequences

CONSTANTS
  Words,            (* the arguments of -e, -m and -n                      *)
  CommandLines,     (* the sequences of options to consider                *)
  UnsetMode         (* what an uninitialized ucp_test_mode_t may hold      *)

Letters == {"w", "f", "b", "6", "e", "n", "p", "s", "m", "c", "h", "?"}
Options == [opt : Letters, word : Words, num : Int]

ASSUME CommandLinesAssumption == CommandLines \subseteq Seq(Options)
ASSUME UnsetModeAssumption == UnsetMode # {}

Programs == {"hello_ucp", "run_ucp_client", "run_ucp_server"}

VARIABLES
  app,        (* the program                                               *)
  args,       (* its options                                               *)
  optind,     (* getopt's position                                         *)
  pc,         (* "parse", "ok", "running", "exited", "killed"              *)
  err,        (* main's err_handling_opt                                   *)
  name,       (* main's client_target_name, "none" for NULL                    *)
  testMode,   (* main's ucp_test_mode                                      *)
  main,       (* main's statics                                            *)
  param,      (* the parameters of print_utils.cpp's parse_cmd             *)
  memType     (* test_mem_type, static in memory_utils.h: one per source   *)

vars == <<app, args, optind, pc, err, name, testMode, main, param, memType>>

Defaults == [port |-> 13337, family |-> "inet", length |-> 4, print |-> FALSE]

(* The uint16_t that an int is stored in.                                  *)
AsPort(n) == n % 65536

FailureWords == {"recv", "send", "keepalive"}

FailureModeOf(w) ==
  IF w = "recv" THEN "RECV" ELSE IF w = "send" THEN "SEND" ELSE "KEEPALIVE"

(* The letters of hello_ucp that choose a test mode.                       *)
TestLetters == {"w", "f", "b"}

TestModeOf(letter) ==
  IF letter = "w" THEN "wait" ELSE IF letter = "f" THEN "eventfd" ELSE "probe"

Sources == {"ucp_hello_world_v2", "print_utils", "memory_utils", "ucp_server"}

MemTypes == {"host", "cuda", "cuda-managed"}

Init ==
  /\ app \in Programs
  /\ args \in CommandLines
  /\ optind = 1
  /\ pc = "parse"
  /\ err = [ucp_err_mode |-> "NONE", failure_mode |-> "NONE"]
  /\ name = "none"
  /\ testMode \in UnsetMode
  /\ main = Defaults
  /\ param = Defaults
  /\ memType = [s \in Sources |-> "host"]
-----------------------------------------------------------------------------
Current == args[optind]

Option(letter) == pc = "parse" /\ optind <= Len(args) /\ Current.opt = letter

NextOption == optind' = optind + 1 /\ UNCHANGED pc

(* parse_cmd returns UCS_ERR_UNSUPPORTED, and main -1.                     *)
Refuse == pc' = "exited" /\ UNCHANGED optind

(* The settings that parse_cmd writes: main's statics in hello_ucp, the    *)
(* parameters in print_utils.cpp.                                          *)
Parsed == IF app = "hello_ucp" THEN main ELSE param

Store(settings) ==
  IF app = "hello_ucp"
    THEN main' = settings /\ UNCHANGED param
    ELSE param' = settings /\ UNCHANGED main

(* Mutant: -e stores the peer mode only for a failure it knows how to wait *)
(* for.                                                                    *)
OptErrorHalf ==
  /\ Option("e")
  /\ IF Current.word \in FailureWords
       THEN /\ err' = [ucp_err_mode |-> IF Current.word = "keepalive" THEN "PEER"
                                        ELSE err.ucp_err_mode,
                       failure_mode |-> FailureModeOf(Current.word)]
            /\ NextOption
       ELSE /\ err' = [err EXCEPT !.ucp_err_mode = "PEER"]
            /\ Refuse
  /\ UNCHANGED <<app, args, name, testMode, main, param, memType>>

(* The peer mode is stored before the word is looked at.                   *)
OptError ==
  /\ Option("e")
  /\ IF Current.word \in FailureWords
       THEN /\ err' = [ucp_err_mode |-> "PEER",
                       failure_mode |-> FailureModeOf(Current.word)]
            /\ NextOption
       ELSE /\ err' = [err EXCEPT !.ucp_err_mode = "PEER"]
            /\ Refuse
  /\ UNCHANGED <<app, args, name, testMode, main, param, memType>>

(* simple_ucp_server.cpp passes NULL for server_name, which *server_name = *)
(* optarg writes through.                                                  *)
OptName ==
  /\ Option("n")
  /\ IF app = "run_ucp_server"
       THEN pc' = "killed" /\ UNCHANGED <<optind, name>>
       ELSE name' = Current.word /\ NextOption
  /\ UNCHANGED <<app, args, err, testMode, main, param, memType>>

OptFamily ==
  /\ Option("6")
  /\ Store([Parsed EXCEPT !.family = "inet6"]) /\ NextOption
  /\ UNCHANGED <<app, args, err, name, testMode, memType>>

(* Mutant: the number is checked before it is narrowed.                    *)
OptPortChecked ==
  /\ Option("p")
  /\ Store([Parsed EXCEPT !.port = AsPort(Current.num)])
  /\ IF Current.num <= 0 THEN Refuse ELSE NextOption
  /\ UNCHANGED <<app, args, err, name, testMode, memType>>

(* Mutant: the port is not narrowed.                                       *)
OptPortWide ==
  /\ Option("p")
  /\ Store([Parsed EXCEPT !.port = Current.num])
  /\ IF Current.num <= 0 THEN Refuse ELSE NextOption
  /\ UNCHANGED <<app, args, err, name, testMode, memType>>

(* atoi's int is stored in a uint16_t, and that is compared with 0.        *)
OptPort ==
  /\ Option("p")
  /\ LET port == AsPort(Current.num)
     IN  /\ Store([Parsed EXCEPT !.port = port])
         /\ IF port <= 0 THEN Refuse ELSE NextOption
  /\ UNCHANGED <<app, args, err, name, testMode, memType>>

(* Mutant: a length that was given once is kept.                           *)
OptLengthOnce ==
  /\ Option("s")
  /\ Store([Parsed EXCEPT !.length = IF @ = 4 THEN Current.num ELSE @])
  /\ IF Current.num < 0 THEN Refuse ELSE NextOption
  /\ UNCHANGED <<app, args, err, name, testMode, memType>>

OptLength ==
  /\ Option("s")
  /\ Store([Parsed EXCEPT !.length = Current.num])
  /\ IF Current.num < 0 THEN Refuse ELSE NextOption
  /\ UNCHANGED <<app, args, err, name, testMode, memType>>

(* check_mem_type_support looks at memory_utils.cpp's test_mem_type and not*)
(* at its parameter.                                                       *)
Supported == memType["memory_utils"] = "host"

ParserSource == IF app = "hello_ucp" THEN "ucp_hello_world_v2" ELSE "print_utils"

ParsedMemType(w) ==
  IF w = "host" \/ (w \in MemTypes /\ Supported) THEN w ELSE "last"

OptMemory ==
  /\ Option("m")
  /\ memType' = [memType EXCEPT ![ParserSource] = ParsedMemType(Current.word)]
  /\ IF ParsedMemType(Current.word) = "last" THEN Refuse ELSE NextOption
  /\ UNCHANGED <<app, args, err, name, testMode, main, param>>

OptPrint ==
  /\ Option("c")
  /\ Store([Parsed EXCEPT !.print = TRUE]) /\ NextOption
  /\ UNCHANGED <<app, args, err, name, testMode, memType>>

OptTestMode ==
  /\ app = "hello_ucp"
  /\ \E letter \in TestLetters :
       Option(letter) /\ testMode' = TestModeOf(letter)
  /\ NextOption
  /\ UNCHANGED <<app, args, err, name, main, param, memType>>

(* -h, an unknown option, or one that this program's getopt does not know. *)
OptHelp ==
  /\ \/ Option("h") \/ Option("?")
     \/ app # "hello_ucp" /\ \E letter \in TestLetters : Option(letter)
  /\ Refuse
  /\ UNCHANGED <<app, args, err, name, testMode, main, param, memType>>

ParseReturns ==
  /\ pc = "parse" /\ optind > Len(args)
  /\ pc' = "ok"
  /\ UNCHANGED <<app, args, optind, err, name, testMode, main, param, memType>>

(* main after UCS_OK: simple_ucp_client.cpp needs a server's name.         *)
MainContinues ==
  /\ pc = "ok"
  /\ pc' = IF app = "run_ucp_client" /\ name = "none" THEN "exited" ELSE "running"
  /\ UNCHANGED <<app, args, optind, err, name, testMode, main, param, memType>>

Next ==
  \/ OptError \/ OptName \/ OptFamily \/ OptPort \/ OptLength \/ OptMemory
  \/ OptPrint \/ OptTestMode \/ OptHelp \/ ParseReturns \/ MainContinues

Spec == Init /\ [][Next]_vars
-----------------------------------------------------------------------------
Ports == 0..65535

Settings == [port : Ports, family : {"inet", "inet6"}, length : Int, print : BOOLEAN]

(* Type invariant.                                                         *)
TypeOK ==
  /\ app \in Programs
  /\ args \in Seq(Options)
  /\ optind \in 1..Len(args) + 1
  /\ pc \in {"parse", "ok", "running", "exited", "killed"}
  /\ err \in [ucp_err_mode : {"NONE", "PEER"},
              failure_mode : {"NONE", "SEND", "RECV", "KEEPALIVE"}]
  /\ name \in Words \cup {"none"}
  /\ testMode \in UnsetMode \cup {"wait", "eventfd", "probe"}
  /\ main \in Settings /\ param \in Settings
  /\ memType \in [Sources -> MemTypes \cup {"last"}]

Accepted == pc \in {"parse", "ok", "running"}

(* Once the command line is accepted, peer error handling is on exactly    *)
(* when a failure was requested: the forced close and the skipped barrier  *)
(* of the runs are decided by the one and by the other.                    *)
PeerModeWithFailure ==
  Accepted => (err.ucp_err_mode = "PEER" <=> err.failure_mode # "NONE")

(* The i-th option is the last one of its letter before position n.        *)
LastBefore(i, n) ==
  i \in 1..n - 1 /\ \A j \in i + 1..n - 1 : args[j].opt # args[i].opt

InForce(o) ==
  /\ o.opt = "e" => err.failure_mode = FailureModeOf(o.word)
  /\ o.opt = "n" => name = o.word
  /\ o.opt = "p" => Parsed.port = AsPort(o.num)
  /\ o.opt = "s" => Parsed.length = o.num
  /\ o.opt = "6" => Parsed.family = "inet6"
  /\ o.opt = "c" => Parsed.print
  /\ o.opt = "m" => memType[ParserSource] = o.word

(* Of an option given several times the last one is in force, whatever     *)
(* comes between.                                                          *)
LastOptionWins ==
  Accepted => \A i \in 1..optind - 1 : LastBefore(i, optind) => InForce(args[i])

(* What the parser accepts as a port is not 0 in the 16 bits that are kept *)
(* of it, and what it accepts as a length is not negative.  A port of -1 is*)
(* accepted, as 65535.                                                     *)
AcceptedInRange == Accepted => Parsed.port > 0 /\ Parsed.length >= 0
-----------------------------------------------------------------------------
(* What the usage text says, and the programs do not do.                   *)

Last(letter) ==
  {args[i] : i \in {j \in 1..Len(args) : args[j].opt = letter /\ LastBefore(j, Len(args) + 1)}}

(* print_utils.cpp:14: "Set alternative server port".                      *)
PortSet == pc = "running" => \A o \in Last("p") : main.port = AsPort(o.num)
=============================================================================
