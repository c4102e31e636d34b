---------------------------- MODULE ParseProofs -----------------------------
(***************************************************************************)
(* Proofs about ParseCmd, for command lines of any length, with any words  *)
(* and numbers, and any value of the uninitialized test mode.              *)
(***************************************************************************)
EXTENDS ParseCmd, TLAPS

Inv == TypeOK /\ PeerModeWithFailure /\ AcceptedInRange /\ LastOptionWins

LEMMA Port == ASSUME NEW n \in Int PROVE AsPort(n) \in Ports /\ AsPort(n) \in Int
BY SMTT(60) DEF AsPort, Ports

(* Every step but the reading of an option leaves the settings alone.      *)
LEMMA CurrentOption ==
  ASSUME TypeOK, NEW letter, Option(letter)
  PROVE  /\ Current \in Options /\ Current.opt = letter
         /\ optind \in 1..Len(args) /\ Len(args) \in Nat
BY DEF TypeOK, Option, Current

(* The settings after Store.                                               *)
LEMMA Stored ==
  ASSUME TypeOK, NEW s \in Settings, Store(s), app' = app
  PROVE  main' \in Settings /\ param' \in Settings /\ Parsed' = s
BY DEF TypeOK, Store, Parsed

LEMMA ParsedType == ASSUME TypeOK PROVE Parsed \in Settings
BY DEF TypeOK, Parsed

(* What a changed setting leaves alone.                                    *)
LEMMA SetPort ==
  ASSUME NEW s \in Settings, NEW n \in Ports, NEW t, t = [s EXCEPT !.port = n]
  PROVE  /\ t \in Settings /\ t.port = n
         /\ t.family = s.family /\ t.length = s.length /\ t.print = s.print
BY DEF Settings

LEMMA SetFamily ==
  ASSUME NEW s \in Settings, NEW t, t = [s EXCEPT !.family = "inet6"]
  PROVE  /\ t \in Settings /\ t.family = "inet6"
         /\ t.port = s.port /\ t.length = s.length /\ t.print = s.print
BY DEF Settings

LEMMA SetLength ==
  ASSUME NEW s \in Settings, NEW n \in Int, NEW t, t = [s EXCEPT !.length = n]
  PROVE  /\ t \in Settings /\ t.length = n
         /\ t.port = s.port /\ t.family = s.family /\ t.print = s.print
BY DEF Settings

LEMMA SetPrint ==
  ASSUME NEW s \in Settings, NEW t, t = [s EXCEPT !.print = TRUE]
  PROVE  /\ t \in Settings /\ t.print = TRUE
         /\ t.port = s.port /\ t.family = s.family /\ t.length = s.length
BY DEF Settings

(* Type correctness.                                                       *)
LEMMA StepType == TypeOK /\ [Next]_vars => TypeOK'
<1> SUFFICES ASSUME TypeOK, [Next]_vars PROVE TypeOK'
  OBVIOUS
<1>0. Len(args) \in Nat
  BY DEF TypeOK
<1>p. Parsed \in Settings
  BY ParsedType
<1>1. CASE OptError
  <2>1. Current \in Options /\ optind + 1 \in 1..Len(args) + 1
    BY <1>1, CurrentOption, <1>0 DEF OptError
  <2> QED
    BY <1>1, <2>1 DEF OptError, NextOption, Refuse, TypeOK, FailureModeOf
<1>2. CASE OptName
  <2>1. Current.word \in Words /\ optind + 1 \in 1..Len(args) + 1
    BY <1>2, CurrentOption, <1>0 DEF OptName, Options
  <2> QED
    BY <1>2, <2>1 DEF OptName, NextOption, TypeOK
<1>3. CASE OptFamily
  <2>1. optind + 1 \in 1..Len(args) + 1
    BY <1>3, CurrentOption, <1>0 DEF OptFamily
  <2>2. main' \in Settings /\ param' \in Settings
    BY <1>3, <1>p, Stored DEF OptFamily, Settings
  <2> QED
    BY <1>3, <2>1, <2>2 DEF OptFamily, NextOption, TypeOK
<1>4. CASE OptPort
  <2>1. Current.num \in Int /\ optind + 1 \in 1..Len(args) + 1
    BY <1>4, CurrentOption, <1>0 DEF OptPort, Options
  <2>2. [Parsed EXCEPT !.port = AsPort(Current.num)] \in Settings
    BY <1>p, <2>1, Port DEF Settings
  <2>3. main' \in Settings /\ param' \in Settings
    BY <1>4, <2>2, Stored DEF OptPort
  <2> QED
    BY <1>4, <2>1, <2>3 DEF OptPort, NextOption, Refuse, TypeOK
<1>5. CASE OptLength
  <2>1. Current.num \in Int /\ optind + 1 \in 1..Len(args) + 1
    BY <1>5, CurrentOption, <1>0 DEF OptLength, Options
  <2>2. main' \in Settings /\ param' \in Settings
    BY <1>5, <1>p, <2>1, Stored DEF OptLength, Settings
  <2> QED
    BY <1>5, <2>1, <2>2 DEF OptLength, NextOption, Refuse, TypeOK
<1>6. CASE OptMemory
  <2>1. optind + 1 \in 1..Len(args) + 1
    BY <1>6, CurrentOption, <1>0 DEF OptMemory
  <2>2. memType' \in [Sources -> MemTypes \cup {"last"}]
    BY <1>6 DEF OptMemory, TypeOK, MemTypes, ParsedMemType
  <2> QED
    BY <1>6, <2>1, <2>2 DEF OptMemory, NextOption, Refuse, TypeOK
<1>7. CASE OptPrint
  <2>1. optind + 1 \in 1..Len(args) + 1
    BY <1>7, CurrentOption, <1>0 DEF OptPrint
  <2>2. main' \in Settings /\ param' \in Settings
    BY <1>7, <1>p, Stored DEF OptPrint, Settings
  <2> QED
    BY <1>7, <2>1, <2>2 DEF OptPrint, NextOption, TypeOK
<1>8. CASE OptTestMode
  <2>1. optind + 1 \in 1..Len(args) + 1
    BY <1>8, CurrentOption, <1>0 DEF OptTestMode
  <2> QED
    BY <1>8, <2>1 DEF OptTestMode, NextOption, TypeOK, TestModeOf
<1>9. CASE OptHelp
  BY <1>9 DEF OptHelp, Refuse, TypeOK
<1>10. CASE ParseReturns \/ MainContinues
  BY <1>10 DEF ParseReturns, MainContinues, TypeOK
<1>11. CASE UNCHANGED vars
  BY <1>11 DEF vars, TypeOK
<1> QED
  BY <1>1, <1>2, <1>3, <1>4, <1>5, <1>6, <1>7, <1>8, <1>9, <1>10, <1>11 DEF Next

(* What one accepted option does: it is in force, and a step that reads    *)
(* one letter leaves what the other letters have set.                      *)
Effect ==
  /\ optind' = optind + 1
  /\ \A o \in Options :
       o = Current \/ (o.opt # Current.opt /\ InForce(o)) => InForce(o)'

RangeKept ==
  Parsed.port > 0 /\ Parsed.length >= 0 => Parsed'.port > 0 /\ Parsed'.length >= 0

ModesKept ==
  (err.ucp_err_mode = "PEER" <=> err.failure_mode # "NONE")
    => (err'.ucp_err_mode = "PEER" <=> err'.failure_mode # "NONE")

LEMMA StepEffect ==
  ASSUME TypeOK, Next, pc = "parse", pc' = "parse"
  PROVE  Effect /\ optind \in 1..Len(args) /\ args' = args /\ RangeKept /\ ModesKept
<1>0. Len(args) \in Nat
  BY DEF TypeOK
<1>p. Parsed \in Settings
  BY ParsedType
<1>a. UNCHANGED <<app, main, param>> => Parsed' = Parsed
  BY DEF Parsed
<1>b. UNCHANGED app => ParserSource' = ParserSource
  BY DEF ParserSource
<1>1. CASE OptError
  <2>1. Current \in Options /\ Current.opt = "e" /\ optind \in 1..Len(args)
    BY <1>1, CurrentOption DEF OptError
  <2>2. /\ err' = [ucp_err_mode |-> "PEER", failure_mode |-> FailureModeOf(Current.word)]
        /\ optind' = optind + 1
        /\ UNCHANGED <<app, args, name, main, param, memType>>
    BY <1>1 DEF OptError, NextOption, Refuse
  <2>3. FailureModeOf(Current.word) # "NONE"
    BY DEF FailureModeOf
  <2>5. RangeKept /\ ModesKept
    BY <1>p, <1>a, <2>1, <2>2, <2>3 DEF RangeKept, ModesKept
  <2>6. ASSUME NEW o \in Options, o = Current \/ (o.opt # Current.opt /\ InForce(o))
        PROVE  InForce(o)'
    BY <1>a, <1>b, <2>1, <2>2, <2>3, <2>6 DEF InForce
  <2> QED
    BY <2>1, <2>2, <2>3, <2>5, <2>6 DEF Effect
<1>2. CASE OptName
  <2>1. Current \in Options /\ Current.opt = "n" /\ optind \in 1..Len(args)
    BY <1>2, CurrentOption DEF OptName
  <2>2. /\ name' = Current.word /\ optind' = optind + 1
        /\ UNCHANGED <<app, args, err, main, param, memType>>
    BY <1>2 DEF OptName, NextOption
  <2>5. RangeKept /\ ModesKept
    BY <1>p, <1>a, <2>1, <2>2 DEF RangeKept, ModesKept
  <2>6. ASSUME NEW o \in Options, o = Current \/ (o.opt # Current.opt /\ InForce(o))
        PROVE  InForce(o)'
    BY <1>a, <1>b, <2>1, <2>2, <2>6 DEF InForce
  <2> QED
    BY <2>1, <2>2, <2>5, <2>6 DEF Effect
<1>3. CASE OptFamily
  <2>1. Current \in Options /\ Current.opt = "6" /\ optind \in 1..Len(args)
    BY <1>3, CurrentOption DEF OptFamily
  <2>2. optind' = optind + 1 /\ UNCHANGED <<app, args, err, name, memType>>
    BY <1>3 DEF OptFamily, NextOption
  <2>3. PICK t : t = [Parsed EXCEPT !.family = "inet6"] /\ Store(t)
    BY <1>3 DEF OptFamily
  <2>4. /\ Parsed' = t /\ t.family = "inet6" /\ t.port = Parsed.port
        /\ t.length = Parsed.length /\ t.print = Parsed.print
    BY <1>p, <2>2, <2>3, SetFamily, Stored
  <2>5. RangeKept /\ ModesKept
    BY <1>p, <1>a, <2>1, <2>2, <2>4 DEF RangeKept, ModesKept
  <2>6. ASSUME NEW o \in Options, o = Current \/ (o.opt # Current.opt /\ InForce(o))
        PROVE  InForce(o)'
    BY <1>a, <1>b, <2>1, <2>2, <2>4, <2>6 DEF InForce
  <2> QED
    BY <2>1, <2>2, <2>4, <2>5, <2>6 DEF Effect
<1>4. CASE OptPort
  <2>1. Current \in Options /\ Current.opt = "p" /\ optind \in 1..Len(args)
    BY <1>4, CurrentOption DEF OptPort
  <2>2. /\ optind' = optind + 1 /\ UNCHANGED <<app, args, err, name, memType>>
        /\ ~(AsPort(Current.num) <= 0)
    BY <1>4 DEF OptPort, NextOption, Refuse
  <2>3. AsPort(Current.num) \in Ports /\ AsPort(Current.num) \in Int
    BY <2>1, Port DEF Options
  <2>4. PICK t : t = [Parsed EXCEPT !.port = AsPort(Current.num)] /\ Store(t)
    BY <1>4 DEF OptPort
  <2>7. /\ Parsed' = t /\ t.port = AsPort(Current.num) /\ t.family = Parsed.family
        /\ t.length = Parsed.length /\ t.print = Parsed.print
    BY <1>p, <2>2, <2>3, <2>4, SetPort, Stored
  <2>5. RangeKept /\ ModesKept
    BY <1>p, <1>a, <2>1, <2>2, <2>3, <2>7 DEF RangeKept, ModesKept
  <2>6. ASSUME NEW o \in Options, o = Current \/ (o.opt # Current.opt /\ InForce(o))
        PROVE  InForce(o)'
    BY <1>a, <1>b, <2>1, <2>2, <2>3, <2>7, <2>6 DEF InForce
  <2> QED
    BY <2>1, <2>2, <2>3, <2>7, <2>5, <2>6 DEF Effect
<1>5. CASE OptLength
  <2>1. Current \in Options /\ Current.opt = "s" /\ optind \in 1..Len(args)
    BY <1>5, CurrentOption DEF OptLength
  <2>2. /\ optind' = optind + 1 /\ UNCHANGED <<app, args, err, name, memType>>
        /\ ~(Current.num < 0) /\ Current.num \in Int
    BY <1>5, <2>1 DEF OptLength, NextOption, Refuse, Options
  <2>3. PICK t : t = [Parsed EXCEPT !.length = Current.num] /\ Store(t)
    BY <1>5 DEF OptLength
  <2>4. /\ Parsed' = t /\ t.length = Current.num /\ t.port = Parsed.port
        /\ t.family = Parsed.family /\ t.print = Parsed.print
    BY <1>p, <2>2, <2>3, SetLength, Stored
  <2>5. RangeKept /\ ModesKept
    BY <1>p, <1>a, <2>1, <2>2, <2>4 DEF RangeKept, ModesKept
  <2>6. ASSUME NEW o \in Options, o = Current \/ (o.opt # Current.opt /\ InForce(o))
        PROVE  InForce(o)'
    BY <1>a, <1>b, <2>1, <2>2, <2>4, <2>6 DEF InForce
  <2> QED
    BY <2>1, <2>2, <2>4, <2>5, <2>6 DEF Effect
<1>6. CASE OptMemory
  <2>1. Current \in Options /\ Current.opt = "m" /\ optind \in 1..Len(args)
    BY <1>6, CurrentOption DEF OptMemory
  <2>2. /\ memType' = [memType EXCEPT ![ParserSource] = Current.word]
        /\ optind' = optind + 1
        /\ UNCHANGED <<app, args, err, name, main, param>>
    BY <1>6 DEF OptMemory, ParsedMemType, NextOption, Refuse
  <2>3. ParserSource' = ParserSource /\ memType'[ParserSource] = Current.word
    BY <2>2 DEF ParserSource, TypeOK, Sources
  <2>5. RangeKept /\ ModesKept
    BY <1>p, <1>a, <2>1, <2>2, <2>3 DEF RangeKept, ModesKept
  <2>6. ASSUME NEW o \in Options, o = Current \/ (o.opt # Current.opt /\ InForce(o))
        PROVE  InForce(o)'
    BY <1>a, <1>b, <2>1, <2>2, <2>3, <2>6 DEF InForce
  <2> QED
    BY <2>1, <2>2, <2>3, <2>5, <2>6 DEF Effect
<1>7. CASE OptPrint
  <2>1. Current \in Options /\ Current.opt = "c" /\ optind \in 1..Len(args)
    BY <1>7, CurrentOption DEF OptPrint
  <2>2. optind' = optind + 1 /\ UNCHANGED <<app, args, err, name, memType>>
    BY <1>7 DEF OptPrint, NextOption
  <2>3. PICK t : t = [Parsed EXCEPT !.print = TRUE] /\ Store(t)
    BY <1>7 DEF OptPrint
  <2>4. /\ Parsed' = t /\ t.print = TRUE /\ t.port = Parsed.port
        /\ t.family = Parsed.family /\ t.length = Parsed.length
    BY <1>p, <2>2, <2>3, SetPrint, Stored
  <2>5. RangeKept /\ ModesKept
    BY <1>p, <1>a, <2>1, <2>2, <2>4 DEF RangeKept, ModesKept
  <2>6. ASSUME NEW o \in Options, o = Current \/ (o.opt # Current.opt /\ InForce(o))
        PROVE  InForce(o)'
    BY <1>a, <1>b, <2>1, <2>2, <2>4, <2>6 DEF InForce
  <2> QED
    BY <2>1, <2>2, <2>4, <2>5, <2>6 DEF Effect
<1>8. CASE OptTestMode
  <2>1. Current \in Options /\ Current.opt \in TestLetters /\ optind \in 1..Len(args)
    BY <1>8, CurrentOption DEF OptTestMode
  <2>2. optind' = optind + 1 /\ UNCHANGED <<app, args, err, name, main, param, memType>>
    BY <1>8 DEF OptTestMode, NextOption
  <2>5. RangeKept /\ ModesKept
    BY <1>p, <1>a, <2>1, <2>2 DEF RangeKept, ModesKept
  <2>6. ASSUME NEW o \in Options, o = Current \/ (o.opt # Current.opt /\ InForce(o))
        PROVE  InForce(o)'
    BY <1>a, <1>b, <2>1, <2>2, <2>6 DEF InForce, TestLetters
  <2> QED
    BY <2>1, <2>2, <2>5, <2>6 DEF Effect
<1>9. CASE OptHelp \/ ParseReturns \/ MainContinues
  BY <1>9 DEF OptHelp, Refuse, ParseReturns, MainContinues
<1> QED
  BY <1>1, <1>2, <1>3, <1>4, <1>5, <1>6, <1>7, <1>8, <1>9 DEF Next

(* A step that does not read an option of an accepted command line.        *)
LEMMA StepReturn ==
  ASSUME TypeOK, [Next]_vars, Accepted', ~(pc = "parse" /\ pc' = "parse" /\ Next)
  PROVE  Accepted /\ UNCHANGED <<app, args, optind, err, name, main, param, memType>>
<1>1. CASE UNCHANGED vars
  BY <1>1 DEF vars, Accepted
<1>2. CASE ParseReturns \/ MainContinues
  BY <1>2 DEF ParseReturns, MainContinues, Accepted
<1>3. ASSUME pc = "parse", Next, ~ParseReturns, ~MainContinues
      PROVE  pc' = "parse" \/ ~Accepted'
  BY <1>3 DEF Next, OptError, OptName, OptFamily, OptPort, OptLength, OptMemory,
              OptPrint, OptTestMode, OptHelp, NextOption, Refuse, Accepted
<1>4. Next /\ ~ParseReturns /\ ~MainContinues => pc = "parse"
  BY DEF Next, OptError, OptName, OptFamily, OptPort, OptLength, OptMemory,
         OptPrint, OptTestMode, OptHelp, Option
<1> QED
  BY <1>1, <1>2, <1>3, <1>4

(* The invariant holds in every state.                                     *)
THEOREM ParseInductive == Spec => []Inv
<1>1. Init => Inv
  <2> SUFFICES ASSUME Init PROVE Inv
    OBVIOUS
  <2>0. optind = 1
    BY DEF Init
  <2>1. args \in Seq(Options)
    <3>1. args \in CommandLines
      BY DEF Init
    <3> QED
      BY <3>1, CommandLinesAssumption
  <2>2. Len(args) \in Nat
    BY <2>1
  <2>3. Defaults \in Settings /\ Defaults.port > 0 /\ Defaults.length >= 0
    <3>1. 13337 \in Ports
      BY DEF Ports
    <3> QED
      BY <3>1 DEF Defaults, Settings
  <2>4. TypeOK
    <3>1. /\ app \in Programs /\ pc = "parse" /\ name = "none" /\ testMode \in UnsetMode
          /\ err = [ucp_err_mode |-> "NONE", failure_mode |-> "NONE"]
      BY DEF Init
    <3>2. optind \in 1..Len(args) + 1
      BY <2>0, <2>2
    <3>3. main \in Settings /\ param \in Settings
      BY <2>3 DEF Init
    <3>4. memType \in [Sources -> MemTypes \cup {"last"}]
      BY DEF Init, MemTypes
    <3>5. pc \in {"parse", "ok", "running", "exited", "killed"}
      BY <3>1, Zenon
    <3>8. name \in Words \cup {"none"}
      BY <3>1, Zenon
    <3>6. testMode \in UnsetMode \cup {"wait", "eventfd", "probe"}
      BY <3>1, Zenon
    <3>7. err \in [ucp_err_mode : {"NONE", "PEER"},
                   failure_mode : {"NONE", "SEND", "RECV", "KEEPALIVE"}]
      BY <3>1
    <3> QED
      BY <2>1, <3>1, <3>2, <3>3, <3>4, <3>5, <3>6, <3>7, <3>8 DEF TypeOK
  <2>5. PeerModeWithFailure
    BY DEF Init, PeerModeWithFailure
  <2>6. AcceptedInRange
    BY <2>3 DEF Init, AcceptedInRange, Parsed
  <2>7. LastOptionWins
    <3>1. 1..optind - 1 = {}
      BY <2>0
    <3> QED
      BY <3>1 DEF LastOptionWins
  <2> QED
    BY <2>4, <2>5, <2>6, <2>7 DEF Inv
<1>2. Inv /\ [Next]_vars => Inv'
  <2> SUFFICES ASSUME Inv, [Next]_vars PROVE Inv'
    OBVIOUS
  <2>1. TypeOK /\ TypeOK'
    BY StepType DEF Inv
  <2>2. CASE ~Accepted'
    BY <2>1, <2>2 DEF Inv, PeerModeWithFailure, AcceptedInRange, LastOptionWins
  <2>3. CASE Accepted' /\ pc = "parse" /\ pc' = "parse" /\ Next
    <3>1. Accepted
      BY <2>3 DEF Accepted
    <3>2. Effect /\ optind \in 1..Len(args) /\ args' = args
      BY <2>1, <2>3, StepEffect
    <3>3. PeerModeWithFailure' /\ AcceptedInRange'
      BY <2>1, <2>3, <3>1, StepEffect
         DEF Inv, PeerModeWithFailure, AcceptedInRange, RangeKept, ModesKept
    <3>4. ASSUME NEW i \in 1..optind' - 1, LastBefore(i, optind)', NEW o, o = args[i]
          PROVE  InForce(o)'
      <4>1. /\ optind' = optind + 1 /\ args \in Seq(Options) /\ optind \in Nat
            /\ Len(args) \in Nat /\ i \in 1..Len(args) /\ o \in Options
        BY <2>1, <3>2, <3>4 DEF Effect, TypeOK
      <4>2. CASE i = optind
        BY <3>2, <3>4, <4>1, <4>2 DEF Effect, Current
      <4>3. CASE i # optind
        <5>1. i \in 1..optind - 1 /\ optind \in i + 1..optind' - 1
          BY <4>1, <4>3
        <5>2. o.opt # Current.opt /\ LastBefore(i, optind)
          BY <3>2, <3>4, <4>1, <5>1 DEF LastBefore, Current
        <5>3. InForce(o)
          BY <3>1, <3>4, <5>1, <5>2 DEF Inv, LastOptionWins
        <5> QED
          BY <3>2, <4>1, <5>2, <5>3 DEF Effect
      <4> QED
        BY <4>2, <4>3
    <3>5. LastOptionWins'
      BY <3>2, <3>4 DEF LastOptionWins, InForce
    <3> QED
      BY <2>1, <3>3, <3>5 DEF Inv
  <2>4. CASE Accepted' /\ ~(pc = "parse" /\ pc' = "parse" /\ Next)
    BY <2>1, <2>4, StepReturn
       DEF Inv, PeerModeWithFailure, AcceptedInRange, LastOptionWins, LastBefore,
           InForce, Parsed, ParserSource
  <2> QED
    BY <2>2, <2>3, <2>4
<1> QED
  BY <1>1, <1>2, PTL DEF Spec

(* Type correctness: a settled port fits into 16 bits, a setting is one    *)
(* that the switch knows.                                                  *)
THEOREM TypeCorrect == Spec => []TypeOK
<1>1. Inv => TypeOK
  BY DEF Inv
<1> QED
  BY <1>1, ParseInductive, PTL

(* An accepted command line turns peer error handling on exactly when it   *)
(* asks for a failure.                                                     *)
THEOREM PeerModeMatches == Spec => []PeerModeWithFailure
<1>1. Inv => PeerModeWithFailure
  BY DEF Inv
<1> QED
  BY <1>1, ParseInductive, PTL

(* Of an option given several times the last one is in force.              *)
THEOREM LastWins == Spec => []LastOptionWins
<1>1. Inv => LastOptionWins
  BY DEF Inv
<1> QED
  BY <1>1, ParseInductive, PTL

(* An accepted port is not 0, an accepted length not negative.             *)
THEOREM InRange == Spec => []AcceptedInRange
<1>1. Inv => AcceptedInRange
  BY DEF Inv
<1> QED
  BY <1>1, ParseInductive, PTL
=============================================================================
