---------------------------- MODULE DriverProofs ----------------------------
(***************************************************************************)
(* Theorems about Driver, for every set of command lines and inputs, every *)
(* buffer size and whatever the compiler dies of.                          *)
(*                                                                         *)
(* Of the parser the proofs use what Tables (Grammar.tla) says of the      *)
(* tables: a state is entered on the symbol before the dot of its items.   *)
(* From that follows that what a reduction pops is on the stack.           *)
(***************************************************************************)
EXTENDS Driver, FiniteSetTheorems, TLAPS, SequenceTheorems

\* Facts about the natural numbers.
Zero(p) == 0
Same(p, n, x) == x
Numbers == INSTANCE Recursion WITH Start <- Zero, Step <- Same

-----------------------------------------------------------------------------
(* The command line.                                                       *)

\* The options main has looked at.
Seen == {cmd.options[i] : i \in 1 .. optind}

\* The flags are the options seen so far, none of which ends the process, unless
\* one did. Past the loop all have been seen, and the outcome follows the flags.
CommandInv ==
  /\ cmd \in Commands
  /\ optind \in 0 .. Len(cmd.options)
  /\ flags \subseteq {"s", "b", "t"}
  /\ yyin \in {"none", "file", "stdin"}
  /\ phase \in {"options", "parse", "compile", "exit"}
  /\ (phase = "exit") = (exit # Running)
  /\ \/ exit.did = "usage"
     \/ flags = Seen \ {"v"} /\ Seen \cap ({"h"} \cup Refused) = {}
  /\ phase = "options" \/ exit.did = "usage" \/ optind = Len(cmd.options)
  /\ yyin # "none" => phase # "options" /\ exit.did # "usage"
  /\ yyin = "file" => "s" \notin flags /\ cmd.files > 0
  /\ exit.did = "tree" => "t" \in flags
  /\ exit.did = "bytecode" => "b" \in flags /\ "t" \notin flags
  /\ exit.did = "run" => flags \cap {"b", "t"} = {}

LEMMA CommandLine ==
  ASSUME NEW c \in Commands
  PROVE  /\ c.options \in Seq({"h", "s", "b", "t", "v", "?"})
         /\ c.files \in Nat
  BY DriverAssumption

LEMMA CommandStarts == Init => CommandInv
<1> SUFFICES ASSUME Init PROVE CommandInv
  OBVIOUS
<1>1. cmd.options \in Seq({"h", "s", "b", "t", "v", "?"}) /\ Len(cmd.options) \in Nat
  BY CommandLine, LenProperties DEF Init
<1>2. Seen = {}
  BY DEF Seen, Init
<1> QED
  BY <1>1, <1>2 DEF Init, CommandInv, Running

LEMMA TakesOption ==
  ASSUME CommandInv, GetOpt
  PROVE  CommandInv'
<1> DEFINE ch == cmd.options[optind + 1]
<1>1. cmd.options \in Seq({"h", "s", "b", "t", "v", "?"}) /\ Len(cmd.options) \in Nat
  BY CommandLine, LenProperties DEF CommandInv
<1>2. optind + 1 \in 1 .. Len(cmd.options) /\ optind' = optind + 1
  BY <1>1 DEF GetOpt, CommandInv
<1>3. ch \in {"h", "s", "b", "t", "v", "?"}
  BY <1>1, <1>2, ElementOfSeq
<1>4. cmd' = cmd /\ yyin' = yyin /\ phase = "options" /\ exit = Running /\ exit.did = "nothing"
  BY DEF GetOpt, CommandInv, Running
<1>5. yyin = "none"
  BY <1>4 DEF CommandInv
<1>6. Seen' = Seen \cup {ch}
  <2>1. 1 .. (optind + 1) = (1 .. optind) \cup {optind + 1}
    BY DEF CommandInv
  <2> QED
    BY <1>2, <1>4, <2>1 DEF Seen
<1>7. flags = Seen \ {"v"} /\ Seen \cap ({"h"} \cup Refused) = {}
  BY <1>4 DEF CommandInv
<1>8. CASE Exit(EXIT_SUCCESS, "usage") /\ UNCHANGED flags
  BY <1>2, <1>4, <1>5, <1>8 DEF CommandInv, Exit, Running, EXIT_SUCCESS
<1>9. CASE Exit(EXIT_BAD_ARGS, "usage") /\ UNCHANGED flags
  BY <1>2, <1>4, <1>5, <1>9 DEF CommandInv, Exit, Running, EXIT_BAD_ARGS
<1>10. CASE ch \notin Refused \cup {"h"} /\ flags' = Flagged(ch) /\ UNCHANGED <<phase, exit>>
  <2>1. Refused' = Refused /\ "?" \in Refused
    BY <1>4 DEF Refused
  <2>2. flags' = Seen' \ {"v"} /\ Seen' \cap ({"h"} \cup Refused') = {}
    BY <1>6, <1>7, <1>10, <2>1 DEF Flagged
  <2>3. flags' \subseteq {"s", "b", "t"}
    BY <1>3, <1>10, <2>1 DEF Flagged, CommandInv
  <2> QED
    BY <1>2, <1>4, <1>5, <1>10, <2>2, <2>3 DEF CommandInv
<1> QED
  BY <1>8, <1>9, <1>10 DEF GetOpt

LEMMA OpensInput ==
  ASSUME CommandInv, Open
  PROVE  CommandInv'
<1>1. cmd' = cmd /\ optind' = optind /\ flags' = flags /\ phase = "options"
  BY DEF Open
<1>2. exit = Running /\ exit.did = "nothing" /\ yyin = "none"
  BY <1>1 DEF CommandInv, Running
<1>3. Seen' = Seen /\ Refused' = Refused
  BY <1>1 DEF Seen, Refused
<1>4. CASE "s" \notin flags /\ cmd.files = 0
  BY <1>1, <1>2, <1>4 DEF Open, CommandInv, Exit, Running, EXIT_BAD_ARGS
<1>5. CASE ~("s" \notin flags /\ cmd.files = 0)
  <2>1. yyin' = (IF "s" \in flags \/ ~cmd.opens THEN "stdin" ELSE "file")
        /\ phase' = "parse" /\ exit' = exit
    BY <1>5 DEF Open
  <2>2. cmd.files \in Nat
    BY CommandLine DEF CommandInv
  <2>3. yyin' = "file" => "s" \notin flags /\ cmd.files > 0
    BY <1>5, <2>1, <2>2
  <2>4. optind = Len(cmd.options)
    BY DEF Open
  <2>5. yyin' \in {"none", "file", "stdin"}
    BY <2>1
  <2> QED
    BY <1>1, <1>2, <1>3, <2>1, <2>3, <2>4, <2>5 DEF CommandInv
<1> QED
  BY <1>4, <1>5

\* While the process runs.
LEMMA NotEnded ==
  ASSUME CommandInv, phase \in {"parse", "compile"}
  PROVE  exit = Running /\ exit.did = "nothing" /\ optind = Len(cmd.options)
<1>1. exit = Running
  BY DEF CommandInv
<1>2. exit.did = "nothing"
  BY <1>1 DEF Running
<1> QED
  BY <1>1, <1>2 DEF CommandInv

LEMMA CommandStays ==
  ASSUME CommandInv, UNCHANGED <<cmd, optind, flags, yyin>>,
         \/ UNCHANGED <<phase, exit>>
         \/ phase = "parse" /\ phase' = "compile" /\ UNCHANGED exit
         \/ phase = "parse" /\ Exit(255, "yyerror")
  PROVE  CommandInv'
<1>1. Seen' = Seen /\ Refused' = Refused
  BY DEF Seen, Refused
<1>2. CASE UNCHANGED <<phase, exit>>
  BY <1>1, <1>2 DEF CommandInv
<1>3. CASE phase = "parse" /\ phase' = "compile" /\ UNCHANGED exit
  <2>1. exit = Running /\ exit.did = "nothing" /\ optind = Len(cmd.options)
    BY <1>3, NotEnded
  <2> QED
    BY <1>1, <1>3, <2>1 DEF CommandInv
<1>4. CASE phase = "parse" /\ Exit(255, "yyerror")
  <2>1. exit = Running /\ exit.did = "nothing" /\ optind = Len(cmd.options)
    BY <1>4, NotEnded
  <2>2. phase' = "exit" /\ exit'.did = "yyerror"
    BY <1>4 DEF Exit
  <2>3. exit' # Running
    BY <2>2 DEF Running
  <2> QED
    BY <1>1, <1>4, <2>1, <2>2, <2>3 DEF CommandInv
<1> QED
  BY <1>2, <1>3, <1>4

LEMMA Finishes ==
  ASSUME CommandInv, Finish
  PROVE  CommandInv'
<1>1. phase = "compile" /\ UNCHANGED <<cmd, optind, flags, yyin>>
  BY DEF Finish
<1>2. exit = Running /\ exit.did = "nothing" /\ optind = Len(cmd.options)
  BY <1>1, NotEnded
<1>3. Seen' = Seen /\ Refused' = Refused
  BY <1>1 DEF Seen, Refused
<1>4. /\ phase' = "exit"
      /\ \/ exit'.did = "tree" /\ "t" \in flags
         \/ exit'.did = "crash"
         \/ exit'.did = "bytecode" /\ "b" \in flags /\ "t" \notin flags
         \/ exit'.did = "run" /\ "b" \notin flags /\ "t" \notin flags
  BY DEF Finish, Exit
<1>5. exit' # Running
  BY <1>4 DEF Running
<1> QED
  BY <1>1, <1>2, <1>3, <1>4, <1>5 DEF CommandInv

LEMMA CommandStep ==
  ASSUME CommandInv, [Next]_vars
  PROVE  CommandInv'
<1>1. CASE GetOpt
  BY <1>1, TakesOption
<1>2. CASE Open
  BY <1>2, OpensInput
<1>3. CASE Refill
  BY <1>3, CommandStays DEF Refill
<1>4. CASE Lex
  BY <1>4, CommandStays DEF Lex
<1>5. CASE Shift
  BY <1>5, CommandStays DEF Shift
<1>6. CASE Reduce
  BY <1>6, CommandStays DEF Reduce
<1>7. CASE yyerror
  BY <1>7, CommandStays DEF yyerror
<1>8. CASE Accept
  BY <1>8, CommandStays DEF Accept
<1>9. CASE Finish
  BY <1>9, Finishes
<1>10. CASE UNCHANGED vars
  BY <1>10, CommandStays DEF vars
<1> QED
  BY <1>1, <1>2, <1>3, <1>4, <1>5, <1>6, <1>7, <1>8, <1>9, <1>10 DEF Next, TakeInput, Done

THEOREM CommandFollowed == Spec => []CommandInv
<1> QED
  BY CommandStarts, CommandStep, PTL DEF Spec

\* What main does in the end is what the options say, for any command line: -h
\* and a wrong option before all, then -t before -b, and the file only without -s.
THEOREM FollowsOptions == Spec => []DoesAsTold
<1>1. CommandInv => DoesAsTold
  <2> SUFFICES ASSUME CommandInv PROVE DoesAsTold
    OBVIOUS
  <2> DEFINE told == Range(cmd.options)
  <2>1. cmd.options \in Seq({"h", "s", "b", "t", "v", "?"})
        /\ DOMAIN cmd.options = 1 .. Len(cmd.options)
    BY CommandLine, LenProperties DEF CommandInv
  <2>2. ASSUME optind = Len(cmd.options) PROVE Seen = told
    BY <2>1, <2>2 DEF Seen, Range
  <2>3. ASSUME exit.did \in {"tree", "bytecode", "run"}
        PROVE  flags = told \ {"v"} /\ told \cap ({"h"} \cup Refused) = {}
    <3>1. phase = "exit"
      BY <2>3 DEF CommandInv, Running
    <3> QED
      BY <2>2, <2>3, <3>1 DEF CommandInv
  <2>4. ASSUME yyin = "file" PROVE flags = told \ {"v"}
    BY <2>2, <2>4 DEF CommandInv
  <2>5. /\ exit.did = "tree" => "t" \in told
        /\ exit.did = "bytecode" => "b" \in told /\ "t" \notin told
        /\ exit.did = "run" => told \cap {"b", "t"} = {}
    BY <2>3 DEF CommandInv
  <2>6. yyin = "file" => "s" \notin told /\ cmd.files > 0
    BY <2>4 DEF CommandInv
  <2> QED
    BY <2>3, <2>5, <2>6 DEF DoesAsTold
<1> QED
  BY <1>1, CommandFollowed, PTL

-----------------------------------------------------------------------------
(* The input.                                                              *)

\* What yylex may match, beside the end of the input.
Tokens == Alphabet \cup UNION {Range(c.given) : c \in Commands}

\* The text is the beginning of what is given, and with the buffer all that was
\* read, which is everything once feof holds. The parser sees an end only where
\* the input ends or after what the scanner does not know; main, which asks feof,
\* goes on after the one and stops at the other.
InputInv ==
  /\ cmd \in Commands
  /\ text \in Seq(Tokens)
  /\ buffered \in Nat
  /\ begun \in 0 .. Len(text)
  /\ eof \in BOOLEAN
  /\ lookahead \in Tokens \cup {End, Nothing}
  /\ given # <<>> =>
       /\ Len(text) + buffered <= Len(given)
       /\ \A i \in 1 .. Len(text) : text[i] = given[i]
       /\ eof => Len(text) + buffered = Len(given)
  /\ lookahead = End =>
       (buffered = 0 /\ eof) \/ (text # <<>> /\ text[Len(text)] = Unknown)
  /\ begun > 0 => \E i \in 1 .. Len(text) : text[i] = Unknown
  /\ phase = "compile" =>
       /\ eof
       /\ buffered > 0 => text # <<>> /\ text[Len(text)] = Unknown

LEMMA GivenTokens ==
  ASSUME NEW c \in Commands
  PROVE  c.given \in Seq(Tokens) /\ Len(c.given) \in Nat
<1>1. c.given \in Seq(Range(c.given)) /\ Range(c.given) \subseteq Tokens
  BY DriverAssumption DEF Tokens
<1>2. c.given \in Seq(Tokens)
  BY <1>1, SeqMonotonic
<1> QED
  BY <1>2, LenProperties

\* No token is taken for the end of the input or for none.
LEMMA TokensOnly ==
  ASSUME NEW t \in Tokens
  PROVE  t # End /\ t # Nothing /\ t.t # "$end"
<1>1. t.t \notin {"$end", "nothing"}
  BY DriverAssumption DEF Tokens
<1> QED
  BY <1>1 DEF End, Nothing

LEMMA InputStarts == Init => InputInv
<1> SUFFICES ASSUME Init PROVE InputInv
  OBVIOUS
<1>1. text = <<>> /\ text \in Seq(Tokens) /\ Len(text) = 0
  BY EmptySeq DEF Init
<1>2. Len(given) \in Nat
  BY GivenTokens DEF Init, given
<1>3. lookahead # End
  BY DEF Init, Nothing, End
<1>4. \A i \in 1 .. Len(text) : text[i] = given[i]
  BY <1>1
<1>5. lookahead \in Tokens \cup {End, Nothing} /\ begun \in 0 .. Len(text)
  BY <1>1 DEF Init
<1>6. given # <<>> =>
        /\ Len(text) + buffered <= Len(given)
        /\ eof => Len(text) + buffered = Len(given)
  BY <1>1, <1>2 DEF Init
<1>7. buffered \in Nat /\ eof \in BOOLEAN /\ begun = 0 /\ phase # "compile" /\ cmd \in Commands
  BY DEF Init
<1> QED
  BY <1>1, <1>3, <1>4, <1>5, <1>6, <1>7 DEF InputInv

LEMMA Refills ==
  ASSUME InputInv, Refill
  PROVE  InputInv'
<1>1. UNCHANGED <<cmd, text, begun, lookahead, phase>> /\ given' = given
  BY DEF Refill, given, parser
<1>2. lookahead # End /\ phase # "compile" /\ ~eof
  BY DEF Refill, Asking, Nothing, End
<1>3. PICK n \in 0 .. Smaller(BufSize, Unread) :
        /\ given # <<>> => n = Smaller(BufSize, Unread)
        /\ buffered' = buffered + n
        /\ \/ eof' = AtEnd(n)
           \/ tty /\ n > 0 /\ eof' = FALSE
  BY DEF Refill
<1>4. Len(text) \in Nat /\ Len(given) \in Nat /\ BufSize \in Nat
  BY GivenTokens, LenProperties, DriverAssumption DEF InputInv, given
<1>5. buffered' \in Nat /\ eof' \in BOOLEAN
  <2>1. n \in Nat
    OBVIOUS
  <2>2. buffered' \in Nat
    BY <1>3, <2>1 DEF InputInv
  <2>3. eof' \in BOOLEAN
    <3>1. AtEnd(n) = TRUE \/ AtEnd(n) = FALSE
      BY DEF AtEnd
    <3> QED
      BY <1>3, <3>1
  <2> QED
    BY <2>2, <2>3
<1>6. ASSUME given # <<>>
      PROVE  /\ Len(text) + buffered' <= Len(given)
             /\ eof' => Len(text) + buffered' = Len(given)
  <2>1. Unread = Len(given) - Len(text) - buffered /\ Unread \in Nat
    BY <1>4, <1>6 DEF InputInv, Unread
  <2>2. n = (IF BufSize < Unread THEN BufSize ELSE Unread)
    BY <1>3, <1>6 DEF Smaller
  <2>3. eof' => n < BufSize
    BY <1>3 DEF AtEnd
  <2> QED
    BY <1>3, <1>4, <2>1, <2>2, <2>3 DEF InputInv
<1> QED
  BY <1>1, <1>2, <1>5, <1>6 DEF InputInv

LEMMA Lexes ==
  ASSUME InputInv, Lex
  PROVE  InputInv'
<1>1. UNCHANGED <<cmd, begun, eof, phase>> /\ given' = given
  BY DEF Lex, given
<1>2. phase # "compile" /\ Len(text) \in Nat /\ Len(given) \in Nat
  BY GivenTokens, LenProperties DEF Lex, Asking, InputInv, given
<1>3. CASE buffered = 0 /\ eof /\ lookahead' = End /\ UNCHANGED <<text, buffered>>
  BY <1>1, <1>2, <1>3 DEF InputInv
<1>4. ASSUME buffered > 0, buffered' = buffered - 1,
             NEW t \in IF given = <<>> THEN Alphabet ELSE {given[Len(text) + 1]},
             text' = Append(text, t), lookahead' = Token(t)
      PROVE  InputInv'
  <2>1. t \in Tokens
    <3>1. CASE given = <<>>
      BY <1>4, <3>1 DEF Tokens
    <3>2. CASE given # <<>>
      <4>1. Len(text) + 1 \in 1 .. Len(given) /\ t = given[Len(text) + 1]
        BY <1>2, <1>4, <3>2 DEF InputInv
      <4> QED
        BY <4>1, GivenTokens, ElementOfSeq DEF InputInv, given
    <3> QED
      BY <3>1, <3>2
  <2>2. /\ text' \in Seq(Tokens)
        /\ Len(text') = Len(text) + 1
        /\ \A i \in 1 .. Len(text) : text'[i] = text[i]
        /\ text'[Len(text')] = t
        /\ text' # <<>>
    BY <1>4, <2>1, AppendProperties DEF InputInv
  <2>3. lookahead' \in Tokens \cup {End, Nothing} /\ (lookahead' = End => t = Unknown)
    BY <1>4, <2>1, TokensOnly DEF Token
  <2>4. ASSUME given # <<>>
        PROVE  /\ Len(text') + buffered' <= Len(given)
               /\ \A i \in 1 .. Len(text') : text'[i] = given[i]
               /\ eof => Len(text') + buffered' = Len(given)
    <3>1. Len(text') + buffered' = Len(text) + buffered
      BY <1>2, <1>4, <2>2 DEF InputInv
    <3>2. \A i \in 1 .. Len(text') : i \in 1 .. Len(text) \/ i = Len(text) + 1
      BY <1>2, <2>2
    <3>3. t = given[Len(text) + 1]
      BY <1>4, <2>4
    <3> QED
      BY <2>2, <2>4, <3>1, <3>2, <3>3 DEF InputInv
  <2>5. begun > 0 => \E i \in 1 .. Len(text') : text'[i] = Unknown
    BY <1>2, <2>2 DEF InputInv
  <2>6. buffered' \in Nat /\ begun \in 0 .. Len(text')
    BY <1>2, <1>4, <2>2 DEF InputInv
  <2> QED
    BY <1>1, <1>2, <2>2, <2>3, <2>4, <2>5, <2>6 DEF InputInv
<1> QED
  BY <1>3, <1>4 DEF Lex

LEMMA Accepts ==
  ASSUME InputInv, Accept
  PROVE  InputInv'
<1>1. UNCHANGED <<cmd, text, buffered, eof>> /\ given' = given
  BY DEF Accept, given
<1>2. lookahead = End /\ lookahead' = Nothing /\ lookahead' # End
  BY DEF Accept, Nothing, End
<1>3. Len(text) \in Nat
  BY LenProperties DEF InputInv
<1>4. CASE MoreToParse /\ Restart /\ UNCHANGED phase
  <2>1. text # <<>> /\ text[Len(text)] = Unknown /\ begun' = Len(text)
    BY <1>2, <1>4 DEF InputInv, MoreToParse, Restart
  <2>2. Len(text) \in 1 .. Len(text)
    BY <1>3, <2>1, EmptySeq DEF InputInv
  <2>3. phase' # "compile"
    BY <1>4 DEF Accept
  <2> QED
    BY <1>1, <1>2, <1>3, <2>1, <2>2, <2>3 DEF InputInv
<1>5. CASE ~MoreToParse /\ phase' = "compile" /\ begun' = begun
  BY <1>1, <1>2, <1>3, <1>5 DEF InputInv, MoreToParse
<1> QED
  BY <1>4, <1>5 DEF Accept

LEMMA InputStays ==
  ASSUME InputInv, UNCHANGED <<cmd, text, begun, buffered, eof>>,
         lookahead' = lookahead \/ lookahead' = Nothing,
         phase' = "compile" => phase = "compile"
  PROVE  InputInv'
<1>1. given' = given /\ (lookahead' = End => lookahead = End)
  BY DEF given, Nothing, End
<1> QED
  BY <1>1 DEF InputInv

LEMMA InputStep ==
  ASSUME InputInv, [Next]_vars
  PROVE  InputInv'
<1>1. CASE GetOpt
  BY <1>1, InputStays DEF GetOpt, Exit, scanner, parser
<1>2. CASE Open
  BY <1>2, InputStays DEF Open, Exit, scanner, parser
<1>3. CASE Refill
  BY <1>3, Refills
<1>4. CASE Lex
  BY <1>4, Lexes
<1>5. CASE Shift
  BY <1>5, InputStays DEF Shift, scanner
<1>6. CASE Reduce
  BY <1>6, InputStays DEF Reduce, scanner
<1>7. CASE yyerror
  BY <1>7, InputStays DEF yyerror, Exit, scanner, parser
<1>8. CASE Accept
  BY <1>8, Accepts
<1>9. CASE Finish
  BY <1>9, InputStays DEF Finish, Exit, scanner, parser
<1>10. CASE UNCHANGED vars
  BY <1>10, InputStays DEF vars, scanner, parser
<1> QED
  BY <1>1, <1>2, <1>3, <1>4, <1>5, <1>6, <1>7, <1>8, <1>9, <1>10 DEF Next, TakeInput, Done

THEOREM InputFollowed == Spec => []InputInv
<1> QED
  BY InputStarts, InputStep, PTL DEF Spec

\* Whatever the input and however it comes through the buffer, main stops asking
\* for more only at its end: what is not parsed then comes after something the
\* scanner does not know, and an input without that is parsed whole, in one call.
THEOREM TakesWholeInput == Spec => []NothingLeftOut
<1>1. InputInv => NothingLeftOut
  <2> SUFFICES ASSUME InputInv, phase = "compile"
      PROVE  /\ eof
             /\ given # <<>> => Len(text) + buffered = Len(given)
             /\ buffered > 0 => text # <<>> /\ Last(text) = Unknown
             /\ Unknown \notin Range(text) => begun = 0 /\ (given # <<>> => text = given)
    BY DEF NothingLeftOut
  <2>1. Len(text) \in Nat /\ DOMAIN text = 1 .. Len(text)
    BY LenProperties DEF InputInv
  <2>2. eof /\ (buffered > 0 => text # <<>> /\ Last(text) = Unknown)
    BY DEF InputInv, Last
  <2>3. ASSUME Unknown \notin Range(text)
        PROVE  begun = 0 /\ (given # <<>> => text = given)
    <3>1. \A i \in 1 .. Len(text) : text[i] # Unknown
      BY <2>1, <2>3 DEF Range
    <3>2. begun = 0
      BY <3>1, <2>1 DEF InputInv
    <3>3. text # <<>> => Len(text) \in 1 .. Len(text)
      BY EmptySeq DEF InputInv
    <3>4. buffered = 0
      BY <3>1, <3>3 DEF InputInv
    <3>5. ASSUME given # <<>> PROVE text = given
      <4>1. given \in Seq(Tokens) /\ Len(given) = Len(text)
        BY <2>1, <2>2, <3>4, <3>5, GivenTokens DEF InputInv, given
      <4> QED
        BY <3>5, <4>1, SeqEqual DEF InputInv
    <3> QED
      BY <3>2, <3>5
  <2> QED
    BY <2>2, <2>3 DEF InputInv
<1> QED
  BY <1>1, InputFollowed, PTL

-----------------------------------------------------------------------------
(* The stacks of the parser.                                               *)

\* A path through the automaton that begins where it begins.
OnPath(s) ==
  /\ s \in Seq(DOMAIN Automaton)
  /\ s # <<>>
  /\ s[1] = Start
  /\ \A i \in 1 .. Len(s) - 1 :
       \E X \in DOMAIN Goto[s[i]] : X # "$end" /\ s[i + 1] = Goto[s[i]][X]

\* The items of a state are productions with a place in their right side.
LEMMA ItemsOfState ==
  ASSUME NEW n \in DOMAIN Automaton, NEW item \in Automaton[n]
  PROVE  /\ item = <<item[1], item[2]>>
         /\ item[1] \in DOMAIN Productions
         /\ Len(Right(item[1])) \in Nat
         /\ item[2] \in 0 .. Len(Right(item[1]))
<1>1. item \in Items
  <2>1. Automaton \in Seq(SUBSET Items) /\ n \in 1 .. Len(Automaton)
    BY Tables, LenProperties
  <2> QED
    BY <2>1, ElementOfSeq
<1>2. PICK p \in DOMAIN Productions : \E dot \in 0 .. Len(Right(p)) : item = <<p, dot>>
  BY <1>1 DEF Items
<1>3. Right(p) \in Seq(STRING)
  BY Tables
<1> QED
  BY <1>2, <1>3, LenProperties

LEMMA ReductionIsItem ==
  ASSUME NEW n \in DOMAIN Automaton, NEW p \in Reductions[n]
  PROVE  Len(Right(p)) \in Nat /\ <<p, Len(Right(p))>> \in Automaton[n]
<1>1. PICK item \in Automaton[n] : Complete(item) /\ p = item[1]
  BY DEF Reductions
<1>2. item[2] = Len(Right(p))
  BY <1>1 DEF Complete
<1> QED
  BY <1>1, <1>2, ItemsOfState

\* What a reduction pops is on the stack, and the state under it leads on.
LEMMA UnderReduction ==
  ASSUME NEW s, OnPath(s), NEW p \in Reductions[s[Len(s)]]
  PROVE  /\ Len(Right(p)) \in 0 .. Len(s) - 1
         /\ Left(p) \in DOMAIN Goto[s[Len(s) - Len(Right(p))]]
         /\ Left(p) # "$end"
<1> DEFINE n == Len(Right(p))
           Holds(k) == k < Len(s) /\ <<p, n - k>> \in Automaton[s[Len(s) - k]]
           Off == {k \in 0 .. n : ~Holds(k)}
<1>1. Len(s) \in Nat \ {0} /\ s \in Seq(DOMAIN Automaton)
  BY EmptySeq DEF OnPath
<1>2. \A i \in 1 .. Len(s) : s[i] \in DOMAIN Automaton
  BY <1>1, ElementOfSeq
<1>3. n \in Nat /\ <<p, n>> \in Automaton[s[Len(s)]]
  BY <1>1, <1>2, ReductionIsItem
<1>4. Off = {}
  <2>1. SUFFICES ASSUME Off # {} PROVE FALSE
    OBVIOUS
  <2>2. PICK k \in Off : \A j \in Off : k <= j
    <3>1. Off \in SUBSET Nat
      BY <1>3
    <3> QED
      BY <2>1, <3>1, Numbers!Least
  <2>3. k # 0
    BY <1>1, <1>3, <2>2
  <2>4. k - 1 \in 0 .. n /\ k - 1 \notin Off /\ k \in 1 .. n
    <3>1. k \in 0 .. n
      OBVIOUS
    <3>2. k - 1 \in 0 .. n /\ k \in 1 .. n /\ ~(k <= k - 1)
      BY <1>3, <2>3, <3>1
    <3> HIDE DEF Off
    <3> QED
      BY <2>2, <3>2
  <2>5. k - 1 < Len(s) /\ <<p, n - (k - 1)>> \in Automaton[s[Len(s) - (k - 1)]]
    BY <2>4
  <2> DEFINE i == Len(s) - k
             item == <<p, n - (k - 1)>>
  <2>6. i \in 0 .. Len(s) - 1 /\ Len(s) - (k - 1) = i + 1 /\ n - (k - 1) - 1 = n - k
    BY <1>1, <1>3, <2>4, <2>5
  <2>7. item \in Automaton[s[i + 1]] /\ item[1] = p /\ item[2] = n - (k - 1) /\ item[2] > 0
    BY <1>3, <2>4, <2>5, <2>6
  <2>8. i # 0
    <3>1. \A it \in Automaton[Start] : it[2] = 0
      BY Tables
    <3>2. ASSUME i = 0 PROVE FALSE
      <4>1. s[i + 1] = Start
        BY <3>2 DEF OnPath
      <4> QED
        BY <2>7, <3>1, <4>1
    <3> QED
      BY <3>2
  <2>9. i \in 1 .. Len(s) - 1 /\ s[i] \in DOMAIN Automaton
    BY <1>1, <1>2, <2>6, <2>8
  <2>10. PICK X \in DOMAIN Goto[s[i]] : s[i + 1] = Goto[s[i]][X]
    BY <2>9 DEF OnPath
  <2>11. <<item[1], item[2] - 1>> \in Automaton[s[i]]
    BY <2>7, <2>9, <2>10, Tables
  <2>12. <<p, n - k>> \in Automaton[s[i]]
    BY <2>6, <2>7, <2>11
  <2>13. k < Len(s)
    BY <1>1, <2>4, <2>9
  <2> QED
    BY <2>2, <2>12, <2>13
<1>5. Holds(n)
  <2>1. n \in 0 .. n
    BY <1>3
  <2> HIDE DEF n
  <2>2. \A k \in 0 .. n : Holds(k)
    BY <1>4
  <2> HIDE DEF Holds
  <2> QED
    BY <2>1, <2>2
<1> DEFINE under == s[Len(s) - n]
           begin == <<p, 0>>
<1>6. n < Len(s) /\ begin \in Automaton[under] /\ under \in DOMAIN Automaton
  <2>1. n < Len(s) /\ <<p, n - n>> \in Automaton[under]
    BY <1>5
  <2>2. n - n = 0 /\ Len(s) - n \in 1 .. Len(s)
    BY <1>1, <1>3, <2>1
  <2> QED
    BY <1>2, <2>1, <2>2
<1>7. begin[1] = p /\ begin[2] = 0
  OBVIOUS
<1>8. ASSUME n > 0 PROVE Right(p)[n] # "$end"
  <2> DEFINE i == Len(s) - 1
             item == <<p, n>>
  <2>1. i \in 1 .. Len(s) - 1 /\ i + 1 = Len(s) /\ s[i] \in DOMAIN Automaton
    BY <1>1, <1>2, <1>3, <1>6, <1>8
  <2>2. PICK X \in DOMAIN Goto[s[i]] : X # "$end" /\ s[i + 1] = Goto[s[i]][X]
    BY <2>1 DEF OnPath
  <2>3. item \in Automaton[Goto[s[i]][X]] /\ item[1] = p /\ item[2] = n
    BY <1>3, <2>1, <2>2
  <2>4. X = Right(p)[n]
    BY <1>8, <2>1, <2>3, Tables
  <2> QED
    BY <2>2, <2>4
<1> HIDE DEF begin, under
<1>9. /\ Left(begin[1]) # "$end"
      /\ \/ begin[2] = 0 => Left(begin[1]) \in DOMAIN Goto[under]
         \/ Len(Right(begin[1])) > 0 /\ Right(begin[1])[Len(Right(begin[1]))] = "$end"
  BY <1>6, Tables
<1>10. Left(p) # "$end" /\ Left(p) \in DOMAIN Goto[under]
  BY <1>7, <1>8, <1>9
<1> QED
  BY <1>1, <1>3, <1>6, <1>10 DEF under

\* Going on from the top of the stack.
LEMMA PathGrows ==
  ASSUME NEW s, OnPath(s), NEW X \in DOMAIN Goto[s[Len(s)]], X # "$end"
  PROVE  LET t == Append(s, Goto[s[Len(s)]][X])
         IN  OnPath(t) /\ Len(t) = Len(s) + 1
<1> DEFINE next == Goto[s[Len(s)]][X]
           t == Append(s, next)
<1>1. Len(s) \in Nat \ {0} /\ s \in Seq(DOMAIN Automaton)
  BY EmptySeq DEF OnPath
<1>2. s[Len(s)] \in DOMAIN Automaton
  BY <1>1, ElementOfSeq
<1>3. next \in DOMAIN Automaton
  BY <1>2, Tables
<1> HIDE DEF next
<1>4. /\ t \in Seq(DOMAIN Automaton)
      /\ t # <<>>
      /\ Len(t) = Len(s) + 1
      /\ \A i \in 1 .. Len(s) : t[i] = s[i]
      /\ t[Len(s) + 1] = next
  BY <1>1, <1>3, AppendProperties
<1> HIDE DEF t
<1>5. t[1] = Start
  BY <1>1, <1>4 DEF OnPath
<1>6. ASSUME NEW i \in 1 .. Len(t) - 1
      PROVE  \E Y \in DOMAIN Goto[t[i]] : Y # "$end" /\ t[i + 1] = Goto[t[i]][Y]
  <2>1. CASE i = Len(s)
    <3>1. t[i] = s[Len(s)] /\ t[i + 1] = next
      BY <1>1, <1>4, <2>1
    <3> QED
      BY <3>1 DEF next
  <2>2. CASE i # Len(s)
    <3>1. i \in 1 .. Len(s) - 1 /\ i + 1 \in 1 .. Len(s) /\ i \in 1 .. Len(s)
      BY <1>1, <1>4, <2>2
    <3>2. t[i] = s[i] /\ t[i + 1] = s[i + 1]
      BY <1>4, <3>1
    <3> QED
      BY <3>1, <3>2 DEF OnPath
  <2> QED
    BY <2>1, <2>2
<1> QED
  BY <1>4, <1>5, <1>6 DEF OnPath, t, next

\* What is left of a stack that is not popped empty.
LEMMA PathShrinks ==
  ASSUME NEW s, OnPath(s), NEW n \in 0 .. Len(s) - 1
  PROVE  LET t == Popped(s, n)
         IN  OnPath(t) /\ Len(t) = Len(s) - n /\ t[Len(t)] = s[Len(s) - n]
<1> DEFINE t == Popped(s, n)
           m == Len(s) - n
<1>1. Len(s) \in Nat \ {0} /\ s \in Seq(DOMAIN Automaton)
  BY EmptySeq DEF OnPath
<1>2. m \in 1 .. Len(s) /\ m \in Nat
  BY <1>1
<1>3. t = SubSeq(s, 1, m)
  BY DEF Popped
<1> HIDE DEF m
<1>4. \A i \in 1 .. m : s[i] \in DOMAIN Automaton
  BY <1>1, <1>2, ElementOfSeq
<1>5. /\ SubSeq(s, 1, m) \in Seq(DOMAIN Automaton)
      /\ Len(SubSeq(s, 1, m)) = (IF 1 <= m THEN m - 1 + 1 ELSE 0)
      /\ \A i \in 1 .. m - 1 + 1 : SubSeq(s, 1, m)[i] = s[1 + i - 1]
  BY <1>2, <1>4, SubSeqProperties
<1> HIDE DEF t
<1>6. t \in Seq(DOMAIN Automaton) /\ Len(t) = m
  BY <1>2, <1>3, <1>5
<1>7. \A i \in 1 .. m : t[i] = s[i]
  <2>1. m - 1 + 1 = m /\ \A i \in 1 .. m : 1 + i - 1 = i
    BY <1>2
  <2> QED
    BY <1>3, <1>5, <2>1
<1>8. t # <<>> /\ t[1] = Start
  BY <1>2, <1>6, <1>7, EmptySeq DEF OnPath
<1>9. ASSUME NEW i \in 1 .. Len(t) - 1
      PROVE  \E X \in DOMAIN Goto[t[i]] : X # "$end" /\ t[i + 1] = Goto[t[i]][X]
  <2>1. i \in 1 .. m /\ i + 1 \in 1 .. m /\ i \in 1 .. Len(s) - 1
    BY <1>1, <1>2, <1>6
  <2>2. t[i] = s[i] /\ t[i + 1] = s[i + 1]
    BY <1>7, <2>1
  <2> QED
    BY <2>1, <2>2 DEF OnPath
<1>10. OnPath(t)
  BY <1>6, <1>8, <1>9 DEF OnPath
<1>11. t[Len(t)] = s[m]
  BY <1>2, <1>6, <1>7
<1> QED
  BY <1>6, <1>10, <1>11 DEF t, m

LEMMA OwnRange ==
  ASSUME NEW V, NEW s \in Seq(V)
  PROVE  s \in Seq(Range(s))
<1>1. Len(s) \in Nat /\ DOMAIN s = 1 .. Len(s) /\ s = [i \in 1 .. Len(s) |-> s[i]]
  BY LenProperties
<1>2. s \in [1 .. Len(s) -> Range(s)]
  BY <1>1 DEF Range
<1> QED
  BY <1>1, <1>2, SeqDef

\* The values of the stack pushed and popped.
LEMMA ValuesGrow ==
  ASSUME NEW v, v \in Seq(Range(v)), NEW x
  PROVE  Append(v, x) \in Seq(Range(Append(v, x))) /\ Len(Append(v, x)) = Len(v) + 1
<1>1. v \in Seq(Range(v) \cup {x})
  BY SeqMonotonic
<1>2. Append(v, x) \in Seq(Range(v) \cup {x}) /\ Len(Append(v, x)) = Len(v) + 1
  BY <1>1, AppendProperties
<1> QED
  BY <1>2, OwnRange

LEMMA ValuesShrink ==
  ASSUME NEW v, v \in Seq(Range(v)), NEW n \in 0 .. Len(v)
  PROVE  Popped(v, n) \in Seq(Range(Popped(v, n))) /\ Len(Popped(v, n)) = Len(v) - n
<1> DEFINE m == Len(v) - n
<1>1. Len(v) \in Nat /\ m \in 0 .. Len(v)
  BY LenProperties
<1>2. \A i \in 1 .. m : v[i] \in Range(v)
  BY <1>1, ElementOfSeq
<1> HIDE DEF m
<1>3. /\ SubSeq(v, 1, m) \in Seq(Range(v))
      /\ Len(SubSeq(v, 1, m)) = (IF 1 <= m THEN m - 1 + 1 ELSE 0)
  BY <1>1, <1>2, SubSeqProperties
<1>4. Popped(v, n) = SubSeq(v, 1, m)
  BY DEF Popped, m
<1>5. Len(SubSeq(v, 1, m)) = m
  BY <1>1, <1>3
<1>6. SubSeq(v, 1, m) \in Seq(Range(SubSeq(v, 1, m)))
  BY <1>3, OwnRange
<1> QED
  BY <1>4, <1>5, <1>6 DEF m

-----------------------------------------------------------------------------
StackInv ==
  /\ OnPath(states)
  /\ values \in Seq(Range(values))
  /\ Len(values) = Len(states) - 1

\* The stacks of a call of yyparse that begins.
LEMMA Restarts ==
  ASSUME states' = <<Start>>, values' = <<>>
  PROVE  StackInv'
<1>1. Start \in DOMAIN Automaton
  BY Tables
<1>2. <<Start>> \in Seq(DOMAIN Automaton) /\ Len(<<Start>>) = 1 /\ <<Start>>[1] = Start
      /\ <<Start>> # <<>>
  BY <1>1
<1>3. OnPath(<<Start>>)
  BY <1>2 DEF OnPath
<1>4. <<>> \in Seq(Range(<<>>)) /\ Len(<<>>) = 0
  BY EmptySeq
<1> QED
  BY <1>2, <1>3, <1>4 DEF StackInv

LEMMA Shifted ==
  ASSUME StackInv, InputInv, Shift
  PROVE  StackInv'
<1>1. lookahead \in Tokens /\ lookahead.t \in DOMAIN Goto[states[Len(states)]]
  BY DEF Shift, Shifts, InputInv, Top
<1>2. lookahead.t # "$end"
  BY <1>1, TokensOnly
<1>3. OnPath(states') /\ Len(states') = Len(states) + 1
  BY <1>1, <1>2, PathGrows DEF Shift, Top, StackInv
<1>4. values' \in Seq(Range(values')) /\ Len(values') = Len(values) + 1
  BY ValuesGrow DEF Shift, StackInv
<1>5. Len(states) \in Nat
  BY LenProperties DEF StackInv, OnPath
<1> QED
  BY <1>3, <1>4, <1>5 DEF StackInv

LEMMA Reduced ==
  ASSUME StackInv, Reduce
  PROVE  StackInv'
<1>1. PICK p \in Reductions[Top] :
        LET n == Len(Right(p))
            under == Popped(states, n)
        IN  /\ states' = Append(under, Goto[under[Len(under)]][Left(p)])
            /\ values' = Append(Popped(values, n),
                                Built(p, SubSeq(values, Len(values) - n + 1, Len(values))))
  BY DEF Reduce
<1> DEFINE n == Len(Right(p))
           under == Popped(states, n)
           left == Popped(values, n)
           built == Built(p, SubSeq(values, Len(values) - n + 1, Len(values)))
<1>2. states' = Append(under, Goto[under[Len(under)]][Left(p)]) /\ values' = Append(left, built)
  BY <1>1
<1>3. OnPath(states) /\ Len(states) \in Nat /\ Len(values) = Len(states) - 1
      /\ values \in Seq(Range(values))
  BY LenProperties DEF StackInv, OnPath
<1>4. /\ n \in 0 .. Len(states) - 1
      /\ Left(p) \in DOMAIN Goto[states[Len(states) - n]]
      /\ Left(p) # "$end"
  BY <1>3, UnderReduction DEF Top
<1> HIDE DEF n, built
<1>5. OnPath(under) /\ Len(under) = Len(states) - n /\ under[Len(under)] = states[Len(states) - n]
  BY <1>3, <1>4, PathShrinks
<1>6. left \in Seq(Range(left)) /\ Len(left) = Len(values) - n
  BY <1>3, <1>4, ValuesShrink
<1> HIDE DEF under, left
<1>7. OnPath(states') /\ Len(states') = Len(under) + 1
  BY <1>2, <1>4, <1>5, PathGrows
<1>8. values' \in Seq(Range(values')) /\ Len(values') = Len(left) + 1
  BY <1>2, <1>6, ValuesGrow
<1>9. Len(values') = Len(states') - 1
  BY <1>3, <1>4, <1>5, <1>6, <1>7, <1>8
<1> QED
  BY <1>7, <1>8, <1>9 DEF StackInv

LEMMA StackStays ==
  ASSUME StackInv, UNCHANGED <<states, values>>
  PROVE  StackInv'
BY DEF StackInv

LEMMA StackStep ==
  ASSUME StackInv, InputInv, [Next]_vars
  PROVE  StackInv'
<1>1. CASE GetOpt
  BY <1>1, StackStays DEF GetOpt, parser
<1>2. CASE Open
  BY <1>2, StackStays DEF Open, parser
<1>3. CASE Refill
  BY <1>3, StackStays DEF Refill, parser
<1>4. CASE Lex
  BY <1>4, StackStays DEF Lex
<1>5. CASE Shift
  BY <1>5, Shifted
<1>6. CASE Reduce
  BY <1>6, Reduced
<1>7. CASE yyerror
  BY <1>7, StackStays DEF yyerror, parser
<1>8. CASE Accept
  BY <1>8, StackStays, Restarts DEF Accept, Restart
<1>9. CASE Finish
  BY <1>9, StackStays DEF Finish, parser
<1>10. CASE UNCHANGED vars
  BY <1>10, StackStays DEF vars, parser
<1> QED
  BY <1>1, <1>2, <1>3, <1>4, <1>5, <1>6, <1>7, <1>8, <1>9, <1>10 DEF Next, TakeInput, Done

\* The stack of states is a path through the automaton, with a value for every
\* step of it: no reduction takes more off than is there, for any input and over
\* any number of calls of yyparse.
THEOREM StackFollowed == Spec => []StackInv
<1>1. Init => StackInv
  <2> SUFFICES ASSUME Init PROVE StackInv
    OBVIOUS
  <2>1. Start \in DOMAIN Automaton
    BY Tables
  <2>2. <<Start>> \in Seq(DOMAIN Automaton) /\ Len(<<Start>>) = 1 /\ <<Start>>[1] = Start
        /\ <<Start>> # <<>>
    BY <2>1
  <2>3. OnPath(<<Start>>)
    BY <2>2 DEF OnPath
  <2>4. <<>> \in Seq(Range(<<>>)) /\ Len(<<>>) = 0
    BY EmptySeq
  <2> QED
    BY <2>2, <2>3, <2>4 DEF Init, StackInv
<1> QED
  BY <1>1, StackStep, InputFollowed, PTL DEF Spec

\* The variables have their types, and the stacks belong together.
THEOREM TypeCorrect == Spec => []TypeOK
<1>1. CommandInv /\ InputInv /\ StackInv => TypeOK
  BY DEF CommandInv, InputInv, StackInv, OnPath, TypeOK
<1> QED
  BY <1>1, CommandFollowed, InputFollowed, StackFollowed, PTL
=============================================================================
