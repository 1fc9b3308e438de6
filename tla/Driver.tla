------------------------------- MODULE Driver -------------------------------
(***************************************************************************)
(* main.c with the scanner and the parser it calls: the options, the loop  *)
(* around yyparse, what becomes of the tree, and the exit status.          *)
(*                                                                         *)
(* yylex and yyparse are generated; what is modelled of them is the buffer *)
(* the scanner reads the input through, because main asks feof about the   *)
(* file and not about the buffer, and the stack of the parser.             *)
(***************************************************************************)
EXTENDS Grammar, SequencesExt

CONSTANTS
  Commands,    \* the command lines, each with its input (DriverAssumption)
  Alphabet,    \* the tokens of inputs that are not given in advance
  MaxTokens,   \* bound of the model: their length
  BufSize,     \* tokens one read of the scanner takes in
  Dies(_)      \* ast_compile dies of this program (Parsing.tla)

ASSUME DriverAssumption ==
  /\ BufSize \in Nat \ {0}
  /\ MaxTokens \in Nat
  /\ \A c \in Commands :
       /\ c.options \in Seq({"h", "s", "b", "t", "v", "?"})
       /\ c.files \in Nat
       /\ c.opens \in BOOLEAN     \* fopen of the first file succeeds
       /\ c.ndebug \in BOOLEAN    \* the build has no -v
       /\ c.given \in Seq(Range(c.given))   \* <<>>: not given in advance
  \* yylex returns the end of the input for no lexeme.
  /\ \A t \in Alphabet \cup UNION {Range(c.given) : c \in Commands} :
       t.t \notin {"$end", "nothing"}

VARIABLES
  cmd,           \* the command line
  optind,        \* how many of its options main has taken
  flags,         \* use_stdin, bytecode_flag, tree_flag: those that are set
  yyin,          \* where the scanner reads: nothing yet, the file or stdin
  tty,           \* the input is a terminal
  text,          \* the tokens yylex has matched
  begun,         \* how many of them before this call of yyparse
  buffered,      \* how many more are in the scanner's buffer
  eof,           \* feof(yyin)
  lookahead,     \* the token yyparse looks at, or Nothing
  states, values,   \* the stacks of yyparse
  programBlock,
  phase,         \* options, parse, compile, exit
  exit           \* how the process ended: its status, and what it did

scanner == <<text, begun, buffered, eof>>
parser == <<lookahead, states, values>>
vars == <<cmd, optind, flags, yyin, tty, scanner, parser, programBlock, phase, exit>>

given == cmd.given
Nothing == [t |-> "nothing"]
Running == [status |-> -1, did |-> "nothing"]

EXIT_SUCCESS == 0
EXIT_BAD_ARGS == 2

Exit(status, did) ==
  /\ phase' = "exit"
  /\ exit' = [status |-> status, did |-> did]

-----------------------------------------------------------------------------
(* The command line.                                                       *)

\* Mutant: an option makes main forget the ones before.
Flagged_last(ch) == {ch}

Flagged(ch) == flags \cup ({ch} \ {"v"})

\* Options that end the process. -v is none of an NDEBUG build.
Refused == {"?"} \cup (IF cmd.ndebug THEN {"v"} ELSE {})

\* One turn of the getopt_long loop.
GetOpt ==
  /\ phase = "options"
  /\ optind < Len(cmd.options)
  /\ optind' = optind + 1
  /\ LET ch == cmd.options[optind + 1]
     IN  \/ ch = "h" /\ Exit(EXIT_SUCCESS, "usage") /\ UNCHANGED flags
         \/ ch \in Refused /\ Exit(EXIT_BAD_ARGS, "usage") /\ UNCHANGED flags
         \/ /\ ch \notin Refused \cup {"h"}
            /\ flags' = Flagged(ch)
            /\ UNCHANGED <<phase, exit>>
  /\ UNCHANGED <<cmd, yyin, tty, scanner, parser, programBlock>>

\* Files after the first are ignored. fopen's result is not looked at, and a
\* scanner whose yyin is NULL reads stdin.
Open ==
  /\ phase = "options"
  /\ optind = Len(cmd.options)
  /\ IF "s" \notin flags /\ cmd.files = 0
     THEN Exit(EXIT_BAD_ARGS, "usage") /\ UNCHANGED <<yyin, tty>>
     ELSE /\ yyin' = IF "s" \in flags \/ ~cmd.opens THEN "stdin" ELSE "file"
          /\ tty' \in IF yyin' = "stdin" /\ given = <<>> THEN BOOLEAN ELSE {FALSE}
          /\ phase' = "parse"
          /\ UNCHANGED exit
  /\ UNCHANGED <<cmd, optind, flags, scanner, parser, programBlock>>

-----------------------------------------------------------------------------
(* yylex.                                                                  *)

\* Tokens of the input not read yet; of an input not given, those it may have.
Unread == (IF given = <<>> THEN MaxTokens ELSE Len(given)) - Len(text) - buffered
Smaller(a, b) == IF a < b THEN a ELSE b

\* The parser asks for a token, unless its state only reduces.
Asking ==
  /\ phase = "parse"
  /\ lookahead = Nothing
  /\ states[Len(states)] \notin Consistent

\* Mutant: nothing read from a terminal is not taken for its end.
AtEnd_file(n) == n < BufSize /\ ~tty

\* A read of n tokens may be short because the file has no more.
AtEnd(n) == n < BufSize

\* One read, when the buffer is used up or to see where a token ends. On a
\* terminal it stops at the end of a line.
Refill ==
  /\ Asking
  /\ ~eof
  /\ buffered <= 1
  /\ \E n \in 0 .. Smaller(BufSize, Unread) :
       /\ given # <<>> => n = Smaller(BufSize, Unread)
       /\ buffered' = buffered + n
       /\ \/ eof' = AtEnd(n)
          \/ tty /\ n > 0 /\ eof' = FALSE
  /\ UNCHANGED <<cmd, optind, flags, yyin, tty, text, begun, parser, programBlock, phase, exit>>

\* The last rule calls yyterminate for what no other rule matches.
Token(t) == IF t = Unknown THEN End ELSE t

Lex ==
  /\ Asking
  /\ \/ /\ buffered > 0
        /\ \E t \in IF given = <<>> THEN Alphabet ELSE {given[Len(text) + 1]} :
             /\ text' = Append(text, t)
             /\ lookahead' = Token(t)
        /\ buffered' = buffered - 1
     \/ /\ buffered = 0
        /\ eof
        /\ lookahead' = End
        /\ UNCHANGED <<text, buffered>>
  /\ UNCHANGED <<cmd, optind, flags, yyin, tty, begun, eof, states, values, programBlock, phase, exit>>

-----------------------------------------------------------------------------
(* yyparse.                                                                *)

Top == states[Len(states)]
Shifts == lookahead # Nothing /\ lookahead.t \in DOMAIN Goto[Top]
Popped(seq, n) == SubSeq(seq, 1, Len(seq) - n)

Shift ==
  /\ phase = "parse"
  /\ Shifts
  /\ lookahead # End
  /\ states' = Append(states, Goto[Top][lookahead.t])
  /\ values' = Append(values, lookahead)
  /\ lookahead' = Nothing
  /\ UNCHANGED <<cmd, optind, flags, yyin, tty, scanner, programBlock, phase, exit>>

\* Mutant: reducing wins over shifting.
MayReduce_first == lookahead # Nothing \/ Top \in Consistent

MayReduce == (lookahead # Nothing /\ ~Shifts) \/ Top \in Consistent

Reduce ==
  /\ phase = "parse"
  /\ MayReduce
  /\ \E p \in Reductions[Top] :
       LET n == Len(Right(p))
           under == Popped(states, n)
       IN  /\ states' = Append(under, Goto[under[Len(under)]][Left(p)])
           /\ values' = Append(Popped(values, n),
                               Built(p, SubSeq(values, Len(values) - n + 1, Len(values))))
           /\ programBlock' = IF Left(p) = "program" THEN values[Len(values)]
                              ELSE programBlock
  /\ UNCHANGED <<cmd, optind, flags, yyin, tty, scanner, lookahead, phase, exit>>

\* Neither shift nor reduction. yyerror leaves the process; that it is called
\* before the reductions the token would still cause (parse.lac) shows nowhere.
yyerror ==
  /\ phase = "parse"
  /\ lookahead # Nothing
  /\ ~Shifts
  /\ Reductions[Top] = {}
  /\ Exit(255, "yyerror")
  /\ UNCHANGED <<cmd, optind, flags, yyin, tty, scanner, parser, programBlock>>

\* Mutant: the values of the last call are still on the stack.
Restart_values == begun' = Len(text) /\ states' = <<Start>> /\ UNCHANGED values

Restart == begun' = Len(text) /\ states' = <<Start>> /\ values' = <<>>

\* Mutant: the loop ends after one call.
MoreToParse_never == FALSE

MoreToParse == ~eof

\* yyparse returns, and is called again unless the file is at its end.
Accept ==
  /\ phase = "parse"
  /\ Shifts
  /\ lookahead = End
  /\ lookahead' = Nothing
  /\ IF MoreToParse
     THEN Restart /\ UNCHANGED phase
     ELSE phase' = "compile" /\ UNCHANGED <<begun, states, values>>
  /\ UNCHANGED <<cmd, optind, flags, yyin, tty, text, buffered, eof, programBlock, exit>>

-----------------------------------------------------------------------------
\* The rest of main. ast_compile never reports a failure; it dies when the blob
\* is full. Whatever becomes of the run, main returns EXIT_SUCCESS.
Finish ==
  /\ phase = "compile"
  /\ IF "t" \in flags THEN Exit(EXIT_SUCCESS, "tree")
     ELSE IF Dies(programBlock) THEN Exit(139, "crash")
     ELSE IF "b" \in flags THEN Exit(EXIT_SUCCESS, "bytecode")
     ELSE Exit(EXIT_SUCCESS, "run")
  /\ UNCHANGED <<cmd, optind, flags, yyin, tty, scanner, parser, programBlock>>

Done == phase = "exit" /\ UNCHANGED vars

-----------------------------------------------------------------------------
Init ==
  /\ cmd \in Commands
  /\ optind = 0
  /\ flags = {}
  /\ yyin = "none"
  /\ tty = FALSE
  /\ text = <<>>
  /\ begun = 0
  /\ buffered = 0
  /\ eof = FALSE
  /\ lookahead = Nothing
  /\ states = <<Start>>
  /\ values = <<>>
  /\ programBlock = <<>>
  /\ phase = "options"
  /\ exit = Running

TakeInput ==
  \/ GetOpt \/ Open
  \/ Refill \/ Lex
  \/ Shift \/ Reduce \/ yyerror \/ Accept

Next == TakeInput \/ Finish \/ Done
Spec == Init /\ [][Next]_vars

\* One thread; a terminal is assumed to answer.
FairSpec == Spec /\ WF_vars(TakeInput)

-----------------------------------------------------------------------------
(* Properties.                                                             *)

TypeOK ==
  /\ optind \in 0 .. Len(cmd.options)
  /\ flags \subseteq {"s", "b", "t"}
  /\ yyin \in {"none", "file", "stdin"}
  /\ begun \in 0 .. Len(text)
  /\ buffered \in Nat
  /\ eof \in BOOLEAN
  /\ states \in Seq(DOMAIN Automaton)
  /\ Len(values) = Len(states) - 1
  /\ phase \in {"options", "parse", "compile", "exit"}
  /\ (phase = "exit") = (exit # Running)

\* What is compiled is the end of the input: nothing of the file is left unread,
\* and what was read and not parsed comes after something unknown. An input
\* without that is parsed whole.
NothingLeftOut ==
  phase = "compile" =>
    /\ eof
    /\ given # <<>> => Len(text) + buffered = Len(given)
    /\ buffered > 0 => text # <<>> /\ Last(text) = Unknown
    /\ Unknown \notin Range(text) => begun = 0 /\ (given # <<>> => text = given)

\* The outcome is one the command line asked for, wherever in it the options
\* stand and however often.
DoesAsTold ==
  LET told == Range(cmd.options)
  IN  /\ exit.did \in {"tree", "bytecode", "run"} => told \cap ({"h"} \cup Refused) = {}
      /\ exit.did = "tree" => "t" \in told
      /\ exit.did = "bytecode" => "b" \in told /\ "t" \notin told
      /\ exit.did = "run" => told \cap {"b", "t"} = {}
      /\ yyin = "file" => "s" \notin told /\ cmd.files > 0

\* The loop around yyparse ends, with a program or without, also on a terminal.
InputEnds == <>(phase \in {"compile", "exit"})
=============================================================================
