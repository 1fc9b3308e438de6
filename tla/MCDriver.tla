------------------------------ MODULE MCDriver ------------------------------
(* Inputs for the run of Driver: every short text of a small alphabet, the *)
(* programs of src/examples, lists of every shape, and every short command *)
(* line.                                                                   *)
EXTENDS Parsing, ExamplePrograms, TLC

\* Texts by their words.
Numerals ==
  ("0" :> 0) @@ ("1" :> 1) @@ ("2" :> 2) @@ ("3" :> 3) @@ ("4" :> 4) @@ ("10" :> 10) @@
  ("42" :> 42) @@ ("123" :> 123) @@ ("789" :> 789) @@ ("1234" :> 1234)
Literals == {"Hello, World!", "<- float, not integer", "2 + 2 = ", "Let's count to 10!",
             "123 == 123", "FAIL: 123 == 789", "FAIL: 123 != 123", "123 > 42"}

Word(w) ==
  CASE w \in DOMAIN Lexemes  -> W(w)
    [] w \in DOMAIN Numerals -> Digits(Numerals[w])
    [] w \in Literals        -> Quoted(w)
    [] w = "3.141590"        -> Flt(w)
    [] w = "#"               -> Unknown
    [] OTHER                 -> Id(w)
Words(ws) == [k \in DOMAIN ws |-> Word(ws[k])]

ExampleWords ==
  [array |-> <<"array", "=", "[", "1", ",", "2", ",", "3", "]", "println", "(", "array", ")">>,
   cond |-> <<
     "var", "=", "123",
     "if", "(", "var", "==", "123", ")", "{", "println", "(", "123 == 123", ")", "}",
     "if", "(", "var", "==", "789", ")", "{", "println", "(", "FAIL: 123 == 789", ")", "}",
     "if", "(", "var", "!=", "123", ")", "{", "println", "(", "FAIL: 123 != 123", ")", "}",
     "if", "(", "var", ">", "42", ")", "{", "println", "(", "123 > 42", ")", "}">>,
   func |-> <<
     "fn", "printNum", "(", "number", ")", "{", "print", "(", "number", ")", "}",
     "print", "(", "2 + 2 = ", ")", "printNum", "(", "2", "+", "2", ")", "println", "(", ")">>,
   hello_42 |-> <<"println", "(", "42", ")">>,
   hello_boolean |-> <<"println", "(", "true", ")", "println", "(", "false", ")">>,
   hello_world |-> <<"println", "(", "Hello, World!", ")">>,
   vars |-> <<
     "number", "=", "1234", "float", "=", "3.141590", "string", "=", "Hello, World!",
     "println", "(", "number", ")",
     "println", "(", "float", ",", "<- float, not integer", ")",
     "println", "(", "string", ")">>,
   while |-> <<
     "println", "(", "Let's count to 10!", ")", "int", "=", "1",
     "while", "(", "int", "<=", "10", ")", "{",
     "println", "(", "int", ")", "int", "=", "int", "+", "1", "}">>,
   blocks |-> <<
     "array", "=", "[", "1", ",", "2", ",", "3", "]",
     "range", "(", "array", ",", "fn", "(", "i", ")", "{", "println", "(", "i", ")", "}", ")">>]
ExampleTexts == [e \in DOMAIN ExampleWords |-> Words(ExampleWords[e])]

\* examples/mathematical.cream.
Mathematical == Words(<<
  "println", "(", "2", "+", "2", ")",
  "println", "(", "3", "*", "2", "-", "2", ")", "#", "4", ",", "not", "0">>)

\* Parameter and argument lists, and a statement after a call.
Commas == UNION {[1 .. n -> {"x", ","}] : n \in 0 .. 4}
Lists ==
  {<<"fn", "f", "(">> \o s \o <<")", "{", "}">> : s \in Commas} \cup
  {<<"fn", "(">> \o s \o <<")", "{", "x", "}">> : s \in Commas} \cup
  {<<"[">> \o s \o <<"]", "(", "x", ")">> : s \in Commas}

\* Functions up to and beyond what a blob holds.
Many(n) == [k \in 1 .. 6 * n |-> <<"fn", "f", "(", ")", "{", "}">>[((k - 1) % 6) + 1]]

MCNames == {"x", "array", "var", "number", "float", "string", "int", "i"}
MCAlphabet ==
  {Word(w) : w \in {"x", "1", "=", "(", ")", "{", "}", "+", "if", "fn", ",", "#"}}
MCContinuations ==
  {<<>>} \cup {Words(ws) : ws \in
    {<<"x">>, <<")">>, <<"x", ")">>, <<"x", ")", "{", "}">>, <<")", "{", "}">>, <<"}">>,
     <<"x", "}">>, <<"{", "}">>, <<"x", "{", "}">>, <<"x", "(", ")", "{", "}">>, <<"1">>}}

Command(options, files, opens, ndebug, ws) ==
  [options |-> options, files |-> files, opens |-> opens, ndebug |-> ndebug, given |-> ws]
OptionLists == UNION {[1 .. n -> {"h", "s", "b", "t", "v", "?"}] : n \in 0 .. 2}

MCCommands ==
  {Command(o, f, b, nd, Words(<<"1">>)) :
     o \in OptionLists, f \in 0 .. 2, b \in BOOLEAN, nd \in BOOLEAN} \cup
  {Command(<<>>, 1, TRUE, TRUE, Words(ws)) :
     ws \in Lists \cup {Many(2), Many(4)} \cup {ExampleWords[e] : e \in DOMAIN ExampleWords}} \cup
  {Command(<<>>, 1, TRUE, TRUE, Words(ExampleWords["func"] \o <<"#", ".">>)),
   Command(<<>>, 1, TRUE, TRUE, <<>>),     \* a file
   Command(<<>>, 1, FALSE, TRUE, <<>>)}    \* stdin, as good as -s: the file does not open

MathematicalOnly == {Command(<<>>, 1, TRUE, TRUE, Mathematical)}

\* The texts of the examples are the programs the other runs run.
ExamplesParse ==
  \A e \in DOMAIN ExampleTexts :
    phase = "exit" /\ given = ExampleTexts[e] =>
      exit.did = "run" /\ programBlock = (Examples @@ Blocks)[e]

-----------------------------------------------------------------------------
L == INSTANCE Language WITH StackHeight <- 64, IntBits <- 16, Patience <- 30

\* What the comment in examples/mathematical.cream says the program prints.
MathematicalPrintsAsSaid ==
  LET NL == L!Separator("\n")
  IN  exit.did = "run" => L!Meaning(programBlock).out = <<L!IntValue(4), NL, L!IntValue(4), NL>>
=============================================================================
