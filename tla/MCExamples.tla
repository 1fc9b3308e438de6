----------------------------- MODULE MCExamples -----------------------------
(* The programs of src/examples that the lexer takes and that have a       *)
(* recorded output (.out), garbage_collect.cream and blocks.cream; and     *)
(* the programs with arrays of MCInterpreter.tla, on a heap they leave     *)
(* room in.                                                                *)
EXTENDS MCInterpreter, ExamplePrograms

NL == Separator("\n")

\* The .out files.
Expected ==
  [array |-> <<Separator("["), IntValue(1), Separator(","), IntValue(2),
               Separator(","), IntValue(3), Separator("]"), NL>>,
   cond |-> <<StrValue("123 == 123"), NL, StrValue("123 > 42"), NL>>,
   func |-> <<StrValue("2 + 2 = "), IntValue(4), NL>>,
   hello_42 |-> <<IntValue(42), NL>>,
   hello_boolean |-> <<BoolValue(TRUE), NL, BoolValue(FALSE), NL>>,
   hello_world |-> <<StrValue("Hello, World!"), NL>>,
   vars |-> <<IntValue(1234), NL, FloatValue("3.141590"), Separator(" "),
              StrValue("<- float, not integer"), NL, StrValue("Hello, World!"), NL>>,
   while |-> <<StrValue("Let's count to 10!"), NL>> \o
             [k \in 1 .. 20 |-> IF k % 2 = 1 THEN IntValue((k + 1) \div 2) ELSE NL]]

\* Programs are named by an example or by the fragments they consist of.
Recorded ==
  [k \in {[example |-> e, fragments |-> <<>>] : e \in DOMAIN Examples} \cup
         {[example |-> "", fragments |-> p] : p \in Sequences3(ArrayFragments)} |->
     IF k.example = "" THEN Joint(ArrayFragments, k.fragments) ELSE Examples[k.example]]

RecordedNames == {"array", "var", "number", "float", "string", "int", "x", "i"}
LenNames == {"array", "string"}
GarbageNames == {"var", "string", "crap", "extra"}
BlocksNames == {"array", "i"}

RecordedBlobs == [p \in DOMAIN Recorded |-> ast_compile(Recorded[p])]
LenBlobs == [p \in DOMAIN Len1 |-> ast_compile(Len1[p])]
GarbageBlobs == [p \in DOMAIN GarbageCollect |-> ast_compile(GarbageCollect[p])]
BlocksBlobs == [p \in DOMAIN Blocks |-> ast_compile(Blocks[p])]

-----------------------------------------------------------------------------
\* The examples print what is recorded beside them, and end without an error.
ExamplesPrintAsRecorded ==
  AtRest /\ prog.example # "" => Ending = "none" /\ out = Expected[prog.example]

\* derp_stdlib_print and CODE_PUSH_ARRAY: as long as no collection has got to its
\* elements, an array is printed with the values it was built from, to any depth.
ArraysPrintAsMeant ==
  AtRest /\ fault = "none" =>
    out = Meanings[prog].out /\ err = Meanings[prog].end

\* examples/len.cream.out records one line: the array, printed after its length
\* was taken, with its elements and its length.
LenLine ==
  LET sp == Separator(" ")
  IN  <<StrValue("Array:"), sp>> \o SubSeq(Expected.array, 1, 7) \o
      <<sp, StrValue("is"), sp, IntValue(3), sp, StrValue("items long"), NL>>
LenPrintsAsRecorded == AtRest => IsPrefixOf(LenLine, out)

\* examples/garbage_collect.cream: the last string of each call fits because
\* the collector makes room for it.
FitsBecauseOfGC == fault # "heap_full"

\* derp_stdlib_range, called as in examples/blocks.cream with an array and a
\* function, does not complain that its second argument should be a function.
RangeTakesArrayAndFunction == err # "ArgErr"
=============================================================================
