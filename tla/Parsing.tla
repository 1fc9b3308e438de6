------------------------------ MODULE Parsing -------------------------------
(***************************************************************************)
(* Driver with the compiler of Compiler.tla, and what its parser makes of  *)
(* a text compared with how Reading.tla reads it.                          *)
(***************************************************************************)
EXTENDS Driver, Reading, Compiler

CONSTANT Continuations   \* texts that could follow one given up

\* What Dies is in the runs.
CompilerDies(program) == ast_compile(program).crashed

\* The text after position i, up to a token the scanner does not know.
Piece(i) ==
  LET rest == SubSeq(text, i + 1, Len(text))
      n == SelectInSeq(rest, LAMBDA t : t = Unknown)
  IN  IF n = 0 THEN rest ELSE SubSeq(rest, 1, n - 1)

Beginnings == {0} \cup {i \in DOMAIN text : text[i] = Unknown}

\* Of the pieces an input falls into where the scanner meets something it does
\* not know, the parser accepts those, and only those, that have a reading. The
\* reading of the last piece is the program; the earlier ones had one and are
\* forgotten. A piece is given up as soon as no text that begins as it does has
\* a reading.
ParsesAsRead ==
  /\ phase = "compile" =>
       /\ \A i \in Beginnings : i <= begun => Read(Piece(i)) # <<>>
       /\ programBlock = Read(Piece(begun))
  /\ exit.did = "yyerror" =>
       \A more \in IF lookahead = End THEN {<<>>} ELSE Continuations :
         Read(Piece(begun) \o more) = <<>>
=============================================================================
