------------------------------ MODULE Reading -------------------------------
(***************************************************************************)
(* How a program text is read, by recursive descent: what the automaton of *)
(* Grammar.tla is compared with.  Operators group to the right, all on one *)
(* level; a statement goes on for as long as it can, so that a name before *)
(* a parenthesis is a call, also where a statement may end; a list may     *)
(* begin with a comma.                                                     *)
(***************************************************************************)
EXTENDS Grammar

Kind(s, i) == IF i <= Len(s) THEN s[i].t ELSE "$end"

\* A reading of the tokens before position `at`, or none.
Got(at, node) == [at |-> at, node |-> node]
NoReading == [at |-> 0]
Failed(r) == r.at = 0
Then(r, Next(_)) == IF Failed(r) THEN NoReading ELSE Next(r)

\* What r read, before a token of kind k.
Before(r, s, k) ==
  Then(r, LAMBDA q : IF Kind(s, q.at) = k THEN Got(q.at + 1, q.node) ELSE NoReading)
With(r, Node(_)) == Then(r, LAMBDA q : Got(q.at, Node(q.node)))

RECURSIVE Expr(_, _), Exprs(_, _), Statements(_, _), Names(_, _)

\* A statement list in braces, possibly empty.
Block(s, i) ==
  IF Kind(s, i) # "TLBRACE" THEN NoReading
  ELSE IF Kind(s, i + 1) = "TRBRACE" THEN Got(i + 2, <<>>)
  ELSE Before(Statements(s, Got(i + 1, <<>>)), s, "TRBRACE")

\* Parameters and body, from the opening parenthesis on.
Function(s, i, Node(_, _)) ==
  IF Kind(s, i) # "TLPAREN" THEN NoReading
  ELSE Then(Before(Names(s, Got(i + 1, <<>>)), s, "TRPAREN"),
            LAMBDA ps : With(Block(s, ps.at), LAMBDA b : Node(ps.node, b)))

Primary(s, i) ==
  CASE Kind(s, i) = "TIDENTIFIER" /\ Kind(s, i + 1) = "TLPAREN" ->
         With(Before(Exprs(s, Got(i + 2, <<>>)), s, "TRPAREN"),
              LAMBDA args : App(s[i].name, args))
    [] Kind(s, i) = "TIDENTIFIER" /\ Kind(s, i + 1) # "TLPAREN" -> Got(i + 1, Var(s[i].name))
    [] Kind(s, i) = "TINTEGER" -> Got(i + 1, Num(s[i].integer))
    [] Kind(s, i) = "TDOUBLE"  -> Got(i + 1, Float(s[i].text))
    [] Kind(s, i) = "TSTRING"  -> Got(i + 1, Str(s[i].string))
    [] Kind(s, i) = "TTRUE"    -> Got(i + 1, Bool(TRUE))
    [] Kind(s, i) = "TFALSE"   -> Got(i + 1, Bool(FALSE))
    [] Kind(s, i) = "TLBRACK"  ->
         With(Before(Exprs(s, Got(i + 1, <<>>)), s, "TRBRACK"), Arr)
    [] Kind(s, i) = "TLPAREN"  -> Before(Expr(s, i + 1), s, "TRPAREN")
    [] Kind(s, i) = "TKEYWORDFUNCDEF" -> Function(s, i + 1, Anon)
    [] OTHER -> NoReading

IsOperator(k) == \E j \in DOMAIN Operators : Operators[j] = k

Expr(s, i) ==
  Then(Primary(s, i),
       LAMBDA l : IF ~IsOperator(Kind(s, l.at)) THEN l
                  ELSE With(Expr(s, l.at + 1), LAMBDA r : Op(l.node, Kind(s, l.at), r)))

\* The list read so far goes on after a comma, or begins with its first element.
GoesOn(s, r, closing) == Kind(s, r.at) = "TCOMMA" \/ (r.node = <<>> /\ Kind(s, r.at) \notin closing)
NextElement(s, r) == IF Kind(s, r.at) = "TCOMMA" THEN r.at + 1 ELSE r.at

Exprs(s, r) ==
  IF ~GoesOn(s, r, {"TRPAREN", "TRBRACK"}) THEN r
  ELSE Then(Expr(s, NextElement(s, r)), LAMBDA e : Exprs(s, Got(e.at, Append(r.node, e.node))))

Names(s, r) ==
  LET i == NextElement(s, r)
  IN  IF ~GoesOn(s, r, {"TRPAREN"}) THEN r
      ELSE IF Kind(s, i) # "TIDENTIFIER" THEN NoReading
      ELSE Names(s, Got(i + 1, Append(r.node, s[i].name)))

Statement(s, i) ==
  CASE Kind(s, i) = "TIDENTIFIER" /\ Kind(s, i + 1) = "TEQUAL" ->
         With(Expr(s, i + 2), LAMBDA e : Set(s[i].name, e))
    [] Kind(s, i) \in {"TKEYWORDIF", "TKEYWORDWHILE"} ->
         Then(Expr(s, i + 1),
              LAMBDA c : With(Block(s, c.at),
                LAMBDA b : IF Kind(s, i) = "TKEYWORDIF" THEN If(c.node, b) ELSE While(c.node, b)))
    [] Kind(s, i) = "TKEYWORDFUNCDEF" /\ Kind(s, i + 1) = "TIDENTIFIER" ->
         Function(s, i + 2, LAMBDA ps, b : Fn(s[i + 1].name, ps, b))
    [] OTHER -> Expr(s, i)

\* At least one statement, up to the end of the text or of the block.
Statements(s, r) ==
  Then(Statement(s, r.at),
       LAMBDA e : LET so_far == Got(e.at, Append(r.node, e.node))
                  IN  IF Kind(s, e.at) \in {"$end", "TRBRACE"} THEN so_far
                      ELSE Statements(s, so_far))

\* The program of a text; a text that is none reads as the empty program, which
\* no text is.
Read(s) ==
  LET r == Statements(s, Got(1, <<>>))
  IN  IF Failed(r) \/ r.at # Len(s) + 1 THEN <<>> ELSE r.node
=============================================================================
