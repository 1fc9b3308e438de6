--------------------------- MODULE MCInterpreter ----------------------------
(* Small programs for the run of Interpreter: every sequence of up to      *)
(* three fragments, each of one or two statements.                         *)
EXTENDS StackUse, Syntax

Lt(l, r)  == Op(l, "TCLT", r)
Add(l, r) == Op(l, "TPLUS", r)
X == Var("x")
I == Var("i")

MCName == {"x", "i"}

\* Values, variables, conditions and loops; errors of each kind.
Fragments == <<
  <<Set("x", Num(1))>>,
  <<Set("x", Add(X, Num(2))), Println(<<X>>)>>,
  <<Println(<<Str("a"), App("len", <<Str("bc")>>)>>)>>,
  <<If(Lt(X, Num(3)), <<Set("x", Num(5)), Println(<<X>>)>>)>>,
  <<Set("i", Num(0)), While(Lt(I, Num(2)), <<Set("i", Add(I, Num(1))), Println(<<I>>)>>)>>,
  <<Println(<<Println(<<Str("a")>>)>>)>>,
  <<Set("x", Println(<<>>))>>,
  <<Num(7), Op(X, "TDIV", Op(Num(1), "TMINUS", X))>>,
  <<If(Lt(X, Num(3)), <<App("len", <<X>>)>>), If(Op(X, "TCEQ", Num(3)), <<Add(Str("s"), X)>>),
    App("range", <<X, Anon(<<"i">>, <<Println(<<I>>)>>)>>)>> >>

\* Calls of defined functions: values left for the caller, two parameters,
\* recursion, a function defined in another one, one ending in a loop, and one
\* that hides a native.
FunctionSets == <<
  <<Fn("f", <<"x">>, <<Println(<<X>>), Add(X, Num(1))>>),
    Fn("g", <<"x", "i">>, <<If(Lt(X, I), <<Println(<<X, I>>)>>)>>)>>,
  <<Fn("f", <<"i">>, <<Fn("g", <<"x">>, <<Println(<<X>>)>>), App("g", <<I>>), I>>),
    Fn("g", <<>>, <<Str("not me")>>)>>,
  <<Fn("f", <<"i">>, <<If(Lt(Num(1), I), <<App("f", <<Op(I, "TMINUS", Num(1))>>)>>), I>>),
    Fn("g", <<"i">>, <<While(Lt(I, Num(3)), <<Set("i", Add(I, Num(1)))>>)>>),
    Fn("len", <<"x">>, <<Num(9)>>)>> >>

CallFragments == <<
  <<Set("x", Num(1))>>,
  <<Set("x", App("f", <<Num(2)>>))>>,
  <<App("g", <<Num(1), Num(2)>>), Println(<<App("len", <<Str("s")>>)>>)>>,
  <<Println(<<App("f", <<X>>)>>)>>,
  <<While(Lt(X, Num(3)), <<App("f", <<X>>), Set("x", Add(X, Num(1)))>>)>>,
  <<App("f", <<App("g", <<Num(2)>>)>>)>> >>

\* Arrays: nested, empty, with a function in them, measured, and built from a
\* call that leaves no value.
ArrayFragments == <<
  <<Set("x", Arr(<<Num(1), Num(2)>>))>>,
  <<Set("i", Arr(<<X, Str("a")>>))>>,
  <<Set("i", Arr(<<Anon(<<>>, <<>>)>>))>>,
  <<Println(<<X>>)>>,
  <<Println(<<X, Arr(<<>>)>>)>>,
  <<Println(<<App("len", <<X>>), I>>)>>,
  <<Set("i", Arr(<<Println(<<X>>)>>))>>,
  <<If(X, <<X>>)>> >>

\* One operator on operands near the ends of the ints of 6 bits, and around zero.
Neg(n) == Op(Num(0), "TMINUS", Num(n))
Operands == <<Num(0), Num(1), Num(5), Num(31), Neg(1), Neg(5),
              Op(Neg(31), "TMINUS", Num(1))>>
Operators == <<"TPLUS", "TMINUS", "TMUL", "TDIV", "TCEQ", "TCNE", "TCLT", "TCLE",
               "TCGT", "TCGE">>
Calculation(c) == <<Println(<<Op(Operands[c[1]], Operators[c[2]], Operands[c[3]])>>)>>
Calculations == (DOMAIN Operands) \X (DOMAIN Operators) \X (DOMAIN Operands)

\* One or two of F, or three different ones.
Sequences3(F) ==
  [1 .. 1 -> DOMAIN F] \cup [1 .. 2 -> DOMAIN F] \cup
  {p \in [1 .. 3 -> DOMAIN F] : p[1] # p[2] /\ p[1] # p[3] /\ p[2] # p[3]}

\* The fragments of F in the order p.
Joint(F, p) ==
  F[p[1]] \o (IF Len(p) > 1 THEN F[p[2]] ELSE <<>>)
          \o (IF Len(p) > 2 THEN F[p[3]] ELSE <<>>)

\* Without definitions (0), with each set of them, with arrays, and calculations.
Small ==
  [p \in (Sequences3(Fragments) \X {0}) \cup
         (Sequences3(CallFragments) \X DOMAIN FunctionSets) \cup
         (Sequences3(ArrayFragments) \X {4}) \cup
         (Calculations \X {5}) |->
     CASE p[2] = 0 -> Joint(Fragments, p[1])
       [] p[2] \in DOMAIN FunctionSets -> FunctionSets[p[2]] \o Joint(CallFragments, p[1])
       [] p[2] = 4 -> Joint(ArrayFragments, p[1])
       [] p[2] = 5 -> Calculation(p[1])]
SmallBlobs == [p \in DOMAIN Small |-> ast_compile(Small[p])]

\* No program of a run is nested too deeply for its meaning.
ASSUME PatienceAssumption == \A p \in DOMAIN Programs : Meanings[p].end # "unfinished"
=============================================================================
