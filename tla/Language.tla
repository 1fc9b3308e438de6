------------------------------ MODULE Language ------------------------------
(***************************************************************************)
(* A reference semantics of Derplang, by recursion on the syntax tree, to  *)
(* compare compiled runs with.  It has no bytecode, no jumps, no call      *)
(* stack, no return addresses, no heap and no collector: values are        *)
(* immutable, an array is what is printed of it, and a call is a nested    *)
(* evaluation.  What it shares with the machine are the operand stack,     *)
(* because a node may leave any number of values on it, and the operations *)
(* on values.                                                              *)
(***************************************************************************)
EXTENDS Values, SyntaxTree

CONSTANT Patience   \* bound of the model: how deeply evaluations are nested

ASSUME LanguageAssumption == Patience \in Nat /\ StackHeight \in Nat \ {0}

-----------------------------------------------------------------------------
(* A value carries what print writes of it.                                *)

Writing == [out : Seq(Token), res : {"ok", "InternalErr"}]

Val == [type : Types \ {"TYPE_STRING"}, num : Int, str : Chars, shown : Writing] \cup
       [type : {"TYPE_STRING"}, num : Int, str : Text, shown : Writing]

Scalar(v) ==
  [type |-> v.type, num |-> v.num, str |-> v.str,
   shown |-> IF v.type = "TYPE_FN_REF" THEN NotShown("InternalErr") ELSE Shown(<<v>>)]

Array(elements) ==
  [type |-> "TYPE_ARRAY", num |-> Len(elements), str |-> "",
   shown |-> Bracketed(Joined([k \in DOMAIN elements |-> elements[k].shown], ","))]

\* The value an empty stack gives.
Null == [type |-> "null"]

-----------------------------------------------------------------------------
(* The state of an evaluation: the operand stack, the variables of the     *)
(* function at hand, what was printed, and in `end` "none" as long as it   *)
(* goes on, and then what ended it.                                        *)

Endings == {"none", "null", "InternalErr", "LookupErr", "TypeErr", "ArgErr", "division",
            "out_of_bounds", "unfinished"}

Variables == [Name -> Val \cup {Null}]
NoVariables == [x \in Name |-> Null]

EState == [stk : Seq(Val), table : Variables, out : Seq(Token), end : Endings]

Start == [stk |-> <<>>, table |-> NoVariables, out |-> <<>>, end |-> "none"]

Ended(s, e) == [s EXCEPT !.end = e]

\* An evaluation that has ended does not go on.
Unless(s, next) == IF s.end # "none" THEN s ELSE next

Push(s, v) == IF Len(s.stk) >= StackHeight THEN s ELSE [s EXCEPT !.stk = Append(@, v)]

PopValue(s) == IF s.stk = <<>> THEN Null ELSE s.stk[Len(s.stk)]
PopN(s, n) == [s EXCEPT !.stk = SubSeq(@, 1, Len(@) - n)]
Pop(s) == IF s.stk = <<>> THEN s ELSE PopN(s, 1)
TopN(s, n) == SubSeq(s.stk, Len(s.stk) - n + 1, Len(s.stk))

Bind(s, x) == [Pop(s) EXCEPT !.table[x] = PopValue(s)]
Binding == [x \in Name |-> [s \in EState |-> Unless(s, Bind(s, x))]]

-----------------------------------------------------------------------------
(* Operators and natives.                                                  *)

MakeArray(s, n) ==
  IF n > Len(s.stk) THEN Ended(s, "out_of_bounds")
  ELSE Push(PopN(s, n), Array(TopN(s, n)))

Apply(s, code) ==
  LET r == PopValue(s)
      l == PopValue(Pop(s))
  IN  IF r.type = "null" THEN Ended(s, "null")
      ELSE IF r.type # "TYPE_INTEGER" THEN Ended(s, "InternalErr")
      ELSE IF l.type = "null" THEN Ended(s, "null")
      ELSE IF l.type # "TYPE_INTEGER" THEN Ended(s, "InternalErr")
      ELSE IF DivisionTraps(code, l.num, r.num) THEN Ended(s, "division")
      ELSE Push(PopN(s, 2), Scalar(Computed(code, l.num, r.num)))

PrintTop(s, n, newline) ==
  IF n > Len(s.stk) THEN Ended(s, "out_of_bounds")
  ELSE LET args == TopN(s, n)
           all == Joined([k \in 1 .. n |-> args[k].shown], " ")
           printed == IF newline THEN WithNewline(all) ELSE all
           after == [PopN(s, n) EXCEPT !.out = @ \o printed.out]
       IN  IF printed.res = "ok" THEN after ELSE Ended(after, printed.res)

LenOfTop(s, n) ==
  IF n # 1 THEN Ended(s, "ArgErr")
  ELSE IF s.stk = <<>> THEN Ended(s, "out_of_bounds")
  ELSE LET v == PopValue(s)
       IN  IF v.type = "TYPE_STRING" THEN Push(Pop(s), Scalar(IntValue(Len(v.str))))
           ELSE IF v.type = "TYPE_ARRAY" THEN Push(Pop(s), Scalar(IntValue(v.num)))
           ELSE Ended(s, "ArgErr")

Native(s, name, n) ==
  IF name = "println" THEN PrintTop(s, n, TRUE)
  ELSE IF name = "print" THEN PrintTop(s, n, FALSE)
  ELSE IF name = "len" THEN LenOfTop(s, n)
  ELSE IF name # "range" THEN Ended(s, "LookupErr")
  ELSE Ended(s, IF n > Len(s.stk) /\ n <= 2 THEN "out_of_bounds" ELSE "ArgErr")

-----------------------------------------------------------------------------
(* Evaluation; `eval` evaluates what is nested in the node at hand.        *)

\* Arguments are taken off the stack, so that the first parameter gets the last
\* argument.
CallOf(eval, f, s) ==
  LET bound == Through(Binding, f.params, [s EXCEPT !.table = NoVariables])
  IN  [Through(eval, f.block, bound) EXCEPT !.table = s.table]

\* The first definition of a name counts.
Call(eval, defs, s, name, n) ==
  LET named == {d \in DOMAIN defs : defs[d].name = name}
  IN  IF named = {} THEN Native(s, name, n)
      ELSE CallOf(eval, defs[CHOOSE d \in named : \A c \in named : d <= c], s)

\* The condition on the stack holds, fails, or is none.
Branch(s, taken) ==
  LET v == PopValue(s)
  IN  IF v.type = "null" THEN Ended(s, "null")
      ELSE IF v.type # "TYPE_BOOLEAN" THEN Ended(s, "TypeErr")
      ELSE IF v.num = 1 THEN taken
      ELSE Pop(s)

LookupName(s, x) ==
  IF s.table[x] = Null THEN Ended(s, "LookupErr") ELSE Push(s, s.table[x])

EvalNode(eval, defs, e, s) ==
  CASE e.t = "NINTEGER"     -> Push(s, Scalar(IntValue(e.integer)))
    [] e.t = "NDOUBLE"      -> Push(s, Scalar(FloatValue(e.tdouble)))
    [] e.t = "NSTRING"      -> Push(s, Scalar(StrValue(e.string)))
    [] e.t = "NBOOL"        -> Push(s, Scalar(BoolValue(e.tbool)))
    [] e.t = "NANONFUNCDEF" -> Push(s, Scalar(FnRefValue(0)))
    [] e.t = "NFUNCDEF"     -> s
    [] e.t = "NLOOKUP"      -> LookupName(s, e.name)
    [] e.t = "NASSIGNMENT"  -> Binding[e.name][eval[e.val][s]]
    [] e.t = "NARRAY"       ->
         LET v == Through(eval, e.array, s) IN Unless(v, MakeArray(v, Len(e.array)))
    [] e.t = "NCALL"        ->
         LET v == Through(eval, e.args, s)
         IN  Unless(v, Call(eval, defs, v, e.name, Len(e.args)))
    [] e.t = "NBINARYOP"    ->
         LET v == eval[e.right][eval[e.left][s]] IN Unless(v, Apply(v, OpCode[e.op]))
    [] e.t = "NIFSTRUCTURE" ->
         LET v == eval[e.expr][s]
         IN  Unless(v, Branch(v, Through(eval, e.block, Pop(v))))
    [] e.t = "NWHILESTRUCTURE" ->
         LET v == eval[e.expr][s]
         IN  Unless(v, Branch(v, eval[e][Through(eval, e.block, Pop(v))]))

\* Evaluations nested at most so deep, the others are cut off.
Evaluation(defs) ==
  LET eval[depth \in Nat] ==
        IF depth = 0
        THEN [e \in Node |-> [s \in EState |-> Unless(s, Ended(s, "unfinished"))]]
        ELSE [e \in Node |->
                [s \in EState |-> Unless(s, EvalNode(eval[depth - 1], defs, e, s))]]
  IN  eval

Meaning(root) == Through(Evaluation(Definitions(root).fns)[Patience], root, Start)
=============================================================================
