------------------------- MODULE InterpreterProofs -------------------------
(***************************************************************************)
(* A compiled program means what its syntax tree means, and the machine    *)
(* does what the compiled program means.  The first half runs the code on  *)
(* a machine without a heap, whose states are compared with evaluations;   *)
(* the second compares the machine of Vm.tla with that one.                *)
(***************************************************************************)
EXTENDS Interpreter, VmProofs, CompilerProofs

-----------------------------------------------------------------------------
(* What the operators of Language.tla make of values and states.           *)

LEMMA WritingParts ==
  /\ Writing = Printing({"ok", "InternalErr"})
  /\ \A w \in Writing : w.out \in Seq(Token) /\ w.res \in {"ok", "InternalErr"}
  /\ Shown(<<>>) \in Writing
  /\ NotShown("InternalErr") \in Writing
  /\ \A s \in Separators : Separator(s) \in Token
<1>1. Writing = Printing({"ok", "InternalErr"})
  BY DEF Writing, Printing
<1>2. QED
  BY <1>1, PrintingParts

LEMMA JoinedWrites ==
  ASSUME NEW shown, Len(shown) \in Nat, \A k \in 1 .. Len(shown) : shown[k] \in Writing,
         NEW sep \in Separators
  PROVE  Joined(shown, sep) \in Writing
<1> DEFINE R == {"ok", "InternalErr"}
<1>1. Writing = Printing(R) /\ "ok" \in R
  BY WritingParts
<1> HIDE DEF R
<1>2. QED
  BY <1>1, JoinedPrints

LEMMA Writes ==
  ASSUME NEW w \in Writing
  PROVE  Bracketed(w) \in Writing /\ WithNewline(w) \in Writing
BY WritingParts, Prints

LEMMA ScalarIs ==
  ASSUME NEW v \in Basic, v.type = "TYPE_STRING" => v.str \in Text
  PROVE  /\ Scalar(v) \in Val
         /\ Scalar(v).type = v.type /\ Scalar(v).num = v.num /\ Scalar(v).str = v.str
         /\ v.type = "TYPE_FN_REF" => Scalar(v).shown = NotShown("InternalErr")
         /\ v.type # "TYPE_FN_REF" => Scalar(v).shown = Shown(<<v>>)
<1>1. v.type \in Types /\ v.num \in Int /\ v.str \in Chars
  BY DEF Basic
<1>2. v \in Token
  BY DEF Basic, Token
<1>3. Shown(<<v>>) \in Writing
  BY <1>2 DEF Shown, Writing
<1> DEFINE w == IF v.type = "TYPE_FN_REF" THEN NotShown("InternalErr") ELSE Shown(<<v>>)
<1>4. w \in Writing
  BY <1>3, WritingParts
<1>5. Scalar(v) = [type |-> v.type, num |-> v.num, str |-> v.str, shown |-> w]
  BY DEF Scalar
<1> HIDE DEF w
<1>6. Scalar(v) \in Val
  BY <1>1, <1>4, <1>5 DEF Val
<1>7. QED
  BY <1>5, <1>6 DEF w

LEMMA ArrayIs ==
  ASSUME NEW elements \in Seq(Val)
  PROVE  /\ Array(elements) \in Val
         /\ Array(elements).type = "TYPE_ARRAY" /\ Array(elements).num = Len(elements)
         /\ Array(elements).str = ""
         /\ Array(elements).shown =
              Bracketed(Joined([k \in DOMAIN elements |-> elements[k].shown], ","))
<1> DEFINE shown == [k \in DOMAIN elements |-> elements[k].shown]
           w == Bracketed(Joined(shown, ","))
<1>1. Len(elements) \in Nat /\ DOMAIN elements = 1 .. Len(elements)
  OBVIOUS
<1>2. Len(shown) = Len(elements)
  BY <1>1
<1>3. \A k \in 1 .. Len(shown) : shown[k] \in Writing
  <2>1. \A k \in 1 .. Len(elements) : elements[k] \in Val
    OBVIOUS
  <2>2. QED
    BY <1>1, <1>2, <2>1 DEF Val
<1>4. "," \in Separators
  BY DEF Separators
<1> HIDE DEF shown
<1>5. w \in Writing
  BY <1>1, <1>2, <1>3, <1>4, JoinedWrites, Writes
<1>6. Array(elements) = [type |-> "TYPE_ARRAY", num |-> Len(elements), str |-> "", shown |-> w]
  BY DEF Array, shown
<1>7. "TYPE_ARRAY" \in Types \ {"TYPE_STRING"} /\ "" \in Chars
  BY DEF Types, Chars
<1> DEFINE type == "TYPE_ARRAY"
           str == ""
           n == Len(elements)
<1>8. type \in Types \ {"TYPE_STRING"} /\ str \in Chars /\ n \in Int
  <2>1. type \in Types \ {"TYPE_STRING"} /\ str \in Chars
    BY <1>7
  <2>2. n \in Int
    BY <1>1
  <2>3. QED
    BY <2>1, <2>2
<1>9. w = Bracketed(Joined([k \in DOMAIN elements |-> elements[k].shown], ","))
  BY DEF shown
<1>10. Array(elements) = [type |-> type, num |-> n, str |-> str, shown |-> w]
  BY <1>6
<1> HIDE DEF type, str, n, w
<1>11. /\ Array(elements) \in Val /\ Array(elements).type = type
       /\ Array(elements).num = n /\ Array(elements).str = str
       /\ Array(elements).shown = w
  BY <1>5, <1>8, <1>10 DEF Val
<1>12. QED
  BY <1>9, <1>11 DEF type, str, n

-----------------------------------------------------------------------------
LEMMA PrefixRefl ==
  ASSUME NEW S, NEW a \in Seq(S)
  PROVE  IsPrefixOf(a, a)
BY DEF IsPrefixOf

LEMMA PrefixTrans ==
  ASSUME NEW S, NEW a \in Seq(S), NEW b \in Seq(S), NEW c \in Seq(S),
         IsPrefixOf(a, b), IsPrefixOf(b, c)
  PROVE  IsPrefixOf(a, c)
BY DEF IsPrefixOf

LEMMA PrefixJoin ==
  ASSUME NEW S, NEW a \in Seq(S), NEW b \in Seq(S)
  PROVE  a \o b \in Seq(S) /\ IsPrefixOf(a, a \o b)
BY DEF IsPrefixOf

\* An evaluation goes from s to t.
Leads(s, t) == t \in EState /\ IsPrefixOf(s.out, t.out)

LEMMA EParts ==
  ASSUME NEW s \in EState
  PROVE  /\ s.stk \in Seq(Val) /\ Len(s.stk) \in Nat
         /\ s.table \in Variables
         /\ s.out \in Seq(Token)
         /\ s.end \in Endings
         /\ s = [stk |-> s.stk, table |-> s.table, out |-> s.out, end |-> s.end]
BY DEF EState

LEMMA LeadsRefl ==
  ASSUME NEW s \in EState
  PROVE  Leads(s, s)
BY EParts, PrefixRefl DEF Leads

LEMMA LeadsTrans ==
  ASSUME NEW s \in EState, NEW t, NEW u, Leads(s, t), Leads(t, u)
  PROVE  Leads(s, u)
<1>1. t \in EState /\ u \in EState
  BY DEF Leads
<1>2. s.out \in Seq(Token) /\ t.out \in Seq(Token) /\ u.out \in Seq(Token)
  BY <1>1, EParts
<1>3. IsPrefixOf(s.out, u.out)
  BY <1>2, PrefixTrans DEF Leads
<1>4. QED
  BY <1>1, <1>3 DEF Leads

\* What does not print.
SameOut(s, t) == t \in EState /\ t.out = s.out /\ t.end = s.end

LEMMA SameOutLeads ==
  ASSUME NEW s \in EState, NEW t, SameOut(s, t)
  PROVE  Leads(s, t)
BY EParts, PrefixRefl DEF SameOut, Leads

LEMMA EndedIs ==
  ASSUME NEW s \in EState, NEW e \in Endings
  PROVE  /\ Ended(s, e) \in EState
         /\ Ended(s, e).stk = s.stk /\ Ended(s, e).table = s.table
         /\ Ended(s, e).out = s.out /\ Ended(s, e).end = e
         /\ Leads(s, Ended(s, e))
<1>1. /\ Ended(s, e) \in EState
      /\ Ended(s, e).stk = s.stk /\ Ended(s, e).table = s.table
      /\ Ended(s, e).out = s.out /\ Ended(s, e).end = e
  BY DEF EState, Ended
<1>2. QED
  BY <1>1, EParts, PrefixRefl DEF Leads

LEMMA PushIs ==
  ASSUME NEW s \in EState, NEW v \in Val
  PROVE  /\ SameOut(s, Push(s, v)) /\ Push(s, v).table = s.table
         /\ Push(s, v).stk = IF Len(s.stk) >= StackHeight THEN s.stk ELSE Append(s.stk, v)
<1>1. s.stk \in Seq(Val) /\ Append(s.stk, v) \in Seq(Val)
  BY EParts
<1>2. CASE Len(s.stk) >= StackHeight
  BY <1>2 DEF Push, SameOut
<1>3. CASE ~ (Len(s.stk) >= StackHeight)
  <2>1. Push(s, v) = [s EXCEPT !.stk = Append(@, v)]
    BY <1>3 DEF Push
  <2>2. QED
    BY <1>1, <1>3, <2>1 DEF SameOut, EState
<1>4. QED
  BY <1>2, <1>3

LEMMA PopNIs ==
  ASSUME NEW s \in EState, NEW n \in 0 .. Len(s.stk)
  PROVE  /\ SameOut(s, PopN(s, n)) /\ PopN(s, n).table = s.table
         /\ PopN(s, n).stk = SubSeq(s.stk, 1, Len(s.stk) - n)
         /\ Len(PopN(s, n).stk) = Len(s.stk) - n
         /\ TopN(s, n) \in Seq(Val) /\ Len(TopN(s, n)) = n
         /\ \A k \in 1 .. n : TopN(s, n)[k] = s.stk[Len(s.stk) - n + k]
<1>1. s.stk \in Seq(Val) /\ Len(s.stk) \in Nat
  BY EParts
<1> DEFINE rest == SubSeq(s.stk, 1, Len(s.stk) - n)
<1>2. rest \in Seq(Val) /\ Len(rest) = Len(s.stk) - n
  BY <1>1
<1>3. TopN(s, n) \in Seq(Val) /\ Len(TopN(s, n)) = n
      /\ \A k \in 1 .. n : TopN(s, n)[k] = s.stk[Len(s.stk) - n + k]
  BY <1>1 DEF TopN
<1>4. PopN(s, n) = [s EXCEPT !.stk = rest]
  BY DEF PopN
<1> HIDE DEF rest
<1>5. SameOut(s, PopN(s, n)) /\ PopN(s, n).table = s.table /\ PopN(s, n).stk = rest
  BY <1>2, <1>4 DEF SameOut, EState
<1>6. QED
  BY <1>2, <1>3, <1>5 DEF rest

LEMMA PopIs ==
  ASSUME NEW s \in EState
  PROVE  /\ SameOut(s, Pop(s)) /\ Pop(s).table = s.table
         /\ s.stk = <<>> => Pop(s).stk = <<>> /\ PopValue(s) = Null
         /\ s.stk # <<>> => /\ Len(s.stk) \in Nat \ {0}
                            /\ Pop(s).stk = SubSeq(s.stk, 1, Len(s.stk) - 1)
                            /\ Len(Pop(s).stk) = Len(s.stk) - 1
                            /\ PopValue(s) = s.stk[Len(s.stk)]
                            /\ PopValue(s) \in Val
         /\ PopValue(s) \in Val \cup {Null}
<1>1. s.stk \in Seq(Val) /\ Len(s.stk) \in Nat
  BY EParts
<1>2. CASE s.stk = <<>>
  BY <1>2 DEF Pop, PopValue, SameOut
<1>3. CASE s.stk # <<>>
  <2>1. 1 \in 0 .. Len(s.stk) /\ Len(s.stk) # 0
    BY <1>1, <1>3
  <2>2. Pop(s) = PopN(s, 1) /\ PopValue(s) = s.stk[Len(s.stk)]
    BY <1>3 DEF Pop, PopValue
  <2>3. s.stk[Len(s.stk)] \in Val
    BY <1>1, <1>3
  <2>4. QED
    BY <1>1, <1>3, <2>1, <2>2, <2>3, PopNIs
<1>4. QED
  BY <1>2, <1>3

LEMMA BindIs ==
  ASSUME NEW s \in EState, NEW x \in Name
  PROVE  /\ SameOut(s, Bind(s, x))
         /\ Bind(s, x).stk = Pop(s).stk
         /\ Bind(s, x).table = [s.table EXCEPT ![x] = PopValue(s)]
         /\ Binding[x][s] = Unless(s, Bind(s, x))
<1>1. SameOut(s, Pop(s)) /\ Pop(s).table = s.table /\ PopValue(s) \in Val \cup {Null}
  BY PopIs
<1> DEFINE t == Pop(s)
           v == PopValue(s)
<1>2. t \in EState /\ t.out = s.out /\ t.end = s.end /\ t.table = s.table /\ v \in Val \cup {Null}
  BY <1>1 DEF SameOut
<1>3. Bind(s, x) = [t EXCEPT !.table[x] = v]
  BY DEF Bind
<1>4. Binding[x][s] = Unless(s, Bind(s, x))
  BY DEF Binding
<1> HIDE DEF t, v
<1>5. Bind(s, x) = [t EXCEPT !.table = [t.table EXCEPT ![x] = v]]
  BY <1>2, <1>3 DEF EState
<1>6. [t.table EXCEPT ![x] = v] \in Variables
  BY <1>2 DEF EState, Variables
<1>7. SameOut(s, Bind(s, x)) /\ Bind(s, x).stk = t.stk /\ Bind(s, x).table = [t.table EXCEPT ![x] = v]
  BY <1>2, <1>5, <1>6 DEF SameOut, EState
<1>8. QED
  BY <1>2, <1>4, <1>7 DEF t, v
-----------------------------------------------------------------------------
LEMMA ValParts ==
  ASSUME NEW v \in Val
  PROVE  /\ v.type \in Types /\ v.num \in Int /\ v.str \in Chars /\ v.shown \in Writing
         /\ v.type = "TYPE_STRING" => v.str \in Text
         /\ v.type # "null" /\ v # Null
<1>1. /\ v.type \in Types /\ v.num \in Int /\ v.shown \in Writing
      /\ v.str \in Chars
      /\ v.type = "TYPE_STRING" => v.str \in Text
  BY StringsAre DEF Val, Types
<1>2. v.type # "null"
  BY <1>1 DEF Types
<1>3. QED
  BY <1>1, <1>2 DEF Null

LEMMA MakeArrayLeads ==
  ASSUME NEW s \in EState, NEW n \in Nat
  PROVE  Leads(s, MakeArray(s, n))
<1>1. CASE n > Len(s.stk)
  <2>1. "out_of_bounds" \in Endings
    BY DEF Endings
  <2>2. QED
    BY <1>1, <2>1, EndedIs DEF MakeArray
<1>2. CASE ~ (n > Len(s.stk))
  <2>1. n \in 0 .. Len(s.stk)
    BY <1>2, EParts
  <2> DEFINE t == PopN(s, n)
             v == Array(TopN(s, n))
  <2>2. t \in EState /\ v \in Val /\ SameOut(s, t)
    BY <2>1, PopNIs, ArrayIs DEF SameOut
  <2>3. MakeArray(s, n) = Push(t, v)
    BY <1>2 DEF MakeArray
  <2> HIDE DEF t, v
  <2>4. QED
    BY <2>2, <2>3, PushIs, SameOutLeads, LeadsTrans
<1>3. QED
  BY <1>1, <1>2

LEMMA ApplyLeads ==
  ASSUME NEW s \in EState, NEW code \in ArithmeticCodes
  PROVE  Leads(s, Apply(s, code))
<1> DEFINE r == PopValue(s)
           l == PopValue(Pop(s))
           v == Computed(code, l.num, r.num)
<1>1. \A e \in {"null", "InternalErr", "division"} : Leads(s, Ended(s, e))
  <2>1. \A e \in {"null", "InternalErr", "division"} : e \in Endings
    BY DEF Endings
  <2>2. QED
    BY <2>1, EndedIs
<1>2. CASE /\ r.type # "null" /\ r.type = "TYPE_INTEGER" /\ l.type # "null"
           /\ l.type = "TYPE_INTEGER" /\ ~DivisionTraps(code, l.num, r.num)
  <2>1. r \in Val /\ s.stk # <<>> /\ Pop(s) \in EState /\ Len(Pop(s).stk) = Len(s.stk) - 1
    BY <1>2, PopIs DEF Null, SameOut
  <2>2. l \in Val /\ Pop(s).stk # <<>> /\ Len(Pop(s).stk) # 0
    <3>1. Pop(s).stk = <<>> => PopValue(Pop(s)) = Null
      BY <2>1, PopIs
    <3>2. Pop(s).stk # <<>> => PopValue(Pop(s)) \in Val /\ Len(Pop(s).stk) \in Nat \ {0}
      BY <2>1, PopIs
    <3>3. QED
      BY <1>2, <3>1, <3>2 DEF Null
  <2>3. 2 \in 0 .. Len(s.stk)
    BY <2>1, <2>2, EParts
  <2>4. v \in Basic /\ v.type \in {"TYPE_INTEGER", "TYPE_BOOLEAN"}
    <3>1. l.num \in Int /\ r.num \in Int
      BY <2>1, <2>2, ValParts
    <3>2. QED
      BY <1>2, <3>1, ComputedIs
  <2>5. Scalar(v) \in Val
    BY <2>4, ScalarIs
  <2>6. SameOut(s, PopN(s, 2)) /\ PopN(s, 2) \in EState
    BY <2>3, PopNIs DEF SameOut
  <2>7. Apply(s, code) = Push(PopN(s, 2), Scalar(v))
    BY <1>2 DEF Apply
  <2> HIDE DEF v
  <2>8. QED
    BY <2>5, <2>6, <2>7, PushIs, SameOutLeads, LeadsTrans
<1>3. CASE ~ (/\ r.type # "null" /\ r.type = "TYPE_INTEGER" /\ l.type # "null"
              /\ l.type = "TYPE_INTEGER" /\ ~DivisionTraps(code, l.num, r.num))
  <2>1. \E e \in {"null", "InternalErr", "division"} : Apply(s, code) = Ended(s, e)
    BY <1>3 DEF Apply
  <2>2. QED
    BY <1>1, <2>1
<1>4. QED
  BY <1>2, <1>3

\* What print writes of the topmost values.
PrintedTop(s, n, newline) ==
  LET all == Joined([k \in 1 .. n |-> TopN(s, n)[k].shown], " ")
  IN  IF newline THEN WithNewline(all) ELSE all

LEMMA PrintIs ==
  ASSUME NEW s \in EState, NEW n \in 0 .. Len(s.stk), NEW newline
  PROVE  /\ PrintedTop(s, n, newline) \in Writing
         /\ LET printed == PrintedTop(s, n, newline)
                after == [PopN(s, n) EXCEPT !.out = @ \o printed.out]
            IN  /\ PrintTop(s, n, newline) =
                     IF printed.res = "ok" THEN after ELSE Ended(after, printed.res)
                /\ after \in EState /\ after.stk = PopN(s, n).stk
                /\ after.table = s.table /\ after.end = s.end
                /\ after.out = s.out \o printed.out
<1> DEFINE shown == [k \in 1 .. n |-> TopN(s, n)[k].shown]
           printed == PrintedTop(s, n, newline)
           after == [PopN(s, n) EXCEPT !.out = @ \o printed.out]
<1>1. n \in Nat /\ Len(shown) = n
  BY EParts
<1>2. \A k \in 1 .. Len(shown) : shown[k] \in Writing
  <2>1. TopN(s, n) \in Seq(Val) /\ Len(TopN(s, n)) = n
    BY PopNIs
  <2>2. \A k \in 1 .. n : TopN(s, n)[k] \in Val
    BY <1>1, <2>1
  <2>3. \A k \in 1 .. n : TopN(s, n)[k].shown \in Writing
    BY <2>2, ValParts
  <2>4. QED
    BY <1>1, <2>3
<1>3. " " \in Separators
  BY DEF Separators
<1>4. Joined(shown, " ") \in Writing
  <2> HIDE DEF shown
  <2>1. QED
    BY <1>1, <1>2, <1>3, JoinedWrites
<1>5. printed \in Writing
  BY <1>4, Writes DEF PrintedTop
<1>6. PrintTop(s, n, newline) = IF printed.res = "ok" THEN after ELSE Ended(after, printed.res)
  <2>1. ~ (n > Len(s.stk))
    BY EParts
  <2>2. QED
    BY <2>1 DEF PrintTop, PrintedTop
<1> HIDE DEF printed
<1>7. SameOut(s, PopN(s, n)) /\ PopN(s, n).table = s.table
  BY PopNIs
<1>8. printed.out \in Seq(Token)
  BY <1>5, WritingParts
<1> DEFINE t == PopN(s, n)
<1>9. t \in EState /\ t.out = s.out /\ t.end = s.end /\ t.table = s.table
  BY <1>7 DEF SameOut
<1>10. t.out \o printed.out \in Seq(Token)
  BY <1>8, <1>9, EParts
<1> HIDE DEF t
<1>11. LET u == [t EXCEPT !.out = @ \o printed.out]
       IN  /\ u \in EState /\ u.stk = t.stk /\ u.table = t.table /\ u.end = t.end
           /\ u.out = t.out \o printed.out
  BY <1>9, <1>10 DEF EState
<1>12. /\ after \in EState /\ after.stk = PopN(s, n).stk
       /\ after.table = s.table /\ after.end = s.end
       /\ after.out = s.out \o printed.out
  BY <1>9, <1>11 DEF t
<1>13. QED
  BY <1>5, <1>6, <1>12 DEF printed

LEMMA PrintLeads ==
  ASSUME NEW s \in EState, NEW n \in Nat, NEW newline
  PROVE  Leads(s, PrintTop(s, n, newline))
<1>1. CASE n > Len(s.stk)
  <2>1. "out_of_bounds" \in Endings
    BY DEF Endings
  <2>2. QED
    BY <1>1, <2>1, EndedIs DEF PrintTop
<1>2. CASE ~ (n > Len(s.stk))
  <2>1. n \in 0 .. Len(s.stk)
    BY <1>2, EParts
  <2> DEFINE printed == PrintedTop(s, n, newline)
             after == [PopN(s, n) EXCEPT !.out = @ \o printed.out]
  <2>2. /\ printed \in Writing
        /\ PrintTop(s, n, newline) =
             IF printed.res = "ok" THEN after ELSE Ended(after, printed.res)
        /\ after \in EState /\ after.out = s.out \o printed.out
    BY <2>1, PrintIs
  <2> HIDE DEF printed, after
  <2>3. printed.out \in Seq(Token) /\ printed.res \in {"ok", "InternalErr"}
        /\ s.out \in Seq(Token)
    BY <2>2, WritingParts, EParts
  <2>4. Leads(s, after)
    BY <2>2, <2>3, PrefixJoin DEF Leads
  <2>5. printed.res # "ok" => Leads(after, Ended(after, printed.res))
    <3>1. printed.res # "ok" => printed.res \in Endings
      BY <2>3 DEF Endings
    <3>2. QED
      BY <2>2, <3>1, EndedIs
  <2>6. QED
    BY <2>2, <2>4, <2>5, LeadsTrans
<1>3. QED
  BY <1>1, <1>2

LEMMA LenLeads ==
  ASSUME NEW s \in EState, NEW n \in Nat
  PROVE  Leads(s, LenOfTop(s, n))
<1>1. Leads(s, Ended(s, "ArgErr")) /\ Leads(s, Ended(s, "out_of_bounds"))
  <2>1. "ArgErr" \in Endings /\ "out_of_bounds" \in Endings
    BY DEF Endings
  <2>2. QED
    BY <2>1, EndedIs
<1>2. CASE n = 1 /\ s.stk # <<>>
  <2> DEFINE v == PopValue(s)
             t == Pop(s)
  <2>1. v \in Val /\ SameOut(s, t) /\ t \in EState
    BY <1>2, PopIs DEF SameOut
  <2>2. ASSUME NEW i \in Int
        PROVE  Leads(s, Push(t, Scalar(IntValue(i))))
    <3>1. Scalar(IntValue(i)) \in Val
      BY ScalarsAre, ScalarIs
    <3> HIDE DEF t
    <3>2. QED
      BY <2>1, <3>1, PushIs, SameOutLeads, LeadsTrans
  <2>3. v.num \in Int /\ (v.type = "TYPE_STRING" => Len(v.str) \in Int)
    <3>1. \A x : x \in Text => Len(x) \in Nat
      BY DEF Text
    <3>2. v.num \in Int /\ (v.type = "TYPE_STRING" => v.str \in Text)
      BY <2>1, ValParts
    <3> HIDE DEF v
    <3>3. QED
      BY <3>1, <3>2
  <2>4. LenOfTop(s, n) =
          IF v.type = "TYPE_STRING" THEN Push(t, Scalar(IntValue(Len(v.str))))
          ELSE IF v.type = "TYPE_ARRAY" THEN Push(t, Scalar(IntValue(v.num)))
          ELSE Ended(s, "ArgErr")
    BY <1>2 DEF LenOfTop
  <2> HIDE DEF v, t
  <2>5. QED
    BY <1>1, <2>2, <2>3, <2>4
<1>3. QED
  BY <1>1, <1>2 DEF LenOfTop

LEMMA NativeLeads ==
  ASSUME NEW s \in EState, NEW name, NEW n \in Nat
  PROVE  Leads(s, Native(s, name, n))
<1>1. Leads(s, PrintTop(s, n, TRUE)) /\ Leads(s, PrintTop(s, n, FALSE)) /\ Leads(s, LenOfTop(s, n))
  BY PrintLeads, LenLeads
<1>2. \A e \in {"LookupErr", "out_of_bounds", "ArgErr"} : Leads(s, Ended(s, e))
  <2>1. \A e \in {"LookupErr", "out_of_bounds", "ArgErr"} : e \in Endings
    BY DEF Endings
  <2>2. QED
    BY <2>1, EndedIs
<1>3. QED
  BY <1>1, <1>2 DEF Native

LEMMA LookupLeads ==
  ASSUME NEW s \in EState, NEW x \in Name
  PROVE  Leads(s, LookupName(s, x))
<1>1. s.table[x] \in Val \cup {Null}
  BY EParts DEF Variables
<1>2. CASE s.table[x] = Null
  <2>1. "LookupErr" \in Endings
    BY DEF Endings
  <2>2. QED
    BY <1>2, <2>1, EndedIs DEF LookupName
<1>3. CASE s.table[x] # Null
  BY <1>1, <1>3, PushIs, SameOutLeads DEF LookupName
<1>4. QED
  BY <1>2, <1>3
-----------------------------------------------------------------------------
(* A machine without a heap: it runs the bytecode on the states of         *)
(* Language.tla.  saved holds the variables of the callers, and where they *)
(* go on.                                                                  *)

Caller(fns) == [table : Variables, fn : DOMAIN fns, addr : Nat]
Machine(fns) == [s : EState, fn : DOMAIN fns, at : Nat, saved : Seq(Caller(fns))]

\* What a literal means: which function a reference is to, does not matter.
Meant(i) == IF i.code = "CODE_PUSH_FN" THEN FnRefValue(0) ELSE Literal(i)

\* An instruction that stays in the function, and goes on behind it.
Effect(i, s) ==
  IF i.code \in PushCodes THEN Push(s, Scalar(Meant(i)))
  ELSE IF i.code = "CODE_PUSH_ARRAY" THEN MakeArray(s, i.arg2)
  ELSE IF i.code \in ArithmeticCodes THEN Apply(s, i.code)
  ELSE IF i.code = "CODE_PUSH_LOOKUP" THEN LookupName(s, i.arg1)
  ELSE IF i.code = "CODE_ASSIGN" THEN Bind(s, i.arg1)
  ELSE IF i.code = "CODE_CALL" THEN Native(s, i.arg1, i.arg2)
  ELSE s

Callees(fns, x) == {f \in DOMAIN fns : fns[f].name = x}
Callee(fns, x) == CHOOSE f \in Callees(fns, x) : \A g \in Callees(fns, x) : f <= g

At(fns, a) == fns[a.fn].code[a.at + 1]
Stuck(fns, a) == a.s.end # "none" \/ a.at >= Len(fns[a.fn].code)
Calls(fns, a) == At(fns, a).code = "CODE_CALL" /\ Callees(fns, At(fns, a).arg1) # {}

Onward(a, s, n) == [s |-> s, fn |-> a.fn, at |-> n, saved |-> a.saved]

Tested(i, a) ==
  LET v == PopValue(a.s)
  IN  IF v.type = "null" THEN Onward(a, Ended(a.s, "null"), a.at)
      ELSE IF v.type # "TYPE_BOOLEAN" THEN Onward(a, Ended(a.s, "TypeErr"), a.at)
      ELSE Onward(a, Pop(a.s), a.at + 1 + (IF v.num = 1 THEN 0 ELSE i.arg2))

Entered(fns, i, a) ==
  [s |-> [a.s EXCEPT !.table = NoVariables], fn |-> Callee(fns, i.arg1), at |-> 0,
   saved |-> Append(a.saved, [table |-> a.s.table, fn |-> a.fn, addr |-> a.at + 1])]

Returned(a) ==
  LET n == Len(a.saved)
      to == a.saved[n]
  IN  [s |-> [a.s EXCEPT !.table = to.table], fn |-> to.fn, at |-> to.addr,
       saved |-> SubSeq(a.saved, 1, n - 1)]

Moved(fns, a) ==
  LET i == At(fns, a)
  IN  IF Stuck(fns, a) THEN a
      ELSE IF i.code = "CODE_JUMP" THEN Onward(a, a.s, i.arg2)
      ELSE IF i.code = "CODE_JUMP_IF_FALSE" THEN Tested(i, a)
      ELSE IF i.code = "CODE_RET" THEN (IF a.saved = <<>> THEN a ELSE Returned(a))
      ELSE IF Calls(fns, a) THEN Entered(fns, i, a)
      ELSE Onward(a, Effect(i, a.s), a.at + 1)

\* The functions of a compiled program.
Fit(fns) ==
  /\ fns \in Seq(fn_blob_t) /\ fns # <<>> /\ fns[1].name = ""
  /\ \A f \in DOMAIN fns :
       /\ fns[f].code \in Seq(Bytecode)
       /\ \A i \in DOMAIN fns[f].code : WellTyped(fns[f].code[i])

LEMMA MachineParts ==
  ASSUME NEW fns, NEW a \in Machine(fns)
  PROVE  /\ a.s \in EState /\ a.fn \in DOMAIN fns /\ a.at \in Nat
         /\ a.saved \in Seq(Caller(fns))
         /\ a = [s |-> a.s, fn |-> a.fn, at |-> a.at, saved |-> a.saved]
BY DEF Machine

LEMMA OnwardIs ==
  ASSUME NEW fns, NEW a \in Machine(fns), NEW t, NEW n
  PROVE  /\ Onward(a, t, n).s = t /\ Onward(a, t, n).at = n
         /\ Onward(a, t, n).fn = a.fn /\ Onward(a, t, n).saved = a.saved
         /\ t \in EState /\ n \in Nat => Onward(a, t, n) \in Machine(fns)
BY DEF Machine, Onward

\* The instruction at hand.
LEMMA AtIs ==
  ASSUME NEW fns, Fit(fns), NEW a \in Machine(fns), ~Stuck(fns, a)
  PROVE  /\ a.at + 1 \in 1 .. Len(fns[a.fn].code)
         /\ At(fns, a) \in Bytecode
         /\ At(fns, a).code # "CODE_PUSH_INT" => At(fns, a).arg2 \in Nat
         /\ At(fns, a).code \in {"CODE_PUSH_LOOKUP", "CODE_ASSIGN"} => At(fns, a).arg1 \in Name
         /\ At(fns, a).code = "CODE_PUSH_STR" => Len(At(fns, a).arg1) \in Nat
         /\ At(fns, a).code = "CODE_CALL" => At(fns, a).arg1 # ""
<1> DEFINE code == fns[a.fn].code
<1>1. code \in Seq(Bytecode) /\ \A i \in DOMAIN code : WellTyped(code[i])
  BY MachineParts DEF Fit
<1>2. a.at \in Nat /\ a.at < Len(code)
  <2>1. a.at \in Nat /\ ~ (a.at >= Len(code))
    BY MachineParts DEF Stuck
  <2>2. Len(code) \in Nat
    BY <1>1
  <2> HIDE DEF code
  <2>3. QED
    BY <2>1, <2>2
<1> HIDE DEF code
<1>3. a.at + 1 \in DOMAIN code /\ a.at + 1 \in 1 .. Len(code)
  BY <1>1, <1>2
<1>4. code[a.at + 1] \in Bytecode /\ WellTyped(code[a.at + 1])
  BY <1>1, <1>3
<1>5. QED
  BY <1>3, <1>4 DEF At, code, WellTyped

LEMMA MeantIs ==
  ASSUME NEW i \in Bytecode, i.code \in PushCodes, WellTyped(i)
  PROVE  /\ Meant(i) \in Basic
         /\ Meant(i).type = "TYPE_STRING" => Meant(i).str \in Text
         /\ Meant(i).type # "TYPE_ARRAY"
<1>1. i.arg1 \in Chars /\ i.arg2 \in Int
  BY DEF Bytecode
<1>2. CASE i.code = "CODE_PUSH_INT"
  BY <1>1, <1>2, ScalarsAre DEF Meant, Literal
<1>3. CASE i.code = "CODE_PUSH_FLOAT"
  BY <1>1, <1>3, ScalarsAre DEF Meant, Literal
<1>4. CASE i.code = "CODE_PUSH_BOOL"
  BY <1>1, <1>4, ScalarsAre DEF Meant, Literal
<1>5. CASE i.code = "CODE_PUSH_FN"
  <2>1. 0 \in Int
    OBVIOUS
  <2>2. QED
    BY <1>5, <2>1, ScalarsAre DEF Meant
<1>6. CASE i.code = "CODE_PUSH_STR"
  <2>1. Meant(i) = StrValue(i.arg1)
    BY <1>6 DEF Meant, Literal
  <2>2. i.arg1 \in Text
    BY <1>1, <1>6 DEF WellTyped, Text
  <2>3. QED
    BY <1>1, <2>1, <2>2, ScalarsAre
<1>7. QED
  BY <1>2, <1>3, <1>4, <1>5, <1>6 DEF PushCodes

LEMMA EffectLeads ==
  ASSUME NEW i \in Bytecode, WellTyped(i), NEW s \in EState
  PROVE  Leads(s, Effect(i, s))
<1>1. i.code # "CODE_PUSH_INT" => i.arg2 \in Nat
  BY DEF WellTyped
<1>2. CASE i.code \in PushCodes
  BY <1>2, MeantIs, ScalarIs, PushIs, SameOutLeads DEF Effect
<1>3. CASE i.code = "CODE_PUSH_ARRAY"
  BY <1>1, <1>3, MakeArrayLeads DEF Effect, PushCodes
<1>4. CASE i.code \in ArithmeticCodes
  BY <1>4, ApplyLeads DEF Effect, PushCodes, ArithmeticCodes
<1>5. CASE i.code = "CODE_PUSH_LOOKUP"
  BY <1>5, LookupLeads DEF Effect, PushCodes, ArithmeticCodes, WellTyped
<1>6. CASE i.code = "CODE_ASSIGN"
  BY <1>6, BindIs, SameOutLeads DEF Effect, PushCodes, ArithmeticCodes, WellTyped
<1>7. CASE i.code = "CODE_CALL"
  BY <1>1, <1>7, NativeLeads DEF Effect, PushCodes, ArithmeticCodes
<1>8. QED
  BY <1>2, <1>3, <1>4, <1>5, <1>6, <1>7, LeadsRefl DEF Effect

LEMMA CalleeIs ==
  ASSUME NEW fns, fns \in Seq(fn_blob_t), NEW x, Callees(fns, x) # {}
  PROVE  Callee(fns, x) \in DOMAIN fns /\ Callee(fns, x) \in Callees(fns, x)
         /\ \A g \in Callees(fns, x) : Callee(fns, x) <= g
<1>1. Callees(fns, x) \in SUBSET Nat /\ Callees(fns, x) \subseteq DOMAIN fns
  BY DEF Callees
<1>2. \E f \in Callees(fns, x) : \A g \in Callees(fns, x) : f <= g
  BY <1>1, TreesBy!Least
<1>3. QED
  BY <1>1, <1>2 DEF Callee

LEMMA MovedIs ==
  ASSUME NEW fns, Fit(fns), NEW a \in Machine(fns)
  PROVE  Moved(fns, a) \in Machine(fns) /\ Leads(a.s, Moved(fns, a).s)
<1> DEFINE i == At(fns, a)
           b == Moved(fns, a)
<1>1. /\ a.s \in EState /\ a.fn \in DOMAIN fns /\ a.at \in Nat /\ a.at + 1 \in Nat
      /\ a.saved \in Seq(Caller(fns))
      /\ a.s.table \in Variables
  <2>1. /\ a.s \in EState /\ a.fn \in DOMAIN fns /\ a.at \in Nat
        /\ a.saved \in Seq(Caller(fns))
    BY MachineParts
  <2>2. QED
    BY <2>1, EParts
<1>2. Leads(a.s, a.s)
  BY <1>1, LeadsRefl
<1>3. CASE Stuck(fns, a)
  BY <1>2, <1>3 DEF Moved
<1>4. CASE ~Stuck(fns, a)
  <2>1. i \in Bytecode /\ WellTyped(i) /\ (i.code # "CODE_PUSH_INT" => i.arg2 \in Nat)
    BY <1>4, AtIs DEF WellTyped
  <2>2. CASE i.code = "CODE_JUMP"
    <3>1. b = Onward(a, a.s, i.arg2) /\ i.arg2 \in Nat
      BY <1>4, <2>1, <2>2 DEF Moved
    <3> HIDE DEF i, b
    <3>2. b \in Machine(fns) /\ b.s = a.s
      BY <1>1, <3>1, OnwardIs
    <3>3. QED
      BY <1>2, <3>2 DEF b
  <2>3. CASE i.code = "CODE_JUMP_IF_FALSE"
    <3> DEFINE n == a.at + 1 + (IF PopValue(a.s).num = 1 THEN 0 ELSE i.arg2)
    <3>1. b = Tested(i, a) /\ i.arg2 \in Nat
      BY <1>4, <2>1, <2>3 DEF Moved
    <3>2. n \in Nat
      BY <1>1, <3>1
    <3>3. \/ \E e \in {"null", "TypeErr"} : b = Onward(a, Ended(a.s, e), a.at)
          \/ b = Onward(a, Pop(a.s), n)
      BY <3>1 DEF Tested
    <3>4. \A e \in {"null", "TypeErr"} : Ended(a.s, e) \in EState /\ Leads(a.s, Ended(a.s, e))
      <4>1. \A e \in {"null", "TypeErr"} : e \in Endings
        BY DEF Endings
      <4>2. QED
        BY <1>1, <4>1, EndedIs
    <3>5. Pop(a.s) \in EState /\ Leads(a.s, Pop(a.s))
      BY <1>1, PopIs, SameOutLeads DEF SameOut
    <3> HIDE DEF i, b, n
    <3>6. b \in Machine(fns) /\ Leads(a.s, b.s)
      BY <1>1, <3>2, <3>3, <3>4, <3>5, OnwardIs
    <3>7. QED
      BY <3>6 DEF b
  <2>4. CASE i.code = "CODE_RET"
    <3>1. CASE a.saved = <<>>
      BY <1>2, <1>4, <2>4, <3>1 DEF Moved
    <3>2. CASE a.saved # <<>>
      <4> DEFINE n == Len(a.saved)
                 to == a.saved[n]
                 t == [a.s EXCEPT !.table = to.table]
                 rest == SubSeq(a.saved, 1, n - 1)
      <4>1. b = [s |-> t, fn |-> to.fn, at |-> to.addr, saved |-> rest]
        BY <1>4, <2>4, <3>2 DEF Moved, Returned
      <4>2. n \in 1 .. n
        BY <1>1, <3>2
      <4>3. to \in Caller(fns)
        BY <1>1, <4>2
      <4>4. rest \in Seq(Caller(fns))
        BY <1>1, <4>2
      <4>5. t \in EState /\ SameOut(a.s, t)
        <5> HIDE DEF to
        <5>1. QED
          BY <1>1, <4>3 DEF EState, SameOut, Caller
      <4> HIDE DEF b, t, to, rest
      <4>6. b \in Machine(fns) /\ b.s = t
        BY <4>1, <4>3, <4>4, <4>5 DEF Machine, Caller
      <4>7. QED
        BY <1>1, <4>5, <4>6, SameOutLeads DEF b
    <3>3. QED
      BY <3>1, <3>2
  <2>5. CASE Calls(fns, a)
    <3>1. i.code = "CODE_CALL" /\ Callees(fns, i.arg1) # {}
      BY <2>5 DEF Calls
    <3> DEFINE t == [a.s EXCEPT !.table = NoVariables]
               from == [table |-> a.s.table, fn |-> a.fn, addr |-> a.at + 1]
               saved == Append(a.saved, from)
               f == Callee(fns, i.arg1)
    <3>2. b = [s |-> t, fn |-> f, at |-> 0, saved |-> saved]
      BY <1>4, <2>5, <3>1 DEF Moved, Entered
    <3>3. NoVariables \in Variables
      BY DEF NoVariables, Variables
    <3>4. t \in EState /\ SameOut(a.s, t)
      BY <1>1, <3>3 DEF EState, SameOut
    <3>5. from \in Caller(fns)
      BY <1>1 DEF Caller
    <3>6. saved \in Seq(Caller(fns))
      <4> HIDE DEF from
      <4>1. QED
        BY <1>1, <3>5
    <3>7. f \in DOMAIN fns
      BY <3>1, CalleeIs DEF Fit
    <3> HIDE DEF b, t, from, saved, f
    <3>8. b \in Machine(fns) /\ b.s = t
      BY <3>2, <3>4, <3>6, <3>7 DEF Machine
    <3>9. QED
      BY <1>1, <3>4, <3>8, SameOutLeads DEF b
  <2>6. CASE /\ i.code \notin {"CODE_JUMP", "CODE_JUMP_IF_FALSE", "CODE_RET"}
             /\ ~Calls(fns, a)
    <3>1. b = Onward(a, Effect(i, a.s), a.at + 1)
      BY <1>4, <2>6 DEF Moved
    <3>2. Leads(a.s, Effect(i, a.s))
      BY <1>1, <2>1, EffectLeads
    <3> HIDE DEF i, b
    <3> DEFINE t == Effect(i, a.s)
    <3>3. t \in EState /\ b = Onward(a, t, a.at + 1)
      BY <3>1, <3>2 DEF Leads
    <3> HIDE DEF t
    <3>4. b \in Machine(fns) /\ b.s = t
      BY <1>1, <3>3, OnwardIs
    <3>5. QED
      BY <3>2, <3>4 DEF b, t
  <2>7. QED
    BY <2>2, <2>3, <2>4, <2>5, <2>6
<1>5. QED
  BY <1>3, <1>4

RunStart(p) == p[2]
RunStep(p, k, a) == Moved(p[1], a)
RunBy == INSTANCE Recursion WITH Start <- RunStart, Step <- RunStep

\* The states of a run.
Runs(fns, A) == \A k \in Nat : A[k] \in Machine(fns) /\ A[k + 1] = Moved(fns, A[k])

LEMMA RunIs ==
  ASSUME NEW fns, Fit(fns), NEW a \in Machine(fns)
  PROVE  \E A : A[0] = a /\ Runs(fns, A)
<1> DEFINE p == <<fns, a>>
           A == RunBy!From(p)
<1>1. p[1] = fns /\ p[2] = a
  OBVIOUS
<1> HIDE DEF p
<1>2. A = [k \in Nat |-> IF k = 0 THEN RunStart(p) ELSE RunStep(p, k, A[k - 1])]
  BY RunBy!FromIs
<1>3. RunStart(p) = a /\ \A k, b : RunStep(p, k, b) = Moved(fns, b)
  BY <1>1 DEF RunStart, RunStep
<1>4. \A k \in Nat : k + 1 \in Nat /\ k + 1 # 0 /\ (k + 1) - 1 = k
  OBVIOUS
<1> HIDE DEF A
<1>5. A[0] = a /\ \A k \in Nat : A[k + 1] = Moved(fns, A[k])
  BY <1>2, <1>3, <1>4
<1> DEFINE Off == {k \in Nat : A[k] \notin Machine(fns)}
<1>6. Off = {}
  <2> SUFFICES ASSUME Off # {}
               PROVE  FALSE
    OBVIOUS
  <2>1. PICK k \in Off : \A j \in Off : k <= j
    <3>1. Off \in SUBSET Nat
      OBVIOUS
    <3>2. QED
      BY <3>1, TreesBy!Least
  <2>2. k - 1 \in Nat /\ (k - 1) + 1 = k
    BY <1>5, <2>1
  <2>3. A[k - 1] \in Machine(fns)
    BY <2>1, <2>2
  <2>4. QED
    BY <1>5, <2>1, <2>2, <2>3, MovedIs
<1>7. QED
  BY <1>5, <1>6 DEF Runs

LEMMA RunGrows ==
  ASSUME NEW fns, Fit(fns), NEW A, Runs(fns, A), NEW j \in Nat, NEW k \in Nat, j <= k
  PROVE  /\ IsPrefixOf(A[j].s.out, A[k].s.out)
         /\ Stuck(fns, A[j]) => A[k] = A[j]
<1> DEFINE Kept2(n) == Leads(A[j].s, A[n].s) /\ (Stuck(fns, A[j]) => A[n] = A[j])
           Off == {n \in Nat : j <= n /\ ~Kept2(n)}
<1>1. \A n \in Nat : A[n] \in Machine(fns) /\ A[n].s \in EState /\ A[n + 1] = Moved(fns, A[n])
  BY MachineParts DEF Runs
<1>2. Off = {}
  <2> SUFFICES ASSUME Off # {}
               PROVE  FALSE
    OBVIOUS
  <2>1. PICK n \in Off : \A m \in Off : n <= m
    <3>1. Off \in SUBSET Nat
      OBVIOUS
    <3>2. QED
      BY <3>1, TreesBy!Least
  <2>2. Kept2(j)
    BY <1>1, LeadsRefl
  <2>3. n # j /\ n \in Nat /\ j <= n
    BY <2>1, <2>2
  <2>4. n - 1 \in Nat /\ (n - 1) + 1 = n /\ j <= n - 1
    BY <2>3
  <2>5. Kept2(n - 1)
    BY <2>1, <2>4
  <2>6. A[n] = Moved(fns, A[n - 1]) /\ A[n - 1] \in Machine(fns)
    BY <1>1, <2>4
  <2>7. Leads(A[n - 1].s, A[n].s)
    BY <2>6, MovedIs
  <2>8. Leads(A[j].s, A[n].s)
    BY <1>1, <2>5, <2>7, LeadsTrans
  <2>9. Stuck(fns, A[j]) => A[n] = A[j]
    BY <2>5, <2>6 DEF Moved
  <2>10. QED
    BY <2>1, <2>8, <2>9
<1>3. Kept2(k)
  BY <1>2
<1>4. QED
  BY <1>3 DEF Leads
-----------------------------------------------------------------------------
(* Where a run comes to.                                                   *)

\* From its k-th state on the run comes to the state r, at `to` in the same
\* function; or, when the evaluation ended on the way, it ends in the same way,
\* or goes on from where the evaluation was cut off.
Arrives(A, k, r, to) ==
  /\ r \in EState
  /\ \E n \in Nat :
       /\ A[n].s.out = r.out
       /\ r.end = "none" => A[n] = Onward(A[k], r, to)
       /\ r.end \notin {"none", "unfinished"} => A[n].s.end = r.end

LEMMA ArrivesAt ==
  ASSUME NEW A, NEW k, NEW r, NEW to, Arrives(A, k, r, to), r.end = "none"
  PROVE  \E n \in Nat : A[n] = Onward(A[k], r, to)
BY DEF Arrives

\* Where it already is.
LEMMA ArrivesNow ==
  ASSUME NEW fns, NEW A, Runs(fns, A), NEW k \in Nat
  PROVE  Arrives(A, k, A[k].s, A[k].at)
<1>1. A[k] \in Machine(fns)
  BY DEF Runs
<1>2. A[k] = Onward(A[k], A[k].s, A[k].at) /\ A[k].s \in EState
  BY <1>1 DEF Machine, Onward
<1>3. QED
  BY <1>2 DEF Arrives

LEMMA ArrivesTwice ==
  ASSUME NEW A, NEW k, NEW n, NEW r, NEW m, A[n] = Onward(A[k], r, m),
         NEW t, NEW to, Arrives(A, n, t, to)
  PROVE  Arrives(A, k, t, to)
<1>1. Onward(A[n], t, to) = Onward(A[k], t, to)
  BY DEF Onward
<1>2. QED
  BY <1>1 DEF Arrives

\* What has ended is nowhere.
LEMMA ArrivesEnded ==
  ASSUME NEW A, NEW k, NEW r, NEW to, Arrives(A, k, r, to), r.end # "none", NEW other
  PROVE  Arrives(A, k, r, other)
BY DEF Arrives

\* What follows the state a, the n-th, by the instruction i at m.
Moves(fns, A, n, a, m, i) ==
  /\ i.code = "CODE_JUMP" => A[n + 1] = Onward(a, a.s, i.arg2)
  /\ i.code = "CODE_JUMP_IF_FALSE" => A[n + 1] = Tested(i, a)
  /\ i.code = "CODE_RET" /\ a.saved # <<>> => A[n + 1] = Returned(a)
  /\ i.code = "CODE_CALL" /\ Callees(fns, i.arg1) # {} => A[n + 1] = Entered(fns, i, a)
  /\ i.code \notin {"CODE_JUMP", "CODE_JUMP_IF_FALSE", "CODE_RET", "CODE_CALL"} =>
       A[n + 1] = Onward(a, Effect(i, a.s), m + 1)
  /\ i.code = "CODE_CALL" /\ Callees(fns, i.arg1) = {} =>
       A[n + 1] = Onward(a, Effect(i, a.s), m + 1)

LEMMA RunMoves ==
  ASSUME NEW fns, Fit(fns), NEW A, Runs(fns, A), NEW n \in Nat,
         NEW a, a = A[n], a.s.end = "none",
         NEW m \in Nat, a.at = m, m < Len(fns[a.fn].code), NEW i, i = fns[a.fn].code[m + 1]
  PROVE  Moves(fns, A, n, a, m, i)
<1>1. At(fns, a) = i
  BY DEF At
<1>2. ~Stuck(fns, a)
  <2>1. a \in Machine(fns)
    BY DEF Runs
  <2>2. ~ (a.at >= Len(fns[a.fn].code))
    <3> DEFINE len == Len(fns[a.fn].code)
    <3>1. fns[a.fn].code \in Seq(Bytecode)
      BY <2>1, MachineParts DEF Fit
    <3>2. len \in Nat
      BY <3>1
    <3>3. m < len /\ a.at = m
      OBVIOUS
    <3> HIDE DEF len
    <3>4. ~ (a.at >= len)
      BY <3>2, <3>3
    <3>5. QED
      BY <3>4 DEF len
  <2>3. QED
    BY <2>2 DEF Stuck
<1>3. A[n + 1] = Moved(fns, a)
  BY DEF Runs
<1>4. Calls(fns, a) <=> i.code = "CODE_CALL" /\ Callees(fns, i.arg1) # {}
  BY <1>1 DEF Calls
<1>5. a.at = m
  OBVIOUS
<1>6. /\ i.code = "CODE_JUMP" => A[n + 1] = Onward(a, a.s, i.arg2)
      /\ i.code = "CODE_JUMP_IF_FALSE" => A[n + 1] = Tested(i, a)
      /\ i.code = "CODE_RET" /\ a.saved # <<>> => A[n + 1] = Returned(a)
      /\ i.code = "CODE_CALL" /\ Callees(fns, i.arg1) # {} => A[n + 1] = Entered(fns, i, a)
      /\ i.code \notin {"CODE_JUMP", "CODE_JUMP_IF_FALSE", "CODE_RET", "CODE_CALL"} =>
           A[n + 1] = Onward(a, Effect(i, a.s), m + 1)
      /\ i.code = "CODE_CALL" /\ Callees(fns, i.arg1) = {} =>
           A[n + 1] = Onward(a, Effect(i, a.s), m + 1)
  BY <1>1, <1>2, <1>3, <1>4, <1>5 DEF Moved
<1>7. QED
  BY <1>6 DEF Moves

\* In the code of a function, after what has been reached: one more instruction.
LEMMA ArrivesNext ==
  ASSUME NEW fns, Fit(fns), NEW A, Runs(fns, A), NEW k \in Nat,
         NEW v, NEW m \in Nat, Arrives(A, k, v, m),
         NEW code, code = fns[A[k].fn].code, m < Len(code),
         NEW i, code[m + 1] = i,
         i.code \notin {"CODE_JUMP", "CODE_JUMP_IF_FALSE", "CODE_RET"},
         i.code = "CODE_CALL" => Callees(fns, i.arg1) = {}
  PROVE  Arrives(A, k, Unless(v, Effect(i, v)), m + 1)
<1>1. CASE v.end # "none"
  BY <1>1, ArrivesEnded DEF Unless
<1>2. CASE v.end = "none"
  <2>1. PICK n \in Nat : A[n] = Onward(A[k], v, m)
    BY <1>2, ArrivesAt
  <2>2. A[n].s = v /\ A[n].at = m /\ A[n].fn = A[k].fn
    BY <2>1 DEF Onward
  <2>3. A[n + 1] = Onward(A[n], Effect(i, v), m + 1)
    <3>1. A[n].s.end = "none" /\ A[n].at = m /\ m < Len(fns[A[n].fn].code)
          /\ i = fns[A[n].fn].code[m + 1]
      BY <1>2, <2>2
    <3>2. /\ i.code \notin {"CODE_JUMP", "CODE_JUMP_IF_FALSE", "CODE_RET", "CODE_CALL"} =>
               A[n + 1] = Onward(A[n], Effect(i, A[n].s), m + 1)
          /\ i.code = "CODE_CALL" /\ Callees(fns, i.arg1) = {} =>
               A[n + 1] = Onward(A[n], Effect(i, A[n].s), m + 1)
      <4> DEFINE a == A[n]
      <4>1. a = A[n]
        OBVIOUS
      <4> HIDE DEF a
      <4>2. a.s.end = "none" /\ a.at = m /\ m < Len(fns[a.fn].code) /\ i = fns[a.fn].code[m + 1]
        BY <3>1, <4>1
      <4>3. Moves(fns, A, n, a, m, i)
        BY <4>1, <4>2, RunMoves
      <4>4. QED
        BY <4>1, <4>3 DEF Moves
    <3>3. QED
      BY <2>2, <3>2
  <2>4. A[n + 1] = Onward(A[k], Effect(i, v), m + 1) /\ n + 1 \in Nat
    BY <2>1, <2>3 DEF Onward
  <2>5. A[n + 1] \in Machine(fns)
    BY <2>4 DEF Runs
  <2>6. A[n + 1].s = Effect(i, v) /\ A[n + 1].s \in EState
    BY <2>4, <2>5, MachineParts DEF Onward
  <2>7. Arrives(A, k, Effect(i, v), m + 1)
    BY <2>4, <2>6 DEF Arrives
  <2>8. QED
    BY <1>2, <2>7 DEF Unless
<1>3. QED
  BY <1>1, <1>2

\* What is done with the elements of a list, one after the other.
LEMMA ArrivesThrough ==
  ASSUME NEW fns, NEW A, Runs(fns, A), NEW k \in Nat,
         NEW f, NEW list, Len(list) \in Nat, NEW at,
         A[k].at = at[0],
         \A j \in 1 .. Len(list), n \in Nat :
           A[n].fn = A[k].fn /\ A[n].at = at[j - 1] /\ A[n].s.end = "none" =>
             Arrives(A, n, f[list[j]][A[n].s], at[j]),
         \A j \in 1 .. Len(list), s \in EState : s.end # "none" => f[list[j]][s] = s
  PROVE  Arrives(A, k, Through(f, list, A[k].s), at[Len(list)])
<1>1. PICK after : Passes(f, list, A[k].s, after)
  BY ThroughIs
<1> DEFINE Off == {j \in 0 .. Len(list) : ~Arrives(A, k, after[j], at[j])}
<1>2. Off = {}
  <2> SUFFICES ASSUME Off # {}
               PROVE  FALSE
    OBVIOUS
  <2>1. PICK j \in Off : \A i \in Off : j <= i
    <3>1. Off \in SUBSET Nat
      OBVIOUS
    <3>2. QED
      BY <3>1, TreesBy!Least
  <2>2. Arrives(A, k, after[0], at[0])
    BY <1>1, ArrivesNow DEF Passes
  <2>3. j # 0
    BY <2>1, <2>2
  <2> DEFINE g == j - 1
  <2>4. g \in Nat /\ g + 1 = j /\ g \in 0 .. Len(list) /\ g < j /\ j \in 1 .. Len(list) /\ g = j - 1
    BY <2>1, <2>3
  <2> HIDE DEF g
  <2>5. Arrives(A, k, after[g], at[g])
    BY <2>1, <2>4
  <2>6. after[j] = f[list[j]][after[g]]
    BY <1>1, <2>4 DEF Passes
  <2>7. CASE after[g].end = "none"
    <3>1. PICK n \in Nat : A[n] = Onward(A[k], after[g], at[g])
      BY <2>5, <2>7, ArrivesAt
    <3>2. A[n].s = after[g] /\ A[n].at = at[g] /\ A[n].fn = A[k].fn
      BY <3>1 DEF Onward
    <3>3. Arrives(A, n, after[j], at[j])
      BY <2>4, <2>6, <2>7, <3>2
    <3>4. QED
      BY <2>1, <3>1, <3>3, ArrivesTwice
  <2>8. CASE after[g].end # "none"
    <3>1. after[g] \in EState
      BY <2>5 DEF Arrives
    <3>2. after[j] = after[g]
      BY <2>4, <2>6, <2>8, <3>1
    <3>3. QED
      BY <2>1, <2>5, <2>8, <3>2, ArrivesEnded
  <2>9. QED
    BY <2>7, <2>8
<1>3. Len(list) \in 0 .. Len(list)
  OBVIOUS
<1>4. QED
  BY <1>1, <1>2, <1>3 DEF Passes
-----------------------------------------------------------------------------
(* Compiled code follows the evaluation of the tree it was made from: by   *)
(* induction on the depth of the evaluation, which cuts both off.          *)

\* Function k + 1 of fns was made from the k-th definition.
Linked(fns, defs) ==
  /\ Fit(fns)
  /\ defs \in Seq(Node)
  /\ Len(fns) = Len(defs) + 1
  /\ \A d \in DOMAIN defs : MadeFrom(fns[d + 1], defs[d])

\* An evaluation that has ended stays so.
Settled(f) == \A e \in Node, s \in EState : s.end # "none" => f[e][s] = s

\* Wherever a run comes to the code of a node, it does what f does with the node.
Follows(fns, A, f) ==
  \A e \in Node, k \in Nat : \A from, to :
    Spans(e, fns[A[k].fn].code, from, to) /\ A[k].at = from /\ A[k].s.end = "none" =>
      Arrives(A, k, f[e][A[k].s], to)

LEMMA FollowsAt ==
  ASSUME NEW fns, NEW A, NEW f, Follows(fns, A, f), NEW e \in Node, NEW k \in Nat,
         NEW code, code = fns[A[k].fn].code, NEW from, NEW to, Spans(e, code, from, to),
         A[k].at = from, A[k].s.end = "none"
  PROVE  Arrives(A, k, f[e][A[k].s], to)
BY DEF Follows

LEMMA ThroughEnded ==
  ASSUME NEW f, Settled(f), NEW list \in Seq(Node), NEW s \in EState, s.end # "none"
  PROVE  Through(f, list, s) = s
<1> DEFINE P == {s}
<1>1. s \in P /\ \A e \in Node, st \in P : f[e][st] \in P
  BY DEF Settled
<1>2. Through(f, list, s) \in P
  <2> HIDE DEF P
  <2>1. QED
    BY <1>1, ThroughKeeps
<1>3. QED
  BY <1>2

\* After what has been reached, the code of a node.
LEMMA ArrivesBehind ==
  ASSUME NEW fns, NEW A, NEW f, Follows(fns, A, f), Settled(f), NEW k \in Nat,
         NEW v, NEW m, Arrives(A, k, v, m),
         NEW code, code = fns[A[k].fn].code,
         NEW e \in Node, NEW to, Spans(e, code, m, to)
  PROVE  Arrives(A, k, f[e][v], to)
<1>1. CASE v.end # "none"
  <2>1. f[e][v] = v
    BY <1>1 DEF Arrives, Settled
  <2>2. QED
    BY <1>1, <2>1, ArrivesEnded
<1>2. CASE v.end = "none"
  <2>1. PICK n \in Nat : A[n] = Onward(A[k], v, m)
    BY <1>2, ArrivesAt
  <2>2. A[n].s = v /\ A[n].at = m /\ A[n].fn = A[k].fn
    BY <2>1 DEF Onward
  <2>3. Arrives(A, n, f[e][A[n].s], to)
    BY <1>2, <2>2, FollowsAt
  <2>4. QED
    BY <2>1, <2>2, <2>3, ArrivesTwice
<1>3. QED
  BY <1>1, <1>2

\* After what has been reached, the code of a list.
LEMMA ListArrives ==
  ASSUME NEW fns, NEW A, Runs(fns, A), NEW f, Follows(fns, A, f), Settled(f), NEW k \in Nat,
         NEW v, NEW m, Arrives(A, k, v, m),
         NEW code, code = fns[A[k].fn].code,
         NEW list \in Seq(Node), NEW to, ListSpans(list, code, m, to)
  PROVE  Arrives(A, k, Through(f, list, v), to)
<1>1. CASE v.end # "none"
  <2>1. v \in EState
    BY DEF Arrives
  <2>2. Through(f, list, v) = v
    BY <1>1, <2>1, ThroughEnded
  <2>3. QED
    BY <1>1, <2>2, ArrivesEnded
<1>2. CASE v.end = "none"
  <2>1. PICK n \in Nat : A[n] = Onward(A[k], v, m)
    BY <1>2, ArrivesAt
  <2>2. A[n].s = v /\ A[n].at = m /\ A[n].fn = A[k].fn
    BY <2>1 DEF Onward
  <2>3. PICK at : Places(list, code, m, to, at)
    BY SpansList
  <2>4. Len(list) \in Nat /\ \A j \in 1 .. Len(list) : list[j] \in Node
    OBVIOUS
  <2>5. /\ at[0] = m /\ at[Len(list)] = to
        /\ \A j \in 1 .. Len(list) : Spans(list[j], code, at[j - 1], at[j])
    BY <2>3 DEF Places
  <2>6. ASSUME NEW j \in 1 .. Len(list), NEW i \in Nat,
               A[i].fn = A[n].fn, A[i].at = at[j - 1], A[i].s.end = "none"
        PROVE  Arrives(A, i, f[list[j]][A[i].s], at[j])
    <3> DEFINE e == list[j]
               from == at[j - 1]
               upto == at[j]
    <3>1. e \in Node /\ Spans(e, code, from, upto) /\ A[i].at = from
      BY <2>4, <2>5, <2>6
    <3>2. code = fns[A[i].fn].code
      BY <2>2, <2>6
    <3>3. A[i].s.end = "none"
      BY <2>6
    <3> HIDE DEF e, from, upto
    <3>4. Arrives(A, i, f[e][A[i].s], upto)
      BY <3>1, <3>2, <3>3, FollowsAt
    <3>5. QED
      BY <3>4 DEF e, upto
  <2>7. \A j \in 1 .. Len(list), s \in EState : s.end # "none" => f[list[j]][s] = s
    BY <2>4 DEF Settled
  <2>8. A[n].at = at[0]
    BY <2>2, <2>5
  <2>9. Arrives(A, n, Through(f, list, A[n].s), at[Len(list)])
    BY <2>4, <2>6, <2>7, <2>8, ArrivesThrough
  <2>10. Arrives(A, n, Through(f, list, v), to)
    BY <2>2, <2>5, <2>9
  <2>11. QED
    BY <2>1, <2>10, ArrivesTwice
<1>3. QED
  BY <1>1, <1>2

\* A jump after what has been reached.
LEMMA ArrivesJumping ==
  ASSUME NEW fns, Fit(fns), NEW A, Runs(fns, A), NEW k \in Nat,
         NEW v, NEW m \in Nat, Arrives(A, k, v, m),
         NEW code, code = fns[A[k].fn].code, m < Len(code),
         NEW i, code[m + 1] = i, i.code = "CODE_JUMP"
  PROVE  Arrives(A, k, v, i.arg2)
<1>1. CASE v.end # "none"
  BY <1>1, ArrivesEnded
<1>2. CASE v.end = "none"
  <2>1. PICK n \in Nat : A[n] = Onward(A[k], v, m)
    BY <1>2, ArrivesAt
  <2> DEFINE a == A[n]
  <2>2. a = A[n] /\ a.s = v /\ a.at = m /\ a.fn = A[k].fn
    BY <2>1 DEF Onward
  <2> HIDE DEF a
  <2>3. a.s.end = "none" /\ a.at = m /\ m < Len(fns[a.fn].code) /\ i = fns[a.fn].code[m + 1]
    BY <1>2, <2>2
  <2>4. Moves(fns, A, n, a, m, i)
    BY <2>2, <2>3, RunMoves
  <2>5. A[n + 1] = Onward(a, a.s, i.arg2)
    BY <2>4 DEF Moves
  <2>6. A[n + 1] = Onward(A[k], v, i.arg2) /\ n + 1 \in Nat
    BY <2>1, <2>2, <2>5 DEF Onward
  <2>7. A[n + 1].s = v /\ v \in EState
    BY <2>6 DEF Onward, Arrives
  <2>8. QED
    BY <2>6, <2>7 DEF Arrives
<1>3. QED
  BY <1>1, <1>2

\* A test after what has been reached: if the condition holds the run goes on
\* behind it, and if it fails at `to`.
LEMMA ArrivesTesting ==
  ASSUME NEW fns, Fit(fns), NEW A, Runs(fns, A), NEW k \in Nat,
         NEW v, NEW m \in Nat, Arrives(A, k, v, m),
         NEW code, code = fns[A[k].fn].code, m < Len(code),
         NEW i, code[m + 1] = i, i.code = "CODE_JUMP_IF_FALSE",
         NEW to \in Nat, m + 1 + i.arg2 = to,
         NEW taken,
         Arrives(A, k, Pop(v), m + 1) => Arrives(A, k, taken, to)
  PROVE  Arrives(A, k, Unless(v, Branch(v, taken)), to)
<1>1. CASE v.end # "none"
  BY <1>1, ArrivesEnded DEF Unless
<1>2. CASE v.end = "none"
  <2> DEFINE x == PopValue(v)
             over == i.arg2
  <2>2. m + 1 + over = to /\ m + 1 + 0 = m + 1 /\ m + 1 \in Nat
    OBVIOUS
  <2>4. PICK n \in Nat : A[n] = Onward(A[k], v, m)
    BY <1>2, ArrivesAt
  <2> DEFINE a == A[n]
  <2>5. a = A[n] /\ a.s = v /\ a.at = m /\ a.fn = A[k].fn
    BY <2>4 DEF Onward
  <2>6. i = fns[a.fn].code[m + 1]
    BY <2>5
  <2> HIDE DEF a
  <2>7. a.s.end = "none" /\ a.at = m /\ m < Len(fns[a.fn].code)
    BY <1>2, <2>5
  <2>8. Moves(fns, A, n, a, m, i)
    BY <2>5, <2>6, <2>7, RunMoves
  <2>9. A[n + 1] = Tested(i, a) /\ n + 1 \in Nat
    BY <2>8 DEF Moves
  <2>10. v \in EState
    BY DEF Arrives
  <2>11. Unless(v, Branch(v, taken)) = Branch(v, taken)
    BY <1>2 DEF Unless
  <2>12. ASSUME NEW e \in {"null", "TypeErr"}, A[n + 1] = Onward(a, Ended(v, e), m)
         PROVE  Arrives(A, k, Ended(v, e), to)
    <3>1. e \in Endings /\ e # "none"
      BY DEF Endings
    <3>2. Ended(v, e) \in EState /\ Ended(v, e).end = e
      BY <2>10, <3>1, EndedIs
    <3>3. A[n + 1].s = Ended(v, e)
      BY <2>12 DEF Onward
    <3>4. QED
      BY <2>9, <3>1, <3>2, <3>3 DEF Arrives
  <2>13. ASSUME NEW p, A[n + 1] = Onward(a, Pop(v), p)
         PROVE  Arrives(A, k, Pop(v), p)
    <3>1. A[n + 1] = Onward(A[k], Pop(v), p)
      BY <2>4, <2>5, <2>13 DEF Onward
    <3>2. A[n + 1].s = Pop(v) /\ Pop(v) \in EState /\ Pop(v).end = "none"
      BY <1>2, <2>10, <3>1, PopIs DEF Onward, SameOut
    <3>3. QED
      BY <2>9, <3>1, <3>2 DEF Arrives
  <2>14. Branch(v, taken) =
           IF x.type = "null" THEN Ended(v, "null")
           ELSE IF x.type # "TYPE_BOOLEAN" THEN Ended(v, "TypeErr")
           ELSE IF x.num = 1 THEN taken
           ELSE Pop(v)
    BY DEF Branch
  <2>15. Tested(i, a) =
           IF x.type = "null" THEN Onward(a, Ended(v, "null"), m)
           ELSE IF x.type # "TYPE_BOOLEAN" THEN Onward(a, Ended(v, "TypeErr"), m)
           ELSE Onward(a, Pop(v), m + 1 + (IF x.num = 1 THEN 0 ELSE over))
    BY <2>5 DEF Tested
  <2> HIDE DEF x, over
  <2>16. CASE x.type = "null"
    BY <2>9, <2>11, <2>12, <2>14, <2>15, <2>16
  <2>17. CASE x.type # "null" /\ x.type # "TYPE_BOOLEAN"
    BY <2>9, <2>11, <2>12, <2>14, <2>15, <2>17
  <2>18. CASE x.type = "TYPE_BOOLEAN" /\ x.num = 1
    <3>1. A[n + 1] = Onward(a, Pop(v), m + 1)
      BY <2>2, <2>9, <2>15, <2>18
    <3>2. Arrives(A, k, Pop(v), m + 1)
      BY <2>13, <3>1
    <3>3. QED
      BY <2>11, <2>14, <2>18, <3>2
  <2>19. CASE x.type = "TYPE_BOOLEAN" /\ x.num # 1
    <3>1. A[n + 1] = Onward(a, Pop(v), to)
      BY <2>2, <2>9, <2>15, <2>19
    <3>2. Arrives(A, k, Pop(v), to)
      BY <2>13, <3>1
    <3>3. QED
      BY <2>11, <2>14, <2>19, <3>2
  <2>20. QED
    BY <2>16, <2>17, <2>18, <2>19
<1>3. QED
  BY <1>1, <1>2
-----------------------------------------------------------------------------
(* The call of a function.                                                 *)

\* The function that is called is the one that was made from the definition
\* that counts.
LEMMA CalleeDefined ==
  ASSUME NEW fns, NEW defs, Linked(fns, defs), NEW name \in Identifier,
         NEW named, named = {d \in DOMAIN defs : defs[d].name = name}
  PROVE  /\ named = {} <=> Callees(fns, name) = {}
         /\ named # {} =>
              LET d == CHOOSE d \in named : \A c \in named : d <= c
              IN  d \in DOMAIN defs /\ Callee(fns, name) = d + 1
<1>1. /\ fns \in Seq(fn_blob_t)
      /\ defs \in Seq(Node) /\ Len(fns) = Len(defs) + 1
      /\ \A d \in DOMAIN defs : fns[d + 1].name = defs[d].name
  BY DEF Linked, Fit, MadeFrom
<1>2. DOMAIN defs = 1 .. Len(defs) /\ DOMAIN fns = 1 .. Len(defs) + 1 /\ Len(defs) \in Nat
  BY <1>1
<1>0. fns[1].name # name
  BY DEF Linked, Fit, Identifier
<1>3. \A d \in named : d \in DOMAIN defs /\ d \in Nat /\ d + 1 \in Callees(fns, name)
  BY <1>1, <1>2 DEF Callees
<1>4. ASSUME NEW f \in Callees(fns, name)
      PROVE  f \in Nat /\ f - 1 \in named /\ (f - 1) + 1 = f
  <2>1. f \in DOMAIN fns /\ fns[f].name = name /\ f # 1
    BY <1>0, <1>1, <1>4 DEF Callees
  <2>2. f \in Nat /\ f - 1 \in DOMAIN defs /\ (f - 1) + 1 = f
    BY <1>2, <2>1
  <2>3. QED
    BY <1>1, <2>1, <2>2
<1>5. ASSUME named # {}
      PROVE  LET d == CHOOSE d \in named : \A c \in named : d <= c
             IN  d \in DOMAIN defs /\ Callee(fns, name) = d + 1
  <2> DEFINE d == CHOOSE d \in named : \A c \in named : d <= c
  <2>1. \E n \in named : \A c \in named : n <= c
    <3>1. named \in SUBSET Nat
      BY <1>3
    <3>2. QED
      BY <1>5, <3>1, TreesBy!Least
  <2>2. d \in named /\ \A c \in named : d <= c
    BY <2>1
  <2> HIDE DEF d
  <2>3. Callees(fns, name) # {}
    BY <1>3, <2>2
  <2> DEFINE f == Callee(fns, name)
  <2>4. f \in Callees(fns, name) /\ \A g \in Callees(fns, name) : f <= g
    BY <1>1, <2>3, CalleeIs
  <2> HIDE DEF f
  <2>5. f <= d + 1
    BY <1>3, <2>2, <2>4
  <2>6. d <= f - 1
    BY <1>4, <2>2, <2>4
  <2>7. f \in Nat /\ d \in Nat
    BY <1>3, <1>4, <2>2, <2>4
  <2>8. f = d + 1
    BY <2>5, <2>6, <2>7
  <2>9. QED
    BY <1>3, <2>2, <2>8 DEF d, f
<1>6. QED
  BY <1>3, <1>4, <1>5

\* A parameter after the other gets its value.
LEMMA ParametersArrive ==
  ASSUME NEW fns, Fit(fns), NEW A, Runs(fns, A), NEW k \in Nat,
         NEW code, code = fns[A[k].fn].code, A[k].at = 0,
         NEW params \in Seq(Name), Len(params) < Len(code),
         \A j \in 1 .. Len(params) :
           code[j].code = "CODE_ASSIGN" /\ code[j].arg1 = params[j]
  PROVE  Arrives(A, k, Through(Binding, params, A[k].s), Len(params))
<1> DEFINE at == [j \in Nat |-> j]
<1>1. Len(params) \in Nat /\ (\A j \in 1 .. Len(params) : params[j] \in Name)
  OBVIOUS
<1>2. at[0] = 0 /\ at[Len(params)] = Len(params)
      /\ \A j \in 1 .. Len(params) : at[j] = j /\ at[j - 1] = j - 1
  BY <1>1
<1> HIDE DEF at
<1>3. Len(code) \in Nat
  <2>1. A[k] \in Machine(fns)
    BY DEF Runs
  <2>2. code \in Seq(Bytecode)
    BY <2>1, MachineParts DEF Fit
  <2>3. QED
    BY <2>2
<1>4. ASSUME NEW j \in 1 .. Len(params), NEW n \in Nat,
             A[n].fn = A[k].fn, A[n].at = at[j - 1], A[n].s.end = "none"
      PROVE  Arrives(A, n, Binding[params[j]][A[n].s], at[j])
  <2> DEFINE m == j - 1
             i == code[m + 1]
             v == A[n].s
             x == params[j]
  <2>1. m \in Nat /\ m + 1 = j /\ m < Len(code) /\ A[n].at = m /\ at[j] = m + 1
    BY <1>1, <1>2, <1>3, <1>4
  <2>2. i.code = "CODE_ASSIGN" /\ i.arg1 = x /\ x \in Name
    BY <1>1, <2>1
  <2>3. code = fns[A[n].fn].code /\ code[m + 1] = i
    BY <1>4
  <2>4. v \in EState /\ Arrives(A, n, v, m)
    <3>1. Arrives(A, n, A[n].s, A[n].at)
      BY ArrivesNow
    <3>2. QED
      BY <2>1, <3>1 DEF Arrives
  <2>5. i.code \notin {"CODE_JUMP", "CODE_JUMP_IF_FALSE", "CODE_RET"} /\ i.code # "CODE_CALL"
    BY <2>2
  <2>6. Effect(i, v) = Bind(v, x)
    BY <2>2 DEF Effect, PushCodes, ArithmeticCodes
  <2>7. Binding[x][v] = Unless(v, Bind(v, x))
    BY <2>2, <2>4, BindIs
  <2> HIDE DEF m, i, v
  <2>8. Arrives(A, n, Unless(v, Effect(i, v)), m + 1)
    BY <2>1, <2>3, <2>4, <2>5, ArrivesNext
  <2>9. QED
    BY <2>1, <2>6, <2>7, <2>8 DEF v
<1>5. ASSUME NEW j \in 1 .. Len(params), NEW s \in EState, s.end # "none"
      PROVE  Binding[params[j]][s] = s
  BY <1>1, <1>5, BindIs DEF Unless
<1>6. A[k].at = at[0]
  BY <1>2
<1>7. Arrives(A, k, Through(Binding, params, A[k].s), at[Len(params)])
  BY <1>1, <1>4, <1>5, <1>6, ArrivesThrough
<1>8. QED
  BY <1>2, <1>7

\* From the first instruction of a function to the return, as CallOf has it.
Completes(A, k, f, params, block, code) ==
  /\ Len(code) - 1 \in Nat /\ (Len(code) - 1) + 1 = Len(code)
  /\ code[Len(code)].code = "CODE_RET"
  /\ Arrives(A, k, Through(f, block, Through(Binding, params, A[k].s)), Len(code) - 1)

LEMMA BodyArrives ==
  ASSUME NEW fns, Fit(fns), NEW A, Runs(fns, A), NEW f, Follows(fns, A, f), Settled(f),
         NEW k \in Nat, NEW code, code = fns[A[k].fn].code, A[k].at = 0,
         NEW params \in Seq(Name), NEW block \in Seq(Node), BodyOf(params, block, code)
  PROVE  Completes(A, k, f, params, block, code)
<1>1. /\ code \in Seq(Bytecode)
      /\ Len(code) - 1 \in Nat
      /\ code[Len(code)] = Return
      /\ Len(params) <= Len(code) - 1
      /\ \A j \in 1 .. Len(params) : code[j] = instr("CODE_ASSIGN", params[j], 0)
      /\ ListSpans(block, code, Len(params), Len(code) - 1)
  BY BodySpans
<1>2. Len(code) \in Nat /\ Len(params) < Len(code) /\ (Len(code) - 1) + 1 = Len(code)
  BY <1>1
<1>3. \A j \in 1 .. Len(params) : code[j].code = "CODE_ASSIGN" /\ code[j].arg1 = params[j]
  <2> SUFFICES ASSUME NEW j \in 1 .. Len(params)
               PROVE  code[j].code = "CODE_ASSIGN" /\ code[j].arg1 = params[j]
    OBVIOUS
  <2> DEFINE i == code[j]
  <2>1. i = instr("CODE_ASSIGN", params[j], 0)
    BY <1>1
  <2> HIDE DEF i
  <2>2. i.code = "CODE_ASSIGN" /\ i.arg1 = params[j]
    BY <2>1 DEF instr
  <2>3. QED
    BY <2>2 DEF i
<1>4. code[Len(code)].code = "CODE_RET"
  <2>1. code[Len(code)] = Return
    BY <1>1
  <2>2. QED
    BY <2>1, JumpsAre
<1>5. Arrives(A, k, Through(Binding, params, A[k].s), Len(params))
  BY <1>2, <1>3, ParametersArrive
<1>6. ListSpans(block, code, Len(params), Len(code) - 1)
  BY <1>1
<1> DEFINE v == Through(Binding, params, A[k].s)
           m == Len(params)
           to == Len(code) - 1
<1>7. Arrives(A, k, v, m) /\ ListSpans(block, code, m, to)
  BY <1>5, <1>6
<1> HIDE DEF v, m, to
<1>8. Arrives(A, k, Through(f, block, v), to)
  BY <1>7, ListArrives
<1>9. QED
  BY <1>1, <1>2, <1>4, <1>8 DEF v, to, Completes
\* The parts of a node.
LEMMA NodesParts ==
  ASSUME NEW e \in Node
  PROVE  /\ e.t = "NASSIGNMENT" => e.name \in Name /\ e.val \in Node
         /\ e.t = "NARRAY" => e.array \in Seq(Node)
         /\ e.t = "NCALL" => e.name \in Identifier /\ e.args \in Seq(Node)
         /\ e.t = "NBINARYOP" => e.left \in Node /\ e.op \in DOMAIN OpCode /\ e.right \in Node
         /\ e.t = "NLOOKUP" => e.name \in Name
         /\ e.t \in {"NIFSTRUCTURE", "NWHILESTRUCTURE"} => e.expr \in Node /\ e.block \in Seq(Node)
         /\ e.t = "NFUNCDEF" =>
              e.name \in Identifier /\ e.params \in Seq(Name) /\ e.block \in Seq(Node)
         /\ e.t \in {"NASSIGNMENT", "NINTEGER", "NDOUBLE", "NSTRING", "NBOOL", "NARRAY",
                     "NCALL", "NBINARYOP", "NLOOKUP", "NIFSTRUCTURE", "NWHILESTRUCTURE",
                     "NFUNCDEF", "NANONFUNCDEF"}
<1>1. PICK T : Node \subseteq NExpression(T) /\ T \subseteq Node
  BY NodesAre
<1>2. e \in NExpression(T) /\ (\A x : x \in Seq(T) => x \in Seq(Node))
  BY <1>1
<1>3. QED
  BY <1>1, <1>2, NodeParts

\* A call of a function that the program defines.
LEMMA ArrivesCalling ==
  ASSUME NEW fns, NEW defs, Linked(fns, defs), NEW A, Runs(fns, A),
         NEW f, Follows(fns, A, f), Settled(f), NEW k \in Nat,
         NEW v, NEW m \in Nat, Arrives(A, k, v, m), v.end = "none",
         NEW code, code = fns[A[k].fn].code, m < Len(code),
         NEW i, code[m + 1] = i, i.code = "CODE_CALL", Callees(fns, i.arg1) # {},
         NEW d \in DOMAIN defs, Callee(fns, i.arg1) = d + 1
  PROVE  Arrives(A, k, CallOf(f, defs[d], v), m + 1)
<1> DEFINE e == defs[d]
           params == e.params
           block == e.block
           body == fns[d + 1].code
           inside == [v EXCEPT !.table = NoVariables]
<1>1. Fit(fns) /\ e \in Node /\ e.t = "NFUNCDEF" /\ BodyOf(params, block, body)
  BY DEF Linked, MadeFrom
<1>2. params \in Seq(Name) /\ block \in Seq(Node)
  <2> HIDE DEF e
  <2>1. QED
    BY <1>1, NodesParts
<1>3. v \in EState
  BY DEF Arrives
<1>4. inside \in EState /\ inside.end = "none"
  BY <1>3 DEF EState, NoVariables, Variables
<1>5. PICK n \in Nat : A[n] = Onward(A[k], v, m)
  BY ArrivesAt
<1> DEFINE a == A[n]
<1>6. a = A[n] /\ a.s = v /\ a.at = m /\ a.fn = A[k].fn /\ a.saved = A[k].saved
  BY <1>5 DEF Onward
<1> HIDE DEF a, e, params, block, body, inside
<1>7. a.s.end = "none" /\ a.at = m /\ m < Len(fns[a.fn].code) /\ i = fns[a.fn].code[m + 1]
  BY <1>6
<1>8. Moves(fns, A, n, a, m, i)
  BY <1>1, <1>6, <1>7, RunMoves
<1> DEFINE g == n + 1
           from == [table |-> v.table, fn |-> A[k].fn, addr |-> m + 1]
           b == A[g]
<1>9. b = [s |-> inside, fn |-> d + 1, at |-> 0, saved |-> Append(A[k].saved, from)]
  <2>1. b = Entered(fns, i, a)
    BY <1>8 DEF Moves
  <2>2. QED
    BY <1>6, <2>1 DEF Entered, inside
<1>10. g \in Nat /\ b = A[g] /\ b.s = inside /\ b.fn = d + 1 /\ b.at = 0
       /\ b.saved = Append(A[k].saved, from)
  BY <1>9
<1> DEFINE w == Through(f, block, Through(Binding, params, inside))
           last == Len(body) - 1
<1> HIDE DEF g, from, b
<1>11. /\ last \in Nat /\ last + 1 = Len(body) /\ body[Len(body)].code = "CODE_RET"
       /\ Arrives(A, g, w, last)
  <2>1. body = fns[A[g].fn].code /\ A[g].at = 0 /\ A[g].s = inside
    BY <1>10 DEF body
  <2>2. Completes(A, g, f, params, block, body)
    BY <1>1, <1>2, <1>10, <2>1, BodyArrives
  <2>3. QED
    BY <2>1, <2>2 DEF Completes
<1> DEFINE r == [w EXCEPT !.table = v.table]
<1>12. CallOf(f, defs[d], v) = r
  BY DEF CallOf, w, e, params, block, inside
<1> HIDE DEF w
<1>13. w \in EState
  BY <1>11 DEF Arrives
<1>14. r \in EState /\ r.out = w.out /\ r.end = w.end
  BY <1>3, <1>13 DEF EState
<1>15. CASE w.end # "none"
  <2>1. Arrives(A, k, r, m + 1)
    BY <1>11, <1>14, <1>15 DEF Arrives
  <2>2. QED
    BY <1>12, <2>1
<1>16. CASE w.end = "none"
  <2> HIDE DEF r, last
  <2>1. PICK j \in Nat : A[j] = Onward(A[g], w, last)
    BY <1>11, <1>16, ArrivesAt
  <2> DEFINE c == A[j]
             ret == body[last + 1]
  <2>2. c = A[j] /\ c.s = w /\ c.at = last /\ c.fn = d + 1
        /\ c.saved = Append(A[k].saved, from)
    BY <1>10, <2>1 DEF Onward
  <2>3. ret = fns[c.fn].code[last + 1] /\ ret.code = "CODE_RET"
    BY <1>11, <2>2 DEF body
  <2>4. last < Len(fns[c.fn].code)
    <3>1. last < last + 1
      BY <1>11
    <3>2. QED
      BY <1>11, <2>2, <3>1 DEF body
  <2> HIDE DEF c, ret
  <2>5. Moves(fns, A, j, c, last, ret)
    BY <1>1, <1>11, <1>16, <2>2, <2>3, <2>4, RunMoves
  <2>6. A[k] \in Machine(fns) /\ A[k].saved \in Seq(Caller(fns))
    BY MachineParts DEF Runs
  <2>7. c.saved # <<>> /\ Len(c.saved) = Len(A[k].saved) + 1 /\ c.saved[Len(c.saved)] = from
        /\ SubSeq(c.saved, 1, Len(c.saved) - 1) = A[k].saved
    <3> DEFINE saved == A[k].saved
    <3>1. saved \in Seq(Caller(fns)) /\ c.saved = Append(saved, from)
      BY <2>2, <2>6
    <3> HIDE DEF saved
    <3>2. Len(saved) \in Nat /\ Len(Append(saved, from)) = Len(saved) + 1
          /\ Append(saved, from)[Len(saved) + 1] = from
      BY <3>1
    <3>3. Append(saved, from) # <<>>
      BY <3>1, <3>2
    <3>4. SubSeq(Append(saved, from), 1, Len(saved)) = saved
      <4>1. SubSeq(Append(saved, from), 1, Len(saved)) =
              [x \in 1 .. Len(saved) |-> Append(saved, from)[x]]
        BY <3>1, <3>2
      <4>2. \A x \in 1 .. Len(saved) : Append(saved, from)[x] = saved[x]
        BY <3>1
      <4>3. QED
        BY <3>1, <4>1, <4>2
    <3>5. (Len(saved) + 1) - 1 = Len(saved)
      BY <3>2
    <3>6. QED
      BY <3>1, <3>2, <3>3, <3>4, <3>5 DEF saved
  <2>8. A[j + 1] = Returned(c)
    BY <2>3, <2>5, <2>7 DEF Moves
  <2>9. from.table = v.table /\ from.fn = A[k].fn /\ from.addr = m + 1
    BY DEF from
  <2>10. A[j + 1] = Onward(A[k], r, m + 1)
    BY <2>2, <2>7, <2>8, <2>9 DEF Returned, Onward, r
  <2>11. A[j + 1].s = r /\ j + 1 \in Nat
    BY <2>10 DEF Onward
  <2>12. Arrives(A, k, r, m + 1)
    BY <1>14, <1>16, <2>10, <2>11 DEF Arrives
  <2>13. QED
    BY <1>12, <2>12
<1>17. QED
  BY <1>15, <1>16

\* A call of whatever.
LEMMA ArrivesCall ==
  ASSUME NEW fns, NEW defs, Linked(fns, defs), NEW A, Runs(fns, A),
         NEW f, Follows(fns, A, f), Settled(f), NEW k \in Nat,
         NEW v, NEW m \in Nat, Arrives(A, k, v, m),
         NEW code, code = fns[A[k].fn].code, m < Len(code),
         NEW i, code[m + 1] = i, i.code = "CODE_CALL",
         NEW name \in Identifier, i.arg1 = name, NEW n, i.arg2 = n
  PROVE  Arrives(A, k, Unless(v, Call(f, defs, v, name, n)), m + 1)
<1> DEFINE named == {d \in DOMAIN defs : defs[d].name = name}
           d == CHOOSE d \in named : \A c \in named : d <= c
<1>1. named = {d2 \in DOMAIN defs : defs[d2].name = name}
  OBVIOUS
<1>2. Call(f, defs, v, name, n) =
        IF named = {} THEN Native(v, name, n) ELSE CallOf(f, defs[d], v)
  BY DEF Call
<1> HIDE DEF named
<1>3. /\ named = {} <=> Callees(fns, name) = {}
      /\ named # {} => d \in DOMAIN defs /\ Callee(fns, name) = d + 1
  BY <1>1, CalleeDefined
<1> HIDE DEF d
<1>4. CASE named = {}
  <2>1. Effect(i, v) = Native(v, name, n)
    BY DEF Effect, PushCodes, ArithmeticCodes
  <2>2. i.code \notin {"CODE_JUMP", "CODE_JUMP_IF_FALSE", "CODE_RET"}
        /\ Callees(fns, i.arg1) = {}
    BY <1>3, <1>4
  <2>3. Fit(fns)
    BY DEF Linked
  <2>4. Arrives(A, k, Unless(v, Effect(i, v)), m + 1)
    BY <2>2, <2>3, ArrivesNext
  <2>5. QED
    BY <1>2, <1>4, <2>1, <2>4
<1>5. CASE named # {} /\ v.end # "none"
  BY <1>5, ArrivesEnded DEF Unless
<1>6. CASE named # {} /\ v.end = "none"
  <2>1. Callees(fns, i.arg1) # {} /\ d \in DOMAIN defs /\ Callee(fns, i.arg1) = d + 1
    BY <1>3, <1>6
  <2>2. Arrives(A, k, CallOf(f, defs[d], v), m + 1)
    BY <1>6, <2>1, ArrivesCalling
  <2>3. QED
    BY <1>2, <1>6, <2>2 DEF Unless
<1>7. QED
  BY <1>4, <1>5, <1>6
-----------------------------------------------------------------------------
(* One node, given the nodes in it.                                        *)

LEMMA EvalNodeIs ==
  ASSUME NEW f, NEW defs, NEW e \in Node, NEW s
  PROVE  /\ e.t = "NINTEGER" => EvalNode(f, defs, e, s) = Push(s, Scalar(IntValue(e.integer)))
         /\ e.t = "NDOUBLE" => EvalNode(f, defs, e, s) = Push(s, Scalar(FloatValue(e.tdouble)))
         /\ e.t = "NSTRING" => EvalNode(f, defs, e, s) = Push(s, Scalar(StrValue(e.string)))
         /\ e.t = "NBOOL" => EvalNode(f, defs, e, s) = Push(s, Scalar(BoolValue(e.tbool)))
         /\ e.t = "NANONFUNCDEF" => EvalNode(f, defs, e, s) = Push(s, Scalar(FnRefValue(0)))
         /\ e.t = "NFUNCDEF" => EvalNode(f, defs, e, s) = s
         /\ e.t = "NLOOKUP" => EvalNode(f, defs, e, s) = LookupName(s, e.name)
         /\ e.t = "NASSIGNMENT" => EvalNode(f, defs, e, s) = Binding[e.name][f[e.val][s]]
         /\ e.t = "NARRAY" =>
              EvalNode(f, defs, e, s) =
                Unless(Through(f, e.array, s), MakeArray(Through(f, e.array, s), Len(e.array)))
         /\ e.t = "NCALL" =>
              EvalNode(f, defs, e, s) =
                Unless(Through(f, e.args, s),
                       Call(f, defs, Through(f, e.args, s), e.name, Len(e.args)))
         /\ e.t = "NBINARYOP" =>
              EvalNode(f, defs, e, s) =
                Unless(f[e.right][f[e.left][s]], Apply(f[e.right][f[e.left][s]], OpCode[e.op]))
         /\ e.t = "NIFSTRUCTURE" =>
              EvalNode(f, defs, e, s) =
                Unless(f[e.expr][s], Branch(f[e.expr][s], Through(f, e.block, Pop(f[e.expr][s]))))
         /\ e.t = "NWHILESTRUCTURE" =>
              EvalNode(f, defs, e, s) =
                Unless(f[e.expr][s],
                       Branch(f[e.expr][s], f[e][Through(f, e.block, Pop(f[e.expr][s]))]))
BY DEF EvalNode

\* What the instructions of the leaves and of the others do.
LEMMA EffectIs ==
  ASSUME NEW i, NEW s
  PROVE  /\ i.code = "CODE_PUSH_INT" => Effect(i, s) = Push(s, Scalar(IntValue(i.arg2)))
         /\ i.code = "CODE_PUSH_FLOAT" => Effect(i, s) = Push(s, Scalar(FloatValue(i.arg1)))
         /\ i.code = "CODE_PUSH_STR" => Effect(i, s) = Push(s, Scalar(StrValue(i.arg1)))
         /\ i.code = "CODE_PUSH_BOOL" => Effect(i, s) = Push(s, Scalar(BoolValue(i.arg2 = 1)))
         /\ i.code = "CODE_PUSH_FN" => Effect(i, s) = Push(s, Scalar(FnRefValue(0)))
         /\ i.code = "CODE_PUSH_ARRAY" => Effect(i, s) = MakeArray(s, i.arg2)
         /\ i.code \in ArithmeticCodes => Effect(i, s) = Apply(s, i.code)
         /\ i.code = "CODE_PUSH_LOOKUP" => Effect(i, s) = LookupName(s, i.arg1)
         /\ i.code = "CODE_ASSIGN" => Effect(i, s) = Bind(s, i.arg1)
         /\ i.code = "CODE_CALL" => Effect(i, s) = Native(s, i.arg1, i.arg2)
<1>1. i.code = "CODE_PUSH_INT" => Meant(i) = IntValue(i.arg2)
  BY DEF Meant, Literal
<1>2. i.code = "CODE_PUSH_FLOAT" => Meant(i) = FloatValue(i.arg1)
  BY DEF Meant, Literal
<1>3. i.code = "CODE_PUSH_STR" => Meant(i) = StrValue(i.arg1)
  BY DEF Meant, Literal
<1>4. i.code = "CODE_PUSH_BOOL" => Meant(i) = BoolValue(i.arg2 = 1)
  BY DEF Meant, Literal
<1>5. i.code = "CODE_PUSH_FN" => Meant(i) = FnRefValue(0)
  BY DEF Meant
<1>6. i.code \in PushCodes => Effect(i, s) = Push(s, Scalar(Meant(i)))
  BY DEF Effect
<1>7. /\ "CODE_PUSH_INT" \in PushCodes /\ "CODE_PUSH_FLOAT" \in PushCodes
      /\ "CODE_PUSH_STR" \in PushCodes /\ "CODE_PUSH_BOOL" \in PushCodes
      /\ "CODE_PUSH_FN" \in PushCodes
  BY DEF PushCodes
<1>8. i.code = "CODE_PUSH_INT" => Effect(i, s) = Push(s, Scalar(IntValue(i.arg2)))
  BY <1>1, <1>6, <1>7
<1>9. i.code = "CODE_PUSH_FLOAT" => Effect(i, s) = Push(s, Scalar(FloatValue(i.arg1)))
  BY <1>2, <1>6, <1>7
<1>10. i.code = "CODE_PUSH_STR" => Effect(i, s) = Push(s, Scalar(StrValue(i.arg1)))
  BY <1>3, <1>6, <1>7
<1>11. i.code = "CODE_PUSH_BOOL" => Effect(i, s) = Push(s, Scalar(BoolValue(i.arg2 = 1)))
  BY <1>4, <1>6, <1>7
<1>12. i.code = "CODE_PUSH_FN" => Effect(i, s) = Push(s, Scalar(FnRefValue(0)))
  BY <1>5, <1>6, <1>7
<1>13. /\ i.code = "CODE_PUSH_ARRAY" => Effect(i, s) = MakeArray(s, i.arg2)
       /\ i.code \in ArithmeticCodes => Effect(i, s) = Apply(s, i.code)
       /\ i.code = "CODE_PUSH_LOOKUP" => Effect(i, s) = LookupName(s, i.arg1)
       /\ i.code = "CODE_ASSIGN" => Effect(i, s) = Bind(s, i.arg1)
       /\ i.code = "CODE_CALL" => Effect(i, s) = Native(s, i.arg1, i.arg2)
  BY DEF Effect, PushCodes, ArithmeticCodes
<1>14. QED
  BY <1>8, <1>9, <1>10, <1>11, <1>12, <1>13

\* One instruction more, of which it is known what it does.
LEMMA ArrivesDoing ==
  ASSUME NEW fns, Fit(fns), NEW A, Runs(fns, A), NEW k \in Nat,
         NEW v, NEW m \in Nat, Arrives(A, k, v, m),
         NEW code, code = fns[A[k].fn].code, NEW to \in Nat, to = m + 1, to <= Len(code),
         NEW i, code[to] = i,
         i.code \notin {"CODE_JUMP", "CODE_JUMP_IF_FALSE", "CODE_RET", "CODE_CALL"},
         NEW r, r = Unless(v, Effect(i, v))
  PROVE  Arrives(A, k, r, to)
<1>1. m < Len(code)
  <2>1. A[k] \in Machine(fns)
    BY DEF Runs
  <2>2. code \in Seq(Bytecode)
    BY <2>1, MachineParts DEF Fit
  <2>3. Len(code) \in Nat
    BY <2>2
  <2>4. QED
    BY <2>3
<1>2. code[m + 1] = i
  OBVIOUS
<1>3. Arrives(A, k, Unless(v, Effect(i, v)), m + 1)
  BY <1>1, <1>2, ArrivesNext
<1>4. QED
  BY <1>3

LEMMA InstrFields ==
  ASSUME NEW i, NEW code, NEW arg1, NEW arg2, i = instr(code, arg1, arg2)
  PROVE  i.code = code /\ i.arg1 = arg1 /\ i.arg2 = arg2
BY DEF instr

\* The instruction of a leaf.
LEMMA LeafCode ==
  ASSUME NEW e, NEW code, NEW from, NEW to, Spans(e, code, from, to), NEW i, i = code[to]
  PROVE  /\ e.t = "NINTEGER" => to = from + 1 /\ i.code = "CODE_PUSH_INT" /\ i.arg2 = e.integer
         /\ e.t = "NDOUBLE" => to = from + 1 /\ i.code = "CODE_PUSH_FLOAT" /\ i.arg1 = e.tdouble
         /\ e.t = "NSTRING" => to = from + 1 /\ i.code = "CODE_PUSH_STR" /\ i.arg1 = e.string
         /\ e.t = "NBOOL" => to = from + 1 /\ i.code = "CODE_PUSH_BOOL" /\ i.arg2 = IF e.tbool THEN 1 ELSE 0
         /\ e.t = "NLOOKUP" => to = from + 1 /\ i.code = "CODE_PUSH_LOOKUP" /\ i.arg1 = e.name
         /\ e.t = "NANONFUNCDEF" => to = from + 1 /\ i.code = "CODE_PUSH_FN"
<1>1. e.t = "NINTEGER" => to = from + 1 /\ i.code = "CODE_PUSH_INT" /\ i.arg2 = e.integer
  <2> DEFINE op == "CODE_PUSH_INT"
             x == ""
             n == e.integer
  <2>1. e.t = "NINTEGER" => to = from + 1 /\ i = instr(op, x, n)
    BY SpansLeaf
  <2> HIDE DEF op, x, n
  <2>2. i = instr(op, x, n) => i.code = op /\ i.arg2 = n
    BY InstrFields
  <2>3. QED
    BY <2>1, <2>2 DEF op, n
<1>2. e.t = "NDOUBLE" => to = from + 1 /\ i.code = "CODE_PUSH_FLOAT" /\ i.arg1 = e.tdouble
  <2>1. e.t = "NDOUBLE" => to = from + 1 /\ i = instr("CODE_PUSH_FLOAT", e.tdouble, 0)
    BY SpansLeaf
  <2>2. QED
    BY <2>1 DEF instr
<1>3. e.t = "NSTRING" => to = from + 1 /\ i.code = "CODE_PUSH_STR" /\ i.arg1 = e.string
  <2>1. e.t = "NSTRING" => to = from + 1 /\ i = instr("CODE_PUSH_STR", e.string, 0)
    BY SpansLeaf
  <2>2. QED
    BY <2>1 DEF instr
<1>4. e.t = "NBOOL" => to = from + 1 /\ i.code = "CODE_PUSH_BOOL" /\ i.arg2 = IF e.tbool THEN 1 ELSE 0
  <2> DEFINE op == "CODE_PUSH_BOOL"
             x == ""
             n == IF e.tbool THEN 1 ELSE 0
  <2>1. e.t = "NBOOL" => to = from + 1 /\ i = instr(op, x, n)
    BY SpansLeaf
  <2> HIDE DEF op, x, n
  <2>2. i = instr(op, x, n) => i.code = op /\ i.arg2 = n
    BY InstrFields
  <2>3. QED
    BY <2>1, <2>2 DEF op, n
<1>5. e.t = "NLOOKUP" => to = from + 1 /\ i.code = "CODE_PUSH_LOOKUP" /\ i.arg1 = e.name
  <2>1. e.t = "NLOOKUP" => to = from + 1 /\ i = instr("CODE_PUSH_LOOKUP", e.name, 0)
    BY SpansLeaf
  <2>2. QED
    BY <2>1 DEF instr
<1>6. e.t = "NANONFUNCDEF" => to = from + 1 /\ i.code = "CODE_PUSH_FN"
  BY SpansDefinition
<1>7. QED
  BY <1>1, <1>2, <1>3, <1>4, <1>5, <1>6

\* A leaf.
LEMMA LeafArrives ==
  ASSUME NEW fns, Fit(fns), NEW A, Runs(fns, A), NEW k \in Nat,
         NEW code, code = fns[A[k].fn].code, NEW f, NEW defs, NEW e \in Node,
         NEW from, NEW to, Spans(e, code, from, to), A[k].at = from, A[k].s.end = "none",
         e.t \in {"NINTEGER", "NDOUBLE", "NSTRING", "NBOOL", "NLOOKUP", "NANONFUNCDEF"}
  PROVE  Arrives(A, k, EvalNode(f, defs, e, A[k].s), to)
<1> DEFINE s == A[k].s
           i == code[to]
           r == EvalNode(f, defs, e, s)
<1>1. from \in Nat /\ to \in Nat /\ to <= Len(code)
  BY SpansIs
<1>2. i = code[to] /\ s = A[k].s
  OBVIOUS
<1>3. Arrives(A, k, s, from)
  BY ArrivesNow
<1> HIDE DEF s, i
<1>4. to = from + 1 /\ i.code \notin {"CODE_JUMP", "CODE_JUMP_IF_FALSE", "CODE_RET", "CODE_CALL"}
      /\ r = Effect(i, s)
  <2>1. CASE e.t = "NINTEGER"
    <3>1. to = from + 1 /\ i.code = "CODE_PUSH_INT" /\ i.arg2 = e.integer
      BY <1>2, <2>1, LeafCode
    <3>2. QED
      BY <2>1, <3>1, EvalNodeIs, EffectIs
  <2>2. CASE e.t = "NDOUBLE"
    <3>1. to = from + 1 /\ i.code = "CODE_PUSH_FLOAT" /\ i.arg1 = e.tdouble
      BY <1>2, <2>2, LeafCode
    <3>2. QED
      BY <2>2, <3>1, EvalNodeIs, EffectIs
  <2>3. CASE e.t = "NSTRING"
    <3>1. to = from + 1 /\ i.code = "CODE_PUSH_STR" /\ i.arg1 = e.string
      BY <1>2, <2>3, LeafCode
    <3>2. QED
      BY <2>3, <3>1, EvalNodeIs, EffectIs
  <2>4. CASE e.t = "NBOOL"
    <3>1. to = from + 1 /\ i.code = "CODE_PUSH_BOOL" /\ i.arg2 = IF e.tbool THEN 1 ELSE 0
      BY <1>2, <2>4, LeafCode
    <3>2. BoolValue(i.arg2 = 1) = BoolValue(e.tbool)
      BY <3>1 DEF BoolValue
    <3>3. QED
      BY <2>4, <3>1, <3>2, EvalNodeIs, EffectIs
  <2>5. CASE e.t = "NLOOKUP"
    <3>1. to = from + 1 /\ i.code = "CODE_PUSH_LOOKUP" /\ i.arg1 = e.name
      BY <1>2, <2>5, LeafCode
    <3>2. QED
      BY <2>5, <3>1, EvalNodeIs, EffectIs
  <2>6. CASE e.t = "NANONFUNCDEF"
    <3>1. to = from + 1 /\ i.code = "CODE_PUSH_FN"
      BY <1>2, <2>6, LeafCode
    <3>2. QED
      BY <2>6, <3>1, EvalNodeIs, EffectIs
  <2>7. QED
    BY <2>1, <2>2, <2>3, <2>4, <2>5, <2>6
<1>5. r = Unless(s, Effect(i, s))
  BY <1>2, <1>4 DEF Unless
<1> HIDE DEF r
<1>6. Arrives(A, k, r, to)
  BY <1>1, <1>2, <1>3, <1>4, <1>5, ArrivesDoing
<1>7. QED
  BY <1>2, <1>6 DEF r
\* The instruction a node ends with.
LEMMA LastCode ==
  ASSUME NEW e, NEW code, NEW from, NEW to, Spans(e, code, from, to), NEW i, i = code[to]
  PROVE  /\ e.t = "NASSIGNMENT" => i.code = "CODE_ASSIGN" /\ i.arg1 = e.name
         /\ e.t = "NBINARYOP" => i.code = OpCode[e.op]
         /\ e.t = "NARRAY" => i.code = "CODE_PUSH_ARRAY" /\ i.arg2 = Len(e.array)
         /\ e.t = "NCALL" => i.code = "CODE_CALL" /\ i.arg1 = e.name /\ i.arg2 = Len(e.args)
<1> DEFINE empty == ""
<1>1. e.t = "NASSIGNMENT" => i.code = "CODE_ASSIGN" /\ i.arg1 = e.name
  <2> DEFINE op == "CODE_ASSIGN"
             x == e.name
             n == 0
  <2>1. e.t = "NASSIGNMENT" => i = instr(op, x, n)
    BY SpansAssignment
  <2> HIDE DEF op, x, n
  <2>2. i = instr(op, x, n) => i.code = op /\ i.arg1 = x
    BY InstrFields
  <2>3. QED
    BY <2>1, <2>2 DEF op, x
<1>2. e.t = "NBINARYOP" => i.code = OpCode[e.op]
  <2> DEFINE op == OpCode[e.op]
             n == 0
  <2>1. e.t = "NBINARYOP" => i = instr(op, empty, n)
    <3>1. ASSUME e.t = "NBINARYOP"
          PROVE  \E mid \in Nat : Operation(e, code, from, to, mid)
      BY <3>1, SpansBinary
    <3>2. QED
      BY <3>1 DEF Operation
  <2> HIDE DEF op, empty, n
  <2>2. i = instr(op, empty, n) => i.code = op
    BY InstrFields
  <2>3. QED
    BY <2>1, <2>2 DEF op
<1>3. e.t = "NARRAY" => i.code = "CODE_PUSH_ARRAY" /\ i.arg2 = Len(e.array)
  <2> DEFINE op == "CODE_PUSH_ARRAY"
             n == Len(e.array)
  <2>1. e.t = "NARRAY" => i = instr(op, empty, n)
    BY SpansArguments
  <2> HIDE DEF op, empty, n
  <2>2. i = instr(op, empty, n) => i.code = op /\ i.arg2 = n
    BY InstrFields
  <2>3. QED
    BY <2>1, <2>2 DEF op, n
<1>4. e.t = "NCALL" => i.code = "CODE_CALL" /\ i.arg1 = e.name /\ i.arg2 = Len(e.args)
  <2> DEFINE op == "CODE_CALL"
             x == e.name
             n == Len(e.args)
  <2>1. e.t = "NCALL" => i = instr(op, x, n)
    BY SpansArguments
  <2> HIDE DEF op, x, n
  <2>2. i = instr(op, x, n) => i.code = op /\ i.arg1 = x /\ i.arg2 = n
    BY InstrFields
  <2>3. QED
    BY <2>1, <2>2 DEF op, x, n
<1>5. QED
  BY <1>1, <1>2, <1>3, <1>4

\* The test of an if or a while, and the jump back.
Tests(e, code, from, to, mid, last) ==
  /\ mid \in Nat /\ last \in Nat /\ mid < Len(code)
  /\ Spans(e.expr, code, from, mid)
  /\ code[mid + 1].code = "CODE_JUMP_IF_FALSE" /\ mid + 1 + code[mid + 1].arg2 = to
  /\ ListSpans(e.block, code, mid + 1, last)

LEMMA TestCode ==
  ASSUME NEW e, NEW code, NEW from, NEW to, Spans(e, code, from, to)
  PROVE  /\ e.t = "NIFSTRUCTURE" => \E mid : Tests(e, code, from, to, mid, to)
         /\ e.t = "NWHILESTRUCTURE" =>
              \E mid, last : /\ Tests(e, code, from, to, mid, last) /\ last + 1 = to
                             /\ code[to].code = "CODE_JUMP" /\ code[to].arg2 = from
<1> DEFINE op == "CODE_JUMP_IF_FALSE"
           empty == ""
<1>1. from \in Nat /\ to \in Nat /\ to <= Len(code) /\ code \in Seq(Bytecode)
  BY SpansIs
<1>2. Len(code) \in Nat
  BY <1>1
<1>3. ASSUME NEW mid \in Nat, mid + 1 <= to, code[mid + 1] = instr(op, empty, to - (mid + 1))
      PROVE  /\ mid < Len(code)
             /\ code[mid + 1].code = "CODE_JUMP_IF_FALSE" /\ mid + 1 + code[mid + 1].arg2 = to
  <2> DEFINE i == code[mid + 1]
             n == to - (mid + 1)
  <2>1. i = instr(op, empty, n)
    BY <1>3
  <2>2. mid + 1 + n = to /\ mid < Len(code)
    <3>1. mid + 1 <= to
      BY <1>3
    <3>2. QED
      BY <1>1, <1>2, <3>1
  <2> HIDE DEF i, n, op, empty
  <2>3. i.code = op /\ i.arg2 = n
    BY <2>1, InstrFields
  <2>4. QED
    BY <2>2, <2>3 DEF i, op
<1>4. ASSUME e.t = "NIFSTRUCTURE"
      PROVE  \E mid : Tests(e, code, from, to, mid, to)
  <2>1. PICK mid \in Nat :
          /\ Spans(e.expr, code, from, mid)
          /\ mid + 1 <= to
          /\ code[mid + 1] = instr(op, empty, to - (mid + 1))
          /\ ListSpans(e.block, code, mid + 1, to)
    BY <1>4, SpansIf
  <2> HIDE DEF op, empty
  <2>2. mid + 1 <= to /\ code[mid + 1] = instr(op, empty, to - (mid + 1))
    BY <2>1
  <2>3. /\ mid < Len(code)
        /\ code[mid + 1].code = "CODE_JUMP_IF_FALSE" /\ mid + 1 + code[mid + 1].arg2 = to
    BY <1>3, <2>2
  <2>4. Spans(e.expr, code, from, mid) /\ ListSpans(e.block, code, mid + 1, to)
    BY <2>1
  <2>5. Tests(e, code, from, to, mid, to)
    BY <1>1, <2>3, <2>4 DEF Tests
  <2>6. QED
    BY <2>5
<1>5. ASSUME e.t = "NWHILESTRUCTURE"
      PROVE  \E mid, last : /\ Tests(e, code, from, to, mid, last) /\ last + 1 = to
                            /\ code[to].code = "CODE_JUMP" /\ code[to].arg2 = from
  <2>1. PICK mid \in Nat : Looped(e, code, from, to, mid)
    BY <1>5, SpansWhile
  <2> HIDE DEF op, empty
  <2>2. mid + 1 <= to - 1 /\ code[mid + 1] = instr(op, empty, to - (mid + 1))
    BY <2>1 DEF Looped, op, empty
  <2>3. mid + 1 <= to
    BY <1>1, <2>2
  <2>4. /\ mid < Len(code)
        /\ code[mid + 1].code = "CODE_JUMP_IF_FALSE" /\ mid + 1 + code[mid + 1].arg2 = to
    BY <1>3, <2>2, <2>3
  <2> DEFINE last == to - 1
  <2>5. Spans(e.expr, code, from, mid) /\ ListSpans(e.block, code, mid + 1, last)
        /\ last \in Nat
    BY <2>1 DEF Looped
  <2>6. last + 1 = to
    BY <1>1
  <2>7. code[to].code = "CODE_JUMP" /\ code[to].arg2 = from
    <3>1. code[to] = Back(from)
      BY <2>1, Zenon DEF Looped
    <3>2. from \in Int
      BY <1>1
    <3>3. QED
      BY <3>1, <3>2, JumpsAre
  <2> HIDE DEF last
  <2>8. Tests(e, code, from, to, mid, last)
    BY <2>4, <2>5 DEF Tests
  <2>9. QED
    BY <2>6, <2>7, <2>8
<1>6. QED
  BY <1>4, <1>5
LEMMA AssignmentArrives ==
  ASSUME NEW fns, Fit(fns), NEW A, Runs(fns, A), NEW f, Follows(fns, A, f), Settled(f),
         NEW k \in Nat, NEW code, code = fns[A[k].fn].code, NEW defs, NEW e \in Node,
         NEW from, NEW to, Spans(e, code, from, to), NEW s, Arrives(A, k, s, from),
         e.t = "NASSIGNMENT"
  PROVE  Arrives(A, k, EvalNode(f, defs, e, s), to)
<1> DEFINE i == code[to]
           m == to - 1
           x == e.name
           part == e.val
           v == f[part][s]
           r == EvalNode(f, defs, e, s)
<1>1. to \in Nat /\ to <= Len(code)
  BY SpansIs
<1>2. m \in Nat /\ to = m + 1 /\ Spans(part, code, from, m)
  BY SpansAssignment
<1>3. i = code[to] /\ i.code = "CODE_ASSIGN" /\ i.arg1 = x
  BY LastCode
<1>4. x \in Name /\ part \in Node
  BY NodesParts
<1>5. r = Binding[x][v]
  BY EvalNodeIs
<1> HIDE DEF i, m, x, part, r
<1>6. Arrives(A, k, v, m)
  BY <1>2, <1>4, ArrivesBehind
<1>7. v \in EState
  BY <1>6 DEF Arrives
<1> HIDE DEF v
<1>8. r = Unless(v, Bind(v, x))
  BY <1>4, <1>5, <1>7, BindIs
<1>9. r = Unless(v, Effect(i, v))
  BY <1>3, <1>8, EffectIs
<1>10. i.code \notin {"CODE_JUMP", "CODE_JUMP_IF_FALSE", "CODE_RET", "CODE_CALL"}
  BY <1>3
<1>11. Arrives(A, k, r, to)
  BY <1>1, <1>2, <1>3, <1>6, <1>9, <1>10, ArrivesDoing
<1>12. QED
  BY <1>11 DEF r

LEMMA OperationArrives ==
  ASSUME NEW fns, Fit(fns), NEW A, Runs(fns, A), NEW f, Follows(fns, A, f), Settled(f),
         NEW k \in Nat, NEW code, code = fns[A[k].fn].code, NEW defs, NEW e \in Node,
         NEW from, NEW to, Spans(e, code, from, to), NEW s, Arrives(A, k, s, from),
         e.t = "NBINARYOP"
  PROVE  Arrives(A, k, EvalNode(f, defs, e, s), to)
<1> DEFINE i == code[to]
           m == to - 1
           left == e.left
           right == e.right
           u == f[left][s]
           v == f[right][u]
           r == EvalNode(f, defs, e, s)
<1>1. to \in Nat /\ to <= Len(code)
  BY SpansIs
<1>2. PICK mid \in Nat : Operation(e, code, from, to, mid)
  BY SpansBinary
<1>3. m \in Nat /\ to = m + 1 /\ Spans(left, code, from, mid) /\ Spans(right, code, mid, m)
  BY <1>2 DEF Operation
<1>4. left \in Node /\ right \in Node /\ e.op \in DOMAIN OpCode
  BY NodesParts
<1>5. i = code[to] /\ i.code = OpCode[e.op]
  BY LastCode
<1>6. i.code \in ArithmeticCodes
  BY <1>4, <1>5 DEF OpCode, ArithmeticCodes
<1>7. r = Unless(v, Apply(v, i.code))
  BY <1>5, EvalNodeIs
<1> HIDE DEF i, m, left, right, r
<1>8. Arrives(A, k, u, mid)
  BY <1>3, <1>4, ArrivesBehind
<1> HIDE DEF u
<1>9. Arrives(A, k, v, m)
  BY <1>3, <1>4, <1>8, ArrivesBehind
<1> HIDE DEF v
<1>10. r = Unless(v, Effect(i, v))
  BY <1>6, <1>7, EffectIs
<1>11. i.code \notin {"CODE_JUMP", "CODE_JUMP_IF_FALSE", "CODE_RET", "CODE_CALL"}
  BY <1>6 DEF ArithmeticCodes
<1>12. Arrives(A, k, r, to)
  BY <1>1, <1>3, <1>5, <1>9, <1>10, <1>11, ArrivesDoing
<1>13. QED
  BY <1>12 DEF r

LEMMA ArrayArrives ==
  ASSUME NEW fns, Fit(fns), NEW A, Runs(fns, A), NEW f, Follows(fns, A, f), Settled(f),
         NEW k \in Nat, NEW code, code = fns[A[k].fn].code, NEW defs, NEW e \in Node,
         NEW from, NEW to, Spans(e, code, from, to), NEW s, Arrives(A, k, s, from),
         e.t = "NARRAY"
  PROVE  Arrives(A, k, EvalNode(f, defs, e, s), to)
<1> DEFINE i == code[to]
           m == to - 1
           list == e.array
           v == Through(f, list, s)
           r == EvalNode(f, defs, e, s)
<1>1. to \in Nat /\ to <= Len(code)
  BY SpansIs
<1>2. m \in Nat /\ to = m + 1 /\ ListSpans(list, code, from, m)
  BY SpansArguments
<1>3. i = code[to] /\ i.code = "CODE_PUSH_ARRAY" /\ i.arg2 = Len(list)
  BY LastCode
<1>4. list \in Seq(Node)
  BY NodesParts
<1>5. r = Unless(v, MakeArray(v, Len(list)))
  BY EvalNodeIs
<1> HIDE DEF i, m, list, r
<1>6. Arrives(A, k, v, m)
  BY <1>2, <1>4, ListArrives
<1> HIDE DEF v
<1>7. r = Unless(v, Effect(i, v))
  BY <1>3, <1>5, EffectIs
<1>8. i.code \notin {"CODE_JUMP", "CODE_JUMP_IF_FALSE", "CODE_RET", "CODE_CALL"}
  BY <1>3
<1>9. Arrives(A, k, r, to)
  BY <1>1, <1>2, <1>3, <1>6, <1>7, <1>8, ArrivesDoing
<1>10. QED
  BY <1>9 DEF r

LEMMA CallArrives ==
  ASSUME NEW fns, NEW A, Runs(fns, A), NEW f, Follows(fns, A, f), Settled(f),
         NEW k \in Nat, NEW code, code = fns[A[k].fn].code,
         NEW defs, Linked(fns, defs), NEW e \in Node,
         NEW from, NEW to, Spans(e, code, from, to), NEW s, Arrives(A, k, s, from),
         e.t = "NCALL"
  PROVE  Arrives(A, k, EvalNode(f, defs, e, s), to)
<1> DEFINE i == code[to]
           m == to - 1
           list == e.args
           name == e.name
           n == Len(list)
           v == Through(f, list, s)
           r == EvalNode(f, defs, e, s)
<1>1. to \in Nat /\ to <= Len(code) /\ code \in Seq(Bytecode)
  BY SpansIs
<1>2. m \in Nat /\ to = m + 1 /\ ListSpans(list, code, from, m)
  BY SpansArguments
<1>3. i = code[to] /\ i.code = "CODE_CALL" /\ i.arg1 = name /\ i.arg2 = n
  BY LastCode
<1>4. list \in Seq(Node) /\ name \in Identifier
  BY NodesParts
<1>5. r = Unless(v, Call(f, defs, v, name, n))
  BY EvalNodeIs
<1> HIDE DEF i, m, list, name, n, r
<1>6. Arrives(A, k, v, m)
  BY <1>2, <1>4, ListArrives
<1> HIDE DEF v
<1>7. m < Len(code)
  <2>1. Len(code) \in Nat
    BY <1>1
  <2>2. QED
    BY <1>1, <1>2, <2>1
<1>8. code[m + 1] = i
  BY <1>2, <1>3
<1>9. Arrives(A, k, Unless(v, Call(f, defs, v, name, n)), m + 1)
  BY <1>2, <1>3, <1>4, <1>6, <1>7, <1>8, ArrivesCall
<1>10. QED
  BY <1>2, <1>5, <1>9 DEF r

LEMMA IfArrives ==
  ASSUME NEW fns, Fit(fns), NEW A, Runs(fns, A), NEW f, Follows(fns, A, f), Settled(f),
         NEW k \in Nat, NEW code, code = fns[A[k].fn].code, NEW defs, NEW e \in Node,
         NEW from, NEW to, Spans(e, code, from, to), NEW s, Arrives(A, k, s, from),
         e.t = "NIFSTRUCTURE"
  PROVE  Arrives(A, k, EvalNode(f, defs, e, s), to)
<1> DEFINE cond == e.expr
           list == e.block
           v == f[cond][s]
           taken == Through(f, list, Pop(v))
           r == EvalNode(f, defs, e, s)
<1>1. to \in Nat
  BY SpansIs
<1>2. PICK mid : Tests(e, code, from, to, mid, to)
  BY TestCode
<1> DEFINE i == code[mid + 1]
<1>3. /\ mid \in Nat /\ mid < Len(code)
      /\ Spans(cond, code, from, mid)
      /\ i = code[mid + 1] /\ i.code = "CODE_JUMP_IF_FALSE" /\ mid + 1 + i.arg2 = to
      /\ ListSpans(list, code, mid + 1, to)
  BY <1>2 DEF Tests
<1>4. cond \in Node /\ list \in Seq(Node)
  BY NodesParts
<1>5. r = Unless(v, Branch(v, taken))
  BY EvalNodeIs
<1> HIDE DEF cond, list, i, r
<1>6. Arrives(A, k, v, mid)
  BY <1>3, <1>4, ArrivesBehind
<1> HIDE DEF v
<1>7. Arrives(A, k, Pop(v), mid + 1) => Arrives(A, k, taken, to)
  BY <1>3, <1>4, ListArrives
<1> HIDE DEF taken
<1>8. Arrives(A, k, Unless(v, Branch(v, taken)), to)
  BY <1>1, <1>3, <1>6, <1>7, ArrivesTesting
<1>9. QED
  BY <1>5, <1>8 DEF r

\* The nested evaluation of the loop goes on from its beginning.
LEMMA WhileArrives ==
  ASSUME NEW fns, Fit(fns), NEW A, Runs(fns, A), NEW f, Follows(fns, A, f), Settled(f),
         NEW k \in Nat, NEW code, code = fns[A[k].fn].code, NEW defs, NEW e \in Node,
         NEW from, NEW to, Spans(e, code, from, to), NEW s, Arrives(A, k, s, from),
         e.t = "NWHILESTRUCTURE"
  PROVE  Arrives(A, k, EvalNode(f, defs, e, s), to)
<1> DEFINE cond == e.expr
           list == e.block
           v == f[cond][s]
           w == Through(f, list, Pop(v))
           taken == f[e][w]
           r == EvalNode(f, defs, e, s)
<1>1. to \in Nat /\ to <= Len(code) /\ code \in Seq(Bytecode)
  BY SpansIs
<1>2. PICK mid, last : /\ Tests(e, code, from, to, mid, last) /\ last + 1 = to
                       /\ code[to].code = "CODE_JUMP" /\ code[to].arg2 = from
  BY TestCode
<1> DEFINE i == code[mid + 1]
           j == code[to]
<1>3. /\ mid \in Nat /\ mid < Len(code)
      /\ Spans(cond, code, from, mid)
      /\ i = code[mid + 1] /\ i.code = "CODE_JUMP_IF_FALSE" /\ mid + 1 + i.arg2 = to
      /\ ListSpans(list, code, mid + 1, last)
      /\ last \in Nat
  BY <1>2 DEF Tests
<1>4. j = code[last + 1] /\ j.code = "CODE_JUMP" /\ j.arg2 = from /\ last + 1 = to
  BY <1>2
<1>5. last < Len(code)
  <2>1. Len(code) \in Nat
    BY <1>1
  <2>2. QED
    BY <1>1, <1>3, <1>4, <2>1
<1>6. cond \in Node /\ list \in Seq(Node)
  BY NodesParts
<1>7. r = Unless(v, Branch(v, taken))
  BY EvalNodeIs
<1> HIDE DEF cond, list, i, j, r
<1>8. Arrives(A, k, v, mid)
  BY <1>3, <1>6, ArrivesBehind
<1> HIDE DEF v
<1>9. ASSUME Arrives(A, k, Pop(v), mid + 1)
      PROVE  Arrives(A, k, taken, to)
  <2>1. Arrives(A, k, w, last)
    BY <1>3, <1>6, <1>9, ListArrives
  <2> HIDE DEF w
  <2>2. Arrives(A, k, w, from)
    BY <1>3, <1>4, <1>5, <2>1, ArrivesJumping
  <2>3. QED
    BY <2>2, ArrivesBehind
<1> HIDE DEF taken
<1>10. Arrives(A, k, Unless(v, Branch(v, taken)), to)
  BY <1>1, <1>3, <1>8, <1>9, ArrivesTesting
<1>11. QED
  BY <1>7, <1>10 DEF r
LEMMA NodeArrives ==
  ASSUME NEW fns, NEW A, Runs(fns, A), NEW f, Follows(fns, A, f), Settled(f),
         NEW k \in Nat, NEW code, code = fns[A[k].fn].code,
         NEW defs, Linked(fns, defs), NEW e \in Node,
         NEW from, NEW to, Spans(e, code, from, to), A[k].at = from, A[k].s.end = "none"
  PROVE  Arrives(A, k, EvalNode(f, defs, e, A[k].s), to)
<1> DEFINE s == A[k].s
<1>1. Fit(fns)
  BY DEF Linked
<1>2. s = A[k].s /\ Arrives(A, k, s, from)
  BY ArrivesNow
<1> HIDE DEF s
<1>3. CASE e.t \in {"NINTEGER", "NDOUBLE", "NSTRING", "NBOOL", "NLOOKUP", "NANONFUNCDEF"}
  BY <1>1, <1>3, LeafArrives
<1>4. CASE e.t = "NASSIGNMENT"
  BY <1>1, <1>2, <1>4, AssignmentArrives
<1>5. CASE e.t = "NBINARYOP"
  BY <1>1, <1>2, <1>5, OperationArrives
<1>6. CASE e.t = "NARRAY"
  BY <1>1, <1>2, <1>6, ArrayArrives
<1>7. CASE e.t = "NCALL"
  BY <1>1, <1>2, <1>7, CallArrives
<1>8. CASE e.t = "NIFSTRUCTURE"
  BY <1>1, <1>2, <1>8, IfArrives
<1>9. CASE e.t = "NWHILESTRUCTURE"
  BY <1>1, <1>2, <1>9, WhileArrives
<1>10. CASE e.t = "NFUNCDEF"
  <2>1. to = from
    BY <1>10, SpansDefinition
  <2>2. EvalNode(f, defs, e, s) = s
    BY <1>10, EvalNodeIs
  <2>3. QED
    BY <1>2, <2>1, <2>2
<1>11. QED
  BY <1>3, <1>4, <1>5, <1>6, <1>7, <1>8, <1>9, <1>10, NodesParts

EvalStart(p) == [e \in Node |-> [s \in EState |-> Unless(s, Ended(s, "unfinished"))]]
EvalStep(p, d, f) == [e \in Node |-> [s \in EState |-> Unless(s, EvalNode(f, p, e, s))]]
EvalBy == INSTANCE Recursion WITH Start <- EvalStart, Step <- EvalStep

\* f[d] evaluates to the depth d.
Evaluates(f, defs) ==
  /\ \A e \in Node, s \in EState : f[0][e][s] = Unless(s, Ended(s, "unfinished"))
  /\ \A d \in Nat, e \in Node, s \in EState :
       f[d + 1][e][s] = Unless(s, EvalNode(f[d], defs, e, s))

LEMMA EvaluationIs ==
  ASSUME NEW defs
  PROVE  Evaluates(Evaluation(defs), defs)
<1> DEFINE f == EvalBy!From(defs)
<1>1. Evaluation(defs) = f
  BY DEF Evaluation, EvalBy!From, EvalStart, EvalStep
<1>2. f = [d \in Nat |-> IF d = 0 THEN EvalStart(defs) ELSE EvalStep(defs, d, f[d - 1])]
  BY EvalBy!FromIs
<1>3. \A d \in Nat : d + 1 \in Nat /\ d + 1 # 0 /\ (d + 1) - 1 = d
  OBVIOUS
<1> HIDE DEF f
<1>4. f[0] = EvalStart(defs) /\ \A d \in Nat : f[d + 1] = EvalStep(defs, d + 1, f[d])
  BY <1>2, <1>3
<1>5. \A e \in Node, s \in EState : f[0][e][s] = Unless(s, Ended(s, "unfinished"))
  BY <1>4 DEF EvalStart
<1>6. ASSUME NEW d \in Nat, NEW e \in Node, NEW s \in EState
      PROVE  f[d + 1][e][s] = Unless(s, EvalNode(f[d], defs, e, s))
  <2>1. f[d + 1] = EvalStep(defs, d + 1, f[d])
    BY <1>4
  <2>2. QED
    BY <2>1 DEF EvalStep
<1>7. QED
  BY <1>1, <1>5, <1>6 DEF Evaluates

\* To whatever depth.
LEMMA EvaluationFollowed ==
  ASSUME NEW fns, NEW defs, Linked(fns, defs), NEW A, Runs(fns, A), NEW d \in Nat
  PROVE  Settled(Evaluation(defs)[d]) /\ Follows(fns, A, Evaluation(defs)[d])
<1> DEFINE f == Evaluation(defs)
           Off == {n \in Nat : ~Follows(fns, A, f[n])}
<1>1. /\ \A e \in Node, s \in EState : f[0][e][s] = Unless(s, Ended(s, "unfinished"))
      /\ \A n \in Nat, e \in Node, s \in EState :
           f[n + 1][e][s] = Unless(s, EvalNode(f[n], defs, e, s))
  BY EvaluationIs DEF Evaluates
<1>2. \A n \in Nat : n = 0 \/ (n - 1 \in Nat /\ (n - 1) + 1 = n /\ n - 1 < n)
  OBVIOUS
<1> HIDE DEF f
<1>3. ASSUME NEW n \in Nat
      PROVE  Settled(f[n])
  <2>1. CASE n = 0
    BY <1>1, <2>1 DEF Settled, Unless
  <2>2. CASE n # 0
    <3> DEFINE m == n - 1
    <3>1. m \in Nat /\ m + 1 = n
      BY <1>2, <2>2
    <3> HIDE DEF m
    <3>2. \A e \in Node, s \in EState : f[m + 1][e][s] = Unless(s, EvalNode(f[m], defs, e, s))
      BY <1>1, <3>1
    <3>3. QED
      BY <3>1, <3>2 DEF Settled, Unless
  <2>3. QED
    BY <2>1, <2>2
<1>4. \A k \in Nat : A[k].s \in EState
  BY MachineParts DEF Runs
<1>5. Follows(fns, A, f[0])
  <2> SUFFICES ASSUME NEW e \in Node, NEW k \in Nat, NEW from, NEW to,
                      A[k].at = from, A[k].s.end = "none"
               PROVE  Arrives(A, k, f[0][e][A[k].s], to)
    BY DEF Follows
  <2> DEFINE s == A[k].s
             r == Ended(s, "unfinished")
  <2>1. f[0][e][s] = r
    BY <1>1, <1>4 DEF Unless
  <2>2. "unfinished" \in Endings
    BY DEF Endings
  <2>3. r \in EState /\ r.out = s.out /\ r.end = "unfinished"
    BY <1>4, <2>2, EndedIs
  <2> HIDE DEF r
  <2>4. Arrives(A, k, r, to)
    BY <2>3 DEF Arrives
  <2>5. QED
    BY <2>1, <2>4
<1>6. Off = {}
  <2> SUFFICES ASSUME Off # {}
               PROVE  FALSE
    OBVIOUS
  <2>1. PICK n \in Off : \A m \in Off : n <= m
    <3>1. Off \in SUBSET Nat
      OBVIOUS
    <3>2. QED
      BY <3>1, TreesBy!Least
  <2>2. n \in Nat /\ n # 0 /\ ~Follows(fns, A, f[n])
    BY <1>5, <2>1
  <2> DEFINE m == n - 1
  <2>3. m \in Nat /\ m + 1 = n /\ m < n /\ m = n - 1
    BY <1>2, <2>2
  <2> HIDE DEF m
  <2>4. Follows(fns, A, f[m])
    BY <2>1, <2>3
  <2>5. Settled(f[m])
    BY <1>3, <2>3
  <2>6. ASSUME NEW e \in Node, NEW k \in Nat, NEW from, NEW to,
               Spans(e, fns[A[k].fn].code, from, to), A[k].at = from, A[k].s.end = "none"
        PROVE  Arrives(A, k, f[n][e][A[k].s], to)
    <3>1. f[n][e][A[k].s] = EvalNode(f[m], defs, e, A[k].s)
      <4>1. f[m + 1][e][A[k].s] = Unless(A[k].s, EvalNode(f[m], defs, e, A[k].s))
        BY <1>1, <1>4, <2>3
      <4>2. QED
        BY <2>3, <2>6, <4>1 DEF Unless
    <3> DEFINE g == f[m]
               code == fns[A[k].fn].code
    <3>2. Settled(g) /\ Follows(fns, A, g) /\ code = fns[A[k].fn].code
          /\ Spans(e, code, from, to)
      BY <2>4, <2>5, <2>6
    <3> HIDE DEF g, code
    <3>3. Arrives(A, k, EvalNode(g, defs, e, A[k].s), to)
      BY <2>6, <3>2, NodeArrives
    <3>4. QED
      BY <3>1, <3>3 DEF g
  <2>7. QED
    BY <2>2, <2>6 DEF Follows
<1>7. QED
  BY <1>3, <1>6 DEF f

\* The state a program starts in.
Begin == [s |-> Start, fn |-> 1, at |-> 0, saved |-> <<>>]

\* What the compiler makes of a definition is what is linked to it.
LEMMA CompiledLinked ==
  ASSUME NEW root \in Program, ~ast_compile(root).crashed, NEW fns, fns = ast_compile(root).fns,
         Fit(fns)
  PROVE  Linked(fns, Definitions(root).fns)
<1> DEFINE defs == Definitions(root).fns
<1>1. defs \in Seq(Node)
  BY WholeTracks DEF Found
<1>2. /\ Len(fns) = Len(defs) + 1
      /\ \A d \in DOMAIN defs : MadeFrom(fns[d + 1], defs[d])
  BY FunctionsAsDefined
<1>3. QED
  BY <1>1, <1>2 DEF Linked

\* THE CODE AND THE MEANING: the compiled program, run on a machine that has no
\* heap, comes to what the program means. ast_compile (ast_nodes.c)
\* and the loop of derp_vm_run (vm.c) agree on jumps, calls and returns, for
\* every program that the compiler does not die of.
THEOREM CodeAsMeant ==
  ASSUME NEW root \in Program, ~ast_compile(root).crashed, NEW fns, fns = ast_compile(root).fns,
         Fit(fns), NEW A, Runs(fns, A), A[0] = Begin
  PROVE  Arrives(A, 0, Meaning(root), Len(fns[1].code))
<1> DEFINE defs == Definitions(root).fns
           f == Evaluation(defs)[Patience]
           code == fns[1].code
           to == Len(code)
<1>1. Patience \in Nat
  BY LanguageAssumption
<1>2. Linked(fns, defs)
  BY CompiledLinked
<1>3. Settled(f) /\ Follows(fns, A, f)
  <2> HIDE DEF defs
  <2>1. QED
    BY <1>1, <1>2, EvaluationFollowed
<1>4. ListSpans(root, code, 0, to)
  BY RootSpans
<1>5. A[0].s = Start /\ A[0].at = 0 /\ A[0].fn = 1
  BY DEF Begin
<1>6. Arrives(A, 0, Start, 0)
  <2>1. 0 \in Nat
    OBVIOUS
  <2>2. Arrives(A, 0, A[0].s, A[0].at)
    BY <2>1, ArrivesNow
  <2>3. QED
    BY <1>5, <2>2
<1>7. Meaning(root) = Through(f, root, Start)
  BY DEF Meaning
<1>8. root \in Seq(Node) /\ 0 \in Nat
  BY DEF Program
<1>9. code = fns[A[0].fn].code
  BY <1>5
<1> HIDE DEF f, code, to
<1>10. Arrives(A, 0, Through(f, root, Start), to)
  BY <1>3, <1>4, <1>6, <1>8, <1>9, ListArrives
<1>11. QED
  BY <1>7, <1>10 DEF to, code
-----------------------------------------------------------------------------
(* What is read of an output (Interpreter.tla).                            *)

ReadState == [open : Nat, kept : Seq(Token)]

\* A text, read from the state c on.
After(c, text) == Through(Reading, text, c)

\* A token that opens and closes no array.
Unbracketed(t) == t \in Token /\ t # Separator("[") /\ t # Separator("]")

LEMMA SeparatorsAre ==
  /\ \A s \in Separators : Separator(s) \in Token
  /\ Separator("[") \in Token /\ Separator("]") \in Token
  /\ Separator("[") # Separator("]")
  /\ Unbracketed(Separator(" ")) /\ Unbracketed(Separator(",")) /\ Unbracketed(Separator("\n"))
<1>1. \A s \in Separators : Separator(s) \in Token /\ Separator(s).str = s
  BY DEF Separator, Token, value
<1>2. {" ", ",", "[", "]", "\n"} = Separators
  BY DEF Separators
<1>3. QED
  BY <1>1, <1>2 DEF Unbracketed

\* Appending one token.
LEMMA AppendKeeps ==
  ASSUME NEW s \in Seq(Token), NEW t \in Token
  PROVE  Append(s, t) \in Seq(Token) /\ IsPrefixOf(s, Append(s, t))
BY DEF IsPrefixOf

LEMMA StateIs ==
  ASSUME NEW c \in ReadState
  PROVE  /\ c.open \in Nat /\ c.kept \in Seq(Token)
         /\ \A d \in ReadState : d.open = c.open /\ d.kept = c.kept => d = c
BY DEF ReadState

LEMMA ReadNext ==
  ASSUME NEW t \in Token, NEW c \in ReadState, NEW d, d = Reading[t][c]
  PROVE  /\ d \in ReadState
         /\ IsPrefixOf(c.kept, d.kept)
         /\ Unbracketed(t) => d.open = c.open
         /\ t = Separator("[") => d.open = c.open + 1
         /\ t = Separator("]") /\ c.open > 0 => d.open = c.open - 1
         /\ d.kept = IF c.open = 0 \/ d.open = 0 THEN Append(c.kept, t) ELSE c.kept
<1> DEFINE opening == Separator("[")
           closing == Separator("]")
           next == IF t = opening THEN c.open + 1
                   ELSE IF t = closing /\ c.open > 0 THEN c.open - 1
                   ELSE c.open
           kept == IF c.open = 0 \/ next = 0 THEN Append(c.kept, t) ELSE c.kept
<1>1. d = [open |-> next, kept |-> kept]
  BY DEF Reading, ReadState
<1>2. opening # closing
  BY SeparatorsAre
<1>3. c.open \in Nat /\ c.kept \in Seq(Token)
  BY DEF ReadState
<1>4. Unbracketed(t) => t # opening /\ t # closing
  BY DEF Unbracketed
<1> HIDE DEF opening, closing
<1>5. next \in Nat
  BY <1>3
<1>6. /\ Unbracketed(t) => next = c.open
      /\ t = opening => next = c.open + 1
      /\ t = closing /\ c.open > 0 => next = c.open - 1
  BY <1>2, <1>4
<1>7. Append(c.kept, t) \in Seq(Token) /\ IsPrefixOf(c.kept, Append(c.kept, t))
      /\ IsPrefixOf(c.kept, c.kept)
  BY <1>3, AppendKeeps DEF IsPrefixOf
<1> HIDE DEF next
<1>8. kept \in Seq(Token) /\ IsPrefixOf(c.kept, kept)
  BY <1>3, <1>7
<1>9. d.open = next /\ d.kept = kept /\ d \in ReadState
  <2> HIDE DEF kept
  <2>1. QED
    BY <1>1, <1>5, <1>8 DEF ReadState
<1>10. QED
  BY <1>6, <1>8, <1>9 DEF opening, closing

\* What a text is passed through, its two parts are, one after the other.
LEMMA ThroughJoined ==
  ASSUME NEW f, NEW T, NEW x \in Seq(T), NEW y \in Seq(T), NEW s
  PROVE  Through(f, x \o y, s) = Through(f, y, Through(f, x, s))
<1> DEFINE n == Len(x)
           m == Len(y)
           whole == x \o y
<1>1. /\ n \in Nat /\ m \in Nat /\ Len(whole) = n + m
      /\ \A k \in 1 .. n : whole[k] = x[k]
      /\ \A k \in 1 .. m : whole[n + k] = y[k]
  OBVIOUS
<1>2. PICK p : Passes(f, x, s, p)
  BY ThroughIs
<1>3. PICK q : Passes(f, y, Through(f, x, s), q)
  BY ThroughIs
<1>4. PICK all : Passes(f, whole, s, all)
  BY ThroughIs
<1>5. /\ p[0] = s /\ p[n] = Through(f, x, s)
      /\ q[0] = p[n] /\ q[m] = Through(f, y, Through(f, x, s))
      /\ all[0] = s /\ all[Len(whole)] = Through(f, whole, s)
      /\ \A k \in Nat : p[k + 1] = f[x[k + 1]][p[k]]
      /\ \A k \in Nat : q[k + 1] = f[y[k + 1]][q[k]]
      /\ \A k \in Nat : all[k + 1] = f[whole[k + 1]][all[k]]
  BY <1>2, <1>3, <1>4 DEF Passes
<1> HIDE DEF n, m, whole
<1> DEFINE Off == {k \in 0 .. n : all[k] # p[k]}
           Behind == {k \in 0 .. m : all[n + k] # q[k]}
<1>6. Off = {}
  <2> SUFFICES ASSUME Off # {}
               PROVE  FALSE
    OBVIOUS
  <2>1. PICK k \in Off : \A j \in Off : k <= j
    <3>1. Off \in SUBSET Nat
      BY <1>1
    <3>2. QED
      BY <3>1, TreesBy!Least
  <2>2. k # 0
    BY <1>5, <2>1
  <2> DEFINE j == k - 1
  <2>3. j \in Nat /\ j + 1 = k /\ j + 1 \in 1 .. n /\ j \in 0 .. n /\ j < k
    BY <1>1, <2>1, <2>2
  <2> HIDE DEF j
  <2>4. all[j] = p[j]
    BY <2>1, <2>3
  <2>5. all[j + 1] = f[whole[j + 1]][all[j]] /\ p[j + 1] = f[x[j + 1]][p[j]]
    BY <1>5, <2>3
  <2>6. whole[j + 1] = x[j + 1]
    BY <1>1, <2>3
  <2>7. QED
    BY <2>1, <2>3, <2>4, <2>5, <2>6
<1>7. all[n] = p[n]
  BY <1>1, <1>6
<1>8. Behind = {}
  <2> SUFFICES ASSUME Behind # {}
               PROVE  FALSE
    OBVIOUS
  <2>1. PICK k \in Behind : \A j \in Behind : k <= j
    <3>1. Behind \in SUBSET Nat
      BY <1>1
    <3>2. QED
      BY <3>1, TreesBy!Least
  <2>2. k # 0
    <3>1. n + 0 = n /\ all[n] = q[0]
      BY <1>1, <1>5, <1>7
    <3>2. all[n + k] # q[k]
      BY <2>1
    <3>3. QED
      BY <3>1, <3>2
  <2> DEFINE j == k - 1
  <2>3. j \in Nat /\ j + 1 = k /\ j + 1 \in 1 .. m /\ j \in 0 .. m /\ j < k
        /\ n + j \in Nat /\ (n + j) + 1 = n + (j + 1)
    BY <1>1, <2>1, <2>2
  <2> HIDE DEF j
  <2>4. all[n + j] = q[j]
    BY <2>1, <2>3
  <2>5. all[(n + j) + 1] = f[whole[(n + j) + 1]][all[n + j]] /\ q[j + 1] = f[y[j + 1]][q[j]]
    BY <1>5, <2>3
  <2>6. whole[n + (j + 1)] = y[j + 1]
    BY <1>1, <2>3
  <2>7. QED
    BY <2>1, <2>3, <2>4, <2>5, <2>6
<1>9. all[n + m] = q[m]
  BY <1>1, <1>8
<1>10. QED
  BY <1>1, <1>5, <1>9 DEF whole

LEMMA AfterReads ==
  ASSUME NEW c \in ReadState, NEW text \in Seq(Token)
  PROVE  After(c, text) \in ReadState /\ IsPrefixOf(c.kept, After(c, text).kept)
<1> DEFINE P == {d \in ReadState : IsPrefixOf(c.kept, d.kept)}
<1>1. c \in P
  BY PrefixRefl DEF ReadState
<1>2. \A t \in Token, d \in P : Reading[t][d] \in P
  <2> TAKE t \in Token, d \in P
  <2>1. d \in ReadState /\ IsPrefixOf(c.kept, d.kept)
    OBVIOUS
  <2>2. Reading[t][d] \in ReadState /\ IsPrefixOf(d.kept, Reading[t][d].kept)
    BY <2>1, ReadNext
  <2>3. c.kept \in Seq(Token) /\ d.kept \in Seq(Token) /\ Reading[t][d].kept \in Seq(Token)
    BY <2>1, <2>2 DEF ReadState
  <2>4. IsPrefixOf(c.kept, Reading[t][d].kept)
    BY <2>1, <2>2, <2>3, PrefixTrans
  <2>5. QED
    BY <2>2, <2>4
<1> HIDE DEF P
<1>3. Through(Reading, text, c) \in P
  BY <1>1, <1>2, ThroughKeeps
<1>4. QED
  BY <1>3 DEF P, After

\* The state after a text of several parts.
LEMMA AfterFew ==
  ASSUME NEW c
  PROVE  After(c, <<>>) = c /\ \A t : After(c, <<t>>) = Reading[t][c]
BY ThroughFew DEF After

LEMMA AfterBoth ==
  ASSUME NEW c, NEW x \in Seq(Token), NEW y \in Seq(Token)
  PROVE  After(c, x \o y) = After(After(c, x), y)
BY ThroughJoined DEF After

\* Nothing read yet.
Unread == [open |-> 0, kept |-> <<>>]

LEMMA ReadIs ==
  /\ Unread \in ReadState
  /\ \A text : Read(text) = After(Unread, text)
  /\ \A text \in Seq(Token) : Read(text) \in ReadState
<1>1. Unread \in ReadState
  BY DEF Unread, ReadState
<1>2. \A text : Read(text) = After(Unread, text)
  BY DEF Read, After, Unread
<1>3. QED
  BY <1>1, <1>2, AfterReads

\* More is read of a longer output.
LEMMA OutsideGrows ==
  ASSUME NEW x \in Seq(Token), NEW y \in Seq(Token), IsPrefixOf(x, y)
  PROVE  /\ IsPrefixOf(Outside(x), Outside(y))
         /\ Outside(x) \in Seq(Token) /\ Outside(y) \in Seq(Token)
<1> DEFINE n == Len(x)
           rest == SubSeq(y, n + 1, Len(y))
<1>1. n \in Nat /\ Len(y) \in Nat /\ n <= Len(y) /\ \A k \in 1 .. n : x[k] = y[k]
  BY DEF IsPrefixOf
<1>2. rest \in Seq(Token) /\ y = x \o rest
  <2> DEFINE m == Len(y) - n
             z == x \o rest
  <2>1. m \in Nat /\ n + m = Len(y)
    BY <1>1
  <2>2. rest \in Seq(Token) /\ Len(rest) = m /\ \A k \in 1 .. m : rest[k] = y[n + k]
    BY <1>1
  <2>3. /\ z \in Seq(Token) /\ Len(z) = n + m
        /\ \A k \in 1 .. n : z[k] = x[k]
        /\ \A k \in 1 .. m : z[n + k] = rest[k]
    <3> HIDE DEF rest, m
    <3>1. QED
      BY <2>1, <2>2
  <2> HIDE DEF rest, n, m, z
  <2>4. \A k \in 1 .. m : z[n + k] = y[n + k]
    BY <2>2, <2>3
  <2>5. \A k \in 1 .. Len(y) : k \in 1 .. n \/ \E j \in 1 .. m : k = n + j
    <3> TAKE k \in 1 .. Len(y)
    <3>1. k <= n \/ (k - n \in 1 .. m /\ k = n + (k - n))
      BY <1>1, <2>1
    <3>2. QED
      BY <1>1, <3>1
  <2>6. \A k \in 1 .. Len(y) : z[k] = y[k]
    BY <1>1, <2>3, <2>4, <2>5
  <2>7. z = y
    BY <2>1, <2>3, <2>6
  <2>8. QED
    BY <2>2, <2>7 DEF z
<1> HIDE DEF rest
<1>3. Read(y) = After(Read(x), rest)
  <2>1. After(Unread, x \o rest) = After(After(Unread, x), rest)
    BY <1>2, AfterBoth
  <2>2. QED
    BY <1>2, <2>1, ReadIs
<1>4. Read(x) \in ReadState /\ Read(y) \in ReadState
  BY ReadIs
<1>5. IsPrefixOf(Read(x).kept, Read(y).kept)
  BY <1>2, <1>3, <1>4, AfterReads
<1>6. QED
  BY <1>4, <1>5 DEF Outside, ReadState


LEMMA AfterThree ==
  ASSUME NEW c, NEW x \in Seq(Token), NEW y \in Seq(Token), NEW z \in Seq(Token)
  PROVE  After(c, x \o y \o z) = After(After(After(c, x), y), z)
<1>1. x \o y \in Seq(Token)
  OBVIOUS
<1>2. After(c, (x \o y) \o z) = After(After(c, x \o y), z)
  BY <1>1, AfterBoth
<1>3. After(c, x \o y) = After(After(c, x), y)
  BY AfterBoth
<1>4. QED
  BY <1>2, <1>3

\* The separator before the n-th of several values.
Gap(sep, n) == IF n = 1 THEN <<>> ELSE <<Separator(sep)>>

LEMMA GapReads ==
  ASSUME NEW sep, Unbracketed(Separator(sep)), NEW n, NEW c \in ReadState
  PROVE  /\ Gap(sep, n) \in Seq(Token)
         /\ After(c, Gap(sep, n)) \in ReadState
         /\ After(c, Gap(sep, n)).open = c.open
         /\ c.open > 0 => After(c, Gap(sep, n)) = c
<1> DEFINE t == Separator(sep)
           gap == Gap(sep, n)
           d == After(c, gap)
<1>1. Unbracketed(t) /\ t \in Token
  BY DEF Unbracketed
<1> HIDE DEF t
<1>2. CASE n = 1
  <2>1. gap = <<>>
    BY <1>2 DEF Gap
  <2> HIDE DEF gap
  <2>2. d = c /\ gap \in Seq(Token)
    BY <2>1, AfterFew
  <2> HIDE DEF d
  <2>3. QED
    BY <2>2 DEF d, gap
<1>3. CASE n # 1
  <2>1. gap = <<t>>
    BY <1>3 DEF Gap, t
  <2> HIDE DEF gap
  <2>2. gap \in Seq(Token)
    BY <1>1, <2>1
  <2>3. d = Reading[t][c]
    BY <2>1, AfterFew
  <2> HIDE DEF d
  <2>4. d \in ReadState /\ d.open = c.open
        /\ d.kept = IF c.open = 0 \/ d.open = 0 THEN Append(c.kept, t) ELSE c.kept
    BY <1>1, <2>3, ReadNext
  <2>5. c.open > 0 => c.open # 0
    BY StateIs
  <2>6. c.open > 0 => d = c
    BY <2>4, <2>5, StateIs
  <2>7. QED
    BY <2>2, <2>4, <2>6 DEF d, gap
<1>4. QED
  BY <1>2, <1>3

-----------------------------------------------------------------------------
(* What print writes, as it is read.                                       *)

\* Inside an array nothing is kept, no array is closed that was not opened, and
\* what is written to its end closes all that it opens.
Sunk(c, d, res) == d.kept = c.kept /\ d.open >= c.open /\ (res = "ok" => d.open = c.open)
Deep(w) ==
  /\ w.out \in Seq(Token)
  /\ \A c \in ReadState : c.open > 0 => Sunk(c, After(c, w.out), w.res)

\* Of an array with none around it, the brackets are kept.
Bracket(c, d, res) ==
  LET begun == Append(c.kept, Separator("["))
  IN  IF res = "ok" THEN d.open = 0 /\ d.kept = Append(begun, Separator("]"))
      ELSE d.open > 0 /\ d.kept = begun
Block(w) ==
  /\ w.out \in Seq(Token)
  /\ \A c \in ReadState : c.open = 0 => Bracket(c, After(c, w.out), w.res)

LEMMA DeepFew ==
  /\ \A res : Deep(NotShown(res))
  /\ \A t : Unbracketed(t) => Deep(Shown(<<t>>))
<1>1. ASSUME NEW res
      PROVE  Deep(NotShown(res))
  <2>1. NotShown(res).out = <<>> /\ NotShown(res).out \in Seq(Token)
    BY DEF NotShown
  <2>2. \A c : After(c, <<>>) = c
    BY AfterFew
  <2>3. QED
    BY <2>1, <2>2 DEF Deep, Sunk, ReadState
<1>2. ASSUME NEW t, Unbracketed(t)
      PROVE  Deep(Shown(<<t>>))
  <2>1. t \in Token
    BY <1>2 DEF Unbracketed
  <2>2. Shown(<<t>>).out = <<t>> /\ Shown(<<t>>).out \in Seq(Token)
    BY <2>1 DEF Shown
  <2>3. ASSUME NEW c \in ReadState, c.open > 0
        PROVE  Sunk(c, After(c, <<t>>), "ok")
    <3> DEFINE d == After(c, <<t>>)
    <3>1. d = Reading[t][c]
      BY AfterFew
    <3> HIDE DEF d
    <3>2. d.open = c.open /\ d.kept = IF c.open = 0 \/ d.open = 0 THEN Append(c.kept, t)
                                      ELSE c.kept
      BY <1>2, <2>1, <3>1, ReadNext
    <3>3. c.open # 0 /\ c.open >= c.open
      BY <2>3, StateIs
    <3>4. QED
      BY <3>2, <3>3 DEF Sunk, d
  <2>4. Shown(<<t>>).res = "ok"
    BY DEF Shown
  <2>5. QED
    BY <2>2, <2>3, <2>4 DEF Deep
<1>3. QED
  BY <1>1, <1>2

\* What is written one after the other.
LEMMA SunkBoth ==
  ASSUME NEW c \in ReadState, c.open > 0, NEW v, Deep(v), v.res = "ok", NEW w, Deep(w),
         NEW gap \in Seq(Token), \A d \in ReadState : d.open > 0 => After(d, gap) = d
  PROVE  v.out \o gap \o w.out \in Seq(Token)
         /\ Sunk(c, After(c, v.out \o gap \o w.out), w.res)
<1>1. v.out \in Seq(Token) /\ w.out \in Seq(Token)
  BY DEF Deep
<1> DEFINE x == v.out
           y == w.out
           d == After(c, x)
           e == After(d, y)
<1>2. d \in ReadState /\ Sunk(c, d, "ok")
  BY <1>1, AfterReads DEF Deep
<1>3. d.open > 0
  BY <1>2 DEF Sunk, ReadState
<1>4. After(d, gap) = d
  BY <1>2, <1>3
<1>5. After(c, x \o gap \o y) = e
  BY <1>1, <1>4, AfterThree
<1>6. Sunk(d, e, w.res)
  BY <1>2, <1>3 DEF Deep
<1>7. e \in ReadState
  BY <1>1, <1>2, AfterReads
<1> HIDE DEF d, e, x, y
<1>8. Sunk(c, e, w.res)
  BY <1>2, <1>6, <1>7 DEF Sunk, ReadState
<1>9. x \o gap \o y \in Seq(Token)
  BY <1>1 DEF x, y
<1>10. QED
  BY <1>5, <1>8, <1>9 DEF x, y

LEMMA JoinedDeep ==
  ASSUME NEW shown, Len(shown) \in Nat, \A k \in 1 .. Len(shown) : Deep(shown[k])
  PROVE  Deep(Joined(shown, ","))
<1> DEFINE comma == ","
<1>1. PICK upto : Joins(shown, comma, upto)
  BY JoinedIs
<1>2. Unbracketed(Separator(comma))
  BY SeparatorsAre
<1> HIDE DEF comma
<1> DEFINE Off == {k \in 0 .. Len(shown) : ~Deep(upto[k])}
<1>3. Off = {}
  <2> SUFFICES ASSUME Off # {}
               PROVE  FALSE
    OBVIOUS
  <2>1. PICK k \in Off : \A j \in Off : k <= j
    <3>1. Off \in SUBSET Nat
      OBVIOUS
    <3>2. QED
      BY <3>1, JoinedBy!Least
  <2>2. k # 0
    <3>1. Deep(Shown(<<>>))
      <4> DEFINE none == <<>>
                 w == Shown(none)
      <4>1. none \in Seq(Token) /\ \A c : After(c, none) = c
        BY AfterFew
      <4> HIDE DEF none
      <4>2. w.out = none
        BY DEF Shown
      <4> HIDE DEF w
      <4>3. Deep(w)
        BY <4>1, <4>2 DEF Deep, Sunk, ReadState
      <4>4. QED
        BY <4>3 DEF w, none
    <3>2. QED
      BY <1>1, <2>1, <3>1 DEF Joins
  <2> DEFINE j == k - 1
  <2>3. j \in Nat /\ j + 1 = k /\ j + 1 \in 1 .. Len(shown) /\ j \in 0 .. Len(shown) /\ j < k
    BY <2>1, <2>2
  <2> HIDE DEF j
  <2>4. Deep(upto[j]) /\ Deep(shown[j + 1])
    BY <2>1, <2>3
  <2> DEFINE gap == Gap(comma, j + 1)
  <2>5. upto[j + 1] = IF upto[j].res # "ok" THEN upto[j]
                      ELSE [out |-> upto[j].out \o gap \o shown[j + 1].out,
                            res |-> shown[j + 1].res]
    BY <1>1, <2>3 DEF Joins, Gap
  <2>6. gap \in Seq(Token) /\ \A d \in ReadState : d.open > 0 => After(d, gap) = d
    <3>1. Unread \in ReadState
      BY ReadIs
    <3>2. QED
      BY <1>2, <3>1, GapReads
  <2> HIDE DEF gap
  <2>7. CASE upto[j].res # "ok"
    BY <2>1, <2>3, <2>4, <2>5, <2>7
  <2>8. CASE upto[j].res = "ok"
    <3> DEFINE text == upto[j].out \o gap \o shown[j + 1].out
    <3>1. text \in Seq(Token) /\ \A c \in ReadState : c.open > 0 => Sunk(c, After(c, text), shown[j + 1].res)
      <4>1. upto[j].out \in Seq(Token) /\ shown[j + 1].out \in Seq(Token)
        BY <2>4 DEF Deep
      <4>2. text \in Seq(Token)
        BY <2>6, <4>1
      <4>3. QED
        BY <2>4, <2>6, <2>8, <4>2, SunkBoth
    <3> DEFINE res == shown[j + 1].res
    <3>5. upto[j + 1] = [out |-> text, res |-> res]
      BY <2>5, <2>8
    <3> HIDE DEF text, res
    <3>6. upto[j + 1].out = text /\ upto[j + 1].res = res
      BY <3>5
    <3>2. upto[j + 1].out = text /\ upto[j + 1].res = shown[j + 1].res
      BY <3>6 DEF res
    <3>3. Deep(upto[j + 1])
      BY <3>1, <3>2 DEF Deep
    <3>4. QED
      BY <2>1, <2>3, <3>3
  <2>9. QED
    BY <2>7, <2>8
<1>4. Len(shown) \in 0 .. Len(shown)
  OBVIOUS
<1>5. Deep(upto[Len(shown)])
  BY <1>3, <1>4
<1>6. QED
  BY <1>1, <1>5 DEF Joins, comma

\* The brackets close what they open.
LEMMA BracketedDeep ==
  ASSUME NEW w, Deep(w), w = [out |-> w.out, res |-> w.res]
  PROVE  Deep(Bracketed(w)) /\ Block(Bracketed(w))
<1> DEFINE left == Separator("[")
           right == Separator("]")
           end == IF w.res = "ok" THEN <<right>> ELSE <<>>
           text == <<left>> \o w.out \o end
<1>1. Bracketed(w).out = text /\ Bracketed(w).res = w.res
  BY DEF Bracketed
<1>2. left \in Token /\ right \in Token
  BY SeparatorsAre
<1>3. <<left>> \in Seq(Token) /\ end \in Seq(Token) /\ w.out \in Seq(Token)
  BY <1>2 DEF Deep
<1> HIDE DEF end
<1>4. text \in Seq(Token)
  BY <1>3
<1> DEFINE Opened(c) == After(c, <<left>>)
           Inner(c) == After(Opened(c), w.out)
<1>5. ASSUME NEW c \in ReadState
      PROVE  /\ Opened(c) \in ReadState /\ Opened(c).open = c.open + 1
             /\ Opened(c).kept = IF c.open = 0 THEN Append(c.kept, left) ELSE c.kept
  <2> DEFINE d == Opened(c)
  <2>1. d = Reading[left][c]
    BY AfterFew
  <2> HIDE DEF d
  <2>2. d \in ReadState /\ d.open = c.open + 1
        /\ d.kept = IF c.open = 0 \/ d.open = 0 THEN Append(c.kept, left) ELSE c.kept
    BY <1>2, <2>1, ReadNext
  <2>3. c.open + 1 # 0
    BY StateIs
  <2>4. QED
    BY <2>2, <2>3 DEF d
<1> HIDE DEF left, right
<1>6. ASSUME NEW c \in ReadState
      PROVE  /\ Inner(c) \in ReadState
             /\ Sunk(Opened(c), Inner(c), w.res)
             /\ After(c, text) = After(Inner(c), end)
  <2> DEFINE d == Opened(c)
  <2>1. After(c, text) = After(After(d, w.out), end)
    <3> DEFINE x == <<left>>
    <3>1. x \in Seq(Token) /\ d = After(c, x) /\ text = x \o w.out \o end
      BY <1>3
    <3> HIDE DEF x, d, text
    <3>2. QED
      BY <1>3, <3>1, AfterThree
  <2>2. d \in ReadState /\ d.open = c.open + 1
    BY <1>5
  <2>3. d.open > 0
    BY <2>2, StateIs
  <2> HIDE DEF d
  <2>4. After(d, w.out) \in ReadState
    BY <1>3, <2>2, AfterReads
  <2>5. Sunk(d, After(d, w.out), w.res)
    BY <2>2, <2>3 DEF Deep
  <2>6. QED
    BY <2>1, <2>4, <2>5 DEF d
<1> HIDE DEF text, Opened, Inner
<1>7. ASSUME NEW c \in ReadState, NEW d, d = After(c, text)
      PROVE  /\ d \in ReadState
             /\ c.open # 0 => d.kept = c.kept
             /\ w.res = "ok" => d.open = c.open
             /\ w.res = "ok" /\ c.open = 0 => d.kept = Append(Append(c.kept, left), right)
             /\ w.res # "ok" => d.open >= c.open + 1
             /\ w.res # "ok" /\ c.open = 0 => d.kept = Append(c.kept, left)
  <2> DEFINE e == Inner(c)
             begun == IF c.open = 0 THEN Append(c.kept, left) ELSE c.kept
  <2>1. c.open \in Nat
    BY StateIs
  <2>2. Opened(c).open = c.open + 1 /\ Opened(c).kept = begun
    BY <1>5
  <2>3. e.kept = begun /\ e.open >= c.open + 1 /\ (w.res = "ok" => e.open = c.open + 1)
        /\ e \in ReadState /\ e.open \in Nat
    BY <1>6, <2>2, StateIs DEF Sunk
  <2>4. d \in ReadState
    BY <1>4, <1>7, AfterReads
  <2> HIDE DEF e
  <2>5. CASE w.res # "ok"
    <3>1. d = e
      BY <1>6, <1>7, <2>5, AfterFew DEF end, e
    <3>2. QED
      BY <2>3, <2>4, <2>5, <3>1
  <2>6. CASE w.res = "ok"
    <3>1. d = Reading[right][e]
      BY <1>6, <1>7, <2>6, AfterFew DEF end, e
    <3>2. e.open = c.open + 1 /\ e.open > 0 /\ e.open - 1 = c.open
      BY <2>1, <2>3, <2>6
    <3> HIDE DEF begun
    <3>3. d.open = e.open - 1
          /\ d.kept = IF e.open = 0 \/ d.open = 0 THEN Append(e.kept, right) ELSE e.kept
      BY <1>2, <2>3, <3>1, <3>2, ReadNext DEF right
    <3>4. d.open = c.open /\ d.kept = IF c.open = 0 THEN Append(begun, right) ELSE begun
      BY <2>3, <3>2, <3>3
    <3>5. QED
      BY <2>4, <2>6, <3>4 DEF begun
  <2>7. QED
    BY <2>5, <2>6
<1>8. Deep(Bracketed(w))
  <2>1. ASSUME NEW c \in ReadState, c.open > 0
        PROVE  Sunk(c, After(c, text), w.res)
    <3>1. c.open # 0 /\ c.open \in Nat
      BY <2>1, StateIs
    <3> DEFINE d == After(c, text)
    <3> HIDE DEF d
    <3>2. d \in ReadState /\ d.kept = c.kept /\ (w.res = "ok" => d.open = c.open)
          /\ (w.res # "ok" => d.open >= c.open + 1)
      BY <1>7, <3>1 DEF d
    <3>3. d.open \in Nat
      BY <3>2, StateIs
    <3>4. QED
      BY <3>1, <3>2, <3>3 DEF Sunk, d
  <2>2. QED
    BY <1>1, <1>4, <2>1 DEF Deep
<1>9. Block(Bracketed(w))
  <2>1. ASSUME NEW c \in ReadState, c.open = 0
        PROVE  Bracket(c, After(c, text), w.res)
    <3> DEFINE d == After(c, text)
    <3> HIDE DEF d
    <3>1. d \in ReadState
          /\ (w.res = "ok" => d.open = c.open /\ d.kept = Append(Append(c.kept, left), right))
          /\ (w.res # "ok" => d.open >= c.open + 1 /\ d.kept = Append(c.kept, left))
      BY <1>7, <2>1 DEF d
    <3>2. w.res # "ok" => d.open > 0
      BY <2>1, <3>1, StateIs
    <3>3. QED
      BY <2>1, <3>1, <3>2 DEF Bracket, d, left, right
  <2>2. QED
    BY <1>1, <1>4, <2>1 DEF Block
<1>10. QED
  BY <1>8, <1>9


\* No value is a bracket.
LEMMA DataUnbracketed ==
  ASSUME NEW v \in Data
  PROVE  Unbracketed(v)
<1>1. v \in Token /\ v.type \in Types
  BY TokensAre DEF Basic
<1>2. \A s : Separator(s).type = "separator"
  BY DEF Separator, value
<1>3. "separator" \notin Types
  BY DEF Types
<1>4. QED
  BY <1>1, <1>2, <1>3 DEF Unbracketed

\* What is written of an object whose elements are written in that way.
LEMMA DisplaySinks ==
  ASSUME HeapInv, ObjectsReadable, NEW m \in Nat, \A q \in Heap!Cell : Deep(Display[m][q]),
         NEW e \in Heap!Cell
  PROVE  /\ Deep(Display[m + 1][e])
         /\ e \in live /\ obj[e].type = "TYPE_ARRAY" => Block(Display[m + 1][e])
<1> DEFINE within == [k \in DOMAIN vec[e] |-> Display[m][vec[e][k]]]
           comma == ","
           w == Joined(within, comma)
<1>1. Display[m + 1][e] = IF e \notin live THEN NotShown("freed")
                          ELSE IF obj[e].type = "TYPE_FN_REF" THEN NotShown("InternalErr")
                          ELSE IF obj[e].type # "TYPE_ARRAY" THEN Shown(<<obj[e]>>)
                          ELSE Bracketed(w)
  BY DisplayIs DEF DisplayOf
<1>2. e \in live => e \in Object /\ Unbracketed(obj[e]) /\ vec[e] \in Seq(Heap!Cell)
  BY DataUnbracketed DEF HeapInv, Heap!TypeOK, ObjectsReadable, Readable
<1>3. e \in live => Deep(w) /\ w = [out |-> w.out, res |-> w.res]
  <2> SUFFICES ASSUME e \in live
               PROVE  Deep(w) /\ w = [out |-> w.out, res |-> w.res]
    OBVIOUS
  <2> DEFINE v == vec[e]
             N == Len(v)
  <2>1. N \in Nat /\ DOMAIN v = 1 .. N /\ \A k \in 1 .. N : v[k] \in Heap!Cell
    BY <1>2
  <2>2. within = [k \in 1 .. N |-> Display[m][v[k]]]
    BY <2>1
  <2> HIDE DEF v, N, within
  <2>3. Len(within) = N /\ \A k \in 1 .. N : within[k] = Display[m][v[k]]
    BY <2>1, <2>2
  <2>4. \A k \in 1 .. Len(within) : Deep(within[k])
    BY <2>1, <2>3
  <2>5. \A k \in 1 .. Len(within) : within[k] \in Printing(Outcomes)
    BY <2>1, <2>3, DisplayPrints
  <2>6. comma \in Separators /\ "ok" \in Outcomes
    BY DEF Separators, Outcomes
  <2>7. Deep(w)
    BY <2>1, <2>3, <2>4, JoinedDeep
  <2> HIDE DEF comma, w
  <2>8. w \in Printing(Outcomes)
    BY <2>1, <2>3, <2>5, <2>6, JoinedPrints DEF w
  <2>9. QED
    BY <2>7, <2>8, PrintingParts
<1> HIDE DEF w
<1>4. e \in live => Deep(Bracketed(w)) /\ Block(Bracketed(w))
  BY <1>3, BracketedDeep
<1>5. QED
  BY <1>1, <1>2, <1>4, DeepFew

LEMMA DisplayDeep ==
  ASSUME HeapInv, ObjectsReadable
  PROVE  \A d \in Nat, c \in Heap!Cell : Deep(Display[d][c])
<1> DEFINE Off == {n \in Nat : ~ \A e \in Heap!Cell : Deep(Display[n][e])}
<1> SUFFICES ASSUME Off # {}
             PROVE  FALSE
  OBVIOUS
<1>1. PICK n \in Off : \A m \in Off : n <= m
  <2>1. Off \in SUBSET Nat
    OBVIOUS
  <2>2. QED
    BY <2>1, DisplayBy!Least
<1>2. PICK e \in Heap!Cell : ~Deep(Display[n][e])
  BY <1>1
<1>3. n # 0
  BY <1>2, DisplayIs, DeepFew DEF DisplayOf
<1> DEFINE m == n - 1
<1>4. m \in Nat /\ m + 1 = n /\ m < n
  BY <1>1, <1>3
<1> HIDE DEF m
<1>5. \A q \in Heap!Cell : Deep(Display[m][q])
  BY <1>1, <1>4
<1>6. QED
  BY <1>2, <1>4, <1>5, DisplaySinks

LEMMA ArrayDisplays ==
  ASSUME HeapInv, ObjectsReadable, NEW d \in Nat \ {0}, NEW c \in live,
         obj[c].type = "TYPE_ARRAY"
  PROVE  Block(Display[d][c])
<1> DEFINE m == d - 1
<1>1. m \in Nat /\ m + 1 = d
  OBVIOUS
<1> HIDE DEF m
<1>2. c \in Heap!Cell
  BY DEF HeapInv, Heap!TypeOK, Heap!Cell
<1>3. Block(Display[m + 1][c])
  BY <1>1, <1>2, DisplayDeep, DisplaySinks
<1>4. QED
  BY <1>1, <1>3

-----------------------------------------------------------------------------
(* What the machine writes of a value, and what is meant.                  *)

MayMean == {"ok", "InternalErr"}

\* The same, with no array opened; or two arrays.
Level(w, m) ==
  \/ /\ w = m
     /\ w.out \in Seq(Token) /\ w.res \in MayMean
     /\ \A c \in ReadState : c.open = 0 => After(c, w.out).open = 0
  \/ /\ Block(w) /\ Block(m)
     /\ w.res \in Outcomes /\ m.res \in MayMean

\* What is kept is the same, or one of the two ended in an array, after a part
\* of what is kept of the other.
Keeping(c, w, m) ==
  LET x == After(c, w.out)
      y == After(c, m.out)
  IN  /\ w.out \in Seq(Token) /\ m.out \in Seq(Token)
      /\ \/ x = y /\ x.open = 0 /\ w.res = m.res /\ w.res \in MayMean
         \/ x.open > 0 /\ w.res \in Outcomes \ {"ok"} /\ IsPrefixOf(x.kept, y.kept)
         \/ y.open > 0 /\ m.res = "InternalErr" /\ IsPrefixOf(y.kept, x.kept)

\* Something written after w, if w was written to its end.
WriteOn(w, gap, next) ==
  IF w.res # "ok" THEN w ELSE [out |-> w.out \o gap \o next.out, res |-> next.res]

LEMMA WriteOnGrows ==
  ASSUME NEW c \in ReadState, NEW w, w.out \in Seq(Token), NEW gap \in Seq(Token),
         NEW next, next.out \in Seq(Token), NEW v, v = WriteOn(w, gap, next)
  PROVE  /\ v.out \in Seq(Token)
         /\ IsPrefixOf(After(c, w.out).kept, After(c, v.out).kept)
         /\ w.res # "ok" => v = w
         /\ w.res = "ok" => v.res = next.res
                            /\ After(c, v.out) = After(After(After(c, w.out), gap), next.out)
<1> DEFINE x == w.out
           y == next.out
           d == After(c, x)
<1>1. d \in ReadState /\ IsPrefixOf(d.kept, d.kept)
  BY AfterReads, PrefixRefl, StateIs
<1>2. CASE w.res # "ok"
  BY <1>1, <1>2 DEF WriteOn
<1>3. CASE w.res = "ok"
  <2> DEFINE e == After(d, gap)
             f == After(e, y)
             text == x \o gap \o y
             res == next.res
  <2>1. e \in ReadState /\ f \in ReadState
    BY <1>1, AfterReads
  <2>2. IsPrefixOf(d.kept, e.kept) /\ IsPrefixOf(e.kept, f.kept)
    BY <1>1, <2>1, AfterReads
  <2>3. text \in Seq(Token) /\ After(c, text) = f
    BY AfterThree
  <2>4. v = [out |-> text, res |-> res]
    BY <1>3 DEF WriteOn
  <2> HIDE DEF text, d, e, f, res
  <2>5. v.out = text /\ v.res = res
    BY <2>4
  <2>6. d.kept \in Seq(Token) /\ e.kept \in Seq(Token) /\ f.kept \in Seq(Token)
    BY <1>1, <2>1, StateIs
  <2>7. IsPrefixOf(d.kept, f.kept)
    BY <2>2, <2>6, PrefixTrans
  <2>8. After(c, v.out) = f
    BY <2>3, <2>5
  <2>9. QED
    BY <1>3, <2>3, <2>5, <2>7, <2>8 DEF d, e, f, res
<1>4. QED
  BY <1>2, <1>3

\* Two arrays, from the same state.
LEMMA BlocksKeep ==
  ASSUME NEW c \in ReadState, c.open = 0, NEW w, NEW m, Block(w), Block(m),
         w.res \in Outcomes, m.res \in MayMean
  PROVE  Keeping(c, w, m)
<1> DEFINE x == After(c, w.out)
           y == After(c, m.out)
           left == Separator("[")
           right == Separator("]")
           begun == Append(c.kept, left)
           done == Append(begun, right)
<1>1. w.out \in Seq(Token) /\ m.out \in Seq(Token) /\ x \in ReadState /\ y \in ReadState
  BY AfterReads DEF Block
<1>2. begun \in Seq(Token) /\ done \in Seq(Token)
      /\ IsPrefixOf(begun, done) /\ IsPrefixOf(begun, begun)
  <2>1. left \in Token /\ right \in Token
    BY SeparatorsAre
  <2>2. begun \in Seq(Token)
    BY <2>1, StateIs
  <2> HIDE DEF begun, left, right
  <2>3. QED
    BY <2>1, <2>2, AppendKeeps, PrefixRefl
<1>3. Bracket(c, x, w.res) /\ Bracket(c, y, m.res)
  BY DEF Block
<1>4. /\ w.res = "ok" => x.open = 0 /\ x.kept = done
      /\ w.res # "ok" => x.open > 0 /\ x.kept = begun
      /\ m.res = "ok" => y.open = 0 /\ y.kept = done
      /\ m.res # "ok" => y.open > 0 /\ y.kept = begun
  BY <1>3 DEF Bracket
<1> HIDE DEF x, y, begun, done, left, right
<1>5. CASE w.res # "ok"
  <2>1. IsPrefixOf(x.kept, y.kept)
    BY <1>2, <1>4, <1>5
  <2>2. QED
    BY <1>1, <1>4, <1>5, <2>1 DEF Keeping, x, y
<1>6. CASE m.res # "ok"
  <2>1. IsPrefixOf(y.kept, x.kept)
    BY <1>2, <1>4, <1>6
  <2>2. m.res = "InternalErr"
    BY <1>6 DEF MayMean
  <2>3. QED
    BY <1>1, <1>4, <1>6, <2>1, <2>2 DEF Keeping, x, y
<1>7. CASE w.res = "ok" /\ m.res = "ok"
  <2>1. x = y
    BY <1>1, <1>4, <1>7, StateIs
  <2>2. QED
    BY <1>1, <1>4, <1>7, <2>1 DEF Keeping, x, y, MayMean
<1>8. QED
  BY <1>5, <1>6, <1>7

LEMMA LevelKeeps ==
  ASSUME NEW c \in ReadState, c.open = 0, NEW w, NEW m, Level(w, m)
  PROVE  Keeping(c, w, m)
<1>1. CASE Block(w) /\ Block(m) /\ w.res \in Outcomes /\ m.res \in MayMean
  BY <1>1, BlocksKeep
<1>2. CASE ~ (Block(w) /\ Block(m) /\ w.res \in Outcomes /\ m.res \in MayMean)
  BY <1>2 DEF Level, Keeping
<1>3. QED
  BY <1>1, <1>2

LEMMA KeepingNext ==
  ASSUME NEW c \in ReadState, c.open = 0, NEW w, NEW m, Keeping(c, w, m),
         NEW nextW, NEW nextM, Level(nextW, nextM),
         NEW gap \in Seq(Token), \A d \in ReadState : /\ After(d, gap) \in ReadState
                                                     /\ After(d, gap).open = d.open
  PROVE  Keeping(c, WriteOn(w, gap, nextW), WriteOn(m, gap, nextM))
<1> DEFINE x == After(c, w.out)
           y == After(c, m.out)
           w2 == WriteOn(w, gap, nextW)
           m2 == WriteOn(m, gap, nextM)
           x2 == After(c, w2.out)
           y2 == After(c, m2.out)
<1>1. w.out \in Seq(Token) /\ m.out \in Seq(Token)
      /\ nextW.out \in Seq(Token) /\ nextM.out \in Seq(Token)
  BY DEF Keeping, Level, Block
<1>2. /\ w2.out \in Seq(Token) /\ IsPrefixOf(x.kept, x2.kept)
      /\ w.res # "ok" => w2 = w
      /\ w.res = "ok" => w2.res = nextW.res /\ x2 = After(After(x, gap), nextW.out)
  BY <1>1, WriteOnGrows
<1>3. /\ m2.out \in Seq(Token) /\ IsPrefixOf(y.kept, y2.kept)
      /\ m.res # "ok" => m2 = m
      /\ m.res = "ok" => m2.res = nextM.res /\ y2 = After(After(y, gap), nextM.out)
  BY <1>1, WriteOnGrows
<1>4. x \in ReadState /\ y \in ReadState /\ x2 \in ReadState /\ y2 \in ReadState
  BY <1>1, <1>2, <1>3, AfterReads
<1>5. x.kept \in Seq(Token) /\ y.kept \in Seq(Token) /\ x2.kept \in Seq(Token)
      /\ y2.kept \in Seq(Token)
  BY <1>4, StateIs
<1>6. w2 = w => x2 = x
  OBVIOUS
<1>7. m2 = m => y2 = y
  OBVIOUS
<1>8. Keeping(c, w2, m2) <=>
        \/ x2 = y2 /\ x2.open = 0 /\ w2.res = m2.res /\ w2.res \in MayMean
        \/ x2.open > 0 /\ w2.res \in Outcomes \ {"ok"} /\ IsPrefixOf(x2.kept, y2.kept)
        \/ y2.open > 0 /\ m2.res = "InternalErr" /\ IsPrefixOf(y2.kept, x2.kept)
  BY <1>2, <1>3 DEF Keeping
<1>9. \/ x = y /\ x.open = 0 /\ w.res = m.res /\ w.res \in MayMean
      \/ x.open > 0 /\ w.res \in Outcomes \ {"ok"} /\ IsPrefixOf(x.kept, y.kept)
      \/ y.open > 0 /\ m.res = "InternalErr" /\ IsPrefixOf(y.kept, x.kept)
  BY DEF Keeping
<1> HIDE DEF w2, m2, x2, y2, x, y
<1>10. CASE x.open > 0 /\ w.res \in Outcomes \ {"ok"} /\ IsPrefixOf(x.kept, y.kept)
  <2>1. w2 = w /\ x2 = x
    BY <1>2, <1>6, <1>10
  <2>2. IsPrefixOf(x.kept, y2.kept)
    BY <1>3, <1>5, <1>10, PrefixTrans
  <2>3. QED
    BY <1>8, <1>10, <2>1, <2>2 DEF w2, m2
<1>11. CASE y.open > 0 /\ m.res = "InternalErr" /\ IsPrefixOf(y.kept, x.kept)
  <2>1. m2 = m /\ y2 = y
    BY <1>3, <1>7, <1>11
  <2>2. IsPrefixOf(y.kept, x2.kept)
    BY <1>2, <1>5, <1>11, PrefixTrans
  <2>3. QED
    BY <1>8, <1>11, <2>1, <2>2 DEF w2, m2
<1>12. CASE x = y /\ x.open = 0 /\ w.res = m.res /\ w.res \in MayMean
  <2>1. CASE w.res # "ok"
    <3>1. w2 = w /\ x2 = x /\ m2 = m /\ y2 = y
      BY <1>2, <1>3, <1>6, <1>7, <1>12, <2>1
    <3>2. QED
      BY <1>8, <1>12, <3>1 DEF w2, m2
  <2>2. CASE w.res = "ok"
    <3> DEFINE z == After(x, gap)
    <3>1. z \in ReadState /\ z.open = 0
      BY <1>4, <1>12
    <3>2. x2 = After(z, nextW.out) /\ y2 = After(z, nextM.out)
          /\ w2.res = nextW.res /\ m2.res = nextM.res
      BY <1>2, <1>3, <1>12, <2>2
    <3> HIDE DEF z
    <3>3. Keeping(z, nextW, nextM)
      BY <3>1, LevelKeeps
    <3>4. QED
      BY <1>8, <3>2, <3>3 DEF Keeping, w2, m2
  <2>3. QED
    BY <2>1, <2>2
<1>13. QED
  BY <1>9, <1>10, <1>11, <1>12 DEF w2, m2

LEMMA JoinedKeeps ==
  ASSUME NEW c \in ReadState, c.open = 0, NEW w, NEW m, Len(w) \in Nat, Len(m) = Len(w),
         \A k \in 1 .. Len(w) : Level(w[k], m[k]), NEW sep, Unbracketed(Separator(sep))
  PROVE  Keeping(c, Joined(w, sep), Joined(m, sep))
<1>1. PICK f : Joins(w, sep, f)
  BY JoinedIs
<1>2. PICK g : Joins(m, sep, g)
  BY JoinedIs
<1> DEFINE Off == {k \in 0 .. Len(w) : ~Keeping(c, f[k], g[k])}
<1>3. Off = {}
  <2> SUFFICES ASSUME Off # {}
               PROVE  FALSE
    OBVIOUS
  <2>1. PICK k \in Off : \A j \in Off : k <= j
    <3>1. Off \in SUBSET Nat
      OBVIOUS
    <3>2. QED
      BY <3>1, JoinedBy!Least
  <2>2. k # 0
    <3> DEFINE none == <<>>
               v == Shown(none)
    <3>1. none \in Seq(Token) /\ After(c, none) = c
      BY AfterFew
    <3>2. f[0] = v /\ g[0] = v
      BY <1>1, <1>2 DEF Joins
    <3> HIDE DEF none
    <3>3. v.out = none /\ v.res = "ok"
      BY DEF Shown
    <3> HIDE DEF v
    <3>4. Keeping(c, v, v)
      BY <3>1, <3>3 DEF Keeping, MayMean
    <3>5. QED
      BY <2>1, <3>2, <3>4
  <2> DEFINE j == k - 1
  <2>3. j \in Nat /\ j + 1 = k /\ j + 1 \in 1 .. Len(w) /\ j \in 0 .. Len(w) /\ j < k
    BY <2>1, <2>2
  <2> HIDE DEF j
  <2>4. Keeping(c, f[j], g[j]) /\ Level(w[j + 1], m[j + 1])
    BY <2>1, <2>3
  <2> DEFINE gap == Gap(sep, j + 1)
  <2>5. f[j + 1] = WriteOn(f[j], gap, w[j + 1])
    BY <1>1, <2>3 DEF Joins, Gap, WriteOn
  <2>6. g[j + 1] = WriteOn(g[j], gap, m[j + 1])
    BY <1>2, <2>3 DEF Joins, Gap, WriteOn
  <2>7. gap \in Seq(Token) /\ \A d \in ReadState : /\ After(d, gap) \in ReadState
                                                  /\ After(d, gap).open = d.open
    BY GapReads
  <2> HIDE DEF gap
  <2>8. Keeping(c, f[j + 1], g[j + 1])
    BY <2>4, <2>5, <2>6, <2>7, KeepingNext
  <2>9. QED
    BY <2>1, <2>3, <2>8
<1>4. Len(w) \in 0 .. Len(w)
  OBVIOUS
<1>5. Keeping(c, f[Len(w)], g[Len(w)])
  BY <1>3, <1>4
<1>6. QED
  BY <1>1, <1>2, <1>5 DEF Joins

LEMMA NewlineIs ==
  ASSUME NEW w, w.out \in Seq(Token), w = [out |-> w.out, res |-> w.res]
  PROVE  WithNewline(w) = WriteOn(w, <<>>, Shown(<<Separator("\n")>>))
<1> DEFINE t == Separator("\n")
           text == <<t>>
           end == IF w.res = "ok" THEN text ELSE <<>>
           line == Shown(text)
<1>1. t \in Token
  BY SeparatorsAre DEF Unbracketed
<1> HIDE DEF t
<1>2. text \in Seq(Token) /\ line.out = text /\ line.res = "ok"
  BY <1>1 DEF Shown
<1>3. WithNewline(w) = [w EXCEPT !.out = @ \o end]
  BY DEF WithNewline, t
<1>4. w.out \o <<>> = w.out /\ w.out \o <<>> \o text = w.out \o text
  BY <1>2
<1> HIDE DEF end
<1>5. WithNewline(w) = [out |-> w.out \o end, res |-> w.res]
  <2> DEFINE o == w.out
             r == w.res
  <2>1. w = [out |-> o, res |-> r]
    OBVIOUS
  <2> HIDE DEF o, r
  <2>2. QED
    BY <1>3, <2>1
<1> HIDE DEF line
<1>6. WriteOn(w, <<>>, line) =
        IF w.res # "ok" THEN w ELSE [out |-> w.out \o <<>> \o text, res |-> "ok"]
  BY <1>2 DEF WriteOn
<1> HIDE DEF text
<1>7. CASE w.res = "ok"
  BY <1>4, <1>5, <1>6, <1>7 DEF end, line, text, t
<1>8. CASE w.res # "ok"
  BY <1>4, <1>5, <1>6, <1>8 DEF end, line, text, t
<1>9. QED
  BY <1>7, <1>8

\* println ends the line of what was printed to its end.
LEMMA NewlineKeeps ==
  ASSUME NEW c \in ReadState, c.open = 0, NEW w, NEW m, Keeping(c, w, m),
         w = [out |-> w.out, res |-> w.res], m = [out |-> m.out, res |-> m.res]
  PROVE  Keeping(c, WithNewline(w), WithNewline(m))
<1> DEFINE t == Separator("\n")
           none == <<>>
           line == Shown(<<t>>)
<1>1. Unbracketed(t) /\ t \in Token
  BY SeparatorsAre DEF Unbracketed
<1>2. w.out \in Seq(Token) /\ m.out \in Seq(Token)
  BY DEF Keeping
<1>3. WithNewline(w) = WriteOn(w, none, line) /\ WithNewline(m) = WriteOn(m, none, line)
  BY <1>2, NewlineIs
<1>4. none \in Seq(Token) /\ \A d \in ReadState : /\ After(d, none) \in ReadState
                                                 /\ After(d, none).open = d.open
  BY AfterFew
<1>5. Level(line, line)
  <2> DEFINE text == <<t>>
  <2>1. text \in Seq(Token) /\ line.out = text /\ line.res = "ok"
    BY <1>1 DEF Shown
  <2>2. \A d \in ReadState : d.open = 0 => After(d, text).open = 0
    <3> TAKE d \in ReadState
    <3>1. After(d, text) = Reading[t][d]
      BY AfterFew
    <3>2. After(d, text).open = d.open
      BY <1>1, <3>1, ReadNext
    <3>3. QED
      BY <3>2
  <2> HIDE DEF text, line
  <2>3. QED
    BY <2>1, <2>2 DEF Level, MayMean
<1> HIDE DEF none, line
<1>6. QED
  BY <1>3, <1>4, <1>5, KeepingNext
-----------------------------------------------------------------------------
(* What an object and a value have in common.                              *)

SameValue(object, v) ==
  /\ object.type = v.type
  /\ v.type # "TYPE_FN_REF" => object.num = v.num /\ object.str = v.str

\* What is printed of a value. Of an array, it is in brackets, that close if all
\* of it was written; a function is not printed.
Proper(v) ==
  /\ Deep(v.shown)
  /\ v.type = "TYPE_FN_REF" => v.shown = NotShown("InternalErr")
  /\ v.type = "TYPE_ARRAY" => Block(v.shown)
  /\ v.type \notin {"TYPE_FN_REF", "TYPE_ARRAY"} =>
       v.shown = Shown(<<value(v.type, v.num, v.str)>>)

\* The objects that stand for values. Nothing is said of the elements of an
\* array: they may be freed before it is.
Matched ==
  {r \in Object \X Val : r[1] \in live /\ SameValue(obj[r[1]], r[2]) /\ Proper(r[2])}

\* An object stays what it is until it is freed.
Steady == \A c \in live \cap live' : obj'[c] = obj[c]

LEMMA KeptSteady ==
  ASSUME HeapInv, ObjectsReadable, ObjectsKept
  PROVE  Steady
<1>1. CASE MakesNone
  BY <1>1 DEF MakesNone, Steady
<1>2. ASSUME NEW o, NEW v, NEW elems, Makes(o, v, elems)
      PROVE  Steady
  <2>1. o \notin live /\ live \subseteq Object /\ DOMAIN obj = Object
    BY <1>2 DEF Makes, ObjectsReadable, HeapInv, Heap!TypeOK
  <2>2. QED
    BY <1>2, <2>1 DEF Makes, Steady
<1>3. QED
  BY <1>1, <1>2 DEF ObjectsKept

\* What stands for a value goes on doing so, until it is freed.
LEMMA StandsOn ==
  ASSUME Steady, NEW r \in Matched, r[1] \in live'
  PROVE  r \in Matched'
BY DEF Matched, Steady
-----------------------------------------------------------------------------
(* The stack and the variables of the machine, R being a set of pairs of   *)
(* an object and a value it stands for.                                    *)

Stacked(R, s, stk) ==
  Len(s) = Len(stk) /\ \A k \in 1 .. Len(stk) : <<s[k], stk[k]>> \in R

Tabled(R, t, table) ==
  \A x \in Name : IF table[x] = Null THEN t[x] \notin Object ELSE <<t[x], table[x]>> \in R

\* The root's entry of returns is never used.
Framed(R, frms, rets, saved, table) ==
  /\ Len(frms) = Len(saved) + 1
  /\ Len(rets) = Len(frms)
  /\ Tabled(R, frms[Len(frms)], table)
  /\ \A k \in 1 .. Len(saved) :
       /\ Tabled(R, frms[k], saved[k].table)
       /\ rets[k + 1].fn = saved[k].fn
       /\ rets[k + 1].addr + 1 = saved[k].addr

\* What of R is left when only the objects of L are.
Keeps(R, R2, L) == \A r \in R : r[1] \in L => r \in R2

LEMMA StackedKept ==
  ASSUME NEW R, NEW R2, NEW L, Keeps(R, R2, L), NEW s, NEW stk, Stacked(R, s, stk),
         Len(stk) \in Nat, \A k \in 1 .. Len(stk) : s[k] \in L
  PROVE  Stacked(R2, s, stk)
<1>1. \A k \in 1 .. Len(stk) : <<s[k], stk[k]>>[1] = s[k]
  OBVIOUS
<1>2. QED
  BY <1>1 DEF Stacked, Keeps

LEMMA TabledKept ==
  ASSUME NEW R, NEW R2, NEW L, Keeps(R, R2, L), NEW t, NEW table, Tabled(R, t, table),
         \A x \in Name : t[x] \in Object => t[x] \in L, \A r \in R : r[1] \in Object
  PROVE  Tabled(R2, t, table)
<1>1. \A x \in Name : <<t[x], table[x]>>[1] = t[x]
  OBVIOUS
<1>2. QED
  BY <1>1 DEF Tabled, Keeps

LEMMA FramedKept ==
  ASSUME NEW R, NEW R2, NEW L, Keeps(R, R2, L), NEW frms, NEW rets, NEW saved, NEW table,
         Framed(R, frms, rets, saved, table), Len(saved) \in Nat,
         \A k \in 1 .. Len(frms) : \A x \in Name : frms[k][x] \in Object => frms[k][x] \in L,
         \A r \in R : r[1] \in Object
  PROVE  Framed(R2, frms, rets, saved, table)
<1>1. Len(frms) = Len(saved) + 1 /\ Len(frms) \in 1 .. Len(frms)
      /\ \A k \in 1 .. Len(saved) : k \in 1 .. Len(frms)
  BY DEF Framed
<1>2. Tabled(R2, frms[Len(frms)], table)
  BY <1>1, TabledKept DEF Framed
<1>3. \A k \in 1 .. Len(saved) : Tabled(R2, frms[k], saved[k].table)
  BY <1>1, TabledKept DEF Framed
<1>4. QED
  BY <1>2, <1>3 DEF Framed

LEMMA StackedDropped ==
  ASSUME NEW R, NEW s \in Seq(Heap!Cell), NEW stk \in Seq(Val), Stacked(R, s, stk),
         NEW n \in 0 .. Len(stk)
  PROVE  /\ Heap!Dropped(s, n) \in Seq(Heap!Cell)
         /\ Stacked(R, Heap!Dropped(s, n), SubSeq(stk, 1, Len(stk) - n))
<1>1. Len(s) = Len(stk) /\ Len(stk) \in Nat
  BY DEF Stacked
<1>2. /\ Heap!Dropped(s, n) \in Seq(Heap!Cell)
      /\ Len(Heap!Dropped(s, n)) = Len(s) - n
      /\ \A k \in 1 .. Len(s) - n : Heap!Dropped(s, n)[k] = s[k]
  BY <1>1, DroppedFits
<1> DEFINE rest == SubSeq(stk, 1, Len(stk) - n)
<1>3. Len(rest) = Len(stk) - n /\ \A k \in 1 .. Len(stk) - n : rest[k] = stk[k]
  BY <1>1
<1> HIDE DEF rest
<1>4. \A k \in 1 .. Len(stk) - n : k \in 1 .. Len(stk)
  BY <1>1
<1>5. QED
  BY <1>1, <1>2, <1>3, <1>4 DEF Stacked, rest

\* The stack with a value pushed: it is lost when there is no room.
Laid(stk, v) == IF Len(stk) >= StackHeight THEN stk ELSE Append(stk, v)

LEMMA StackedPushed ==
  ASSUME NEW R, NEW s \in Seq(Heap!Cell), NEW stk \in Seq(Val), Stacked(R, s, stk),
         NEW o, NEW v, <<o, v>> \in R
  PROVE  Stacked(R, Heap!Pushed(s, o), Laid(stk, v))
<1>1. Len(s) = Len(stk) /\ Len(stk) \in Nat
  BY DEF Stacked
<1>2. CASE Len(stk) >= StackHeight
  BY <1>1, <1>2 DEF Heap!Pushed, Laid
<1>3. CASE ~ (Len(stk) >= StackHeight)
  <2> DEFINE s2 == Append(s, o)
             stk2 == Append(stk, v)
  <2>1. Heap!Pushed(s, o) = s2 /\ Laid(stk, v) = stk2
    BY <1>1, <1>3 DEF Heap!Pushed, Laid
  <2>2. /\ Len(s2) = Len(stk) + 1
        /\ \A k \in 1 .. Len(stk) : s2[k] = s[k]
        /\ s2[Len(stk) + 1] = o
    BY <1>1
  <2>3. /\ Len(stk2) = Len(stk) + 1
        /\ \A k \in 1 .. Len(stk) : stk2[k] = stk[k]
        /\ stk2[Len(stk) + 1] = v
    OBVIOUS
  <2>4. \A k \in 1 .. Len(stk) + 1 : k = Len(stk) + 1 \/ k \in 1 .. Len(stk)
    BY <1>1
  <2> HIDE DEF s2, stk2
  <2>5. \A k \in 1 .. Len(stk) + 1 : <<s2[k], stk2[k]>> \in R
    BY <2>2, <2>3, <2>4 DEF Stacked
  <2>6. Stacked(R, s2, stk2)
    BY <2>2, <2>3, <2>5 DEF Stacked
  <2>7. QED
    BY <2>1, <2>6
<1>4. QED
  BY <1>2, <1>3

LEMMA PushedKeeps ==
  ASSUME NEW s \in Seq(Heap!Cell), NEW o
  PROVE  /\ \A k \in 1 .. Len(s) : Heap!Pushed(s, o)[k] = s[k]
         /\ Len(Heap!Pushed(s, o)) \in Nat /\ Len(s) <= Len(Heap!Pushed(s, o))
         /\ DOMAIN Heap!Pushed(s, o) = 1 .. Len(Heap!Pushed(s, o))
BY DEF Heap!Pushed

LEMMA LaidIs ==
  ASSUME NEW s \in EState, NEW v \in Val
  PROVE  Push(s, v).stk = Laid(s.stk, v)
BY PushIs DEF Laid
-----------------------------------------------------------------------------
(* When the machine is where the machine without a heap is in state a.     *)

\* Between the two halves of len the argument is off the stack.
Awaits(fns, a) ==
  /\ Stacked(Matched, stack, Pop(a.s).stk)
  /\ Moved(fns, a) = Onward(a, Push(Pop(a.s), Scalar(IntValue(pending))), a.at + 1)

\* Outside of arrays, what was printed is what was meant, and no array is open.
Alike(o, meant) == Read(o) = Read(meant) /\ Read(o).open = 0

Going(fns, a) ==
  /\ fault = "none" /\ err = "none" /\ a.s.end = "none"
  /\ Alike(out, a.s.out)
  /\ cur_fn = a.fn /\ pointer = a.at
  /\ Framed(Matched, frames, returns, a.saved, a.s.table)
  /\ IF pending = Nothing THEN Stacked(Matched, stack, a.s.stk) ELSE Awaits(fns, a)

\* The run is over, or the machine gave in.
Settles(fns, a) ==
  \/ Stuck(fns, a) /\ Alike(out, a.s.out) /\ a.s.end = Ending
  \/ GaveIn /\ IsPrefixOf(Outside(out), Outside(a.s.out))

\* The machine went past an array with a function in it.
Past(a) ==
  /\ a.s.end = "InternalErr"
  /\ EndsInArray(a.s.out)
  /\ IsPrefixOf(Outside(a.s.out), Outside(out))

Simulates(fns, a) ==
  \/ Past(a)
  \/ /\ ~Left => Going(fns, a)
     /\ Left => Settles(fns, a)
     /\ phase = "stopped" => fault = "none"

\* What is known of a step.
Good == Inv /\ HeapInv /\ ValuesInv /\ ControlInv /\ Heap!RootsLive /\ out \in Seq(Token)

Setting(fns, a) ==
  /\ Good /\ Good' /\ ObjectsKept
  /\ fns = Functions /\ Fit(fns)
  /\ a \in Machine(fns)
  /\ ~Left /\ Going(fns, a)

LEMMA EndingIs ==
  /\ fault \in {"none", "uninitialised"} => Ending = err
  /\ fault = "stale" => Ending = "ArgErr"
  /\ fault \notin {"none", "uninitialised", "stale"} => Ending = fault
BY DEF Ending

\* The same in the state after the step.
LEMMA EndingNext ==
  /\ fault' \in {"none", "uninitialised"} => Ending' = err'
  /\ fault' = "stale" => Ending' = "ArgErr"
  /\ fault' \notin {"none", "uninitialised", "stale"} => Ending' = fault'
BY DEF Ending

LEMMA MatchedKept ==
  ASSUME NEW fns, NEW a, Setting(fns, a)
  PROVE  Keeps(Matched, Matched', live')
<1>1. HeapInv /\ ObjectsReadable /\ ObjectsKept
  BY DEF Setting, Good, ValuesInv
<1>2. Steady
  BY <1>1, KeptSteady
<1>3. \A r \in Matched : r[1] \in live' => r \in Matched'
  BY <1>2, StandsOn
<1>4. QED
  BY <1>3 DEF Keeps

LEMMA Rooted ==
  ASSUME Good
  PROVE  /\ stack \in Seq(Heap!Cell)
         /\ \A k \in 1 .. Len(stack) : stack[k] \in Object => stack[k] \in live
         /\ \A f \in 1 .. Len(frames), x \in Name :
              frames[f][x] \in Object => frames[f][x] \in live
<1>1. stack \in Seq(Heap!Cell) /\ frames \in Seq(Heap!Table) /\ Heap!RootsLive
  BY DEF Good, HeapInv, Heap!TypeOK
<1>2. DOMAIN stack = 1 .. Len(stack) /\ DOMAIN frames = 1 .. Len(frames)
  BY <1>1
<1>3. \A k \in 1 .. Len(stack) : stack[k] \in Heap!StackRoots
  BY <1>2 DEF Heap!StackRoots
<1>4. \A f \in 1 .. Len(frames), x \in Name : frames[f][x] \in Heap!TableRoots
  <2> TAKE f \in 1 .. Len(frames), x \in Name
  <2>1. frames[f][x] \in {frames[f][y] : y \in Name}
    OBVIOUS
  <2>2. {frames[f][y] : y \in Name} \in {{frames[g][y] : y \in Name} : g \in DOMAIN frames}
    BY <1>2
  <2>3. QED
    BY <2>1, <2>2 DEF Heap!TableRoots
<1>5. (Heap!StackRoots \cup Heap!TableRoots) \cap Object \subseteq live
  BY <1>1 DEF Heap!RootsLive, Heap!Roots
<1>6. QED
  BY <1>1, <1>3, <1>4, <1>5

\* The same in the state after the step.
LEMMA RootedNext ==
  ASSUME Good'
  PROVE  /\ stack' \in Seq(Heap!Cell)
         /\ \A k \in 1 .. Len(stack') : stack'[k] \in Object => stack'[k] \in live'
         /\ \A f \in 1 .. Len(frames'), x \in Name :
              frames'[f][x] \in Object => frames'[f][x] \in live'
<1>1. stack' \in Seq(Heap!Cell) /\ frames' \in Seq(Heap!Table) /\ Heap!RootsLive'
  BY DEF Good, HeapInv, Heap!TypeOK
<1>2. DOMAIN stack' = 1 .. Len(stack') /\ DOMAIN frames' = 1 .. Len(frames')
  BY <1>1
<1>3. \A k \in 1 .. Len(stack') : stack'[k] \in Heap!StackRoots'
  BY <1>2 DEF Heap!StackRoots
<1>4. \A f \in 1 .. Len(frames'), x \in Name : frames'[f][x] \in Heap!TableRoots'
  <2> TAKE f \in 1 .. Len(frames'), x \in Name
  <2>1. frames'[f][x] \in {frames'[f][y] : y \in Name}
    OBVIOUS
  <2>2. {frames'[f][y] : y \in Name} \in {{frames'[g][y] : y \in Name} : g \in DOMAIN frames'}
    BY <1>2
  <2>3. QED
    BY <2>1, <2>2 DEF Heap!TableRoots
<1>5. (Heap!StackRoots' \cup Heap!TableRoots') \cap Object \subseteq live'
  BY <1>1 DEF Heap!RootsLive, Heap!Roots
<1>6. QED
  BY <1>1, <1>3, <1>4, <1>5

LEMMA SettingParts ==
  ASSUME NEW fns, NEW a, Setting(fns, a)
  PROVE  /\ a.s \in EState /\ a.fn \in DOMAIN fns /\ a.at \in Nat
         /\ a.saved \in Seq(Caller(fns)) /\ Len(a.saved) \in Nat
         /\ stack \in Seq(Heap!Cell)
         /\ a.s.stk \in Seq(Val) /\ Len(a.s.stk) \in Nat /\ a.s.table \in Variables
         /\ a.s.out \in Seq(Token)
         /\ fault = "none" /\ err = "none" /\ a.s.end = "none"
         /\ Alike(out, a.s.out) /\ cur_fn = a.fn /\ pointer = a.at
         /\ Framed(Matched, frames, returns, a.saved, a.s.table)
         /\ pending = Nothing => Stacked(Matched, stack, a.s.stk)
         /\ pending # Nothing => Awaits(fns, a)
         /\ AtEnd <=> Stuck(fns, a)
         /\ ~AtEnd => At(fns, a) = Instr /\ Instr \in Bytecode /\ WellTyped(Instr)
<1>1. a.s \in EState /\ a.fn \in DOMAIN fns /\ a.at \in Nat /\ a.saved \in Seq(Caller(fns))
  BY MachineParts DEF Setting
<1>2. a.s.stk \in Seq(Val) /\ Len(a.s.stk) \in Nat /\ a.s.table \in Variables
      /\ a.s.out \in Seq(Token)
  BY <1>1, EParts
<1>3. Len(a.saved) \in Nat
  BY <1>1
<1>4. stack \in Seq(Heap!Cell)
  BY Rooted DEF Setting
<1>5. /\ fault = "none" /\ err = "none" /\ a.s.end = "none"
      /\ Alike(out, a.s.out) /\ cur_fn = a.fn /\ pointer = a.at
      /\ Framed(Matched, frames, returns, a.saved, a.s.table)
      /\ pending = Nothing => Stacked(Matched, stack, a.s.stk)
      /\ pending # Nothing => Awaits(fns, a)
  BY DEF Setting, Going
<1>6. fns = Functions /\ Fit(fns) /\ a \in Machine(fns)
  BY DEF Setting
<1>7. AtEnd <=> Stuck(fns, a)
  BY <1>5, <1>6 DEF AtEnd, Stuck, Code
<1>8. At(fns, a) = Instr
  BY <1>5, <1>6 DEF At, Instr, Code
<1>9. ~AtEnd => Instr \in Bytecode /\ WellTyped(Instr)
  <2>1. ASSUME ~AtEnd
        PROVE  /\ a.at + 1 \in 1 .. Len(fns[a.fn].code) /\ At(fns, a) \in Bytecode
    BY <1>6, <1>7, <2>1, AtIs
  <2>2. ASSUME ~AtEnd
        PROVE  WellTyped(At(fns, a))
    <3>1. fns[a.fn].code \in Seq(Bytecode)
          /\ \A i \in DOMAIN fns[a.fn].code : WellTyped(fns[a.fn].code[i])
      BY <1>1, <1>6 DEF Fit
    <3>2. a.at + 1 \in DOMAIN fns[a.fn].code
      BY <2>1, <2>2, <3>1
    <3>3. QED
      BY <3>1, <3>2 DEF At
  <2>3. QED
    BY <1>8, <2>1, <2>2
<1>10. QED
  BY <1>1, <1>2, <1>3, <1>4, <1>5, <1>7, <1>8, <1>9

\* A stack that is a part of the new one.
LEMMA StackKept ==
  ASSUME NEW fns, NEW a, Setting(fns, a), NEW s, NEW stk \in Seq(Val),
         Stacked(Matched, s, stk), Len(s) <= Len(stack'),
         \A k \in 1 .. Len(s) : stack'[k] = s[k]
  PROVE  Stacked(Matched', s, stk)
<1>1. Keeps(Matched, Matched', live')
  BY MatchedKept
<1>2. Len(stk) \in Nat /\ Len(s) = Len(stk)
  BY DEF Stacked
<1>3. \A k \in 1 .. Len(stk) : s[k] \in live'
  <2> TAKE k \in 1 .. Len(stk)
  <2>1. stack' \in Seq(Heap!Cell) /\ Len(stack') \in Nat /\ k \in 1 .. Len(stack')
    BY <1>2, RootedNext DEF Setting
  <2>2. s[k] \in Object
    <3>1. <<s[k], stk[k]>> \in Matched
      BY DEF Stacked
    <3>2. QED
      BY <3>1 DEF Matched
  <2>3. stack'[k] = s[k]
    BY <1>2
  <2>4. QED
    BY <2>1, <2>2, <2>3, RootedNext DEF Setting
<1>4. QED
  BY <1>1, <1>2, <1>3, StackedKept
-----------------------------------------------------------------------------
(* How a step ends.                                                        *)

LEMMA FramedNext ==
  ASSUME NEW fns, NEW a, Setting(fns, a), NEW saved, NEW table, Len(saved) \in Nat,
         Framed(Matched, frames', returns', saved, table)
  PROVE  Framed(Matched', frames', returns', saved, table)
<1>1. Keeps(Matched, Matched', live')
  BY MatchedKept
<1>2. \A k \in 1 .. Len(frames') : \A x \in Name :
        frames'[k][x] \in Object => frames'[k][x] \in live'
  BY RootedNext DEF Setting
<1>3. \A r \in Matched : r[1] \in Object
  BY DEF Matched
<1>4. QED
  BY <1>1, <1>2, <1>3, FramedKept

\* Both machines go on.
LEMMA Continue ==
  ASSUME NEW fns, NEW a, Setting(fns, a), NEW b \in Machine(fns),
         b.s.end = "none", Alike(out', b.s.out), Stacked(Matched', stack', b.s.stk),
         Framed(Matched, frames', returns', b.saved, b.s.table),
         cur_fn' = b.fn, pointer' = b.at,
         err' = err, fault' = fault, pending' = Nothing, phase' \notin {"stopped", "crashed"}
  PROVE  Simulates(fns, b)'
<1>1. Len(b.saved) \in Nat
  BY MachineParts
<1>2. Framed(Matched', frames', returns', b.saved, b.s.table)
  BY <1>1, FramedNext
<1>3. fault = "none" /\ err = "none"
  BY SettingParts
<1>4. Going(fns, b)'
  BY <1>2, <1>3 DEF Going
<1>5. ~Left'
  BY DEF Left
<1>6. QED
  BY <1>4, <1>5 DEF Simulates, Left

LEMMA GoesOn ==
  ASSUME NEW fns, NEW a, Setting(fns, a), NEW t \in EState, NEW n \in Nat,
         t.end = "none", Alike(out', t.out), t.table = a.s.table, Stacked(Matched', stack', t.stk),
         frames' = frames, returns' = returns, cur_fn' = cur_fn, pointer' = n,
         err' = err, fault' = fault, pending' = Nothing, phase' \notin {"stopped", "crashed"},
         NEW b, b = Onward(a, t, n)
  PROVE  Simulates(fns, b)'
<1>1. a \in Machine(fns)
  BY DEF Setting
<1>2. b.s = t /\ b.at = n /\ b.fn = a.fn /\ b.saved = a.saved /\ b \in Machine(fns)
  BY <1>1, OnwardIs
<1>3. cur_fn = a.fn /\ Framed(Matched, frames, returns, a.saved, a.s.table)
  BY SettingParts
<1>4. Framed(Matched, frames', returns', b.saved, b.s.table)
  BY <1>2, <1>3
<1>5. QED
  BY <1>2, <1>3, <1>4, Continue

LEMMA Fails ==
  ASSUME NEW fns, NEW a, Setting(fns, a), NEW t, NEW n, NEW e, e # "none",
         t.end = e, Alike(out', t.out), phase' = "stopped", err' = e, fault' = fault,
         NEW b, b = Onward(a, t, n)
  PROVE  Simulates(fns, b)'
<1>1. b.s = t
  BY OnwardIs DEF Setting
<1>2. fault' = "none" /\ Ending' = e
  BY SettingParts, EndingNext
<1>3. Settles(fns, b)'
  BY <1>1, <1>2 DEF Settles, Stuck
<1>4. QED
  BY <1>2, <1>3 DEF Simulates, Left

\* The machine gives in, where the machine without a heap goes on.
LEMMA Dies ==
  ASSUME NEW fns, NEW a, Setting(fns, a), NEW f \in {"heap_full", "null_root"},
         phase' = "crashed", fault' = f, out' = out
  PROVE  Simulates(fns, a)'
<1>1. Outside(out) = Outside(a.s.out) /\ out \in Seq(Token)
  BY SettingParts DEF Alike, Outside, Setting, Good
<1>2. IsPrefixOf(Outside(out), Outside(out))
  BY <1>1, OutsideGrows, PrefixRefl
<1>3. GaveIn' /\ IsPrefixOf(Outside(out'), Outside(a.s.out))
  BY <1>1, <1>2 DEF GaveIn
<1>4. Settles(fns, a)'
  BY <1>3 DEF Settles
<1>5. QED
  BY <1>4 DEF Simulates, Left

LEMMA Traps ==
  ASSUME NEW fns, NEW a, Setting(fns, a), NEW f, f # "none",
         phase' = "crashed", fault' = f, out' = out,
         NEW t, NEW n, t.end = Ending', t.end # "none", t.out = a.s.out,
         NEW b, b = Onward(a, t, n)
  PROVE  Simulates(fns, b)'
<1>1. b.s = t
  BY OnwardIs DEF Setting
<1>2. Alike(out, a.s.out)
  BY SettingParts
<1>3. Settles(fns, b)'
  BY <1>1, <1>2 DEF Settles, Stuck
<1>4. QED
  BY <1>3 DEF Simulates, Left

LEMMA FailDroppingIs ==
  ASSUME NEW n, NEW e, FailDropping(n, e)
  PROVE  phase' = "stopped" /\ err' = e /\ fault' = fault
BY DEF FailDropping, Heap!Drop, Fail

LEMMA FaultIs ==
  ASSUME NEW f, Fault(f)
  PROVE  phase' = "crashed" /\ fault' = f /\ out' = out
BY DEF Fault, FaultPrinting, Heap!Die

LEMMA NamesOfEnds ==
  {"null", "InternalErr", "LookupErr", "TypeErr", "ArgErr", "division", "out_of_bounds"}
    \subseteq Endings \ {"none", "uninitialised", "stale"}
BY DEF Endings

\* The instruction fails in both machines.
LEMMA Ends ==
  ASSUME NEW fns, NEW a, Setting(fns, a), NEW n, NEW e \in Endings, FailDropping(n, e),
         e # "none", out' = out, NEW k, NEW b, b = Onward(a, Ended(a.s, e), k)
  PROVE  Simulates(fns, b)'
<1> DEFINE t == Ended(a.s, e)
<1>1. a.s \in EState /\ Alike(out, a.s.out)
  BY SettingParts
<1>2. t.end = e /\ t.out = a.s.out
  BY <1>1, EndedIs
<1>3. phase' = "stopped" /\ err' = e /\ fault' = fault
  BY FailDroppingIs
<1> HIDE DEF t
<1>4. b = Onward(a, t, k)
  BY DEF t
<1>5. QED
  BY <1>1, <1>2, <1>3, <1>4, Fails

LEMMA Breaks ==
  ASSUME NEW fns, NEW a, Setting(fns, a), NEW f, Fault(f),
         f \in Endings \ {"none", "uninitialised", "stale"},
         NEW k, NEW b, b = Onward(a, Ended(a.s, f), k)
  PROVE  Simulates(fns, b)'
<1> DEFINE t == Ended(a.s, f)
<1>1. a.s \in EState
  BY SettingParts
<1>2. t.end = f /\ t.out = a.s.out
  BY <1>1, EndedIs
<1>3. phase' = "crashed" /\ fault' = f /\ out' = out
  BY FaultIs
<1>4. Ending' = f
  BY <1>3, EndingNext
<1> HIDE DEF t
<1>5. b = Onward(a, t, k)
  BY DEF t
<1>6. QED
  BY <1>2, <1>3, <1>4, <1>5, Traps

LEMMA MovesOn ==
  ASSUME NEW fns, NEW a, Setting(fns, a), ~AtEnd,
         Instr.code \notin {"CODE_JUMP", "CODE_JUMP_IF_FALSE", "CODE_RET"},
         Instr.code = "CODE_CALL" => Callees(fns, Instr.arg1) = {}
  PROVE  Moved(fns, a) = Onward(a, Effect(Instr, a.s), a.at + 1)
<1>1. ~Stuck(fns, a) /\ At(fns, a) = Instr
  BY SettingParts
<1>2. ~Calls(fns, a)
  BY <1>1 DEF Calls
<1>3. QED
  BY <1>1, <1>2 DEF Moved

-----------------------------------------------------------------------------
(* The objects that an instruction makes.                                  *)

LEMMA ScalarProper ==
  ASSUME NEW v \in Basic, v.type = "TYPE_STRING" => v.str \in Text, v.type # "TYPE_ARRAY"
  PROVE  Proper(Scalar(v))
<1> DEFINE w == Scalar(v)
<1>1. /\ w.type = v.type /\ w.num = v.num /\ w.str = v.str
      /\ v.type = "TYPE_FN_REF" => w.shown = NotShown("InternalErr")
      /\ v.type # "TYPE_FN_REF" => w.shown = Shown(<<v>>)
  BY ScalarIs
<1> HIDE DEF w
<1>2. value(w.type, w.num, w.str) = v
  BY <1>1 DEF Basic, value
<1>3. Deep(NotShown("InternalErr")) /\ Deep(Shown(<<v>>))
  BY DataIs, DataUnbracketed, DeepFew
<1>4. Deep(w.shown)
  BY <1>1, <1>3
<1>5. QED
  BY <1>1, <1>2, <1>4 DEF Proper, w

LEMMA ScalarStands ==
  ASSUME HeapInv', NEW o \in live', NEW v \in Basic, v.type = "TYPE_STRING" => v.str \in Text,
         v.type # "TYPE_ARRAY", obj'[o].type = v.type,
         v.type # "TYPE_FN_REF" => obj'[o] = v
  PROVE  <<o, Scalar(v)>> \in Matched'
<1>1. live' \subseteq Object
  BY DEF HeapInv, Heap!TypeOK
<1>2. /\ Scalar(v) \in Val
      /\ Scalar(v).type = v.type /\ Scalar(v).num = v.num /\ Scalar(v).str = v.str
  BY ScalarIs
<1>3. SameValue(obj'[o], Scalar(v))
  BY <1>2 DEF SameValue
<1> DEFINE w == Scalar(v)
           r == <<o, w>>
<1>4. w \in Val /\ SameValue(obj'[o], w) /\ Proper(w)
  BY <1>2, <1>3, ScalarProper
<1> HIDE DEF w
<1>5. r \in Object \X Val /\ r[1] = o /\ r[2] = w
  BY <1>1, <1>4
<1> HIDE DEF r
<1>6. r \in Matched'
  BY <1>4, <1>5 DEF Matched
<1>7. QED
  BY <1>6 DEF r, w

LEMMA ArrayValueIs ==
  ASSUME NEW n
  PROVE  ArrayValue(n).type = "TYPE_ARRAY" /\ ArrayValue(n).num = n /\ ArrayValue(n).str = ""
BY DEF ArrayValue, value

LEMMA ArrayStands ==
  ASSUME HeapInv', NEW o \in live', NEW elements \in Seq(Val),
         \A k \in 1 .. Len(elements) : Proper(elements[k]),
         obj'[o] = ArrayValue(Len(elements))
  PROVE  <<o, Array(elements)>> \in Matched'
<1>1. live' \subseteq Object
  BY DEF HeapInv, Heap!TypeOK
<1> DEFINE n == Len(elements)
           w == Array(elements)
           meant == [k \in DOMAIN elements |-> elements[k].shown]
           comma == ","
<1>2. n \in Nat
  OBVIOUS
<1>3. /\ w \in Val /\ w.type = "TYPE_ARRAY" /\ w.num = n /\ w.str = ""
      /\ w.shown = Bracketed(Joined(meant, comma))
  BY ArrayIs
<1>4. Len(meant) = n /\ \A k \in 1 .. n : meant[k] = elements[k].shown
  <2>1. DOMAIN elements = 1 .. n
    OBVIOUS
  <2>2. meant = [k \in 1 .. n |-> elements[k].shown]
    BY <2>1
  <2> HIDE DEF n, meant
  <2>3. QED
    BY <1>2, <2>2
<1>5. obj'[o].type = "TYPE_ARRAY" /\ obj'[o].num = n /\ obj'[o].str = ""
  BY ArrayValueIs
<1>6. \A k \in 1 .. n : Deep(meant[k]) /\ meant[k] \in Writing
  <2>1. \A k \in 1 .. n : elements[k] \in Val /\ Proper(elements[k])
    OBVIOUS
  <2>2. QED
    BY <1>4, <2>1 DEF Proper, Val
<1>7. Joined(meant, comma) \in Writing
  <2>1. comma \in Separators
    BY DEF Separators
  <2> HIDE DEF meant, comma, n
  <2>2. QED
    BY <1>2, <1>4, <1>6, <2>1, JoinedWrites
<1>8. Deep(Joined(meant, comma))
  <2> HIDE DEF meant, n
  <2>1. QED
    BY <1>2, <1>4, <1>6, JoinedDeep
<1> HIDE DEF w, meant, comma, n
<1>9. Joined(meant, comma) = [out |-> Joined(meant, comma).out, res |-> Joined(meant, comma).res]
  BY <1>7 DEF Writing
<1>10. Deep(w.shown) /\ Block(w.shown)
  BY <1>3, <1>8, <1>9, BracketedDeep
<1>11. SameValue(obj'[o], w) /\ Proper(w)
  BY <1>3, <1>5, <1>10 DEF SameValue, Proper
<1> DEFINE r == <<o, w>>
<1>12. r \in Object \X Val /\ r[1] = o /\ r[2] = w
  BY <1>1, <1>3
<1> HIDE DEF r
<1>13. r \in Matched'
  BY <1>11, <1>12 DEF Matched
<1>14. QED
  BY <1>13 DEF r, w
-----------------------------------------------------------------------------
(* The instructions that push a value.                                     *)

\* Control goes on behind the instruction.
MovesBehind ==
  /\ frames' = frames /\ returns' = returns /\ cur_fn' = cur_fn /\ pointer' = pointer + 1
  /\ err' = err /\ fault' = fault /\ pending' = Nothing
  /\ phase' \notin {"stopped", "crashed"}

LEMMA Pushes ==
  ASSUME NEW fns, NEW a, Setting(fns, a), MovesBehind, out' = out,
         NEW t \in EState, SameOut(a.s, t), t.table = a.s.table,
         NEW s \in Seq(Heap!Cell), Stacked(Matched, s, t.stk),
         NEW o, NEW v \in Val, <<o, v>> \in Matched', stack' = Heap!Pushed(s, o),
         NEW b, b = Onward(a, Push(t, v), a.at + 1)
  PROVE  Simulates(fns, b)'
<1>1. /\ a.s.end = "none" /\ Alike(out, a.s.out) /\ pointer = a.at /\ a.at + 1 \in Nat
      /\ t.stk \in Seq(Val)
  BY SettingParts, EParts
<1>2. /\ \A k \in 1 .. Len(s) : stack'[k] = s[k]
      /\ Len(s) <= Len(stack')
  BY PushedKeeps
<1>3. Stacked(Matched', s, t.stk)
  BY <1>1, <1>2, StackKept
<1>4. Stacked(Matched', stack', Laid(t.stk, v))
  BY <1>1, <1>3, StackedPushed
<1> DEFINE u == Push(t, v)
<1>5. u.stk = Laid(t.stk, v) /\ u.out = t.out /\ u.end = t.end /\ u.table = t.table
      /\ u \in EState
  BY LaidIs, PushIs DEF SameOut
<1> HIDE DEF u
<1>6. u.end = "none" /\ Alike(out', u.out) /\ u.table = a.s.table /\ Stacked(Matched', stack', u.stk)
      /\ u \in EState
  BY <1>1, <1>4, <1>5 DEF SameOut
<1>7. b = Onward(a, u, a.at + 1)
  BY DEF u
<1>8. QED
  BY <1>1, <1>6, <1>7, GoesOn DEF MovesBehind

LEMMA PushLiteralSimulates ==
  ASSUME NEW fns, NEW a, Setting(fns, a), PushLiteral, NEW b, b = Moved(fns, a)
  PROVE  Simulates(fns, b)'
<1>1. ~AtEnd /\ Instr.code \in PushCodes /\ pending = Nothing
  BY DEF PushLiteral, Ready
<1>2. PICK o \in NewAddress, m \in InitialMarks :
        Heap!PushNew(o, m) /\ obj' = [obj EXCEPT ![o] = Literal(Instr)]
  BY DEF PushLiteral
<1>3. o \in Object /\ o \in live' /\ stack' = Heap!Pushed(stack, o)
      /\ frames' = frames /\ phase' = "run"
  BY <1>2, NewObject DEF Heap!PushNew, Heap!object_create
<1>4. MovesBehind /\ out' = out
  BY <1>1, <1>3 DEF MovesBehind, PushLiteral, Advance, NoError
<1> DEFINE v == Meant(Instr)
<1>5. v \in Basic /\ (v.type = "TYPE_STRING" => v.str \in Text) /\ v.type # "TYPE_ARRAY"
  BY <1>1, SettingParts, MeantIs
<1>6. obj'[o] = Literal(Instr)
  BY <1>2, <1>3 DEF Setting, Good, ValuesInv, ObjectsReadable
<1>7. obj'[o].type = v.type /\ (v.type # "TYPE_FN_REF" => obj'[o] = v)
  <2>1. CASE Instr.code = "CODE_PUSH_FN"
    <3>1. Literal(Instr) = FnRefValue(Instr.arg2) /\ v = FnRefValue(0)
      BY <2>1 DEF Literal, Meant
    <3>2. \A f : FnRefValue(f).type = "TYPE_FN_REF"
      BY DEF FnRefValue, value
    <3>3. obj'[o].type = "TYPE_FN_REF" /\ v.type = "TYPE_FN_REF"
      BY <1>6, <3>1, <3>2
    <3>4. QED
      BY <3>3
  <2>2. CASE Instr.code # "CODE_PUSH_FN"
    <3>1. v = Literal(Instr)
      BY <2>2 DEF Meant
    <3>2. QED
      BY <1>6, <3>1
  <2>3. QED
    BY <2>1, <2>2
<1> HIDE DEF v
<1>8. <<o, Scalar(v)>> \in Matched' /\ Scalar(v) \in Val
  BY <1>3, <1>5, <1>7, ScalarStands, ScalarIs DEF Setting, Good
<1>9. /\ a.s \in EState /\ SameOut(a.s, a.s) /\ stack \in Seq(Heap!Cell)
      /\ Stacked(Matched, stack, a.s.stk)
  BY <1>1, SettingParts DEF SameOut
<1>10. Moved(fns, a) = Onward(a, Effect(Instr, a.s), a.at + 1)
  BY <1>1, MovesOn DEF PushCodes
<1>11. Effect(Instr, a.s) = Push(a.s, Scalar(v))
  BY <1>1 DEF Effect, v
<1>12. b = Onward(a, Push(a.s, Scalar(v)), a.at + 1)
  BY <1>10, <1>11
<1>13. QED
  BY <1>3, <1>4, <1>8, <1>9, <1>12, Pushes

LEMMA PushLenSimulates ==
  ASSUME NEW fns, NEW a, Setting(fns, a), PushLen, NEW b, b = Moved(fns, a)
  PROVE  Simulates(fns, b)'
<1>1. pending # Nothing /\ pending \in Nat
  BY DEF PushLen, Setting, Good, ValuesInv, Outcome
<1>2. PICK o \in NewAddress, m \in InitialMarks :
        Heap!PushNew(o, m) /\ obj' = [obj EXCEPT ![o] = IntValue(pending)]
  BY DEF PushLen
<1>3. o \in Object /\ o \in live' /\ stack' = Heap!Pushed(stack, o)
      /\ frames' = frames /\ phase' = "run"
  BY <1>2, NewObject DEF Heap!PushNew, Heap!object_create
<1>4. MovesBehind /\ out' = out
  BY <1>1, <1>3 DEF MovesBehind, PushLen, Advance, NoError
<1> DEFINE v == IntValue(pending)
<1>5. v \in Basic /\ v.type = "TYPE_INTEGER"
  BY <1>1, ScalarsAre
<1>6. obj'[o] = v
  BY <1>2, <1>3 DEF Setting, Good, ValuesInv, ObjectsReadable
<1> HIDE DEF v
<1>7. <<o, Scalar(v)>> \in Matched' /\ Scalar(v) \in Val
  BY <1>3, <1>5, <1>6, ScalarStands, ScalarIs DEF Setting, Good
<1>8. /\ Stacked(Matched, stack, Pop(a.s).stk)
      /\ b = Onward(a, Push(Pop(a.s), Scalar(v)), a.at + 1)
  BY <1>1, SettingParts DEF Awaits, v
<1>9. a.s \in EState /\ stack \in Seq(Heap!Cell)
  BY SettingParts
<1>10. SameOut(a.s, Pop(a.s)) /\ Pop(a.s).table = a.s.table /\ Pop(a.s) \in EState
  BY <1>9, PopIs DEF SameOut
<1>11. QED
  BY <1>3, <1>4, <1>7, <1>8, <1>9, <1>10, Pushes

LEMMA StackedTop ==
  ASSUME NEW R, NEW s \in Seq(Heap!Cell), NEW stk \in Seq(Val), Stacked(R, s, stk),
         NEW n \in 0 .. Len(stk)
  PROVE  Stacked(R, Heap!Top(s, n), SubSeq(stk, Len(stk) - n + 1, Len(stk)))
<1>1. Len(s) = Len(stk) /\ Len(stk) \in Nat
  BY DEF Stacked
<1> DEFINE m == Len(stk) - n
           s2 == SubSeq(s, m + 1, Len(s))
           stk2 == SubSeq(stk, m + 1, Len(stk))
<1>2. m \in Nat /\ m + n = Len(stk) /\ n \in Nat
  BY <1>1
<1> HIDE DEF m
<1>3. Len(s2) = n /\ \A k \in 1 .. n : s2[k] = s[m + k]
  BY <1>1, <1>2
<1>4. Len(stk2) = n /\ \A k \in 1 .. n : stk2[k] = stk[m + k]
  BY <1>2
<1>5. \A k \in 1 .. n : m + k \in 1 .. Len(stk)
  BY <1>2
<1> HIDE DEF s2, stk2
<1>6. \A k \in 1 .. n : <<s2[k], stk2[k]>> \in R
  BY <1>3, <1>4, <1>5 DEF Stacked
<1>7. Stacked(R, s2, stk2)
  BY <1>3, <1>4, <1>6 DEF Stacked
<1>8. Heap!Top(s, n) = s2
  BY <1>1 DEF Heap!Top, s2, m
<1>9. QED
  BY <1>7, <1>8 DEF stk2, m

\* What the objects on the stack are.
LEMMA OnStack ==
  ASSUME NEW stk, Stacked(Matched, stack, stk), NEW k \in 1 .. Len(stk)
  PROVE  /\ stack[k] \in Object /\ stack[k] \in live
         /\ stk[k] \in Val
         /\ obj[stack[k]].type = stk[k].type
         /\ stk[k].type # "TYPE_FN_REF" =>
              obj[stack[k]].num = stk[k].num /\ obj[stack[k]].str = stk[k].str
<1> DEFINE r == <<stack[k], stk[k]>>
<1>1. r \in Matched /\ r[1] = stack[k] /\ r[2] = stk[k]
  BY DEF Stacked
<1> HIDE DEF r
<1>2. r \in Object \X Val /\ r[1] \in live /\ SameValue(obj[r[1]], r[2])
  BY <1>1 DEF Matched
<1>3. QED
  BY <1>1, <1>2 DEF SameValue

LEMMA PushArraySimulates ==
  ASSUME NEW fns, NEW a, Setting(fns, a), CODE_PUSH_ARRAY, NEW b, b = Moved(fns, a)
  PROVE  Simulates(fns, b)'
<1> DEFINE n == Instr.arg2
<1>1. ~AtEnd /\ Instr.code = "CODE_PUSH_ARRAY" /\ pending = Nothing
  BY DEF CODE_PUSH_ARRAY, Ready
<1>2. n \in Nat
  BY <1>1, SettingParts DEF WellTyped
<1>3. /\ a.s \in EState /\ stack \in Seq(Heap!Cell) /\ a.s.stk \in Seq(Val)
      /\ Stacked(Matched, stack, a.s.stk) /\ Len(stack) = Len(a.s.stk) /\ Len(a.s.stk) \in Nat
      /\ a.s.out \in Seq(Token)
  BY <1>1, SettingParts DEF Stacked
<1> DEFINE Made == \E o \in NewAddress, m \in InitialMarks :
                     Heap!PushArray(o, m, n) /\ obj' = [obj EXCEPT ![o] = ArrayValue(n)]
<1>4. \/ Made /\ Advance /\ NoError /\ pending' = pending /\ out' = out
      \/ n > Len(stack) /\ Fault("out_of_bounds")
  BY DEF CODE_PUSH_ARRAY
<1>5. Made => n <= Len(stack)
  BY DEF Heap!PushArray
<1> HIDE DEF Made
<1>6. Moved(fns, a) = Onward(a, Effect(Instr, a.s), a.at + 1)
  BY <1>1, MovesOn
<1>7. Effect(Instr, a.s) = MakeArray(a.s, n)
  BY <1>1 DEF Effect, PushCodes
<1>8. CASE n > Len(stack)
  <2>1. Fault("out_of_bounds")
    BY <1>2, <1>3, <1>8, <1>4, <1>5
  <2> DEFINE t == Ended(a.s, "out_of_bounds")
  <2>2. "out_of_bounds" \in Endings \ {"none", "uninitialised", "stale"}
    BY NamesOfEnds
  <2>3. b = Onward(a, t, a.at + 1)
    BY <1>3, <1>6, <1>7, <1>8 DEF MakeArray
  <2> HIDE DEF t
  <2>4. QED
    BY <2>1, <2>2, <2>3, Breaks DEF t
<1>9. CASE ~ (n > Len(stack))
  <2>1. n \in 0 .. Len(a.s.stk)
    BY <1>2, <1>3, <1>9
  <2>2. PICK o \in NewAddress, m \in InitialMarks :
          Heap!PushArray(o, m, n) /\ obj' = [obj EXCEPT ![o] = ArrayValue(n)]
    BY <1>9, <1>4 DEF Made
  <2>3. /\ o \in Object /\ o \notin live /\ live' = live \cup {o}
        /\ stack' = Heap!Pushed(Heap!Dropped(stack, n), o)
        /\ frames' = frames /\ phase' = "run"
    BY <2>2, NewObject DEF Heap!PushArray, Heap!object_create
  <2>4. Advance /\ NoError /\ pending' = pending /\ out' = out
    BY <1>9, <1>4
  <2>5. MovesBehind
    BY <1>1, <2>3, <2>4 DEF MovesBehind, Advance, NoError
  <2> DEFINE t == PopN(a.s, n)
             elements == TopN(a.s, n)
             v == Array(elements)
             s == Heap!Dropped(stack, n)
             cells == Heap!Top(stack, n)
  <2>6. /\ SameOut(a.s, t) /\ t.table = a.s.table /\ t \in EState
        /\ t.stk = SubSeq(a.s.stk, 1, Len(a.s.stk) - n)
        /\ elements \in Seq(Val) /\ Len(elements) = n
    BY <1>3, <2>1, PopNIs DEF SameOut
  <2>7. s \in Seq(Heap!Cell) /\ Stacked(Matched, s, t.stk)
    BY <1>3, <2>1, <2>6, StackedDropped
  <2>8. Stacked(Matched, cells, elements)
    BY <1>3, <2>1, StackedTop DEF TopN
  <2>9. obj'[o] = ArrayValue(n) /\ o \in live'
    BY <2>2, <2>3 DEF Setting, Good, ValuesInv, ObjectsReadable
  <2> HIDE DEF t, elements, v, s, cells
  <2>10. \A k \in 1 .. Len(elements) : Proper(elements[k])
    <3> TAKE k \in 1 .. Len(elements)
    <3> DEFINE r == <<cells[k], elements[k]>>
    <3>1. r \in Matched /\ r[2] = elements[k]
      BY <2>8 DEF Stacked
    <3> HIDE DEF r
    <3>2. QED
      BY <3>1 DEF Matched
  <2>11. <<o, v>> \in Matched'
    BY <2>6, <2>9, <2>10, ArrayStands DEF Setting, Good, v
  <2>12. v \in Val
    BY <2>6, ArrayIs DEF v
  <2>13. b = Onward(a, Push(t, v), a.at + 1)
    BY <1>3, <1>6, <1>7, <1>9 DEF MakeArray, t, v, elements
  <2>14. stack' = Heap!Pushed(s, o)
    BY <2>3 DEF s
  <2>15. QED
    BY <2>4, <2>5, <2>6, <2>7, <2>11, <2>12, <2>13, <2>14, Pushes
<1>10. QED
  BY <1>8, <1>9
-----------------------------------------------------------------------------
(* Instructions that fail, and arithmetic.                                 *)

LEMMA OperandsAre ==
  ASSUME NEW s \in EState
  PROVE  /\ s.stk = <<>> => PopValue(s).type = "null"
         /\ s.stk # <<>> => PopValue(s) = s.stk[Len(s.stk)] /\ PopValue(s) \in Val
         /\ Len(s.stk) = 1 => PopValue(Pop(s)).type = "null"
         /\ Len(s.stk) > 1 => PopValue(Pop(s)) = s.stk[Len(s.stk) - 1]
                              /\ PopValue(Pop(s)) \in Val
<1> DEFINE n == Len(s.stk)
<1>1. s.stk \in Seq(Val) /\ n \in Nat
  BY EParts
<1>2. Null.type = "null"
  BY DEF Null
<1>3. /\ s.stk = <<>> => PopValue(s) = Null
      /\ s.stk # <<>> => PopValue(s) = s.stk[n] /\ PopValue(s) \in Val
                         /\ Pop(s).stk = SubSeq(s.stk, 1, n - 1)
                         /\ Len(Pop(s).stk) = n - 1
      /\ Pop(s) \in EState
  BY PopIs DEF SameOut
<1>4. n > 0 => s.stk # <<>>
  BY <1>1
<1> DEFINE t == Pop(s)
<1>5. ASSUME n = 1
      PROVE  PopValue(t) = Null
  <2>1. Len(t.stk) = 0 /\ t.stk \in Seq(Val)
    BY <1>3, <1>4, <1>5, EParts
  <2>2. t.stk = <<>>
    BY <2>1
  <2> HIDE DEF t
  <2>3. QED
    BY <1>3, <2>2, PopIs DEF t
<1>6. ASSUME n > 1
      PROVE  PopValue(t) = s.stk[n - 1] /\ PopValue(t) \in Val
  <2>1. s.stk # <<>> /\ n - 1 \in 1 .. n - 1
    BY <1>1, <1>4, <1>6
  <2>2. t.stk = SubSeq(s.stk, 1, n - 1) /\ Len(t.stk) = n - 1 /\ t \in EState
    BY <1>3, <2>1
  <2>3. t.stk[n - 1] = s.stk[n - 1]
    BY <1>1, <2>1, <2>2
  <2>4. t.stk # <<>>
    <3> HIDE DEF t, n
    <3>1. Len(<<>>) = 0
      OBVIOUS
    <3>2. Len(t.stk) # 0
      BY <1>1, <1>6, <2>2
    <3>3. QED
      BY <3>1, <3>2
  <2> HIDE DEF t, n
  <2>5. PopValue(t) = t.stk[Len(t.stk)] /\ PopValue(t) \in Val
    BY <2>2, <2>4, PopIs
  <2>6. QED
    BY <2>2, <2>3, <2>5
<1>7. QED
  BY <1>2, <1>3, <1>5, <1>6

\* Arithmetic on what the stack holds.
LEMMA Operands ==
  ASSUME NEW fns, NEW a, Setting(fns, a), pending = Nothing
  PROVE  LET n == Len(stack)
             r == PopValue(a.s)
             l == PopValue(Pop(a.s))
         IN  /\ n \in Nat /\ n = Len(a.s.stk)
             /\ n = 0 => r.type = "null"
             /\ n > 0 => /\ r \in Val /\ TypeAt(n) = r.type
                         /\ r.type # "TYPE_FN_REF" => NumAt(n) = r.num
             /\ n = 1 => l.type = "null"
             /\ n > 1 => /\ l \in Val /\ TypeAt(n - 1) = l.type
                         /\ l.type # "TYPE_FN_REF" => NumAt(n - 1) = l.num
<1> DEFINE n == Len(stack)
           stk == a.s.stk
<1>1. a.s \in EState /\ Stacked(Matched, stack, stk) /\ Len(stk) \in Nat /\ stk \in Seq(Val)
  BY SettingParts
<1>2. n = Len(stk) /\ n \in Nat
  BY <1>1 DEF Stacked
<1>3. \A k \in 1 .. n : /\ TypeAt(k) = stk[k].type
                        /\ stk[k].type # "TYPE_FN_REF" => NumAt(k) = stk[k].num
  <2> HIDE DEF stk
  <2>1. QED
    BY <1>1, <1>2, OnStack DEF TypeAt, NumAt
<1>4. /\ stk = <<>> => PopValue(a.s).type = "null"
      /\ stk # <<>> => PopValue(a.s) = stk[n] /\ PopValue(a.s) \in Val
      /\ n = 1 => PopValue(Pop(a.s)).type = "null"
      /\ n > 1 => PopValue(Pop(a.s)) = stk[n - 1] /\ PopValue(Pop(a.s)) \in Val
  BY <1>1, <1>2, OperandsAre
<1>5. (n = 0 <=> stk = <<>>) /\ (n > 0 => n \in 1 .. n) /\ (n > 1 => n - 1 \in 1 .. n)
  BY <1>1, <1>2
<1> HIDE DEF n, stk
<1>6. /\ n = 0 => PopValue(a.s).type = "null"
      /\ n > 0 => /\ PopValue(a.s) \in Val /\ TypeAt(n) = PopValue(a.s).type
                  /\ PopValue(a.s).type # "TYPE_FN_REF" => NumAt(n) = PopValue(a.s).num
      /\ n > 1 => /\ PopValue(Pop(a.s)) \in Val /\ TypeAt(n - 1) = PopValue(Pop(a.s)).type
                  /\ PopValue(Pop(a.s)).type # "TYPE_FN_REF" =>
                       NumAt(n - 1) = PopValue(Pop(a.s)).num
  BY <1>2, <1>3, <1>4, <1>5
<1>7. QED
  BY <1>2, <1>4, <1>6 DEF n, stk

LEMMA ArithmeticSimulates ==
  ASSUME NEW fns, NEW a, Setting(fns, a), Arithmetic, NEW b, b = Moved(fns, a)
  PROVE  Simulates(fns, b)'
<1> DEFINE n == Len(stack)
           code == Instr.code
           r == PopValue(a.s)
           l == PopValue(Pop(a.s))
<1>1. ~AtEnd /\ code \in ArithmeticCodes /\ pending = Nothing
  BY DEF Arithmetic, Ready
<1>2. /\ n \in Nat /\ n = Len(a.s.stk)
      /\ n = 0 => r.type = "null"
      /\ n > 0 => /\ r \in Val /\ TypeAt(n) = r.type
                  /\ r.type # "TYPE_FN_REF" => NumAt(n) = r.num
      /\ n = 1 => l.type = "null"
      /\ n > 1 => /\ l \in Val /\ TypeAt(n - 1) = l.type
                  /\ l.type # "TYPE_FN_REF" => NumAt(n - 1) = l.num
  BY <1>1, Operands
<1>3. /\ n > 0 => r.type # "null" /\ r.num \in Int
      /\ n > 1 => l.type # "null" /\ l.num \in Int
  BY <1>2, ValParts
<1> DEFINE Made == \E o \in NewAddress :
                     /\ Heap!PushResult(o, FALSE)
                     /\ obj' = [obj EXCEPT ![o] = Computed(code, NumAt(n - 1), NumAt(n))]
<1>4. \/ /\ n = 0 \/ (n = 1 /\ TypeAt(1) = "TYPE_INTEGER")
         /\ Fault("null")
      \/ /\ n > 0
         /\ \/ TypeAt(n) # "TYPE_INTEGER"
            \/ n > 1 /\ TypeAt(n - 1) # "TYPE_INTEGER"
         /\ FailDropping(2, "InternalErr")
         /\ out' = out
      \/ /\ n > 1
         /\ TypeAt(n) = "TYPE_INTEGER" /\ TypeAt(n - 1) = "TYPE_INTEGER"
         /\ DivisionTraps(code, NumAt(n - 1), NumAt(n))
         /\ Fault("division")
      \/ /\ n > 1
         /\ TypeAt(n) = "TYPE_INTEGER" /\ TypeAt(n - 1) = "TYPE_INTEGER"
         /\ ~DivisionTraps(code, NumAt(n - 1), NumAt(n))
         /\ Made /\ Advance /\ NoError /\ pending' = pending /\ out' = out
  BY DEF Arithmetic
<1>5. b = Onward(a, Apply(a.s, code), a.at + 1)
  <2>1. Moved(fns, a) = Onward(a, Effect(Instr, a.s), a.at + 1)
    BY <1>1, MovesOn DEF ArithmeticCodes
  <2>2. Effect(Instr, a.s) = Apply(a.s, code)
    BY <1>1 DEF Effect, PushCodes, ArithmeticCodes
  <2>3. QED
    BY <2>1, <2>2
<1>6. Apply(a.s, code) =
        IF r.type = "null" THEN Ended(a.s, "null")
        ELSE IF r.type # "TYPE_INTEGER" THEN Ended(a.s, "InternalErr")
        ELSE IF l.type = "null" THEN Ended(a.s, "null")
        ELSE IF l.type # "TYPE_INTEGER" THEN Ended(a.s, "InternalErr")
        ELSE IF DivisionTraps(code, l.num, r.num) THEN Ended(a.s, "division")
        ELSE Push(PopN(a.s, 2), Scalar(Computed(code, l.num, r.num)))
  BY DEF Apply
<1>7. {"null", "division", "InternalErr"} \subseteq Endings \ {"none", "uninitialised", "stale"}
  BY NamesOfEnds
<1> HIDE DEF n, code, r, l, Made
<1>8. CASE (n = 0 \/ (n = 1 /\ TypeAt(1) = "TYPE_INTEGER")) /\ Fault("null")
  <2>1. Apply(a.s, code) = Ended(a.s, "null")
    BY <1>2, <1>3, <1>6, <1>8
  <2>2. QED
    BY <1>5, <1>7, <1>8, <2>1, Breaks
<1>9. CASE /\ n > 0
           /\ \/ TypeAt(n) # "TYPE_INTEGER"
              \/ n > 1 /\ TypeAt(n - 1) # "TYPE_INTEGER"
           /\ FailDropping(2, "InternalErr")
           /\ out' = out
  <2>1. Apply(a.s, code) = Ended(a.s, "InternalErr")
    BY <1>2, <1>3, <1>6, <1>9
  <2>2. QED
    BY <1>5, <1>7, <1>9, <2>1, Ends
<1>10. CASE /\ n > 1
            /\ TypeAt(n) = "TYPE_INTEGER" /\ TypeAt(n - 1) = "TYPE_INTEGER"
            /\ DivisionTraps(code, NumAt(n - 1), NumAt(n))
            /\ Fault("division")
  <2>1. n > 0 /\ NumAt(n) = r.num /\ NumAt(n - 1) = l.num
        /\ r.type = "TYPE_INTEGER" /\ l.type = "TYPE_INTEGER"
    BY <1>2, <1>10
  <2>2. Apply(a.s, code) = Ended(a.s, "division")
    BY <1>6, <1>10, <2>1
  <2>3. QED
    BY <1>5, <1>7, <1>10, <2>2, Breaks
<1>11. CASE /\ n > 1
            /\ TypeAt(n) = "TYPE_INTEGER" /\ TypeAt(n - 1) = "TYPE_INTEGER"
            /\ ~DivisionTraps(code, NumAt(n - 1), NumAt(n))
            /\ Made /\ Advance /\ NoError /\ pending' = pending /\ out' = out
  <2>1. n > 0 /\ NumAt(n) = r.num /\ NumAt(n - 1) = l.num
        /\ r.type = "TYPE_INTEGER" /\ l.type = "TYPE_INTEGER"
    BY <1>2, <1>11
  <2> DEFINE v == Computed(code, l.num, r.num)
             t == PopN(a.s, 2)
             s == Heap!Dropped(stack, 2)
  <2>2. ~DivisionTraps(code, l.num, r.num)
    BY <1>11, <2>1
  <2>3. Apply(a.s, code) = Push(t, Scalar(v))
    BY <1>6, <2>1, <2>2
  <2>4. PICK o \in NewAddress :
          /\ Heap!PushResult(o, FALSE)
          /\ obj' = [obj EXCEPT ![o] = Computed(code, NumAt(n - 1), NumAt(n))]
    BY <1>11 DEF Made
  <2>5. /\ o \in Object /\ o \in live' /\ stack' = Heap!Pushed(s, o)
        /\ frames' = frames /\ phase' = phase /\ phase = "run"
    BY <2>4, NewObject DEF Heap!PushResult
  <2>6. MovesBehind
    BY <1>1, <1>11, <2>5 DEF MovesBehind, Advance, NoError
  <2>7. v \in Basic /\ v.type \in {"TYPE_INTEGER", "TYPE_BOOLEAN"}
    BY <1>1, <1>3, <1>11, <2>1, <2>2, ComputedIs
  <2>8. obj'[o] = v
    BY <2>1, <2>4, <2>5 DEF Setting, Good, ValuesInv, ObjectsReadable
  <2>9. /\ a.s \in EState /\ stack \in Seq(Heap!Cell) /\ a.s.stk \in Seq(Val)
        /\ Stacked(Matched, stack, a.s.stk)
    BY <1>1, SettingParts
  <2>10. 2 \in 0 .. Len(a.s.stk)
    BY <1>2, <1>11
  <2>11. /\ SameOut(a.s, t) /\ t.table = a.s.table /\ t \in EState
         /\ t.stk = SubSeq(a.s.stk, 1, Len(a.s.stk) - 2)
    BY <2>9, <2>10, PopNIs DEF SameOut
  <2>12. s \in Seq(Heap!Cell) /\ Stacked(Matched, s, t.stk)
    BY <2>9, <2>10, <2>11, StackedDropped
  <2> HIDE DEF v, t, s
  <2>13. <<o, Scalar(v)>> \in Matched' /\ Scalar(v) \in Val
    BY <2>5, <2>7, <2>8, ScalarStands, ScalarIs DEF Setting, Good
  <2>14. b = Onward(a, Push(t, Scalar(v)), a.at + 1)
    BY <1>5, <2>3
  <2>15. QED
    BY <1>11, <2>5, <2>6, <2>11, <2>12, <2>13, <2>14, Pushes
<1>12. QED
  BY <1>4, <1>8, <1>9, <1>10, <1>11
-----------------------------------------------------------------------------
(* Variables and jumps.                                                    *)

\* What the variables of the function at hand are.
LEMMA InTable ==
  ASSUME NEW fns, NEW a, Setting(fns, a), NEW x \in Name
  PROVE  /\ Heap!LastFrame[x] \in Object <=> a.s.table[x] # Null
         /\ a.s.table[x] # Null => /\ a.s.table[x] \in Val
                                   /\ <<Heap!LastFrame[x], a.s.table[x]>> \in Matched
<1>1. Tabled(Matched, Heap!LastFrame, a.s.table) /\ a.s.table \in Variables
  BY SettingParts DEF Framed, Heap!LastFrame
<1>2. \A y, v : <<y, v>> \in Matched => y \in Object
  <2> TAKE y, v
  <2> DEFINE r == <<y, v>>
  <2>1. r[1] = y
    OBVIOUS
  <2> HIDE DEF r
  <2>2. r \in Matched => y \in Object
    BY <2>1 DEF Matched
  <2>3. QED
    BY <2>2 DEF r
<1>3. QED
  BY <1>1, <1>2 DEF Tabled, Variables

LEMMA LookupSimulates ==
  ASSUME NEW fns, NEW a, Setting(fns, a), CODE_PUSH_LOOKUP, NEW b, b = Moved(fns, a)
  PROVE  Simulates(fns, b)'
<1> DEFINE x == Instr.arg1
           o == Heap!LastFrame[x]
           v == a.s.table[x]
<1>1. ~AtEnd /\ Instr.code = "CODE_PUSH_LOOKUP" /\ pending = Nothing
  BY DEF CODE_PUSH_LOOKUP, Ready
<1>2. x \in Name
  BY <1>1, SettingParts DEF WellTyped
<1>3. b = Onward(a, LookupName(a.s, x), a.at + 1)
  <2>1. Moved(fns, a) = Onward(a, Effect(Instr, a.s), a.at + 1)
    BY <1>1, MovesOn
  <2>2. Effect(Instr, a.s) = LookupName(a.s, x)
    BY <1>1 DEF Effect, PushCodes, ArithmeticCodes
  <2>3. QED
    BY <2>1, <2>2
<1>4. /\ frames' = frames /\ out' = out
      /\ stack' = Heap!Pushed(stack, IF o \in Object THEN o ELSE NULL)
      /\ phase' = IF o \in Object THEN "run" ELSE "stopped"
      /\ IF phase' = "stopped" THEN Fail("LookupErr")
         ELSE Advance /\ NoError /\ pending' = pending
  BY DEF CODE_PUSH_LOOKUP, Heap!Lookup
<1>5. /\ o \in Object <=> v # Null
      /\ v # Null => v \in Val /\ <<o, v>> \in Matched
  BY <1>2, InTable
<1>6. /\ a.s \in EState /\ stack \in Seq(Heap!Cell) /\ Stacked(Matched, stack, a.s.stk)
      /\ Alike(out, a.s.out)
  BY <1>1, SettingParts
<1>7. CASE v = Null
  <2> DEFINE t == Ended(a.s, "LookupErr")
  <2>1. "LookupErr" \in Endings \ {"none"}
    BY NamesOfEnds
  <2>2. t.end = "LookupErr" /\ Alike(out', t.out)
    BY <1>4, <1>6, <2>1, EndedIs
  <2>3. b = Onward(a, t, a.at + 1)
    BY <1>3, <1>7 DEF LookupName
  <2>4. phase' = "stopped" /\ err' = "LookupErr" /\ fault' = fault
    BY <1>4, <1>5, <1>7 DEF Fail
  <2> HIDE DEF t
  <2>5. QED
    BY <2>1, <2>2, <2>3, <2>4, Fails
<1>8. CASE v # Null
  <2>1. o \in Object /\ v \in Val /\ <<o, v>> \in Matched
    BY <1>5, <1>8
  <2>2. MovesBehind
    BY <1>1, <1>4, <2>1 DEF MovesBehind, Advance, NoError
  <2>3. b = Onward(a, Push(a.s, v), a.at + 1)
    BY <1>3, <1>8 DEF LookupName
  <2>4. stack' = Heap!Pushed(stack, o)
    BY <1>4, <2>1
  <2>5. <<o, v>> \in Matched'
    <3> DEFINE r == <<o, v>>
    <3>1. r[1] = o
      OBVIOUS
    <3>2. o \in live'
      <4>1. frames \in Seq(Heap!Table) /\ frames # <<>>
        <5>1. frames \in Seq(Heap!Table) /\ Len(frames) = Len(a.saved) + 1 /\ Len(a.saved) \in Nat
          BY SettingParts DEF Framed, Setting, Good, HeapInv, Heap!TypeOK
        <5>2. QED
          BY <5>1
      <4>2. Len(frames) \in 1 .. Len(frames')
        BY <1>4, <4>1
      <4>3. frames'[Len(frames)][x] = o
        BY <1>4 DEF Heap!LastFrame
      <4>4. QED
        BY <1>2, <2>1, <4>2, <4>3, RootedNext DEF Setting
    <3> HIDE DEF r
    <3>3. r \in Matched
      BY <2>1 DEF r
    <3>4. r \in Matched'
      BY <3>1, <3>2, <3>3, MatchedKept DEF Keeps
    <3>5. QED
      BY <3>4 DEF r
  <2>6. SameOut(a.s, a.s)
    BY <1>6 DEF SameOut
  <2> HIDE DEF o, v
  <2>7. QED
    BY <1>4, <1>6, <2>1, <2>2, <2>3, <2>4, <2>5, <2>6, Pushes
<1>9. QED
  BY <1>7, <1>8

\* The stack without its top.
LEMMA PoppedIs ==
  ASSUME NEW fns, NEW a, Setting(fns, a), pending = Nothing
  PROVE  /\ Heap!Popped \in Seq(Heap!Cell) /\ Stacked(Matched, Heap!Popped, Pop(a.s).stk)
         /\ Len(Heap!Popped) <= Len(stack)
         /\ \A k \in 1 .. Len(Heap!Popped) : Heap!Popped[k] = stack[k]
         /\ stack = <<>> <=> a.s.stk = <<>>
         /\ stack = <<>> => Heap!TopOrNull = NULL /\ PopValue(a.s) = Null
         /\ stack # <<>> => /\ <<Heap!TopOrNull, PopValue(a.s)>> \in Matched
                            /\ Heap!Popped = Heap!Dropped(stack, 1)
                            /\ 1 \in 0 .. Len(stack)
<1>1. /\ a.s \in EState /\ stack \in Seq(Heap!Cell) /\ Stacked(Matched, stack, a.s.stk)
      /\ a.s.stk \in Seq(Val)
  BY SettingParts
<1>2. Len(stack) = Len(a.s.stk) /\ Len(stack) \in Nat
  BY <1>1 DEF Stacked
<1>3. stack = <<>> <=> a.s.stk = <<>>
  BY <1>1, <1>2
<1>4. CASE stack = <<>>
  <2>1. Heap!TopOrNull = NULL /\ Heap!Popped = stack
    BY <1>4 DEF Heap!TopOrNull, Heap!Popped
  <2>2. PopValue(a.s) = Null /\ Pop(a.s).stk = a.s.stk
    BY <1>1, <1>3, <1>4, PopIs
  <2>3. QED
    BY <1>1, <1>2, <1>3, <1>4, <2>1, <2>2
<1>5. CASE stack # <<>>
  <2> DEFINE n == Len(stack)
  <2>1. Heap!TopOrNull = stack[n] /\ Heap!Popped = Heap!Dropped(stack, 1)
    BY <1>5 DEF Heap!TopOrNull, Heap!Popped
  <2>2. n \in 1 .. Len(a.s.stk) /\ 1 \in 0 .. Len(a.s.stk)
    BY <1>1, <1>2, <1>5
  <2>3. PopValue(a.s) = a.s.stk[n] /\ Pop(a.s).stk = SubSeq(a.s.stk, 1, Len(a.s.stk) - 1)
    BY <1>1, <1>2, <1>3, <1>5, PopIs
  <2>4. <<stack[n], a.s.stk[n]>> \in Matched
    BY <1>1, <2>2 DEF Stacked
  <2>5. /\ Heap!Dropped(stack, 1) \in Seq(Heap!Cell)
        /\ Stacked(Matched, Heap!Dropped(stack, 1), SubSeq(a.s.stk, 1, Len(a.s.stk) - 1))
    BY <1>1, <2>2, StackedDropped
  <2>6. /\ Len(Heap!Dropped(stack, 1)) = n - 1
        /\ \A k \in 1 .. n - 1 : Heap!Dropped(stack, 1)[k] = stack[k]
    BY <1>1, <1>2, <2>2, DroppedFits
  <2>7. n - 1 <= n
    BY <1>2
  <2> HIDE DEF n
  <2>8. QED
    BY <1>2, <1>3, <1>5, <2>1, <2>2, <2>3, <2>4, <2>5, <2>6, <2>7 DEF n
<1>6. QED
  BY <1>4, <1>5

LEMMA AssignSimulates ==
  ASSUME NEW fns, NEW a, Setting(fns, a), CODE_ASSIGN, NEW b, b = Moved(fns, a)
  PROVE  Simulates(fns, b)'
<1> DEFINE x == Instr.arg1
           t == Bind(a.s, x)
           n == Len(frames)
           c == Heap!TopOrNull
           v == PopValue(a.s)
<1>1. ~AtEnd /\ Instr.code = "CODE_ASSIGN" /\ pending = Nothing
  BY DEF CODE_ASSIGN, Ready
<1>2. x \in Name
  BY <1>1, SettingParts DEF WellTyped
<1>3. b = Onward(a, t, a.at + 1)
  <2>1. Moved(fns, a) = Onward(a, Effect(Instr, a.s), a.at + 1)
    BY <1>1, MovesOn
  <2>2. Effect(Instr, a.s) = t
    BY <1>1 DEF Effect, PushCodes, ArithmeticCodes
  <2>3. QED
    BY <2>1, <2>2
<1>4. /\ frames' = [frames EXCEPT ![n][x] = c] /\ stack' = Heap!Popped
      /\ phase' = "run" /\ out' = out /\ Advance /\ NoError /\ pending' = pending
  BY DEF CODE_ASSIGN, Heap!Assign
<1>5. /\ a.s \in EState /\ a.s.end = "none" /\ Alike(out, a.s.out) /\ cur_fn = a.fn /\ pointer = a.at
      /\ a.at + 1 \in Nat /\ a.s.table \in Variables
      /\ Framed(Matched, frames, returns, a.saved, a.s.table) /\ Len(a.saved) \in Nat
  BY SettingParts
<1>6. /\ SameOut(a.s, t) /\ t \in EState
      /\ t.stk = Pop(a.s).stk
      /\ t.table = [a.s.table EXCEPT ![x] = v]
  BY <1>2, <1>5, BindIs DEF SameOut
<1>7. /\ Stacked(Matched, stack', t.stk)
      /\ (c = NULL /\ v = Null) \/ <<c, v>> \in Matched
  BY <1>1, <1>4, <1>6, PoppedIs
<1> HIDE DEF x, t, v, c
<1>8. Stacked(Matched', stack', t.stk)
  <2>1. t.stk \in Seq(Val)
    BY <1>6, EParts
  <2>2. Len(stack') <= Len(stack') /\ \A k \in 1 .. Len(stack') : stack'[k] = stack'[k]
    BY <1>7, <2>1 DEF Stacked
  <2> DEFINE s == stack'
  <2>3. Stacked(Matched', s, t.stk)
    BY <1>7, <2>1, <2>2, StackKept
  <2>4. QED
    BY <2>3
<1>9. Framed(Matched, frames', returns', a.saved, t.table)
  <2>1. frames \in Seq(Heap!Table) /\ n \in Nat /\ n = Len(a.saved) + 1
    BY <1>5 DEF Setting, Good, HeapInv, Heap!TypeOK, Framed
  <2>2. n \in 1 .. n
    BY <1>5, <2>1
  <2>3. /\ Len(frames') = n
        /\ \A k \in 1 .. n - 1 : frames'[k] = frames[k]
        /\ frames'[n] = [frames[n] EXCEPT ![x] = c]
        /\ returns' = returns
    BY <1>4, <2>1, <2>2 DEF Advance
  <2>4. frames[n] \in Heap!Table
    BY <2>1, <2>2
  <2>5. frames'[n][x] = c /\ \A y \in Name \ {x} : frames'[n][y] = frames[n][y]
    BY <1>2, <2>3, <2>4 DEF Heap!Table
  <2>6. t.table[x] = v /\ \A y \in Name \ {x} : t.table[y] = a.s.table[y]
    BY <1>2, <1>5, <1>6 DEF Variables
  <2>7. NULL \notin Object
    BY VmAssumption
  <2>8. v = Null <=> c = NULL
    <3>1. ASSUME <<c, v>> \in Matched
          PROVE  c \in Object /\ v \in Val
      <4> DEFINE r == <<c, v>>
      <4>1. r[1] = c /\ r[2] = v
        OBVIOUS
      <4> HIDE DEF r
      <4>2. r \in Matched => c \in Object /\ v \in Val
        BY <4>1 DEF Matched
      <4>3. QED
        BY <3>1, <4>2 DEF r
    <3>2. v \in Val => v # Null
      BY ValParts
    <3>3. QED
      BY <1>7, <2>7, <3>1, <3>2
  <2>9. Tabled(Matched, frames[n], a.s.table)
    BY <1>5 DEF Framed
  <2>10. Tabled(Matched, frames'[n], t.table)
    <3> SUFFICES ASSUME NEW y \in Name
                 PROVE  IF t.table[y] = Null THEN frames'[n][y] \notin Object
                        ELSE <<frames'[n][y], t.table[y]>> \in Matched
      BY DEF Tabled
    <3>1. CASE y = x
      BY <1>7, <2>5, <2>6, <2>7, <2>8, <3>1
    <3>2. CASE y # x
      <4>1. frames'[n][y] = frames[n][y] /\ t.table[y] = a.s.table[y]
        BY <2>5, <2>6, <3>2
      <4>2. QED
        BY <2>9, <4>1 DEF Tabled
    <3>3. QED
      BY <3>1, <3>2
  <2>11. \A k \in 1 .. Len(a.saved) : k \in 1 .. n - 1
    BY <2>1
  <2> HIDE DEF n
  <2>12. QED
    BY <1>5, <2>1, <2>3, <2>10, <2>11 DEF Framed, n
<1>10. /\ b.s = t /\ b.at = a.at + 1 /\ b.fn = a.fn /\ b.saved = a.saved /\ b \in Machine(fns)
  BY <1>3, <1>5, <1>6, OnwardIs DEF Setting
<1>11. cur_fn' = b.fn /\ pointer' = b.at /\ err' = err /\ fault' = fault /\ pending' = Nothing
  BY <1>1, <1>4, <1>5, <1>10 DEF Advance, NoError
<1>12. b.s.end = "none" /\ Alike(out', b.s.out)
  BY <1>4, <1>5, <1>6, <1>10 DEF SameOut
<1>13. QED
  BY <1>4, <1>8, <1>9, <1>10, <1>11, <1>12, Continue

LEMMA JumpSimulates ==
  ASSUME NEW fns, NEW a, Setting(fns, a), CODE_JUMP, NEW b, b = Moved(fns, a)
  PROVE  Simulates(fns, b)'
<1>1. ~AtEnd /\ Instr.code = "CODE_JUMP" /\ pending = Nothing
  BY DEF CODE_JUMP, Ready
<1>2. ~Stuck(fns, a) /\ At(fns, a) = Instr /\ Instr.arg2 \in Nat
  BY <1>1, SettingParts DEF WellTyped
<1>3. b = Onward(a, a.s, Instr.arg2)
  BY <1>1, <1>2 DEF Moved
<1>4. /\ stack' = stack /\ frames' = frames /\ returns' = returns /\ cur_fn' = cur_fn
      /\ pointer' = Instr.arg2 /\ err' = err /\ fault' = fault /\ pending' = Nothing
      /\ out' = out /\ phase' = phase
  BY <1>1 DEF CODE_JUMP, NoError, heapVars
<1>5. phase' \notin {"stopped", "crashed"}
  BY <1>4 DEF Setting, Left
<1>6. /\ a.s \in EState /\ a.s.end = "none" /\ Alike(out', a.s.out) /\ a.s.stk \in Seq(Val)
      /\ Stacked(Matched, stack, a.s.stk) /\ stack \in Seq(Heap!Cell)
  BY <1>1, <1>4, SettingParts
<1>7. Stacked(Matched', stack', a.s.stk)
  <2>1. Len(stack) <= Len(stack') /\ \A k \in 1 .. Len(stack) : stack'[k] = stack[k]
    BY <1>4, <1>6
  <2>2. Stacked(Matched', stack, a.s.stk)
    BY <1>6, <2>1, StackKept
  <2>3. QED
    BY <1>4, <2>2
<1> DEFINE t == a.s
           n == Instr.arg2
<1>8. t \in EState /\ n \in Nat /\ t.table = a.s.table /\ b = Onward(a, t, n) /\ pointer' = n
  BY <1>2, <1>3, <1>4, <1>6
<1>9. t.end = "none" /\ Alike(out', t.out) /\ Stacked(Matched', stack', t.stk)
  BY <1>6, <1>7
<1> HIDE DEF t, n
<1>10. QED
  BY <1>4, <1>5, <1>8, <1>9, GoesOn

\* The test takes the condition off the stack.
LEMMA TestedSimulates ==
  ASSUME NEW fns, NEW a, Setting(fns, a), pending = Nothing, stack # <<>>,
         Heap!Drop(1, FALSE), NEW n \in Nat, pointer' = n,
         cur_fn' = cur_fn, returns' = returns, err' = err, fault' = fault,
         pending' = pending, out' = out, NEW b, b = Onward(a, Pop(a.s), n)
  PROVE  Simulates(fns, b)'
<1>1. /\ stack' = Heap!Popped /\ frames' = frames /\ phase' \notin {"stopped", "crashed"}
  BY DEF Heap!Drop, Heap!Popped
<1> DEFINE s == Heap!Popped
           t == Pop(a.s)
<1>2. a.s \in EState /\ a.s.end = "none" /\ Alike(out, a.s.out)
  BY SettingParts
<1>3. t \in EState /\ t.end = "none" /\ Alike(out', t.out) /\ t.table = a.s.table
  BY <1>2, PopIs DEF SameOut
<1>4. s \in Seq(Heap!Cell) /\ Stacked(Matched, s, t.stk)
  BY PoppedIs
<1> HIDE DEF s, t
<1>5. Stacked(Matched', stack', t.stk)
  <2>1. t.stk \in Seq(Val) /\ Len(s) \in Nat /\ stack' = s
    BY <1>1, <1>3, <1>4, EParts DEF s
  <2>2. Stacked(Matched', s, t.stk)
    BY <1>4, <2>1, StackKept
  <2>3. QED
    BY <2>1, <2>2
<1>6. b = Onward(a, t, n) /\ pending' = Nothing
  BY DEF t
<1>7. QED
  BY <1>1, <1>3, <1>5, <1>6, GoesOn

LEMMA JumpIfFalseSimulates ==
  ASSUME NEW fns, NEW a, Setting(fns, a), CODE_JUMP_IF_FALSE, NEW b, b = Moved(fns, a)
  PROVE  Simulates(fns, b)'
<1> DEFINE v == PopValue(a.s)
           top == obj[Heap!TopOrNull]
<1>1. ~AtEnd /\ Instr.code = "CODE_JUMP_IF_FALSE" /\ pending = Nothing
  BY DEF CODE_JUMP_IF_FALSE, Ready
<1>2. ~Stuck(fns, a) /\ At(fns, a) = Instr /\ Instr.arg2 \in Nat
  BY <1>1, SettingParts DEF WellTyped
<1>3. b = Tested(Instr, a)
  BY <1>1, <1>2 DEF Moved
<1>4. b = IF v.type = "null" THEN Onward(a, Ended(a.s, "null"), a.at)
          ELSE IF v.type # "TYPE_BOOLEAN" THEN Onward(a, Ended(a.s, "TypeErr"), a.at)
          ELSE Onward(a, Pop(a.s), a.at + 1 + (IF v.num = 1 THEN 0 ELSE Instr.arg2))
  BY <1>3 DEF Tested
<1>5. a.at \in Nat /\ pointer = a.at
  BY SettingParts
<1> DEFINE Wrong == FailDropping(1, "TypeErr")
           Right == /\ Heap!Drop(1, FALSE)
                    /\ pointer' = AfterTest(top.num = 1)
                    /\ NoError
                    /\ UNCHANGED <<prog, blob, cur_fn, returns, obj, pending>>
<1>6. IF stack = <<>> THEN Fault("null")
      ELSE /\ (top.type # "TYPE_BOOLEAN" /\ Wrong) \/ (top.type = "TYPE_BOOLEAN" /\ Right)
           /\ out' = out
  BY DEF CODE_JUMP_IF_FALSE
<1>7. CASE stack = <<>>
  <2>1. v = Null
    BY <1>1, <1>7, PoppedIs
  <2>2. b = Onward(a, Ended(a.s, "null"), a.at)
    BY <1>4, <2>1 DEF Null
  <2>3. "null" \in Endings \ {"none", "uninitialised", "stale"} /\ Fault("null")
    BY <1>6, <1>7, NamesOfEnds
  <2> DEFINE f == "null"
  <2> HIDE DEF f
  <2>4. f \in Endings \ {"none", "uninitialised", "stale"} /\ Fault(f)
        /\ b = Onward(a, Ended(a.s, f), a.at)
    BY <2>2, <2>3 DEF f
  <2>5. QED
    BY <2>4, Breaks
<1>8. CASE stack # <<>>
  <2>1. /\ v \in Val /\ top.type = v.type /\ (v.type # "TYPE_FN_REF" => top.num = v.num)
    <3> DEFINE n == Len(stack)
    <3>1. /\ n \in Nat /\ n > 0 /\ Heap!TopOrNull = stack[n]
      <4>1. stack \in Seq(Heap!Cell)
        BY SettingParts
      <4>2. QED
        BY <1>8, <4>1 DEF Heap!TopOrNull
    <3>2. v \in Val /\ TypeAt(n) = v.type /\ (v.type # "TYPE_FN_REF" => NumAt(n) = v.num)
      BY <1>1, <3>1, Operands
    <3>3. QED
      BY <3>1, <3>2 DEF TypeAt, NumAt
  <2>2. v.type # "null"
    BY <2>1, ValParts
  <2> HIDE DEF Wrong, Right
  <2>3. CASE v.type # "TYPE_BOOLEAN"
    <3>1. Wrong /\ out' = out
      BY <1>6, <1>8, <2>1, <2>3
    <3> DEFINE e == "TypeErr"
    <3> HIDE DEF e
    <3>2. e \in Endings /\ e # "none" /\ b = Onward(a, Ended(a.s, e), a.at)
      BY <1>4, <2>2, <2>3, NamesOfEnds DEF e
    <3>3. FailDropping(1, e)
      BY <3>1 DEF Wrong, e
    <3>4. QED
      BY <3>1, <3>2, <3>3, Ends
  <2>4. CASE v.type = "TYPE_BOOLEAN"
    <3>1. Right /\ out' = out
      BY <1>6, <1>8, <2>1, <2>4
    <3> DEFINE n == a.at + 1 + (IF v.num = 1 THEN 0 ELSE Instr.arg2)
    <3>2. n \in Nat /\ b = Onward(a, Pop(a.s), n)
      BY <1>2, <1>4, <1>5, <2>2, <2>4
    <3>3. top.num = v.num
      BY <2>1, <2>4
    <3>4. pointer' = n
      BY <1>5, <3>1, <3>3 DEF Right, AfterTest
    <3>5. /\ Heap!Drop(1, FALSE) /\ cur_fn' = cur_fn /\ returns' = returns
          /\ err' = err /\ fault' = fault /\ pending' = pending
      BY <3>1 DEF Right, NoError
    <3> HIDE DEF n
    <3>6. QED
      BY <1>1, <1>8, <3>1, <3>2, <3>4, <3>5, TestedSimulates
  <2>5. QED
    BY <2>3, <2>4
<1>9. QED
  BY <1>7, <1>8
-----------------------------------------------------------------------------
(* Calls and returns.                                                      *)

LEMMA EnterSimulates ==
  ASSUME NEW fns, NEW a, Setting(fns, a), Enter, out' = out, pending' = pending,
         NEW b, b = Moved(fns, a)
  PROVE  Simulates(fns, b)'
<1> DEFINE x == Instr.arg1
           caller == [table |-> a.s.table, fn |-> a.fn, addr |-> a.at + 1]
           n == Len(frames)
<1>1. ~AtEnd /\ Instr.code = "CODE_CALL" /\ pending = Nothing
  BY DEF Enter, Ready
<1>2. ~Stuck(fns, a) /\ At(fns, a) = Instr /\ fns = Functions /\ Fit(fns) /\ a \in Machine(fns)
  BY <1>1, SettingParts DEF Setting
<1>3. Callees(fns, x) = FnsNamed(x) /\ FnsNamed(x) # {} /\ Callee(fns, x) = FirstNamed(x)
  BY <1>2 DEF Callees, Callee, FnsNamed, FirstNamed, Enter
<1>4. b = Entered(fns, Instr, a) /\ b \in Machine(fns)
  BY <1>1, <1>2, <1>3, MovedIs DEF Moved, Calls
<1>5. /\ a.s \in EState /\ a.s.end = "none" /\ Alike(out', a.s.out) /\ a.s.stk \in Seq(Val)
      /\ Stacked(Matched, stack, a.s.stk) /\ stack \in Seq(Heap!Cell)
      /\ pointer = a.at /\ cur_fn = a.fn /\ a.at \in Nat /\ a.saved \in Seq(Caller(fns))
      /\ Framed(Matched, frames, returns, a.saved, a.s.table)
  BY <1>1, SettingParts
<1>6. /\ frames' = Append(frames, Heap!EmptyTable) /\ stack' = stack /\ phase' = "run"
      /\ returns' = Append(returns, ReturnTo) /\ cur_fn' = FirstNamed(x) /\ pointer' = 0
      /\ err' = err /\ fault' = fault /\ pending' = Nothing
  BY <1>1 DEF Enter, Heap!Call, NoError
<1>7. /\ b.s = [a.s EXCEPT !.table = NoVariables] /\ b.fn = Callee(fns, x) /\ b.at = 0
      /\ b.saved = Append(a.saved, caller)
  BY <1>4 DEF Entered
<1>8. b.s.end = "none" /\ Alike(out', b.s.out) /\ b.s.stk = a.s.stk /\ b.s.table = NoVariables
  BY <1>5, <1>7, EParts
<1>9. Stacked(Matched', stack', b.s.stk)
  <2>1. Len(stack) <= Len(stack') /\ \A k \in 1 .. Len(stack) : stack'[k] = stack[k]
    BY <1>5, <1>6
  <2>2. Stacked(Matched', stack, a.s.stk)
    BY <1>5, <2>1, StackKept
  <2>3. QED
    BY <1>6, <1>8, <2>2
<1>10. frames \in Seq(Heap!Table) /\ returns \in Seq([addr : Nat, fn : Nat])
       /\ n = Len(a.saved) + 1 /\ Len(returns) = n /\ Len(a.saved) \in Nat
  BY <1>5 DEF Setting, Good, HeapInv, Heap!TypeOK, Inv, Stacks, Framed
<1>11. Tabled(Matched, Heap!EmptyTable, NoVariables)
  <2>1. \A y \in Name : NoVariables[y] = Null /\ Heap!EmptyTable[y] \notin Object
    BY VmAssumption DEF NoVariables, Heap!EmptyTable
  <2>2. QED
    BY <2>1 DEF Tabled
<1> DEFINE fr2 == Append(frames, Heap!EmptyTable)
           rt2 == Append(returns, ReturnTo)
           sv2 == Append(a.saved, caller)
<1> HIDE DEF caller
<1>12. /\ Len(fr2) = n + 1 /\ fr2[n + 1] = Heap!EmptyTable /\ \A k \in 1 .. n : fr2[k] = frames[k]
       /\ Len(rt2) = n + 1 /\ rt2[n + 1] = ReturnTo /\ \A k \in 1 .. n : rt2[k] = returns[k]
       /\ Len(sv2) = n /\ sv2[n] = caller /\ \A k \in 1 .. n - 1 : sv2[k] = a.saved[k]
  <2>1. Len(fr2) = n + 1 /\ fr2[n + 1] = Heap!EmptyTable /\ \A k \in 1 .. n : fr2[k] = frames[k]
    BY <1>10
  <2>2. Len(rt2) = n + 1 /\ rt2[n + 1] = ReturnTo /\ \A k \in 1 .. n : rt2[k] = returns[k]
    BY <1>10
  <2>3. Len(sv2) = n /\ sv2[n] = caller /\ \A k \in 1 .. n - 1 : sv2[k] = a.saved[k]
    BY <1>5, <1>10
  <2>4. QED
    BY <2>1, <2>2, <2>3
<1>13. ReturnTo.fn = a.fn /\ ReturnTo.addr + 1 = a.at + 1
       /\ caller.table = a.s.table /\ caller.fn = a.fn /\ caller.addr = a.at + 1
  BY <1>5 DEF ReturnTo, caller
<1> HIDE DEF fr2, rt2, sv2, n
<1>14. Framed(Matched, fr2, rt2, sv2, NoVariables)
  <2>1. /\ Tabled(Matched, frames[n], a.s.table)
        /\ \A k \in 1 .. n - 1 : /\ Tabled(Matched, frames[k], a.saved[k].table)
                                 /\ returns[k + 1].fn = a.saved[k].fn
                                 /\ returns[k + 1].addr + 1 = a.saved[k].addr
    BY <1>5, <1>10 DEF Framed, n
  <2>2. n \in Nat /\ n > 0
    BY <1>10
  <2>3. ASSUME NEW k \in 1 .. n
        PROVE  /\ Tabled(Matched, fr2[k], sv2[k].table)
               /\ rt2[k + 1].fn = sv2[k].fn
               /\ rt2[k + 1].addr + 1 = sv2[k].addr
    <3>1. CASE k = n
      BY <1>12, <1>13, <2>1, <2>2, <3>1
    <3>2. CASE k # n
      <4>1. k \in 1 .. n - 1 /\ k + 1 \in 1 .. n
        BY <2>2, <3>2
      <4>2. fr2[k] = frames[k] /\ rt2[k + 1] = returns[k + 1] /\ sv2[k] = a.saved[k]
        BY <1>12, <4>1
      <4>3. QED
        BY <2>1, <4>1, <4>2
    <3>3. QED
      BY <3>1, <3>2
  <2>4. QED
    BY <1>11, <1>12, <2>3 DEF Framed
<1>15. Framed(Matched, frames', returns', b.saved, b.s.table)
  BY <1>6, <1>7, <1>8, <1>14 DEF fr2, rt2, sv2, caller
<1>16. cur_fn' = b.fn /\ pointer' = b.at /\ phase' \notin {"stopped", "crashed"}
  BY <1>3, <1>6, <1>7
<1>17. QED
  BY <1>4, <1>6, <1>8, <1>9, <1>15, <1>16, Continue

LEMMA RetSimulates ==
  ASSUME NEW fns, NEW a, Setting(fns, a), CODE_RET, NEW b, b = Moved(fns, a)
  PROVE  Simulates(fns, b)'
<1> DEFINE n == Len(frames)
           m == Len(a.saved)
           to == a.saved[m]
<1>1. ~AtEnd /\ Instr.code = "CODE_RET" /\ pending = Nothing
  BY DEF CODE_RET, Ready
<1>2. ~Stuck(fns, a) /\ At(fns, a) = Instr /\ Fit(fns) /\ a \in Machine(fns)
  BY <1>1, SettingParts DEF Setting
<1>3. /\ a.s \in EState /\ a.s.end = "none" /\ Alike(out, a.s.out) /\ a.s.stk \in Seq(Val)
      /\ Stacked(Matched, stack, a.s.stk) /\ stack \in Seq(Heap!Cell)
      /\ a.saved \in Seq(Caller(fns)) /\ m \in Nat
      /\ Framed(Matched, frames, returns, a.saved, a.s.table)
  BY <1>1, SettingParts
<1>4. frames \in Seq(Heap!Table) /\ returns \in Seq([addr : Nat, fn : Nat])
      /\ n = m + 1 /\ Len(returns) = n
  BY <1>3 DEF Setting, Good, HeapInv, Heap!TypeOK, Inv, Stacks, Framed
<1>5. /\ n > 1 /\ frames' = Heap!Dropped(frames, 1) /\ stack' = stack /\ phase' = "run"
      /\ returns' = Heap!Dropped(returns, 1)
      /\ cur_fn' = returns[Len(returns)].fn /\ pointer' = returns[Len(returns)].addr + 1
      /\ err' = err /\ fault' = fault /\ pending' = Nothing /\ out' = out
  BY <1>1 DEF CODE_RET, Heap!Ret, NoError
<1>6. m \in 1 .. m /\ a.saved # <<>>
  BY <1>3, <1>4, <1>5
<1>7. b = Returned(a) /\ b \in Machine(fns)
  BY <1>1, <1>2, <1>6, MovedIs DEF Moved
<1>8. /\ b.s = [a.s EXCEPT !.table = to.table] /\ b.fn = to.fn /\ b.at = to.addr
      /\ b.saved = SubSeq(a.saved, 1, m - 1)
  BY <1>7 DEF Returned
<1>9. b.s.end = "none" /\ Alike(out', b.s.out) /\ b.s.stk = a.s.stk /\ b.s.table = to.table
  BY <1>3, <1>5, <1>8, EParts
<1>10. Stacked(Matched', stack', b.s.stk)
  <2>1. Len(stack) <= Len(stack') /\ \A k \in 1 .. Len(stack) : stack'[k] = stack[k]
    BY <1>3, <1>5
  <2>2. Stacked(Matched', stack, a.s.stk)
    BY <1>3, <2>1, StackKept
  <2>3. QED
    BY <1>5, <1>9, <2>2
<1> DEFINE fr2 == Heap!Dropped(frames, 1)
           rt2 == Heap!Dropped(returns, 1)
           sv2 == SubSeq(a.saved, 1, m - 1)
<1>11. 1 \in 0 .. Len(frames) /\ 1 \in 0 .. Len(returns)
  BY <1>3, <1>4, <1>5
<1>12. /\ Len(fr2) = n - 1 /\ \A k \in 1 .. n - 1 : fr2[k] = frames[k]
       /\ Len(rt2) = n - 1 /\ \A k \in 1 .. n - 1 : rt2[k] = returns[k]
  BY <1>4, <1>11, DroppedFits
<1>13. Len(sv2) = m - 1 /\ \A k \in 1 .. m - 1 : sv2[k] = a.saved[k]
  BY <1>3, <1>6
<1> HIDE DEF fr2, rt2, sv2, n, m, to
<1>14. /\ \A k \in 1 .. m : /\ Tabled(Matched, frames[k], a.saved[k].table)
                            /\ returns[k + 1].fn = a.saved[k].fn
                            /\ returns[k + 1].addr + 1 = a.saved[k].addr
  BY <1>3 DEF Framed, m
<1>15. m \in Nat /\ m > 0 /\ n = m + 1
  BY <1>3, <1>4, <1>6
<1>16. Framed(Matched, fr2, rt2, sv2, to.table)
  <2>1. Tabled(Matched, fr2[m], to.table)
    BY <1>12, <1>14, <1>15 DEF to
  <2>2. \A k \in 1 .. m - 1 : k \in 1 .. m /\ k \in 1 .. n - 1 /\ k + 1 \in 1 .. n - 1
    BY <1>15
  <2>3. \A k \in 1 .. m - 1 : /\ Tabled(Matched, fr2[k], sv2[k].table)
                              /\ rt2[k + 1].fn = sv2[k].fn
                              /\ rt2[k + 1].addr + 1 = sv2[k].addr
    BY <1>12, <1>13, <1>14, <2>2
  <2>4. Len(fr2) = m /\ Len(rt2) = m /\ Len(sv2) = m - 1 /\ Len(sv2) + 1 = m
    BY <1>12, <1>13, <1>15
  <2>5. QED
    BY <2>1, <2>3, <2>4 DEF Framed
<1>17. Framed(Matched, frames', returns', b.saved, b.s.table)
  BY <1>5, <1>8, <1>9, <1>16 DEF fr2, rt2, sv2
<1>18. cur_fn' = b.fn /\ pointer' = b.at
  BY <1>4, <1>5, <1>6, <1>8, <1>14, <1>15 DEF to
<1>19. phase' \notin {"stopped", "crashed"}
  BY <1>5
<1>20. QED
  BY <1>5, <1>7, <1>9, <1>10, <1>17, <1>18, <1>19, Continue
-----------------------------------------------------------------------------
(* Natives.                                                                *)

LEMMA NativeIs ==
  ASSUME NEW fns, NEW a, Setting(fns, a), Ready({"CODE_CALL"}), FnsNamed(Instr.arg1) = {},
         NEW b, b = Moved(fns, a)
  PROVE  /\ b = Onward(a, Native(a.s, Instr.arg1, Instr.arg2), a.at + 1)
         /\ Instr.arg2 \in Nat /\ pending = Nothing
<1>1. ~AtEnd /\ Instr.code = "CODE_CALL" /\ pending = Nothing
  BY DEF Ready
<1>2. Callees(fns, Instr.arg1) = {}
  BY DEF Callees, FnsNamed, Setting
<1>3. Instr.arg2 \in Nat
  BY <1>1, SettingParts DEF WellTyped
<1>4. Effect(Instr, a.s) = Native(a.s, Instr.arg1, Instr.arg2)
  BY <1>1 DEF Effect, PushCodes, ArithmeticCodes
<1>5. QED
  BY <1>1, <1>2, <1>3, <1>4, MovesOn

\* An argument is written as it is meant, or in brackets, as is meant.
LEMMA ArgumentLevel ==
  ASSUME HeapInv, ObjectsReadable, NEW d \in Nat \ {0}, NEW o, NEW v, <<o, v>> \in Matched
  PROVE  Level(Display[d][o], v.shown)
<1> DEFINE w == Display[d][o]
           m == v.shown
<1>1. o \in Object /\ o \in live /\ v \in Val /\ SameValue(obj[o], v) /\ Proper(v)
  <2> DEFINE r == <<o, v>>
  <2>1. r[1] = o /\ r[2] = v /\ r \in Matched
    OBVIOUS
  <2> HIDE DEF r
  <2>2. QED
    BY <2>1 DEF Matched
<1>2. obj[o] \in Data /\ obj[o] \in Basic /\ obj[o].type = v.type
  BY <1>1, TokensAre DEF ObjectsReadable, Readable, SameValue
<1>3. o \in Heap!Cell
  BY <1>1 DEF Heap!Cell
<1>4. /\ v.type = "TYPE_FN_REF" => w = NotShown("InternalErr")
      /\ v.type \notin {"TYPE_FN_REF", "TYPE_ARRAY"} => w = Shown(<<obj[o]>>)
  <2>1. d - 1 \in Nat /\ (d - 1) + 1 = d
    OBVIOUS
  <2>2. \A n \in Nat :
          /\ obj[o].type = "TYPE_FN_REF" => Display[n + 1][o] = NotShown("InternalErr")
          /\ obj[o].type \notin {"TYPE_FN_REF", "TYPE_ARRAY"} =>
               Display[n + 1][o] = Shown(<<obj[o]>>)
    BY <1>1, <1>3, DisplayIs DEF DisplayOf
  <2>3. QED
    BY <1>2, <2>1, <2>2
<1>5. m \in Writing /\ m.out \in Seq(Token) /\ m.res \in MayMean
  BY <1>1, WritingParts DEF Val, MayMean
<1>6. w \in Printing(Outcomes)
  BY <1>3, DisplayPrints
<1>7. CASE v.type = "TYPE_ARRAY"
  <2>1. Block(w)
    BY <1>1, <1>2, <1>7, ArrayDisplays
  <2>2. Block(m)
    BY <1>1, <1>7 DEF Proper
  <2>3. w.res \in Outcomes
    BY <1>6, PrintingParts
  <2> HIDE DEF w, m
  <2>4. QED
    BY <1>5, <2>1, <2>2, <2>3 DEF Level, w, m
<1>8. CASE v.type = "TYPE_FN_REF"
  <2>1. w = m /\ m.out = <<>>
    BY <1>1, <1>4, <1>8 DEF Proper, NotShown
  <2> HIDE DEF w, m
  <2>2. \A c \in ReadState : c.open = 0 => After(c, m.out).open = 0
    BY <2>1, AfterFew
  <2>3. QED
    BY <1>5, <2>1, <2>2 DEF Level, w, m
<1>9. CASE v.type \notin {"TYPE_FN_REF", "TYPE_ARRAY"}
  <2>1. value(v.type, v.num, v.str) = obj[o]
    BY <1>1, <1>2, <1>9 DEF SameValue, Basic, value
  <2>2. w = m /\ m.out = <<obj[o]>>
    BY <1>1, <1>4, <1>9, <2>1 DEF Proper, Shown
  <2>3. Unbracketed(obj[o])
    BY <1>2, DataUnbracketed
  <2> HIDE DEF w, m
  <2>4. ASSUME NEW c \in ReadState, c.open = 0
        PROVE  After(c, m.out).open = 0
    <3>1. After(c, m.out) = Reading[obj[o]][c]
      BY <2>2, AfterFew
    <3>2. QED
      BY <2>3, <2>4, <3>1, ReadNext DEF Unbracketed
  <2>5. QED
    BY <1>5, <2>2, <2>4 DEF Level, w, m
<1>10. QED
  BY <1>7, <1>8, <1>9

LEMMA ArgsAre ==
  ASSUME NEW fns, NEW a, Setting(fns, a), pending = Nothing, Instr.arg2 \in Nat,
         Instr.arg2 <= Len(stack)
  PROVE  /\ Instr.arg2 \in 0 .. Len(a.s.stk) /\ Instr.arg2 \in 0 .. Len(stack)
         /\ DOMAIN Args = 1 .. Instr.arg2 /\ Len(Args) = Instr.arg2
         /\ Args \in Seq(Heap!Cell)
         /\ TopN(a.s, Instr.arg2) \in Seq(Val) /\ Len(TopN(a.s, Instr.arg2)) = Instr.arg2
         /\ Stacked(Matched, Args, TopN(a.s, Instr.arg2))
<1> DEFINE n == Instr.arg2
           stk == a.s.stk
<1>1. /\ a.s \in EState /\ stk \in Seq(Val) /\ Stacked(Matched, stack, stk)
      /\ stack \in Seq(Heap!Cell) /\ Len(stk) \in Nat
  BY SettingParts
<1>2. n \in 0 .. Len(stk) /\ Len(stack) = Len(stk) /\ n \in Nat /\ n <= Len(stack)
  BY <1>1 DEF Stacked
<1> HIDE DEF n, stk
<1>3. Stacked(Matched, Heap!Top(stack, n), SubSeq(stk, Len(stk) - n + 1, Len(stk)))
  BY <1>1, <1>2, StackedTop
<1>4. DOMAIN Heap!Top(stack, n) = 1 .. n /\ Len(Heap!Top(stack, n)) = n
      /\ Heap!Top(stack, n) \in Seq(Heap!Cell)
  BY <1>1, <1>2 DEF Heap!Top
<1>5. Len(TopN(a.s, n)) = n /\ TopN(a.s, n) \in Seq(Val)
  BY <1>1, <1>2, PopNIs DEF stk
<1>6. TopN(a.s, n) = SubSeq(stk, Len(stk) - n + 1, Len(stk)) /\ Args = Heap!Top(stack, n)
  BY DEF TopN, Args, n, stk
<1>7. n \in 0 .. Len(stack)
  BY <1>2
<1>8. QED
  BY <1>2, <1>3, <1>4, <1>5, <1>6, <1>7 DEF n, stk

\* What print writes and what is meant are the same, except inside of arrays.
LEMMA PrintedKeeps ==
  ASSUME NEW fns, NEW a, Setting(fns, a), pending = Nothing, Instr.arg2 \in Nat,
         Instr.arg2 <= Len(stack), NEW newline
  PROVE  Keeping(Read(out),
                 IF newline THEN WithNewline(Printed(Args)) ELSE Printed(Args),
                 PrintedTop(a.s, Instr.arg2, newline))
<1> DEFINE n == Instr.arg2
           cells == Args
           elements == TopN(a.s, n)
           d == Cardinality(Arrays) + 1
           space == " "
           c == Read(out)
           w == [k \in 1 .. n |-> Display[d][cells[k]]]
           m == [k \in 1 .. n |-> elements[k].shown]
           all == Joined(m, space)
<1>1. /\ HeapInv /\ ObjectsReadable /\ out \in Seq(Token)
      /\ c \in ReadState /\ c.open = 0
  BY SettingParts, ReadIs DEF Setting, Good, ValuesInv, Alike
<1>2. /\ n \in Nat /\ DOMAIN cells = 1 .. n /\ Len(cells) = n /\ Len(elements) = n
      /\ cells \in Seq(Heap!Cell) /\ elements \in Seq(Val)
      /\ Stacked(Matched, cells, elements)
  BY ArgsAre
<1>3. PrintedTop(a.s, n, newline) = IF newline THEN WithNewline(all) ELSE all
  BY DEF PrintedTop
<1>4. d \in Nat \ {0}
  BY <1>1, ArraysFinite
<1>5. Printed(cells) = Joined(w, space)
  BY <1>2 DEF Printed
<1>6. space \in Separators /\ Unbracketed(Separator(space))
  BY SeparatorsAre DEF Separators
<1> HIDE DEF n, cells, elements, d, space, c
<1>7. /\ Len(w) = n /\ \A k \in 1 .. n : w[k] = Display[d][cells[k]]
      /\ Len(m) = n /\ \A k \in 1 .. n : m[k] = elements[k].shown
  BY <1>2
<1> HIDE DEF w, m
<1>8. \A k \in 1 .. n : Level(w[k], m[k])
  <2> TAKE k \in 1 .. n
  <2>1. <<cells[k], elements[k]>> \in Matched
    BY <1>2 DEF Stacked
  <2>2. Level(Display[d][cells[k]], elements[k].shown)
    BY <1>1, <1>4, <2>1, ArgumentLevel
  <2>3. QED
    BY <1>7, <2>2
<1>9. Keeping(c, Joined(w, space), all)
  BY <1>1, <1>2, <1>6, <1>7, <1>8, JoinedKeeps
<1>10. all \in Writing
  <2>1. \A k \in 1 .. n : m[k] \in Writing
    <3>1. \A k \in 1 .. n : elements[k] \in Val
      BY <1>2
    <3>2. QED
      BY <1>7, <3>1 DEF Val
  <2>2. QED
    BY <1>2, <1>6, <1>7, <2>1, JoinedWrites
<1>11. Printed(cells) \in Printing(Outcomes)
  <2>1. (IF FALSE THEN WithNewline(Printed(cells)) ELSE Printed(cells)) \in Printing(Outcomes)
    BY <1>1, <1>2, PrintedPrints
  <2>2. QED
    BY <2>1
<1> HIDE DEF all
<1>12. /\ Printed(cells) = [out |-> Printed(cells).out, res |-> Printed(cells).res]
       /\ all = [out |-> all.out, res |-> all.res]
  BY <1>10, <1>11, PrintingParts DEF Writing
<1>13. Keeping(c, Printed(cells), all)
  BY <1>5, <1>9
<1>14. Keeping(c, WithNewline(Printed(cells)), WithNewline(all))
  BY <1>1, <1>12, <1>13, NewlineKeeps
<1>15. Keeping(c, IF newline THEN WithNewline(Printed(cells)) ELSE Printed(cells),
               PrintedTop(a.s, n, newline))
  BY <1>3, <1>13, <1>14
<1>16. QED
  BY <1>15 DEF c, cells, n

LEMMA ReadsOn ==
  ASSUME NEW o \in Seq(Token), NEW x \in Seq(Token)
  PROVE  Read(o \o x) = After(Read(o), x)
<1>1. Read(o \o x) = After(Unread, o \o x) /\ Read(o) = After(Unread, o)
  BY ReadIs
<1>2. After(Unread, o \o x) = After(After(Unread, o), x)
  BY AfterBoth
<1>3. QED
  BY <1>1, <1>2

\* The arguments leave the stack.
LEMMA NativeReturns ==
  ASSUME NEW fns, NEW a, Setting(fns, a), pending = Nothing, NEW n \in 0 .. Len(stack),
         Heap!Drop(n, FALSE), Advance, NoError, pending' = pending,
         NEW t \in EState, t.end = "none", Alike(out', t.out), t.table = a.s.table,
         t.stk = PopN(a.s, n).stk, NEW b, b = Onward(a, t, a.at + 1)
  PROVE  Simulates(fns, b)'
<1>1. /\ a.s \in EState /\ a.s.stk \in Seq(Val) /\ stack \in Seq(Heap!Cell)
      /\ Stacked(Matched, stack, a.s.stk) /\ a.at \in Nat /\ pointer = a.at
  BY SettingParts
<1>2. n \in 0 .. Len(a.s.stk)
  BY <1>1 DEF Stacked
<1>3. /\ stack' = Heap!Dropped(stack, n) /\ frames' = frames /\ returns' = returns
      /\ phase' \notin {"stopped", "crashed"} /\ cur_fn' = cur_fn /\ pointer' = a.at + 1
      /\ err' = err /\ fault' = fault /\ pending' = Nothing
  BY <1>1 DEF Heap!Drop, Advance, NoError
<1> DEFINE s == Heap!Dropped(stack, n)
<1>4. s \in Seq(Heap!Cell) /\ Stacked(Matched, s, SubSeq(a.s.stk, 1, Len(a.s.stk) - n))
  BY <1>1, <1>2, StackedDropped
<1>5. t.stk = SubSeq(a.s.stk, 1, Len(a.s.stk) - n) /\ t.stk \in Seq(Val)
  BY <1>1, <1>2, PopNIs, EParts
<1> HIDE DEF s
<1>6. Stacked(Matched', stack', t.stk)
  <2>1. stack' = s
    BY <1>3 DEF s
  <2>2. Stacked(Matched, s, t.stk) /\ Len(s) <= Len(stack')
        /\ \A k \in 1 .. Len(s) : stack'[k] = s[k]
    BY <1>4, <1>5, <2>1
  <2>3. Stacked(Matched', s, t.stk)
    BY <1>5, <2>2, StackKept
  <2>4. QED
    BY <2>1, <2>3
<1> DEFINE m == a.at + 1
<1>7. m \in Nat /\ b = Onward(a, t, m) /\ pointer' = m
  BY <1>1, <1>3
<1> HIDE DEF m
<1>8. QED
  BY <1>3, <1>6, <1>7, GoesOn

\* After what is meant was printed, evaluation goes on from t or ends there.
PrintsTo(s, n, newline, meant, t) ==
  /\ t \in EState
  /\ PrintTop(s, n, newline) = IF meant.res = "ok" THEN t ELSE Ended(t, meant.res)
  /\ t.stk = PopN(s, n).stk /\ t.table = s.table /\ t.end = s.end
  /\ t.out = s.out \o meant.out

LEMMA PrintLeaves ==
  ASSUME NEW s \in EState, NEW n \in 0 .. Len(s.stk), NEW newline
  PROVE  \E t : PrintsTo(s, n, newline, PrintedTop(s, n, newline), t)
<1> DEFINE printed == PrintedTop(s, n, newline)
           after == [PopN(s, n) EXCEPT !.out = @ \o printed.out]
<1>1. /\ PrintTop(s, n, newline) =
           IF printed.res = "ok" THEN after ELSE Ended(after, printed.res)
      /\ after \in EState /\ after.stk = PopN(s, n).stk
      /\ after.table = s.table /\ after.end = s.end
      /\ after.out = s.out \o printed.out
  BY PrintIs
<1> HIDE DEF printed, after
<1>2. PrintsTo(s, n, newline, printed, after)
  BY <1>1 DEF PrintsTo
<1>3. QED
  BY <1>2 DEF printed

LEMMA PrintSimulates ==
  ASSUME NEW fns, NEW a, Setting(fns, a), pending = Nothing, Instr.arg2 \in Nat,
         NEW newline, derp_stdlib_print(newline),
         NEW b, b = Onward(a, PrintTop(a.s, Instr.arg2, newline), a.at + 1)
  PROVE  Simulates(fns, a)' \/ Simulates(fns, b)'
<1> DEFINE n == Instr.arg2
           printed == IF newline THEN WithNewline(Printed(Args)) ELSE Printed(Args)
           meant == PrintedTop(a.s, n, newline)
           Writes2 == Heap!Drop(n, FALSE) /\ Advance /\ NoError /\ pending' = pending
           Fails2 == FailDropping(n, "InternalErr")
           Dies2 == FaultPrinting(printed.res)
<1>1. IF n > Len(stack) THEN Fault("out_of_bounds")
      ELSE /\ \/ printed.res = "ok" /\ Writes2
              \/ printed.res = "InternalErr" /\ Fails2
              \/ printed.res \in {"freed", "endless"} /\ Dies2
           /\ out' = out \o printed.out
  BY DEF derp_stdlib_print
<1>2. /\ a.s \in EState /\ Stacked(Matched, stack, a.s.stk) /\ Len(stack) = Len(a.s.stk)
      /\ Len(a.s.stk) \in Nat /\ n \in Nat /\ a.s.end = "none" /\ fault = "none"
      /\ Alike(out, a.s.out) /\ a.s.out \in Seq(Token) /\ out \in Seq(Token)
  BY SettingParts DEF Stacked, Setting, Good
<1>3. CASE n > Len(stack)
  <2> DEFINE f == "out_of_bounds"
  <2>1. PrintTop(a.s, n, newline) = Ended(a.s, f)
    BY <1>2, <1>3 DEF PrintTop
  <2>2. f \in Endings \ {"none", "uninitialised", "stale"} /\ Fault(f)
    BY <1>1, <1>3, NamesOfEnds
  <2> HIDE DEF f
  <2>3. QED
    BY <2>1, <2>2, Breaks
<1>4. CASE n <= Len(stack)
  <2>1. Keeping(Read(out), printed, meant)
    BY <1>4, PrintedKeeps
  <2>2. n \in 0 .. Len(a.s.stk) /\ n \in 0 .. Len(stack) /\ ~ (n > Len(stack))
    BY <1>2, <1>4
  <2>3. PICK after : PrintsTo(a.s, n, newline, meant, after)
    BY <1>2, <2>2, PrintLeaves
  <2> HIDE DEF printed, meant, Writes2, Fails2, Dies2
  <2>4. /\ PrintTop(a.s, n, newline) =
             IF meant.res = "ok" THEN after ELSE Ended(after, meant.res)
        /\ after \in EState /\ after.stk = PopN(a.s, n).stk
        /\ after.table = a.s.table /\ after.end = "none"
        /\ after.out = a.s.out \o meant.out
    BY <1>2, <2>3 DEF PrintsTo
  <2>5. /\ printed.out \in Seq(Token) /\ meant.out \in Seq(Token)
        /\ out' = out \o printed.out
    BY <1>1, <2>1, <2>2 DEF Keeping
  <2> DEFINE x == Read(out')
             y == Read(after.out)
  <2>6. x = After(Read(out), printed.out) /\ y = After(Read(out), meant.out)
    <3>1. Read(out \o printed.out) = After(Read(out), printed.out)
      BY <1>2, <2>5, ReadsOn
    <3>2. Read(a.s.out \o meant.out) = After(Read(a.s.out), meant.out)
      BY <1>2, <2>5, ReadsOn
    <3>3. Read(out) = Read(a.s.out)
      BY <1>2 DEF Alike
    <3>4. QED
      BY <2>4, <2>5, <3>1, <3>2, <3>3
  <2> HIDE DEF x, y
  <2>7. \/ x = y /\ x.open = 0 /\ printed.res = meant.res /\ printed.res \in MayMean
        \/ /\ x.open > 0 /\ printed.res \in Outcomes \ {"ok"}
           /\ IsPrefixOf(x.kept, y.kept)
        \/ y.open > 0 /\ meant.res = "InternalErr" /\ IsPrefixOf(y.kept, x.kept)
    BY <2>1, <2>6 DEF Keeping
  <2> DEFINE e == "InternalErr"
  <2>8. e \in Endings /\ e # "none" /\ e # "ok"
    BY NamesOfEnds
  <2> HIDE DEF e
  <2>9. CASE y.open > 0 /\ meant.res = "InternalErr" /\ IsPrefixOf(y.kept, x.kept)
    <3>1. b.s = Ended(after, e)
      BY <2>4, <2>8, <2>9, OnwardIs DEF Setting, e
    <3>2. b.s.end = e /\ b.s.out = after.out
      BY <2>4, <2>8, <3>1, EndedIs
    <3>3. EndsInArray(b.s.out) /\ IsPrefixOf(Outside(b.s.out), Outside(out'))
      BY <2>9, <3>2 DEF EndsInArray, Outside, x, y
    <3>4. Past(b)'
      BY <3>2, <3>3 DEF Past, e
    <3>5. QED
      BY <3>4 DEF Simulates
  <2>10. CASE /\ x.open > 0 /\ printed.res \in Outcomes \ {"ok"}
              /\ IsPrefixOf(x.kept, y.kept)
    <3>1. b.s.out = after.out
      <4>1. meant.res \in {"ok", "InternalErr"}
        BY <1>2, <2>2, PrintIs, WritingParts DEF meant
      <4>2. b.s = after \/ b.s = Ended(after, e)
        BY <2>4, <4>1, OnwardIs DEF Setting, e
      <4>3. Ended(after, e).out = after.out
        <5>1. after \in EState
          BY <2>4
        <5>2. QED
          BY <2>8, <5>1, EndedIs
      <4>4. QED
        BY <4>2, <4>3
    <3>2. EndsInArray(out') /\ IsPrefixOf(Outside(out'), Outside(b.s.out))
      BY <2>10, <3>1 DEF EndsInArray, Outside, x, y
    <3>3. /\ phase' \in {"stopped", "crashed"} /\ (phase' = "stopped" => fault' = "none")
          /\ Ending' \in {"freed", "endless", "InternalErr"}
      <4>1. CASE printed.res = "InternalErr"
        <5>1. Fails2
          BY <1>1, <2>2, <4>1
        <5>2. phase' = "stopped" /\ err' = "InternalErr" /\ fault' = "none"
          BY <1>2, <5>1, FailDroppingIs DEF Fails2
        <5>3. QED
          BY <5>2, EndingNext
      <4>2. CASE printed.res \in {"freed", "endless"}
        <5>1. Dies2
          BY <1>1, <2>2, <4>2
        <5>2. phase' = "crashed" /\ fault' = printed.res
          BY <5>1 DEF Dies2, FaultPrinting, Heap!Die
        <5>3. QED
          BY <4>2, <5>2, EndingNext
      <4>3. QED
        BY <2>10, <4>1, <4>2 DEF Outcomes
    <3>4. GaveIn'
      BY <3>2, <3>3 DEF GaveIn
    <3>5. Settles(fns, b)'
      BY <3>2, <3>4 DEF Settles
    <3>6. QED
      BY <3>3, <3>5 DEF Simulates, Left
  <2>11. CASE x = y /\ x.open = 0 /\ printed.res = meant.res /\ printed.res \in MayMean
    <3>1. Alike(out', after.out)
      BY <2>11 DEF Alike, x, y
    <3>2. CASE printed.res = "ok"
      <4>1. b = Onward(a, after, a.at + 1)
        BY <2>4, <2>11, <3>2
      <4>2. Heap!Drop(n, FALSE) /\ Advance /\ NoError /\ pending' = pending
        BY <1>1, <2>2, <3>2 DEF Writes2
      <4> HIDE DEF n
      <4>3. QED
        BY <2>2, <2>4, <3>1, <4>1, <4>2, NativeReturns
    <3>3. CASE printed.res = "InternalErr"
      <4> DEFINE t == Ended(after, e)
      <4>1. b = Onward(a, t, a.at + 1)
        BY <2>4, <2>8, <2>11, <3>3 DEF e
      <4>2. t.end = e /\ t.out = after.out
        BY <2>4, <2>8, EndedIs
      <4>3. Fails2
        BY <1>1, <2>2, <3>3
      <4>4. phase' = "stopped" /\ err' = e /\ fault' = fault
        BY <4>3, FailDroppingIs DEF Fails2, e
      <4>5. Alike(out', t.out)
        BY <3>1, <4>2
      <4> HIDE DEF t
      <4>6. QED
        BY <2>8, <4>1, <4>2, <4>4, <4>5, Fails
    <3>4. QED
      BY <2>11, <3>2, <3>3 DEF MayMean
  <2>12. QED
    BY <2>7, <2>9, <2>10, <2>11
<1>5. QED
  BY <1>2, <1>3, <1>4

\* The argument leaves the stack, and its length is on the way there.
LEMMA LenWaits ==
  ASSUME NEW fns, NEW a, Setting(fns, a), pending = Nothing, stack # <<>>,
         Heap!Drop(1, FALSE), NEW n \in Nat, pending' = n, NoJump, NoError, out' = out,
         Moved(fns, a) = Onward(a, Push(Pop(a.s), Scalar(IntValue(n))), a.at + 1)
  PROVE  Simulates(fns, a)'
<1>1. /\ a.s \in EState /\ a.s.end = "none" /\ Alike(out, a.s.out) /\ cur_fn = a.fn /\ pointer = a.at
      /\ fault = "none" /\ err = "none" /\ Len(a.saved) \in Nat
      /\ Framed(Matched, frames, returns, a.saved, a.s.table)
  BY SettingParts
<1>2. /\ stack' = Heap!Popped /\ frames' = frames /\ phase' \notin {"stopped", "crashed"}
  BY DEF Heap!Drop, Heap!Popped
<1>3. cur_fn' = cur_fn /\ pointer' = pointer /\ returns' = returns /\ err' = err /\ fault' = fault
  BY DEF NoJump, NoError
<1> DEFINE s == Heap!Popped
           stk == Pop(a.s).stk
<1>4. s \in Seq(Heap!Cell) /\ Stacked(Matched, s, stk)
  BY PoppedIs
<1>5. stk \in Seq(Val)
  BY <1>1, PopIs, EParts DEF SameOut
<1> HIDE DEF s
<1>6. Stacked(Matched', stack', stk)
  <2>1. stack' = s /\ Len(s) \in Nat
    BY <1>2, <1>4 DEF s
  <2> HIDE DEF stk
  <2>2. Stacked(Matched', s, stk)
    BY <1>4, <1>5, <2>1, StackKept
  <2>3. QED
    BY <2>1, <2>2
<1>7. Framed(Matched', frames', returns', a.saved, a.s.table)
  BY <1>1, <1>2, <1>3, FramedNext
<1>8. pending' # Nothing
  BY DEF Nothing
<1>9. Awaits(fns, a)'
  BY <1>6 DEF Awaits
<1>10. Going(fns, a)'
  BY <1>1, <1>3, <1>7, <1>8, <1>9 DEF Going
<1>11. ~Left' /\ phase' # "stopped"
  BY <1>2 DEF Left
<1>12. QED
  BY <1>10, <1>11 DEF Simulates

LEMMA LenSimulates ==
  ASSUME NEW fns, NEW a, Setting(fns, a), pending = Nothing, derp_stdlib_len,
         NEW b, b = Moved(fns, a),
         b = Onward(a, LenOfTop(a.s, Instr.arg2), a.at + 1)
  PROVE  Simulates(fns, a)' \/ Simulates(fns, b)'
<1> DEFINE n == Instr.arg2
           v == PopValue(a.s)
           data == obj[Heap!TopOrNull]
           Measures == /\ Heap!Drop(1, FALSE)
                       /\ pending' = IF data.type = "TYPE_STRING" THEN Len(data.str)
                                     ELSE data.num
                       /\ NoJump /\ NoError /\ UNCHANGED <<obj, out>>
<1>1. IF n # 1 THEN FailDropping(n, "ArgErr") /\ out' = out
      ELSE IF stack = <<>> THEN Fault("out_of_bounds")
      ELSE IF data.type \in {"TYPE_STRING", "TYPE_ARRAY"} THEN Measures
      ELSE FailDropping(1, "ArgErr") /\ out' = out
  BY DEF derp_stdlib_len
<1>2. LenOfTop(a.s, n) =
        IF n # 1 THEN Ended(a.s, "ArgErr")
        ELSE IF a.s.stk = <<>> THEN Ended(a.s, "out_of_bounds")
        ELSE IF v.type = "TYPE_STRING" THEN Push(Pop(a.s), Scalar(IntValue(Len(v.str))))
        ELSE IF v.type = "TYPE_ARRAY" THEN Push(Pop(a.s), Scalar(IntValue(v.num)))
        ELSE Ended(a.s, "ArgErr")
  BY DEF LenOfTop
<1>3. stack = <<>> <=> a.s.stk = <<>>
  BY PoppedIs
<1>4. ASSUME stack # <<>>
      PROVE  /\ v \in Val /\ data.type = v.type
             /\ v.type # "TYPE_FN_REF" => data.num = v.num /\ data.str = v.str
             /\ v.type = "TYPE_STRING" => Len(v.str) \in Nat
             /\ v.type = "TYPE_ARRAY" => v.num \in Nat
  <2> DEFINE r == <<Heap!TopOrNull, v>>
  <2>1. r \in Matched /\ r[1] = Heap!TopOrNull /\ r[2] = v
    BY <1>4, PoppedIs
  <2> HIDE DEF r, v
  <2>2. r[1] \in Object /\ r[2] \in Val /\ SameValue(obj[r[1]], r[2])
    BY <2>1 DEF Matched
  <2>3. /\ v \in Val /\ data.type = v.type
        /\ v.type # "TYPE_FN_REF" => data.num = v.num /\ data.str = v.str
    BY <2>1, <2>2 DEF SameValue
  <2>4. Readable(data)
    BY <2>1, <2>2 DEF Setting, Good, ValuesInv, ObjectsReadable
  <2>5. QED
    BY <2>3, <2>4 DEF Readable
<1> HIDE DEF v, data, Measures
<1>5. ASSUME FailDropping(n, "ArgErr") \/ FailDropping(1, "ArgErr"), out' = out,
             LenOfTop(a.s, n) = Ended(a.s, "ArgErr")
      PROVE  Simulates(fns, b)'
  <2> DEFINE e == "ArgErr"
  <2>1. e \in Endings /\ e # "none"
    BY NamesOfEnds
  <2>2. FailDropping(n, e) \/ FailDropping(1, e)
    BY <1>5
  <2>3. b = Onward(a, Ended(a.s, e), a.at + 1)
    BY <1>5
  <2> HIDE DEF e
  <2>4. QED
    BY <1>5, <2>1, <2>2, <2>3, Ends
<1>6. CASE n # 1
  BY <1>1, <1>2, <1>5, <1>6
<1>7. CASE n = 1 /\ stack = <<>>
  <2> DEFINE f == "out_of_bounds"
  <2>1. b = Onward(a, Ended(a.s, f), a.at + 1)
    BY <1>2, <1>3, <1>7
  <2>2. f \in Endings \ {"none", "uninitialised", "stale"} /\ Fault(f)
    BY <1>1, <1>7, NamesOfEnds
  <2> HIDE DEF f
  <2>3. QED
    BY <2>1, <2>2, Breaks
<1>8. CASE n = 1 /\ stack # <<>>
  <2>1. CASE v.type \in {"TYPE_STRING", "TYPE_ARRAY"}
    <3>1. Measures
      BY <1>1, <1>4, <1>8, <2>1
    <3> DEFINE m == IF v.type = "TYPE_STRING" THEN Len(v.str) ELSE v.num
    <3>2. m \in Nat
      BY <1>4, <1>8, <2>1
    <3>3. LenOfTop(a.s, n) = Push(Pop(a.s), Scalar(IntValue(m)))
      BY <1>2, <1>3, <1>8, <2>1
    <3>4. pending' = m
      BY <1>4, <1>8, <2>1, <3>1 DEF Measures
    <3>5. Heap!Drop(1, FALSE) /\ NoJump /\ NoError /\ out' = out
      BY <3>1 DEF Measures
    <3> HIDE DEF m
    <3>6. Simulates(fns, a)'
      BY <1>8, <3>2, <3>3, <3>4, <3>5, LenWaits
    <3>7. QED
      BY <3>6
  <2>2. CASE v.type \notin {"TYPE_STRING", "TYPE_ARRAY"}
    <3>1. FailDropping(1, "ArgErr") /\ out' = out
      BY <1>1, <1>4, <1>8, <2>2
    <3>2. LenOfTop(a.s, n) = Ended(a.s, "ArgErr")
      BY <1>2, <1>3, <1>8, <2>2
    <3>3. QED
      BY <1>5, <3>1, <3>2
  <2>3. QED
    BY <2>1, <2>2
<1>9. QED
  BY <1>6, <1>7, <1>8

LEMMA RangeSimulates ==
  ASSUME NEW fns, NEW a, Setting(fns, a), pending = Nothing, derp_stdlib_range,
         Instr.arg2 \in Nat,
         NEW b, b = Onward(a, Native(a.s, "range", Instr.arg2), a.at + 1)
  PROVE  Simulates(fns, a)' \/ Simulates(fns, b)'
<1> DEFINE n == Instr.arg2
           Refuses == FailDropping(n, "ArgErr") /\ out' = out
<1>1. \/ (n > 2 \/ n <= Len(stack)) /\ Refuses
      \/ n <= 2 /\ n > Len(stack) /\ Fault("out_of_bounds")
      \/ n = 0 /\ Fault("stale")
  BY DEF derp_stdlib_range
<1>2. Len(stack) = Len(a.s.stk) /\ Len(a.s.stk) \in Nat /\ a.s \in EState
  BY SettingParts DEF Stacked
<1>3. Native(a.s, "range", n) =
        Ended(a.s, IF n > Len(a.s.stk) /\ n <= 2 THEN "out_of_bounds" ELSE "ArgErr")
  BY DEF Native
<1> HIDE DEF Refuses
<1>4. CASE (n > 2 \/ n <= Len(stack)) /\ Refuses
  <2> DEFINE e == "ArgErr"
  <2>1. e \in Endings /\ e # "none"
    BY NamesOfEnds
  <2>2. FailDropping(n, e) /\ out' = out
    BY <1>4 DEF Refuses
  <2>3. b = Onward(a, Ended(a.s, e), a.at + 1)
    BY <1>2, <1>3, <1>4
  <2> HIDE DEF e
  <2>4. QED
    BY <2>1, <2>2, <2>3, Ends
<1>5. CASE n <= 2 /\ n > Len(stack) /\ Fault("out_of_bounds")
  <2> DEFINE f == "out_of_bounds"
  <2>1. b = Onward(a, Ended(a.s, f), a.at + 1)
    BY <1>2, <1>3, <1>5
  <2>2. f \in Endings \ {"none", "uninitialised", "stale"} /\ Fault(f)
    BY <1>5, NamesOfEnds
  <2> HIDE DEF f
  <2>3. QED
    BY <2>1, <2>2, Breaks
<1>6. CASE n = 0 /\ Fault("stale")
  <2> DEFINE f == "stale"
             e == "ArgErr"
             t == Ended(a.s, e)
  <2>1. b = Onward(a, t, a.at + 1)
    BY <1>2, <1>3, <1>6
  <2>2. phase' = "crashed" /\ fault' = f /\ out' = out /\ f # "none"
    BY <1>6, FaultIs
  <2>3. Ending' = e
    BY <2>2, EndingNext
  <2>4. e \in Endings /\ e # "none"
    BY NamesOfEnds
  <2> HIDE DEF f, e
  <2>5. t.end = e /\ t.out = a.s.out
    BY <1>2, <2>4, EndedIs
  <2> HIDE DEF t
  <2>6. QED
    BY <2>1, <2>2, <2>3, <2>4, <2>5, Traps
<1>7. QED
  BY <1>1, <1>4, <1>5, <1>6

LEMMA NativesSimulate ==
  ASSUME NEW fns, NEW a, Setting(fns, a), Ready({"CODE_CALL"}), FnsNamed(Instr.arg1) = {},
         derp_run_native, NEW b, b = Moved(fns, a)
  PROVE  Simulates(fns, a)' \/ Simulates(fns, b)'
<1> DEFINE x == Instr.arg1
           n == Instr.arg2
<1>1. b = Onward(a, Native(a.s, x, n), a.at + 1) /\ n \in Nat /\ pending = Nothing
  BY NativeIs
<1>2. \/ x = "println" /\ derp_stdlib_print(TRUE)
      \/ x = "print" /\ derp_stdlib_print(FALSE)
      \/ x = "len" /\ derp_stdlib_len
      \/ x = "range" /\ derp_stdlib_range
  BY DEF derp_run_native
<1>3. CASE x = "println" /\ derp_stdlib_print(TRUE)
  <2>1. b = Onward(a, PrintTop(a.s, n, TRUE), a.at + 1)
    BY <1>1, <1>3 DEF Native
  <2>2. QED
    BY <1>1, <1>3, <2>1, PrintSimulates
<1>4. CASE x = "print" /\ derp_stdlib_print(FALSE)
  <2>1. b = Onward(a, PrintTop(a.s, n, FALSE), a.at + 1)
    BY <1>1, <1>4 DEF Native
  <2>2. QED
    BY <1>1, <1>4, <2>1, PrintSimulates
<1>5. CASE x = "len" /\ derp_stdlib_len
  <2>1. b = Onward(a, LenOfTop(a.s, n), a.at + 1)
    BY <1>1, <1>5 DEF Native
  <2>2. QED
    BY <1>1, <1>5, <2>1, LenSimulates
<1>6. CASE x = "range" /\ derp_stdlib_range
  BY <1>1, <1>6, RangeSimulates
<1>7. QED
  BY <1>2, <1>3, <1>4, <1>5, <1>6

LEMMA CallSimulates ==
  ASSUME NEW fns, NEW a, Setting(fns, a), CODE_CALL, NEW b, b = Moved(fns, a)
  PROVE  Simulates(fns, a)' \/ Simulates(fns, b)'
<1> DEFINE x == Instr.arg1
           Unknown == FailDropping(0, "LookupErr")
<1>1. Ready({"CODE_CALL"})
  BY DEF CODE_CALL
<1>2. \/ FnsNamed(x) # {} /\ Enter /\ out' = out /\ pending' = pending
      \/ FnsNamed(x) = {} /\ derp_run_native
      \/ FnsNamed(x) = {} /\ x \notin Natives /\ Unknown /\ out' = out
  BY DEF CODE_CALL, Enter
<1> HIDE DEF Unknown
<1>3. CASE FnsNamed(x) # {} /\ Enter /\ out' = out /\ pending' = pending
  BY <1>3, EnterSimulates
<1>4. CASE FnsNamed(x) = {} /\ derp_run_native
  BY <1>1, <1>4, NativesSimulate
<1>5. CASE FnsNamed(x) = {} /\ x \notin Natives /\ Unknown /\ out' = out
  <2> DEFINE e == "LookupErr"
  <2>1. b = Onward(a, Native(a.s, x, Instr.arg2), a.at + 1)
    BY <1>1, <1>5, NativeIs
  <2>2. Native(a.s, x, Instr.arg2) = Ended(a.s, e)
    BY <1>5 DEF Native, Natives
  <2>3. e \in Endings /\ e # "none" /\ FailDropping(0, e)
    BY <1>5, NamesOfEnds DEF Unknown
  <2>4. b = Onward(a, Ended(a.s, e), a.at + 1)
    BY <2>1, <2>2
  <2> HIDE DEF e
  <2>5. Simulates(fns, b)'
    BY <1>5, <2>3, <2>4, Ends
  <2>6. QED
    BY <2>5
<1>6. QED
  BY <1>2, <1>3, <1>4, <1>5
-----------------------------------------------------------------------------
(* The steps that leave the machine without a heap where it is.            *)

LEMMA Stays ==
  ASSUME NEW fns, NEW a, Setting(fns, a), stack' = stack, frames' = frames,
         NoJump, err' = err, fault' = fault, pending' = pending, out' = out,
         phase' \notin {"stopped", "crashed"}
  PROVE  Simulates(fns, a)'
<1>1. /\ a.s \in EState /\ a.s.end = "none" /\ Alike(out, a.s.out) /\ cur_fn = a.fn /\ pointer = a.at
      /\ fault = "none" /\ err = "none" /\ Len(a.saved) \in Nat /\ stack \in Seq(Heap!Cell)
      /\ Framed(Matched, frames, returns, a.saved, a.s.table)
      /\ pending = Nothing => Stacked(Matched, stack, a.s.stk)
      /\ pending # Nothing => Awaits(fns, a)
  BY SettingParts
<1>2. cur_fn' = cur_fn /\ pointer' = pointer /\ returns' = returns
  BY DEF NoJump
<1>3. Framed(Matched', frames', returns', a.saved, a.s.table)
  BY <1>1, <1>2, FramedNext
<1>4. Len(stack) <= Len(stack') /\ \A k \in 1 .. Len(stack) : stack'[k] = stack[k]
  BY <1>1
<1>5. ASSUME NEW stk \in Seq(Val), Stacked(Matched, stack, stk)
      PROVE  Stacked(Matched', stack', stk)
  <2>1. Stacked(Matched', stack, stk)
    BY <1>4, <1>5, StackKept
  <2>2. QED
    BY <2>1
<1>6. a.s.stk \in Seq(Val) /\ Pop(a.s).stk \in Seq(Val)
  BY <1>1, PopIs, EParts DEF SameOut
<1>7. pending' = Nothing => Stacked(Matched', stack', a.s.stk)
  BY <1>1, <1>5, <1>6
<1>8. pending' # Nothing => Awaits(fns, a)'
  <2>1. ASSUME pending # Nothing
        PROVE  /\ Stacked(Matched', stack', Pop(a.s).stk)
               /\ Moved(fns, a) = Onward(a, Push(Pop(a.s), Scalar(IntValue(pending))), a.at + 1)
    <3> DEFINE stk == Pop(a.s).stk
    <3>1. Stacked(Matched, stack, stk)
      BY <1>1, <2>1 DEF Awaits
    <3> HIDE DEF stk
    <3>2. Stacked(Matched', stack', stk)
      BY <1>5, <1>6, <3>1 DEF stk
    <3>3. QED
      BY <1>1, <2>1, <3>2 DEF Awaits, stk
  <2>2. QED
    BY <2>1 DEF Awaits
<1>9. Going(fns, a)'
  BY <1>1, <1>2, <1>3, <1>7, <1>8 DEF Going
<1>10. ~Left' /\ phase' # "stopped"
  BY DEF Left
<1>11. QED
  BY <1>9, <1>10 DEF Simulates

LEMMA CollectSimulates ==
  ASSUME NEW fns, NEW a, Setting(fns, a), Collect
  PROVE  Simulates(fns, a)'
<1>1. /\ stack' = stack /\ frames' = frames /\ phase' # "stopped"
      /\ NoJump /\ pending' = pending /\ err' = err /\ out' = out
      /\ fault' = IF phase' # "crashed" THEN fault
                  ELSE IF phase = "swept" THEN "heap_full" ELSE "null_root"
  BY DEF Collect, Heap!vm_gc_mark, Heap!MarkFrom, Heap!object_sweep, Heap!rootVars,
         Heap!CreateFailed
<1>2. CASE phase' # "crashed"
  BY <1>1, <1>2, Stays
<1>3. CASE phase' = "crashed"
  <2>1. PICK f : f = fault'
    OBVIOUS
  <2>2. f \in {"heap_full", "null_root"}
    BY <1>1, <1>3, <2>1
  <2>3. QED
    BY <1>1, <1>3, <2>1, <2>2, Dies
<1>4. QED
  BY <1>2, <1>3

LEMMA FinishSimulates ==
  ASSUME NEW fns, NEW a, Setting(fns, a), Finish
  PROVE  Simulates(fns, a)'
<1>1. /\ AtEnd /\ phase' = "stopped" /\ fault' = fault /\ err' = err /\ out' = out
  BY DEF Finish, Heap!Stop, NoError
<1>2. Alike(out, a.s.out) /\ fault = "none" /\ err = "none" /\ a.s.end = "none" /\ Stuck(fns, a)
  BY <1>1, SettingParts
<1>3. Ending' = "none"
  BY <1>1, <1>2, EndingNext
<1>4. Settles(fns, a)'
  BY <1>1, <1>2, <1>3 DEF Settles
<1>5. QED
  BY <1>1, <1>2, <1>4 DEF Simulates, Left

\* A step of the machine is a step of the machine without a heap, or none.
LEMMA StepSimulates ==
  ASSUME NEW fns, NEW a, Setting(fns, a), [Next]_vars, NEW b, b = Moved(fns, a)
  PROVE  Simulates(fns, a)' \/ Simulates(fns, b)'
<1>1. ~Left /\ Good
  BY DEF Setting
<1>2. ASSUME UNCHANGED vars
      PROVE  Simulates(fns, a)'
  <2>1. /\ stack' = stack /\ frames' = frames /\ NoJump /\ err' = err /\ fault' = fault
        /\ pending' = pending /\ out' = out /\ phase' = phase
    BY <1>2 DEF vars, heapVars, NoJump
  <2>2. phase' \notin {"stopped", "crashed"}
    BY <1>1, <2>1 DEF Left
  <2>3. QED
    BY <2>1, <2>2, Stays
<1>3. ~err_print /\ ~Rest
  BY <1>1 DEF Left, err_print, Rest, AtRest
<1>4. ~Backtrace
  BY <1>1 DEF Backtrace, Good, ControlInv
<1>5. CASE PushLiteral \/ CODE_PUSH_ARRAY \/ PushLen \/ Arithmetic
  BY <1>5, PushLiteralSimulates, PushArraySimulates, PushLenSimulates, ArithmeticSimulates
<1>6. CASE CODE_PUSH_LOOKUP \/ CODE_ASSIGN \/ CODE_JUMP_IF_FALSE \/ CODE_JUMP
  BY <1>6, LookupSimulates, AssignSimulates, JumpIfFalseSimulates, JumpSimulates
<1>7. CASE CODE_CALL \/ CODE_RET
  BY <1>7, CallSimulates, RetSimulates
<1>8. CASE Collect \/ Finish
  BY <1>8, CollectSimulates, FinishSimulates
<1>9. QED
  BY <1>2, <1>3, <1>4, <1>5, <1>6, <1>7, <1>8 DEF Next, Execute

\* A machine that went past an array stays past it.
LEMMA PastStays ==
  ASSUME NEW a, a.s.out \in Seq(Token), Good, [Next]_vars, Past(a)
  PROVE  Past(a)'
<1>1. PICK text \in Seq(Token) : out' = out \o text
  BY StepWrites DEF Good, OutGrows
<1>2. out \in Seq(Token) /\ out' \in Seq(Token) /\ IsPrefixOf(out, out')
  BY <1>1 DEF Good, IsPrefixOf
<1>3. /\ IsPrefixOf(Outside(out), Outside(out')) /\ IsPrefixOf(a.s.out, a.s.out)
      /\ Outside(out) \in Seq(Token) /\ Outside(out') \in Seq(Token)
  BY <1>2, OutsideGrows, PrefixRefl
<1>4. Outside(a.s.out) \in Seq(Token)
  BY <1>3, OutsideGrows
<1>5. IsPrefixOf(Outside(a.s.out), Outside(out'))
  BY <1>3, <1>4, PrefixTrans DEF Past
<1>6. QED
  BY <1>5 DEF Past

\* A run that is over stays over.
LEMMA LeftStays ==
  ASSUME NEW fns, NEW a, Left, Good, [Next]_vars, Settles(fns, a),
         phase = "stopped" => fault = "none"
  PROVE  Simulates(fns, a)'
<1>1. phase \notin {"run", "swept", "sweep"}
  BY DEF Left
<1>2. ASSUME out' = out, Ending' = Ending, fault' = fault \/ fault = "none"
      PROVE  Settles(fns, a)'
  <2>1. GaveIn => GaveIn'
    BY <1>2 DEF GaveIn
  <2>2. QED
    BY <1>2, <2>1 DEF Settles, Stuck
<1>3. CASE err_print \/ Backtrace
  <2>1. out' = out /\ err' = err
    BY <1>3 DEF err_print, Backtrace, Fault, FaultPrinting
  <2>2. \/ phase' = "stopped" /\ phase = "stopped" /\ fault' = fault
        \/ phase' = "crashed" /\ phase = "stopped" /\ fault' = "uninitialised"
    BY <1>1, <1>3 DEF err_print, Backtrace, Fault, FaultPrinting, Heap!Die, Heap!Unwind, heapVars
  <2>3. fault = "none"
    BY <2>2
  <2>4. Ending' = Ending
    BY <2>1, <2>2, <2>3, EndingIs, EndingNext
  <2>5. Settles(fns, a)'
    BY <1>2, <2>1, <2>3, <2>4
  <2>6. QED
    BY <2>2, <2>3, <2>5 DEF Simulates, Left
<1>4. CASE Rest \/ UNCHANGED vars
  <2>1. out' = out /\ err' = err /\ fault' = fault /\ phase' = phase
    BY <1>4 DEF Rest, vars, heapVars
  <2>2. Ending' = Ending
    BY <2>1 DEF Ending
  <2>3. Settles(fns, a)'
    BY <1>2, <2>1, <2>2
  <2>4. QED
    BY <2>1, <2>3 DEF Simulates, Left
<1>5. ~ (PushLiteral \/ CODE_PUSH_ARRAY \/ Arithmetic \/ CODE_CALL \/ CODE_RET
         \/ CODE_PUSH_LOOKUP \/ CODE_ASSIGN \/ CODE_JUMP_IF_FALSE \/ CODE_JUMP)
  BY <1>1 DEF PushLiteral, CODE_PUSH_ARRAY, Arithmetic, CODE_CALL, CODE_RET,
              CODE_PUSH_LOOKUP, CODE_ASSIGN, CODE_JUMP_IF_FALSE, CODE_JUMP, Ready
<1>6. ~ (PushLen \/ Collect \/ Finish)
  BY <1>1 DEF PushLen, Heap!PushNew, Heap!object_create, Finish, Collect, Heap!vm_gc_mark,
              Heap!MarkFrom, Heap!object_sweep, Heap!CreateFailed
<1>7. QED
  BY <1>3, <1>4, <1>5, <1>6 DEF Next, Execute
-----------------------------------------------------------------------------
(* Every run of the machine.                                               *)

InStep ==
  \E fns, A : /\ fns = Functions /\ A[0] = Begin /\ Runs(fns, A)
              /\ \E k \in Nat : \E a : a = A[k] /\ Simulates(fns, a)

LEMMA FunctionsFit ==
  ASSUME Inv
  PROVE  Fit(Functions) /\ Begin \in Machine(Functions)
<1>1. prog \in DOMAIN Blobs /\ Functions = Blobs[prog].fns
  BY DEF Inv, Functions
<1>2. Fit(Functions)
  BY <1>1, BlobFacts DEF Fit
<1>3. 1 \in DOMAIN Functions
  <2>1. Functions \in Seq(fn_blob_t) /\ Functions # <<>>
    BY <1>2 DEF Fit
  <2>2. QED
    BY <2>1
<1>4. Begin \in Machine(Functions)
  <2>1. Start \in EState
    BY DEF Start, EState, NoVariables, Variables, Endings
  <2>2. <<>> \in Seq(Caller(Functions))
    OBVIOUS
  <2>3. QED
    BY <1>3, <2>1, <2>2 DEF Begin, Machine
<1>5. QED
  BY <1>2, <1>4

LEMMA BeginsInStep ==
  ASSUME Init, Inv
  PROVE  InStep
<1>1. PICK fns : fns = Functions
  OBVIOUS
<1>2. Fit(fns) /\ Begin \in Machine(fns)
  BY <1>1, FunctionsFit
<1>3. PICK A : A[0] = Begin /\ Runs(fns, A)
  BY <1>2, RunIs
<1>4. /\ Begin.s = Start /\ Begin.fn = 1 /\ Begin.at = 0 /\ Begin.saved = <<>>
      /\ Start.stk = <<>> /\ Start.table = NoVariables /\ Start.out = <<>> /\ Start.end = "none"
  BY DEF Begin, Start
<1>5. /\ stack = <<>> /\ frames = <<Heap!EmptyTable>> /\ phase = "run" /\ cur_fn = 1 /\ pointer = 0
      /\ pending = Nothing /\ err = "none" /\ out = <<>> /\ fault = "none"
      /\ returns = <<[addr |-> 0, fn |-> 0]>>
  BY DEF Init, Heap!Init
<1>6. Stacked(Matched, <<>>, <<>>)
  BY DEF Stacked
<1>7. Framed(Matched, frames, returns, <<>>, NoVariables)
  <2>1. \A x \in Name : NoVariables[x] = Null /\ Heap!EmptyTable[x] \notin Object
    BY VmAssumption DEF NoVariables, Heap!EmptyTable
  <2>2. Len(frames) = 1 /\ Len(returns) = 1 /\ frames[1] = Heap!EmptyTable
    BY <1>5
  <2>3. Tabled(Matched, frames[Len(frames)], NoVariables)
    BY <2>1, <2>2 DEF Tabled
  <2>4. QED
    BY <2>2, <2>3 DEF Framed
<1>8. Alike(<<>>, <<>>)
  BY ReadIs, AfterFew DEF Alike, Unread
<1>9. Going(fns, Begin)
  BY <1>4, <1>5, <1>6, <1>7, <1>8 DEF Going
<1>10. Simulates(fns, Begin)
  BY <1>5, <1>9 DEF Simulates, Left
<1>11. QED
  BY <1>1, <1>3, <1>10 DEF InStep

LEMMA KeepsInStep ==
  ASSUME Good, Good', [Next]_vars, InStep
  PROVE  InStep'
<1>1. PICK fns, A : /\ fns = Functions /\ A[0] = Begin /\ Runs(fns, A)
                    /\ \E k \in Nat : \E a : a = A[k] /\ Simulates(fns, a)
  BY DEF InStep
<1>2. PICK k \in Nat : \E a : a = A[k] /\ Simulates(fns, a)
  BY <1>1
<1>3. PICK a : a = A[k] /\ Simulates(fns, a)
  BY <1>2
<1>4. fns = Functions'
  <2>1. CASE UNCHANGED vars
    BY <1>1, <2>1 DEF vars, Functions
  <2>2. CASE Next
    <3>1. blob' = blob
      BY <2>2, Steps DEF Good, SameFunction, Enter, CODE_RET, TakeDown
    <3>2. QED
      BY <1>1, <3>1 DEF Functions
  <2>3. QED
    BY <2>1, <2>2
<1>5. PICK b : b = Moved(fns, a)
  OBVIOUS
<1>6. k + 1 \in Nat /\ b = A[k + 1] /\ a \in Machine(fns)
  BY <1>1, <1>3, <1>5 DEF Runs
<1>7. Simulates(fns, a)' \/ Simulates(fns, b)'
  <2>1. CASE Past(a)
    <3>1. a.s.out \in Seq(Token)
      BY <1>6, MachineParts, EParts
    <3>2. Past(a)'
      BY <2>1, <3>1, PastStays
    <3>3. QED
      BY <3>2 DEF Simulates
  <2>2. CASE Left /\ ~Past(a)
    <3>1. Settles(fns, a) /\ (phase = "stopped" => fault = "none")
      BY <1>3, <2>2 DEF Simulates
    <3>2. QED
      BY <2>2, <3>1, LeftStays
  <2>3. CASE ~Left /\ ~Past(a)
    <3>1. ObjectsKept
      BY ObjectsStep DEF Good
    <3>2. Fit(fns)
      BY <1>1, FunctionsFit DEF Good
    <3>3. Setting(fns, a)
      BY <1>1, <1>3, <1>6, <2>3, <3>1, <3>2 DEF Setting, Simulates
    <3>4. QED
      BY <1>5, <3>3, StepSimulates
  <2>4. QED
    BY <2>1, <2>2, <2>3
<1>8. QED
  BY <1>1, <1>3, <1>4, <1>6, <1>7 DEF InStep

\* Two beginnings of one output.
LEMMA PrefixesCompare ==
  ASSUME NEW S, NEW x \in Seq(S), NEW y \in Seq(S), NEW z \in Seq(S),
         IsPrefixOf(x, z), IsPrefixOf(y, z)
  PROVE  IsPrefixOf(x, y) \/ IsPrefixOf(y, x)
BY DEF IsPrefixOf

\* At rest, what was printed is what is meant.
LEMMA RestsAsMeant ==
  ASSUME Good, InStep
  PROVE  OutputAsMeant
<1> SUFFICES ASSUME AtRest
             PROVE  LET meaning == Meanings[prog]
                    IN  IF meaning.end = "unfinished"
                        THEN \/ IsPrefixOf(Outside(meaning.out), Outside(out))
                             \/ IsPrefixOf(Outside(out), Outside(meaning.out))
                        ELSE RunsAs(meaning)
  BY DEF OutputAsMeant
<1> DEFINE r == Meanings[prog]
<1>1. PICK fns, A : /\ fns = Functions /\ A[0] = Begin /\ Runs(fns, A)
                    /\ \E k \in Nat : \E a : a = A[k] /\ Simulates(fns, a)
  BY DEF InStep
<1>2. PICK k \in Nat : \E a : a = A[k] /\ Simulates(fns, a)
  BY <1>1
<1>3. PICK a : a = A[k] /\ Simulates(fns, a)
  BY <1>2
<1>4. Fit(fns)
  BY <1>1, FunctionsFit DEF Good
<1> DEFINE root == Programs[prog]
           to == Len(fns[1].code)
<1>5. root \in Program /\ ~ast_compile(root).crashed /\ fns = ast_compile(root).fns
      /\ r = Meaning(root)
  <2>1. prog \in DOMAIN Blobs /\ blob = Blobs[prog]
    BY DEF Good, Inv
  <2>2. Blobs = [p \in DOMAIN Programs |-> ast_compile(Programs[p])]
        /\ \A p \in DOMAIN Programs : Programs[p] \in Program /\ ~Blobs[p].crashed
    BY CompiledAssumption
  <2>3. prog \in DOMAIN Programs /\ blob = ast_compile(Programs[prog])
    BY <2>1, <2>2
  <2>4. QED
    BY <1>1, <2>1, <2>2, <2>3 DEF Functions, Meanings
<1>6. Arrives(A, 0, r, to)
  BY <1>1, <1>4, <1>5, CodeAsMeant
<1> HIDE DEF r, root, to
<1>7. PICK n \in Nat : /\ A[n].s.out = r.out
                       /\ r.end = "none" => A[n] = Onward(A[0], r, to)
                       /\ r.end \notin {"none", "unfinished"} => A[n].s.end = r.end
  BY <1>6 DEF Arrives
<1> DEFINE mine == Outside(out)
           met == Outside(a.s.out)
           meant == Outside(r.out)
<1>8. /\ a.s.out \in Seq(Token) /\ r.out \in Seq(Token) /\ out \in Seq(Token)
      /\ mine \in Seq(Token) /\ met \in Seq(Token) /\ meant \in Seq(Token)
      /\ IsPrefixOf(mine, mine) /\ IsPrefixOf(met, met) /\ IsPrefixOf(meant, meant)
  <2>1. a.s.out \in Seq(Token) /\ r.out \in Seq(Token) /\ out \in Seq(Token)
    BY <1>1, <1>3, <1>6, MachineParts, EParts DEF Good, Arrives, Runs
  <2>2. \A x \in Seq(Token) : Outside(x) \in Seq(Token) /\ IsPrefixOf(Outside(x), Outside(x))
    BY OutsideGrows, PrefixRefl
  <2>3. QED
    BY <2>1, <2>2
<1>9. \/ Past(a)
      \/ Settles(fns, a)
  BY <1>3 DEF Simulates, AtRest, Left
<1>10. /\ k <= n => /\ IsPrefixOf(met, meant)
                    /\ Stuck(fns, a) => A[n] = a
       /\ n <= k => /\ IsPrefixOf(meant, met)
                    /\ Stuck(fns, A[n]) => a = A[n]
       /\ k <= n \/ n <= k
  <2>1. k <= n => /\ IsPrefixOf(A[k].s.out, A[n].s.out)
                  /\ Stuck(fns, A[k]) => A[n] = A[k]
    BY <1>1, <1>4, RunGrows
  <2>2. n <= k => /\ IsPrefixOf(A[n].s.out, A[k].s.out)
                  /\ Stuck(fns, A[n]) => A[k] = A[n]
    BY <1>1, <1>4, RunGrows
  <2>3. k <= n \/ n <= k
    OBVIOUS
  <2>4. A[k].s.out = a.s.out /\ A[n].s.out = r.out
    BY <1>3, <1>7
  <2>5. k <= n => IsPrefixOf(met, meant)
    BY <1>8, <2>1, <2>4, OutsideGrows
  <2>6. n <= k => IsPrefixOf(meant, met)
    BY <1>8, <2>2, <2>4, OutsideGrows
  <2>7. QED
    BY <1>3, <2>1, <2>2, <2>3, <2>5, <2>6
<1>11. \/ Past(a) /\ Stuck(fns, a) /\ IsPrefixOf(met, mine)
       \/ Stuck(fns, a) /\ mine = met /\ a.s.end = Ending
       \/ GaveIn /\ IsPrefixOf(mine, met)
  BY <1>9 DEF Past, Stuck, Settles, Alike, Outside
<1>12. CASE r.end = "unfinished"
  <2>1. IsPrefixOf(met, meant) \/ IsPrefixOf(meant, met)
    BY <1>10
  <2>2. IsPrefixOf(met, mine) \/ IsPrefixOf(mine, met)
    BY <1>8, <1>11
  <2>3. Stuck(fns, a) => IsPrefixOf(meant, met)
    BY <1>3, <1>7, <1>8, <1>10
  <2>4. CASE Stuck(fns, a)
    <3>1. IsPrefixOf(meant, met)
      BY <2>3, <2>4
    <3>2. IsPrefixOf(met, mine) => IsPrefixOf(meant, mine)
      BY <1>8, <3>1, PrefixTrans
    <3>3. IsPrefixOf(mine, met) => IsPrefixOf(meant, mine) \/ IsPrefixOf(mine, meant)
      BY <1>8, <3>1, PrefixesCompare
    <3>4. IsPrefixOf(meant, mine) \/ IsPrefixOf(mine, meant)
      BY <2>2, <3>2, <3>3
    <3>5. QED
      BY <1>12, <3>4 DEF r
  <2>5. CASE ~Stuck(fns, a)
    <3>1. IsPrefixOf(mine, met)
      BY <1>11, <2>5
    <3>2. IsPrefixOf(met, meant) => IsPrefixOf(mine, meant)
      BY <1>8, <3>1, PrefixTrans
    <3>3. IsPrefixOf(meant, met) => IsPrefixOf(meant, mine) \/ IsPrefixOf(mine, meant)
      BY <1>8, <3>1, PrefixesCompare
    <3>4. IsPrefixOf(meant, mine) \/ IsPrefixOf(mine, meant)
      BY <2>1, <3>2, <3>3
    <3>5. QED
      BY <1>12, <3>4 DEF r
  <2>6. QED
    BY <2>4, <2>5
<1>13. CASE r.end # "unfinished"
  <2>1. A[n].s.end = r.end /\ Stuck(fns, A[n])
    <3>1. CASE r.end = "none"
      <4>1. A[n] = Onward(Begin, r, to)
        BY <1>1, <1>7, <3>1
      <4>2. A[n].s = r /\ A[n].at = to /\ A[n].fn = 1
        BY <4>1 DEF Onward, Begin
      <4>3. to \in Nat
        <5>1. 1 \in DOMAIN fns
          BY <1>1, FunctionsFit DEF Good, Machine, Begin
        <5>2. fns[1].code \in Seq(Bytecode)
          BY <1>4, <5>1 DEF Fit
        <5>3. QED
          BY <5>2 DEF to
      <4>4. A[n].at >= Len(fns[A[n].fn].code)
        BY <4>2, <4>3 DEF to
      <4>5. QED
        BY <4>2, <4>4 DEF Stuck
    <3>2. CASE r.end # "none"
      <4>1. A[n].s.end = r.end
        BY <1>7, <1>13, <3>2
      <4>2. QED
        BY <3>2, <4>1 DEF Stuck
    <3>3. QED
      BY <3>1, <3>2
  <2>2. Stuck(fns, a) => a = A[n]
    BY <1>10, <2>1
  <2>3. IsPrefixOf(met, meant)
    <3>1. CASE k <= n
      BY <1>10, <3>1
    <3>2. CASE n <= k
      <4>1. a = A[n]
        BY <1>10, <2>1, <3>2
      <4>2. QED
        BY <1>7, <1>8, <4>1
    <3>3. QED
      BY <1>10, <3>1, <3>2
  <2>4. RunsAs(r)
    <3>1. CASE Past(a) /\ Stuck(fns, a) /\ IsPrefixOf(met, mine)
      <4>1. a.s.out = r.out /\ a.s.end = r.end
        BY <1>7, <2>1, <2>2, <3>1
      <4>2. QED
        BY <3>1, <4>1 DEF RunsAs, Past
    <3>2. CASE Stuck(fns, a) /\ mine = met /\ a.s.end = Ending
      <4>1. a.s.out = r.out /\ a.s.end = r.end
        BY <1>7, <2>1, <2>2, <3>2
      <4>2. QED
        BY <3>2, <4>1 DEF RunsAs
    <3>3. CASE GaveIn /\ IsPrefixOf(mine, met)
      <4>1. IsPrefixOf(mine, meant)
        BY <1>8, <2>3, <3>3, PrefixTrans
      <4>2. QED
        BY <3>3, <4>1 DEF RunsAs
    <3>4. QED
      BY <1>11, <3>1, <3>2, <3>3
  <2>5. QED
    BY <1>13, <2>4 DEF r
<1>14. QED
  BY <1>12, <1>13

LEMMA GoodAlways == Spec => []Good
<1>1. HeapInv /\ Inv /\ ValuesInv /\ ControlInv /\ Heap!RootsLive /\ out \in Seq(Token) => Good
  BY DEF Good
<1>2. Heap!TypeOK /\ Heap!NullOnlyInVariables => HeapInv
  BY DEF HeapInv
<1>3. QED
  BY <1>1, <1>2, Invariant, ValuesInvariant, ControlInvariant, ProgramsKeepHeap, OutTyped, PTL

\* The compiler, the machine, the heap, the collector and the natives
\* together, for every program that compiles, heap size, height of the stack,
\* order of collections and address malloc returns: outside of arrays a run
\* prints what the program means, up to the point where the machine gives in,
\* and it ends as the program does.
THEOREM RunsAsMeant == Spec => []OutputAsMeant
<1>1. Init /\ Inv => InStep
  BY BeginsInStep
<1>2. Good => Inv
  BY DEF Good
<1>3. Good /\ Good' /\ [Next]_vars /\ InStep => InStep'
  BY KeepsInStep
<1>4. Good /\ InStep => OutputAsMeant
  BY RestsAsMeant
<1>5. QED
  BY <1>1, <1>2, <1>3, <1>4, GoodAlways, PTL DEF Spec
=============================================================================
