------------------------------ MODULE Grammar -------------------------------
(***************************************************************************)
(* lexer.l and grammar.y: the tokens, the productions with what they       *)
(* build, and the automaton bison makes of them.                           *)
(*                                                                         *)
(* bison is external.  `comparison` is a nonterminal, so the rule for      *)
(* binary operators has no precedence of its own, %left decides nothing    *)
(* and every conflict is a shift.  With that, the parser shifts whenever   *)
(* its LR(0) state has a transition on the token, and else reduces by the  *)
(* one complete item of the state (AtMostOne).                             *)
(***************************************************************************)
EXTENDS Integers, FiniteSets, Syntax, TLC

-----------------------------------------------------------------------------
(* Tokens. A text is a sequence of lexemes: the words of Lexemes, and      *)
(* those that carry a value.                                               *)

Operators == <<"TCEQ", "TCNE", "TCLT", "TCLE", "TCGT", "TCGE",
               "TPLUS", "TMINUS", "TMUL", "TDIV">>

\* The rules for fixed text.
Lexemes ==
  ("if" :> "TKEYWORDIF") @@ ("while" :> "TKEYWORDWHILE") @@ ("fn" :> "TKEYWORDFUNCDEF") @@
  ("true" :> "TTRUE") @@ ("false" :> "TFALSE") @@ ("=" :> "TEQUAL") @@
  ("==" :> "TCEQ") @@ ("!=" :> "TCNE") @@ ("<" :> "TCLT") @@ ("<=" :> "TCLE") @@
  (">" :> "TCGT") @@ (">=" :> "TCGE") @@ ("(" :> "TLPAREN") @@ (")" :> "TRPAREN") @@
  ("{" :> "TLBRACE") @@ ("}" :> "TRBRACE") @@ ("[" :> "TLBRACK") @@ ("]" :> "TRBRACK") @@
  ("." :> "TDOT") @@ ("," :> "TCOMMA") @@ ("+" :> "TPLUS") @@ ("-" :> "TMINUS") @@
  ("*" :> "TMUL") @@ ("/" :> "TDIV")

\* A token is its kind and what yylval holds.
W(lexeme)  == [t |-> Lexemes[lexeme]]
Id(name)   == [t |-> "TIDENTIFIER", name |-> name]
Digits(i)  == [t |-> "TINTEGER", integer |-> i]
Flt(text)  == [t |-> "TDOUBLE", text |-> text]
Quoted(s)  == [t |-> "TSTRING", string |-> s]   \* SAVE_TOKEN_NO_QUOTES

\* What matches no other rule, and the token yyterminate() makes of it.
Unknown == [t |-> "unknown"]
End == [t |-> "$end"]

-----------------------------------------------------------------------------
(* Productions: left side, right side, and the name of the action.         *)

Fixed == <<
  <<"$accept", <<"program", "$end">>, "first">>,
  <<"program", <<"stmts">>, "first">>,
  <<"stmts", <<"stmt">>, "single">>,
  <<"stmts", <<"stmts", "stmt">>, "push2">>,
  <<"stmt", <<"var_assign">>, "first">>,
  <<"stmt", <<"if_structure">>, "first">>,
  <<"stmt", <<"while_structure">>, "first">>,
  <<"stmt", <<"func_decl">>, "first">>,
  <<"stmt", <<"expr">>, "first">>,
  <<"var_assign", <<"TIDENTIFIER", "TEQUAL", "expr">>, "NASSIGNMENT">>,
  <<"block", <<"TLBRACE", "stmts", "TRBRACE">>, "second">>,
  <<"block", <<"TLBRACE", "TRBRACE">>, "empty">>,
  <<"if_structure", <<"TKEYWORDIF", "expr", "block">>, "NIFSTRUCTURE">>,
  <<"while_structure", <<"TKEYWORDWHILE", "expr", "block">>, "NWHILESTRUCTURE">>,
  <<"func_decl", <<"TKEYWORDFUNCDEF", "TIDENTIFIER", "TLPAREN", "func_decl_args",
                   "TRPAREN", "block">>, "NFUNCDEF">>,
  <<"anon_func_decl", <<"TKEYWORDFUNCDEF", "TLPAREN", "func_decl_args", "TRPAREN",
                        "block">>, "NANONFUNCDEF">>,
  <<"func_decl_args", <<>>, "empty">>,
  <<"func_decl_args", <<"TIDENTIFIER">>, "name1">>,
  <<"func_decl_args", <<"func_decl_args", "TCOMMA", "TIDENTIFIER">>, "name3">>,
  <<"ident", <<"TIDENTIFIER">>, "NLOOKUP">>,
  <<"literal", <<"TINTEGER">>, "NINTEGER">>,
  <<"literal", <<"TDOUBLE">>, "NDOUBLE">>,
  <<"literal", <<"TSTRING">>, "NSTRING">>,
  <<"literal", <<"TTRUE">>, "true">>,
  <<"literal", <<"TFALSE">>, "false">>,
  <<"literal", <<"TLBRACK", "call_args", "TRBRACK">>, "NARRAY">>,
  <<"expr", <<"TIDENTIFIER", "TLPAREN", "call_args", "TRPAREN">>, "NCALL">>,
  <<"expr", <<"ident">>, "first">>,
  <<"expr", <<"literal">>, "first">>,
  <<"expr", <<"expr", "comparison", "expr">>, "NBINARYOP">>,
  <<"expr", <<"TLPAREN", "expr", "TRPAREN">>, "second">>,
  <<"expr", <<"anon_func_decl">>, "first">>,
  <<"call_args", <<>>, "empty">>,
  <<"call_args", <<"expr">>, "single">>,
  <<"call_args", <<"call_args", "TCOMMA", "expr">>, "push3">> >>

Productions ==
  Fixed \o [k \in DOMAIN Operators |-> <<"comparison", <<Operators[k]>>, "first">>]

Left(p) == Productions[p][1]
Right(p) == Productions[p][2]

\* Mutant: the new element goes to the front.
List_push_front(list, elem) == <<elem>> \o list

List_push(list, elem) == Append(list, elem)

\* The action of production p on the values v of its right side. The loop's
\* block is stored through if_structure, which has the layout of
\* while_structure; atol is exact up to the wrap of an int (Values.tla).
Built(p, v) ==
  LET action == Productions[p][3]
  IN  CASE action = "first"           -> v[1]
        [] action = "second"          -> v[2]
        [] action = "empty"           -> <<>>
        [] action = "single"          -> List_push(<<>>, v[1])
        [] action = "push2"           -> List_push(v[1], v[2])
        [] action = "push3"           -> List_push(v[1], v[3])
        [] action = "name1"           -> List_push(<<>>, v[1].name)
        [] action = "name3"           -> List_push(v[1], v[3].name)
        [] action = "NASSIGNMENT"     -> Set(v[1].name, v[3])
        [] action = "NIFSTRUCTURE"    -> If(v[2], v[3])
        [] action = "NWHILESTRUCTURE" -> While(v[2], v[3])
        [] action = "NFUNCDEF"        -> Fn(v[2].name, v[4], v[6])
        [] action = "NANONFUNCDEF"    -> Anon(v[3], v[5])
        [] action = "NLOOKUP"         -> Var(v[1].name)
        [] action = "NINTEGER"        -> Num(v[1].integer)
        [] action = "NDOUBLE"         -> Float(v[1].text)
        [] action = "NSTRING"         -> Str(v[1].string)
        [] action = "true"            -> Bool(TRUE)
        [] action = "false"           -> Bool(FALSE)
        [] action = "NARRAY"          -> Arr(v[2])
        [] action = "NCALL"           -> App(v[1].name, v[3])
        [] action = "NBINARYOP"       -> Op(v[1], v[2].t, v[3])

-----------------------------------------------------------------------------
(* The automaton: states are sets of items <<production, dot>>, numbered.  *)

Complete(item) == item[2] = Len(Right(item[1]))
NextSymbol(item) == Right(item[1])[item[2] + 1]
Expected(items) == {NextSymbol(i) : i \in {j \in items : ~Complete(j)}}

Items == UNION {{<<p, dot>> : dot \in 0 .. Len(Right(p))} : p \in DOMAIN Productions}

Closure(items) ==
  LET more(I) == {<<p, 0>> : p \in {q \in DOMAIN Productions : Left(q) \in Expected(I)}}
      closed[I \in SUBSET Items] == IF more(I) \subseteq I THEN I ELSE closed[I \cup more(I)]
  IN  closed[items]

After(items, symbol) ==
  Closure({<<i[1], i[2] + 1>> : i \in {j \in items : ~Complete(j) /\ NextSymbol(j) = symbol}})

\* The states that can be got to from the new ones, with the known ones.
Reachable(known, new) ==
  LET beyond(S) == UNION {{After(I, X) : X \in Expected(I)} : I \in S}
      reached[old, last \in SUBSET SUBSET Items] ==
        IF last = {} THEN old ELSE reached[old \cup beyond(last), beyond(last) \ old]
  IN  reached[known, new]

\* States in some order.
Listed(sets) ==
  LET listed[S \in SUBSET SUBSET Items] ==
        IF S = {} THEN <<>>
        ELSE LET I == CHOOSE I \in S : TRUE IN Append(listed[S \ {I}], I)
  IN  listed[sets]

Begin == Closure({<<1, 0>>})
Automaton == Listed(Reachable({Begin}, {Begin}))
Number(items) == CHOOSE n \in DOMAIN Automaton : Automaton[n] = items

Start == Number(Begin)
Goto == [n \in DOMAIN Automaton |->
           [X \in Expected(Automaton[n]) |-> Number(After(Automaton[n], X))]]
Reductions == [n \in DOMAIN Automaton |-> {i[1] : i \in {j \in Automaton[n] : Complete(j)}}]

Nonterminals == {Left(p) : p \in DOMAIN Productions}

\* A state that only reduces does so without looking at the next token.
Consistent == {n \in DOMAIN Automaton : DOMAIN Goto[n] \subseteq Nonterminals}

ASSUME AtMostOne == \A n \in DOMAIN Automaton : Cardinality(Reductions[n]) <= 1

\* What the tables are, as far as the parser relies on it to find under what it
\* pops the state it goes on from. TLC computes it.
ASSUME Tables ==
  /\ \A p \in DOMAIN Productions : Right(p) \in Seq(STRING)
  /\ Automaton \in Seq(SUBSET Items)
  /\ Start \in DOMAIN Automaton
  /\ \A item \in Automaton[Start] : item[2] = 0
  \* A state is entered on the symbol before the dot of its items.
  /\ \A n \in DOMAIN Automaton : \A X \in DOMAIN Goto[n] :
       /\ Goto[n][X] \in DOMAIN Automaton
       /\ \A item \in Automaton[Goto[n][X]] :
            item[2] > 0 => /\ X = Right(item[1])[item[2]]
                           /\ <<item[1], item[2] - 1>> \in Automaton[n]
  \* What begins in a state leads on from it, but for the production that accepts.
  /\ \A n \in DOMAIN Automaton : \A item \in Automaton[n] :
       LET p == item[1]
       IN  /\ Left(p) # "$end"
           /\ \/ item[2] = 0 => Left(p) \in DOMAIN Goto[n]
              \/ Len(Right(p)) > 0 /\ Right(p)[Len(Right(p))] = "$end"
=============================================================================
