--------------------------- MODULE ExamplePrograms ---------------------------
(* Programs of src/examples, as trees.                                     *)
EXTENDS Naturals, Syntax

Eq(x, n)  == Op(Var(x), "TCEQ", Num(n))
Ne(x, n)  == Op(Var(x), "TCNE", Num(n))
Gt(x, n)  == Op(Var(x), "TCGT", Num(n))
Say(s)    == Println(<<Str(s)>>)

OneTwoThree == Arr(<<Num(1), Num(2), Num(3)>>)

Examples ==
  [array |-> <<Set("array", OneTwoThree), Println(<<Var("array")>>)>>,
   cond |-> <<
     Set("var", Num(123)),
     If(Eq("var", 123), <<Say("123 == 123")>>),
     If(Eq("var", 789), <<Say("FAIL: 123 == 789")>>),
     If(Ne("var", 123), <<Say("FAIL: 123 != 123")>>),
     If(Gt("var", 42), <<Say("123 > 42")>>)>>,
   func |-> <<
     Fn("printNum", <<"number">>, <<App("print", <<Var("number")>>)>>),
     App("print", <<Str("2 + 2 = ")>>),
     App("printNum", <<Op(Num(2), "TPLUS", Num(2))>>),
     Println(<<>>)>>,
   hello_42 |-> <<Println(<<Num(42)>>)>>,
   hello_boolean |-> <<Println(<<Bool(TRUE)>>), Println(<<Bool(FALSE)>>)>>,
   hello_world |-> <<Say("Hello, World!")>>,
   vars |-> <<
     Set("number", Num(1234)),
     Set("float", Float("3.141590")),
     Set("string", Str("Hello, World!")),
     Println(<<Var("number")>>),
     Println(<<Var("float"), Str("<- float, not integer")>>),
     Println(<<Var("string")>>)>>,
   while |-> <<
     Say("Let's count to 10!"),
     Set("int", Num(1)),
     While(Op(Var("int"), "TCLE", Num(10)),
           <<Println(<<Var("int")>>),
             Set("int", Op(Var("int"), "TPLUS", Num(1)))>>)>>]

\* examples/len.cream.
Len1 ==
  [len |-> <<
     Set("array", OneTwoThree),
     Set("string", Str("Hello, World!")),
     Println(<<Str("Array:"), Var("array"), Str("is"), App("len", <<Var("array")>>),
               Str("items long")>>),
     Println(<<Str("String:"), Var("string"), Str("is"), App("len", <<Var("string")>>),
               Str("items long")>>)>>]

\* examples/garbage_collect.cream.
GarbageCollect ==
  [garbage_collect |-> <<
     Fn("make_crap", <<>>, <<
       Set("var", Num(123)),
       Set("string", Str("HAHA, NOOB")),
       Set("string", Str("Getting up to the heap size of 4!")),
       Println(<<Var("var"), Var("string")>>)>>),
     Fn("do_stuffs", <<>>, <<
       Set("crap", Str("Crapsicles")),
       App("make_crap", <<>>),
       Set("extra", Str("I FIT BECAUSE OF GC!!"))>>),
     App("do_stuffs", <<>>), App("do_stuffs", <<>>), App("do_stuffs", <<>>)>>]

\* examples/blocks.cream.
Blocks ==
  [blocks |-> <<
     Set("array", OneTwoThree),
     App("range", <<Var("array"), Anon(<<"i">>, <<Println(<<Var("i")>>)>>)>>)>>]
=============================================================================
