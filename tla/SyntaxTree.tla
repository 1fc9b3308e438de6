----------------------------- MODULE SyntaxTree -----------------------------
(***************************************************************************)
(* The abstract syntax trees (ast_nodes.h), and the functions they define. *)
(*                                                                         *)
(* A node of the tree is a record whose field t is its ExprType and whose  *)
(* other fields are those of the C union member for that type; a block, an *)
(* argument list or a whole program is a sequence of nodes.  The printed   *)
(* form of a float stands for the float.                                   *)
(***************************************************************************)
EXTENDS FileBlob

CONSTANT Deepest   \* bound of the model: the levels of a program's nodes

ASSUME TreeAssumption == Deepest \in Nat

OpCode ==
  [TPLUS |-> "CODE_ADD", TMINUS |-> "CODE_SUB", TMUL |-> "CODE_MUL",
   TDIV |-> "CODE_DIV", TCEQ |-> "CODE_CMP_EQ", TCNE |-> "CODE_CMP_NEQ",
   TCLT |-> "CODE_CMP_LT", TCLE |-> "CODE_CMP_LT_EQ",
   TCGT |-> "CODE_CMP_GT", TCGE |-> "CODE_CMP_GT_EQ"]

\* An identifier has at least one character.
Identifier == STRING \ {""}

\* The nodes with parts in T.
NExpression(T) ==
  [t : {"NASSIGNMENT"}, name : Name, val : T] \cup
  [t : {"NINTEGER"}, integer : Int] \cup
  [t : {"NDOUBLE"}, tdouble : STRING] \cup
  [t : {"NSTRING"}, string : Text] \cup
  [t : {"NBOOL"}, tbool : BOOLEAN] \cup
  [t : {"NARRAY"}, array : Seq(T)] \cup
  [t : {"NCALL"}, name : Identifier, args : Seq(T)] \cup
  [t : {"NBINARYOP"}, left : T, op : DOMAIN OpCode, right : T] \cup
  [t : {"NLOOKUP"}, name : Name] \cup
  [t : {"NIFSTRUCTURE"}, expr : T, block : Seq(T)] \cup
  [t : {"NWHILESTRUCTURE"}, expr : T, block : Seq(T)] \cup
  [t : {"NFUNCDEF"}, name : Identifier, params : Seq(Name), block : Seq(T)] \cup
  [t : {"NANONFUNCDEF"}, params : Seq(Name), block : Seq(T)]

\* The trees of at most h levels of nodes.
Trees[h \in Nat] == IF h = 0 THEN {} ELSE NExpression(Trees[h - 1])

Node == Trees[Deepest]
Program == Seq(Node)

\* What f makes of s with the elements of a list, one after the other.
Through(f, list, s) ==
  LET after[k \in Nat] == IF k = 0 THEN s ELSE f[list[k]][after[k - 1]]
  IN  after[Len(list)]

-----------------------------------------------------------------------------
(* The definitions in a tree, added to those found so far, in the order of *)
(* the text: a function, named or not, comes before those defined in it.   *)

Found == [fns : Seq(Node), literals : Nat]

Parts(e) ==
  CASE e.t = "NASSIGNMENT" -> <<e.val>>
    [] e.t = "NARRAY"      -> e.array
    [] e.t = "NCALL"       -> e.args
    [] e.t = "NBINARYOP"   -> <<e.left, e.right>>
    [] e.t \in {"NIFSTRUCTURE", "NWHILESTRUCTURE"} -> <<e.expr>> \o e.block
    [] e.t \in {"NFUNCDEF", "NANONFUNCDEF"}        -> e.block
    [] OTHER               -> <<>>

Including(e, c) ==
  [fns |-> IF e.t = "NFUNCDEF" THEN Append(c.fns, e) ELSE c.fns,
   literals |-> c.literals + (IF e.t = "NANONFUNCDEF" THEN 1 ELSE 0)]

Defined[h \in Nat] ==
  IF h = 0 THEN <<>>
  ELSE [e \in Trees[h] |-> [c \in Found |-> Through(Defined[h - 1], Parts(e), Including(e, c))]]

Definitions(root) == Through(Defined[Deepest], root, [fns |-> <<>>, literals |-> 0])
=============================================================================
