------------------------------- MODULE Syntax -------------------------------
(***************************************************************************)
(* The nodes of the syntax tree (ast_nodes.h), in the form Compiler.tla    *)
(* and Language.tla take, under short names to write programs with.        *)
(***************************************************************************)
EXTENDS Sequences

Num(i)          == [t |-> "NINTEGER", integer |-> i]
Float(s)        == [t |-> "NDOUBLE", tdouble |-> s]
Str(s)          == [t |-> "NSTRING", string |-> s]
Bool(b)         == [t |-> "NBOOL", tbool |-> b]
Arr(elems)      == [t |-> "NARRAY", array |-> elems]
Var(x)          == [t |-> "NLOOKUP", name |-> x]
Set(x, e)       == [t |-> "NASSIGNMENT", name |-> x, val |-> e]
App(f, args)    == [t |-> "NCALL", name |-> f, args |-> args]
Op(l, op, r)    == [t |-> "NBINARYOP", left |-> l, op |-> op, right |-> r]
If(c, b)        == [t |-> "NIFSTRUCTURE", expr |-> c, block |-> b]
While(c, b)     == [t |-> "NWHILESTRUCTURE", expr |-> c, block |-> b]
Fn(f, params, b) == [t |-> "NFUNCDEF", name |-> f, params |-> params, block |-> b]
Anon(params, b) == [t |-> "NANONFUNCDEF", params |-> params, block |-> b]

Println(args)   == App("println", args)
=============================================================================
