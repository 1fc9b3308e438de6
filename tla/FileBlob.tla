------------------------------ MODULE FileBlob ------------------------------
(***************************************************************************)
(* What the compiler hands to the machine: instructions (bytecodes.h) and  *)
(* the file_blob_t they come in (vm.h), and what the machine relies on     *)
(* when it runs one.                                                       *)
(***************************************************************************)
EXTENDS Integers, Sequences

CONSTANT Name   \* variable names

ASSUME NameAssumption == Name \subseteq STRING

Derp_code_type ==
  {"CODE_NULL",
   "CODE_PUSH", "CODE_PUSH_INT", "CODE_PUSH_FLOAT", "CODE_PUSH_STR", "CODE_PUSH_BOOL",
   "CODE_PUSH_ARRAY", "CODE_PUSH_FN",
   "CODE_ADD", "CODE_SUB", "CODE_MUL", "CODE_DIV",
   "CODE_CMP_EQ", "CODE_CMP_NEQ", "CODE_CMP_LT", "CODE_CMP_LT_EQ", "CODE_CMP_GT",
   "CODE_CMP_GT_EQ",
   "CODE_CALL", "CODE_REGISTER", "CODE_PUSH_LOOKUP", "CODE_ASSIGN", "CODE_RET",
   "CODE_JUMP_IF_FALSE", "CODE_JUMP", "CODE_REPEAT"}

\* A char*: "" stands for NULL, too.
Chars == {""} \cup STRING

\* A string of C has a length.
Text == {s \in Chars : Len(s) \in Nat}

Bytecode == [code : Derp_code_type, arg1 : Chars, arg2 : Int]
fn_blob_t == [name : Chars, argc : Nat, code : Seq(Bytecode)]
literal_t == [argc : Nat, code : Seq(Bytecode)]

\* `crashed` says that the compiler wrote through the NULL it got from a full
\* blob.
file_blob_t == [fns : Seq(fn_blob_t), literals : Seq(literal_t), crashed : BOOLEAN]

\* What the arguments of an instruction are. Only an integer literal is
\* negative, if any; a string literal has a length; no identifier is empty.
WellTyped(c) ==
  /\ c.code # "CODE_PUSH_INT" => c.arg2 \in Nat
  /\ c.code \in {"CODE_PUSH_LOOKUP", "CODE_ASSIGN"} => c.arg1 \in Name
  /\ c.code = "CODE_PUSH_STR" => Len(c.arg1) \in Nat
  /\ c.code = "CODE_CALL" => c.arg1 # ""

\* Where the instruction at index i of code may lead, from 0, if not to another
\* function.
Targets(code, i) ==
  CASE code[i + 1].code = "CODE_JUMP"          -> {code[i + 1].arg2}
    [] code[i + 1].code = "CODE_JUMP_IF_FALSE" -> {i + 1, i + 1 + code[i + 1].arg2}
    [] code[i + 1].code = "CODE_RET"           -> {}
    [] OTHER                                   -> {i + 1}

\* Control never leaves the code of a function but by the CODE_RET at its end,
\* and the global code only by running to its end.
Closed(code, returns) ==
  /\ returns => code # <<>>
  /\ \A i \in 0 .. Len(code) - 1 :
       /\ Targets(code, i) \subseteq 0 .. Len(code) - (IF returns THEN 1 ELSE 0)
       /\ code[i + 1].code = "CODE_RET" <=> returns /\ i = Len(code) - 1

\* The functions of a program, the global code first.
Runnable(fns) ==
  /\ fns \in Seq(fn_blob_t)
  /\ fns # <<>>
  /\ fns[1].name = ""
  /\ \A f \in DOMAIN fns :
       /\ Closed(fns[f].code, f # 1)
       /\ \A i \in DOMAIN fns[f].code : WellTyped(fns[f].code[i])
=============================================================================
