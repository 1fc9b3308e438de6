------------------------------ MODULE Compiler ------------------------------
(***************************************************************************)
(* The compiler of ast_nodes.c: from an abstract syntax tree to a          *)
(* file_blob_t, the bytecode vm.c runs.                                    *)
(***************************************************************************)
EXTENDS SyntaxTree

CONSTANTS
  FnLimit,       \* fns[4] of file_blob_t
  LiteralLimit   \* literals[4] of file_blob_t

ASSUME BlobAssumption == FnLimit \in Nat \ {0} /\ LiteralLimit \in Nat

-----------------------------------------------------------------------------
(* The code being produced: the output list of the function at hand, and   *)
(* the blob.                                                               *)

State == [out : Seq(Bytecode), blob : file_blob_t]

EmptyBlob == [fns |-> <<>>, literals |-> <<>>, crashed |-> FALSE]

instr(code, arg1, arg2) == [code |-> code, arg1 |-> arg1, arg2 |-> arg2]

\* The macro CODE of ast_expr_compile.
CODE(st, code, arg1, arg2) ==
  [st EXCEPT !.out = Append(@, instr(code, arg1, arg2))]

\* Mutant: the check lets one function too many through.
file_blob_add_fn_late(blob, name, argc) ==
  IF Len(blob.fns) > FnLimit
  THEN [blob EXCEPT !.crashed = TRUE]
  ELSE [blob EXCEPT !.fns = Append(@, [name |-> name, argc |-> argc, code |-> <<>>])]

\* Both leave the blob alone and return NULL when it is full.
file_blob_add_fn(blob, name, argc) ==
  IF Len(blob.fns) >= FnLimit
  THEN [blob EXCEPT !.crashed = TRUE]
  ELSE [blob EXCEPT !.fns = Append(@, [name |-> name, argc |-> argc, code |-> <<>>])]

file_blob_add_literal(blob, argc) ==
  IF Len(blob.literals) >= LiteralLimit
  THEN [blob EXCEPT !.crashed = TRUE]
  ELSE [blob EXCEPT !.literals = Append(@, [argc |-> argc, code |-> <<>>])]

\* Mutant: one too far.
PatchJump_far(st, at) ==
  [st EXCEPT !.out[at].arg2 = Len(st.out) - at + 1]

\* The offset of a conditional jump is filled in once what it skips has been
\* compiled: `at` is the length of the output just after the jump.
PatchJump(st, at) ==
  [st EXCEPT !.out[at].arg2 = Len(st.out) - at]

-----------------------------------------------------------------------------
(* One operator per case of ast_expr_compile; `compile` is its recursive   *)
(* call.                                                                   *)

ast_list_compile(compile, list, st) == Through(compile, list, st)

\* The parameters take their values off the stack, the first one first.
AssignParams(params) == [k \in DOMAIN params |-> instr("CODE_ASSIGN", params[k], 0)]

\* The code of a function body, in an output list of its own.
CompileBody(compile, params, block, blob) ==
  CODE(ast_list_compile(compile, block, [out |-> AssignParams(params), blob |-> blob]),
       "CODE_RET", "", 0)

CompileTest(compile, cond, st) == CODE(compile[cond][st], "CODE_JUMP_IF_FALSE", "", 0)

\* Mutant: the offset is taken before the jump back is emitted.
CompileWhile_no_exit(compile, cond, block, st) ==
  LET test == CompileTest(compile, cond, st)
      body == PatchJump(ast_list_compile(compile, block, test), Len(test.out))
  IN  CODE(body, "CODE_JUMP", "", Len(st.out))

CompileWhile(compile, cond, block, st) ==
  LET test == CompileTest(compile, cond, st)
      body == CODE(ast_list_compile(compile, block, test), "CODE_JUMP", "", Len(st.out))
  IN  PatchJump(body, Len(test.out))

CompileIf(compile, cond, block, st) ==
  LET test == CompileTest(compile, cond, st)
  IN  PatchJump(ast_list_compile(compile, block, test), Len(test.out))

\* The function is added to the blob before its body is compiled, so that the
\* functions nested in it come after it.  Nothing is emitted at the definition.
CompileFuncDef(compile, e, st) ==
  LET blob == file_blob_add_fn(st.blob, e.name, Len(e.params))
      body == CompileBody(compile, e.params, e.block, blob)
  IN  IF blob.crashed
      THEN [st EXCEPT !.blob = blob]
      ELSE [st EXCEPT !.blob = [body.blob EXCEPT !.fns[Len(blob.fns)].code = body.out]]

\* The parameters of an anonymous function are counted and never assigned.
CompileAnonFuncDef(compile, e, st) ==
  LET blob == file_blob_add_literal(st.blob, Len(e.params))
      body == CompileBody(compile, <<>>, e.block, blob)
      index == Len(blob.literals)
  IN  IF blob.crashed
      THEN [st EXCEPT !.blob = blob]
      ELSE CODE([st EXCEPT !.blob = [body.blob EXCEPT !.literals[index].code = body.out]],
                "CODE_PUSH_FN", "", index)

\* A crash ends the compiler: what the enclosing nodes still emit is never used.
CompileNode(compile, e, st) ==
  IF st.blob.crashed THEN st
  ELSE CASE e.t = "NASSIGNMENT" -> CODE(compile[e.val][st], "CODE_ASSIGN", e.name, 0)
         [] e.t = "NINTEGER"    -> CODE(st, "CODE_PUSH_INT", "", e.integer)
         [] e.t = "NDOUBLE"     -> CODE(st, "CODE_PUSH_FLOAT", e.tdouble, 0)
         [] e.t = "NSTRING"     -> CODE(st, "CODE_PUSH_STR", e.string, 0)
         [] e.t = "NBOOL"       -> CODE(st, "CODE_PUSH_BOOL", "", IF e.tbool THEN 1 ELSE 0)
         [] e.t = "NARRAY"      ->
              CODE(ast_list_compile(compile, e.array, st), "CODE_PUSH_ARRAY", "", Len(e.array))
         [] e.t = "NCALL"       ->
              CODE(ast_list_compile(compile, e.args, st), "CODE_CALL", e.name, Len(e.args))
         [] e.t = "NBINARYOP"   ->
              CODE(compile[e.right][compile[e.left][st]], OpCode[e.op], "", 0)
         [] e.t = "NLOOKUP"     -> CODE(st, "CODE_PUSH_LOOKUP", e.name, 0)
         [] e.t = "NIFSTRUCTURE"    -> CompileIf(compile, e.expr, e.block, st)
         [] e.t = "NWHILESTRUCTURE" -> CompileWhile(compile, e.expr, e.block, st)
         [] e.t = "NFUNCDEF"        -> CompileFuncDef(compile, e, st)
         [] e.t = "NANONFUNCDEF"    -> CompileAnonFuncDef(compile, e, st)

\* ast_expr_compile, for the trees of at most h levels.
ast_expr_compile[h \in Nat] ==
  IF h = 0 THEN <<>>
  ELSE [e \in Trees[h] |-> [st \in State |-> CompileNode(ast_expr_compile[h - 1], e, st)]]

\* The global expressions are the first function, "".
ast_compile(root) ==
  LET blob == file_blob_add_fn(EmptyBlob, "", 0)
      global == ast_list_compile(ast_expr_compile[Deepest], root, [out |-> <<>>, blob |-> blob])
  IN  [global.blob EXCEPT !.fns[1].code = global.out]
=============================================================================
