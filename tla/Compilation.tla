---------------------------- MODULE Compilation -----------------------------
(***************************************************************************)
(* What the compiler of Compiler.tla promises of the code it makes of a    *)
(* program.                                                                *)
(***************************************************************************)
EXTENDS Compiler

VARIABLE program

\* ast_expr_compile: control never leaves a function but by its CODE_RET,
\* however its conditionals and loops are nested, and the global code only by
\* running to its end, where derp_vm_run stops.
StaysInside(blob) ==
  /\ \A f \in DOMAIN blob.fns : Closed(blob.fns[f].code, f # 1)
  /\ \A l \in DOMAIN blob.literals : Closed(blob.literals[l].code, TRUE)
ControlStaysInside ==
  LET blob == ast_compile(program) IN ~blob.crashed => StaysInside(blob)

\* NWHILESTRUCTURE: each jump back has, on the way it repeats, the conditional
\* jump that leaves the loop to just behind it. Its offset is filled in after
\* the nested blocks were compiled.
LeavesLoops(code) ==
  \A i \in 0 .. Len(code) - 1 :
    code[i + 1].code = "CODE_JUMP" =>
      \E j \in code[i + 1].arg2 .. i - 1 :
        code[j + 1].code = "CODE_JUMP_IF_FALSE" /\ i + 1 \in Targets(code, j)
LeavesAllLoops(blob) ==
  /\ \A f \in DOMAIN blob.fns : LeavesLoops(blob.fns[f].code)
  /\ \A l \in DOMAIN blob.literals : LeavesLoops(blob.literals[l].code)
LoopsHaveAnExit ==
  LET blob == ast_compile(program) IN ~blob.crashed => LeavesAllLoops(blob)

\* The limits of file_blob_t: a program is compiled if, and only if, it has
\* less than four definitions and at most four anonymous functions, wherever
\* they are nested; beyond that the compiler dies, it does not drop functions.
DiesWhenFull ==
  LET defined == Definitions(program)
  IN  ast_compile(program).crashed <=>
        Len(defined.fns) >= FnLimit \/ defined.literals > LiteralLimit
=============================================================================
