----------------------------- MODULE MCCompiler -----------------------------
(* Compiler on all programs built from a few statements by putting one     *)
(* after another and by wrapping what is there in a construct.             *)
EXTENDS Compilation, Syntax

CONSTANT MaxSteps   \* bound on the steps that build a program

VARIABLE steps

Leaves == {Set("x", Num(1)), App("f", <<Var("x"), Str("s")>>)}
Test == Op(Var("x"), "TCLT", Num(3))

Wrapped(p) ==
  {If(Test, p), While(Test, p), Fn("f", <<"x">>, p), Set("x", Anon(<<"x">>, p))}

Init == program = <<>> /\ steps = 0

Next ==
  /\ steps < MaxSteps
  /\ steps' = steps + 1
  /\ \/ \E leaf \in Leaves : program' = Append(program, leaf)
     \/ \E node \in Wrapped(program) : program' = <<node>>
     \/ program # <<>> /\ \E node \in Wrapped(<<program[Len(program)]>>) :
          program' = Append(program, node)

Spec == Init /\ [][Next]_<<program, steps>>
=============================================================================
