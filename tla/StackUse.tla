------------------------------ MODULE StackUse ------------------------------
(***************************************************************************)
(* How high the operand stack of a program gets, counted on its syntax     *)
(* tree: an independent account, with no values, to hold the runs of       *)
(* Interpreter.tla against.  A node may leave any number of values, so a   *)
(* count is a range; what calls itself, and a loop that does not keep the  *)
(* height, is not counted.                                                 *)
(***************************************************************************)
EXTENDS Interpreter

MinOf(i, j) == IF i < j THEN i ELSE j
MaxOf(i, j) == IF i > j THEN i ELSE j

\* Relative to the height before: the lowest and the highest height on the way,
\* and the least and the greatest height afterwards.
Count == [counted : BOOLEAN, low : Int, high : Int, least : Int, most : Int]

Uncounted == [counted |-> FALSE, low |-> 0, high |-> 0, least |-> 0, most |-> 0]

Leaves(n) == [counted |-> TRUE, low |-> 0, high |-> n, least |-> n, most |-> n]
Takes(n) == [counted |-> TRUE, low |-> -n, high |-> 0, least |-> -n, most |-> -n]
Idle == Takes(0)

Then ==
  [u \in Count, v \in Count |->
     [counted |-> u.counted /\ v.counted,
      low |-> MinOf(u.low, u.least + v.low), high |-> MaxOf(u.high, u.most + v.high),
      least |-> u.least + v.least, most |-> u.most + v.most]]

Perhaps(u) == [u EXCEPT !.least = MinOf(0, @), !.most = MaxOf(0, @)]

\* The test of a loop, and the rest of its body.
Repeated(test, body) ==
  LET once == Then[test, body]
  IN  IF once.least = 0 /\ once.most = 0 THEN Then[once, test] ELSE Uncounted

\* A native that refuses its arguments ends the program.
NativeUse(name, n) ==
  CASE name \in {"println", "print"} -> Takes(n)
    [] name = "len"                  -> IF n = 1 THEN Then[Takes(1), Leaves(1)] ELSE Idle
    [] name = "range"                -> IF n = 0 THEN Uncounted
                                        ELSE IF n <= 2 THEN Takes(n) ELSE Idle
    [] OTHER                         -> Idle

UseOfNode(use, defs, e) ==
  LET all(list) == LET upto[k \in Nat] == IF k = 0 THEN Idle
                                          ELSE Then[upto[k - 1], use[list[k]]]
                   IN  upto[Len(list)]
  IN
  CASE e.t \in {"NINTEGER", "NDOUBLE", "NSTRING", "NBOOL", "NANONFUNCDEF", "NLOOKUP"} ->
         Leaves(1)
    [] e.t = "NFUNCDEF"        -> Idle
    [] e.t = "NASSIGNMENT"     -> Then[use[e.val], Takes(1)]
    [] e.t = "NARRAY"          -> Then[all(e.array), Then[Takes(Len(e.array)), Leaves(1)]]
    [] e.t = "NBINARYOP"       ->
         Then[use[e.left], Then[use[e.right], Then[Takes(2), Leaves(1)]]]
    [] e.t = "NIFSTRUCTURE"    -> Then[use[e.expr], Then[Takes(1), Perhaps(all(e.block))]]
    [] e.t = "NWHILESTRUCTURE" -> Repeated(Then[use[e.expr], Takes(1)], all(e.block))
    [] e.t = "NCALL"           ->
         LET named == {d \in DOMAIN defs : defs[d].name = e.name}
             first == defs[CHOOSE d \in named : \A c \in named : d <= c]
         IN  Then[all(e.args),
                  IF named = {} THEN NativeUse(e.name, Len(e.args))
                  ELSE Then[Takes(Len(first.params)), all(first.block)]]

\* The levels of a node and of what it calls, as many as two trees have.
UseOfProgram(root) ==
  LET defs == Definitions(root).fns
      use[depth \in Nat] ==
        IF depth = 0 THEN [e \in Node |-> Uncounted]
        ELSE [e \in Node |-> UseOfNode(use[depth - 1], defs, e)]
      upto[k \in Nat] == IF k = 0 THEN Idle ELSE Then[upto[k - 1], use[2 * Deepest][root[k]]]
  IN  upto[Len(root)]

Uses == [p \in DOMAIN Programs |-> UseOfProgram(Programs[p])]

\* A program that never takes what is not there, and never needs more room than
\* there is.
Fits(u) == u.counted /\ u.low >= 0 /\ u.high <= StackHeight

\* vm_stack_push, vm_stack_pop, CODE_PUSH_ARRAY and the natives' stack_len -= argc
\* (vm.c): in a program that fits no value is lost and none is missing.  Nothing
\* is read beyond the stack or through a null pointer, no variable holds one for
\* the marker to meet, and the program ends with as many values on the stack as
\* it leaves.
HeightsAsCounted ==
  /\ \/ fault \in {"null", "null_root", "out_of_bounds", "stale"}
     \/ \E f \in DOMAIN frames, x \in Name : frames[f][x] = NULL
     => ~Fits(Uses[prog])
  /\ /\ phase = "stopped"
     /\ err = "none"
     /\ Fits(Uses[prog])
     => Len(stack) \in Uses[prog].least .. Uses[prog].most
=============================================================================
