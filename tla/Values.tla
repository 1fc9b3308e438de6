------------------------------- MODULE Values -------------------------------
(***************************************************************************)
(* The values of Derplang (the union in Derp_obj), the arithmetic of       *)
(* vm_arithmetic on them, and the text print writes, as a sequence of      *)
(* tokens: the values printed and the separators between them.             *)
(***************************************************************************)
EXTENDS FileBlob

CONSTANTS
  IntBits,      \* width of an int
  StackHeight   \* VM_STACK_HEIGHT, 64 in vm.h

ASSUME IntAssumption == IntBits \in Nat \ {0}

Types == {"TYPE_INTEGER", "TYPE_BOOLEAN", "TYPE_STRING", "TYPE_FLOAT", "TYPE_FN_REF",
          "TYPE_ARRAY"}

Data == [type : Types \ {"TYPE_STRING"}, num : Int, str : Chars] \cup
        [type : {"TYPE_STRING"}, num : Int, str : Text]

value(type, num, str) == [type |-> type, num |-> num, str |-> str]

\* Signed overflow wraps on the targets the Makefile builds for.
Wrapped(i) == ((i + 2 ^ (IntBits - 1)) % 2 ^ IntBits) - 2 ^ (IntBits - 1)

IntValue(i)   == value("TYPE_INTEGER", Wrapped(i), "")
BoolValue(b)  == value("TYPE_BOOLEAN", IF b THEN 1 ELSE 0, "")
StrValue(s)   == value("TYPE_STRING", 0, s)
FloatValue(s) == value("TYPE_FLOAT", 0, s)
FnRefValue(f) == value("TYPE_FN_REF", f, "")
ArrayValue(n) == value("TYPE_ARRAY", n, "")

-----------------------------------------------------------------------------
(* vm_arithmetic on two integers.                                          *)

ArithmeticCodes == {"CODE_ADD", "CODE_SUB", "CODE_MUL", "CODE_DIV",
                    "CODE_CMP_EQ", "CODE_CMP_NEQ", "CODE_CMP_LT",
                    "CODE_CMP_LT_EQ", "CODE_CMP_GT", "CODE_CMP_GT_EQ"}

Magnitude(i) == IF i < 0 THEN -i ELSE i

\* Mutant: it rounds down.
Quotient_floor(l, r) == IF r < 0 THEN (-l) \div (-r) ELSE l \div r

\* Division in C truncates towards zero.
Quotient(l, r) ==
  LET q == Magnitude(l) \div Magnitude(r)
  IN  IF (l < 0) = (r < 0) THEN q ELSE -q

\* The division instruction traps on zero, and on a quotient out of range.
DivisionTraps(code, l, r) ==
  code = "CODE_DIV" /\ (r = 0 \/ (l = -(2 ^ (IntBits - 1)) /\ r = -1))

Computed(code, l, r) ==
  CASE code = "CODE_ADD"       -> IntValue(l + r)
    [] code = "CODE_SUB"       -> IntValue(l - r)
    [] code = "CODE_MUL"       -> IntValue(l * r)
    [] code = "CODE_DIV"       -> IntValue(Quotient(l, r))
    [] code = "CODE_CMP_EQ"    -> BoolValue(l = r)
    [] code = "CODE_CMP_NEQ"   -> BoolValue(l # r)
    [] code = "CODE_CMP_LT"    -> BoolValue(l < r)
    [] code = "CODE_CMP_LT_EQ" -> BoolValue(l <= r)
    [] code = "CODE_CMP_GT"    -> BoolValue(l > r)
    [] code = "CODE_CMP_GT_EQ" -> BoolValue(l >= r)

-----------------------------------------------------------------------------
(* What derp_stdlib_print writes: `out`, and in `res` whether it got to    *)
(* the end.                                                                *)

Separators == {" ", ",", "[", "]", "\n"}
Separator(s) == value("separator", 0, s)
Token == [type : Types, num : Int, str : Chars] \cup
         [type : {"separator"}, num : {0}, str : Separators]

Shown(out) == [out |-> out, res |-> "ok"]
NotShown(res) == [out |-> <<>>, res |-> res]

\* Several values with a separator between them, up to and including what
\* was written of the first that fails.
Joined(shown, sep) ==
  LET upto[k \in Nat] ==
        IF k = 0 THEN Shown(<<>>)
        ELSE IF upto[k - 1].res # "ok" THEN upto[k - 1]
        ELSE [out |-> upto[k - 1].out \o (IF k = 1 THEN <<>> ELSE <<Separator(sep)>>)
                                     \o shown[k].out,
              res |-> shown[k].res]
  IN  upto[Len(shown)]

\* An array: the closing bracket is not written after a failure.
Bracketed(elements) ==
  [elements EXCEPT
     !.out = <<Separator("[")>> \o @
               \o IF elements.res = "ok" THEN <<Separator("]")>> ELSE <<>>]

\* println writes a newline only after a successful print.
WithNewline(printed) ==
  [printed EXCEPT
     !.out = @ \o IF printed.res = "ok" THEN <<Separator("\n")>> ELSE <<>>]
=============================================================================
