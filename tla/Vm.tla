--------------------------------- MODULE Vm ---------------------------------
(***************************************************************************)
(* derp_vm_run (vm.c) and the native functions it calls (stdlib.c): one    *)
(* action per group of bytecodes, over the object heap of ObjectHeap.tla.  *)
(*                                                                         *)
(* An instruction that creates an object may need several steps, because   *)
(* the collection it starts is not atomic.  A read of freed or unreadable  *)
(* memory takes the machine to phase "crashed" with the cause in `fault`:  *)
(* from there on anything may happen, and the model says nothing more.     *)
(***************************************************************************)
EXTENDS FiniteSets, Values

CONSTANTS
  Object, NULL, Unbound, HeapSize, MaxFrames,   \* ObjectHeap
  Blobs,         \* the compiled programs a run chooses from
  InitialMarks   \* what the marked field of a new object may hold

ASSUME VmAssumption ==
  /\ HeapSize \in Nat \ {0} /\ StackHeight \in Nat \ {0} /\ MaxFrames \in Nat \ {0}
  /\ IsFiniteSet(Object)
  /\ NULL \notin Object /\ Unbound \notin Object /\ NULL # Unbound
  /\ InitialMarks \in (SUBSET BOOLEAN) \ {{}}
  /\ \A p \in DOMAIN Blobs : Runnable(Blobs[p].fns)

VARIABLES
  heap, next_free_slot, marked, live, vec, stack, frames, phase, slot,
  obj,       \* type and value of each object
  prog,      \* the program being run
  blob,      \* vm->blob
  cur_fn,    \* index of the function being run
  pointer,   \* index of the instruction, from 0
  returns,   \* return_addr and return_fn of each frame
  pending,   \* the length derp_stdlib_len is about to push, or Nothing
  err,       \* vm->err
  reported,  \* err_print was called
  out,       \* what was printed
  fault      \* why the process died

heapVars == <<heap, next_free_slot, marked, live, vec, stack, frames, phase, slot>>
vars == <<heapVars, obj, prog, blob, cur_fn, pointer, returns,
          pending, err, reported, out, fault>>

Heap == INSTANCE ObjectHeap

Nothing == -1

-----------------------------------------------------------------------------
(* Fetching.                                                               *)

Functions == blob.fns
Code == Functions[cur_fn].code
AtEnd == pointer >= Len(Code)
Instr == Code[pointer + 1]

PushCodes == {"CODE_PUSH_INT", "CODE_PUSH_FLOAT", "CODE_PUSH_STR",
              "CODE_PUSH_BOOL", "CODE_PUSH_FN"}

\* The next instruction has one of the codes.
Ready(codes) ==
  /\ phase \in {"run", "swept"}
  /\ pending = Nothing
  /\ ~AtEnd
  /\ Instr.code \in codes

Literal(i) ==
  CASE i.code = "CODE_PUSH_INT"   -> IntValue(i.arg2)
    [] i.code = "CODE_PUSH_FLOAT" -> FloatValue(i.arg1)
    [] i.code = "CODE_PUSH_STR"   -> StrValue(i.arg1)
    [] i.code = "CODE_PUSH_BOOL"  -> BoolValue(i.arg2 = 1)
    [] i.code = "CODE_PUSH_FN"    -> FnRefValue(i.arg2)

\* The loop of derp_vm_run looks for the first function of that name.
FnsNamed(name) == {f \in DOMAIN Functions : Functions[f].name = name}
\* Mutant: the last one counts.
FirstNamed_last(name) == CHOOSE f \in FnsNamed(name) : \A g \in FnsNamed(name) : f >= g
FirstNamed(name) == CHOOSE f \in FnsNamed(name) : \A g \in FnsNamed(name) : f <= g

\* What malloc may return: an address no array element points to (all such
\* addresses are alike), or that of a freed object an array still points to.
Dangling == (UNION {Heap!Elements(a) : a \in live}) \ live
Unused == Object \ (live \cup Dangling)
NewAddress == Dangling \cup (IF Unused = {} THEN {} ELSE {CHOOSE o \in Unused : TRUE})

-----------------------------------------------------------------------------
(* How an instruction ends.                                                *)

Advance ==
  /\ pointer' = pointer + 1
  /\ UNCHANGED <<prog, blob, cur_fn, returns>>

NoJump == UNCHANGED <<prog, blob, cur_fn, pointer, returns>>

NoError == UNCHANGED <<err, reported, fault>>

\* vm->err was set: the check after the switch leaves the loop.
Fail(e) ==
  /\ err' = e
  /\ NoJump
  /\ UNCHANGED <<reported, fault, pending, obj>>

\* The process dies, in a native perhaps after it printed something.
FaultPrinting(f) ==
  /\ Heap!Die
  /\ fault' = f
  /\ NoJump
  /\ UNCHANGED <<err, reported, pending, obj>>

Fault(f) == FaultPrinting(f) /\ UNCHANGED out

\* The instruction takes n operands, as many as there are, and fails.
FailDropping(n, e) ==
  /\ Heap!Drop(IF n <= Len(stack) THEN n ELSE Len(stack), TRUE)
  /\ Fail(e)

-----------------------------------------------------------------------------
(* Instructions that create an object.                                     *)

PushLiteral ==
  /\ Ready(PushCodes)
  /\ \E o \in NewAddress, m \in InitialMarks :
       /\ Heap!PushNew(o, m)
       /\ obj' = [obj EXCEPT ![o] = Literal(Instr)]
  /\ Advance
  /\ NoError
  /\ UNCHANGED <<pending, out>>

\* CODE_PUSH_ARRAY does not check that the stack holds the elements.
CODE_PUSH_ARRAY ==
  /\ Ready({"CODE_PUSH_ARRAY"})
  /\ \/ /\ \E o \in NewAddress, m \in InitialMarks :
             /\ Heap!PushArray(o, m, Instr.arg2)
             /\ obj' = [obj EXCEPT ![o] = ArrayValue(Instr.arg2)]
        /\ Advance
        /\ NoError
        /\ UNCHANGED <<pending, out>>
     \/ /\ Instr.arg2 > Len(stack)
        /\ Heap!HasSlot
        /\ Fault("out_of_bounds")

\* The second half of derp_stdlib_len: vm_push_int, with the argument popped.
PushLen ==
  /\ pending # Nothing
  /\ \E o \in NewAddress, m \in InitialMarks :
       /\ Heap!PushNew(o, m)
       /\ obj' = [obj EXCEPT ![o] = IntValue(pending)]
  /\ pending' = Nothing
  /\ Advance
  /\ NoError
  /\ UNCHANGED out

\* The instruction at hand is in object_create.
InCreate == pending # Nothing \/ Ready(PushCodes \cup {"CODE_PUSH_ARRAY"})

\* The collector's steps leave the machine where it is.
Collect ==
  /\ \/ InCreate /\ Heap!vm_gc_mark
     \/ Heap!object_sweep
     \/ Heap!CreateFailed
  /\ fault' = IF phase' # "crashed" THEN fault
              ELSE IF phase = "swept" THEN "heap_full" ELSE "null_root"
  /\ NoJump
  /\ UNCHANGED <<obj, pending, err, reported, out>>

-----------------------------------------------------------------------------
(* vm_arithmetic: right is popped, then left; right is looked at first.    *)

TypeAt(k) == obj[stack[k]].type
NumAt(k) == obj[stack[k]].num

Arithmetic ==
  LET n == Len(stack)
  IN
  /\ Ready(ArithmeticCodes)
  /\ \/ /\ n = 0 \/ (n = 1 /\ TypeAt(1) = "TYPE_INTEGER")
        /\ Fault("null")
     \/ /\ n > 0
        /\ \/ TypeAt(n) # "TYPE_INTEGER"
           \/ n > 1 /\ TypeAt(n - 1) # "TYPE_INTEGER"
        /\ FailDropping(2, "InternalErr")
        /\ UNCHANGED out
     \/ /\ n > 1
        /\ TypeAt(n) = "TYPE_INTEGER"
        /\ TypeAt(n - 1) = "TYPE_INTEGER"
        /\ IF DivisionTraps(Instr.code, NumAt(n - 1), NumAt(n))
           THEN Fault("division")
           ELSE /\ \E o \in NewAddress :
                     /\ Heap!PushResult(o, FALSE)
                     /\ obj' = [obj EXCEPT ![o] =
                                  Computed(Instr.code, NumAt(n - 1), NumAt(n))]
                /\ Advance
                /\ NoError
                /\ UNCHANGED <<pending, out>>

-----------------------------------------------------------------------------
(* CODE_CALL of a native.  Its argc arguments leave the stack first; it    *)
(* reads them above the new top.                                           *)

Args == Heap!Top(stack, Instr.arg2)

\* derp_stdlib_print on each cell, with arrays nested less than d deep. Arrays
\* nested deeper than there are arrays have become part of themselves, and are
\* printed until the process dies.
Display[d \in Nat] ==
  IF d = 0 THEN [c \in Heap!Cell |-> NotShown("endless")]
  ELSE [c \in Heap!Cell |->
          IF c \notin live THEN NotShown("freed")
          ELSE IF obj[c].type = "TYPE_FN_REF" THEN NotShown("InternalErr")
          ELSE IF obj[c].type # "TYPE_ARRAY" THEN Shown(<<obj[c]>>)
          ELSE Bracketed(Joined([k \in DOMAIN vec[c] |-> Display[d - 1][vec[c][k]]], ","))]

Arrays == {o \in live : obj[o].type = "TYPE_ARRAY"}

Printed(cells) ==
  Joined([k \in DOMAIN cells |-> Display[Cardinality(Arrays) + 1][cells[k]]], " ")

derp_stdlib_print(newline) ==
  IF Instr.arg2 > Len(stack) THEN Fault("out_of_bounds")
  ELSE LET printed == IF newline THEN WithNewline(Printed(Args)) ELSE Printed(Args)
       IN  \/ /\ printed.res = "ok"
              /\ Heap!Drop(Instr.arg2, FALSE)
              /\ out' = out \o printed.out
              /\ Advance
              /\ NoError
              /\ UNCHANGED <<obj, pending>>
           \/ /\ printed.res = "InternalErr"
              /\ FailDropping(Instr.arg2, "InternalErr")
              /\ out' = out \o printed.out
           \/ /\ printed.res \in {"freed", "endless"}
              /\ FaultPrinting(printed.res)
              /\ out' = out \o printed.out

\* The length is read before vm_push_int, which may start a collection.
derp_stdlib_len ==
  IF Instr.arg2 # 1 THEN FailDropping(Instr.arg2, "ArgErr") /\ UNCHANGED out
  ELSE IF stack = <<>> THEN Fault("out_of_bounds")
  ELSE LET data == obj[Heap!TopOrNull]
       IN  IF data.type \in {"TYPE_STRING", "TYPE_ARRAY"}
           THEN /\ Heap!Drop(1, FALSE)
                /\ pending' = IF data.type = "TYPE_STRING" THEN Len(data.str) ELSE data.num
                /\ NoJump
                /\ NoError
                /\ UNCHANGED <<obj, out>>
           ELSE FailDropping(1, "ArgErr") /\ UNCHANGED out

\* The same argument is taken for the array and for the function, so no call
\* gets past both checks; without arguments it reads a stale slot.
derp_stdlib_range ==
  \/ /\ Instr.arg2 > 2 \/ Instr.arg2 <= Len(stack)
     /\ FailDropping(Instr.arg2, "ArgErr")
     /\ UNCHANGED out
  \/ /\ Instr.arg2 <= 2
     /\ Instr.arg2 > Len(stack)
     /\ Fault("out_of_bounds")
  \/ /\ Instr.arg2 = 0
     /\ Fault("stale")

Natives == {"println", "print", "len", "range"}

derp_run_native ==
  \/ Instr.arg1 = "println" /\ derp_stdlib_print(TRUE)
  \/ Instr.arg1 = "print"   /\ derp_stdlib_print(FALSE)
  \/ Instr.arg1 = "len"     /\ derp_stdlib_len
  \/ Instr.arg1 = "range"   /\ derp_stdlib_range

-----------------------------------------------------------------------------
(* The other instructions.                                                 *)

\* Mutant: cur_fn is set too early.
ReturnTo_callee == [addr |-> pointer, fn |-> FirstNamed(Instr.arg1)]

ReturnTo == [addr |-> pointer, fn |-> cur_fn]

\* A defined function hides a native of its name; argc is not compared with
\* the number of its parameters.
CODE_CALL ==
  /\ Ready({"CODE_CALL"})
  /\ \/ /\ FnsNamed(Instr.arg1) # {}
        /\ Heap!Call
        /\ returns' = Append(returns, ReturnTo)
        /\ cur_fn' = FirstNamed(Instr.arg1)
        /\ pointer' = 0
        /\ NoError
        /\ UNCHANGED <<prog, blob, obj, pending, out>>
     \/ /\ FnsNamed(Instr.arg1) = {}
        /\ Instr.arg1 \in Natives
        /\ derp_run_native
     \/ /\ FnsNamed(Instr.arg1) = {}
        /\ Instr.arg1 \notin Natives
        /\ FailDropping(0, "LookupErr")
        /\ UNCHANGED out

CODE_RET ==
  /\ Ready({"CODE_RET"})
  /\ Heap!Ret
  /\ cur_fn' = returns[Len(returns)].fn
  /\ pointer' = returns[Len(returns)].addr + 1
  /\ returns' = Heap!Dropped(returns, 1)
  /\ NoError
  /\ UNCHANGED <<prog, blob, obj, pending, out>>

CODE_PUSH_LOOKUP ==
  /\ Ready({"CODE_PUSH_LOOKUP"})
  /\ Heap!Lookup(Instr.arg1)
  /\ IF phase' = "stopped"
     THEN Fail("LookupErr")
     ELSE Advance /\ NoError /\ UNCHANGED <<obj, pending>>
  /\ UNCHANGED out

\* Mutant: the value stays on the stack.
CODE_ASSIGN_peeks ==
  /\ Ready({"CODE_ASSIGN"})
  /\ frames' = [frames EXCEPT ![Len(frames)][Instr.arg1] = Heap!TopOrNull]
  /\ UNCHANGED <<heap, next_free_slot, marked, live, vec, stack, phase, slot>>
  /\ Advance
  /\ NoError
  /\ UNCHANGED <<obj, pending, out>>

CODE_ASSIGN ==
  /\ Ready({"CODE_ASSIGN"})
  /\ Heap!Assign(Instr.arg1)
  /\ Advance
  /\ NoError
  /\ UNCHANGED <<obj, pending, out>>

\* Mutants: the jump goes one instruction too far, or is taken when it should not.
AfterTest_far(holds) == pointer + (IF holds THEN 1 ELSE 2 + Instr.arg2)
AfterTest_inverted(holds) == pointer + 1 + (IF holds THEN Instr.arg2 ELSE 0)

\* pointer += num, and the increment at the end of the loop.
AfterTest(holds) == pointer + 1 + (IF holds THEN 0 ELSE Instr.arg2)

CODE_JUMP_IF_FALSE ==
  /\ Ready({"CODE_JUMP_IF_FALSE"})
  /\ IF stack = <<>> THEN Fault("null")
     ELSE LET top == obj[Heap!TopOrNull]
          IN  /\ \/ /\ top.type # "TYPE_BOOLEAN"
                    /\ FailDropping(1, "TypeErr")
                 \/ /\ top.type = "TYPE_BOOLEAN"
                    /\ Heap!Drop(1, FALSE)
                    /\ pointer' = AfterTest(top.num = 1)
                    /\ NoError
                    /\ UNCHANGED <<prog, blob, cur_fn, returns, obj, pending>>
              /\ UNCHANGED out

\* Mutant: the pointer is left alone.
CODE_JUMP_stuck ==
  /\ Ready({"CODE_JUMP"})
  /\ UNCHANGED vars

CODE_JUMP ==
  /\ Ready({"CODE_JUMP"})
  /\ pointer' = Instr.arg2
  /\ NoError
  /\ UNCHANGED <<heapVars, prog, blob, cur_fn, returns, obj, pending, out>>

-----------------------------------------------------------------------------
(* The end of a run.                                                       *)

Finish ==
  /\ phase = "run"
  /\ pending = Nothing
  /\ AtEnd
  /\ Heap!Stop
  /\ NoJump
  /\ NoError
  /\ UNCHANGED <<obj, pending, out>>

\* err_create does not set the file that err_print prints.
err_print ==
  /\ phase = "stopped"
  /\ err # "none"
  /\ ~reported
  /\ \/ /\ reported' = TRUE
        /\ NoJump
        /\ UNCHANGED <<heapVars, obj, pending, err, out, fault>>
     \/ Fault("uninitialised")

\* One frame of the backtrace.  Nothing sets the return_fn of the root frame,
\* whose name is printed last.
Backtrace ==
  /\ reported
  /\ \/ /\ Heap!Unwind
        /\ returns' = Heap!Dropped(returns, 1)
        /\ UNCHANGED <<prog, blob, cur_fn, pointer, obj, pending, err, reported, out, fault>>
     \/ /\ Len(frames) = 1
        /\ Fault("uninitialised")

\* The machine has come to rest.
AtRest ==
  \/ phase = "crashed"
  \/ phase = "stopped" /\ (err = "none" \/ frames = <<>>)

Rest == AtRest /\ UNCHANGED vars

-----------------------------------------------------------------------------
Init ==
  /\ Heap!Init
  /\ obj = [o \in Object |-> IntValue(0)]
  /\ prog \in DOMAIN Blobs
  /\ blob = Blobs[prog]
  /\ cur_fn = 1
  /\ pointer = 0
  /\ returns = <<[addr |-> 0, fn |-> 0]>>
  /\ pending = Nothing
  /\ err = "none"
  /\ reported = FALSE
  /\ out = <<>>
  /\ fault = "none"

Execute ==
  \/ PushLiteral
  \/ CODE_PUSH_ARRAY
  \/ PushLen
  \/ Collect
  \/ Arithmetic
  \/ CODE_CALL
  \/ CODE_RET
  \/ CODE_PUSH_LOOKUP
  \/ CODE_ASSIGN
  \/ CODE_JUMP_IF_FALSE
  \/ CODE_JUMP
  \/ Finish
  \/ err_print
  \/ Backtrace

Next == Execute \/ Rest

Spec == Init /\ [][Next]_vars

\* The interpreter is a loop in one thread that never waits.
FairSpec == Spec /\ WF_vars(Execute)

-----------------------------------------------------------------------------
(* Properties.                                                             *)

Errors == {"none", "InternalErr", "LookupErr", "TypeErr", "ArgErr"}
Faults == {"none", "null", "null_root", "out_of_bounds", "division", "freed", "endless",
           "heap_full", "uninitialised", "stale"}

\* The types of the variables this module adds to ObjectHeap's; of the
\* instruction at hand, whose operands are of the kind its code reads; and of an
\* array in use, whose length is that of its vector.
TypeOK ==
  /\ Heap!TypeOK
  /\ obj \in [Object -> Data]
  /\ \A o \in live : obj[o].type = "TYPE_ARRAY" => obj[o].num = Len(vec[o])
  /\ prog \in DOMAIN Blobs
  /\ blob = Blobs[prog]
  /\ cur_fn \in DOMAIN Functions
  /\ pointer \in 0 .. Len(Code)
  /\ ~AtEnd => Instr \in Bytecode /\ WellTyped(Instr)
  /\ returns \in Seq([addr : Nat, fn : Nat])
  /\ pending \in Nat \cup {Nothing}
  /\ err \in Errors
  /\ reported \in BOOLEAN
  /\ out \in Seq(Token)
  /\ fault \in Faults

\* derp_vm_run does to the heap, the stack and the symbol tables only what
\* the mutator of ObjectHeap.tla may do, so all that holds of it holds here.
RunsOnHeap == Heap!Spec

\* vm_add_stack_frame and CODE_RET: each frame but the root's returns to a
\* call, in the function that made it, of the function the frame runs, so that
\* a run comes back to where it left whatever was called in between.
Running(k) == IF k = Len(returns) THEN cur_fn ELSE returns[k + 1].fn
ReturnsToCaller ==
  ~reported =>
    /\ Len(returns) = Len(frames)
    /\ Running(1) = 1
    /\ \A k \in 2 .. Len(returns) :
         LET caller == Functions[returns[k].fn].code
         IN  /\ returns[k].addr < Len(caller)
             /\ caller[returns[k].addr + 1].code = "CODE_CALL"
             /\ Running(k) = FirstNamed(caller[returns[k].addr + 1].arg1)

\* Only the root function runs off the end of its code: a called function
\* always gets to its CODE_RET, whatever jumps its body has.
EndsInRoot == phase = "stopped" /\ err = "none" => Len(frames) = 1 /\ cur_fn = 1

\* vm_arithmetic gives what C says, on ints of IntBits bits with the wrapping of
\* the targets: a sum, difference or product is right up to a multiple of
\* 2^IntBits and an int; of a quotient, what is left over is smaller than the
\* divisor and has the sign of the dividend; and a division traps exactly when
\* no int is such a quotient.
Ints == -(2 ^ (IntBits - 1)) .. 2 ^ (IntBits - 1) - 1

Quotients(l, r) ==
  {q \in Ints : LET rest == l - q * r IN rest * rest < r * r /\ rest * l >= 0}

RightInt(i, exact) == i \in Ints /\ (i - exact) % 2 ^ IntBits = 0

ResultInC(code, l, r, v) ==
  /\ v.type = IF code \in {"CODE_ADD", "CODE_SUB", "CODE_MUL", "CODE_DIV"}
              THEN "TYPE_INTEGER" ELSE "TYPE_BOOLEAN"
  /\ CASE code = "CODE_ADD"       -> RightInt(v.num, l + r)
       [] code = "CODE_SUB"       -> RightInt(v.num, l - r)
       [] code = "CODE_MUL"       -> RightInt(v.num, l * r)
       [] code = "CODE_DIV"       -> v.num \in Quotients(l, r)
       [] code = "CODE_CMP_EQ"    -> v.num = 1 <=> l - r = 0
       [] code = "CODE_CMP_NEQ"   -> v.num = 0 <=> l - r = 0
       [] code = "CODE_CMP_LT"    -> v.num = 1 <=> l - r < 0
       [] code = "CODE_CMP_LT_EQ" -> v.num = 0 <=> l - r > 0
       [] code = "CODE_CMP_GT"    -> v.num = 1 <=> l - r > 0
       [] code = "CODE_CMP_GT_EQ" -> v.num = 0 <=> l - r < 0

ArithmeticAsInC ==
  [][Ready(ArithmeticCodes) =>
       LET n == Len(stack)
       IN  /\ fault' = "division" =>
                Instr.code = "CODE_DIV" /\ Quotients(NumAt(n - 1), NumAt(n)) = {}
           /\ pointer' # pointer =>
                ResultInC(Instr.code, NumAt(n - 1), NumAt(n), obj'[stack'[n - 1]])]_vars

\* A program whose loops end comes to rest.
ComesToRest == <>AtRest
=============================================================================
