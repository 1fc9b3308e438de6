------------------------------ MODULE VmProofs ------------------------------
(***************************************************************************)
(* Theorems about the machine of Vm.tla: it uses the object heap only as   *)
(* ObjectHeap.tla allows, so that what ObjectHeapProofs.tla proves of the  *)
(* heap holds of every compiled program, and its calls return to where     *)
(* they came from.                                                         *)
(***************************************************************************)
EXTENDS Vm, FiniteSetTheorems, TLAPS

\* The counter of instructions, the call stack and the operand stack.  After
\* an error was reported the backtrace takes the call stack down.
Stacks ==
  /\ stack \in Seq(Heap!Cell)
  /\ Len(stack) <= StackHeight
  /\ frames \in Seq(Heap!Table)
  /\ returns \in Seq([addr : Nat, fn : Nat])
  /\ Len(returns) = Len(frames)

Inv ==
  /\ prog \in DOMAIN Blobs
  /\ blob = Blobs[prog]
  /\ cur_fn \in DOMAIN Functions
  /\ pointer \in Nat
  /\ Stacks
  /\ ~reported => frames # <<>>
  /\ \A k \in 2 .. Len(returns) : returns[k].fn \in DOMAIN Functions
  /\ ReturnsToCaller

\* What most instructions do to the heap and the roots: neither a frame is
\* added nor one taken away.
Quiet ==
  \/ Heap!Create
  \/ Heap!Collect
  \/ \E n \in 0 .. StackHeight, stops \in BOOLEAN : Heap!Drop(n, stops)
  \/ \E x \in Name : Heap!Lookup(x) \/ Heap!Assign(x)
  \/ Heap!Stop
  \/ Heap!Die
  \/ UNCHANGED heapVars

\* And to the control: the same function goes on.
SameFunction ==
  /\ UNCHANGED <<prog, blob, cur_fn, returns>>
  /\ pointer' \in Nat
  /\ reported => reported'

-----------------------------------------------------------------------------
\* How arrays nested so deep are printed, p being <<live, obj, vec>>.
NoDisplay(p) == [c \in Heap!Cell |-> NotShown("endless")]
NextDisplay(p, d, shown) ==
  [c \in Heap!Cell |->
     IF c \notin p[1] THEN NotShown("freed")
     ELSE IF p[2][c].type = "TYPE_FN_REF" THEN NotShown("InternalErr")
     ELSE IF p[2][c].type # "TYPE_ARRAY" THEN Shown(<<p[2][c]>>)
     ELSE Bracketed(Joined([k \in DOMAIN p[3][c] |-> shown[p[3][c][k]]], ","))]
DisplayBy == INSTANCE Recursion WITH Start <- NoDisplay, Step <- NextDisplay

-----------------------------------------------------------------------------
\* Where control may be in function f, as an index from 0: at an instruction,
\* or, in the global code, behind the last one.
Inside(fns, f, i) == i \in 0 .. Len(fns[f].code) /\ (f # 1 => i < Len(fns[f].code))

\* What the machine needs of a blob that is Runnable.
LEMMA BlobFacts ==
  ASSUME NEW p \in DOMAIN Blobs
  PROVE  /\ Blobs[p].fns \in Seq(fn_blob_t)
         /\ Blobs[p].fns # <<>>
         /\ Blobs[p].fns[1].name = ""
         /\ \A f \in DOMAIN Blobs[p].fns :
              /\ Blobs[p].fns[f].code \in Seq(Bytecode)
              /\ \A i \in DOMAIN Blobs[p].fns[f].code : WellTyped(Blobs[p].fns[f].code[i])
              /\ Closed(Blobs[p].fns[f].code, f # 1)
<1>1. Runnable(Blobs[p].fns)
  BY VmAssumption
<1>2. Blobs[p].fns \in Seq(fn_blob_t)
  BY <1>1 DEF Runnable
<1>3. \A f \in DOMAIN Blobs[p].fns : Blobs[p].fns[f] \in fn_blob_t
  BY <1>2
<1>4. \A f \in DOMAIN Blobs[p].fns : Blobs[p].fns[f].code \in Seq(Bytecode)
  BY <1>3 DEF fn_blob_t
<1>5. QED
  BY <1>1, <1>4 DEF Runnable

\* Control in closed code.
LEMMA ClosedLeads ==
  ASSUME NEW fns, NEW f \in DOMAIN fns, fns[f].code \in Seq(Bytecode),
         Closed(fns[f].code, f # 1)
  PROVE  /\ Inside(fns, f, 0)
         /\ \A i \in DOMAIN fns[f].code :
              LET c == fns[f].code[i]
              IN  /\ c.code \notin {"CODE_RET", "CODE_JUMP"} => Inside(fns, f, i)
                  /\ c.code = "CODE_JUMP" => Inside(fns, f, c.arg2)
                  /\ c.code = "CODE_JUMP_IF_FALSE" => Inside(fns, f, i + c.arg2)
<1> DEFINE code == fns[f].code
           end == Len(code) - (IF f # 1 THEN 1 ELSE 0)
<1>1. \A i \in 0 .. Len(code) : i \in 0 .. end => Inside(fns, f, i)
  BY DEF Inside
<1>2. Inside(fns, f, 0)
  BY DEF Closed, Inside
<1>3. ASSUME NEW i \in DOMAIN code
      PROVE  LET c == code[i]
             IN  /\ c.code \notin {"CODE_RET", "CODE_JUMP"} => Inside(fns, f, i)
                 /\ c.code = "CODE_JUMP" => Inside(fns, f, c.arg2)
                 /\ c.code = "CODE_JUMP_IF_FALSE" => Inside(fns, f, i + c.arg2)
  <2>1. i - 1 \in 0 .. Len(code) - 1 /\ (i - 1) + 1 = i
    BY <1>3
  <2>2. Targets(code, i - 1) \subseteq 0 .. end
    <3>1. \A k \in 0 .. Len(code) - 1 : Targets(code, k) \subseteq 0 .. end
      BY DEF Closed
    <3> HIDE DEF code, end
    <3>2. QED
      BY <2>1, <3>1
  <2>3. end <= Len(code)
    <3>1. Len(code) \in Nat
      OBVIOUS
    <3> HIDE DEF code
    <3>2. QED
      BY <3>1
  <2> HIDE DEF end
  <2>4. /\ code[i].code \notin {"CODE_RET", "CODE_JUMP"} => i \in Targets(code, i - 1)
        /\ code[i].code = "CODE_JUMP" => code[i].arg2 \in Targets(code, i - 1)
        /\ code[i].code = "CODE_JUMP_IF_FALSE" => i + code[i].arg2 \in Targets(code, i - 1)
    BY <2>1 DEF Targets
  <2>5. end \in Int /\ Len(code) \in Int
    BY DEF end
  <2>6. \A j \in Targets(code, i - 1) : Inside(fns, f, j)
    BY <1>1, <2>2, <2>3, <2>5
  <2>7. QED
    BY <2>4, <2>6
<1>4. QED
  BY <1>2, <1>3

-----------------------------------------------------------------------------
\* The instruction at hand is one the compiler emits.
LEMMA InstrAtHand ==
  ASSUME Inv, ~AtEnd
  PROVE  /\ pointer + 1 \in DOMAIN Code
         /\ Instr \in Bytecode
         /\ Instr.code # "CODE_PUSH_INT" => Instr.arg2 \in Nat
         /\ Instr.code \in {"CODE_PUSH_LOOKUP", "CODE_ASSIGN"} => Instr.arg1 \in Name
<1>1. Functions \in Seq(fn_blob_t)
  BY BlobFacts DEF Inv, Functions
<1>2. Code \in Seq(Bytecode)
  <2>1. cur_fn \in DOMAIN Functions
    BY DEF Inv
  <2>2. Functions[cur_fn] \in fn_blob_t
    BY <1>1, <2>1
  <2>3. QED
    BY <2>2 DEF Code, fn_blob_t
<1>3. pointer + 1 \in DOMAIN Code
  BY <1>2 DEF Inv, AtEnd
<1>4. Instr \in Bytecode
  BY <1>2, <1>3 DEF Instr
<1>5. QED
  BY <1>3, <1>4, BlobFacts DEF Inv, Instr, Code, Functions, WellTyped

\* An address for a new object, and what its mark may be.
LEMMA NewObject ==
  /\ NewAddress \subseteq Object
  /\ InitialMarks \subseteq BOOLEAN
<1>1. InitialMarks \subseteq BOOLEAN
  BY VmAssumption
<1>2. Dangling \subseteq Object
  BY DEF Dangling, Heap!Elements
<1>3. Unused # {} => (CHOOSE o \in Unused : TRUE) \in Unused
  OBVIOUS
<1>4. QED
  BY <1>1, <1>2, <1>3 DEF NewAddress, Unused

-----------------------------------------------------------------------------
(* The parts an instruction is put together from.                          *)

LEMMA DieIsQuiet ==
  ASSUME NEW f, Fault(f) \/ FaultPrinting(f), Inv
  PROVE  Quiet /\ SameFunction
BY DEF Fault, FaultPrinting, NoJump, Quiet, SameFunction, Inv

LEMMA DropIsQuiet ==
  ASSUME NEW n \in Nat, NEW stops \in BOOLEAN, Inv, Heap!Drop(n, stops)
  PROVE  Quiet
<1>1. StackHeight \in Nat
  BY VmAssumption
<1>2. n \in 0 .. StackHeight
  BY <1>1 DEF Heap!Drop, Inv, Stacks
<1>3. QED
  BY <1>2 DEF Quiet

LEMMA FailIsQuiet ==
  ASSUME NEW n \in Nat, NEW e, Inv, FailDropping(n, e)
  PROVE  Quiet /\ SameFunction
<1>1. Len(stack) \in Nat
  BY DEF Inv, Stacks
<1>2. Quiet
  BY <1>1, DropIsQuiet DEF FailDropping
<1>3. SameFunction
  BY DEF FailDropping, Fail, NoJump, SameFunction, Inv
<1>4. QED
  BY <1>2, <1>3

LEMMA AdvanceIsQuiet ==
  ASSUME Inv, Advance, NoError
  PROVE  SameFunction
BY DEF Inv, Advance, NoError, SameFunction

-----------------------------------------------------------------------------
(* Every instruction but calls and returns.                                *)

LEMMA PushIsQuiet ==
  ASSUME Inv, PushLiteral \/ PushLen
  PROVE  Quiet /\ SameFunction
<1>1. ASSUME NEW o \in NewAddress, NEW m \in InitialMarks, Heap!PushNew(o, m)
      PROVE  Quiet
  BY <1>1, NewObject DEF Quiet, Heap!Create
<1>2. QED
  BY <1>1, AdvanceIsQuiet DEF PushLiteral, PushLen

LEMMA PushArrayIsQuiet ==
  ASSUME Inv, CODE_PUSH_ARRAY
  PROVE  Quiet /\ SameFunction
<1>1. ~AtEnd /\ Instr.code = "CODE_PUSH_ARRAY"
  BY DEF CODE_PUSH_ARRAY, Ready
<1>2. Instr.arg2 \in Nat
  BY <1>1, InstrAtHand
<1>3. ASSUME NEW o \in NewAddress, NEW m \in InitialMarks, Heap!PushArray(o, m, Instr.arg2)
      PROVE  Quiet
  <2>1. Instr.arg2 \in 0 .. StackHeight
    BY <1>2, <1>3, VmAssumption DEF Heap!PushArray, Inv, Stacks
  <2>2. QED
    BY <1>3, <2>1, NewObject DEF Quiet, Heap!Create
<1>4. QED
  BY <1>3, DieIsQuiet, AdvanceIsQuiet DEF CODE_PUSH_ARRAY

LEMMA ArithmeticIsQuiet ==
  ASSUME Inv, Arithmetic
  PROVE  Quiet /\ SameFunction
<1>1. CASE \E f : Fault(f)
  BY <1>1, DieIsQuiet
<1>2. CASE \E e : FailDropping(2, e)
  BY <1>2, FailIsQuiet
<1>3. CASE (\E o \in NewAddress : Heap!PushResult(o, FALSE)) /\ Advance /\ NoError
  <2>1. Quiet
    BY <1>3, NewObject DEF Quiet, Heap!Create
  <2>2. QED
    BY <1>3, <2>1, AdvanceIsQuiet
<1>4. QED
  BY <1>1, <1>2, <1>3 DEF Arithmetic

LEMMA CollectIsQuiet ==
  ASSUME Inv, Collect
  PROVE  Quiet /\ SameFunction
BY DEF Collect, Quiet, Heap!Collect, NoJump, SameFunction, Inv

LEMMA NativeIsQuiet ==
  ASSUME Inv, ~AtEnd, Instr.code = "CODE_CALL", derp_run_native
  PROVE  Quiet /\ SameFunction
<1>1. Instr.arg2 \in Nat
  BY InstrAtHand
<1>2. ASSUME NEW newline \in BOOLEAN, derp_stdlib_print(newline)
      PROVE  Quiet /\ SameFunction
  <2>1. CASE \E f : Fault(f) \/ FaultPrinting(f)
    BY <2>1, DieIsQuiet
  <2>2. CASE \E e : FailDropping(Instr.arg2, e)
    BY <2>2, <1>1, FailIsQuiet
  <2>3. CASE Heap!Drop(Instr.arg2, FALSE) /\ Advance /\ NoError
    BY <2>3, <1>1, DropIsQuiet, AdvanceIsQuiet
  <2>4. QED
    BY <1>2, <2>1, <2>2, <2>3 DEF derp_stdlib_print
<1>3. CASE derp_stdlib_len
  <2>1. CASE \E f : Fault(f)
    BY <2>1, DieIsQuiet
  <2>2. CASE \E n \in Nat : \E e : FailDropping(n, e)
    BY <2>2, FailIsQuiet
  <2>3. CASE Heap!Drop(1, FALSE) /\ NoJump /\ NoError
    <3>1. SameFunction
      BY <2>3 DEF NoJump, NoError, SameFunction, Inv
    <3>2. QED
      BY <2>3, <3>1, DropIsQuiet
  <2>4. QED
    BY <1>1, <1>3, <2>1, <2>2, <2>3 DEF derp_stdlib_len
<1>4. CASE derp_stdlib_range
  BY <1>1, <1>4, DieIsQuiet, FailIsQuiet DEF derp_stdlib_range
<1>5. QED
  BY <1>2, <1>3, <1>4 DEF derp_run_native

LEMMA LookupIsQuiet ==
  ASSUME Inv, CODE_PUSH_LOOKUP
  PROVE  Quiet /\ SameFunction
<1>1. ~AtEnd /\ Instr.code = "CODE_PUSH_LOOKUP"
  BY DEF CODE_PUSH_LOOKUP, Ready
<1>2. Quiet
  BY <1>1, InstrAtHand DEF CODE_PUSH_LOOKUP, Quiet
<1>3. SameFunction
  BY AdvanceIsQuiet DEF CODE_PUSH_LOOKUP, Fail, NoJump, SameFunction, Inv
<1>4. QED
  BY <1>2, <1>3

LEMMA AssignIsQuiet ==
  ASSUME Inv, CODE_ASSIGN
  PROVE  Quiet /\ SameFunction
<1>1. ~AtEnd /\ Instr.code = "CODE_ASSIGN"
  BY DEF CODE_ASSIGN, Ready
<1>2. Quiet
  BY <1>1, InstrAtHand DEF CODE_ASSIGN, Quiet
<1>3. QED
  BY <1>2, AdvanceIsQuiet DEF CODE_ASSIGN

LEMMA JumpsAreQuiet ==
  ASSUME Inv, CODE_JUMP_IF_FALSE \/ CODE_JUMP
  PROVE  Quiet /\ SameFunction
<1>1. Instr.arg2 \in Nat
  BY InstrAtHand DEF CODE_JUMP_IF_FALSE, CODE_JUMP, Ready
<1>2. CASE CODE_JUMP
  BY <1>1, <1>2 DEF CODE_JUMP, Quiet, SameFunction, NoError
<1>3. CASE CODE_JUMP_IF_FALSE
  <2>1. CASE \E f : Fault(f)
    BY <2>1, DieIsQuiet
  <2>2. CASE \E e : FailDropping(1, e)
    BY <2>2, FailIsQuiet
  <2>3. CASE /\ Heap!Drop(1, FALSE)
             /\ \E holds \in BOOLEAN : pointer' = AfterTest(holds)
             /\ NoError
             /\ UNCHANGED <<prog, blob, cur_fn, returns, obj, pending>>
    <3>1. SameFunction
      BY <1>1, <2>3 DEF SameFunction, NoError, AfterTest, Inv
    <3>2. QED
      BY <2>3, <3>1, DropIsQuiet
  <2>4. QED
    BY <1>3, <2>1, <2>2, <2>3 DEF CODE_JUMP_IF_FALSE
<1>4. QED
  BY <1>2, <1>3

LEMMA EndIsQuiet ==
  ASSUME Inv, Finish \/ err_print \/ Rest
  PROVE  Quiet /\ SameFunction
<1>1. CASE Finish
  BY <1>1 DEF Finish, Quiet, SameFunction, NoJump, NoError, Inv
<1>2. CASE err_print
  BY <1>2, DieIsQuiet DEF err_print, Quiet, SameFunction, NoJump, Inv
<1>3. CASE Rest
  BY <1>3 DEF Rest, vars, Quiet, SameFunction, Inv
<1>4. QED
  BY <1>1, <1>2, <1>3

-----------------------------------------------------------------------------
(* The steps that change the call stack.                                   *)

\* A call of a defined function.
Enter ==
  /\ Ready({"CODE_CALL"})
  /\ FnsNamed(Instr.arg1) # {}
  /\ Heap!Call
  /\ returns' = Append(returns, ReturnTo)
  /\ cur_fn' = FirstNamed(Instr.arg1)
  /\ pointer' = 0
  /\ NoError
  /\ UNCHANGED <<prog, blob>>

\* One frame of the backtrace.
TakeDown ==
  /\ reported
  /\ Heap!Unwind
  /\ returns' = Heap!Dropped(returns, 1)
  /\ UNCHANGED <<prog, blob, cur_fn, pointer, reported>>

LEMMA Steps ==
  ASSUME Inv, Next
  PROVE  \/ Quiet /\ SameFunction
         \/ Enter
         \/ CODE_RET
         \/ TakeDown
<1>1. CASE CODE_CALL
  <2>1. CASE derp_run_native
    BY <1>1, <2>1, NativeIsQuiet DEF CODE_CALL, Ready
  <2>2. CASE \E e : FailDropping(0, e)
    BY <2>2, FailIsQuiet
  <2>3. QED
    BY <1>1, <2>1, <2>2 DEF CODE_CALL, Enter
<1>2. CASE Backtrace
  BY <1>2, DieIsQuiet DEF Backtrace, TakeDown
<1>3. QED
  BY <1>1, <1>2, PushIsQuiet, PushArrayIsQuiet, CollectIsQuiet, ArithmeticIsQuiet,
     LookupIsQuiet, AssignIsQuiet, JumpsAreQuiet, EndIsQuiet
  DEF Next, Execute

-----------------------------------------------------------------------------
\* derp_vm_run performs only steps the mutator of ObjectHeap may perform.
LEMMA HeapSteps ==
  ASSUME Inv, [Next]_vars
  PROVE  [Heap!Next]_(Heap!vars)
<1>1. CASE Next
  <2>1. Quiet => Heap!Next \/ UNCHANGED Heap!vars
    BY DEF Quiet, Heap!Next, Heap!MoveRoots, Heap!Leave, Heap!vars, heapVars
  <2>2. Enter => Heap!Next
    BY DEF Enter, Heap!Next, Heap!MoveRoots
  <2>3. CODE_RET => Heap!Next
    BY DEF CODE_RET, Heap!Next, Heap!MoveRoots
  <2>4. TakeDown => Heap!Next
    BY DEF TakeDown, Heap!Next, Heap!Leave
  <2>5. QED
    BY <1>1, <2>1, <2>2, <2>3, <2>4, Steps
<1>2. CASE UNCHANGED vars
  BY <1>2 DEF vars, heapVars, Heap!vars
<1>3. QED
  BY <1>1, <1>2

-----------------------------------------------------------------------------
(* The invariant is kept.                                                  *)

LEMMA ElementOf ==
  ASSUME NEW S, NEW s \in Seq(S), NEW k \in 1 .. Len(s)
  PROVE  s[k] \in S
OBVIOUS

LEMMA PushedFits ==
  ASSUME NEW S, NEW s \in Seq(S), NEW c \in S, Len(s) <= StackHeight
  PROVE  /\ Heap!Pushed(s, c) \in Seq(S)
         /\ Len(Heap!Pushed(s, c)) <= StackHeight
BY VmAssumption DEF Heap!Pushed

LEMMA DroppedFits ==
  ASSUME NEW S, NEW s \in Seq(S), NEW n \in 0 .. Len(s)
  PROVE  /\ Heap!Dropped(s, n) \in Seq(S)
         /\ Len(Heap!Dropped(s, n)) = Len(s) - n
         /\ \A k \in 1 .. Len(s) - n : Heap!Dropped(s, n)[k] = s[k]
BY DEF Heap!Dropped

LEMMA QuietStacks ==
  ASSUME Stacks, Quiet
  PROVE  /\ stack' \in Seq(Heap!Cell)
         /\ Len(stack') <= StackHeight
         /\ frames' \in Seq(Heap!Table)
         /\ Len(frames') = Len(frames)
<1>1. Object \subseteq Heap!Cell /\ NULL \in Heap!Cell
  BY DEF Heap!Cell
<1>2. CASE UNCHANGED <<stack, frames>>
  BY <1>2 DEF Stacks
<1>3. CASE Heap!Create
  <2>1. UNCHANGED frames
    BY <1>3 DEF Heap!Create, Heap!PushNew, Heap!PushArray, Heap!PushResult
  <2>2. \E o \in Object, n \in 0 .. Len(stack) : stack' = Heap!Pushed(Heap!Dropped(stack, n), o)
    <3>1. CASE \E o \in Object, m \in BOOLEAN : Heap!PushNew(o, m)
      <4>1. Heap!Dropped(stack, 0) = stack
        BY DEF Heap!Dropped, Stacks
      <4>2. 0 \in 0 .. Len(stack)
        BY DEF Stacks
      <4>3. QED
        BY <3>1, <4>1, <4>2 DEF Heap!PushNew
    <3>2. CASE \E o \in Object, m \in BOOLEAN : Heap!PushResult(o, m)
      BY <3>2 DEF Heap!PushResult, Stacks
    <3>3. CASE \E o \in Object, m \in BOOLEAN, n \in 0 .. StackHeight : Heap!PushArray(o, m, n)
      BY <3>3, VmAssumption DEF Heap!PushArray, Stacks
    <3>4. QED
      BY <1>3, <3>1, <3>2, <3>3 DEF Heap!Create
  <2>3. QED
    <3>1. PICK o \in Object, n \in 0 .. Len(stack) :
            stack' = Heap!Pushed(Heap!Dropped(stack, n), o)
      BY <2>2
    <3>2. /\ Heap!Dropped(stack, n) \in Seq(Heap!Cell)
          /\ Len(Heap!Dropped(stack, n)) <= StackHeight
      BY DroppedFits, VmAssumption DEF Stacks
    <3>3. QED
      BY <1>1, <2>1, <3>1, <3>2, PushedFits DEF Stacks
<1>4. CASE \E n \in 0 .. StackHeight, stops \in BOOLEAN : Heap!Drop(n, stops)
  BY <1>4, DroppedFits, VmAssumption DEF Heap!Drop, Stacks
<1>5. CASE \E x \in Name : Heap!Lookup(x)
  <2>1. PICK c \in Heap!Cell : stack' = Heap!Pushed(stack, c)
    BY <1>1, <1>5 DEF Heap!Lookup
  <2>2. UNCHANGED frames
    BY <1>5 DEF Heap!Lookup
  <2>3. QED
    BY <2>1, <2>2, PushedFits DEF Stacks
<1>6. CASE \E x \in Name : Heap!Assign(x)
  <2>1. PICK x \in Name : Heap!Assign(x)
    BY <1>6
  <2>2. /\ Heap!Popped \in Seq(Heap!Cell)
        /\ Len(Heap!Popped) <= StackHeight
        /\ Heap!TopOrNull \in Heap!Cell
    <3>1. CASE stack = <<>>
      BY <1>1, <3>1 DEF Heap!Popped, Heap!TopOrNull, Stacks
    <3>2. CASE stack # <<>>
      BY <3>2, DroppedFits, VmAssumption DEF Heap!Popped, Heap!TopOrNull, Stacks
    <3>3. QED
      BY <3>1, <3>2
  <2>3. frames' \in Seq(Heap!Table) /\ Len(frames') = Len(frames)
    <3>1. CASE frames = <<>>
      <4>1. DOMAIN frames' = {} /\ frames' = [f \in {} |-> frames'[f]]
        BY <2>1, <3>1 DEF Heap!Assign
      <4>2. QED
        BY <3>1, <4>1 DEF Stacks
    <3>2. CASE frames # <<>>
      <4>1. Len(frames) \in DOMAIN frames /\ frames[Len(frames)] \in Heap!Table
        BY <3>2 DEF Stacks
      <4>2. [frames[Len(frames)] EXCEPT ![x] = Heap!TopOrNull] \in Heap!Table
        BY <2>2, <4>1 DEF Heap!Table, Heap!Cell
      <4>3. frames' = [frames EXCEPT ![Len(frames)] =
                         [frames[Len(frames)] EXCEPT ![x] = Heap!TopOrNull]]
        BY <2>1 DEF Heap!Assign
      <4>4. QED
        BY <4>1, <4>2, <4>3 DEF Stacks
    <3>3. QED
      BY <3>1, <3>2
  <2>4. QED
    BY <2>1, <2>2, <2>3 DEF Heap!Assign
<1>7. CASE Heap!Collect \/ Heap!Stop \/ Heap!Die \/ UNCHANGED heapVars
  BY <1>2, <1>7 DEF Heap!Collect, Heap!vm_gc_mark, Heap!MarkFrom, Heap!object_sweep,
     Heap!CreateFailed, Heap!Stop, Heap!Die, Heap!rootVars, heapVars
<1>8. QED
  BY <1>3, <1>4, <1>5, <1>6, <1>7 DEF Quiet

LEMMA QuietKeeps ==
  ASSUME Inv, Quiet, SameFunction
  PROVE  Inv'
<1>1. Stacks' /\ Len(frames') = Len(frames)
  BY QuietStacks DEF Inv, Stacks, SameFunction
<1>2. /\ Functions' = Functions
      /\ ~reported' => ~reported /\ frames # <<>> /\ frames' # <<>>
  <2>1. frames # <<>> => Len(frames) # 0 /\ frames' # <<>>
    BY <1>1 DEF Inv, Stacks
  <2>2. QED
    BY <2>1 DEF Inv, Functions, SameFunction
<1>3. ReturnsToCaller'
  <2>1. /\ UNCHANGED <<returns, cur_fn>> /\ Len(frames') = Len(frames)
        /\ ~reported' => ~reported
    BY <1>1, <1>2 DEF SameFunction
  <2>2. \A k : Running(k)' = Running(k)
    BY <2>1 DEF Running
  <2>3. \A name : FirstNamed(name)' = FirstNamed(name)
    BY <1>2 DEF FirstNamed, FnsNamed
  <2>4. QED
    BY <1>2, <2>1, <2>2, <2>3 DEF Inv, ReturnsToCaller
<1>4. QED
  BY <1>1, <1>2, <1>3 DEF Inv, SameFunction

LEMMA EnterKeeps ==
  ASSUME Inv, Enter
  PROVE  Inv'
<1> DEFINE callee == FirstNamed(Instr.arg1)
<1>1. UNCHANGED <<prog, blob, reported, stack>> /\ Functions' = Functions
  BY DEF Enter, NoError, Heap!Call, Functions
<1>2. callee \in DOMAIN Functions
  <2>1. FnsNamed(Instr.arg1) # {} /\ FnsNamed(Instr.arg1) \subseteq Nat
    <3>1. Functions \in Seq(fn_blob_t)
      BY BlobFacts DEF Inv, Functions
    <3>2. QED
      BY <3>1 DEF Enter, FnsNamed
  <2>2. \E f \in FnsNamed(Instr.arg1) : \A g \in FnsNamed(Instr.arg1) : f <= g
    BY <2>1, DisplayBy!Least
  <2>3. callee \in FnsNamed(Instr.arg1)
    BY <2>2 DEF FirstNamed
  <2>4. QED
    BY <2>3 DEF FnsNamed
<1>3. ReturnTo \in [addr : Nat, fn : Nat] /\ ReturnTo.fn = cur_fn /\ ReturnTo.addr = pointer
  <2>1. Functions \in Seq(fn_blob_t)
    BY BlobFacts DEF Inv, Functions
  <2>2. QED
    BY <2>1 DEF Inv, ReturnTo
<1>4. Heap!EmptyTable \in Heap!Table
  BY DEF Heap!EmptyTable, Heap!Table
<1>5. /\ Stacks'
      /\ Len(returns') = Len(returns) + 1
      /\ returns'[Len(returns')] = ReturnTo
      /\ \A k \in 1 .. Len(returns) : returns'[k] = returns[k]
      /\ frames' # <<>>
  BY <1>1, <1>3, <1>4 DEF Inv, Stacks, Enter, Heap!Call
<1>6. \A k \in 2 .. Len(returns') : returns'[k].fn \in DOMAIN Functions
  <2>1. ASSUME NEW k \in 2 .. Len(returns')
        PROVE  returns'[k].fn \in DOMAIN Functions
    <3>1. CASE k = Len(returns')
      BY <1>3, <1>5, <3>1 DEF Inv
    <3>2. CASE k \in 2 .. Len(returns)
      <4>1. returns'[k] = returns[k]
        BY <1>5, <3>2 DEF Inv, Stacks
      <4>2. QED
        BY <3>2, <4>1 DEF Inv
    <3>3. QED
      BY <1>5, <3>1, <3>2 DEF Inv, Stacks
  <2>2. QED
    BY <2>1
<1>7. ReturnsToCaller'
  <2> SUFFICES ASSUME ~reported'
               PROVE  /\ Len(returns') = Len(frames')
                      /\ Running(1)' = 1
                      /\ \A k \in 2 .. Len(returns') :
                           LET caller == Functions[returns'[k].fn].code
                           IN  /\ returns'[k].addr < Len(caller)
                               /\ caller[returns'[k].addr + 1].code = "CODE_CALL"
                               /\ Running(k)' = FirstNamed(caller[returns'[k].addr + 1].arg1)
    BY <1>1 DEF ReturnsToCaller, FirstNamed, FnsNamed
  <2>1. ReturnsToCaller /\ ~reported /\ Len(returns) \in Nat \ {0}
    BY <1>1 DEF Inv, Stacks
  <2>2. \A k \in 1 .. Len(returns) : Running(k)' = Running(k)
    BY <1>3, <1>5, <2>1 DEF Running
  <2>3. \A k : k = Len(returns') => Running(k)' = callee
    BY DEF Running, Enter
  <2>4. /\ pointer < Len(Code)
        /\ Code[pointer + 1] = Instr
        /\ Instr.code = "CODE_CALL"
    <3>1. ~AtEnd /\ Instr.code = "CODE_CALL"
      BY DEF Enter, Ready
    <3>2. Code \in Seq(Bytecode)
      <4>1. Functions \in Seq(fn_blob_t)
        BY BlobFacts DEF Inv, Functions
      <4>2. Functions[cur_fn] \in fn_blob_t
        BY <4>1 DEF Inv
      <4>3. QED
        BY <4>2 DEF Code, fn_blob_t
    <3>3. QED
      BY <3>1, <3>2 DEF AtEnd, Instr, Inv
  <2>5. ASSUME NEW k \in 2 .. Len(returns')
        PROVE  LET caller == Functions[returns'[k].fn].code
               IN  /\ returns'[k].addr < Len(caller)
                   /\ caller[returns'[k].addr + 1].code = "CODE_CALL"
                   /\ Running(k)' = FirstNamed(caller[returns'[k].addr + 1].arg1)
    <3>1. CASE k = Len(returns')
      <4>1. /\ returns'[k].addr = pointer
            /\ Functions[returns'[k].fn].code = Code
        BY <1>3, <1>5, <3>1 DEF Code
      <4>2. Running(k)' = FirstNamed(Instr.arg1)
        BY <2>3, <3>1
      <4>3. QED
        BY <2>4, <4>1, <4>2
    <3>2. CASE k \in 2 .. Len(returns)
      BY <1>5, <2>1, <2>2, <3>2 DEF ReturnsToCaller
    <3>3. QED
      BY <1>5, <2>1, <3>1, <3>2
  <2>6. QED
    BY <1>5, <2>1, <2>2, <2>5 DEF ReturnsToCaller, Stacks
<1>8. QED
  BY <1>1, <1>2, <1>5, <1>6, <1>7 DEF Inv, Enter

\* What CODE_RET and the backtrace do to the call stack.
LEMMA FrameDropped ==
  ASSUME Inv, Len(frames) > 0, UNCHANGED stack,
         frames' = Heap!Dropped(frames, 1), returns' = Heap!Dropped(returns, 1)
  PROVE  /\ Stacks'
         /\ Len(returns') = Len(returns) - 1
         /\ \A k \in 1 .. Len(returns) - 1 : returns'[k] = returns[k]
<1>1. 1 \in 0 .. Len(frames) /\ 1 \in 0 .. Len(returns)
  BY DEF Inv, Stacks
<1>2. frames \in Seq(Heap!Table) /\ returns \in Seq([addr : Nat, fn : Nat])
  BY DEF Inv, Stacks
<1>3. frames' \in Seq(Heap!Table) /\ Len(frames') = Len(frames) - 1
  BY <1>1, <1>2, DroppedFits
<1>4. /\ returns' \in Seq([addr : Nat, fn : Nat])
      /\ Len(returns') = Len(returns) - 1
      /\ \A k \in 1 .. Len(returns) - 1 : returns'[k] = returns[k]
  BY <1>1, <1>2, DroppedFits
<1>5. QED
  BY <1>3, <1>4 DEF Inv, Stacks

LEMMA RetKeeps ==
  ASSUME Inv, CODE_RET
  PROVE  Inv'
<1> DEFINE n == Len(returns)
<1>1. /\ n \in Nat /\ n > 1 /\ n = Len(frames)
      /\ UNCHANGED <<prog, blob, reported, stack>>
      /\ Functions' = Functions
  BY DEF CODE_RET, NoError, Heap!Ret, Inv, Stacks, Functions
<1>2. /\ Stacks'
      /\ Len(returns') = n - 1
      /\ \A k \in 1 .. n - 1 : returns'[k] = returns[k]
  BY <1>1, FrameDropped DEF CODE_RET, Heap!Ret
<1>3. frames' # <<>>
  <2>1. Len(frames') = n - 1
    BY <1>2 DEF Stacks
  <2>2. Len(frames') # 0
    BY <1>1, <2>1
  <2>3. QED
    BY <2>2
<1>4. /\ returns[n] \in [addr : Nat, fn : Nat]
      /\ returns[n].fn \in DOMAIN Functions
  <2>1. n \in 1 .. Len(returns) /\ returns \in Seq([addr : Nat, fn : Nat])
    BY <1>1 DEF Inv, Stacks
  <2>2. n \in 2 .. Len(returns)
    BY <1>1
  <2>3. returns[n] \in [addr : Nat, fn : Nat]
    BY <2>1, ElementOf
  <2>4. returns[n].fn \in DOMAIN Functions
    BY <2>2 DEF Inv
  <2>5. QED
    BY <2>3, <2>4
<1>5. \A k \in 2 .. n - 1 : returns'[k].fn \in DOMAIN Functions
  BY <1>1, <1>2 DEF Inv
<1>6. ReturnsToCaller'
  <2>1. \A k \in 1 .. n - 1 : Running(k)' = Running(k)
    BY <1>1, <1>2 DEF CODE_RET, Running
  <2>2. \A name : FirstNamed(name)' = FirstNamed(name)
    BY <1>1 DEF FirstNamed, FnsNamed
  <2>3. CASE ~reported
    <3>1. /\ Running(1)' = 1
          /\ Len(returns') = Len(frames')
      BY <1>1, <1>2, <2>1, <2>3 DEF Inv, ReturnsToCaller, Stacks
    <3>2. ASSUME NEW k \in 2 .. n - 1
          PROVE  LET caller == Functions[returns'[k].fn].code
                 IN  /\ returns'[k].addr < Len(caller)
                     /\ caller[returns'[k].addr + 1].code = "CODE_CALL"
                     /\ Running(k)' = FirstNamed(caller[returns'[k].addr + 1].arg1)
      <4>1. k \in 1 .. n - 1 /\ k \in 2 .. Len(returns)
        BY <1>1, <3>2
      <4>2. returns'[k] = returns[k] /\ Running(k)' = Running(k)
        BY <1>2, <2>1, <4>1
      <4>3. QED
        BY <2>3, <4>1, <4>2 DEF Inv, ReturnsToCaller
    <3>3. QED
      BY <1>1, <1>2, <2>2, <3>1, <3>2 DEF ReturnsToCaller
  <2>4. QED
    BY <1>1, <2>3 DEF ReturnsToCaller
<1>7. QED
  BY <1>1, <1>2, <1>3, <1>4, <1>5, <1>6 DEF Inv, CODE_RET

LEMMA TakeDownKeeps ==
  ASSUME Inv, TakeDown
  PROVE  Inv'
<1>1. UNCHANGED <<stack, prog, blob, cur_fn, pointer>> /\ reported' = reported /\ reported
  BY DEF TakeDown, Heap!Unwind
<1>2. /\ Stacks'
      /\ Len(returns') = Len(returns) - 1
      /\ \A k \in 1 .. Len(returns) - 1 : returns'[k] = returns[k]
  <2>1. Len(frames) > 0
    BY DEF TakeDown, Heap!Unwind, Inv, Stacks
  <2>2. QED
    BY <1>1, <2>1, FrameDropped DEF TakeDown, Heap!Unwind
<1>3. \A k \in 2 .. Len(returns') : returns'[k].fn \in DOMAIN Functions
  <2>1. Len(returns) \in Nat
    BY DEF Inv, Stacks
  <2>2. ASSUME NEW k \in 2 .. Len(returns')
        PROVE  returns'[k].fn \in DOMAIN Functions
    <3>1. k \in 2 .. Len(returns) /\ returns'[k] = returns[k]
      BY <1>2, <2>1
    <3>2. QED
      BY <3>1 DEF Inv
  <2>3. QED
    BY <2>2
<1>4. Functions' = Functions
  BY <1>1 DEF Functions
<1>5. ReturnsToCaller'
  BY <1>1 DEF ReturnsToCaller
<1>6. QED
  BY <1>1, <1>2, <1>3, <1>4, <1>5 DEF Inv

LEMMA NextKeeps ==
  ASSUME Inv, [Next]_vars
  PROVE  Inv'
<1>1. CASE Next
  BY <1>1, Steps, QuietKeeps, EnterKeeps, RetKeeps, TakeDownKeeps
<1>2. CASE UNCHANGED vars
  <2>1. Quiet /\ SameFunction
    BY <1>2 DEF vars, Quiet, SameFunction, Inv
  <2>2. QED
    BY <2>1, QuietKeeps
<1>3. QED
  BY <1>1, <1>2

LEMMA InitHolds ==
  ASSUME Init
  PROVE  Inv /\ Heap!Init
<1>1. Functions \in Seq(fn_blob_t) /\ Functions # <<>>
  BY BlobFacts DEF Init, Functions
<1>2. 1 \in DOMAIN Functions
  BY <1>1
<1>3. stack = <<>> /\ frames = <<Heap!EmptyTable>> /\ Heap!EmptyTable \in Heap!Table
  BY DEF Init, Heap!Init, Heap!EmptyTable, Heap!Table
<1>4. returns = <<[addr |-> 0, fn |-> 0]>> /\ Len(returns) = 1
  BY DEF Init
<1>5. Stacks
  BY <1>3, <1>4, VmAssumption DEF Stacks
<1>6. ReturnsToCaller
  BY <1>3, <1>4 DEF ReturnsToCaller, Running, Init
<1>7. QED
  BY <1>2, <1>3, <1>4, <1>5, <1>6 DEF Init, Inv

-----------------------------------------------------------------------------
\* The function at hand and those the frames return to exist, the stacks are
\* well formed, and every frame returns to the call it comes from.
THEOREM Invariant == Spec => []Inv
<1>1. Init => Inv
  BY InitHolds
<1>2. Inv /\ [Next]_vars => Inv'
  BY NextKeeps
<1>3. QED
  BY <1>1, <1>2, PTL DEF Spec

\* vm_add_stack_frame and CODE_RET, whatever the program: a run comes back to
\* the function and the instruction where it left whatever was called in
\* between.
THEOREM CallsReturn == Spec => []ReturnsToCaller
<1>1. Inv => ReturnsToCaller
  BY DEF Inv
<1>2. QED
  BY <1>1, Invariant, PTL

\* derp_vm_run, whatever the program, does to the heap, the stack and the
\* symbol tables only what ObjectHeap.tla lets its mutator do.
THEOREM UsesHeap == Spec => RunsOnHeap
<1>1. Init => Heap!Init
  BY InitHolds
<1>2. Inv /\ [Next]_vars => [Heap!Next]_(Heap!vars)
  BY HeapSteps
<1>3. QED
  BY <1>1, <1>2, Invariant, PTL DEF Spec, RunsOnHeap, Heap!Spec

-----------------------------------------------------------------------------
(* What ObjectHeapProofs.tla proves of the heap, for compiled programs.    *)

HeapProofs == INSTANCE ObjectHeapProofs

LEMMA SameSteps ==
  [Heap!Next]_(Heap!vars) => [HeapProofs!Next]_(HeapProofs!vars)
<1>1. Heap!Create => HeapProofs!Create
  BY DEF Heap!Create, HeapProofs!Create, Heap!PushNew, HeapProofs!PushNew,
         Heap!PushResult, HeapProofs!PushResult, Heap!PushArray, HeapProofs!PushArray,
         Heap!object_create, HeapProofs!object_create, Heap!HasSlot, HeapProofs!HasSlot,
         Heap!Pushed, HeapProofs!Pushed, Heap!Dropped, HeapProofs!Dropped, Heap!Top,
         HeapProofs!Top
<1>2. Heap!Collect => HeapProofs!Collect
  BY DEF Heap!Collect, HeapProofs!Collect, Heap!vm_gc_mark, HeapProofs!vm_gc_mark,
         Heap!object_sweep, HeapProofs!object_sweep, Heap!CreateFailed,
         HeapProofs!CreateFailed, Heap!MarkFrom, HeapProofs!MarkFrom, Heap!HasSlot,
         HeapProofs!HasSlot, Heap!NullRoot, HeapProofs!NullRoot, Heap!Roots,
         HeapProofs!Roots, Heap!StackRoots, HeapProofs!StackRoots, Heap!TableRoots,
         HeapProofs!TableRoots, Heap!Spare, HeapProofs!Spare, Heap!object_destroy,
         HeapProofs!object_destroy, Heap!Compacted, HeapProofs!Compacted, Heap!rootVars,
         HeapProofs!rootVars
<1>3. Heap!MoveRoots => HeapProofs!MoveRoots
  BY DEF Heap!MoveRoots, HeapProofs!MoveRoots, Heap!Drop, HeapProofs!Drop, Heap!Lookup,
         HeapProofs!Lookup, Heap!Assign, HeapProofs!Assign, Heap!Call, HeapProofs!Call,
         Heap!Ret, HeapProofs!Ret, Heap!noHeapChange, HeapProofs!noHeapChange,
         Heap!Dropped, HeapProofs!Dropped, Heap!Pushed, HeapProofs!Pushed,
         Heap!LastFrame, HeapProofs!LastFrame, Heap!TopOrNull, HeapProofs!TopOrNull,
         Heap!Popped, HeapProofs!Popped, Heap!EmptyTable, HeapProofs!EmptyTable
<1>4. Heap!Leave => HeapProofs!Leave
  BY DEF Heap!Leave, HeapProofs!Leave, Heap!Stop, HeapProofs!Stop, Heap!Die,
         HeapProofs!Die, Heap!Unwind, HeapProofs!Unwind, Heap!noHeapChange,
         HeapProofs!noHeapChange, Heap!Dropped, HeapProofs!Dropped, Heap!rootVars,
         HeapProofs!rootVars
<1>5. QED
  BY <1>1, <1>2, <1>3, <1>4 DEF Heap!Next, HeapProofs!Next, Heap!vars, HeapProofs!vars

\* The heap is well formed, no object on the stack or in a variable has been
\* freed, no slot of the heap is used twice or holds a freed object, and a null
\* pointer is only in a variable assigned from an empty stack, at every point of
\* every program.
THEOREM ProgramsKeepHeap ==
  Spec => [](/\ Heap!TypeOK /\ Heap!RootsLive /\ Heap!HeapShape
             /\ Heap!NullOnlyInVariables)
<1>1. Heap!Init => HeapProofs!Init
  BY DEF Heap!Init, HeapProofs!Init, Heap!Slot, HeapProofs!Slot, Heap!EmptyTable,
         HeapProofs!EmptyTable
<1>2. HeapProofs!RootsLive => Heap!RootsLive
  BY DEF Heap!RootsLive, HeapProofs!RootsLive, Heap!Roots, HeapProofs!Roots,
         Heap!StackRoots, HeapProofs!StackRoots, Heap!TableRoots, HeapProofs!TableRoots
<1>3. HeapProofs!HeapShape => Heap!HeapShape
  BY DEF Heap!HeapShape, HeapProofs!HeapShape, Heap!Slot, HeapProofs!Slot,
         Heap!HeapObjects, HeapProofs!HeapObjects
<1>4. HeapProofs!NullOnlyInVariables => Heap!NullOnlyInVariables
  BY DEF Heap!NullOnlyInVariables, HeapProofs!NullOnlyInVariables, Heap!StackRoots,
         HeapProofs!StackRoots
<1>5. /\ HeapProofs!Spec => []HeapProofs!TypeOK
      /\ HeapProofs!Spec => []HeapProofs!RootsLive
      /\ HeapProofs!Spec => []HeapProofs!HeapShape
      /\ HeapProofs!Spec => []HeapProofs!NullOnlyInVariables
  BY VmAssumption, HeapProofs!TypeCorrect, HeapProofs!RootsNeverFreed,
     HeapProofs!HeapStaysCompact, HeapProofs!NullsOnlyInVariables
<1>6. HeapProofs!TypeOK => Heap!TypeOK
  BY DEF Heap!TypeOK, HeapProofs!TypeOK, Heap!Slot, HeapProofs!Slot, Heap!Cell,
         HeapProofs!Cell, Heap!Table, HeapProofs!Table, Heap!Phase, HeapProofs!Phase
<1>7. QED
  BY <1>1, <1>2, <1>3, <1>4, <1>5, <1>6, SameSteps, UsesHeap, PTL
  DEF RunsOnHeap, Heap!Spec, HeapProofs!Spec

-----------------------------------------------------------------------------
(* What the operators of Values.tla make.                                  *)

Basic == [type : Types, num : Int, str : Chars]

LEMMA PowersOfTwo ==
  ASSUME NEW n \in Nat
  PROVE  2 ^ n \in Nat \ {0}
<1>1. IsFiniteSet(1 .. n) /\ Cardinality(1 .. n) = n
  BY FS_Interval
<1>2. IsFiniteSet(SUBSET (1 .. n)) /\ Cardinality(SUBSET (1 .. n)) = 2 ^ n
  BY <1>1, FS_SUBSET
<1>3. SUBSET (1 .. n) # {}
  OBVIOUS
<1> DEFINE S == SUBSET (1 .. n)
<1> HIDE DEF S
<1>4. Cardinality(S) \in Nat \ {0}
  <2>1. IsFiniteSet(S) /\ S # {}
    BY <1>2, <1>3 DEF S
  <2>2. QED
    BY <2>1, FS_CardinalityType, FS_EmptySet
<1>5. QED
  BY <1>2, <1>4 DEF S

LEMMA ScalarsAre ==
  /\ \A i \in Int : IntValue(i) \in Basic /\ IntValue(i).type = "TYPE_INTEGER"
  /\ \A b : BoolValue(b) \in Basic /\ BoolValue(b).type = "TYPE_BOOLEAN"
  /\ \A x \in Chars : FloatValue(x) \in Basic /\ FloatValue(x).type = "TYPE_FLOAT"
  /\ \A x \in Chars : StrValue(x) \in Basic /\ StrValue(x).type = "TYPE_STRING"
                      /\ StrValue(x).str = x
  /\ \A f \in Int : FnRefValue(f) \in Basic /\ FnRefValue(f).type = "TYPE_FN_REF"
<1>1. "" \in Chars
  BY DEF Chars
<1>2. \A i \in Int : Wrapped(i) \in Int
  <2>1. IntBits \in Nat /\ IntBits - 1 \in Nat
    BY IntAssumption
  <2> DEFINE p == 2 ^ IntBits
             q == 2 ^ (IntBits - 1)
  <2>2. p \in Nat \ {0} /\ q \in Nat \ {0}
    BY <2>1, PowersOfTwo
  <2>3. \A i : Wrapped(i) = ((i + q) % p) - q
    BY DEF Wrapped
  <2> HIDE DEF p, q
  <2>4. QED
    BY <2>2, <2>3
<1>3. \A i \in Int : IntValue(i) \in Basic /\ IntValue(i).type = "TYPE_INTEGER"
  BY <1>1, <1>2 DEF IntValue, value, Basic, Types
<1>4. \A type \in Types, n \in Int, x \in Chars :
        /\ value(type, n, x) \in Basic
        /\ value(type, n, x).type = type /\ value(type, n, x).str = x
  BY DEF value, Basic
<1>5. /\ "TYPE_BOOLEAN" \in Types /\ "TYPE_FLOAT" \in Types /\ "TYPE_STRING" \in Types
      /\ "TYPE_FN_REF" \in Types /\ 0 \in Int
  BY DEF Types
<1>6. \A b : (IF b THEN 1 ELSE 0) \in Int
  OBVIOUS
<1>7. \A b : BoolValue(b) \in Basic /\ BoolValue(b).type = "TYPE_BOOLEAN"
  <2> DEFINE t == "TYPE_BOOLEAN"
             e == ""
  <2>1. t \in Types /\ e \in Chars
    BY <1>1, <1>5
  <2>2. \A b : BoolValue(b) = value(t, IF b THEN 1 ELSE 0, e)
    BY DEF BoolValue
  <2> HIDE DEF t, e
  <2>3. \A b : BoolValue(b) \in Basic /\ BoolValue(b).type = t
    BY <1>4, <1>6, <2>1, <2>2
  <2>4. QED
    BY <2>3 DEF t
<1>8. \A x \in Chars : FloatValue(x) \in Basic /\ FloatValue(x).type = "TYPE_FLOAT"
  BY <1>4, <1>5 DEF FloatValue
<1>9. \A x \in Chars : StrValue(x) \in Basic /\ StrValue(x).type = "TYPE_STRING"
                        /\ StrValue(x).str = x
  BY <1>4, <1>5 DEF StrValue
<1>10. \A f \in Int : FnRefValue(f) \in Basic /\ FnRefValue(f).type = "TYPE_FN_REF"
  <2> DEFINE t == "TYPE_FN_REF"
             e == ""
  <2>1. t \in Types /\ e \in Chars
    BY <1>1, <1>5
  <2>2. \A f : FnRefValue(f) = value(t, f, e)
    BY DEF FnRefValue
  <2> HIDE DEF t, e
  <2>3. \A f \in Int : FnRefValue(f) \in Basic /\ FnRefValue(f).type = t
    BY <1>4, <2>1, <2>2
  <2>4. QED
    BY <2>3 DEF t
<1>11. QED
  BY <1>3, <1>7, <1>8, <1>9, <1>10

LEMMA ComputedIs ==
  ASSUME NEW code \in ArithmeticCodes, NEW l \in Int, NEW r \in Int, ~DivisionTraps(code, l, r)
  PROVE  Computed(code, l, r) \in Basic
         /\ Computed(code, l, r).type \in {"TYPE_INTEGER", "TYPE_BOOLEAN"}
<1>1. code = "CODE_DIV" => Quotient(l, r) \in Int
  BY DEF DivisionTraps, Quotient, Magnitude
<1>2. l + r \in Int /\ l - r \in Int /\ l * r \in Int
  OBVIOUS
<1>3. CASE code = "CODE_DIV"
  BY <1>1, <1>3, ScalarsAre DEF Computed
<1>4. CASE code \in {"CODE_ADD", "CODE_SUB", "CODE_MUL"}
  BY <1>2, <1>4, ScalarsAre DEF Computed
<1>5. CASE code \in {"CODE_CMP_EQ", "CODE_CMP_NEQ", "CODE_CMP_LT",
                     "CODE_CMP_LT_EQ", "CODE_CMP_GT", "CODE_CMP_GT_EQ"}
  BY <1>5, ScalarsAre DEF Computed
<1>6. QED
  BY <1>3, <1>4, <1>5 DEF ArithmeticCodes
LEMMA DataIs ==
  ASSUME NEW v \in Basic, v.type = "TYPE_STRING" => v.str \in Text
  PROVE  v \in Data
BY DEF Basic, Data

LEMMA TokensAre ==
  ASSUME NEW v \in Data
  PROVE  /\ v \in Basic /\ v \in Token
         /\ v.type = "TYPE_STRING" => Len(v.str) \in Nat
         /\ v.num \in Int
<1> DEFINE fits(w) == /\ w \in Basic /\ w \in Token
                      /\ w.type = "TYPE_STRING" => Len(w.str) \in Nat
                      /\ w.num \in Int
<1>1. \A w \in [type : Types \ {"TYPE_STRING"}, num : Int, str : Chars] : fits(w)
  BY DEF Basic, Token
<1>2. \A w \in [type : {"TYPE_STRING"}, num : Int, str : Text] : fits(w)
  <2> TAKE w \in [type : {"TYPE_STRING"}, num : Int, str : Text]
  <2>1. "TYPE_STRING" \in Types /\ w.str \in Text /\ w.num \in Int
    BY DEF Types
  <2>2. w.str \in Chars /\ Len(w.str) \in Nat
    BY <2>1 DEF Text
  <2>3. w \in [type : Types, num : Int, str : Chars]
    BY <2>1, <2>2
  <2>4. QED
    BY <2>1, <2>2, <2>3 DEF Basic, Token
<1>3. QED
  BY <1>1, <1>2 DEF Data

JoinedStart(p) == Shown(<<>>)
JoinedStep(p, k, upto) ==
  IF upto.res # "ok" THEN upto
  ELSE [out |-> upto.out \o (IF k = 1 THEN <<>> ELSE <<Separator(p[2])>>) \o p[1][k].out,
        res |-> p[1][k].res]
JoinedBy == INSTANCE Recursion WITH Start <- JoinedStart, Step <- JoinedStep

\* upto[k] is what is written of the first k.
Joins(shown, sep, upto) ==
  /\ upto[0] = Shown(<<>>)
  /\ \A k \in Nat :
       upto[k + 1] =
         IF upto[k].res # "ok" THEN upto[k]
         ELSE [out |-> upto[k].out \o (IF k + 1 = 1 THEN <<>> ELSE <<Separator(sep)>>)
                                   \o shown[k + 1].out,
               res |-> shown[k + 1].res]
  /\ Joined(shown, sep) = upto[Len(shown)]

LEMMA JoinedIs ==
  ASSUME NEW shown, NEW sep
  PROVE  \E upto : Joins(shown, sep, upto)
<1> DEFINE p == <<shown, sep>>
           upto == JoinedBy!From(p)
<1>1. p[1] = shown /\ p[2] = sep
  OBVIOUS
<1> HIDE DEF p
<1>2. Joined(shown, sep) = upto[Len(shown)]
  BY <1>1 DEF Joined, JoinedBy!From, JoinedStart, JoinedStep
<1>3. upto = [k \in Nat |-> IF k = 0 THEN JoinedStart(p) ELSE JoinedStep(p, k, upto[k - 1])]
  BY JoinedBy!FromIs
<1>4. JoinedStart(p) = Shown(<<>>)
      /\ \A k, w : JoinedStep(p, k, w) =
           IF w.res # "ok" THEN w
           ELSE [out |-> w.out \o (IF k = 1 THEN <<>> ELSE <<Separator(sep)>>) \o shown[k].out,
                 res |-> shown[k].res]
  BY <1>1 DEF JoinedStart, JoinedStep
<1>5. \A k \in Nat : k + 1 \in Nat /\ k + 1 # 0 /\ (k + 1) - 1 = k
  OBVIOUS
<1> HIDE DEF upto
<1>6. upto[0] = Shown(<<>>)
  BY <1>3, <1>4
<1>7. \A k \in Nat : upto[k + 1] = JoinedStep(p, k + 1, upto[k])
  BY <1>3, <1>5
<1>8. \A k \in Nat :
        upto[k + 1] =
          IF upto[k].res # "ok" THEN upto[k]
          ELSE [out |-> upto[k].out \o (IF k + 1 = 1 THEN <<>> ELSE <<Separator(sep)>>)
                                    \o shown[k + 1].out,
                res |-> shown[k + 1].res]
  <2> SUFFICES ASSUME NEW k \in Nat
               PROVE  upto[k + 1] =
                        IF upto[k].res # "ok" THEN upto[k]
                        ELSE [out |-> upto[k].out \o (IF k + 1 = 1 THEN <<>> ELSE <<Separator(sep)>>)
                                                  \o shown[k + 1].out,
                              res |-> shown[k + 1].res]
    OBVIOUS
  <2>1. upto[k + 1] = JoinedStep(p, k + 1, upto[k])
    BY <1>7
  <2>2. QED
    BY <1>1, <2>1 DEF JoinedStep
<1>9. Joins(shown, sep, upto)
  BY <1>2, <1>4, <1>6, <1>8 DEF Joins
<1>10. QED
  BY <1>9

-----------------------------------------------------------------------------
(* What print writes, R being the ways it may come out.                    *)

Printing(R) == [out : Seq(Token), res : R]

LEMMA PrintingParts ==
  ASSUME NEW R
  PROVE  /\ \A w \in Printing(R) : /\ w.out \in Seq(Token) /\ w.res \in R
                                  /\ w = [out |-> w.out, res |-> w.res]
         /\ "ok" \in R => Shown(<<>>) \in Printing(R)
         /\ \A res \in R : NotShown(res) \in Printing(R)
         /\ \A s \in Separators : Separator(s) \in Token
<1>1. \A w \in Printing(R) : /\ w.out \in Seq(Token) /\ w.res \in R
                            /\ w = [out |-> w.out, res |-> w.res]
  BY DEF Printing
<1>2. <<>> \in Seq(Token)
  OBVIOUS
<1>3. "ok" \in R => Shown(<<>>) \in Printing(R)
  BY <1>2 DEF Printing, Shown
<1>4. \A res \in R : NotShown(res) \in Printing(R)
  BY <1>2 DEF Printing, NotShown
<1>5. ASSUME NEW s \in Separators
      PROVE  Separator(s) \in Token
  BY DEF Separator, Token, value
<1>6. QED
  BY <1>1, <1>3, <1>4, <1>5

LEMMA JoinedPrints ==
  ASSUME NEW R, "ok" \in R, NEW shown, Len(shown) \in Nat,
         \A k \in 1 .. Len(shown) : shown[k] \in Printing(R),
         NEW sep \in Separators
  PROVE  Joined(shown, sep) \in Printing(R)
<1>1. PICK upto : Joins(shown, sep, upto)
  BY JoinedIs
<1> DEFINE Off == {k \in 0 .. Len(shown) : upto[k] \notin Printing(R)}
<1>2. Off = {}
  <2> SUFFICES ASSUME Off # {}
               PROVE  FALSE
    OBVIOUS
  <2>1. PICK k \in Off : \A j \in Off : k <= j
    <3>1. Off \in SUBSET Nat
      OBVIOUS
    <3>2. QED
      BY <3>1, JoinedBy!Least
  <2>2. k # 0
    BY <1>1, <2>1, PrintingParts DEF Joins
  <2> DEFINE j == k - 1
  <2>3. j \in Nat /\ j + 1 = k /\ j + 1 \in 1 .. Len(shown) /\ j \in 0 .. Len(shown) /\ j < k
    BY <2>1, <2>2
  <2> HIDE DEF j
  <2>4. upto[j] \in Printing(R)
    BY <2>1, <2>3
  <2>5. shown[j + 1] \in Printing(R)
    BY <2>3
  <2> DEFINE gap == IF j + 1 = 1 THEN <<>> ELSE <<Separator(sep)>>
  <2>6. gap \in Seq(Token)
    BY PrintingParts
  <2> HIDE DEF gap
  <2>7. [out |-> upto[j].out \o gap \o shown[j + 1].out, res |-> shown[j + 1].res] \in Printing(R)
    <3>1. /\ upto[j].out \in Seq(Token) /\ shown[j + 1].out \in Seq(Token)
          /\ shown[j + 1].res \in R
      BY <2>4, <2>5, PrintingParts
    <3>2. QED
      BY <2>6, <3>1 DEF Printing
  <2>8. upto[j + 1] = IF upto[j].res # "ok" THEN upto[j]
                      ELSE [out |-> upto[j].out \o gap \o shown[j + 1].out,
                            res |-> shown[j + 1].res]
    BY <1>1, <2>3 DEF Joins, gap
  <2>9. QED
    BY <2>1, <2>3, <2>4, <2>7, <2>8
<1>3. Len(shown) \in 0 .. Len(shown)
  OBVIOUS
<1>4. QED
  BY <1>1, <1>2, <1>3 DEF Joins

LEMMA Prints ==
  ASSUME NEW R, NEW w \in Printing(R)
  PROVE  Bracketed(w) \in Printing(R) /\ WithNewline(w) \in Printing(R)
<1>1. \A s \in {"[", "]", "\n"} : <<Separator(s)>> \in Seq(Token)
  <2>1. \A s \in {"[", "]", "\n"} : s \in Separators
    BY DEF Separators
  <2>2. \A s \in Separators : <<Separator(s)>> \in Seq(Token)
    <3>1. \A t \in Token : <<t>> \in Seq(Token)
      OBVIOUS
    <3>2. QED
      BY <3>1, PrintingParts
  <2>3. QED
    BY <2>1, <2>2
<1>2. w.out \in Seq(Token) /\ w.res \in R /\ w = [out |-> w.out, res |-> w.res]
  BY PrintingParts
<1> DEFINE a == <<Separator("[")>>
           b == IF w.res = "ok" THEN <<Separator("]")>> ELSE <<>>
           c == IF w.res = "ok" THEN <<Separator("\n")>> ELSE <<>>
<1>3. a \in Seq(Token) /\ b \in Seq(Token) /\ c \in Seq(Token)
  BY <1>1
<1>4. Bracketed(w) = [w EXCEPT !.out = a \o @ \o b] /\ WithNewline(w) = [w EXCEPT !.out = @ \o c]
  BY DEF Bracketed, WithNewline
<1> HIDE DEF a, b, c
<1>5. a \o w.out \o b \in Seq(Token) /\ w.out \o c \in Seq(Token)
  BY <1>2, <1>3
<1>6. /\ Bracketed(w) = [out |-> a \o w.out \o b, res |-> w.res]
      /\ WithNewline(w) = [out |-> w.out \o c, res |-> w.res]
  <2> DEFINE o == w.out
             r == w.res
  <2>1. w = [out |-> o, res |-> r]
    BY <1>2
  <2> HIDE DEF o, r
  <2>2. QED
    BY <1>4, <2>1
<1>7. QED
  BY <1>2, <1>5, <1>6 DEF Printing

-----------------------------------------------------------------------------
(* Values, and what a run reports.                                         *)

\* A value, which has a length if it can be taken.
Readable(v) ==
  /\ v \in Data
  /\ v.type = "TYPE_STRING" => Len(v.str) \in Nat
  /\ v.type = "TYPE_ARRAY" => v.num \in Nat

ObjectsReadable ==
  /\ obj = [o \in Object |-> obj[o]]
  /\ \A o \in Object : Readable(obj[o])

\* CODE_PUSH_ARRAY: arr_val.len is the number of elements arr_val.vec has room
\* for, as long as the array is not freed; print reads up to the first of them
\* from the second.
LengthsAgree ==
  \A o \in live : obj[o].type = "TYPE_ARRAY" => Len(vec[o]) = obj[o].num

Outcome ==
  /\ pending \in Nat \cup {Nothing}
  /\ err \in Errors
  /\ reported \in BOOLEAN
  /\ fault \in Faults

ValuesInv == ObjectsReadable /\ LengthsAgree /\ Outcome

HeapInv == Heap!TypeOK /\ Heap!NullOnlyInVariables

\* A step makes an object of value v with the elements elems, or it makes none.
Makes(o, v, elems) ==
  /\ o \in Object \ live
  /\ Readable(v)
  /\ v.type = "TYPE_ARRAY" => Len(elems) = v.num
  /\ obj' = [obj EXCEPT ![o] = v]
  /\ vec' = [vec EXCEPT ![o] = elems]
  /\ live' = live \cup {o}

MakesNone ==
  /\ UNCHANGED obj
  /\ live' \subseteq live
  /\ \A o \in live' : vec'[o] = vec[o]

LEMMA MakesKeeps ==
  ASSUME HeapInv, ObjectsReadable, LengthsAgree,
         MakesNone \/ \E o, v, elems : Makes(o, v, elems)
  PROVE  ObjectsReadable' /\ LengthsAgree'
<1>1. CASE MakesNone
  BY <1>1 DEF MakesNone, ObjectsReadable, LengthsAgree
<1>2. CASE \E o, v, elems : Makes(o, v, elems)
  <2>1. PICK o, v, elems : Makes(o, v, elems)
    BY <1>2
  <2>2. o \in Object /\ vec \in [Object -> Seq(Heap!Cell)] /\ live \subseteq Object
    BY <2>1 DEF Makes, HeapInv, Heap!TypeOK
  <2>3. /\ obj' = [q \in Object |-> IF q = o THEN v ELSE obj[q]]
        /\ vec' = [q \in Object |-> IF q = o THEN elems ELSE vec[q]]
    BY <2>1, <2>2 DEF Makes, ObjectsReadable
  <2>4. ObjectsReadable'
    BY <2>1, <2>3 DEF ObjectsReadable, Makes
  <2>5. LengthsAgree'
    BY <2>1, <2>2, <2>3 DEF LengthsAgree, Makes
  <2>6. QED
    BY <2>4, <2>5
<1>3. QED
  BY <1>1, <1>2

-----------------------------------------------------------------------------
(* One lemma per group of instructions.                                    *)

ObjectsKept == (MakesNone \/ \E o, v, elems : Makes(o, v, elems)) /\ Outcome'

LEMMA FaultKept ==
  ASSUME Outcome, NEW f \in Faults, Fault(f) \/ FaultPrinting(f)
  PROVE  ObjectsKept
<1>1. FaultPrinting(f)
  BY DEF Fault
<1>2. QED
  BY <1>1 DEF ObjectsKept, Outcome, FaultPrinting, Heap!Die, Heap!noHeapChange, MakesNone

LEMMA FailKept ==
  ASSUME Outcome, NEW n, NEW e \in Errors, FailDropping(n, e)
  PROVE  ObjectsKept
BY DEF ObjectsKept, Outcome, FailDropping, Heap!Drop, Heap!noHeapChange, Fail, MakesNone

LEMMA LiteralReadable ==
  ASSUME Inv, Ready(PushCodes)
  PROVE  Readable(Literal(Instr)) /\ Literal(Instr).type # "TYPE_ARRAY"
<1>1. ~AtEnd /\ Instr.code \in PushCodes
  BY DEF Ready
<1>2. Instr.code = "CODE_PUSH_STR" => Len(Instr.arg1) \in Nat
  BY <1>1, InstrAtHand, BlobFacts DEF Inv, Instr, Code, Functions, WellTyped
<1>3. Instr.arg1 \in Chars /\ Instr.arg2 \in Int
  BY <1>1, InstrAtHand DEF Bytecode
<1>4. Instr.code = "CODE_PUSH_STR" => Instr.arg1 \in Text
  BY <1>2, <1>3 DEF Text
<1>5. /\ Literal(Instr) \in Basic
      /\ Literal(Instr).type \in {"TYPE_INTEGER", "TYPE_FLOAT", "TYPE_STRING", "TYPE_BOOLEAN",
                                 "TYPE_FN_REF"}
      /\ Literal(Instr).type = "TYPE_STRING" => Literal(Instr).str \in Text
  BY <1>1, <1>3, <1>4, ScalarsAre DEF PushCodes, Literal
<1>6. Literal(Instr) \in Data
  BY <1>5, DataIs
<1>7. QED
  BY <1>5, <1>6 DEF Readable, Text

LEMMA PushKept ==
  ASSUME Inv, HeapInv, ValuesInv, PushLiteral \/ PushLen
  PROVE  ObjectsKept
<1>1. ASSUME NEW o \in NewAddress, NEW m \in InitialMarks, NEW v,
             Heap!PushNew(o, m), obj' = [obj EXCEPT ![o] = v],
             Readable(v), v.type # "TYPE_ARRAY"
      PROVE  \E p, w, elems : Makes(p, w, elems)
  <2>1. Makes(o, v, <<>>)
    BY <1>1, NewObject DEF Heap!PushNew, Heap!object_create, Makes
  <2>2. QED
    BY <2>1
<1>2. Nothing \notin Nat
  BY DEF Nothing
<1>3. Readable(IntValue(pending)) /\ IntValue(pending).type # "TYPE_ARRAY"
  <2>1. pending \in Int
    BY DEF ValuesInv, Outcome, Nothing
  <2>2. IntValue(pending) \in Basic /\ IntValue(pending).type = "TYPE_INTEGER"
    BY <2>1, ScalarsAre
  <2>3. QED
    BY <2>2, DataIs DEF Readable
<1>4. CASE PushLiteral
  <2>1. \E p, w, elems : Makes(p, w, elems)
    BY <1>1, <1>4, LiteralReadable DEF PushLiteral
  <2>2. QED
    BY <1>4, <2>1 DEF PushLiteral, NoError, ObjectsKept, ValuesInv, Outcome
<1>5. CASE PushLen
  <2>1. \E p, w, elems : Makes(p, w, elems)
    BY <1>1, <1>3, <1>5 DEF PushLen
  <2>2. QED
    BY <1>5, <2>1 DEF PushLen, NoError, ObjectsKept, ValuesInv, Outcome
<1>6. QED
  BY <1>4, <1>5

LEMMA PushArrayKept ==
  ASSUME Inv, HeapInv, ValuesInv, CODE_PUSH_ARRAY
  PROVE  ObjectsKept
<1>1. ~AtEnd /\ Instr.code = "CODE_PUSH_ARRAY"
  BY DEF CODE_PUSH_ARRAY, Ready
<1>2. Instr.arg2 \in Nat
  BY <1>1, InstrAtHand
<1>3. ASSUME NEW o \in NewAddress, NEW m \in InitialMarks, Heap!PushArray(o, m, Instr.arg2),
             obj' = [obj EXCEPT ![o] = ArrayValue(Instr.arg2)]
      PROVE  \E p, w, elems : Makes(p, w, elems)
  <2>1. Len(Heap!Top(stack, Instr.arg2)) = Instr.arg2
    BY <1>2, <1>3 DEF Heap!PushArray, Heap!Top, Inv, Stacks
  <2>2. ArrayValue(Instr.arg2) \in Data
    BY <1>2 DEF ArrayValue, value, Data, Types, Chars
  <2>3. Makes(o, ArrayValue(Instr.arg2), Heap!Top(stack, Instr.arg2))
    BY <1>2, <1>3, <2>1, <2>2, NewObject
    DEF Heap!PushArray, Heap!object_create, Makes, Readable, ArrayValue, value
  <2>4. QED
    BY <2>3
<1>4. CASE Fault("out_of_bounds")
  BY <1>4, FaultKept DEF Faults, ValuesInv
<1>5. CASE /\ \E o \in NewAddress, m \in InitialMarks :
                /\ Heap!PushArray(o, m, Instr.arg2)
                /\ obj' = [obj EXCEPT ![o] = ArrayValue(Instr.arg2)]
           /\ NoError
           /\ UNCHANGED pending
  BY <1>3, <1>5 DEF ObjectsKept, NoError, ValuesInv, Outcome
<1>6. QED
  BY <1>4, <1>5 DEF CODE_PUSH_ARRAY

LEMMA ArithmeticKept ==
  ASSUME Inv, HeapInv, ValuesInv, Arithmetic
  PROVE  ObjectsKept
<1> DEFINE n == Len(stack)
           result == Computed(Instr.code, NumAt(n - 1), NumAt(n))
<1>1. Instr.code \in ArithmeticCodes
  BY DEF Arithmetic, Ready
<1>2. ASSUME n > 1, phase = "run" \/ phase = "swept",
             ~DivisionTraps(Instr.code, NumAt(n - 1), NumAt(n))
      PROVE  Readable(result) /\ result.type # "TYPE_ARRAY"
  <2>1. n \in DOMAIN stack /\ n - 1 \in DOMAIN stack
    BY <1>2 DEF Inv, Stacks
  <2>2. \A k \in DOMAIN stack : stack[k] \in Object
    BY <1>2 DEF Inv, Stacks, HeapInv, Heap!NullOnlyInVariables, Heap!StackRoots, Heap!Cell
  <2>3. NumAt(n - 1) \in Int /\ NumAt(n) \in Int
    BY <2>1, <2>2, TokensAre DEF NumAt, ValuesInv, ObjectsReadable, Readable
  <2> DEFINE l == NumAt(n - 1)
             r == NumAt(n)
             code == Instr.code
  <2> HIDE DEF l, r, code, n
  <2>4. Computed(code, l, r) \in Basic /\ Computed(code, l, r).type \in {"TYPE_INTEGER", "TYPE_BOOLEAN"}
    BY <1>1, <1>2, <2>3, ComputedIs DEF l, r, code
  <2>5. Readable(Computed(code, l, r)) /\ Computed(code, l, r).type # "TYPE_ARRAY"
    BY <2>4, DataIs DEF Readable
  <2>6. QED
    BY <2>5 DEF l, r, code
<1>3. CASE Fault("null") \/ Fault("division")
  BY <1>3, FaultKept DEF Faults, ValuesInv
<1>4. CASE FailDropping(2, "InternalErr")
  BY <1>4, FailKept DEF Errors, ValuesInv
<1>5. CASE /\ \E o \in NewAddress :
                /\ Heap!PushResult(o, FALSE)
                /\ obj' = [obj EXCEPT ![o] = result]
           /\ n > 1
           /\ ~DivisionTraps(Instr.code, NumAt(n - 1), NumAt(n))
           /\ phase = "run" \/ phase = "swept"
           /\ NoError
           /\ UNCHANGED pending
  <2>0. Readable(result) /\ result.type # "TYPE_ARRAY"
    BY <1>2, <1>5
  <2> HIDE DEF result
  <2>1. PICK o \in NewAddress : Heap!PushResult(o, FALSE) /\ obj' = [obj EXCEPT ![o] = result]
    BY <1>5
  <2>2. Makes(o, result, <<>>)
    BY <2>0, <2>1, NewObject DEF Heap!PushResult, Makes
  <2>3. QED
    BY <1>5, <2>2 DEF ObjectsKept, NoError, ValuesInv, Outcome
<1>6. QED
  BY <1>3, <1>4, <1>5 DEF Arithmetic, Ready

\* What object_sweep does to the objects when it frees one.
Frees(o) ==
  /\ live' = live \ {o}
  /\ vec' = [vec EXCEPT ![o] = <<>>]

LEMMA CollectKept ==
  ASSUME HeapInv, ValuesInv, Collect
  PROVE  ObjectsKept
<1>1. MakesNone
  <2>1. CASE UNCHANGED <<live, vec>>
    BY <2>1 DEF MakesNone, Collect
  <2>2. CASE \E o : Frees(o)
    BY <2>2 DEF MakesNone, Collect, HeapInv, Heap!TypeOK, Frees
  <2>3. CASE Heap!object_sweep /\ heap[slot] # NULL
    BY <2>1, <2>2, <2>3 DEF Heap!object_sweep, Heap!Spare, Heap!object_destroy, Frees
  <2>4. QED
    BY <2>1, <2>3 DEF Collect, Heap!vm_gc_mark, Heap!MarkFrom, Heap!object_sweep,
       Heap!CreateFailed
<1>2. Outcome'
  BY DEF Collect, ValuesInv, Outcome, Faults
<1>3. QED
  BY <1>1, <1>2 DEF ObjectsKept

LEMMA NativeKept ==
  ASSUME Inv, HeapInv, ValuesInv, derp_run_native
  PROVE  ObjectsKept
<1>1. ASSUME NEW newline \in BOOLEAN, derp_stdlib_print(newline)
      PROVE  ObjectsKept
  <2>1. CASE \E f \in Faults : Fault(f) \/ FaultPrinting(f)
    BY <2>1, FaultKept DEF ValuesInv
  <2>2. CASE FailDropping(Instr.arg2, "InternalErr")
    BY <2>2, FailKept DEF Errors, ValuesInv
  <2>3. CASE Heap!Drop(Instr.arg2, FALSE) /\ NoError /\ UNCHANGED <<obj, pending>>
    BY <2>3 DEF Heap!Drop, Heap!noHeapChange, NoError, ObjectsKept, MakesNone, ValuesInv, Outcome
  <2>4. QED
    BY <1>1, <2>1, <2>2, <2>3 DEF derp_stdlib_print, Faults
<1>2. CASE derp_stdlib_len
  <2> DEFINE data == obj[Heap!TopOrNull]
  <2>1. CASE Fault("out_of_bounds")
    BY <2>1, FaultKept DEF Faults, ValuesInv
  <2>2. CASE \E n : FailDropping(n, "ArgErr")
    BY <2>2, FailKept DEF Errors, ValuesInv
  <2>3. CASE /\ stack # <<>>
             /\ data.type \in {"TYPE_STRING", "TYPE_ARRAY"}
             /\ Heap!Drop(1, FALSE)
             /\ pending' = IF data.type = "TYPE_STRING" THEN Len(data.str) ELSE data.num
             /\ NoError
             /\ UNCHANGED obj
    <3>1. Heap!TopOrNull \in Object
      <4>1. phase = "run" /\ NULL \notin Heap!StackRoots
        BY <2>3 DEF Heap!Drop, HeapInv, Heap!NullOnlyInVariables
      <4>2. Len(stack) \in DOMAIN stack /\ stack[Len(stack)] \in Heap!Cell
        BY <2>3 DEF Inv, Stacks
      <4>3. QED
        BY <2>3, <4>1, <4>2 DEF Heap!TopOrNull, Heap!Cell, Heap!StackRoots
    <3>2. Readable(data)
      BY <3>1 DEF ValuesInv, ObjectsReadable
    <3>3. pending' \in Nat
      BY <2>3, <3>2 DEF Readable
    <3>4. QED
      BY <2>3, <3>3 DEF Heap!Drop, Heap!noHeapChange, NoError, ObjectsKept, MakesNone, ValuesInv,
         Outcome
  <2>4. QED
    BY <1>2, <2>1, <2>2, <2>3 DEF derp_stdlib_len
<1>3. CASE derp_stdlib_range
  BY <1>3, FaultKept, FailKept DEF derp_stdlib_range, ValuesInv, Faults, Errors
<1>4. QED
  BY <1>1, <1>2, <1>3 DEF derp_run_native

\* What does no more than move roots.
LEMMA RootsKept ==
  ASSUME ValuesInv, UNCHANGED <<obj, live, vec, pending, fault>>,
         err' \in Errors, reported' \in BOOLEAN
  PROVE  ObjectsKept
BY DEF ObjectsKept, MakesNone, ValuesInv, Outcome

LEMMA CallKept ==
  ASSUME Inv, HeapInv, ValuesInv, CODE_CALL \/ CODE_RET
  PROVE  ObjectsKept
<1>1. CASE FailDropping(0, "LookupErr")
  BY <1>1, FailKept DEF Errors, ValuesInv
<1>2. CASE (Heap!Call \/ Heap!Ret) /\ NoError /\ UNCHANGED <<obj, pending>>
  BY <1>2, RootsKept DEF Heap!Call, Heap!Ret, Heap!noHeapChange, NoError, ValuesInv, Outcome
<1>3. QED
  BY <1>1, <1>2, NativeKept DEF CODE_CALL, CODE_RET

LEMMA VariablesKept ==
  ASSUME ValuesInv, CODE_PUSH_LOOKUP \/ CODE_ASSIGN
  PROVE  ObjectsKept
<1>1. CASE CODE_PUSH_LOOKUP
  BY <1>1, RootsKept DEF CODE_PUSH_LOOKUP, Heap!Lookup, Heap!noHeapChange, Fail, NoError,
     ValuesInv, Outcome, Errors
<1>2. CASE CODE_ASSIGN
  BY <1>2, RootsKept DEF CODE_ASSIGN, Heap!Assign, Heap!noHeapChange, NoError, ValuesInv,
     Outcome
<1>3. QED
  BY <1>1, <1>2

LEMMA JumpsKept ==
  ASSUME ValuesInv, CODE_JUMP_IF_FALSE \/ CODE_JUMP
  PROVE  ObjectsKept
<1>1. CASE CODE_JUMP
  BY <1>1, RootsKept DEF CODE_JUMP, heapVars, NoError, ValuesInv, Outcome
<1>2. CASE Fault("null")
  BY <1>2, FaultKept DEF Faults, ValuesInv
<1>3. CASE FailDropping(1, "TypeErr")
  BY <1>3, FailKept DEF Errors, ValuesInv
<1>4. CASE Heap!Drop(1, FALSE) /\ NoError /\ UNCHANGED <<obj, pending>>
  BY <1>4, RootsKept DEF Heap!Drop, Heap!noHeapChange, NoError, ValuesInv, Outcome
<1>5. QED
  BY <1>1, <1>2, <1>3, <1>4 DEF CODE_JUMP_IF_FALSE

LEMMA EndKept ==
  ASSUME ValuesInv, Finish \/ err_print \/ Backtrace \/ Rest
  PROVE  ObjectsKept
<1>1. CASE Fault("uninitialised")
  BY <1>1, FaultKept DEF Faults, ValuesInv
<1>2. CASE Finish
  BY <1>2, RootsKept DEF Finish, Heap!Stop, Heap!noHeapChange, NoError, ValuesInv, Outcome
<1>3. CASE /\ reported' = TRUE
           /\ UNCHANGED <<heapVars, obj, pending, err, fault>>
  BY <1>3, RootsKept DEF heapVars, ValuesInv, Outcome
<1>4. CASE Heap!Unwind /\ UNCHANGED <<obj, pending, err, reported, fault>>
  BY <1>4, RootsKept DEF Heap!Unwind, Heap!noHeapChange, ValuesInv, Outcome
<1>5. CASE Rest
  BY <1>5, RootsKept DEF Rest, vars, heapVars, ValuesInv, Outcome
<1>6. QED
  BY <1>1, <1>2, <1>3, <1>4, <1>5 DEF err_print, Backtrace

LEMMA ObjectsStep ==
  ASSUME Inv, HeapInv, ValuesInv, [Next]_vars
  PROVE  ObjectsKept
<1>1. CASE Next
  BY <1>1, PushKept, PushArrayKept, ArithmeticKept, CollectKept, CallKept, VariablesKept,
     JumpsKept, EndKept DEF Next, Execute
<1>2. CASE UNCHANGED vars
  BY <1>2, RootsKept DEF vars, heapVars, ValuesInv, Outcome
<1>3. QED
  BY <1>1, <1>2

LEMMA ValuesKept ==
  ASSUME Inv, HeapInv, ValuesInv, [Next]_vars
  PROVE  ValuesInv'
BY ObjectsStep, MakesKeeps DEF ObjectsKept, ValuesInv

\* Every value the machine makes has the length its type asks for, and err,
\* fault and the pending length are what they are meant to be.
THEOREM ValuesInvariant == Spec => []ValuesInv
<1>1. Init => ValuesInv
  <2> SUFFICES ASSUME Init
               PROVE  ValuesInv
    OBVIOUS
  <2>1. obj = [o \in Object |-> IntValue(0)]
    BY DEF Init
  <2>2. IntValue(0) \in Basic /\ IntValue(0).type = "TYPE_INTEGER"
    BY ScalarsAre
  <2>3. ObjectsReadable
    BY <2>1, <2>2, DataIs DEF ObjectsReadable, Readable
  <2>4. LengthsAgree
    BY DEF LengthsAgree, Init, Heap!Init
  <2>5. QED
    BY <2>3, <2>4 DEF ValuesInv, Outcome, Init, Errors, Faults
<1>2. Inv /\ HeapInv /\ ValuesInv /\ [Next]_vars => ValuesInv'
  BY ValuesKept
<1>3. QED
  BY <1>1, <1>2, Invariant, ProgramsKeepHeap, PTL DEF Spec, HeapInv

\* CODE_PUSH_ARRAY and derp_stdlib_print, whatever the program: the length an
\* array carries is the number of elements its vector has room for, so that the
\* loop that prints them stays inside the vector.
THEOREM ArraysHaveTheirLength == Spec => []LengthsAgree
<1>1. ValuesInv => LengthsAgree
  BY DEF ValuesInv
<1>2. QED
  BY <1>1, ValuesInvariant, PTL

-----------------------------------------------------------------------------
(* What is printed.                                                        *)

\* What is written of each cell, arrays being nested up to depth d.
DisplayOf(f, L, O, V) ==
  \A c \in Heap!Cell :
    /\ f[0][c] = NotShown("endless")
    /\ \A d \in Nat :
         f[d + 1][c] =
           IF c \notin L THEN NotShown("freed")
           ELSE IF O[c].type = "TYPE_FN_REF" THEN NotShown("InternalErr")
           ELSE IF O[c].type # "TYPE_ARRAY" THEN Shown(<<O[c]>>)
           ELSE Bracketed(Joined([k \in DOMAIN V[c] |-> f[d][V[c][k]]], ","))

DisplaysAs(f, p) ==
  f = [d \in Nat |-> IF d = 0 THEN NoDisplay(p) ELSE NextDisplay(p, d, f[d - 1])]

LEMMA DisplaysWrite ==
  ASSUME NEW p, NEW f, DisplaysAs(f, p)
  PROVE  DisplayOf(f, p[1], p[2], p[3])
<1>1. f = [n \in Nat |-> IF n = 0 THEN NoDisplay(p) ELSE NextDisplay(p, n, f[n - 1])]
  BY DEF DisplaysAs
<1>2. f[0] = NoDisplay(p)
  BY <1>1
<1>3. \A d \in Nat : f[d + 1] = NextDisplay(p, d + 1, f[d])
  <2> TAKE d \in Nat
  <2>1. d + 1 \in Nat /\ d + 1 # 0 /\ (d + 1) - 1 = d
    OBVIOUS
  <2>2. QED
    BY <1>1, <2>1
<1>4. QED
  BY <1>2, <1>3 DEF NoDisplay, NextDisplay, DisplayOf

IsDisplay(f) ==
  f = [d \in Nat |->
         IF d = 0 THEN [c \in Heap!Cell |-> NotShown("endless")]
         ELSE [c \in Heap!Cell |->
                 IF c \notin live THEN NotShown("freed")
                 ELSE IF obj[c].type = "TYPE_FN_REF" THEN NotShown("InternalErr")
                 ELSE IF obj[c].type # "TYPE_ARRAY" THEN Shown(<<obj[c]>>)
                 ELSE Bracketed(Joined([k \in DOMAIN vec[c] |-> f[d - 1][vec[c][k]]], ","))]]

LEMMA DisplayIs ==
  DisplayOf(Display, live, obj, vec) /\ DisplayOf(Display', live', obj', vec')
<1>1. \A r : DisplaysAs(DisplayBy!From(r), r)
  BY DisplayBy!FromIs DEF DisplaysAs
<1>2. /\ \A f : IsDisplay(f) <=> DisplaysAs(f, <<live, obj, vec>>)
      /\ \A f : IsDisplay(f)' <=> DisplaysAs(f, <<live', obj', vec'>>)
  BY DEF IsDisplay, DisplaysAs, NoDisplay, NextDisplay
<1>3. Display = CHOOSE f : IsDisplay(f)
  BY DEF Display, IsDisplay
<1>4. Display' = CHOOSE f : IsDisplay(f)'
  BY DEF Display, IsDisplay
<1>5. IsDisplay(Display)
  BY <1>1, <1>2, <1>3
<1>6. \E f : IsDisplay(f)'
  BY <1>1, <1>2
<1>7. DisplaysAs(Display', <<live', obj', vec'>>)
  BY <1>2, <1>4, <1>6
<1>8. DisplaysAs(Display, <<live, obj, vec>>)
  BY <1>2, <1>5
<1>9. QED
  BY <1>7, <1>8, DisplaysWrite

Outcomes == {"ok", "InternalErr", "freed", "endless"}

LEMMA DisplayPrints ==
  ASSUME HeapInv, ObjectsReadable, NEW d \in Nat, NEW c \in Heap!Cell
  PROVE  Display[d][c] \in Printing(Outcomes)
<1> DEFINE Off == {n \in Nat : ~ \A e \in Heap!Cell : Display[n][e] \in Printing(Outcomes)}
<1> SUFFICES ASSUME Off # {}
             PROVE  FALSE
  OBVIOUS
<1>1. PICK n \in Off : \A m \in Off : n <= m
  <2>1. Off \in SUBSET Nat
    OBVIOUS
  <2>2. QED
    BY <2>1, DisplayBy!Least
<1>2. PICK e \in Heap!Cell : Display[n][e] \notin Printing(Outcomes)
  BY <1>1
<1>3. DisplayOf(Display, live, obj, vec)
  BY DisplayIs
<1>4. \A res \in {"freed", "endless", "InternalErr"} : NotShown(res) \in Printing(Outcomes)
  BY PrintingParts DEF Outcomes
<1>5. n # 0
  BY <1>2, <1>3, <1>4 DEF DisplayOf
<1> DEFINE m == n - 1
<1>6. m \in Nat /\ m + 1 = n /\ m < n
  BY <1>1, <1>5
<1> HIDE DEF m
<1>7. \A q \in Heap!Cell : Display[m][q] \in Printing(Outcomes)
  BY <1>1, <1>6
<1> DEFINE within == [k \in DOMAIN vec[e] |-> Display[m][vec[e][k]]]
           comma == ","
<1>8. Display[n][e] = IF e \notin live THEN NotShown("freed")
                      ELSE IF obj[e].type = "TYPE_FN_REF" THEN NotShown("InternalErr")
                      ELSE IF obj[e].type # "TYPE_ARRAY" THEN Shown(<<obj[e]>>)
                      ELSE Bracketed(Joined(within, comma))
  BY <1>3, <1>6 DEF DisplayOf
<1>9. e \in live => e \in Object /\ obj[e] \in Token /\ vec[e] \in Seq(Heap!Cell)
  BY TokensAre DEF HeapInv, Heap!TypeOK, ObjectsReadable, Readable
<1>10. e \in live => Shown(<<obj[e]>>) \in Printing(Outcomes)
  BY <1>9 DEF Shown, Printing, Outcomes
<1>11. e \in live => Bracketed(Joined(within, comma)) \in Printing(Outcomes)
  <2> SUFFICES ASSUME e \in live
               PROVE  Bracketed(Joined(within, comma)) \in Printing(Outcomes)
    OBVIOUS
  <2> DEFINE v == vec[e]
             N == Len(v)
  <2>1. N \in Nat /\ DOMAIN v = 1 .. N /\ \A k \in 1 .. N : v[k] \in Heap!Cell
    BY <1>9
  <2>2. within = [k \in 1 .. N |-> Display[m][v[k]]]
    BY <2>1
  <2> HIDE DEF v, N, within
  <2>3. Len(within) = N /\ \A k \in 1 .. N : within[k] = Display[m][v[k]]
    BY <2>1, <2>2
  <2>4. \A k \in 1 .. Len(within) : within[k] \in Printing(Outcomes)
    BY <1>7, <2>1, <2>3
  <2>5. comma \in Separators /\ "ok" \in Outcomes
    BY DEF Separators, Outcomes
  <2> HIDE DEF comma
  <2>6. Joined(within, comma) \in Printing(Outcomes)
    BY <2>1, <2>3, <2>4, <2>5, JoinedPrints
  <2>7. QED
    BY <2>6, Prints
<1> HIDE DEF within, comma
<1>12. QED
  BY <1>2, <1>4, <1>8, <1>10, <1>11

LEMMA ArraysFinite ==
  ASSUME HeapInv
  PROVE  Cardinality(Arrays) + 1 \in Nat \ {0}
<1>1. Arrays \subseteq Object /\ IsFiniteSet(Object)
  BY VmAssumption DEF Arrays, HeapInv, Heap!TypeOK
<1>2. IsFiniteSet(Arrays)
  BY <1>1, FS_Subset
<1>3. Cardinality(Arrays) \in Nat
  BY <1>2, FS_CardinalityType
<1>4. QED
  BY <1>3

LEMMA PrintedPrints ==
  ASSUME HeapInv, ObjectsReadable, NEW cells \in Seq(Heap!Cell), NEW newline
  PROVE  (IF newline THEN WithNewline(Printed(cells)) ELSE Printed(cells)) \in Printing(Outcomes)
<1> DEFINE d == Cardinality(Arrays) + 1
           shown == [k \in DOMAIN cells |-> Display[d][cells[k]]]
           blank == " "
<1>1. d \in Nat
  BY ArraysFinite
<1>2. Printed(cells) = Joined(shown, blank)
  BY DEF Printed
<1> HIDE DEF d
<1>3. Len(shown) = Len(cells) /\ Len(cells) \in Nat
  OBVIOUS
<1>4. \A k \in 1 .. Len(shown) : shown[k] \in Printing(Outcomes)
  <2> TAKE k \in 1 .. Len(shown)
  <2>1. k \in DOMAIN cells /\ cells[k] \in Heap!Cell
    BY <1>3
  <2>2. QED
    BY <1>1, <2>1, DisplayPrints
<1>5. blank \in Separators /\ "ok" \in Outcomes
  BY DEF Separators, Outcomes
<1> HIDE DEF shown, blank
<1>6. Joined(shown, blank) \in Printing(Outcomes)
  BY <1>3, <1>4, <1>5, JoinedPrints
<1>7. QED
  BY <1>2, <1>6, Prints

\* print puts something at the end of the output, and nothing else touches it.
OutGrows == \E text \in Seq(Token) : out' = out \o text

LEMMA QuietWrites ==
  ASSUME out \in Seq(Token), out' = out
  PROVE  OutGrows
<1>1. <<>> \in Seq(Token) /\ out \o <<>> = out
  OBVIOUS
<1>2. QED
  BY <1>1 DEF OutGrows

LEMMA PrintWrites ==
  ASSUME Inv, HeapInv, ObjectsReadable, out \in Seq(Token), Instr.arg2 \in Nat,
         NEW newline, derp_stdlib_print(newline)
  PROVE  OutGrows
<1>1. CASE Instr.arg2 > Len(stack)
  BY <1>1, QuietWrites DEF derp_stdlib_print, Fault
<1>2. CASE ~(Instr.arg2 > Len(stack))
  <2> DEFINE printed == IF newline THEN WithNewline(Printed(Args)) ELSE Printed(Args)
  <2>1. Args \in Seq(Heap!Cell)
    BY <1>2 DEF Inv, Stacks, Args, Heap!Top
  <2>2. printed \in Printing(Outcomes)
    BY <2>1, PrintedPrints
  <2>3. out' = out \o printed.out
    BY <1>2 DEF derp_stdlib_print
  <2> HIDE DEF printed
  <2>4. printed.out \in Seq(Token)
    BY <2>2, PrintingParts
  <2>5. QED
    BY <2>3, <2>4 DEF OutGrows
<1>3. QED
  BY <1>1, <1>2

LEMMA NativeWrites ==
  ASSUME Inv, HeapInv, ObjectsReadable, out \in Seq(Token), Instr.arg2 \in Nat, derp_run_native
  PROVE  OutGrows
<1>1. CASE derp_stdlib_len
  BY <1>1, QuietWrites DEF derp_stdlib_len, Fault
<1>2. CASE derp_stdlib_range
  BY <1>2, QuietWrites DEF derp_stdlib_range, Fault
<1>3. QED
  BY <1>1, <1>2, PrintWrites DEF derp_run_native

LEMMA StepWrites ==
  ASSUME Inv, HeapInv, ValuesInv, out \in Seq(Token), [Next]_vars
  PROVE  OutGrows
<1>1. CASE CODE_CALL
  <2>1. Instr.arg2 \in Nat
    BY <1>1, InstrAtHand DEF CODE_CALL, Ready
  <2>2. QED
    BY <1>1, <2>1, NativeWrites, QuietWrites DEF CODE_CALL, ValuesInv
<1>2. CASE Arithmetic
  BY <1>2, QuietWrites DEF Arithmetic, Fault
<1>3. CASE PushLiteral \/ CODE_PUSH_ARRAY \/ PushLen \/ Collect
  BY <1>3, QuietWrites DEF PushLiteral, CODE_PUSH_ARRAY, PushLen, Collect, Fault
<1>4. CASE CODE_RET \/ CODE_PUSH_LOOKUP \/ CODE_ASSIGN \/ CODE_JUMP_IF_FALSE \/ CODE_JUMP
  BY <1>4, QuietWrites
  DEF CODE_RET, CODE_PUSH_LOOKUP, CODE_ASSIGN, CODE_JUMP_IF_FALSE, CODE_JUMP, Fault
<1>5. CASE Finish \/ err_print \/ Backtrace \/ Rest \/ UNCHANGED vars
  BY <1>5, QuietWrites DEF Finish, err_print, Backtrace, Rest, Fault, vars
<1>6. QED
  BY <1>1, <1>2, <1>3, <1>4, <1>5 DEF Next, Execute

LEMMA OutTyped == Spec => [](out \in Seq(Token))
<1>1. Init => out \in Seq(Token)
  BY DEF Init
<1>2. Inv /\ HeapInv /\ ValuesInv /\ out \in Seq(Token) /\ [Next]_vars => (out \in Seq(Token))'
  <2> SUFFICES ASSUME Inv, HeapInv, ValuesInv, out \in Seq(Token), [Next]_vars
               PROVE  out' \in Seq(Token)
    OBVIOUS
  <2>1. PICK text \in Seq(Token) : out' = out \o text
    BY StepWrites DEF OutGrows
  <2>2. QED
    BY <2>1
<1>3. QED
  BY <1>1, <1>2, Invariant, ValuesInvariant, ProgramsKeepHeap, PTL DEF Spec, HeapInv

-----------------------------------------------------------------------------
(* Where the machine ends: whatever the jumps of a compiled program, only  *)
(* its global code runs off its end.                                       *)

\* The loop was left.
Left == phase \in {"stopped", "crashed"}

\* The pointer is inside the function at hand; while len waits for its result
\* the pointer is at the call; only the end of the code leaves the loop without
\* an error; and no frame runs the global code but the root's.
ControlInv ==
  /\ Inside(Functions, cur_fn, pointer)
  /\ pending # Nothing => ~AtEnd /\ Instr.code = "CODE_CALL"
  /\ reported => Left /\ err # "none"
  /\ phase = "stopped" /\ err = "none" => AtEnd
  /\ ~reported => \A k \in 2 .. Len(returns) : Running(k) # 1

-----------------------------------------------------------------------------
(* What steps do to the control.                                           *)

SameCode == UNCHANGED <<prog, blob, cur_fn, returns>>

\* The instruction at hand did its work: the pointer goes where it leads.
Goes ==
  /\ SameCode
  /\ ~AtEnd
  /\ \/ Instr.code \notin {"CODE_RET", "CODE_JUMP"} /\ pointer' = pointer + 1
     \/ Instr.code = "CODE_JUMP" /\ pointer' = Instr.arg2
     \/ Instr.code = "CODE_JUMP_IF_FALSE" /\ pointer' = pointer + 1 + Instr.arg2
  /\ pending' = Nothing
  /\ ~Left /\ phase' # "stopped"
  /\ UNCHANGED <<err, reported>>

\* It has not yet, or it never will, and then there is an error.
Halts ==
  /\ SameCode
  /\ UNCHANGED <<pointer, pending, reported>>
  /\ err' = err \/ err' # "none"
  /\ phase' # "stopped" \/ err' # "none"
  /\ Left => Left'

\* The first half of derp_stdlib_len.
Waits ==
  /\ SameCode
  /\ ~AtEnd
  /\ Instr.code = "CODE_CALL"
  /\ ~Left /\ phase' # "stopped"
  /\ UNCHANGED <<pointer, err, reported>>

\* The loop is left at the end of the code, or has been left.
Rests ==
  /\ SameCode
  /\ UNCHANGED <<pointer, pending, err>>
  /\ \/ AtEnd /\ ~Left /\ UNCHANGED reported
     \/ UNCHANGED <<phase, reported>>
     \/ Left /\ err # "none" /\ UNCHANGED phase /\ reported'

LEMMA FaultHalts ==
  ASSUME NEW f, Fault(f) \/ FaultPrinting(f)
  PROVE  Halts
BY DEF Fault, FaultPrinting, Heap!Die, NoJump, Halts, SameCode, Left

LEMMA FailHalts ==
  ASSUME NEW n, NEW e, e # "none", FailDropping(n, e)
  PROVE  Halts
BY DEF FailDropping, Heap!Drop, Fail, NoJump, Halts, SameCode, Left

\* An instruction that is no jump and is done.
LEMMA AdvanceGoes ==
  ASSUME ~AtEnd, Instr.code \notin {"CODE_RET", "CODE_JUMP"},
         Advance, NoError, pending' = Nothing, ~Left, phase' # "stopped"
  PROVE  Goes
BY DEF Advance, NoError, Goes, SameCode

-----------------------------------------------------------------------------
(* One lemma per group of instructions.                                    *)

LEMMA PushMoves ==
  ASSUME ControlInv, PushLiteral \/ PushLen
  PROVE  Goes
<1>1. ~AtEnd /\ Instr.code \notin {"CODE_RET", "CODE_JUMP"}
  BY DEF PushLiteral, PushLen, Ready, PushCodes, ControlInv
<1>2. pending' = Nothing /\ ~Left /\ phase' = "run" /\ Advance /\ NoError
  BY DEF PushLiteral, PushLen, Ready, Heap!PushNew, Heap!object_create, Left
<1>3. QED
  BY <1>1, <1>2, AdvanceGoes

LEMMA PushArrayMoves ==
  ASSUME CODE_PUSH_ARRAY
  PROVE  Goes \/ Halts
<1>1. ~AtEnd /\ ~Left /\ Instr.code = "CODE_PUSH_ARRAY" /\ pending = Nothing
  BY DEF CODE_PUSH_ARRAY, Ready, Left
<1>2. CASE Fault("out_of_bounds")
  BY <1>2, FaultHalts
<1>3. CASE /\ \E o \in NewAddress, m \in InitialMarks : Heap!PushArray(o, m, Instr.arg2)
           /\ Advance /\ NoError /\ UNCHANGED pending
  <2>1. phase' = "run"
    BY <1>3 DEF Heap!PushArray, Heap!object_create
  <2>2. QED
    BY <1>1, <1>3, <2>1, AdvanceGoes
<1>4. QED
  BY <1>2, <1>3 DEF CODE_PUSH_ARRAY

LEMMA CollectHalts ==
  ASSUME Collect
  PROVE  Halts
<1>1. ~Left /\ phase' # "stopped"
  BY DEF Collect, Heap!vm_gc_mark, Heap!MarkFrom, Heap!object_sweep, Heap!CreateFailed, Left
<1>2. QED
  BY <1>1 DEF Collect, NoJump, Halts, SameCode

LEMMA ArithmeticMoves ==
  ASSUME Arithmetic
  PROVE  Goes \/ Halts
<1>1. ~AtEnd /\ ~Left /\ Instr.code \notin {"CODE_RET", "CODE_JUMP"} /\ pending = Nothing
  BY DEF Arithmetic, Ready, ArithmeticCodes, Left
<1>2. CASE \E f : Fault(f)
  BY <1>2, FaultHalts
<1>3. CASE FailDropping(2, "InternalErr")
  BY <1>3, FailHalts
<1>4. CASE (\E o \in NewAddress : Heap!PushResult(o, FALSE)) /\ Advance /\ NoError /\ UNCHANGED pending
  <2>1. phase' = "run"
    BY <1>4 DEF Heap!PushResult
  <2>2. QED
    BY <1>1, <1>4, <2>1, AdvanceGoes
<1>5. QED
  BY <1>2, <1>3, <1>4 DEF Arithmetic

LEMMA NativeMoves ==
  ASSUME ~AtEnd, ~Left, Instr.code = "CODE_CALL", pending = Nothing, derp_run_native
  PROVE  Goes \/ Halts \/ Waits
<1>1. ASSUME NEW newline \in BOOLEAN, derp_stdlib_print(newline)
      PROVE  Goes \/ Halts
  <2>1. CASE \E f : Fault(f) \/ FaultPrinting(f)
    BY <2>1, FaultHalts
  <2>2. CASE FailDropping(Instr.arg2, "InternalErr")
    BY <2>2, FailHalts
  <2>3. CASE Heap!Drop(Instr.arg2, FALSE) /\ Advance /\ NoError /\ UNCHANGED pending
    <3>1. phase' = "run"
      BY <2>3 DEF Heap!Drop
    <3>2. QED
      BY <2>3, <3>1, AdvanceGoes
  <2>4. QED
    BY <1>1, <2>1, <2>2, <2>3 DEF derp_stdlib_print
<1>2. CASE derp_stdlib_len
  <2>1. CASE \E f : Fault(f)
    BY <2>1, FaultHalts
  <2>2. CASE \E n : FailDropping(n, "ArgErr")
    BY <2>2, FailHalts
  <2>3. CASE Heap!Drop(1, FALSE) /\ NoJump /\ NoError
    BY <2>3 DEF Heap!Drop, NoJump, NoError, Waits, SameCode
  <2>4. QED
    BY <1>2, <2>1, <2>2, <2>3 DEF derp_stdlib_len
<1>3. CASE derp_stdlib_range
  BY <1>3, FaultHalts, FailHalts DEF derp_stdlib_range
<1>4. QED
  BY <1>1, <1>2, <1>3 DEF derp_run_native

LEMMA VariablesMove ==
  ASSUME CODE_PUSH_LOOKUP \/ CODE_ASSIGN
  PROVE  Goes \/ Halts
<1>1. ~AtEnd /\ ~Left /\ Instr.code \notin {"CODE_RET", "CODE_JUMP"} /\ pending = Nothing
  BY DEF CODE_PUSH_LOOKUP, CODE_ASSIGN, Ready, Left
<1>2. CASE CODE_ASSIGN
  BY <1>1, <1>2, AdvanceGoes DEF CODE_ASSIGN, Heap!Assign, Left
<1>3. CASE CODE_PUSH_LOOKUP
  <2>1. CASE Fail("LookupErr")
    BY <1>1, <2>1 DEF Fail, NoJump, Halts, SameCode
  <2>2. CASE phase' # "stopped" /\ Advance /\ NoError /\ UNCHANGED pending
    BY <1>1, <2>2, AdvanceGoes
  <2>3. QED
    BY <1>3, <2>1, <2>2 DEF CODE_PUSH_LOOKUP
<1>4. QED
  BY <1>2, <1>3

LEMMA JumpsMove ==
  ASSUME Inv, CODE_JUMP_IF_FALSE \/ CODE_JUMP
  PROVE  Goes \/ Halts
<1>1. ~AtEnd /\ ~Left /\ pending = Nothing /\ Instr.arg2 \in Nat /\ pointer \in Nat
  BY InstrAtHand DEF CODE_JUMP_IF_FALSE, CODE_JUMP, Ready, Inv, Left
<1>2. CASE CODE_JUMP
  BY <1>1, <1>2 DEF CODE_JUMP, Ready, heapVars, NoError, Goes, SameCode, Left
<1>3. CASE CODE_JUMP_IF_FALSE
  <2>1. CASE \E f : Fault(f)
    BY <2>1, FaultHalts
  <2>2. CASE FailDropping(1, "TypeErr")
    BY <2>2, FailHalts
  <2>3. CASE /\ Heap!Drop(1, FALSE)
             /\ \E holds \in BOOLEAN : pointer' = AfterTest(holds)
             /\ NoError
             /\ UNCHANGED <<prog, blob, cur_fn, returns, obj, pending>>
    <3>1. phase' = "run" /\ Instr.code = "CODE_JUMP_IF_FALSE"
      BY <1>3, <2>3 DEF Heap!Drop, CODE_JUMP_IF_FALSE, Ready
    <3>2. pointer' \in {pointer + 1, pointer + 1 + Instr.arg2}
      BY <1>1, <2>3 DEF AfterTest
    <3>3. QED
      BY <1>1, <2>3, <3>1, <3>2 DEF NoError, Goes, SameCode
  <2>4. QED
    BY <1>3, <2>1, <2>2, <2>3 DEF CODE_JUMP_IF_FALSE
<1>4. QED
  BY <1>2, <1>3

LEMMA EndRests ==
  ASSUME Finish \/ err_print \/ Rest
  PROVE  Rests \/ Halts
<1>1. CASE Finish
  BY <1>1 DEF Finish, NoJump, NoError, Rests, SameCode, Left
<1>2. CASE err_print
  BY <1>2, FaultHalts DEF err_print, heapVars, NoJump, Rests, SameCode, Left
<1>3. CASE Rest
  BY <1>3 DEF Rest, vars, heapVars, Rests, SameCode
<1>4. QED
  BY <1>1, <1>2, <1>3

LEMMA ControlSteps ==
  ASSUME Inv, ControlInv, Next
  PROVE  \/ Goes \/ Halts \/ Waits \/ Rests
         \/ Enter /\ UNCHANGED <<pending, phase>>
         \/ CODE_RET
         \/ TakeDown /\ UNCHANGED <<pending, phase, err>>
<1>1. CASE CODE_CALL
  <2>1. CASE derp_run_native
    BY <1>1, <2>1, NativeMoves DEF CODE_CALL, Ready, Left
  <2>2. CASE FailDropping(0, "LookupErr")
    BY <2>2, FailHalts
  <2>3. CASE /\ FnsNamed(Instr.arg1) # {}
             /\ Heap!Call
             /\ returns' = Append(returns, ReturnTo)
             /\ cur_fn' = FirstNamed(Instr.arg1)
             /\ pointer' = 0
             /\ NoError
             /\ UNCHANGED <<prog, blob, obj, pending, out>>
    BY <1>1, <2>3 DEF CODE_CALL, Enter, Heap!Call
  <2>4. QED
    BY <1>1, <2>1, <2>2, <2>3 DEF CODE_CALL
<1>2. CASE Backtrace
  BY <1>2, FaultHalts DEF Backtrace, TakeDown, Heap!Unwind
<1>3. QED
  BY <1>1, <1>2, PushMoves, PushArrayMoves, CollectHalts, ArithmeticMoves,
     VariablesMove, JumpsMove, EndRests
  DEF Next, Execute
-----------------------------------------------------------------------------
(* The invariant is kept, one lemma per kind of step.                      *)

LEMMA CodeFacts ==
  ASSUME Inv
  PROVE  /\ Functions \in Seq(fn_blob_t)
         /\ \A f \in DOMAIN Functions :
              /\ Functions[f].code \in Seq(Bytecode)
              /\ Inside(Functions, f, 0)
              /\ f = 1 => Functions[f].name = ""
              /\ \A i \in DOMAIN Functions[f].code :
                   LET c == Functions[f].code[i]
                   IN  /\ c.code \notin {"CODE_RET", "CODE_JUMP"} => Inside(Functions, f, i)
                       /\ c.code = "CODE_JUMP" => Inside(Functions, f, c.arg2)
                       /\ c.code = "CODE_JUMP_IF_FALSE" => Inside(Functions, f, i + c.arg2)
                       /\ c.code = "CODE_CALL" => c.arg1 # ""
<1>1. prog \in DOMAIN Blobs /\ Functions = Blobs[prog].fns
  BY DEF Inv, Functions
<1>2. \A f \in DOMAIN Functions :
        Functions[f].code \in Seq(Bytecode) /\ Closed(Functions[f].code, f # 1)
  BY <1>1, BlobFacts
<1>3. \A f \in DOMAIN Functions : \A i \in DOMAIN Functions[f].code :
        Functions[f].code[i].code = "CODE_CALL" => Functions[f].code[i].arg1 # ""
  BY <1>1, BlobFacts DEF WellTyped
<1>4. QED
  BY <1>1, <1>2, <1>3, BlobFacts, ClosedLeads

\* What does not touch the code or the frames leaves the functions running.
LEMMA SameRunning ==
  ASSUME SameCode
  PROVE  /\ Functions' = Functions /\ Code' = Code
         /\ \A k : Running(k)' = Running(k)
BY DEF SameCode, Functions, Code, Running

LEMMA GoesKeeps ==
  ASSUME Inv, ControlInv, Goes
  PROVE  ControlInv'
<1>1. Inside(Functions, cur_fn, pointer')
  <2>1. cur_fn \in DOMAIN Functions /\ pointer \in Nat /\ pointer + 1 \in DOMAIN Code
    BY InstrAtHand DEF Inv, Goes
  <2>2. Instr = Functions[cur_fn].code[pointer + 1] /\ DOMAIN Code = DOMAIN Functions[cur_fn].code
    BY DEF Instr, Code
  <2>3. QED
    BY <2>1, <2>2, CodeFacts DEF Goes
<1>2. UNCHANGED <<cur_fn, returns, reported>> /\ ~reported
  BY DEF Goes, SameCode, ControlInv
<1>3. QED
  BY <1>1, <1>2, SameRunning DEF Goes, ControlInv, Inside

LEMMA StaysKeeps ==
  ASSUME Inv, ControlInv, Halts \/ Waits \/ Rests
  PROVE  ControlInv'
<1>1. SameCode /\ UNCHANGED pointer
  BY DEF Halts, Waits, Rests
<1>2. UNCHANGED <<AtEnd, Instr, Functions, cur_fn, returns>>
  BY <1>1, SameRunning DEF AtEnd, Instr, SameCode
<1>3. Inside(Functions, cur_fn, pointer)'
  BY <1>1, <1>2 DEF ControlInv, Inside
<1>4. (pending # Nothing => ~AtEnd /\ Instr.code = "CODE_CALL")'
  BY <1>2 DEF ControlInv, Halts, Waits, Rests, Nothing
<1>5. (reported => Left /\ err # "none")'
  BY DEF ControlInv, Halts, Waits, Rests, Left
<1>6. (phase = "stopped" /\ err = "none" => AtEnd)'
  BY <1>2 DEF ControlInv, Halts, Waits, Rests, Left
<1>7. (~reported => \A k \in 2 .. Len(returns) : Running(k) # 1)'
  <2>1. ~reported' => ~reported
    BY DEF Halts, Waits, Rests
  <2>2. QED
    BY <1>1, <1>2, <2>1, SameRunning DEF ControlInv
<1>8. QED
  BY <1>3, <1>4, <1>5, <1>6, <1>7 DEF ControlInv

LEMMA EnterKeepsControl ==
  ASSUME Inv, ControlInv, Enter, UNCHANGED <<pending, phase>>
  PROVE  ControlInv'
<1>1. /\ ~Left /\ ~reported /\ pending = Nothing /\ ~AtEnd
      /\ Instr.code = "CODE_CALL"
      /\ UNCHANGED <<blob, reported, err>> /\ Functions' = Functions
  BY DEF Enter, Ready, Left, ControlInv, NoError, Functions
<1>2. FirstNamed(Instr.arg1) \in DOMAIN Functions /\ FirstNamed(Instr.arg1) # 1
  <2>1. FnsNamed(Instr.arg1) \subseteq Nat /\ FnsNamed(Instr.arg1) # {}
    <3>1. Functions \in Seq(fn_blob_t)
      BY CodeFacts
    <3>2. QED
      BY <3>1 DEF Enter, FnsNamed
  <2>2. FirstNamed(Instr.arg1) \in FnsNamed(Instr.arg1)
    BY <2>1, DisplayBy!Least DEF FirstNamed
  <2>3. Instr.arg1 # ""
    BY <1>1, InstrAtHand, CodeFacts DEF Inv, Instr, Code
  <2>4. QED
    BY <2>2, <2>3, CodeFacts DEF FnsNamed
<1>3. Inside(Functions, cur_fn, pointer)'
  BY <1>1, <1>2, CodeFacts DEF Enter, Inside
<1>4. \A k \in 2 .. Len(returns') : Running(k)' # 1
  <2>1. /\ returns \in Seq([addr : Nat, fn : Nat])
        /\ ReturnTo.fn = cur_fn
        /\ cur_fn \in Nat /\ pointer \in Nat
    <3>1. Functions \in Seq(fn_blob_t)
      BY CodeFacts
    <3>2. QED
      BY <3>1 DEF Inv, Stacks, ReturnTo
  <2>2. ReturnTo \in [addr : Nat, fn : Nat]
    BY <2>1 DEF ReturnTo
  <2>3. /\ Len(returns') = Len(returns) + 1 /\ Len(returns) \in Nat
        /\ returns'[Len(returns) + 1].fn = cur_fn
        /\ \A k \in 1 .. Len(returns) : returns'[k] = returns[k]
    BY <2>1, <2>2 DEF Enter
  <2>4. \A k \in 2 .. Len(returns) : Running(k)' = Running(k)
    BY <2>3 DEF Running
  <2>5. \A k : k = Len(returns') => Running(k)' = FirstNamed(Instr.arg1)
    BY DEF Running, Enter
  <2>6. QED
    BY <1>1, <1>2, <2>3, <2>4, <2>5 DEF ControlInv
<1>5. QED
  BY <1>1, <1>3, <1>4 DEF ControlInv, Left

LEMMA RetKeepsControl ==
  ASSUME Inv, ControlInv, CODE_RET
  PROVE  ControlInv'
<1> DEFINE n == Len(returns)
<1>1. /\ ~Left /\ ~reported /\ pending = Nothing
      /\ UNCHANGED <<blob, reported, err, pending, phase>> /\ Functions' = Functions
      /\ n \in Nat /\ n > 1
  BY DEF CODE_RET, Heap!Ret, Ready, Left, ControlInv, NoError, Functions, Inv, Stacks
<1>2. /\ Len(returns') = n - 1
      /\ \A k \in 1 .. n - 1 : returns'[k] = returns[k]
  BY FrameDropped DEF CODE_RET, Heap!Ret
<1>3. Inside(Functions, returns[n].fn, returns[n].addr + 1)
  <2> DEFINE caller == Functions[returns[n].fn].code
  <2>1. /\ returns[n].fn \in DOMAIN Functions
        /\ returns[n].addr < Len(caller)
        /\ caller[returns[n].addr + 1].code = "CODE_CALL"
    BY <1>1 DEF Inv, ReturnsToCaller
  <2>2. returns[n].addr \in Nat /\ caller \in Seq(Bytecode)
    <3>1. returns[n] \in [addr : Nat, fn : Nat]
      <4>1. n \in 1 .. Len(returns) /\ returns \in Seq([addr : Nat, fn : Nat])
        BY <1>1 DEF Inv, Stacks
      <4>2. QED
        BY <4>1, ElementOf
    <3>2. QED
      BY <2>1, <3>1, CodeFacts
  <2>3. returns[n].addr + 1 \in DOMAIN caller
    BY <2>1, <2>2
  <2>4. QED
    BY <2>1, <2>3, CodeFacts
<1>4. Inside(Functions, cur_fn, pointer)'
  BY <1>1, <1>3 DEF CODE_RET, Inside
<1>5. \A k \in 2 .. Len(returns') : Running(k)' # 1
  <2>1. \A k \in 1 .. n - 1 : Running(k)' = Running(k)
    BY <1>1, <1>2 DEF CODE_RET, Running
  <2>2. QED
    BY <1>1, <1>2, <2>1 DEF ControlInv
<1>6. QED
  BY <1>1, <1>4, <1>5 DEF ControlInv, Left

LEMMA TakeDownKeepsControl ==
  ASSUME ControlInv, TakeDown, UNCHANGED <<pending, phase, err>>
  PROVE  ControlInv'
<1>1. UNCHANGED <<blob, cur_fn, pointer, reported>> /\ reported
  BY DEF TakeDown
<1>2. UNCHANGED <<Functions, Code, AtEnd, Instr>>
  BY <1>1 DEF Functions, Code, AtEnd, Instr
<1>3. QED
  BY <1>1, <1>2 DEF ControlInv, Inside, Left

LEMMA ControlKept ==
  ASSUME Inv, ControlInv, [Next]_vars
  PROVE  ControlInv'
<1>1. CASE Next
  BY <1>1, ControlSteps, GoesKeeps, StaysKeeps, EnterKeepsControl, RetKeepsControl,
     TakeDownKeepsControl
<1>2. CASE UNCHANGED vars
  <2>1. Rests
    BY <1>2 DEF vars, heapVars, Rests, SameCode
  <2>2. QED
    BY <2>1, StaysKeeps
<1>3. QED
  BY <1>1, <1>2

LEMMA ControlStarts ==
  ASSUME Init
  PROVE  ControlInv
<1>1. Inside(Functions, cur_fn, pointer)
  BY InitHolds, CodeFacts DEF Init, Inv
<1>2. phase = "run" /\ Len(returns) = 1
  BY DEF Init, Heap!Init
<1>3. QED
  BY <1>1, <1>2 DEF Init, ControlInv, Left

-----------------------------------------------------------------------------
\* Whatever a program does, control stays in its code, and only a run that
\* failed leaves the loop elsewhere than at the end of a function.
THEOREM ControlInvariant == Spec => []ControlInv
<1>1. Init => ControlInv
  BY ControlStarts
<1>2. Inv /\ ControlInv /\ [Next]_vars => ControlInv'
  BY ControlKept
<1>3. QED
  BY <1>1, <1>2, Invariant, PTL DEF Spec

\* derp_vm_run ends without an error only at the end of the global code, with
\* no call under way: a called function always gets to its CODE_RET.
THEOREM OnlyRootEnds == Spec => []EndsInRoot
<1>1. Inv /\ ControlInv => EndsInRoot
  <2> SUFFICES ASSUME Inv, ControlInv, phase = "stopped", err = "none"
               PROVE  Len(frames) = 1 /\ cur_fn = 1
    BY DEF EndsInRoot
  <2>1. ~reported /\ AtEnd
    BY DEF ControlInv
  <2>2. cur_fn = 1
    <3>1. Inside(Functions, cur_fn, pointer)
      BY DEF ControlInv
    <3>2. cur_fn \in DOMAIN Functions
      BY DEF Inv
    <3>3. Functions[cur_fn].code \in Seq(Bytecode)
      BY <3>2, CodeFacts
    <3>4. QED
      BY <2>1, <3>1, <3>3 DEF Inside, AtEnd, Code
  <2>3. Len(returns) = Len(frames) /\ Len(frames) \in Nat \ {0}
    BY <2>1 DEF Inv, Stacks
  <2>4. Running(Len(returns)) = 1
    BY <2>2 DEF Running
  <2>5. QED
    BY <2>1, <2>2, <2>3, <2>4 DEF ControlInv
<1>2. QED
  BY <1>1, Invariant, ControlInvariant, PTL

-----------------------------------------------------------------------------
\* The machine's variables keep their types, whatever the program: the program
\* at hand is one of those there are, the pointer is at an instruction of its
\* code, whose operands are of the kind it reads, or at the end of it, the
\* objects hold values, an array's length is that of its vector, and what was
\* printed are values and separators.
THEOREM TypeCorrect == Spec => []TypeOK
<1>1. Inv /\ HeapInv /\ ControlInv /\ ValuesInv /\ out \in Seq(Token) => TypeOK
  <2> SUFFICES ASSUME Inv, HeapInv, ControlInv, ValuesInv, out \in Seq(Token)
               PROVE  TypeOK
    OBVIOUS
  <2>1. pointer \in 0 .. Len(Code)
    BY DEF ControlInv, Inside, Code
  <2>2. ~AtEnd => Instr \in Bytecode /\ WellTyped(Instr)
    BY InstrAtHand, BlobFacts DEF Inv, Instr, Code, Functions
  <2>3. obj \in [Object -> Data]
    BY DEF ValuesInv, ObjectsReadable, Readable
  <2>4. \A o \in live : obj[o].type = "TYPE_ARRAY" => obj[o].num = Len(vec[o])
    BY DEF ValuesInv, LengthsAgree
  <2>5. QED
    BY <2>1, <2>2, <2>3, <2>4 DEF TypeOK, Inv, Stacks, ValuesInv, Outcome, HeapInv
<1>2. QED
  BY <1>1, Invariant, ControlInvariant, ValuesInvariant, ProgramsKeepHeap, OutTyped, PTL
  DEF HeapInv
=============================================================================
