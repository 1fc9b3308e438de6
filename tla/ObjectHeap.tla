----------------------------- MODULE ObjectHeap -----------------------------
(***************************************************************************)
(* The object heap of Derplang: object_create and object_sweep (object.c), *)
(* vm_gc_mark (vm.c), and the two containers the marker takes as roots:    *)
(* the value stack and the symbol tables of the call stack.                *)
(*                                                                         *)
(* The interpreter is represented by the most general mutator: any order   *)
(* of the pushes, pops, lookups, assignments, calls and returns that vm.c  *)
(* performs on those two containers.  Vm.tla runs compiled programs over   *)
(* the same operators, and every one of its steps is a step of this Spec.  *)
(***************************************************************************)
EXTENDS Integers, Sequences

CONSTANTS
  Object,       \* addresses malloc may return for a Derp_obj
  NULL,         \* the C null pointer
  Name,         \* variable names
  Unbound,      \* a name that has no node in a symbol table
  HeapSize,     \* heap_size, 8 in object.c
  StackHeight,  \* VM_STACK_HEIGHT, 64 in vm.h
  MaxFrames     \* bound of the model: the call stack is an unbounded list

ASSUME HeapAssumption ==
  /\ HeapSize \in Nat \ {0}
  /\ StackHeight \in Nat \ {0}
  /\ MaxFrames \in Nat \ {0}
  /\ NULL \notin Object
  /\ Unbound \notin Object
  /\ NULL # Unbound

VARIABLES
  heap,            \* heap[0 .. HeapSize-1]
  next_free_slot,
  marked,          \* the marked field of each object
  live,            \* objects malloc'ed and not freed yet
  vec,             \* arr_val.vec of each array, <<>> for other objects
  stack,           \* vm->stack[0 .. stack_len-1]
  frames,          \* the symbol tables of vm->call_stack, last frame last
  phase,           \* where control is, see Phase
  slot             \* i of the loop in object_sweep

rootVars == <<stack, frames>>
vars == <<heap, next_free_slot, marked, live, vec, stack, frames, phase, slot>>

\* run:     between two heap operations
\* sweep:   inside object_sweep, called from object_create
\* swept:   object_create after the collection
\* stopped: derp_vm_run has left its loop
\* crashed: the process died
Phase == {"run", "sweep", "swept", "stopped", "crashed"}

Slot == 0 .. HeapSize - 1
Cell == Object \cup {NULL}
Table == [Name -> Object \cup {NULL, Unbound}]

EmptyTable == [x \in Name |-> Unbound]

-----------------------------------------------------------------------------
(* What the marker follows: vm_gc_mark visits every node of every symbol   *)
(* table, then stack[0 .. stack_len-1]; it does not look inside arrays.    *)

StackRoots == {stack[k] : k \in DOMAIN stack}

TableRoots == UNION {{frames[f][x] : x \in Name} : f \in DOMAIN frames}

Roots == (StackRoots \cup TableRoots) \cap Object

\* A root that is a null pointer makes `obj->marked = true` fault.
NullRoot == NULL \in StackRoots \cup TableRoots

HeapObjects == {heap[s] : s \in Slot} \cap Object

\* What an array points to.
Elements(o) == {vec[o][k] : k \in DOMAIN vec[o]} \cap Object

-----------------------------------------------------------------------------
(* Helpers of vm.c on the stack.                                           *)

\* Mutant: one cell is left free.
Pushed_early(stk, c) == IF Len(stk) + 1 >= StackHeight THEN stk ELSE Append(stk, c)

\* vm_stack_push drops the object when the stack is full; no caller looks at
\* its result.
Pushed(stk, c) == IF Len(stk) >= StackHeight THEN stk ELSE Append(stk, c)

Top(stk, n) == SubSeq(stk, Len(stk) - n + 1, Len(stk))

Dropped(stk, n) == SubSeq(stk, 1, Len(stk) - n)

\* vm_stack_pop returns NULL and leaves stack_len alone when it is empty.
TopOrNull == IF stack = <<>> THEN NULL ELSE stack[Len(stack)]
Popped == IF stack = <<>> THEN stack ELSE Dropped(stack, 1)

LastFrame == frames[Len(frames)]

-----------------------------------------------------------------------------
(* object_create.  Its fast path needs a free slot; with none it marks,    *)
(* sweeps, and then either takes the freed slot or returns NULL.           *)

\* Mutant: one slot too many.
HasSlot_off_by_one == next_free_slot <= HeapSize

HasSlot == next_free_slot < HeapSize

\* object_init writes type and flags only: the marked field of the new object
\* is whatever malloc left there, the parameter m.
object_create(o, m, elems) ==
  /\ phase \in {"run", "swept"}
  /\ HasSlot
  /\ o \notin live
  /\ heap' = [heap EXCEPT ![next_free_slot] = o]
  /\ next_free_slot' = next_free_slot + 1
  /\ marked' = [marked EXCEPT ![o] = m]
  /\ vec' = [vec EXCEPT ![o] = elems]
  /\ live' = live \cup {o}
  /\ phase' = "run"
  /\ UNCHANGED slot

\* vm_push_int, vm_push_str, ...: create, fill in, push.
PushNew(o, m) ==
  /\ object_create(o, m, <<>>)
  /\ stack' = Pushed(stack, o)
  /\ UNCHANGED frames

\* Mutant: stack_len is not lowered.
PushArray_keeps(o, m, n) ==
  /\ n <= Len(stack)
  /\ object_create(o, m, Top(stack, n))
  /\ stack' = Pushed(stack, o)
  /\ UNCHANGED frames

\* CODE_PUSH_ARRAY: the array is created while its n elements are still on
\* the stack, and only then are they moved into its vector.
PushArray(o, m, n) ==
  /\ n <= Len(stack)
  /\ object_create(o, m, Top(stack, n))
  /\ stack' = Pushed(Dropped(stack, n), o)
  /\ UNCHANGED frames

\* vm_arithmetic: both operands are popped and the result comes from malloc,
\* so it never gets a heap slot.
PushResult(o, m) ==
  /\ phase = "run"
  /\ o \notin live
  /\ Len(stack) >= 2
  /\ live' = live \cup {o}
  /\ marked' = [marked EXCEPT ![o] = m]
  /\ vec' = [vec EXCEPT ![o] = <<>>]
  /\ stack' = Pushed(Dropped(stack, 2), o)
  /\ UNCHANGED <<heap, next_free_slot, frames, phase, slot>>

\* object_create returned NULL after a collection that freed no slot; every
\* caller writes through the result.
CreateFailed ==
  /\ phase = "swept"
  /\ ~HasSlot
  /\ phase' = "crashed"
  /\ UNCHANGED <<heap, next_free_slot, marked, live, vec, stack, frames, slot>>

-----------------------------------------------------------------------------
(* The collector.                                                          *)

MarkFrom(starts) ==
  /\ phase = "run"
  /\ ~HasSlot
  /\ IF NullRoot
     THEN /\ phase' = "crashed"
          /\ UNCHANGED <<marked, slot>>
     ELSE /\ phase' = "sweep"
          /\ slot' = 0
          /\ marked' = [o \in Object |-> marked[o] \/ o \in starts]
  /\ UNCHANGED <<heap, next_free_slot, live, vec, stack, frames>>

\* Mutants: the loop over the stack starts at 1, is missing, or only the
\* frame at hand is visited, or no frame at all.
vm_gc_mark_skips_bottom ==
  MarkFrom((TableRoots \cup {stack[k] : k \in DOMAIN stack \ {1}}) \cap Object)
vm_gc_mark_no_stack == MarkFrom(TableRoots \cap Object)
vm_gc_mark_last_frame ==
  MarkFrom((StackRoots \cup {LastFrame[x] : x \in Name}) \cap Object)
vm_gc_mark_no_tables == MarkFrom(StackRoots \cap Object)

\* Mutant: CODE_PUSH_ARRAY has taken its elements off the stack already.
vm_gc_mark_elements_popped ==
  \E n \in 0 .. Len(stack) :
    MarkFrom((TableRoots \cup {stack[k] : k \in 1 .. Len(stack) - n}) \cap Object)

vm_gc_mark == MarkFrom(Roots)

\* The loop body's effect on the heap array when slot i holds an unmarked
\* object: the last used slot is moved into i, and i is not looked at again.
\* Mutant: the slot it came from is not cleared.
Compacted_uncleared(i) == [heap EXCEPT ![i] = heap[next_free_slot - 1]]

Compacted(i) == [heap EXCEPT ![i] = heap[next_free_slot - 1],
                             ![next_free_slot - 1] = NULL]

\* Mutant: the mark is not taken back.
Spare_keeps_mark(o) ==
  /\ marked[o]
  /\ UNCHANGED <<heap, next_free_slot, marked, live, vec>>

\* The object in the slot is marked.
Spare(o) ==
  /\ marked[o]
  /\ marked' = [marked EXCEPT ![o] = FALSE]
  /\ UNCHANGED <<heap, next_free_slot, live, vec>>

\* It is not; free it.
object_destroy(o) ==
  /\ ~marked[o]
  /\ live' = live \ {o}
  /\ vec' = [vec EXCEPT ![o] = <<>>]
  /\ next_free_slot' = next_free_slot - 1
  /\ heap' = Compacted(slot)
  /\ UNCHANGED marked

\* One iteration of the loop in object_sweep.
object_sweep ==
  /\ phase = "sweep"
  /\ IF heap[slot] = NULL
     THEN UNCHANGED <<heap, next_free_slot, marked, live, vec>>
     ELSE Spare(heap[slot]) \/ object_destroy(heap[slot])
  /\ slot' = slot + 1
  /\ phase' = IF slot + 1 < HeapSize THEN "sweep" ELSE "swept"
  /\ UNCHANGED rootVars

-----------------------------------------------------------------------------
(* The rest of the mutator: what vm.c does to the roots without creating   *)
(* an object.  `stops` says that the instruction also left the loop.       *)

noHeapChange == UNCHANGED <<heap, next_free_slot, marked, live, vec, slot>>

\* stack_len -= argc before a native call, and the pop of a condition.
Drop(n, stops) ==
  /\ phase = "run"
  /\ n <= Len(stack)
  /\ stack' = Dropped(stack, n)
  /\ phase' = IF stops THEN "stopped" ELSE "run"
  /\ UNCHANGED frames
  /\ noHeapChange

\* Mutant: the lookup error is not raised.
Lookup_unchecked(x) ==
  /\ phase = "run"
  /\ stack' = Pushed(stack, IF LastFrame[x] \in Object THEN LastFrame[x] ELSE NULL)
  /\ UNCHANGED <<frames, phase>>
  /\ noHeapChange

\* CODE_PUSH_LOOKUP pushes what Map_get returned even when that is the
\* not-found value, and then stops with a LookupErr.
Lookup(x) ==
  /\ phase = "run"
  /\ LET found == LastFrame[x] \in Object
     IN  /\ stack' = Pushed(stack, IF found THEN LastFrame[x] ELSE NULL)
         /\ phase' = IF found THEN "run" ELSE "stopped"
  /\ UNCHANGED frames
  /\ noHeapChange

\* CODE_ASSIGN does not check what vm_stack_pop returned.
Assign(x) ==
  /\ phase = "run"
  /\ frames' = [frames EXCEPT ![Len(frames)][x] = TopOrNull]
  /\ stack' = Popped
  /\ UNCHANGED phase
  /\ noHeapChange

\* vm_add_stack_frame, for a call of a defined function.
Call ==
  /\ phase = "run"
  /\ Len(frames) < MaxFrames
  /\ frames' = Append(frames, EmptyTable)
  /\ UNCHANGED <<stack, phase>>
  /\ noHeapChange

\* CODE_RET; the code of the root function contains none.
Ret ==
  /\ phase = "run"
  /\ Len(frames) > 1
  /\ frames' = Dropped(frames, 1)
  /\ UNCHANGED <<stack, phase>>
  /\ noHeapChange

\* derp_vm_run leaves its loop, at the end of the code or with an error.
Stop ==
  /\ phase = "run"
  /\ phase' = "stopped"
  /\ UNCHANGED rootVars
  /\ noHeapChange

\* The process dies in an instruction or in the backtrace.
Die ==
  /\ phase \in {"run", "swept", "stopped"}
  /\ phase' = "crashed"
  /\ UNCHANGED rootVars
  /\ noHeapChange

\* The backtrace pops the frames with vm_call_stack_pop.
Unwind ==
  /\ phase = "stopped"
  /\ frames # <<>>
  /\ frames' = Dropped(frames, 1)
  /\ UNCHANGED <<stack, phase>>
  /\ noHeapChange

-----------------------------------------------------------------------------
\* derp_vm_create: an empty stack and one frame; the heap is allocated by the
\* first object_create, with every slot NULL.
Init ==
  /\ heap = [s \in Slot |-> NULL]
  /\ next_free_slot = 0
  /\ marked = [o \in Object |-> FALSE]
  /\ live = {}
  /\ vec = [o \in Object |-> <<>>]
  /\ stack = <<>>
  /\ frames = <<EmptyTable>>
  /\ phase = "run"
  /\ slot = 0

Create ==
  \E o \in Object, m \in BOOLEAN :
    \/ PushNew(o, m)
    \/ PushResult(o, m)
    \/ \E n \in 0 .. StackHeight : PushArray(o, m, n)

Collect == vm_gc_mark \/ object_sweep \/ CreateFailed

MoveRoots ==
  \/ \E n \in 0 .. StackHeight, stops \in BOOLEAN : Drop(n, stops)
  \/ \E x \in Name : Lookup(x) \/ Assign(x)
  \/ Call
  \/ Ret

Leave == Stop \/ Die \/ Unwind

Next == Create \/ Collect \/ MoveRoots \/ Leave

Spec == Init /\ [][Next]_vars

\* A collection that began runs to its end: it is a loop in the thread that
\* called object_create.  Nothing makes a program create another object.
FairSpec == Spec /\ WF_vars(object_sweep)

-----------------------------------------------------------------------------
(* Properties.                                                             *)

\* The types of the variables.
TypeOK ==
  /\ heap \in [Slot -> Cell]
  /\ next_free_slot \in 0 .. HeapSize
  /\ marked \in [Object -> BOOLEAN]
  /\ live \subseteq Object
  /\ vec \in [Object -> Seq(Cell)]
  /\ stack \in Seq(Cell)
  /\ Len(stack) <= StackHeight
  /\ frames \in Seq(Table)
  /\ phase \in Phase
  /\ slot \in 0 .. HeapSize

\* object.c: the used slots are exactly those below next_free_slot, also in
\* the middle of a sweep, and no object occupies two of them (it would be
\* freed twice) or stays in one after it was freed.
HeapShape ==
  /\ \A s \in Slot : heap[s] = NULL <=> s >= next_free_slot
  /\ \A s, t \in Slot : heap[s] = heap[t] /\ heap[s] # NULL => s = t
  /\ HeapObjects \subseteq live

\* vm_gc_mark and object_sweep: no object that a stack cell or a variable of
\* any frame points to has been freed, at any point of a collection.
RootsLive == Roots \subseteq live

\* CODE_PUSH_ARRAY: an array begins with elements none of which has been freed,
\* although the collection that made room for it may have run before.
ArraysBeginWhole == [][\A o \in live' \ live : Elements(o)' \subseteq live']_vars

\* object_sweep: every root in a slot the loop has still to examine carries
\* its mark, although slots are refilled from the end of the heap meanwhile.
PendingRootsMarked ==
  phase = "sweep" =>
    \A s \in Slot : s >= slot /\ heap[s] \in Roots => marked[heap[s]]

\* vm.c: a running program has no null pointer on its stack (a failed lookup
\* stops it), so a null root is always a variable assigned from an empty
\* stack.
NullOnlyInVariables ==
  phase \notin {"stopped", "crashed"} => NULL \notin StackRoots

\* The object heap keeps the promise of Collector.tla.
Abstract == INSTANCE Collector WITH roots <- Roots
ImplementsCollector == Abstract!Spec

\* object_sweep leaves garbage behind: it skips the object it moves into a
\* freed slot and spares objects with an old mark.  But no garbage is spared
\* forever: if collections go on, each unreferenced object is freed.
GarbageReclaimed ==
  []<>(phase = "sweep") =>
    \A o \in Object : (o \in HeapObjects \ Roots) ~> (o \notin HeapObjects)
=============================================================================
