-------------------------- MODULE ObjectHeapProofs --------------------------
(***************************************************************************)
(* Proofs about ObjectHeap.tla for every heap size, stack height, number   *)
(* of frames and set of objects.                                           *)
(*                                                                         *)
(* RootsLive is not inductive: a sweep frees what is unmarked, so roots    *)
(* must be marked where the loop has still to go (PendingRootsMarked);     *)
(* that survives the compaction only because no object is in two slots     *)
(* (HeapShape); and a frame must be there to look names up in (Control).   *)
(***************************************************************************)
EXTENDS ObjectHeap, TLAPS

\* Where control is: the loop index of a sweep is in range, and a frame is on
\* the call stack until the backtrace removes it.
Control ==
  /\ phase = "sweep" => slot \in Slot
  /\ phase \in {"run", "sweep", "swept"} => Len(frames) >= 1

IInv ==
  /\ TypeOK
  /\ Control
  /\ HeapShape
  /\ RootsLive
  /\ PendingRootsMarked
  /\ NullOnlyInVariables

CellsOf(stk) == {stk[k] : k \in DOMAIN stk}

-----------------------------------------------------------------------------
(* The stack helpers.                                                      *)

\* vm_stack_push: a push keeps the type of the stack and adds at most the
\* object pushed.
LEMMA PushedCells ==
  ASSUME NEW S, NEW stk \in Seq(S), NEW c \in S
  PROVE  /\ Pushed(stk, c) \in Seq(S)
         /\ CellsOf(Pushed(stk, c)) \subseteq CellsOf(stk) \cup {c}
<1>1. CASE Len(stk) >= StackHeight
  BY <1>1 DEF Pushed, CellsOf
<1>2. CASE ~(Len(stk) >= StackHeight)
  <2>1. Pushed(stk, c) = Append(stk, c)
    BY <1>2 DEF Pushed
  <2>2. \A k \in DOMAIN Append(stk, c) :
           Append(stk, c)[k] = c \/ (k \in DOMAIN stk /\ Append(stk, c)[k] = stk[k])
    OBVIOUS
  <2>3. QED
    BY <2>1, <2>2 DEF CellsOf
<1>3. QED
  BY <1>1, <1>2

\* stack_len -= n: what is left was there before.
LEMMA DroppedCells ==
  ASSUME NEW S, NEW stk \in Seq(S), NEW n \in Nat, n <= Len(stk)
  PROVE  /\ Dropped(stk, n) \in Seq(S)
         /\ Len(Dropped(stk, n)) = Len(stk) - n
         /\ \A k \in DOMAIN Dropped(stk, n) :
               k \in DOMAIN stk /\ Dropped(stk, n)[k] = stk[k]
         /\ CellsOf(Dropped(stk, n)) \subseteq CellsOf(stk)
<1>1. /\ Dropped(stk, n) \in Seq(S)
      /\ Len(Dropped(stk, n)) = Len(stk) - n
  BY DEF Dropped
<1>2. \A k \in DOMAIN Dropped(stk, n) :
         k \in DOMAIN stk /\ Dropped(stk, n)[k] = stk[k]
  BY DEF Dropped
<1>3. QED
  BY <1>1, <1>2 DEF CellsOf

\* CODE_PUSH_ARRAY: the elements taken from the stack are cells.
LEMMA TopCells ==
  ASSUME NEW S, NEW stk \in Seq(S), NEW n \in Nat, n <= Len(stk)
  PROVE  Top(stk, n) \in Seq(S)
BY DEF Top

\* What is a root is a cell of the stack or of a symbol table.
LEMMA RootsFromCells ==
  Roots = (CellsOf(stack) \cup TableRoots) \cap Object
BY DEF Roots, StackRoots, CellsOf

\* A name looked up in a frame, and the cell vm_stack_pop returns.
LEMMA CellsRead ==
  ASSUME TypeOK
  PROVE  /\ TopOrNull \in Cell
         /\ TopOrNull \in CellsOf(stack) \cup {NULL}
         /\ Popped \in Seq(Cell)
         /\ CellsOf(Popped) \subseteq CellsOf(stack)
<1>1. CASE stack = <<>>
  BY <1>1 DEF TypeOK, TopOrNull, Popped, Cell, CellsOf
<1>2. CASE stack # <<>>
  <2>1. 1 <= Len(stack) /\ Len(stack) \in DOMAIN stack
    BY <1>2 DEF TypeOK
  <2>2. TopOrNull = stack[Len(stack)] /\ Popped = Dropped(stack, 1)
    BY <1>2 DEF TopOrNull, Popped
  <2>3. QED
    BY <2>1, <2>2, DroppedCells DEF TypeOK, CellsOf
<1>3. QED
  BY <1>1, <1>2

\* vm_stack_push, vm_stack_pop and stack_len -= n: the stack stays within its
\* array.
LEMMA StackFits ==
  ASSUME TypeOK, Create \/ MoveRoots
  PROVE  Len(stack') <= StackHeight
<1> USE HeapAssumption
<1>1. stack \in Seq(Cell) /\ Len(stack) <= StackHeight
  BY DEF TypeOK
<1>2. \A n \in Nat : n <= Len(stack) =>
        /\ Dropped(stack, n) \in Seq(Cell)
        /\ Len(Dropped(stack, n)) <= StackHeight
  BY <1>1, DroppedCells
<1>3. \A stk \in Seq(Cell), c \in Cell :
        Len(stk) <= StackHeight => Len(Pushed(stk, c)) <= StackHeight
  BY DEF Pushed
<1>4. Len(Popped) <= StackHeight
  <2>1. CASE stack = <<>>
    BY <1>1, <2>1 DEF Popped
  <2>2. CASE stack # <<>>
    <3>1. 1 \in Nat /\ 1 <= Len(stack)
      BY <1>1, <2>2
    <3>2. QED
      BY <1>2, <2>2, <3>1 DEF Popped
  <2>3. QED
    BY <2>1, <2>2
<1>5. CASE Create
  <2>1. PICK o \in Object, m \in BOOLEAN :
          \/ PushNew(o, m)
          \/ PushResult(o, m)
          \/ \E n \in 0 .. StackHeight : PushArray(o, m, n)
    BY <1>5 DEF Create
  <2>2. o \in Cell
    BY DEF Cell
  <2>3. \/ stack' = Pushed(stack, o)
        \/ \E n \in Nat : n <= Len(stack) /\ stack' = Pushed(Dropped(stack, n), o)
    <3>1. CASE PushNew(o, m)
      BY <3>1 DEF PushNew
    <3>2. CASE PushResult(o, m)
      BY <1>1, <3>2 DEF PushResult
    <3>3. CASE \E n \in 0 .. StackHeight : PushArray(o, m, n)
      BY <3>3 DEF PushArray
    <3>4. QED
      BY <2>1, <3>1, <3>2, <3>3
  <2>4. QED
    BY <1>1, <1>2, <1>3, <2>2, <2>3
<1>6. CASE MoveRoots
  <2>1. \/ stack' = stack
        \/ \E n \in Nat : n <= Len(stack) /\ stack' = Dropped(stack, n)
        \/ \E c \in Cell : stack' = Pushed(stack, c)
        \/ stack' = Popped
    <3>1. CASE \E n \in 0 .. StackHeight, stops \in BOOLEAN : Drop(n, stops)
      BY <3>1 DEF Drop
    <3>2. CASE \E x \in Name : Lookup(x)
      BY <3>2 DEF Lookup, Cell
    <3>3. CASE (\E x \in Name : Assign(x)) \/ Call \/ Ret
      BY <3>3 DEF Assign, Call, Ret
    <3>4. QED
      BY <1>6, <3>1, <3>2, <3>3 DEF MoveRoots
  <2>2. QED
    BY <1>1, <1>2, <1>3, <1>4, <2>1
<1>7. QED
  BY <1>5, <1>6

-----------------------------------------------------------------------------
(* Steps that create an object.                                            *)

\* object_create fills the first free slot with a new object and leaves every
\* other slot alone.
LEMMA CreateHeap ==
  ASSUME TypeOK, Control, HeapShape,
         NEW o \in Object, NEW m \in BOOLEAN, NEW elems \in Seq(Cell),
         object_create(o, m, elems)
  PROVE  /\ heap' \in [Slot -> Cell]
         /\ next_free_slot' \in 0 .. HeapSize
         /\ marked' \in [Object -> BOOLEAN]
         /\ vec' \in [Object -> Seq(Cell)]
         /\ live' = live \cup {o}
         /\ phase' = "run"
         /\ slot' = slot
         /\ HeapShape'
<1>1. next_free_slot \in Slot
  BY HeapAssumption DEF object_create, HasSlot, TypeOK, Slot
<1>2. /\ heap' = [heap EXCEPT ![next_free_slot] = o]
      /\ next_free_slot' = next_free_slot + 1
      /\ live' = live \cup {o}
      /\ o \notin live
  BY DEF object_create
<1>3. heap' \in [Slot -> Cell]
  BY <1>1, <1>2 DEF TypeOK, Cell
<1>4. next_free_slot' \in 0 .. HeapSize
  BY <1>1, <1>2, HeapAssumption DEF Slot
<1>5. /\ marked' \in [Object -> BOOLEAN]
      /\ vec' \in [Object -> Seq(Cell)]
  BY DEF object_create, TypeOK
<1>6. HeapShape'
  <2>1. \A s \in Slot : heap'[s] = IF s = next_free_slot THEN o ELSE heap[s]
    BY <1>1, <1>2 DEF TypeOK
  <2>2. o # NULL /\ \A s \in Slot : heap[s] # o
    BY <1>2, HeapAssumption DEF HeapShape, HeapObjects
  <2>3. \A s \in Slot : heap'[s] = NULL <=> s >= next_free_slot'
    BY <1>1, <1>2, <2>1, <2>2, HeapAssumption DEF HeapShape, Slot, TypeOK
  <2>4. \A s, t \in Slot : heap'[s] = heap'[t] /\ heap'[s] # NULL => s = t
    BY <2>1, <2>2 DEF HeapShape
  <2>5. HeapObjects' \subseteq live'
    BY <1>2, <2>1 DEF HeapShape, HeapObjects
  <2>6. QED
    BY <2>3, <2>4, <2>5 DEF HeapShape
<1>7. QED
  BY <1>2, <1>3, <1>4, <1>5, <1>6 DEF object_create

\* An object that is created and pushed is live, and no other object becomes a
\* root.
LEMMA CreateStep ==
  ASSUME IInv, Create
  PROVE  IInv' /\ Abstract!Next
<1> USE HeapAssumption
<1>1. PICK o \in Object, m \in BOOLEAN :
        \/ PushNew(o, m)
        \/ PushResult(o, m)
        \/ \E n \in 0 .. StackHeight : PushArray(o, m, n)
  BY DEF Create
<1>2. /\ o \notin live
      /\ live' = live \cup {o}
      /\ phase' = "run"
      /\ slot' = slot
      /\ frames' = frames
      /\ stack' \in Seq(Cell)
      /\ CellsOf(stack') \subseteq CellsOf(stack) \cup {o}
      /\ heap' \in [Slot -> Cell]
      /\ next_free_slot' \in 0 .. HeapSize
      /\ marked' \in [Object -> BOOLEAN]
      /\ vec' \in [Object -> Seq(Cell)]
      /\ HeapShape'
      /\ phase \in {"run", "swept"}
  <2>0. TypeOK /\ Control /\ HeapShape /\ o \in Cell /\ stack \in Seq(Cell)
    BY DEF IInv, TypeOK, Cell
  <2>1. CASE PushNew(o, m)
    <3>1. object_create(o, m, <<>>) /\ stack' = Pushed(stack, o) /\ frames' = frames
      BY <2>1 DEF PushNew
    <3>2. <<>> \in Seq(Cell)
      OBVIOUS
    <3>3. o \notin live /\ phase \in {"run", "swept"}
      BY <3>1 DEF object_create
    <3>4. /\ heap' \in [Slot -> Cell]
          /\ next_free_slot' \in 0 .. HeapSize
          /\ marked' \in [Object -> BOOLEAN]
          /\ vec' \in [Object -> Seq(Cell)]
          /\ live' = live \cup {o}
          /\ phase' = "run"
          /\ slot' = slot
          /\ HeapShape'
      BY <2>0, <3>1, <3>2, CreateHeap
    <3>5. /\ stack' \in Seq(Cell)
          /\ CellsOf(stack') \subseteq CellsOf(stack) \cup {o}
      BY <2>0, <3>1, PushedCells
    <3>6. QED
      BY <3>1, <3>3, <3>4, <3>5
  <2>2. CASE PushResult(o, m)
    <3>1. /\ o \notin live
          /\ phase = "run"
          /\ 2 <= Len(stack)
          /\ stack' = Pushed(Dropped(stack, 2), o)
          /\ UNCHANGED <<heap, next_free_slot, frames, phase, slot>>
          /\ live' = live \cup {o}
      BY <2>2 DEF PushResult
    <3>2. /\ Dropped(stack, 2) \in Seq(Cell)
          /\ CellsOf(Dropped(stack, 2)) \subseteq CellsOf(stack)
      BY <2>0, <3>1, DroppedCells
    <3>3. /\ stack' \in Seq(Cell)
          /\ CellsOf(stack') \subseteq CellsOf(stack) \cup {o}
      BY <2>0, <3>1, <3>2, PushedCells
    <3>4. HeapShape'
      BY <2>0, <3>1 DEF HeapShape, HeapObjects
    <3>5. /\ marked' \in [Object -> BOOLEAN]
          /\ vec' \in [Object -> Seq(Cell)]
      BY <2>0, <2>2 DEF PushResult, TypeOK
    <3>6. heap' \in [Slot -> Cell] /\ next_free_slot' \in 0 .. HeapSize
      BY <2>0, <3>1 DEF TypeOK
    <3>7. QED
      BY <3>1, <3>3, <3>4, <3>5, <3>6
  <2>3. CASE \E n \in 0 .. StackHeight : PushArray(o, m, n)
    <3>1. PICK n \in 0 .. StackHeight : PushArray(o, m, n)
      BY <2>3
    <3>2. /\ n \in Nat
          /\ n <= Len(stack)
          /\ object_create(o, m, Top(stack, n))
          /\ stack' = Pushed(Dropped(stack, n), o)
          /\ frames' = frames
      BY <3>1 DEF PushArray
    <3>3. Top(stack, n) \in Seq(Cell)
      BY <2>0, <3>2, TopCells
    <3>4. /\ Dropped(stack, n) \in Seq(Cell)
          /\ CellsOf(Dropped(stack, n)) \subseteq CellsOf(stack)
      BY <2>0, <3>2, DroppedCells
    <3>5. /\ stack' \in Seq(Cell)
          /\ CellsOf(stack') \subseteq CellsOf(stack) \cup {o}
      BY <2>0, <3>2, <3>4, PushedCells
    <3>6. o \notin live /\ phase \in {"run", "swept"}
      BY <3>2 DEF object_create
    <3>7. /\ heap' \in [Slot -> Cell]
          /\ next_free_slot' \in 0 .. HeapSize
          /\ marked' \in [Object -> BOOLEAN]
          /\ vec' \in [Object -> Seq(Cell)]
          /\ live' = live \cup {o}
          /\ phase' = "run"
          /\ slot' = slot
          /\ HeapShape'
      BY <2>0, <3>2, <3>3, CreateHeap
    <3>8. QED
      BY <3>2, <3>5, <3>6, <3>7
  <2>4. QED
    BY <1>1, <2>1, <2>2, <2>3
<1>3. Roots' \subseteq Roots \cup {o}
  <2>1. TableRoots' = TableRoots
    BY <1>2 DEF TableRoots
  <2>2. QED
    BY <1>2, <2>1 DEF Roots, StackRoots, CellsOf
<1>4. TypeOK'
  BY <1>2, StackFits DEF IInv, TypeOK, Phase
<1>5. Control'
  BY <1>2 DEF IInv, Control
<1>6. RootsLive'
  BY <1>2, <1>3 DEF IInv, RootsLive
<1>7. PendingRootsMarked'
  BY <1>2 DEF PendingRootsMarked
<1>8. NullOnlyInVariables'
  BY <1>2 DEF IInv, NullOnlyInVariables, StackRoots, CellsOf
<1>9. Abstract!Next
  BY <1>2, <1>3 DEF Abstract!Next, Abstract!New
<1>10. QED
  BY <1>2, <1>4, <1>5, <1>6, <1>7, <1>8, <1>9 DEF IInv

-----------------------------------------------------------------------------
(* The collection.                                                         *)

\* vm_gc_mark leaves every root marked.
LEMMA MarkStep ==
  ASSUME IInv, vm_gc_mark
  PROVE  IInv' /\ UNCHANGED Abstract!vars
<1> USE HeapAssumption
<1>1. /\ UNCHANGED <<heap, next_free_slot, live, vec, stack, frames>>
      /\ phase = "run"
      /\ phase' \in {"crashed", "sweep"}
      /\ phase' = "sweep" =>
            slot' = 0 /\ marked' = [o \in Object |-> marked[o] \/ o \in Roots]
      /\ phase' = "crashed" => UNCHANGED <<marked, slot>>
  BY DEF vm_gc_mark, MarkFrom
<1>2. Roots' = Roots
  BY <1>1 DEF Roots, StackRoots, TableRoots
<1>3. marked' \in [Object -> BOOLEAN]
  <2>1. CASE phase' = "sweep"
    <3>1. \A o \in Object : (marked[o] \/ o \in Roots) \in BOOLEAN
      OBVIOUS
    <3>2. QED
      BY <1>1, <2>1, <3>1
  <2>2. CASE phase' = "crashed"
    BY <1>1, <2>2 DEF IInv, TypeOK
  <2>3. QED
    BY <1>1, <2>1, <2>2
<1>4. slot' \in 0 .. HeapSize /\ (phase' = "sweep" => slot' \in Slot)
  BY <1>1 DEF IInv, TypeOK, Slot
<1>5. TypeOK'
  BY <1>1, <1>3, <1>4 DEF IInv, TypeOK, Phase
<1>6. Control'
  BY <1>1, <1>4 DEF IInv, Control
<1>7. HeapShape' /\ RootsLive'
  BY <1>1, <1>2 DEF IInv, HeapShape, HeapObjects, RootsLive
<1>8. PendingRootsMarked'
  BY <1>1, <1>2 DEF PendingRootsMarked, Roots
<1>9. NullOnlyInVariables'
  BY <1>1 DEF IInv, NullOnlyInVariables, StackRoots
<1>10. UNCHANGED Abstract!vars
  BY <1>1, <1>2 DEF Abstract!vars
<1>11. QED
  BY <1>5, <1>6, <1>7, <1>8, <1>9, <1>10 DEF IInv

\* The iteration of object_sweep that frees an object: it was no root, the
\* heap stays compact, and what is refilled from the end is still marked.
LEMMA SweepFrees ==
  ASSUME IInv, object_sweep, heap[slot] # NULL, ~marked[heap[slot]]
  PROVE  /\ heap' \in [Slot -> Cell]
         /\ next_free_slot' \in 0 .. HeapSize
         /\ vec' \in [Object -> Seq(Cell)]
         /\ heap[slot] \in live \ Roots
         /\ live' = live \ {heap[slot]}
         /\ marked' = marked
         /\ HeapShape'
         /\ \A s \in Slot : s > slot => heap'[s] \in {heap[s], NULL}
<1> USE HeapAssumption
<1>1. slot \in Slot /\ next_free_slot \in 0 .. HeapSize /\ heap \in [Slot -> Cell]
  BY DEF IInv, TypeOK, Control, object_sweep
<1>2. /\ live' = live \ {heap[slot]}
      /\ vec' = [vec EXCEPT ![heap[slot]] = <<>>]
      /\ next_free_slot' = next_free_slot - 1
      /\ heap' = Compacted(slot)
      /\ marked' = marked
      /\ phase = "sweep"
  BY DEF object_sweep, Spare, object_destroy
<1>3. slot < next_free_slot
  BY <1>1 DEF IInv, HeapShape, Slot
<1> DEFINE last == next_free_slot - 1
<1>4. last \in Slot /\ slot <= last
  BY <1>1, <1>3 DEF Slot
<1>5. \A s \in Slot : heap'[s] = IF s = last THEN NULL
                                 ELSE IF s = slot THEN heap[last] ELSE heap[s]
  BY <1>1, <1>2, <1>4 DEF Compacted
<1>6. heap' \in [Slot -> Cell]
  BY <1>1, <1>2, <1>4 DEF Compacted, Cell
<1>7. next_free_slot' \in 0 .. HeapSize
  BY <1>1, <1>2, <1>4 DEF Slot
<1>8. vec' \in [Object -> Seq(Cell)]
  <2>1. <<>> \in Seq(Cell)
    OBVIOUS
  <2>2. QED
    BY <1>2, <2>1 DEF IInv, TypeOK
<1>9. heap[slot] \in live \ Roots
  <2>1. heap[slot] \in live
    BY <1>1 DEF IInv, HeapShape, HeapObjects, Cell
  <2>2. heap[slot] \notin Roots
    BY <1>1, <1>2 DEF IInv, PendingRootsMarked, Slot
  <2>3. QED
    BY <2>1, <2>2
<1>10. HeapShape'
  <2>1. \A s \in Slot : heap[s] = NULL <=> s >= next_free_slot
    BY DEF IInv, HeapShape
  <2>2. \A s, t \in Slot : heap[s] = heap[t] /\ heap[s] # NULL => s = t
    BY DEF IInv, HeapShape
  <2>3. \A s \in Slot : heap'[s] = NULL <=> s >= last
    BY <1>1, <1>4, <1>5, <2>1 DEF Slot
  <2>4. \A s, t \in Slot : heap'[s] = heap'[t] /\ heap'[s] # NULL => s = t
    BY <1>4, <1>5, <2>2
  <2>5. \A s \in Slot : heap'[s] # heap[slot]
    BY <1>1, <1>4, <1>5, <2>2
  <2>6. \A s \in Slot : heap'[s] \in Object => heap'[s] \in live
    BY <1>4, <1>5 DEF IInv, HeapShape, HeapObjects
  <2>7. HeapObjects' \subseteq live'
    BY <1>2, <2>5, <2>6 DEF HeapObjects
  <2>8. QED
    BY <1>2, <2>3, <2>4, <2>7 DEF HeapShape
<1>11. \A s \in Slot : s > slot => heap'[s] \in {heap[s], NULL}
  BY <1>1, <1>5 DEF Slot
<1>12. QED
  BY <1>2, <1>6, <1>7, <1>8, <1>9, <1>10, <1>11

\* Each iteration keeps the roots, and is a Reclaim of the collector if it
\* frees an object.
LEMMA SweepStep ==
  ASSUME IInv, object_sweep
  PROVE  IInv' /\ [Abstract!Next]_(Abstract!vars)
<1> USE HeapAssumption
<1>1. /\ phase = "sweep"
      /\ slot \in Slot
      /\ slot' = slot + 1
      /\ phase' = IF slot + 1 < HeapSize THEN "sweep" ELSE "swept"
      /\ stack' = stack
      /\ frames' = frames
  BY DEF object_sweep, rootVars, IInv, Control
<1>2. Roots' = Roots /\ StackRoots' = StackRoots
  BY <1>1 DEF Roots, StackRoots, TableRoots
<1>3. /\ slot' \in 0 .. HeapSize
      /\ phase' \in {"sweep", "swept"}
      /\ phase' = "sweep" => slot' \in Slot
  BY <1>1 DEF Slot
<1>4. Control' /\ NullOnlyInVariables'
  BY <1>1, <1>2, <1>3 DEF IInv, Control, NullOnlyInVariables
<1>5. CASE heap[slot] # NULL /\ ~marked[heap[slot]]
  <2>1. /\ heap' \in [Slot -> Cell]
        /\ next_free_slot' \in 0 .. HeapSize
        /\ vec' \in [Object -> Seq(Cell)]
        /\ heap[slot] \in live \ Roots
        /\ live' = live \ {heap[slot]}
        /\ marked' = marked
        /\ HeapShape'
        /\ \A s \in Slot : s > slot => heap'[s] \in {heap[s], NULL}
    BY <1>5, SweepFrees
  <2>2. TypeOK'
    BY <1>1, <1>3, <2>1 DEF IInv, TypeOK, Phase
  <2>3. RootsLive'
    BY <1>2, <2>1 DEF IInv, RootsLive
  <2>4. PendingRootsMarked'
    <3> SUFFICES ASSUME NEW s \in Slot, s >= slot', heap'[s] \in Roots
                 PROVE  marked'[heap'[s]]
      BY <1>2 DEF PendingRootsMarked
    <3>1. s > slot /\ s >= slot
      BY <1>1 DEF Slot
    <3>2. heap'[s] = heap[s]
      BY <2>1, <3>1 DEF Roots
    <3>3. QED
      BY <1>1, <2>1, <3>1, <3>2 DEF IInv, PendingRootsMarked
  <2>5. Abstract!Next
    <3>1. heap[slot] \in Object
      BY <2>1 DEF IInv, TypeOK
    <3>2. QED
      BY <1>2, <2>1, <3>1 DEF Abstract!Next, Abstract!Reclaim
  <2>6. QED
    BY <1>4, <2>1, <2>2, <2>3, <2>4, <2>5 DEF IInv
<1>6. CASE heap[slot] # NULL /\ marked[heap[slot]]
  <2>1. /\ marked' = [marked EXCEPT ![heap[slot]] = FALSE]
        /\ UNCHANGED <<heap, next_free_slot, live, vec>>
    BY <1>6 DEF object_sweep, Spare, object_destroy
  <2>2. TypeOK'
    BY <1>1, <1>3, <2>1 DEF IInv, TypeOK, Phase
  <2>3. HeapShape' /\ RootsLive'
    BY <1>2, <2>1 DEF IInv, HeapShape, HeapObjects, RootsLive
  <2>4. PendingRootsMarked'
    <3> SUFFICES ASSUME NEW s \in Slot, s >= slot', heap[s] \in Roots
                 PROVE  marked'[heap[s]]
      BY <1>2, <2>1 DEF PendingRootsMarked
    <3>1. s >= slot /\ s # slot
      BY <1>1 DEF Slot
    <3>2. heap[s] # heap[slot]
      BY <1>1, <1>6, <3>1 DEF IInv, HeapShape
    <3>3. marked[heap[s]] /\ heap[s] \in Object
      BY <1>1, <3>1 DEF IInv, PendingRootsMarked, Roots
    <3>4. QED
      BY <2>1, <3>2, <3>3 DEF IInv, TypeOK
  <2>5. UNCHANGED Abstract!vars
    BY <1>2, <2>1 DEF Abstract!vars
  <2>6. QED
    BY <1>4, <2>2, <2>3, <2>4, <2>5 DEF IInv
<1>7. CASE heap[slot] = NULL
  <2>1. UNCHANGED <<heap, next_free_slot, marked, live, vec>>
    BY <1>7 DEF object_sweep
  <2>2. TypeOK'
    BY <1>1, <1>3, <2>1 DEF IInv, TypeOK, Phase
  <2>3. HeapShape' /\ RootsLive'
    BY <1>2, <2>1 DEF IInv, HeapShape, HeapObjects, RootsLive
  <2>4. PendingRootsMarked'
    <3> SUFFICES ASSUME NEW s \in Slot, s >= slot', heap[s] \in Roots
                 PROVE  marked[heap[s]]
      BY <1>2, <2>1 DEF PendingRootsMarked
    <3>1. s >= slot
      BY <1>1 DEF Slot
    <3>2. QED
      BY <1>1, <3>1 DEF IInv, PendingRootsMarked
  <2>5. UNCHANGED Abstract!vars
    BY <1>2, <2>1 DEF Abstract!vars
  <2>6. QED
    BY <1>4, <2>2, <2>3, <2>4, <2>5 DEF IInv
<1>8. QED
  BY <1>5, <1>6, <1>7

-----------------------------------------------------------------------------
(* The rest of the mutator.                                                *)

\* Steps that leave the heap alone and add no root keep the invariant, and
\* are a Forget of the collector.
LEMMA ForgetStep ==
  ASSUME IInv,
         UNCHANGED <<heap, next_free_slot, marked, live, vec, slot>>,
         stack' \in Seq(Cell),
         Len(stack') <= StackHeight,
         frames' \in Seq(Table),
         Roots' \subseteq Roots,
         phase' \in {"run", "stopped", "crashed"},
         phase' = "run" => Len(frames') >= 1 /\ NULL \notin StackRoots'
  PROVE  IInv' /\ Abstract!Next
<1>1. TypeOK'
  BY DEF IInv, TypeOK, Phase
<1>2. Control'
  BY DEF Control
<1>3. HeapShape'
  BY DEF IInv, HeapShape, HeapObjects
<1>4. RootsLive'
  BY DEF IInv, RootsLive
<1>5. PendingRootsMarked' /\ NullOnlyInVariables'
  BY DEF PendingRootsMarked, NullOnlyInVariables
<1>6. Abstract!Next
  BY DEF Abstract!Next, Abstract!Forget
<1>7. QED
  BY <1>1, <1>2, <1>3, <1>4, <1>5, <1>6 DEF IInv

\* Drops, lookups, assignments, calls and returns.
LEMMA MoveRootsStep ==
  ASSUME IInv, MoveRoots
  PROVE  IInv' /\ Abstract!Next
<1> USE HeapAssumption
<1>0. Len(stack') <= StackHeight
  BY StackFits DEF IInv
<1>1. /\ phase = "run"
      /\ UNCHANGED <<heap, next_free_slot, marked, live, vec, slot>>
  BY DEF MoveRoots, Drop, Lookup, Assign, Call, Ret, noHeapChange
<1>2. /\ stack \in Seq(Cell)
      /\ frames \in Seq(Table)
      /\ Len(frames) >= 1
      /\ NULL \notin StackRoots
  BY <1>1 DEF IInv, TypeOK, Control, NullOnlyInVariables
<1>3. LastFrame \in Table /\ Len(frames) \in DOMAIN frames
  BY <1>2 DEF LastFrame
<1>4. CASE \E n \in 0 .. StackHeight, stops \in BOOLEAN : Drop(n, stops)
  <2>1. PICK n \in 0 .. StackHeight, stops \in BOOLEAN : Drop(n, stops)
    BY <1>4
  <2>2. /\ n \in Nat
        /\ n <= Len(stack)
        /\ stack' = Dropped(stack, n)
        /\ frames' = frames
        /\ phase' \in {"run", "stopped"}
    BY <2>1 DEF Drop
  <2>3. stack' \in Seq(Cell) /\ StackRoots' \subseteq StackRoots
    BY <1>2, <2>2, DroppedCells DEF StackRoots, CellsOf
  <2>4. Roots' \subseteq Roots
    BY <2>2, <2>3 DEF Roots, TableRoots
  <2>5. QED
    BY <1>0, <1>1, <1>2, <2>2, <2>3, <2>4, ForgetStep
<1>5. ASSUME NEW x \in Name, Lookup(x)
      PROVE  IInv' /\ Abstract!Next
  <2> DEFINE found == LastFrame[x] \in Object
             value == IF found THEN LastFrame[x] ELSE NULL
  <2>1. /\ stack' = Pushed(stack, value)
        /\ phase' = IF found THEN "run" ELSE "stopped"
        /\ frames' = frames
    BY <1>5 DEF Lookup
  <2>2. value \in Cell
    BY DEF Cell
  <2>3. /\ stack' \in Seq(Cell)
        /\ StackRoots' \subseteq StackRoots \cup {value}
    <3> HIDE DEF value
    <3>1. /\ Pushed(stack, value) \in Seq(Cell)
          /\ CellsOf(Pushed(stack, value)) \subseteq CellsOf(stack) \cup {value}
      BY <1>2, <2>2, PushedCells
    <3>2. QED
      BY <2>1, <3>1 DEF StackRoots, CellsOf
  <2>4. found => value \in TableRoots
    BY <1>3 DEF TableRoots, LastFrame
  <2>5. Roots' \subseteq Roots
    BY <2>1, <2>3, <2>4 DEF Roots, TableRoots
  <2>6. phase' = "run" => NULL \notin StackRoots'
    BY <1>2, <2>1, <2>3
  <2>7. phase' \in {"run", "stopped"}
    BY <2>1
  <2>8. QED
    BY <1>0, <1>1, <1>2, <2>1, <2>3, <2>5, <2>6, <2>7, ForgetStep
<1>6. ASSUME NEW x \in Name, Assign(x)
      PROVE  IInv' /\ Abstract!Next
  <2>1. /\ frames' = [frames EXCEPT ![Len(frames)][x] = TopOrNull]
        /\ stack' = Popped
        /\ phase' = "run"
    BY <1>6, <1>1 DEF Assign
  <2>2. /\ TopOrNull \in Cell
        /\ TopOrNull \in StackRoots \cup {NULL}
        /\ Popped \in Seq(Cell)
        /\ StackRoots' \subseteq StackRoots
    BY <2>1, CellsRead DEF IInv, StackRoots, CellsOf
  <2>3. frames' = [frames EXCEPT ![Len(frames)] = [LastFrame EXCEPT ![x] = TopOrNull]]
    BY <2>1 DEF LastFrame
  <2>4. [LastFrame EXCEPT ![x] = TopOrNull] \in Table
    BY <1>3, <2>2 DEF Table, Cell
  <2>5. frames' \in Seq(Table) /\ Len(frames') = Len(frames)
    BY <1>2, <2>3, <2>4
  <2>6. TableRoots' \subseteq TableRoots \cup {TopOrNull}
    <3>1. \A f \in DOMAIN frames', y \in Name :
            frames'[f][y] \in TableRoots \cup {TopOrNull}
      <4> SUFFICES ASSUME NEW f \in DOMAIN frames', NEW y \in Name
                   PROVE  frames'[f][y] \in TableRoots \cup {TopOrNull}
        OBVIOUS
      <4>1. f \in DOMAIN frames
        BY <1>2, <2>3
      <4>2. CASE f = Len(frames)
        <5>1. frames'[f] = [LastFrame EXCEPT ![x] = TopOrNull]
          BY <1>3, <2>3, <4>2
        <5>2. frames'[f][y] = IF y = x THEN TopOrNull ELSE frames[f][y]
          BY <1>3, <4>2, <5>1 DEF LastFrame, Table
        <5>3. QED
          BY <4>1, <5>2 DEF TableRoots
      <4>3. CASE f # Len(frames)
        <5>1. frames'[f] = frames[f]
          BY <1>2, <2>3, <4>1, <4>3
        <5>2. QED
          BY <4>1, <5>1 DEF TableRoots
      <4>4. QED
        BY <4>2, <4>3
    <3>2. QED
      BY <3>1 DEF TableRoots
  <2>7. Roots' \subseteq Roots
    BY <2>2, <2>6 DEF Roots
  <2>8. QED
    BY <1>0, <1>1, <1>2, <2>1, <2>2, <2>5, <2>7, ForgetStep
<1>7. CASE Call
  <2>1. /\ frames' = Append(frames, EmptyTable)
        /\ stack' = stack
        /\ phase' = "run"
    BY <1>1, <1>7 DEF Call
  <2>2. EmptyTable \in Table
    BY DEF EmptyTable, Table
  <2>3. frames' \in Seq(Table) /\ Len(frames') = Len(frames) + 1
    BY <1>2, <2>1, <2>2
  <2>4. TableRoots' \subseteq TableRoots \cup {Unbound}
    <3>1. \A f \in DOMAIN frames' :
            \/ f \in DOMAIN frames /\ frames'[f] = frames[f]
            \/ frames'[f] = EmptyTable
      BY <1>2, <2>1, <2>2
    <3>2. QED
      BY <3>1 DEF TableRoots, EmptyTable
  <2>5. Roots' \subseteq Roots /\ StackRoots' = StackRoots
    BY <2>1, <2>4 DEF Roots, StackRoots
  <2>6. QED
    BY <1>0, <1>1, <1>2, <2>1, <2>3, <2>5, ForgetStep
<1>8. CASE Ret
  <2>1. /\ frames' = Dropped(frames, 1)
        /\ stack' = stack
        /\ phase' = "run"
        /\ Len(frames) > 1
    BY <1>1, <1>8 DEF Ret
  <2>2. /\ frames' \in Seq(Table)
        /\ Len(frames') = Len(frames) - 1
        /\ \A f \in DOMAIN frames' : f \in DOMAIN frames /\ frames'[f] = frames[f]
    BY <1>2, <2>1, DroppedCells
  <2>3. Roots' \subseteq Roots /\ StackRoots' = StackRoots
    BY <2>1, <2>2 DEF Roots, StackRoots, TableRoots
  <2>4. QED
    BY <1>0, <1>1, <1>2, <2>1, <2>2, <2>3, ForgetStep
<1>9. QED
  BY <1>4, <1>5, <1>6, <1>7, <1>8 DEF MoveRoots

\* The end of a run, a crash, and the frames the backtrace removes.
LEMMA LeaveStep ==
  ASSUME IInv, Leave \/ CreateFailed
  PROVE  IInv' /\ Abstract!Next
<1>1. CASE Unwind
  <2>1. /\ frames' = Dropped(frames, 1)
        /\ frames # <<>>
        /\ stack' = stack
        /\ phase = "stopped"
        /\ phase' = "stopped"
        /\ UNCHANGED <<heap, next_free_slot, marked, live, vec, slot>>
    BY <1>1 DEF Unwind, noHeapChange
  <2>2. /\ frames' \in Seq(Table)
        /\ \A f \in DOMAIN frames' : f \in DOMAIN frames /\ frames'[f] = frames[f]
    <3>1. frames \in Seq(Table) /\ 1 <= Len(frames)
      BY <2>1 DEF IInv, TypeOK
    <3>2. QED
      BY <2>1, <3>1, DroppedCells
  <2>3. Roots' \subseteq Roots
    BY <2>1, <2>2 DEF Roots, StackRoots, TableRoots
  <2>4. stack' \in Seq(Cell) /\ Len(stack') <= StackHeight
    BY <2>1 DEF IInv, TypeOK
  <2>5. QED
    BY <2>1, <2>2, <2>3, <2>4, ForgetStep
<1>2. CASE CreateFailed \/ Stop \/ Die
  <2>1. /\ UNCHANGED <<heap, next_free_slot, marked, live, vec, slot>>
        /\ UNCHANGED <<stack, frames>>
        /\ phase' \in {"stopped", "crashed"}
    BY <1>2 DEF CreateFailed, Stop, Die, noHeapChange, rootVars
  <2>2. Roots' = Roots
    BY <2>1 DEF Roots, StackRoots, TableRoots
  <2>3. stack' \in Seq(Cell) /\ Len(stack') <= StackHeight /\ frames' \in Seq(Table)
    BY <2>1 DEF IInv, TypeOK
  <2>4. QED
    BY <2>1, <2>2, <2>3, ForgetStep
<1>3. QED
  BY <1>1, <1>2 DEF Leave

-----------------------------------------------------------------------------
(* The theorems.                                                           *)

\* derp_vm_create establishes the invariant, and the initial state of the
\* collector.
LEMMA InitHolds ==
  ASSUME Init
  PROVE  IInv /\ Abstract!Init
<1> USE HeapAssumption
<1>1. TypeOK
  <2>1. EmptyTable \in Table
    BY DEF EmptyTable, Table
  <2>2. frames \in Seq(Table) /\ stack \in Seq(Cell)
    BY <2>1 DEF Init
  <2>3. vec \in [Object -> Seq(Cell)]
    <3>1. <<>> \in Seq(Cell)
      OBVIOUS
    <3>2. QED
      BY <3>1 DEF Init
  <2>4. QED
    BY <2>2, <2>3 DEF Init, TypeOK, Phase, Slot, Cell
<1>2. StackRoots = {} /\ Roots = {} /\ HeapObjects = {}
  <2>1. TableRoots \subseteq {Unbound}
    BY DEF Init, TableRoots, EmptyTable
  <2>2. StackRoots = {}
    BY DEF Init, StackRoots
  <2>3. HeapObjects = {}
    BY DEF Init, HeapObjects
  <2>4. QED
    BY <2>1, <2>2, <2>3 DEF Roots
<1>3. HeapShape
  BY <1>2 DEF Init, HeapShape, Slot
<1>4. RootsLive /\ PendingRootsMarked /\ NullOnlyInVariables
  BY <1>2 DEF Init, RootsLive, PendingRootsMarked, NullOnlyInVariables
<1>5. Control
  BY DEF Init, Control
<1>6. Abstract!Init
  BY <1>2 DEF Init, Abstract!Init
<1>7. QED
  BY <1>1, <1>3, <1>4, <1>5, <1>6 DEF IInv

\* Each step keeps the invariant and is a step of the collector or a stutter.
LEMMA StepHolds ==
  ASSUME IInv, [Next]_vars
  PROVE  IInv' /\ [Abstract!Next]_(Abstract!vars)
<1>1. CASE Create
  BY <1>1, CreateStep
<1>2. CASE vm_gc_mark
  BY <1>2, MarkStep
<1>3. CASE object_sweep
  BY <1>3, SweepStep
<1>4. CASE MoveRoots
  BY <1>4, MoveRootsStep
<1>5. CASE Leave \/ CreateFailed
  BY <1>5, LeaveStep
<1>6. CASE UNCHANGED vars
  <2>1. UNCHANGED <<heap, next_free_slot, marked, live, vec, stack, frames, phase, slot>>
    BY <1>6 DEF vars
  <2>2. Roots' = Roots /\ StackRoots' = StackRoots
    BY <2>1 DEF Roots, StackRoots, TableRoots
  <2>3. TypeOK' /\ Control'
    BY <2>1 DEF IInv, TypeOK, Control
  <2>4. HeapShape' /\ RootsLive'
    BY <2>1, <2>2 DEF IInv, HeapShape, HeapObjects, RootsLive
  <2>5. PendingRootsMarked' /\ NullOnlyInVariables'
    BY <2>1, <2>2 DEF IInv, PendingRootsMarked, NullOnlyInVariables
  <2>6. QED
    BY <2>1, <2>2, <2>3, <2>4, <2>5 DEF IInv, Abstract!vars
<1>7. QED
  BY <1>1, <1>2, <1>3, <1>4, <1>5, <1>6 DEF Next, Collect

\* CODE_PUSH_ARRAY takes its elements from the stack, so that they are roots when
\* the array is created; no other step creates an array.
LEMMA NewArrayStep ==
  ASSUME IInv, [Next]_vars
  PROVE  \A o \in live' \ live : Elements(o)' \subseteq live'
<1> SUFFICES ASSUME NEW o \in live' \ live
             PROVE  Elements(o)' \subseteq live'
  OBVIOUS
<1> USE HeapAssumption
<1>1. Create
  BY DEF Next, vars, Collect, MoveRoots, Leave, vm_gc_mark, MarkFrom, object_sweep, Spare,
         object_destroy, CreateFailed, Drop, Lookup, Assign, Call, Ret, Stop, Die, Unwind,
         noHeapChange
<1>2. PICK p \in Object, m \in BOOLEAN :
        \/ PushNew(p, m)
        \/ PushResult(p, m)
        \/ \E n \in 0 .. StackHeight : PushArray(p, m, n)
  BY <1>1 DEF Create
<1>3. live' = live \cup {p} /\ o = p
  BY <1>2 DEF PushNew, PushResult, PushArray, object_create
<1>4. vec \in [Object -> Seq(Cell)] /\ stack \in Seq(Cell) /\ Roots \subseteq live
  BY DEF IInv, TypeOK, RootsLive
<1>5. CASE PushNew(p, m) \/ PushResult(p, m)
  <2>1. vec'[p] = <<>>
    BY <1>4, <1>5 DEF PushNew, PushResult, object_create
  <2>2. QED
    BY <1>3, <2>1 DEF Elements
<1>6. CASE \E n \in 0 .. StackHeight : PushArray(p, m, n)
  <2>1. PICK n \in 0 .. StackHeight : PushArray(p, m, n)
    BY <1>6
  <2>2. n <= Len(stack) /\ vec'[p] = Top(stack, n)
    BY <1>4, <2>1 DEF PushArray, object_create
  <2>3. \A k \in DOMAIN Top(stack, n) : Top(stack, n)[k] \in StackRoots
    BY <1>4, <2>2 DEF Top, StackRoots
  <2>4. Elements(p)' \subseteq Roots
    BY <2>2, <2>3 DEF Elements, Roots
  <2>5. QED
    BY <1>3, <1>4, <2>4
<1>7. QED
  BY <1>2, <1>5, <1>6

\* The inductive invariant holds in every reachable state.
THEOREM Invariant == Spec => []IInv
<1>1. Init => IInv
  BY InitHolds
<1>2. IInv /\ [Next]_vars => IInv'
  BY StepHolds
<1>3. QED
  BY <1>1, <1>2, PTL DEF Spec

\* Every variable keeps its type: in particular next_free_slot never leaves
\* the heap array, whatever a sweep frees and moves.
THEOREM TypeCorrect == Spec => []TypeOK
BY Invariant, PTL DEF IInv

\* vm_gc_mark and object_sweep never free an object that a stack cell or a
\* variable of any frame points to.
THEOREM RootsNeverFreed == Spec => []RootsLive
BY Invariant, PTL DEF IInv

\* The heap array stays compact and free of duplicates, in every state of a
\* sweep too, so that no object is freed twice.
THEOREM HeapStaysCompact == Spec => []HeapShape
BY Invariant, PTL DEF IInv

\* CODE_PUSH_ARRAY: whatever collection made room for an array, none of its
\* elements has been freed when it begins.
THEOREM NewArraysWhole == Spec => ArraysBeginWhole
BY Invariant, NewArrayStep, PTL DEF Spec, ArraysBeginWhole

\* The loop of object_sweep never comes to a root whose mark is gone.
THEOREM RootsStayMarked == Spec => []PendingRootsMarked
BY Invariant, PTL DEF IInv

\* While a program runs, no stack cell is null.
THEOREM NullsOnlyInVariables == Spec => []NullOnlyInVariables
BY Invariant, PTL DEF IInv

\* The heap implements the collector: only objects without a name are freed,
\* and no name ever comes back to an object that had lost all of them.
THEOREM HeapImplementsCollector == Spec => ImplementsCollector
<1>1. Init => Abstract!Init
  BY InitHolds
<1>2. IInv /\ [Next]_vars => [Abstract!Next]_(Abstract!vars)
  BY StepHolds
<1>3. QED
  BY <1>1, <1>2, Invariant, PTL DEF Spec, ImplementsCollector, Abstract!Spec
=============================================================================
