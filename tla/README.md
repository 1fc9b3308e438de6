# Derplang: a TLA+ verification project

Derplang is a small dynamic language: a lexer and a yacc grammar build a syntax
tree, `ast_compile` turns it into bytecode, and a stack machine runs the
bytecode over a heap of eight objects with a mark and sweep collector. The
program is one thread; what makes it hard to test is the collector, which can
start inside any instruction that creates an object, the hand-made jump offsets
and return addresses, the unchecked stack arithmetic, fields that are read
without having been set, an ambiguous grammar, and a loop around the parser that
asks the file, and not the scanner, whether there is more.

## 1. Inventory

| component (source) | state | operations | what makes it correct |
|---|---|---|---|
| object heap (`object.c`, `vm_gc_mark` in `vm.c`) | `heap`, `next_free_slot`, `marked` of each object | `object_create`, `vm_gc_mark`, `object_sweep`, `object_destroy` | nothing the program can name is freed; the array stays dense while it is compacted; garbage is freed in the end |
| machine (`vm.c`) | operand stack, call stack of frames with symbol tables, `cur_fn`, `pointer`, `err` | one `case` per bytecode, `derp_run_native`, the backtrace | a compiled program prints what it means; calls return to where they came from; the first error ends the run |
| natives (`stdlib.c`) | none of their own; they read the stack slice above the new top | `println`, `print`, `len`, `range` | they read only what is alive and was passed to them |
| compiler (`ast_nodes.c`, `file_blob_*` in `vm.c`, `bytecodes.c`) | the output list, the blob with up to four functions and four literals | `ast_compile`, `ast_list_compile`, `ast_expr_compile` | control stays inside a function; loops have an exit; limits count nested definitions |
| linked list (`list.c`) | `first`, `last`, `length`, the links of each node | push, pop, queue, dequeue, clear | a sequence with two ends; no node lost or freed while in use |
| symbol table (`map.c`) | per frame a chain of key/value nodes, `first`, `last`, `length` | `Map_set`, `Map_get`, `Map_destroy`, a new frame | one node per key, the last value set; a return frees the callee's nodes and no others |
| grammar and lexer (`grammar.y`, `lexer.l`) | the stacks of `yyparse`, the look-ahead, `programBlock` | the productions and the nodes they build | a text has the tree the language says it has, or is refused |
| driver (`main.c`) | options, the file, the scanner's buffer, exit status | `getopt_long` loop, open, the loop around `yyparse`, what is done with the tree | nothing of the input is left out; the outcome is what the command line asked for; the loop ends |
| not used by the program | `bytecode_parser.c`, `utils.c` | - | - |

Interaction: `main` calls `yyparse` until the file is at its end; `yyparse` calls
`yylex`, which reads ahead through a buffer, and leaves the tree in the global
`programBlock`. `main` hands the tree to the compiler and the blob to the machine.
The machine calls `object_create` for every literal and array and for the result
of `len`; `object_create` calls back into the machine (`vm_gc_mark`), which walks
the call stack (a linked list of frames), the symbol tables (maps) and the
operand stack. Results of arithmetic are allocated with `malloc` alone: they
never occupy a heap slot and are never freed.

The hazards, each at its line and with the property aimed at it, are listed in
`PROJECT.json`.

## 2. Modules

| module | models | notes |
|---|---|---|
| `Collector` | what the interpreter relies on from the heap | abstract: objects that exist, objects with a name |
| `ObjectHeap` | `object.c`, `vm_gc_mark`, the roots | the interpreter is its most general client |
| `ObjectHeapProofs` | theorems about `ObjectHeap` | see section 5 |
| `Values` | `Derp_obj` values, arithmetic, what `print` writes, what is written | no state; extends `FileBlob` |
| `Vm` | `derp_vm_run`, `stdlib.c`, `err.c` | `Heap == INSTANCE ObjectHeap`: each bytecode uses the heap's operators |
| `VmProofs` | theorems about `Vm` | carries the heap's theorems over to the machine |
| `FileBlob` | `file_blob_t`, `Bytecode`, and what the machine relies on in them | shared by compiler and machine |
| `SyntaxTree` | `ast_nodes.h`, and the functions a tree defines | shared by compiler and meaning |
| `Compiler` | `ast_compile` and what it calls | recursion as a recursive function |
| `Compilation` | what the compiler promises of a program | properties only |
| `CompilerProofs` | theorems about `Compiler` | ends in what `Vm` assumes |
| `Syntax` | the nodes the productions of `grammar.y` build | constructors |
| `Language` | a reference semantics, by recursion on the tree | not a translation; it is what runs are compared with |
| `Interpreter` | compiler, machine, heap together | `OutputAsMeant` |
| `StackUse` | how high the operand stack of a program gets, counted on its tree | not a translation; `HeightsAsCounted` compares runs with it |
| `InterpreterProofs` | theorems about `Language` and `Interpreter` | builds on `VmProofs` and `CompilerProofs` |
| `Deque`, `LinkedList` | `list.h`, `list.c` | abstract and detailed |
| `LinkedListProofs` | theorems about `LinkedList` | |
| `Scopes`, `SymbolTables` | `map.c`, and the frames of `vm.c` that hold a map each | abstract and detailed |
| `SymbolTablesProofs` | theorems about `SymbolTables` | |
| `Grammar` | `lexer.l`, `grammar.y`: tokens, productions, their actions, the automaton | constants only |
| `Reading` | the same language by recursive descent | not a translation; it is what the automaton is compared with |
| `Driver` | `main.c`, `yylex`'s buffer, `yyparse` | what the compiler dies of is a constant, `Dies` |
| `DriverProofs` | theorems about `Driver` | |
| `Parsing` | `Driver` with `Compiler` for `Dies`, compared with `Reading` | TLC only: `Reading` is recursive |
| `Recursion` | induction over the natural numbers; that recursive functions exist | what the proofs above rest on |
| `ExamplePrograms` | the trees of `src/examples` | shared by the runs of machine and driver |
| `MC*` | instances for TLC | programs, symmetry |

### ObjectHeap

`heap`, `next_free_slot` and `marked` are the C variables of those names. `live`
is the set of objects between their `malloc` and their `free`; it is what "freed"
means in the properties. `stack` is `vm->stack[0 .. stack_len-1]`, `frames` the
symbol tables of the call stack. `vec` holds the elements of arrays.

`object_create` has a fast path (a free slot) and a slow one: `vm_gc_mark`, then
`object_sweep` with one step per iteration of its loop (the variable `slot` is
its `i`), then either the creation or `CreateFailed`, which stands for the NULL
that all callers write through. `phase` says which of these is next. The sweep
is modelled in single iterations because its invariant has to hold between
them, while slots are refilled from the end of the array. `object_init` does not
set `marked`; the new value is therefore a parameter, and `Create` lets it be
either one.

The mutator actions (`Drop`, `Lookup`, `Assign`, `Call`, `Ret`, ...) are what the
bytecodes of `vm.c` do to the roots, in any order. A null pointer among the roots
is kept in the model: `CODE_ASSIGN` stores what `vm_stack_pop` returns, and that
is NULL when the stack is empty.

### Vm

One action per group of bytecodes. An instruction that creates an object is
enabled in phases `run` and `swept`, so that the collection it starts happens
between its fetch and its effect; `pending` holds the length `derp_stdlib_len`
computed before it allocates. A new object takes an address no array points to,
or that of a freed object some array still points to: other choices are alike.
`marked` of a new object comes from `InitialMarks`.

Undefined behaviour ends a run: a read of a freed object, of a null pointer or
outside the stack takes the machine to phase `crashed` and puts the cause in
`fault`. A real run may go on after such a read; the model says nothing about it.
`err_print` and the backtrace read fields nothing has set (`err->file`,
`return_fn` of the root frame): both outcomes, printing and dying, are possible.
`print` goes into arrays level by level (`Display[d]`); an array with more levels than
there are arrays contains itself, through an address handed out again, and is
printed until the process dies. What was printed before a native died stays printed.
`int` wraps at `IntBits`, which is what the built program does.

`TypeOK` of `Vm` goes further than the ranges of variables: the instruction at hand is
one of the code and its operands are of the kind it reads, the objects hold values of
their type, and an array in use has as many elements as its length says.

### SyntaxTree, Compiler, Syntax, Language, Interpreter, StackUse

A node is a record with the fields of the C union; lists are sequences. The text
of a float stands for the float. `crashed` in the blob says that the compiler
wrote through the NULL of a full table; such programs never reach the machine.

The compiler calls itself on the parts of a node. `Trees[h]` are the nodes of at most
`h` levels and `ast_expr_compile[h]` is the compiler for them, a function that
calls `ast_expr_compile[h - 1]`; `Deepest` is the bound, any number. What a list
does to the output is `Through`, one element after the other, for the compiler,
for the list of definitions and for evaluation alike. `Name`, the variable names, is a
constant, because the machine's symbol tables need a set of them.

`FileBlob` has the types of both sides. `Runnable` is all that the machine relies on:
jumps lead inside the function (`Closed`), `CODE_RET` is the last instruction of
every function but the global code and nowhere else, and each argument is of the
kind the instruction takes it for (`WellTyped`). `VmAssumption` asks it of the programs
a run chooses from.

`Language` gives the meaning of a program without bytecode, jumps, return
addresses, heap or collector: what each node does to the operand stack, to the variables of
the call at hand and to the output. A value carries what `print` writes of it. The
stack is the one thing of the machine it keeps, because a Derplang expression may
leave any number of values on it (`println` leaves none), together with the operations
of `Values`. `Evaluation(defs)[depth]` evaluates nodes nested at most `depth` deep,
calls and rounds of a loop counted; beyond that a meaning is `unfinished`.
`Patience` is that bound; the runs assume that it cuts none of their programs off
(`PatienceAssumption`), and the theorem holds for any value.

`OutputAsMeant` says that a run prints what the program means and ends in the same way.
Three things are allowed for. What is printed of an array is not part of its
value: the marker does not follow arrays, so an element may be freed, and `malloc` may give
its address to another object, which the array then shows as if it had always been there.
`Outside` therefore leaves out what is between brackets, and keeps the brackets. And the machine may
give in (`GaveIn`): the heap is full, the marker meets a null pointer, or a printed array has
an element that was freed, is a function or is the array itself; then what it
printed is the beginning of what it should have printed. No other fault is excused: a read of a
freed object, of a null pointer or beyond the stack must be in the meaning too. `Ending` names
the error of a run whose report died of the unset fields, and takes `range()` without arguments, which
looks at whatever the stack held there before, to refuse it. A run may
also go on where the meaning ended, at a function in an array, if another object has
taken the function's address. `ArraysPrintAsMeant`, in `MCExamples`, compares the whole output,
arrays included, for programs that leave room on the heap. Of a program whose meaning is cut
off, one output is the beginning of the other.

`Language` and `Vm` share the operations of `Values` and the rule that a full stack drops what is
pushed, so comparing the two says nothing about these. Two properties look at them from outside.
`ArithmeticAsInC` says what C says: a sum, difference or product is an int that is
right up to a multiple of `2^IntBits`; a quotient is the one int whose remainder is smaller than the
divisor and has the sign of the dividend; and a division traps exactly if there is
none (zero, and the smallest int by -1). `StackUse` counts on the tree of a program, without values, how
far down and up its stack goes, a range where a condition decides, and
`HeightsAsCounted` says that a program that never takes what is not there and needs no more room
than there is loses no value: no null pointer gets into a variable or before
the marker, nothing is read beyond the stack, and at the end there are as many values
as it leaves.

### LinkedList

Nodes with `next` and `prev`; a new node's fields hold anything (`wild`), and each
operation sets exactly those the code sets. The refinement maps the nodes met
along `next`, `length` of them, to the sequence of `Deque`.

### Scopes, SymbolTables

`ObjectHeap` takes a frame's symbol table to be a function from names to objects.
`SymbolTables` is the code behind that: `Map` records with `first`, `last` and
`length`, nodes with `key`, `data`, `next` and `prev`, and `allocated`, the nodes
between `malloc` and `free`. `Map_set` updates the node of the key or links a new one
at the end; `vm_add_stack_frame` makes an empty map; `Map_destroy` frees as many
nodes from `first` on as `length` counts. That count and the walk along `next` are two
views of one chain that nothing but the code keeps together. A freed node may be
handed out again at once, to a map of another frame. The fields of a free node are
reset in the model, because no operation reads them before it writes them; this
only saves states. `Scopes` says what the machine relies on: each call has
variables of its own, a lookup gives the last value assigned, and a variable that
holds NULL looks like none.

### Grammar, Reading, Driver

A text is a sequence of tokens; which characters make a token is not modelled.
`Grammar` lists the productions with the node each action builds and computes the
LR(0) automaton. bison itself is external. How it decides is modelled by its
documented rule: the operator of `expr comparison expr` is a nonterminal, so that
production has no precedence and the `%left` declarations decide nothing; all conflicts
are shift/reduce and are shifted. What remains is deterministic if no state has
two complete items; `AtMostOne` states that and is evaluated by TLC as an
assumption. That the parser asks for no token in a state that can only reduce
(`Consistent`) matters here, because `main` looks at the file between two calls.
`Tables` states what the parser relies on in the tables to find, under what a
reduction pops, a state with a way on: a state is entered only on the symbol before
the dot of its items, and what begins in a state leads on from it. Both are
assumptions about constants without parameters, so that TLC decides them once and for all.

`Driver` reads tokens through a buffer of `BufSize`: `Refill` is a read, which sets
`eof` when it gets less than it asked for (or, from a terminal, whenever the line ends
there or the input does), `Lex` takes a token out of the buffer or makes one of the
end. What the scanner does not know ends the call of `yyparse` (`yyterminate`), and
`main` calls it again unless `feof` is already set. So an input falls into pieces;
of these the last one is the program, and anything after it in the buffer is
dropped. `ParsesAsRead` compares each piece with `Reading`: accepted exactly if it has
a reading, the tree equal to that reading, and given up only when no continuation
would give it one (`Continuations` bounds the texts tried for that). `NothingLeftOut`
says what may be dropped. An error in a run does not show in the exit status:
`main` returns `EXIT_SUCCESS` after it, and `Finish` does the same.

## 3. Runs

| run | instance | shows |
|---|---|---|
| `heap_safety` | 4 objects, 3 slots, stack of 2, 1 frame | the safety properties of the heap, that an array begins whole, and that it implements `Collector` |
| `heap_liveness` | 3 objects, 2 slots, stack of 2, 2 frames, with fairness | variables of a suspended caller stay alive; all garbage is freed if collections go on |
| `list_deque` | 4 nodes, 2 data | the list implements the deque; links agree in both directions; walks end at the last node |
| `compiler` | programs built in up to 5 steps (66,667) | jump offsets, loop exits, limits of the blob |
| `programs` | 1,978 programs: 594 of up to three fragments, 486 with calls and definitions, 408 with arrays, 490 calculations; 3 slots, stack of 4, 5 frames, 6-bit integers, marks of any value (308,672 states) | machine, heap and compiler together print what is meant; values are lost only by programs that need more stack than there is; arithmetic is that of C; each step is a step of `ObjectHeap`; calls, recursion and shadowing return to where they came from; every run ends |
| `symbol_tables` | 3 nodes, 3 names, 3 frames, one object and NULL | the chains of `map.c` implement the variables of each call |
| `driver` | every text of up to 6 tokens out of 12, from a file and from a terminal, a buffer of 3; 93 lists of parameters and arguments; the texts of 9 examples; 516 command lines | texts are parsed as `Reading` reads them, nothing is left out, options do what they say, the loop ends |
| `examples_recorded` | 8 programs of `src/examples`, 408 programs with arrays; 8 slots, stack of 64 | the recorded output; what nested arrays print, to the last element |
| `examples_len`, `examples_garbage`, `examples_range`, `examples_precedence` | one example each | **violated**: see section 4 |

Bounds. The heap properties are about pairs and triples of slots (the slot at
hand, the last one, a slot between): three slots contain all cases, and four
objects let one be freed while another takes its address. Two stack cells are
enough for one root to be pushed out while another stays. The runs of
`programs` have fewer slots (3) and a lower stack than the real
machine (8 and 64), so that collections, failed creations and full stacks happen
in programs of a few instructions; `examples_*` use the real 8 and 64.
`MaxFrames` is only a bound of the model: in `programs` a program that reached it
would be reported as a deadlock, and none does. Six-bit integers go from -32 to 31; the
calculations are each operator on each two of 0, 1, 5, 31, -1, -5 and -32, so that
sums, differences and products wrap in both directions, quotients round towards zero with
every combination of signs, and both divisions that trap occur. The 22
addresses are more than any program uses (a model that ran out of them would deadlock). On
three slots the programs with arrays lose elements to the collector and see their addresses
given out again, which is the case `Outside` is made for; on the eight slots of `examples_recorded`
they do not. `heap_liveness`
and `heap_safety` differ in what they spend states on: frames against slots. Most
of what the runs check is proved for every value of these constants (section 5).

`symbol_tables`: with three nodes a map has a first, a middle and a last one, and two
frames compete for them; the third frame is there for a return to a frame that is
not the root. Addresses are symmetric. `driver`: six tokens are enough for each
production with something before or behind it (`fn x ( ) { }` is six), for a chain of
three operands, and for three pieces; longer texts are the lists and examples. A
buffer of three makes the end of the buffer fall before, on and behind the end of a
piece and of the text; the real one is longer than the examples. The alphabet leaves
out tokens that behave like one it has (`while` like `if`, the other operators like
`+`); the examples and lists have them. That standard input is read is chosen, for
the enumerated texts, by a file that does not open, which has the same effect as `-s`;
`-s` itself is among the command lines.

`examples_recorded` assumes memory that malloc gives zeroed (`InitialMarks = {FALSE}`):
the recorded outputs were made by a program whose new objects happened to
start unmarked. With marks of any value the same programs may run out of heap,
which is what `examples_garbage` shows for one of them. The other programs run
with both.

Deadlock is checked except for the heap and compiler runs: a crashed or stopped
heap has nothing left to do, and a finished program is not extended.

Fairness. `ObjectHeap` assumes that a sweep that began goes on (`WF` of one loop
iteration): it is a loop in the thread that called it and waits for nothing.
Nothing makes a program create objects, so `GarbageReclaimed` is conditional on
collections happening again and again. `Vm` assumes `WF(Execute)`: the
interpreter is a loop that never waits. `ComesToRest` holds for the programs
of `programs`, whose loops and recursions are bounded by their own text. `Driver`
assumes `WF(TakeInput)`: options, scanner and parser run in one thread without waiting
for anything but a terminal, which is assumed to answer. The code leaves the loop
only when `feof` is set, and `InputEnds` says that this happens: a terminal sets it
with a read of nothing. The end of `main` needs no fairness, it is one step of
the model.

## 4. Where the code and its documents disagree

- `vm.h:135` says the marker marks all reachable objects; it does not follow
  arrays, and so `examples/len.cream` prints freed memory, where a recorded
  output exists (`examples_len`).
- `examples/garbage_collect.cream` says its strings fit because of the collector;
  whether they do depends on bytes `object_init` does not set
  (`examples_garbage`).
- `range()` checks its first argument twice, so a call with an array and a
  function, as in `examples/blocks.cream`, is refused (`examples_range`).
- `grammar.y:74` declares "operator precedence for mathematical operators", and
  `examples/mathematical.cream:2` says that `3 * 2 - 2` is 4; the declarations have no
  effect, chains group to the right, and it prints 0 (`examples_precedence`).

Two more, without a run of their own. The examples `dangerous`, `functions`,
`variables` and `mathematical` have comments with `#`, which `lexer.l` has no rule for: the
input ends there, silently if the rest is in the scanner's buffer already. And
`main` never uses `EXIT_EXCEPTION`: a program that fails exits with 0.

`List_queue` on an empty list leaves the node's links unset, so a later walk with
`LIST_FOREACH` does not stop at the last node. The interpreter does not call it;
`WalkStaysWhole` says that what it does call has no such effect.

## 5. Theorems

`ObjectHeapProofs` proves, for all values of the constants that satisfy
`HeapAssumption`, every safety property that `heap_safety` checks. The invariants
are not inductive one by one. `IInv` adds what connects them:

- heap slots, the objects in them and `live` stay consistent while a slot is
  refilled (`HeapShape`);
- during a sweep the roots in slots not yet examined are marked, and this
  survives compaction only because the object moved into slot `i` comes from a
  slot at or after `i` (`PendingRootsMarked`);
- an object in a slot is live, an object among the roots is live, and a root that
  was already swept past is live because it is no longer touched (`RootsLive`);
- a null pointer is not on the stack of a running program
  (`NullOnlyInVariables`).

The argument: `InitHolds` and one lemma per group of actions (`CreateStep`,
`MarkStep`, `SweepStep`, `ForgetStep`, `MoveRootsStep`, `LeaveStep`) give
`Invariant`, `Spec => []IInv`; the named properties follow. The refinement of
`Collector` needs `IInv` at every step: a freed object is unmarked, hence, by
`PendingRootsMarked`, not a root. `NewArraysWhole` is a fact about the one step that makes an array:
its elements are the topmost values of the stack, still on it when the collection runs and hence
live by `RootsLive`, and none of them is the address the array itself is given.

`VmProofs` is about the machine, for every set of programs of the shape the
compiler produces (`VmAssumption`: each is `Runnable`; TLC evaluates it on the compiled programs of
every run, and `CompiledIsRunnable` below proves it of all others) and every size of heap and stacks. `Steps` shows that an instruction either
leaves the call stack alone (`Quiet`, `SameFunction`: one lemma per group of
bytecodes), or is a call, a return or a step of the backtrace. From that:

- `UsesHeap`: each step is a step of `ObjectHeap` or leaves its variables alone, so
  `Spec => RunsOnHeap`. This needs the invariant: the function at hand exists, so
  its instruction exists and has a valid argument; the stack is never higher
  than `StackHeight`, so the operands an instruction takes are among those the
  heap's mutator may take.
- `CallsReturn`: `ReturnsToCaller` is kept. A call appends the address of the very
  instruction that is being run, and starts the first function of that name
  (`Least` in `Recursion` proves that there is a first one); a return removes the last
  frame and makes the function it names the one at hand, so what the other frames
  say stays true.
- `ProgramsKeepHeap`: the theorems of `ObjectHeapProofs`, carried over by `UsesHeap`.
- `OnlyRootEnds`: a run that ends without an error ends at the end of the global
  code, with no call under way. By itself `EndsInRoot` is not inductive. `ControlInv`
  adds that the pointer is inside the function at hand (`Inside`: only the global code
  has an "inside" behind its last instruction), that no frame but the root's runs the
  global code, and that an error was set whenever the loop was left elsewhere. Each
  instruction then either goes where its code leads (`Goes`), stays with or without an
  error (`Halts`), waits for the second half of `len` (`Waits`), rests after the end
  (`Rests`), or is a call, a return or a step of the backtrace; there is one lemma per
  kind. A return goes to the instruction behind a `CODE_CALL`, which by
  `ReturnsToCaller` is the one it came from, and which is inside.
- `ArraysHaveTheirLength` and `TypeCorrect`: an array carries the number of elements
  its vector has room for, at every moment another instruction may look at it; the pointer is at
  an instruction with operands of the kind it reads or at the end of the code; objects hold
  values of their type; and what was printed is a sequence of tokens. The invariant `ValuesInv` speaks
  of every object that is live: what a step makes (`Makes`) is readable and has the elements its length
  counts, and a step that makes nothing (`MakesNone`) leaves what stays live as it was.
  `Makes` may take the address of a freed object that is still in some array, which is
  why only live ones are spoken of. That the operands are of the right kind is `Runnable` and
  `ControlInv` together; that `out` is a sequence of tokens is proved for `print` level by level.

`CompilerProofs` is about every program whose nodes have at most `Deepest` levels, for
every `Deepest` and every size of the tables in the blob. Induction over a
data structure is not available as a rule, so it is made from what is: `Recursion`
shows that a function defined from its value one before exists and is what its
definition says (its beginnings exist, agree with each other, and make it up), and
`Least` that there is a least level, or a least position in a list, at which
something fails. `CompilerProofs` instantiates `Recursion` for the trees, the compiler,
the count of definitions and for `Through`. Then:

- `ControlStays`, `EveryLoopHasAnExit` and `CompiledIsRunnable` come from one fact
  about `ast_expr_compile`, `EveryTreeCompiles`: whatever node it is given, the code so
  far stays as it is, and sound if it was (`Continues`). `Sound` says of an instruction
  that a jump back has its exit and that a conditional jump goes no further than just
  behind what there is. The difficulty is the jump whose offset is still 0 while the
  code it skips is compiled: read literally it leads to the next instruction, which
  is sound, but that it will go elsewhere later must not take the exit from a loop emitted
  in between. It cannot, because an exit has an offset other than 0; `EndIf` and
  `EndWhile` fill the offset in. Functions that enclose the one being compiled are in
  the blob without code until theirs is finished; `BlobGrows` says that they stay
  as they are and that those added later are `Finished`: sound code and one `CODE_RET`.
- `DiesOnlyWhenFull`: `Tracks` relates what the compiler does to a state with what
  counting does to a number, for the same node: as long as the compiler lives both have
  added the same, and it is dead exactly if the count is over a limit. The count goes
  on after the compiler has died, so `Grown`, that it never falls, is needed too.

What `VmProofs` assumes of programs, `CompiledIsRunnable` proves of compiled ones:
whatever the compiler survives, the machine runs as the theorems say. Only one thing
is taken from the scanner: that an identifier is not empty and a string has a length.

While proving, one thing in the model turned out to be said wrongly: a crashed
compiler and one at a certain node were two arms of one `CASE`. Such a choice is
left open by the logic, though TLC takes the first. `CompileNode`, and `Evaluation` of
`Language`, now ask the one before the other, as the code does.

`LinkedListProofs` and `SymbolTablesProofs` speak of walks along `next`. The invariant says
that there is a sequence of distinct nodes, `s`, on which `first`, `last`, `length` and
the links agree (`Spells`), for the tables one such sequence per call, no two with
a node in common, and that nothing else is allocated. `WalkIs` shows, by the least
position at which it fails, that a walk meets just this sequence. An operation is
then a new sequence made of the old one: `AlwaysLinkedBothWays`, `AlwaysWhole` and
`TypeCorrect` follow. The refinements, `ActsAsDeque` and `ActsAsScopes`, are proved step by
step: the abstract state is read off that sequence, and each operation does to it
what `Deque` and `Scopes` say, or nothing. In `SymbolTables` a node is found by its name,
so names in a chain must be distinct, which is part of the invariant (`Chained`); a
return frees as many nodes as `length` counts, and that these are all and only the
callee's is where the two views of the chain meet. `WalksEnd` adds that the last
node points nowhere, which `List_queue` on an empty list does not see to, and which
every operation the interpreter calls keeps.

`DriverProofs` holds for any set of command lines and inputs, any alphabet, any buffer
and whatever the compiler dies of. Three invariants, one on another: `CommandInv` (the
flags are the options seen, none of which ends the process, unless one did) gives
`FollowsOptions`.
`InputInv` (what was read is the beginning of the text, the end of the file was seen only
when nothing of it is left unread, the parser sees an end only behind an empty
buffer or an unknown token, and pieces begin behind an unknown token) gives `TakesWholeInput`.
`StackInv` (the stack of `yyparse` is a path through the automaton, with one value per
step) gives `TypeCorrect`: by `Tables` what a reduction takes off is spelled by its
right side, all the way down to a state where it began, which has a way on.

`InterpreterProofs` proves the property this project began with, `OutputAsMeant`, for every
program the compiler survives, in two halves.

The first half compares the code with the meaning. `CodeAsMeant` runs the compiled code on a
machine without a heap (`Runs`): its stack holds values, a call saves the variables
and the place, and nothing is ever freed. What makes an induction over the
program possible is that the code of a node is a span of the code of its function:
`Spans`, proved in `CompilerProofs`, says of each kind of node how its span is made of the
spans of its parts and of the instructions between them, with every jump filled in.
`FunctionsAsDefined` says the same of functions: in the blob they stand behind the global code
in the order of the text, each with the code of its body, though the compiler adds a function
before it compiles what is nested in it. `EvaluationFollowed` is the induction over `depth`:
wherever the machine is at the first instruction of a node, it comes, in some number of steps,
to the end of its span in the state `EvalNode` gives, or it ends as the evaluation ends
(`Arrives`). A loop is its condition, its block and the loop again, as the meaning has it; the jump
back is what makes these the same code. A call needs that the callee's span
is its whole code and that what it returns to was saved; recursion needs nothing more,
since the depth has fallen by one.

The second half compares that machine with the one of `Vm`. `Simulates` relates their states:
each object on the stack and in the variables of every frame stands for a value (`Stacked`,
`Framed`), which means that it is live and has its type, number and text (`Matched`). Of the
elements of an array `Matched` says nothing: they are not roots, and what has become of
them is beyond what any invariant of this collector can say. Each instruction keeps the relation or
leads to an end of the same kind or to a machine that gave in (`InStep`, `Settles`): one lemma per
group, `CallSimulates`, `PrintSimulates`, `CollectSimulates`, and so on. A collection keeps it because
of `RootsNeverFreed`: all the relation speaks of are roots, and roots stay.

What remains is `print`, where the two machines write different things between brackets. `Read` follows
an output token by token and keeps what is outside. `DisplayDeep` shows, level by level, that whatever objects
an array shows by now, what is printed of it is balanced as far as it gets (`Deep`): it
never closes a bracket it did not open, and if it comes to its end it closes all that it
opened. So outside of arrays an array reads as a pair of brackets, for the object as for
the value it stands for (`Block`), and two outputs that read alike do so after either is written on
(`Alike`, `PrintedKeeps`). The exceptions are those that stop inside of brackets. If the machine
does, it gave in, and what it printed is the beginning of the rest. If the meaning does,
because one of its elements is a function, which cannot be printed, while the machine finds another
object at that address, the machine goes past the end of the meaning (`Past`), and stays past
it whatever it prints (`PastStays`).

`RunsAsMeant` has no hypothesis: it holds for every program that compiles, every size of heap and stack, every
order of collections, and every address `malloc` returns. It does not say that a run
comes to an end, nor that the machine does not give in; whether eight objects are enough depends on the
program.

Only model-checked:

- liveness (`GarbageReclaimed`, `ComesToRest`, `InputEnds`), which needs fairness and
  `ENABLED`, out of the prover's reach;
- `ParsesAsRead`: `Reading` is written with recursive operators, which the prover does not
  accept, and that two parsers accept the same language is an induction over texts and
  stacks at once, which was not attempted;
- `ArithmeticAsInC` and `HeightsAsCounted`, the two views from outside of what `OutputAsMeant` shares with
  the machine, and `ArraysPrintAsMeant`, which depends on how full the heap gets;
- `ExamplesParse`, `ExamplesPrintAsRecorded` and the four disagreements of section 4: they
  are about given programs and recorded outputs.

## 6. Not modelled, and what comes next

1. The characters of tokens: escapes in strings, which `lexer.l` takes over as they
   are, numbers that overflow `atol`, and the longest match between rules. The
   modules start at tokens.
2. `ParsesAsRead` as a theorem, with `Reading` as a recursive function of levels, as
   compiler and meaning are now.
3. `ENABLED` and fairness stay with TLC.

Left out for good: printing and freeing trees and bytecode (output for people, and
functions nothing calls), debug output, `bytecode_parser.c`, which the build leaves out,
and `utils.c`, of which it used the line functions. Of `derp_vm_destroy` only the end of the process matters.
`Map_del` ends in a sentinel, is called by nothing and changes nothing first.
Out-of-memory of `malloc` itself is not modelled.
