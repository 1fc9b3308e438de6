---------------------------- MODULE Interpreter -----------------------------
(***************************************************************************)
(* The interpreter from the syntax tree on (main.c): the tree is compiled  *)
(* (Compiler.tla), the blob is run (Vm.tla) on the object heap             *)
(* (ObjectHeap.tla), and the outcome is compared with the meaning of the   *)
(* program (Language.tla).                                                 *)
(***************************************************************************)
EXTENDS Vm, Compiler, Language

CONSTANT Programs   \* the syntax trees a run chooses from

\* main gives the virtual machine what the compiler made of the program. One
\* that the compiler dies of is never run.
ASSUME CompiledAssumption ==
  /\ Blobs = [p \in DOMAIN Programs |-> ast_compile(Programs[p])]
  /\ \A p \in DOMAIN Programs : Programs[p] \in Program /\ ~Blobs[p].crashed

Meanings == [p \in DOMAIN Programs |-> Meaning(Programs[p])]

-----------------------------------------------------------------------------
(* What is printed of an array is not part of its value: the collector may *)
(* free an element, and malloc may give its address to another object. So  *)
(* a run is compared with the meaning outside of arrays.                   *)

\* The tokens of an output, read one by one: how many arrays are open, and what
\* was read with none open, the outermost brackets included.
Reading ==
  [t \in Token |-> [c \in [open : Nat, kept : Seq(Token)] |->
     LET next == IF t = Separator("[") THEN c.open + 1
                 ELSE IF t = Separator("]") /\ c.open > 0 THEN c.open - 1
                 ELSE c.open
     IN  [open |-> next,
          kept |-> IF c.open = 0 \/ next = 0 THEN Append(c.kept, t) ELSE c.kept]]]

Read(tokens) == Through(Reading, tokens, [open |-> 0, kept |-> <<>>])
Outside(tokens) == Read(tokens).kept
EndsInArray(tokens) == Read(tokens).open > 0

IsPrefixOf(s, t) == Len(s) <= Len(t) /\ \A k \in 1 .. Len(s) : s[k] = t[k]

-----------------------------------------------------------------------------
\* How the run ended: the error it reported, if it got to report it, or the
\* cause of its death. What range finds in a stale slot is not its argument.
Ending ==
  CASE fault \in {"none", "uninitialised"} -> err
    [] fault = "stale"                     -> "ArgErr"
    [] OTHER                               -> fault

\* The machine may give in before the program ends: the heap is full, the marker
\* meets a null pointer, or an element of an array it prints was freed, or
\* replaced by a function or by an array it is itself a part of.
GaveIn ==
  \/ fault \in {"heap_full", "null_root"}
  \/ EndsInArray(out) /\ Ending \in {"freed", "endless", "InternalErr"}

\* Compiled code, with its jumps, return addresses and operand stack, on a
\* collected heap: outside of arrays, what is printed is what the program means,
\* and it ends in the same way; or it is what the program means up to where the
\* machine gave in; or it goes on where the meaning ended, at a function in an
\* array that is printed.
RunsAs(meaning) ==
  \/ Outside(out) = Outside(meaning.out) /\ Ending = meaning.end
  \/ GaveIn /\ IsPrefixOf(Outside(out), Outside(meaning.out))
  \/ /\ EndsInArray(meaning.out)
     /\ meaning.end = "InternalErr"
     /\ IsPrefixOf(Outside(meaning.out), Outside(out))

\* A meaning that was cut off is no more than the beginning.
OutputAsMeant ==
  AtRest =>
    LET meaning == Meanings[prog]
    IN  IF meaning.end = "unfinished"
        THEN \/ IsPrefixOf(Outside(meaning.out), Outside(out))
             \/ IsPrefixOf(Outside(out), Outside(meaning.out))
        ELSE RunsAs(meaning)
=============================================================================
