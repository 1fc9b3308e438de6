------------------------------- MODULE Scopes -------------------------------
(***************************************************************************)
(* What the machine relies on from its call stack of symbol tables         *)
(* (vm.c, map.c), and what ObjectHeap.tla takes `frames` to be: each       *)
(* call has variables of its own, which die when it returns.               *)
(***************************************************************************)
EXTENDS Naturals, Sequences

CONSTANTS
  Key,      \* names of variables
  Data,     \* what a variable may point to
  NULL,     \* what an assignment from an empty operand stack stores
  Unbound   \* no variable of that name; not in Data \cup {NULL}

VARIABLES
  scopes,   \* the variables of each call, the one at hand last
  result    \* the last lookup: the name and what it gave

vars == <<scopes, result>>

Init ==
  /\ scopes = <<[k \in Key |-> Unbound]>>
  /\ result = <<NULL, NULL>>

Enter ==
  /\ scopes' = Append(scopes, [k \in Key |-> Unbound])
  /\ UNCHANGED result

Leave ==
  /\ scopes # <<>>
  /\ scopes' = SubSeq(scopes, 1, Len(scopes) - 1)
  /\ UNCHANGED result

Assign(k, d) ==
  /\ scopes # <<>>
  /\ scopes' = [scopes EXCEPT ![Len(scopes)][k] = d]
  /\ UNCHANGED result

\* A variable that holds NULL looks like one that does not exist.
Lookup(k) ==
  /\ scopes # <<>>
  /\ LET d == scopes[Len(scopes)][k]
     IN  result' = <<k, IF d = Unbound THEN NULL ELSE d>>
  /\ UNCHANGED scopes

Next ==
  \/ Enter
  \/ Leave
  \/ \E k \in Key : Lookup(k) \/ \E d \in Data \cup {NULL} : Assign(k, d)

Spec == Init /\ [][Next]_vars
=============================================================================
