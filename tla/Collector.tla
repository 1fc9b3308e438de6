------------------------------ MODULE Collector ------------------------------
(***************************************************************************)
(* What the interpreter relies on from the object heap, with no heap       *)
(* array, no marks and no sweep: a created object is new, the names a      *)
(* program can use directly never reach anything but existing objects,     *)
(* and only an object without such a name is reclaimed.  ObjectHeap.tla    *)
(* implements it.                                                          *)
(***************************************************************************)
CONSTANT Object

VARIABLES
  live,    \* objects that exist
  roots    \* objects named by the value stack or by a variable

vars == <<live, roots>>

Init ==
  /\ live = {}
  /\ roots = {}

\* The new object replaces any number of the names in use.
New(o) ==
  /\ o \notin live
  /\ live' = live \cup {o}
  /\ roots' \subseteq roots \cup {o}

\* Names are copied and dropped; an object without a name never gets one again.
Forget ==
  /\ roots' \subseteq roots
  /\ UNCHANGED live

Reclaim(o) ==
  /\ o \in live \ roots
  /\ live' = live \ {o}
  /\ UNCHANGED roots

Next == Forget \/ \E o \in Object : New(o) \/ Reclaim(o)

Spec == Init /\ [][Next]_vars
=============================================================================
