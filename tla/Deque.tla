------------------------------- MODULE Deque -------------------------------
(***************************************************************************)
(* What list.h offers: a sequence that grows and shrinks at both ends.     *)
(* LinkedList.tla implements it.                                           *)
(***************************************************************************)
EXTENDS Integers, Sequences

CONSTANTS Data, NULL

VARIABLES
  items,   \* the elements
  result   \* what the last operation returned

vars == <<items, result>>

Init == items = <<>> /\ result = NULL

Push(d)  == items' = Append(items, d) /\ result' = NULL
Queue(d) == items' = <<d>> \o items /\ result' = NULL

Pop ==
  \/ items = <<>> /\ items' = items /\ result' = NULL
  \/ /\ items # <<>>
     /\ result' = items[Len(items)]
     /\ items' = SubSeq(items, 1, Len(items) - 1)

Dequeue ==
  \/ items = <<>> /\ items' = items /\ result' = NULL
  \/ items # <<>> /\ result' = Head(items) /\ items' = Tail(items)

Clear == items' = <<>> /\ result' = NULL

Next == (\E d \in Data : Push(d) \/ Queue(d)) \/ Pop \/ Dequeue \/ Clear

Spec == Init /\ [][Next]_vars
=============================================================================
