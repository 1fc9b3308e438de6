---------------------------- MODULE MCObjectHeap ----------------------------
(* Model values and symmetry for the runs of ObjectHeap.                   *)
EXTENDS ObjectHeap, TLC

Symmetry == Permutations(Object)
=============================================================================
