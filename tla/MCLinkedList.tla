---------------------------- MODULE MCLinkedList ----------------------------
(* Node addresses are alike, and so are the data, for TLC.                 *)
EXTENDS LinkedList, TLC

Symmetry == Permutations(Node) \cup Permutations(Data)
=============================================================================
