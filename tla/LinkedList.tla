----------------------------- MODULE LinkedList -----------------------------
(***************************************************************************)
(* list.c: the doubly linked list behind the call stack of the virtual     *)
(* machine, the list of natives, the output of the compiler and the lists  *)
(* of the syntax tree.                                                     *)
(*                                                                         *)
(* malloc gives a node whose fields hold anything, the parameter `wild`    *)
(* below; what the code assigns and what it leaves is told apart.          *)
(***************************************************************************)
EXTENDS Integers, FiniteSets

CONSTANTS
  Node,   \* addresses malloc may return for a struct Node
  Data,   \* what the list holds pointers to
  NULL

ASSUME ListAssumption == NULL \notin Node \cup Data /\ IsFiniteSet(Node)

VARIABLES
  first, last, length,   \* the List
  data, next, prev,      \* the fields of each node
  allocated,             \* nodes malloc'ed and not freed
  result                 \* what the last operation returned

fields == <<data, next, prev>>
vars == <<first, last, length, fields, allocated, result>>

Pointer == Node \cup {NULL}

-----------------------------------------------------------------------------
malloc(n) ==
  /\ n \notin allocated
  /\ allocated' = allocated \cup {n}

\* What is in a freed node does not matter any more.
free(nodes) ==
  /\ allocated' = allocated \ nodes
  /\ data' = [n \in Node |-> IF n \in nodes THEN NULL ELSE data[n]]

\* List_init, on the structure malloc gave List_create.
List_init ==
  /\ first = NULL
  /\ last = NULL
  /\ length = 0

\* Mutant: the next field of the new node is not set.
List_push_open(n, d, wild) ==
  /\ malloc(n)
  /\ data' = [data EXCEPT ![n] = d]
  /\ IF length = 0
     THEN /\ first' = n
          /\ next' = [next EXCEPT ![n] = wild]
          /\ prev' = [prev EXCEPT ![n] = wild]
     ELSE /\ next' = [next EXCEPT ![last] = n, ![n] = wild]
          /\ prev' = [prev EXCEPT ![n] = last]
          /\ UNCHANGED first
  /\ last' = n
  /\ length' = length + 1
  /\ result' = NULL

List_push(n, d, wild) ==
  /\ malloc(n)
  /\ data' = [data EXCEPT ![n] = d]
  /\ IF length = 0
     THEN /\ first' = n
          /\ next' = [next EXCEPT ![n] = NULL]
          /\ prev' = [prev EXCEPT ![n] = wild]
     ELSE /\ next' = [next EXCEPT ![last] = n, ![n] = NULL]
          /\ prev' = [prev EXCEPT ![n] = last]
          /\ UNCHANGED first
  /\ last' = n
  /\ length' = length + 1
  /\ result' = NULL

\* Mutant: the new node is linked to the wrong end.
List_queue_links_last(n, d, wild) ==
  /\ malloc(n)
  /\ data' = [data EXCEPT ![n] = d]
  /\ IF length = 0
     THEN /\ last' = n
          /\ next' = [next EXCEPT ![n] = wild]
          /\ prev' = [prev EXCEPT ![n] = wild]
     ELSE /\ next' = [next EXCEPT ![n] = last]
          /\ prev' = [prev EXCEPT ![first] = n, ![n] = wild]
          /\ UNCHANGED last
  /\ first' = n
  /\ length' = length + 1
  /\ result' = NULL

\* On an empty list neither link of the node is set; on others prev is not.
List_queue(n, d, wild) ==
  /\ malloc(n)
  /\ data' = [data EXCEPT ![n] = d]
  /\ IF length = 0
     THEN /\ last' = n
          /\ next' = [next EXCEPT ![n] = wild]
          /\ prev' = [prev EXCEPT ![n] = wild]
     ELSE /\ next' = [next EXCEPT ![n] = first]
          /\ prev' = [prev EXCEPT ![first] = n, ![n] = wild]
          /\ UNCHANGED last
  /\ first' = n
  /\ length' = length + 1
  /\ result' = NULL

\* An operation on the empty list.
returnNull ==
  /\ length = 0
  /\ result' = NULL
  /\ UNCHANGED <<first, last, length, fields, allocated>>

\* The only node goes.
unlinkOnly ==
  /\ length = 1
  /\ first' = NULL
  /\ last' = NULL
  /\ UNCHANGED <<next, prev>>

List_pop ==
  \/ returnNull
  \/ /\ length > 0
     /\ result' = data[last]
     /\ \/ unlinkOnly
        \/ /\ length > 1
           /\ last' = prev[last]
           /\ next' = [next EXCEPT ![prev[last]] = NULL]
           /\ UNCHANGED <<first, prev>>
     /\ free({last})
     /\ length' = length - 1

\* Mutant: the node after the one that goes is freed in its place.
List_dequeue_frees_next ==
  \/ returnNull
  \/ /\ length > 0
     /\ result' = data[first]
     /\ \/ unlinkOnly /\ free({first})
        \/ /\ length > 1
           /\ first' = next[first]
           /\ prev' = [prev EXCEPT ![next[first]] = NULL]
           /\ free({next[first]})
           /\ UNCHANGED <<last, next>>
     /\ length' = length - 1

List_dequeue ==
  \/ returnNull
  \/ /\ length > 0
     /\ result' = data[first]
     /\ \/ unlinkOnly /\ free({first})
        \/ /\ length > 1
           /\ first' = next[first]
           /\ prev' = [prev EXCEPT ![next[first]] = NULL]
           /\ free({prev[next[first]]})
           /\ UNCHANGED <<last, next>>
     /\ length' = length - 1

\* The k-th node from an end; a walk over a null pointer stays there.
Along(link, n) == IF n \in Node THEN link[n] ELSE NULL
NthFrom(start, link) ==
  LET at[k \in 1 .. length] == IF k = 1 THEN start ELSE Along(link, at[k - 1])
  IN  at

\* Counts its steps, and so never follows the next field of the last node.
List_clear ==
  /\ LET nth == NthFrom(first, next)
     IN  free({nth[k] : k \in 1 .. length})
  /\ first' = NULL
  /\ last' = NULL
  /\ length' = 0
  /\ result' = NULL
  /\ UNCHANGED <<next, prev>>

-----------------------------------------------------------------------------
Init ==
  /\ List_init
  /\ data = [n \in Node |-> NULL]
  /\ next = [n \in Node |-> NULL]
  /\ prev = [n \in Node |-> NULL]
  /\ allocated = {}
  /\ result = NULL

\* What the interpreter calls.
UsedNext ==
  \/ \E n \in Node, d \in Data, wild \in Pointer : List_push(n, d, wild)
  \/ List_pop
  \/ List_dequeue
  \/ List_clear

Next ==
  \/ UsedNext
  \/ \E n \in Node, d \in Data, wild \in Pointer : List_queue(n, d, wild)

Spec == Init /\ [][Next]_vars

-----------------------------------------------------------------------------
(* Properties.                                                             *)

Forward == NthFrom(first, next)
Backward == NthFrom(last, prev)

\* list.c, for any order of the operations at both ends: the nodes met from
\* either end are the same ones in opposite order, each once, and no other
\* node is allocated. So no operation loses a node or frees one in use, though
\* the links at the two ends may hold anything.
LinkedBothWays ==
  /\ \A k \in 1 .. length : Forward[k] = Backward[length + 1 - k]
  /\ {Forward[k] : k \in 1 .. length} = allocated
  /\ Cardinality(allocated) = length

\* The list holds what was put in, in order, and gives it back.
Contents == [k \in 1 .. length |-> IF Forward[k] \in Node THEN data[Forward[k]] ELSE NULL]
Abstract == INSTANCE Deque WITH items <- Contents
ImplementsDeque == Abstract!Spec

\* LIST_FOREACH goes from first along next until NULL, and vm.c, where the
\* marker walks the call stack, and ast_nodes.c rely on it to stop at the last
\* node. List_queue on an empty list breaks that; no operation that the
\* interpreter calls does.
WalkEnds == length > 0 => next[last] = NULL
WalkStaysWhole == [][WalkEnds /\ UsedNext => WalkEnds']_vars
=============================================================================
