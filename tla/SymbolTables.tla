---------------------------- MODULE SymbolTables ----------------------------
(***************************************************************************)
(* map.c, as the machine uses it: one map per frame of the call stack.     *)
(*                                                                         *)
(* A map is a chain of nodes from first to last.  Reads follow next until  *)
(* NULL, Map_clear counts `length` nodes, and nothing but the code keeps   *)
(* the two views together.                                                 *)
(***************************************************************************)
EXTENDS Integers, Sequences, FiniteSets

CONSTANTS
  Key, Data, NULL, Unbound,   \* as in Scopes
  Node,                       \* addresses malloc may return for a MapNode
  MaxFrames                   \* bound of the model: calls at a time

ASSUME TablesAssumption ==
  /\ NULL \notin Node
  /\ Unbound \notin Data \cup {NULL}
  /\ IsFiniteSet(Node)
  /\ MaxFrames \in Nat \ {0}

VARIABLES
  tables,                  \* the Map of each frame
  key, data, next, prev,   \* the fields of each node
  allocated,               \* nodes malloc'ed and not freed
  result                   \* the last lookup: the name and what Map_get returned

fields == <<key, data, next, prev>>
vars == <<tables, fields, allocated, result>>

Pointer == Node \cup {NULL}
Map == [first : Pointer, last : Pointer, length : 0 .. Cardinality(Node)]

-----------------------------------------------------------------------------
Map_create == [first |-> NULL, last |-> NULL, length |-> 0]

\* The nodes a walk from first along next meets, as a function of the step;
\* one that has come to NULL stays there.
Along(n) == IF n = NULL THEN NULL ELSE next[n]
Walk(first) ==
  LET at[k \in 0 .. Cardinality(Node)] == IF k = 0 THEN first ELSE Along(at[k - 1])
  IN  at
Chain(map) ==
  LET walk == Walk(map.first)
  IN  {walk[k] : k \in DOMAIN walk} \ {NULL}

\* The first node with that key, or NULL.
_Map_get_node(map, k) ==
  LET walk == Walk(map.first)
      hits == {i \in DOMAIN walk : walk[i] # NULL /\ key[walk[i]] = k}
  IN  IF hits = {} THEN NULL
      ELSE walk[CHOOSE i \in hits : \A j \in hits : i <= j]

\* Frees `count` nodes from first on; what is left in them does not matter.
Freed(map, count) ==
  LET walk == Walk(map.first)
  IN  {walk[k] : k \in 0 .. count - 1}
Clear(nodes) ==
  LET cleared(field) == [n \in Node |-> IF n \in nodes THEN NULL ELSE field[n]]
  IN  /\ allocated' = allocated \ nodes
      /\ key' = cleared(key)
      /\ data' = cleared(data)
      /\ next' = cleared(next)
      /\ prev' = cleared(prev)

Current == tables[Len(tables)]
SetCurrent(map) == tables' = [tables EXCEPT ![Len(tables)] = map]

\* A new node at the end of the current map.
Link(n, k, d) ==
  /\ allocated' = allocated \cup {n}
  /\ key' = [key EXCEPT ![n] = k]
  /\ data' = [data EXCEPT ![n] = d]
  /\ IF Current.length = 0
     THEN /\ next' = [next EXCEPT ![n] = NULL]
          /\ prev' = [prev EXCEPT ![n] = NULL]
          /\ SetCurrent([first |-> n, last |-> n, length |-> 1])
     ELSE /\ next' = [next EXCEPT ![n] = NULL, ![Current.last] = n]
          /\ prev' = [prev EXCEPT ![n] = Current.last]
          /\ SetCurrent([Current EXCEPT !.last = n, !.length = @ + 1])

-----------------------------------------------------------------------------
(* Operations.                                                             *)

\* Mutant: the new frame takes the caller's map.
vm_add_stack_frame_shared ==
  /\ Len(tables) < MaxFrames
  /\ tables' = Append(tables, IF tables = <<>> THEN Map_create ELSE Current)
  /\ UNCHANGED <<fields, allocated, result>>

\* A call: derp_vm_create and CODE_CALL.
vm_add_stack_frame ==
  /\ Len(tables) < MaxFrames
  /\ tables' = Append(tables, Map_create)
  /\ UNCHANGED <<fields, allocated, result>>

\* Mutant: the length counts overwriting.
Map_set_counts(n, k, d) ==
  /\ tables # <<>>
  /\ LET node == _Map_get_node(Current, k)
     IN  IF node # NULL
         THEN /\ data' = [data EXCEPT ![node] = d]
              /\ SetCurrent([Current EXCEPT !.length = @ + 1])
              /\ UNCHANGED <<key, next, prev, allocated>>
         ELSE n \notin allocated /\ Link(n, k, d)
  /\ UNCHANGED result

\* CODE_ASSIGN.
Map_set(n, k, d) ==
  /\ tables # <<>>
  /\ LET node == _Map_get_node(Current, k)
     IN  IF node # NULL
         THEN /\ data' = [data EXCEPT ![node] = d]
              /\ UNCHANGED <<tables, key, next, prev, allocated>>
         ELSE n \notin allocated /\ Link(n, k, d)
  /\ UNCHANGED result

\* CODE_PUSH_LOOKUP. not_found_val is NULL.
Map_get(k) ==
  /\ tables # <<>>
  /\ LET node == _Map_get_node(Current, k)
     IN  result' = <<k, IF node = NULL THEN NULL ELSE data[node]>>
  /\ UNCHANGED <<tables, fields, allocated>>

\* Mutant: the loop that frees the nodes stops one short.
Map_destroy_short ==
  /\ tables # <<>>
  /\ Clear(Freed(Current, Current.length - 1))
  /\ tables' = SubSeq(tables, 1, Len(tables) - 1)
  /\ UNCHANGED result

\* CODE_RET and, for every frame down to the root, the backtrace.
Map_destroy ==
  /\ tables # <<>>
  /\ Clear(Freed(Current, Current.length))
  /\ tables' = SubSeq(tables, 1, Len(tables) - 1)
  /\ UNCHANGED result

-----------------------------------------------------------------------------
Init ==
  /\ tables = <<Map_create>>
  /\ key = [n \in Node |-> NULL]
  /\ data = [n \in Node |-> NULL]
  /\ next = [n \in Node |-> NULL]
  /\ prev = [n \in Node |-> NULL]
  /\ allocated = {}
  /\ result = <<NULL, NULL>>

Next ==
  \/ vm_add_stack_frame
  \/ Map_destroy
  \/ \E k \in Key :
       \/ Map_get(k)
       \/ \E n \in Node, d \in Data \cup {NULL} : Map_set(n, k, d)

Spec == Init /\ [][Next]_vars

-----------------------------------------------------------------------------
(* Properties.                                                             *)

TypeOK ==
  /\ tables \in Seq(Map)
  /\ Len(tables) <= MaxFrames
  /\ key \in [Node -> Key \cup {NULL}]
  /\ data \in [Node -> Data \cup {NULL}]
  /\ next \in [Node -> Pointer]
  /\ prev \in [Node -> Pointer]
  /\ allocated \subseteq Node
  /\ result \in (Key \cup {NULL}) \X (Data \cup {NULL})

\* map.c: `length` nodes, from first along next to last and back along prev,
\* with a key each; no node is in the maps of two frames, and none is
\* allocated that no map holds. So what Map_clear counts is what the walks of
\* Map_get and of the marker see, and a return frees the callee's nodes only.
ChainsWhole ==
  /\ \A f \in DOMAIN tables :
       LET map == tables[f]
           walk == Walk(map.first)
       IN  /\ Cardinality(Chain(map)) = map.length
           /\ map.length > 0 => walk[map.length - 1] = map.last /\ next[map.last] = NULL
           /\ \A i \in 1 .. map.length - 1 : prev[walk[i]] = walk[i - 1]
           /\ \A m, n \in Chain(map) : key[m] = key[n] => m = n
           /\ \A g \in DOMAIN tables : g # f => Chain(map) \cap Chain(tables[g]) = {}
  /\ allocated = UNION {Chain(tables[f]) : f \in DOMAIN tables}

\* The chains are the variables of the calls, each call with its own.
Variables(map) ==
  [k \in Key |-> LET node == _Map_get_node(map, k)
                 IN  IF node = NULL THEN Unbound ELSE data[node]]
Abstract == INSTANCE Scopes WITH scopes <- [f \in DOMAIN tables |-> Variables(tables[f])]
ImplementsScopes == Abstract!Spec
=============================================================================
