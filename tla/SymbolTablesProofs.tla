------------------------- MODULE SymbolTablesProofs -------------------------
(***************************************************************************)
(* Theorems about the maps of SymbolTables.tla, for any sets of names,     *)
(* data and nodes and any depth of calls.                                  *)
(*                                                                         *)
(* The invariant names the nodes of the map of each call in order, c; the  *)
(* walks of map.c meet just these (WalkIs), which turns every lookup into  *)
(* one in c (NodeIs).                                                      *)
(***************************************************************************)
EXTENDS SymbolTables, FiniteSetTheorems, TLAPS, SequenceTheorems

\* Facts about the natural numbers.
Zero(p) == 0
Same(p, n, x) == x
Numbers == INSTANCE Recursion WITH Start <- Zero, Step <- Same

\* The types of the variables; what bounds the length of a map is Fits below.
Types ==
  /\ tables \in Seq([first : Pointer, last : Pointer, length : Nat])
  /\ Len(tables) <= MaxFrames
  /\ key \in [Node -> Key \cup {NULL}]
  /\ data \in [Node -> Data \cup {NULL}]
  /\ next \in [Node -> Pointer]
  /\ prev \in [Node -> Pointer]
  /\ result \in (Key \cup {NULL}) \X (Data \cup {NULL})

\* The positions of the nodes of a map.
In(map) == 0 .. map.length - 1

\* The nodes of the map are s, in order, each with a name of its own.
Chained(map, s) ==
  /\ s \in [In(map) -> Node]
  /\ \A i \in In(map) : key[s[i]] \in Key
  /\ \A i, j \in In(map) : key[s[i]] = key[s[j]] => i = j
  /\ map.length = 0 => map.first = NULL
  /\ map.length > 0 => /\ map.first = s[0]
                       /\ map.last = s[map.length - 1]
                       /\ next[map.last] = NULL
  /\ \A i \in 1 .. map.length - 1 : next[s[i - 1]] = s[i] /\ prev[s[i]] = s[i - 1]

\* The nodes of the map of the f-th call are c[f], and no node is of two calls.
Spells(c) ==
  /\ \A f \in 1 .. Len(tables) : Chained(tables[f], c[f])
  /\ \A f, g \in 1 .. Len(tables) : \A i \in In(tables[f]), j \in In(tables[g]) :
       c[f][i] = c[g][j] => f = g
  /\ \A n : n \in allocated <=> \E f \in 1 .. Len(tables) : \E i \in In(tables[f]) : n = c[f][i]

Chains == [1 .. Len(tables) -> UNION {[In(tables[f]) -> Node] : f \in 1 .. Len(tables)}]
Inv == Types /\ \E c \in Chains : Spells(c)

-----------------------------------------------------------------------------
(* One map.                                                                *)

\* A map has no more nodes than there are.
LEMMA Fits ==
  ASSUME NEW m \in Nat, NEW s \in [0 .. m - 1 -> Node],
         \A i, j \in 0 .. m - 1 : s[i] = s[j] => i = j
  PROVE  m <= Cardinality(Node) /\ Cardinality({s[i] : i \in 0 .. m - 1}) = m
<1>1. IsFiniteSet(Node) /\ Cardinality(Node) \in Nat
  BY TablesAssumption, FS_CardinalityType
<1>2. IsFiniteSet(0 .. m - 1) /\ Cardinality(0 .. m - 1) = m
  BY FS_Interval
<1>3. DEFINE S == {s[i] : i \in 0 .. m - 1}
<1>4. s \in Bijection(0 .. m - 1, S)
  BY DEF Bijection, Injection, Surjection, IsInjective
<1>5. ExistsBijection(0 .. m - 1, S)
  BY <1>4 DEF ExistsBijection
<1>6. IsFiniteSet(S) /\ Cardinality(S) = m
  BY <1>2, <1>5, FS_Bijection
<1>7. S \subseteq Node
  OBVIOUS
<1>8. Cardinality(S) <= Cardinality(Node)
  BY <1>1, <1>7, FS_Subset
<1>9. QED
  BY <1>6, <1>8

\* A chain has a node for each position, and the map no more than there are.
LEMMA ChainFits ==
  ASSUME NEW map, map.length \in Nat, NEW s, Chained(map, s)
  PROVE  /\ map.length <= Cardinality(Node) /\ Cardinality(Node) \in Nat
         /\ Cardinality({s[i] : i \in In(map)}) = map.length
<1>1. Cardinality(Node) \in Nat
  BY TablesAssumption, FS_CardinalityType
<1>2. \A i, j \in In(map) : s[i] = s[j] => i = j
  BY DEF Chained
<1>3. s \in [In(map) -> Node]
  BY DEF Chained
<1>4. QED
  BY <1>1, <1>2, <1>3, Fits DEF In

\* The walk meets the nodes of the chain in order, then NULL.
LEMMA WalkIs ==
  ASSUME NEW map, map.length \in Nat, NEW s, Chained(map, s)
  PROVE  /\ DOMAIN Walk(map.first) = 0 .. Cardinality(Node)
         /\ \A k \in 0 .. Cardinality(Node) :
              Walk(map.first)[k] = IF k < map.length THEN s[k] ELSE NULL
<1> DEFINE K == 0 .. Cardinality(Node)
           Goes(at) == at = [k \in K |-> IF k = 0 THEN map.first ELSE Along(at[k - 1])]
           walk == CHOOSE at : Goes(at)
           r == [k \in K |-> IF k < map.length THEN s[k] ELSE NULL]
<1>1. Walk(map.first) = walk
  BY DEF Walk
<1>2. map.length <= Cardinality(Node) /\ Cardinality(Node) \in Nat
  BY ChainFits
<1>3. \A k \in K : r[k] = IF k = 0 THEN map.first ELSE Along(r[k - 1])
  <2> SUFFICES ASSUME NEW k \in K
               PROVE  r[k] = IF k = 0 THEN map.first ELSE Along(r[k - 1])
    OBVIOUS
  <2>1. CASE k = 0
    BY <1>2, <2>1 DEF Chained
  <2>2. CASE k # 0 /\ k < map.length
    <3>1. k \in 1 .. map.length - 1 /\ k - 1 \in In(map) /\ k - 1 \in K
      BY <1>2, <2>2 DEF In
    <3>2. next[s[k - 1]] = s[k] /\ s[k - 1] # NULL
      BY <3>1, TablesAssumption DEF Chained
    <3>3. r[k] = s[k] /\ r[k - 1] = s[k - 1]
      BY <1>2, <2>2, <3>1
    <3>4. QED
      BY <2>2, <3>2, <3>3 DEF Along
  <2>3. CASE k # 0 /\ k = map.length
    <3>1. k - 1 \in In(map) /\ k - 1 \in K
      BY <1>2, <2>3 DEF In
    <3>2. next[s[k - 1]] = NULL
      BY <1>2, <2>3 DEF Chained
    <3>3. r[k] = NULL /\ r[k - 1] = s[k - 1]
      BY <1>2, <2>3, <3>1 DEF In
    <3>4. QED
      BY <2>3, <3>2, <3>3 DEF Along
  <2>4. CASE k > map.length
    <3>1. r[k] = NULL /\ r[k - 1] = NULL /\ k # 0
      BY <1>2, <2>4
    <3>2. QED
      BY <3>1 DEF Along
  <2>5. QED
    BY <2>1, <2>2, <2>3, <2>4
<1>4. Goes(r)
  <2> HIDE DEF r
  <2>1. r = [k \in K |-> r[k]]
    BY DEF r
  <2>2. QED
    BY <1>3, <2>1
<1>5. Goes(walk)
  BY <1>4
<1> HIDE DEF walk, r
<1> DEFINE Off == {k \in K : walk[k] # r[k]}
<1>6. Off = {}
  <2> SUFFICES ASSUME Off # {}
               PROVE  FALSE
    OBVIOUS
  <2>1. PICK k \in Off : \A j \in Off : k <= j
    <3>1. Off \in SUBSET Nat
      OBVIOUS
    <3>2. QED
      BY <3>1, Numbers!Least
  <2>2. CASE k = 0
    BY <1>3, <1>5, <2>1, <2>2
  <2>3. CASE k # 0
    <3>1. k - 1 \in K /\ k - 1 \notin Off
      BY <1>2, <2>1, <2>3
    <3>2. walk[k - 1] = r[k - 1]
      BY <3>1
    <3>3. QED
      BY <1>3, <1>5, <2>1, <2>3, <3>2
  <2>4. QED
    BY <2>2, <2>3
<1>7. DOMAIN walk = K
  BY <1>5
<1>8. QED
  BY <1>1, <1>6, <1>7 DEF r

LEMMA ChainIs ==
  ASSUME NEW map, map.length \in Nat, NEW s, Chained(map, s)
  PROVE  Chain(map) = {s[i] : i \in In(map)}
<1>0. map.length <= Cardinality(Node) /\ Cardinality(Node) \in Nat
  BY ChainFits
<1>1. \A i \in In(map) : i \in 0 .. Cardinality(Node) /\ s[i] # NULL /\ i < map.length
  BY <1>0, TablesAssumption DEF Chained, In
<1>2. \A k \in 0 .. Cardinality(Node) : k < map.length => k \in In(map)
  BY DEF In
<1>3. /\ DOMAIN Walk(map.first) = 0 .. Cardinality(Node)
      /\ \A k \in 0 .. Cardinality(Node) :
           Walk(map.first)[k] = IF k < map.length THEN s[k] ELSE NULL
  BY WalkIs
<1>4. QED
  BY <1>1, <1>2, <1>3 DEF Chain

\* The lookup finds the one node of that name, if there is one.
LEMMA NodeIs ==
  ASSUME NEW map, map.length \in Nat, NEW s, Chained(map, s), NEW k
  PROVE  /\ (\A i \in In(map) : key[s[i]] # k) => _Map_get_node(map, k) = NULL
         /\ \A i \in In(map) : key[s[i]] = k => _Map_get_node(map, k) = s[i]
<1> DEFINE walk == Walk(map.first)
           hits == {i \in DOMAIN walk : walk[i] # NULL /\ key[walk[i]] = k}
<1>0. map.length <= Cardinality(Node) /\ Cardinality(Node) \in Nat
  BY ChainFits
<1>1. \A i \in In(map) : i \in 0 .. Cardinality(Node) /\ s[i] # NULL /\ i < map.length
  BY <1>0, TablesAssumption DEF Chained, In
<1>2. \A i \in 0 .. Cardinality(Node) : i < map.length => i \in In(map)
  BY DEF In
<1>3. hits = {i \in In(map) : key[s[i]] = k}
  BY <1>1, <1>2, WalkIs
<1>4. _Map_get_node(map, k) = IF hits = {} THEN NULL
                              ELSE walk[CHOOSE i \in hits : \A j \in hits : i <= j]
  BY DEF _Map_get_node
<1>5. ASSUME NEW i \in In(map), key[s[i]] = k
      PROVE  _Map_get_node(map, k) = s[i]
  <2>1. hits = {i}
    BY <1>3, <1>5 DEF Chained
  <2>2. i <= i
    BY DEF In
  <2> HIDE DEF hits
  <2>3. (CHOOSE m \in hits : \A j \in hits : m <= j) = i
    BY <2>1, <2>2
  <2>4. walk[i] = s[i]
    BY <1>1, WalkIs
  <2>5. QED
    BY <1>4, <2>1, <2>3, <2>4
<1>6. QED
  BY <1>3, <1>4, <1>5

LEMMA FreedIs ==
  ASSUME NEW map, map.length \in Nat, NEW s, Chained(map, s)
  PROVE  Freed(map, map.length) = {s[i] : i \in In(map)}
<1>0. map.length <= Cardinality(Node) /\ Cardinality(Node) \in Nat
  BY ChainFits
<1>1. \A i \in In(map) : i \in 0 .. Cardinality(Node) /\ i < map.length
  BY <1>0 DEF In
<1>2. QED
  BY <1>1, WalkIs DEF Freed, In

-----------------------------------------------------------------------------
(* What the invariant says.                                                *)

LEMMA Shape ==
  ASSUME Types
  PROVE  /\ Len(tables) \in Nat /\ DOMAIN tables = 1 .. Len(tables)
         /\ \A f \in 1 .. Len(tables) :
              /\ tables[f] \in [first : Pointer, last : Pointer, length : Nat]
              /\ tables[f].length \in Nat
<1> DEFINE Shapes == [first : Pointer, last : Pointer, length : Nat]
<1>1. tables \in Seq(Shapes)
  BY DEF Types
<1>2. \A map \in Shapes : map.length \in Nat
  OBVIOUS
<1> HIDE DEF Shapes
<1>3. /\ Len(tables) \in Nat /\ DOMAIN tables = 1 .. Len(tables)
      /\ \A f \in 1 .. Len(tables) : tables[f] \in Shapes
  BY <1>1
<1>4. QED
  BY <1>2, <1>3 DEF Shapes

LEMMA InvImpliesTypeOK ==
  ASSUME Inv
  PROVE  TypeOK
<1>1. PICK c \in Chains : Spells(c)
  BY DEF Inv
<1>2. Types
  BY DEF Inv
<1>3. ASSUME NEW f \in 1 .. Len(tables)
      PROVE  tables[f] \in Map
  <2>1. /\ tables[f] \in [first : Pointer, last : Pointer, length : Nat]
        /\ tables[f].length \in Nat /\ Chained(tables[f], c[f])
    BY <1>1, <1>2, Shape DEF Spells
  <2>2. tables[f].length <= Cardinality(Node) /\ Cardinality(Node) \in Nat
    BY <2>1, ChainFits
  <2>3. tables[f].length \in 0 .. Cardinality(Node)
    BY <2>1, <2>2
  <2>4. QED
    BY <2>1, <2>3 DEF Map
<1>4. tables \in Seq(Map)
  BY <1>2, <1>3, Shape DEF Types
<1>5. allocated \subseteq Node
  BY <1>1 DEF Spells, Chained
<1>6. QED
  BY <1>2, <1>4, <1>5 DEF Types, TypeOK

LEMMA InvImpliesWhole ==
  ASSUME Inv
  PROVE  ChainsWhole
<1>1. PICK c \in Chains : Spells(c)
  BY DEF Inv
<1>2. DOMAIN tables = 1 .. Len(tables)
  BY Shape DEF Inv
<1>3. ASSUME NEW f \in 1 .. Len(tables)
      PROVE  Chain(tables[f]) = {c[f][i] : i \in In(tables[f])}
  BY <1>1, <1>3, ChainIs, Shape DEF Inv, Spells
<1>4. ASSUME NEW f \in 1 .. Len(tables), NEW map, map = tables[f],
             NEW walk, walk = Walk(map.first)
      PROVE  /\ Cardinality(Chain(map)) = map.length
             /\ map.length > 0 => walk[map.length - 1] = map.last /\ next[map.last] = NULL
             /\ \A i \in 1 .. map.length - 1 : prev[walk[i]] = walk[i - 1]
             /\ \A m, n \in Chain(map) : key[m] = key[n] => m = n
  <2>1. map.length \in Nat /\ Chained(map, c[f])
    BY <1>1, <1>4, Shape DEF Inv, Spells
  <2>2. /\ map.length <= Cardinality(Node) /\ Cardinality(Node) \in Nat
        /\ Cardinality({c[f][i] : i \in In(map)}) = map.length
    BY <2>1, ChainFits
  <2>3. \A k \in 0 .. Cardinality(Node) : walk[k] = IF k < map.length THEN c[f][k] ELSE NULL
    BY <1>4, <2>1, WalkIs
  <2>4. map.length > 0 => walk[map.length - 1] = map.last /\ next[map.last] = NULL
    <3> SUFFICES ASSUME map.length > 0
                 PROVE  walk[map.length - 1] = map.last /\ next[map.last] = NULL
      OBVIOUS
    <3>1. map.length - 1 \in 0 .. Cardinality(Node) /\ map.length - 1 < map.length
      BY <2>1, <2>2
    <3>2. QED
      BY <2>1, <2>3, <3>1 DEF Chained
  <2>5. ASSUME NEW i \in 1 .. map.length - 1
        PROVE  prev[walk[i]] = walk[i - 1]
    <3>1. /\ i \in 0 .. Cardinality(Node) /\ i < map.length
          /\ i - 1 \in 0 .. Cardinality(Node) /\ i - 1 < map.length
      BY <2>1, <2>2
    <3>2. QED
      BY <2>1, <2>3, <3>1 DEF Chained
  <2>6. Chain(map) = {c[f][i] : i \in In(map)}
    BY <1>3, <1>4
  <2>7. QED
    BY <2>1, <2>2, <2>4, <2>5, <2>6 DEF Chained
<1>5. ASSUME NEW f \in 1 .. Len(tables), NEW g \in 1 .. Len(tables), g # f
      PROVE  Chain(tables[f]) \cap Chain(tables[g]) = {}
  <2> SUFFICES ASSUME NEW n \in Chain(tables[f]), n \in Chain(tables[g])
               PROVE  FALSE
    OBVIOUS
  <2>1. /\ Chain(tables[f]) = {c[f][i] : i \in In(tables[f])}
        /\ Chain(tables[g]) = {c[g][i] : i \in In(tables[g])}
    BY <1>3
  <2>2. PICK i \in In(tables[f]) : n = c[f][i]
    BY <2>1
  <2>3. PICK j \in In(tables[g]) : n = c[g][j]
    BY <2>1
  <2>4. QED
    BY <1>1, <1>5, <2>2, <2>3 DEF Spells
<1>6. allocated = UNION {Chain(tables[f]) : f \in 1 .. Len(tables)}
  <2>1. ASSUME NEW n \in allocated
        PROVE  \E f \in 1 .. Len(tables) : n \in Chain(tables[f])
    <3>1. PICK f \in 1 .. Len(tables) : \E i \in In(tables[f]) : n = c[f][i]
      BY <1>1 DEF Spells
    <3>2. Chain(tables[f]) = {c[f][i] : i \in In(tables[f])}
      BY <1>3
    <3>3. QED
      BY <3>1, <3>2
  <2>2. ASSUME NEW f \in 1 .. Len(tables), NEW n \in Chain(tables[f])
        PROVE  n \in allocated
    <3>1. Chain(tables[f]) = {c[f][i] : i \in In(tables[f])}
      BY <1>3
    <3>2. \E i \in In(tables[f]) : n = c[f][i]
      BY <3>1
    <3>3. QED
      BY <1>1, <3>2 DEF Spells
  <2>3. QED
    BY <2>1, <2>2
<1>7. QED
  BY <1>2, <1>4, <1>5, <1>6 DEF ChainsWhole

-----------------------------------------------------------------------------
(* What each operation makes of the chains c.                              *)

Entered(c)   == [f \in 1 .. Len(tables) + 1 |->
                   IF f = Len(tables) + 1 THEN [i \in In(Map_create) |-> NULL] ELSE c[f]]
Left(c)      == [f \in 1 .. Len(tables) - 1 |-> c[f]]
Grown(s, m, n) == [i \in 0 .. m |-> IF i = m THEN n ELSE s[i]]
Linked(c, n) == [f \in 1 .. Len(tables) |->
                   IF f = Len(tables) THEN Grown(c[f], Current.length, n) ELSE c[f]]

\* A map is as it was if the fields of its nodes are.
LEMMA ChainRests ==
  ASSUME NEW map, map.length \in Nat, NEW s, Chained(map, s),
         \A i \in In(map) : /\ key'[s[i]] = key[s[i]]
                            /\ next'[s[i]] = next[s[i]]
                            /\ prev'[s[i]] = prev[s[i]]
  PROVE  Chained(map, s)'
<1>1. map.length > 0 => map.length - 1 \in In(map)
  BY DEF In
<1>2. \A i \in 1 .. map.length - 1 : i \in In(map) /\ i - 1 \in In(map)
  BY DEF In
<1>3. /\ s \in [In(map) -> Node]
      /\ \A i \in In(map) : key'[s[i]] \in Key
      /\ \A i, j \in In(map) : key'[s[i]] = key'[s[j]] => i = j
  BY DEF Chained
<1>4. /\ map.length = 0 => map.first = NULL
      /\ map.length > 0 => /\ map.first = s[0]
                           /\ map.last = s[map.length - 1]
                           /\ next'[map.last] = NULL
  BY <1>1 DEF Chained
<1>5. \A i \in 1 .. map.length - 1 : next'[s[i - 1]] = s[i] /\ prev'[s[i]] = s[i - 1]
  BY <1>2 DEF Chained
<1>6. QED
  BY <1>3, <1>4, <1>5 DEF Chained, In

LEMMA FrameRests ==
  ASSUME Types, NEW c, Spells(c), NEW f \in 1 .. Len(tables), tables'[f] = tables[f],
         \A i \in In(tables[f]) : /\ key'[c[f][i]] = key[c[f][i]]
                                  /\ next'[c[f][i]] = next[c[f][i]]
                                  /\ prev'[c[f][i]] = prev[c[f][i]]
  PROVE  Chained(tables[f], c[f])'
<1>1. PICK map : map = tables[f]
  OBVIOUS
<1>2. map.length \in Nat /\ Chained(map, c[f])
  BY <1>1, Shape DEF Spells
<1>3. PICK s : s = c[f]
  OBVIOUS
<1>4. Chained(map, s)'
  BY <1>1, <1>2, <1>3, ChainRests
<1>5. map = tables'[f]
  BY <1>1
<1>6. QED
  BY <1>3, <1>4, <1>5 DEF Chained, In

\* The chains are those of d, a function of the calls.
Names(d) == d = [f \in 1 .. Len(tables) |-> d[f]] /\ Spells(d)

LEMMA Named == \A d : Names(d) => d \in Chains
<1> SUFFICES ASSUME NEW d, Names(d)
             PROVE  d \in Chains
  OBVIOUS
<1>1. \A f \in 1 .. Len(tables) : d[f] \in [In(tables[f]) -> Node]
  BY DEF Names, Spells, Chained
<1>2. \A f \in 1 .. Len(tables) : d[f] \in UNION {[In(tables[g]) -> Node] : g \in 1 .. Len(tables)}
  BY <1>1
<1>3. QED
  BY <1>2 DEF Names, Chains

LEMMA NamedNext == \A d : Names(d)' => d \in Chains'
<1>1. (\A d : Names(d) => d \in Chains)'
  BY Named, PTL
<1>2. QED
  BY <1>1

LEMMA InvNext ==
  ASSUME Types', NEW d, Names(d)'
  PROVE  Inv'
BY NamedNext DEF Inv, Names

LEMMA NoneChained ==
  ASSUME NEW map, map.length = 0, map.first = NULL, NEW s, s = [i \in In(map) |-> NULL]
  PROVE  Chained(map, s) /\ Chained(map, s)'
<1>1. In(map) = {} /\ 1 .. map.length - 1 = {}
  BY DEF In
<1>2. s \in [In(map) -> Node]
  BY <1>1
<1>3. Chained(map, s)
  BY <1>1, <1>2 DEF Chained
<1>4. Chained(map, s)'
  BY <1>1, <1>2 DEF Chained, In
<1>5. QED
  BY <1>3, <1>4

LEMMA EnterKeeps ==
  ASSUME Types, NEW c \in Chains, Spells(c), vm_add_stack_frame,
         NEW d, d = Entered(c)
  PROVE  Types' /\ Names(d)'
<1> DEFINE Shapes == [first : Pointer, last : Pointer, length : Nat]
<1>1. tables \in Seq(Shapes) /\ Map_create \in Shapes /\ Len(tables) \in Nat
  BY DEF Types, Map_create, Pointer
<1>2. /\ tables' \in Seq(Shapes) /\ Len(tables') = Len(tables) + 1
      /\ \A f \in 1 .. Len(tables) : tables'[f] = tables[f]
      /\ tables'[Len(tables) + 1] = Map_create
  <2> HIDE DEF Shapes
  <2>1. tables' = Append(tables, Map_create)
    BY DEF vm_add_stack_frame
  <2>2. QED
    BY <1>1, <2>1, AppendProperties
<1>3. /\ key' = key /\ data' = data /\ next' = next /\ prev' = prev
      /\ allocated' = allocated /\ result' = result /\ Len(tables) < MaxFrames
  BY DEF vm_add_stack_frame, fields
<1>4. Types'
  BY <1>1, <1>2, <1>3, TablesAssumption DEF Types
<1>5. /\ \A f \in 1 .. Len(tables) : d[f] = c[f]
      /\ d[Len(tables) + 1] = [i \in In(Map_create) |-> NULL]
      /\ d = [f \in 1 .. Len(tables') |-> d[f]]
  BY <1>1, <1>2 DEF Entered
<1>6. In(Map_create) = {} /\ Map_create.length = 0 /\ Map_create.first = NULL
  BY DEF In, Map_create
<1>7. \A f \in 1 .. Len(tables') : f = Len(tables) + 1 \/ f \in 1 .. Len(tables)
  BY <1>1, <1>2
<1>8. ASSUME NEW f \in 1 .. Len(tables')
      PROVE  Chained(tables[f], d[f])'
  <2>1. CASE f \in 1 .. Len(tables)
    <3>1. Chained(tables[f], c[f])'
      BY <1>2, <1>3, <2>1, FrameRests
    <3>2. QED
      BY <1>5, <2>1, <3>1 DEF Chained
  <2>2. CASE f = Len(tables) + 1
    <3>1. PICK map, s : map = tables'[f] /\ s = d[f]
      OBVIOUS
    <3>2. map = Map_create /\ s = [i \in In(map) |-> NULL]
      BY <1>2, <1>5, <2>2, <3>1
    <3>3. Chained(map, s)'
      BY <1>6, <3>2, NoneChained
    <3>4. QED
      BY <3>1, <3>3 DEF Chained, In
  <2>3. QED
    BY <1>7, <2>1, <2>2
<1>9. \A f \in 1 .. Len(tables') : \A i \in In(tables'[f]) : f \in 1 .. Len(tables)
  BY <1>2, <1>6, <1>7
<1>10. \A f, g \in 1 .. Len(tables') : \A i \in In(tables'[f]), j \in In(tables'[g]) :
         d[f][i] = d[g][j] => f = g
  <2> SUFFICES ASSUME NEW f \in 1 .. Len(tables'), NEW g \in 1 .. Len(tables'),
                      NEW i \in In(tables'[f]), NEW j \in In(tables'[g]), d[f][i] = d[g][j]
               PROVE  f = g
    OBVIOUS
  <2>1. f \in 1 .. Len(tables) /\ g \in 1 .. Len(tables)
    BY <1>9
  <2>2. tables'[f] = tables[f] /\ tables'[g] = tables[g] /\ c[f][i] = c[g][j]
    BY <1>2, <1>5, <2>1
  <2>3. QED
    BY <2>1, <2>2 DEF Spells
<1>11. \A n : n \in allocated' <=>
         \E f \in 1 .. Len(tables') : \E i \in In(tables'[f]) : n = d[f][i]
  <2>1. \A f \in 1 .. Len(tables) : f \in 1 .. Len(tables')
    BY <1>1, <1>2
  <2>2. \A n : n \in allocated <=> \E f \in 1 .. Len(tables) : \E i \in In(tables[f]) : n = c[f][i]
    BY DEF Spells
  <2>3. ASSUME NEW n, n \in allocated'
        PROVE  \E f \in 1 .. Len(tables') : \E i \in In(tables'[f]) : n = d[f][i]
    <3>1. PICK f \in 1 .. Len(tables) : \E i \in In(tables[f]) : n = c[f][i]
      BY <1>3, <2>2, <2>3
    <3>2. f \in 1 .. Len(tables') /\ tables'[f] = tables[f] /\ d[f] = c[f]
      BY <1>2, <1>5, <2>1
    <3>3. QED
      BY <3>1, <3>2
  <2>4. ASSUME NEW f \in 1 .. Len(tables'), NEW i \in In(tables'[f])
        PROVE  d[f][i] \in allocated'
    <3>1. f \in 1 .. Len(tables)
      BY <1>9
    <3>2. tables'[f] = tables[f] /\ d[f] = c[f]
      BY <1>2, <1>5, <3>1
    <3>3. QED
      BY <1>3, <2>2, <3>1, <3>2
  <2>5. QED
    BY <2>3, <2>4
<1>12. QED
  BY <1>4, <1>5, <1>8, <1>10, <1>11 DEF Names, Spells, In

LEMMA LeaveKeeps ==
  ASSUME Types, NEW c \in Chains, Spells(c), Map_destroy,
         NEW d, d = Left(c)
  PROVE  /\ Types' /\ Names(d)'
         /\ Len(tables') = Len(tables) - 1 /\ Len(tables) > 0
         /\ \A f \in 1 .. Len(tables) - 1 :
              /\ tables'[f] = tables[f]
              /\ \A i \in In(tables[f]) : /\ key'[c[f][i]] = key[c[f][i]]
                                         /\ data'[c[f][i]] = data[c[f][i]]
<1> DEFINE Shapes == [first : Pointer, last : Pointer, length : Nat]
           Gone == {c[Len(tables)][i] : i \in In(Current)}
<1>1. tables \in Seq(Shapes) /\ tables # <<>>
  BY DEF Types, Map_destroy
<1>2. Len(tables) \in Nat /\ Len(tables) > 0 /\ Len(tables) \in 1 .. Len(tables)
  <2> HIDE DEF Shapes
  <2>1. QED
    BY <1>1
<1>3. /\ tables' \in Seq(Shapes) /\ Len(tables') = Len(tables) - 1
      /\ \A f \in 1 .. Len(tables) - 1 : tables'[f] = tables[f]
  <2> HIDE DEF Shapes
  <2>1. tables' = SubSeq(tables, 1, Len(tables) - 1)
    BY DEF Map_destroy
  <2>2. /\ SubSeq(tables, 1, Len(tables) - 1) \in Seq(Shapes)
        /\ Len(SubSeq(tables, 1, Len(tables) - 1)) = Len(tables) - 1
    BY <1>1, <1>2
  <2>3. ASSUME NEW f \in 1 .. Len(tables) - 1
        PROVE  SubSeq(tables, 1, Len(tables) - 1)[f] = tables[f]
    <3>1. f \in 1 .. (Len(tables) - 1) - 1 + 1 /\ 1 + f - 1 = f
      BY <1>2
    <3>2. QED
      BY <1>1, <1>2, <3>1
  <2>4. QED
    BY <2>1, <2>2, <2>3
<1>4. Freed(Current, Current.length) = Gone
  <2>1. Current = tables[Len(tables)]
    BY DEF Current
  <2>2. tables[Len(tables)].length \in Nat /\ Chained(tables[Len(tables)], c[Len(tables)])
    BY <1>2, Shape DEF Spells
  <2> HIDE DEF Shapes
  <2>3. PICK map, s : map = Current /\ s = c[Len(tables)]
    OBVIOUS
  <2>4. map.length \in Nat /\ Chained(map, s)
    BY <2>1, <2>2, <2>3
  <2>5. Freed(map, map.length) = {s[i] : i \in In(map)}
    BY <2>4, FreedIs
  <2>6. {s[i] : i \in In(map)} = Gone
    BY <2>3
  <2>7. QED
    BY <2>3, <2>5, <2>6
<1>5. /\ allocated' = allocated \ Gone
      /\ key' = [n \in Node |-> IF n \in Gone THEN NULL ELSE key[n]]
      /\ data' = [n \in Node |-> IF n \in Gone THEN NULL ELSE data[n]]
      /\ next' = [n \in Node |-> IF n \in Gone THEN NULL ELSE next[n]]
      /\ prev' = [n \in Node |-> IF n \in Gone THEN NULL ELSE prev[n]]
      /\ result' = result
  BY <1>4 DEF Map_destroy, Clear
<1>6. Types'
  <2>1. /\ key' \in [Node -> Key \cup {NULL}] /\ data' \in [Node -> Data \cup {NULL}]
        /\ next' \in [Node -> Pointer] /\ prev' \in [Node -> Pointer]
    BY <1>5 DEF Types, Pointer
  <2>2. Len(tables') <= MaxFrames
    BY <1>2, <1>3, TablesAssumption DEF Types
  <2>3. QED
    BY <1>3, <1>5, <2>1, <2>2 DEF Types
<1>7. /\ \A f \in 1 .. Len(tables) - 1 : f \in 1 .. Len(tables) /\ f # Len(tables) /\ d[f] = c[f]
      /\ d = [f \in 1 .. Len(tables') |-> d[f]]
  BY <1>2, <1>3 DEF Left
<1>8. ASSUME NEW f \in 1 .. Len(tables) - 1, NEW i \in In(tables[f])
      PROVE  /\ c[f][i] \in Node \ Gone
             /\ key'[c[f][i]] = key[c[f][i]]
             /\ data'[c[f][i]] = data[c[f][i]]
             /\ next'[c[f][i]] = next[c[f][i]]
             /\ prev'[c[f][i]] = prev[c[f][i]]
  <2>1. c[f][i] \in Node
    BY <1>7 DEF Spells, Chained
  <2>2. \A j \in In(Current) : c[f][i] # c[Len(tables)][j]
    BY <1>2, <1>7 DEF Spells, Current
  <2>3. QED
    BY <1>5, <2>1, <2>2
<1>9. ASSUME NEW f \in 1 .. Len(tables')
      PROVE  Chained(tables[f], d[f])'
  <2>1. f \in 1 .. Len(tables) - 1
    BY <1>3
  <2>2. Chained(tables[f], c[f])'
    BY <1>3, <1>7, <1>8, <2>1, FrameRests
  <2>3. QED
    BY <1>7, <2>1, <2>2 DEF Chained
<1>10. \A f, g \in 1 .. Len(tables') : \A i \in In(tables'[f]), j \in In(tables'[g]) :
         d[f][i] = d[g][j] => f = g
  <2> SUFFICES ASSUME NEW f \in 1 .. Len(tables'), NEW g \in 1 .. Len(tables'),
                      NEW i \in In(tables'[f]), NEW j \in In(tables'[g]), d[f][i] = d[g][j]
               PROVE  f = g
    OBVIOUS
  <2>1. /\ f \in 1 .. Len(tables) /\ g \in 1 .. Len(tables)
        /\ tables'[f] = tables[f] /\ tables'[g] = tables[g] /\ c[f][i] = c[g][j]
    BY <1>3, <1>7
  <2>2. QED
    BY <2>1 DEF Spells
<1>11. \A n : n \in allocated' <=>
         \E f \in 1 .. Len(tables') : \E i \in In(tables'[f]) : n = d[f][i]
  <2>1. ASSUME NEW n, n \in allocated'
        PROVE  \E f \in 1 .. Len(tables') : \E i \in In(tables'[f]) : n = d[f][i]
    <3>1. PICK f \in 1 .. Len(tables) : \E i \in In(tables[f]) : n = c[f][i]
      BY <1>5, <2>1 DEF Spells
    <3>2. f # Len(tables)
      BY <1>5, <2>1, <3>1 DEF Current
    <3>3. f \in 1 .. Len(tables) - 1
      BY <1>2, <3>2
    <3>4. f \in 1 .. Len(tables') /\ tables'[f] = tables[f] /\ d[f] = c[f]
      BY <1>3, <1>7, <3>3
    <3>5. QED
      BY <3>1, <3>4
  <2>2. ASSUME NEW f \in 1 .. Len(tables'), NEW i \in In(tables'[f])
        PROVE  d[f][i] \in allocated'
    <3>1. f \in 1 .. Len(tables) - 1 /\ tables'[f] = tables[f] /\ d[f] = c[f]
      BY <1>3, <1>7
    <3>2. c[f][i] \in allocated
      BY <1>7, <3>1 DEF Spells
    <3>3. QED
      BY <1>5, <1>8, <3>1, <3>2
  <2>3. QED
    BY <2>1, <2>2
<1>12. QED
  BY <1>2, <1>3, <1>6, <1>7, <1>8, <1>9, <1>10, <1>11 DEF Names, Spells, In

\* A lookup, an assignment to a name that is there, and a step of another
\* component leave the chains alone.
LEMMA RestKeeps ==
  ASSUME Types, NEW c \in Chains, Spells(c), UNCHANGED <<tables, key, next, prev, allocated>>
  PROVE  Names(c)'
<1>1. /\ tables' = tables /\ key' = key /\ next' = next /\ prev' = prev
      /\ allocated' = allocated
  OBVIOUS
<1>2. c = [f \in 1 .. Len(tables') |-> c[f]]
  BY <1>1 DEF Chains
<1>3. \A f \in 1 .. Len(tables') : Chained(tables[f], c[f])'
  BY <1>1 DEF Spells, Chained, In
<1>4. QED
  BY <1>1, <1>2, <1>3 DEF Names, Spells, In

\* A name that has no node yet gets the node n at the end of the chain.
LEMMA GrownChained ==
  ASSUME NEW map, map.length \in Nat, NEW s, Chained(map, s), Types,
         NEW n \in Node, NEW k \in Key, \A i \in In(map) : s[i] # n /\ key[s[i]] # k,
         key' = [key EXCEPT ![n] = k],
         NEW t, t.length = map.length + 1, t.last = n,
         t.first = IF map.length = 0 THEN n ELSE map.first,
         map.length = 0 => next' = [next EXCEPT ![n] = NULL],
         map.length > 0 => /\ next' = [next EXCEPT ![n] = NULL, ![map.last] = n]
                           /\ prev' = [prev EXCEPT ![n] = map.last]
  PROVE  Chained(t, Grown(s, map.length, n))'
<1> DEFINE m == map.length
<1>1. PICK r : r = Grown(s, m, n)
  OBVIOUS
<1>2. In(map) = 0 .. m - 1 /\ In(t) = 0 .. m /\ m \in Nat
  BY DEF In
<1>3. r = [i \in 0 .. m |-> IF i = m THEN n ELSE s[i]]
  BY <1>1 DEF Grown
<1>4. /\ s \in [In(map) -> Node]
      /\ \A i \in In(map) : key[s[i]] \in Key
      /\ \A i, j \in In(map) : key[s[i]] = key[s[j]] => i = j
      /\ m > 0 => map.first = s[0] /\ map.last = s[m - 1]
      /\ \A i \in 1 .. m - 1 : next[s[i - 1]] = s[i] /\ prev[s[i]] = s[i - 1]
  BY DEF Chained
<1>5. /\ r[m] = n /\ \A i \in In(map) : r[i] = s[i] /\ s[i] \in Node /\ s[i] # n
      /\ r \in [In(t) -> Node]
      /\ \A i \in In(t) : i = m \/ i \in In(map)
  BY <1>2, <1>3, <1>4
<1>6. key'[n] = k /\ \A i \in In(map) : key'[s[i]] = key[s[i]]
  BY <1>5 DEF Types
<1>7. /\ \A i \in In(t) : key'[r[i]] \in Key
      /\ \A i, j \in In(t) : key'[r[i]] = key'[r[j]] => i = j
  BY <1>4, <1>5, <1>6
<1>8. CASE m = 0
  <2>1. next'[n] = NULL
    BY <1>8 DEF Types
  <2>2. t.first = r[0] /\ t.last = r[0] /\ t.length = 1 /\ next'[t.last] = NULL
    BY <1>5, <1>8, <2>1
  <2>3. QED
    BY <1>1, <1>2, <1>5, <1>7, <1>8, <2>2 DEF Chained, In
<1>9. CASE m > 0
  <2>1. m - 1 \in In(map) /\ map.last = s[m - 1] /\ s[m - 1] \in Node /\ s[m - 1] # n
    BY <1>2, <1>4, <1>5, <1>9
  <2>2. next' = [next EXCEPT ![n] = NULL, ![s[m - 1]] = n] /\ prev' = [prev EXCEPT ![n] = s[m - 1]]
    BY <1>9, <2>1
  <2>3. next'[n] = NULL /\ next'[s[m - 1]] = n /\ prev'[n] = s[m - 1]
    BY <2>1, <2>2 DEF Types
  <2>4. t.first = r[0] /\ t.last = r[m] /\ next'[r[m]] = NULL /\ t.length = m + 1
    <3>1. 0 \in In(map)
      BY <1>2, <1>9
    <3>2. QED
      BY <1>4, <1>5, <1>9, <2>3, <3>1
  <2>5. ASSUME NEW i \in 1 .. m
        PROVE  next'[r[i - 1]] = r[i] /\ prev'[r[i]] = r[i - 1]
    <3>1. CASE i = m
      BY <1>2, <1>5, <2>1, <2>3, <3>1
    <3>2. CASE i # m
      <4>1. i \in 1 .. m - 1 /\ i \in In(map) /\ i - 1 \in In(map) /\ i - 1 # m - 1
        BY <1>2, <3>2
      <4>2. s[i - 1] # s[m - 1]
        BY <1>4, <2>1, <4>1
      <4>3. QED
        BY <1>4, <1>5, <2>1, <2>2, <4>1, <4>2 DEF Types
    <3>3. QED
      BY <3>1, <3>2
  <2>6. t.length - 1 = m /\ ~ (t.length = 0)
    BY <1>2
  <2>7. QED
    <3>1. Chained(t, r)'
      BY <1>2, <1>5, <1>7, <1>9, <2>4, <2>5, <2>6 DEF Chained, In
    <3>2. QED
      BY <1>1, <3>1
<1>10. QED
  BY <1>2, <1>8, <1>9

LEMMA LinkKeeps ==
  ASSUME Types, NEW c \in Chains, Spells(c), tables # <<>>,
         NEW n \in Node \ allocated, NEW k \in Key, NEW v \in Data \cup {NULL},
         \A i \in In(Current) : key[c[Len(tables)][i]] # k,
         Link(n, k, v), UNCHANGED result,
         NEW d, d = Linked(c, n)
  PROVE  /\ Types' /\ Names(d)' /\ Len(tables') = Len(tables)
         /\ \A f \in 1 .. Len(tables) - 1 : tables'[f] = tables[f]
         /\ tables'[Len(tables)].length = Current.length + 1
<1> DEFINE Shapes == [first : Pointer, last : Pointer, length : Nat]
           top == Len(tables)
<1>1. tables \in Seq(Shapes) /\ top \in Nat /\ top \in 1 .. top
  <2>1. tables \in Seq(Shapes)
    BY DEF Types
  <2> HIDE DEF Shapes
  <2>2. QED
    BY <2>1
<1>2. PICK map, s : map = Current /\ s = c[top]
  OBVIOUS
<1>3. map \in Shapes /\ map.length \in Nat /\ Chained(map, s) /\ map = tables[top]
  BY <1>1, <1>2, Shape DEF Current, Spells
<1>4. PICK t : t = IF map.length = 0 THEN [first |-> n, last |-> n, length |-> 1]
                   ELSE [map EXCEPT !.last = n, !.length = @ + 1]
  OBVIOUS
<1>5. tables' = [tables EXCEPT ![top] = t]
  BY <1>2, <1>4 DEF Link, SetCurrent
<1>6. /\ t \in Shapes /\ t.length = map.length + 1 /\ t.last = n
      /\ t.first = IF map.length = 0 THEN n ELSE map.first
  <2>1. n \in Pointer /\ map.length + 1 \in Nat
    BY <1>3 DEF Pointer
  <2>2. CASE map.length = 0
    <3>1. t = [first |-> n, last |-> n, length |-> 1]
      BY <1>4, <2>2
    <3>2. QED
      BY <2>1, <2>2, <3>1
  <2>3. CASE map.length # 0
    <3>1. t = [map EXCEPT !.last = n, !.length = map.length + 1]
      BY <1>4, <2>3
    <3>2. QED
      BY <1>3, <2>1, <2>3, <3>1
  <2>4. QED
    BY <2>2, <2>3
<1>7. /\ tables' \in Seq(Shapes) /\ Len(tables') = top /\ tables'[top] = t
      /\ \A f \in 1 .. top : f # top => tables'[f] = tables[f]
  <2> HIDE DEF Shapes
  <2>1. QED
    BY <1>1, <1>5, <1>6
<1>8. /\ allocated' = allocated \cup {n}
      /\ key' = [key EXCEPT ![n] = k] /\ data' = [data EXCEPT ![n] = v]
      /\ map.length = 0 => next' = [next EXCEPT ![n] = NULL] /\ prev' = [prev EXCEPT ![n] = NULL]
      /\ map.length > 0 => /\ next' = [next EXCEPT ![n] = NULL, ![map.last] = n]
                           /\ prev' = [prev EXCEPT ![n] = map.last]
  BY <1>2 DEF Link
<1>9. \A f \in 1 .. top : \A i \in In(tables[f]) : c[f][i] \in allocated /\ c[f][i] \in Node /\ c[f][i] # n
  BY DEF Spells, Chained
<1>10. \A i \in In(map) : s[i] # n /\ key[s[i]] # k /\ s[i] \in allocated
  BY <1>1, <1>2, <1>3, <1>9
<1>11. map.last \in Pointer
  BY <1>3
<1>12. Types'
  <2>1. key' \in [Node -> Key \cup {NULL}] /\ data' \in [Node -> Data \cup {NULL}]
    BY <1>8 DEF Types
  <2>2. next' \in [Node -> Pointer] /\ prev' \in [Node -> Pointer]
    <3>1. map.length = 0 \/ map.length > 0
      BY <1>3
    <3>2. NULL \in Pointer /\ n \in Pointer
      BY DEF Pointer
    <3>3. CASE map.length = 0
      BY <1>8, <3>2, <3>3 DEF Types
    <3>4. CASE map.length > 0
      <4>1. PICK cut : cut = [next EXCEPT ![n] = NULL]
        OBVIOUS
      <4>2. cut \in [Node -> Pointer]
        BY <3>2, <4>1 DEF Types
      <4>3. next' = [cut EXCEPT ![map.last] = n]
        BY <1>8, <3>4, <4>1
      <4>4. prev' \in [Node -> Pointer]
        BY <1>8, <1>11, <3>4 DEF Types
      <4>5. QED
        BY <3>2, <4>2, <4>3, <4>4
    <3>5. QED
      BY <3>1, <3>3, <3>4
  <2>3. QED
    BY <1>7, <2>1, <2>2 DEF Types
<1>13. Chained(t, Grown(s, map.length, n))'
  <2>1. map.length \in Nat /\ Chained(map, s)
    BY <1>3
  <2>2. \A i \in In(map) : s[i] # n /\ key[s[i]] # k
    BY <1>10
  <2>3. /\ t.length = map.length + 1 /\ t.last = n
        /\ t.first = IF map.length = 0 THEN n ELSE map.first
    BY <1>6
  <2>4. /\ map.length = 0 => next' = [next EXCEPT ![n] = NULL]
        /\ map.length > 0 => /\ next' = [next EXCEPT ![n] = NULL, ![map.last] = n]
                             /\ prev' = [prev EXCEPT ![n] = map.last]
    BY <1>8
  <2>5. key' = [key EXCEPT ![n] = k]
    BY <1>8
  <2>6. QED
    BY <2>1, <2>2, <2>3, <2>4, <2>5, GrownChained
<1>14. /\ \A f \in 1 .. top : f # top => d[f] = c[f]
       /\ d[top] = Grown(s, map.length, n)
       /\ d = [f \in 1 .. Len(tables') |-> d[f]]
  BY <1>1, <1>2, <1>7 DEF Linked
<1>15. /\ In(t) = 0 .. map.length /\ map.length \in In(t) /\ d[top][map.length] = n
       /\ \A i \in In(t) : i = map.length \/ i \in In(map)
       /\ \A i \in In(map) : i \in In(t) /\ d[top][i] = s[i]
  BY <1>3, <1>6, <1>14 DEF In, Grown
<1>16. ASSUME NEW f \in 1 .. top, f # top, NEW i \in In(tables[f])
       PROVE  /\ key'[c[f][i]] = key[c[f][i]]
              /\ next'[c[f][i]] = next[c[f][i]]
              /\ prev'[c[f][i]] = prev[c[f][i]]
  <2>1. c[f][i] # n /\ c[f][i] \in Node
    BY <1>9
  <2>2. map.length > 0 => c[f][i] # map.last
    <3> SUFFICES ASSUME map.length > 0
                 PROVE  c[f][i] # s[map.length - 1]
      BY <1>3 DEF Chained
    <3>1. map.length - 1 \in In(tables[top])
      BY <1>3 DEF In
    <3>2. QED
      BY <1>1, <1>2, <1>16, <3>1 DEF Spells
  <2>3. map.length = 0 \/ map.length > 0
    BY <1>3
  <2>4. QED
    BY <1>8, <2>1, <2>2, <2>3 DEF Types
<1>17. ASSUME NEW f \in 1 .. Len(tables')
       PROVE  Chained(tables[f], d[f])'
  <2>1. CASE f # top
    <3>1. Chained(tables[f], c[f])'
      BY <1>7, <1>16, <2>1, FrameRests
    <3>2. QED
      BY <1>7, <1>14, <2>1, <3>1 DEF Chained
  <2>2. CASE f = top
    <3>1. PICK r : r = Grown(s, map.length, n)
      OBVIOUS
    <3>2. Chained(t, r)'
      BY <1>13, <3>1
    <3>3. tables'[f] = t /\ d[f] = r
      BY <1>7, <1>14, <2>2, <3>1
    <3>4. QED
      BY <3>2, <3>3 DEF Chained, In
  <2>3. QED
    BY <2>1, <2>2
\* Each node of d is the new one, of the last call, or the one of c there.
<1>18. ASSUME NEW f \in 1 .. Len(tables'), NEW i \in In(tables'[f])
       PROVE  \/ f = top /\ d[f][i] = n
              \/ f \in 1 .. top /\ i \in In(tables[f]) /\ d[f][i] = c[f][i]
  <2>1. CASE f = top
    BY <1>1, <1>2, <1>3, <1>7, <1>15, <2>1
  <2>2. CASE f # top
    BY <1>7, <1>14, <2>2
  <2>3. QED
    BY <2>1, <2>2
<1>19. \A f, g \in 1 .. Len(tables') : \A i \in In(tables'[f]), j \in In(tables'[g]) :
         d[f][i] = d[g][j] => f = g
  <2> SUFFICES ASSUME NEW f \in 1 .. Len(tables'), NEW g \in 1 .. Len(tables'),
                      NEW i \in In(tables'[f]), NEW j \in In(tables'[g]), d[f][i] = d[g][j]
               PROVE  f = g
    OBVIOUS
  <2>1. \/ f = top /\ d[f][i] = n
        \/ f \in 1 .. top /\ i \in In(tables[f]) /\ d[f][i] = c[f][i]
    BY <1>18
  <2>2. \/ g = top /\ d[g][j] = n
        \/ g \in 1 .. top /\ j \in In(tables[g]) /\ d[g][j] = c[g][j]
    BY <1>18
  <2>3. QED
    BY <1>9, <2>1, <2>2 DEF Spells
<1>20. \A m : m \in allocated' <=>
         \E f \in 1 .. Len(tables') : \E i \in In(tables'[f]) : m = d[f][i]
  <2>1. ASSUME NEW m \in allocated
        PROVE  \E f \in 1 .. Len(tables') : \E i \in In(tables'[f]) : m = d[f][i]
    <3>1. PICK f \in 1 .. top : \E i \in In(tables[f]) : m = c[f][i]
      BY DEF Spells
    <3>2. PICK i \in In(tables[f]) : m = c[f][i]
      BY <3>1
    <3>3. i \in In(tables'[f]) /\ d[f][i] = c[f][i]
      BY <1>2, <1>3, <1>7, <1>14, <1>15
    <3>4. QED
      BY <1>7, <3>2, <3>3
  <2>2. \E f \in 1 .. Len(tables') : \E i \in In(tables'[f]) : n = d[f][i]
    BY <1>1, <1>7, <1>15
  <2>3. ASSUME NEW f \in 1 .. Len(tables'), NEW i \in In(tables'[f])
        PROVE  d[f][i] \in allocated'
    BY <1>8, <1>9, <1>18
  <2>4. QED
    BY <1>8, <2>1, <2>2, <2>3
<1>21. \A f \in 1 .. top - 1 : tables'[f] = tables[f]
  BY <1>1, <1>7
<1>22. QED
  BY <1>2, <1>6, <1>7, <1>12, <1>14, <1>17, <1>19, <1>20, <1>21 DEF Names, Spells, In

\* The map of the call at hand.
LEMMA CurrentIs ==
  ASSUME Types, NEW c, Spells(c), tables # <<>>
  PROVE  /\ Len(tables) \in 1 .. Len(tables) /\ Current = tables[Len(tables)]
         /\ Current.length \in Nat /\ Chained(Current, c[Len(tables)])
<1>1. Len(tables) \in 1 .. Len(tables)
  <2> DEFINE Shapes == [first : Pointer, last : Pointer, length : Nat]
  <2>1. tables \in Seq(Shapes)
    BY DEF Types
  <2> HIDE DEF Shapes
  <2>2. QED
    BY <2>1
<1>2. Current = tables[Len(tables)]
  BY DEF Current
<1>3. QED
  BY <1>1, <1>2, Shape DEF Spells

Overwrites(n, v) ==
  /\ data' = [data EXCEPT ![n] = v]
  /\ UNCHANGED <<tables, key, next, prev, allocated>>

\* An assignment overwrites the node of that name or links a new one.
LEMMA AssignCases ==
  ASSUME Types, NEW c, Spells(c), NEW n \in Node, NEW k \in Key, NEW v, Map_set(n, k, v)
  PROVE  \/ \E i \in In(Current) :
              key[c[Len(tables)][i]] = k /\ Overwrites(c[Len(tables)][i], v)
         \/ /\ \A i \in In(Current) : key[c[Len(tables)][i]] # k
            /\ n \notin allocated /\ Link(n, k, v)
<1>1. tables # <<>>
  BY DEF Map_set
<1>2. PICK map, s : map = Current /\ s = c[Len(tables)]
  OBVIOUS
<1>3. map.length \in Nat /\ Chained(map, s)
  BY <1>1, <1>2, CurrentIs
<1>4. CASE \E i \in In(map) : key[s[i]] = k
  <2>1. PICK i \in In(map) : key[s[i]] = k
    BY <1>4
  <2>2. _Map_get_node(map, k) = s[i] /\ s[i] # NULL
    BY <1>3, <2>1, NodeIs, TablesAssumption DEF Chained
  <2>3. QED
    BY <1>2, <2>1, <2>2 DEF Map_set, Overwrites
<1>5. CASE \A i \in In(map) : key[s[i]] # k
  <2>1. _Map_get_node(map, k) = NULL
    BY <1>3, <1>5, NodeIs
  <2>2. QED
    BY <1>2, <1>5, <2>1 DEF Map_set
<1>6. QED
  BY <1>4, <1>5

LEMMA OverwriteKeeps ==
  ASSUME Types, NEW c \in Chains, Spells(c), NEW n, NEW v \in Data \cup {NULL},
         Overwrites(n, v), UNCHANGED result
  PROVE  Types' /\ Names(c)'
<1>1. Names(c)'
  BY RestKeeps DEF Overwrites
<1>2. Types'
  BY DEF Types, Overwrites
<1>3. QED
  BY <1>1, <1>2

LEMMA GetKeeps ==
  ASSUME Types, NEW c \in Chains, Spells(c), NEW k \in Key, Map_get(k)
  PROVE  Types' /\ Names(c)'
<1>1. Names(c)'
  BY RestKeeps DEF Map_get, fields
<1>2. PICK map, s : map = Current /\ s = c[Len(tables)]
  OBVIOUS
<1>3. map.length \in Nat /\ Chained(map, s)
  BY <1>2, CurrentIs DEF Map_get
<1>4. PICK node : node = _Map_get_node(map, k)
  OBVIOUS
<1>5. node = NULL \/ node \in Node
  <2>1. CASE \E i \in In(map) : key[s[i]] = k
    <3>1. PICK i \in In(map) : key[s[i]] = k
      BY <2>1
    <3>2. node = s[i]
      BY <1>3, <1>4, <3>1, NodeIs
    <3>3. QED
      BY <1>3, <3>2 DEF Chained
  <2>2. CASE \A i \in In(map) : key[s[i]] # k
    BY <1>3, <1>4, <2>2, NodeIs
  <2>3. QED
    BY <2>1, <2>2
<1>6. result' = <<k, IF node = NULL THEN NULL ELSE data[node]>>
  BY <1>2, <1>4 DEF Map_get
<1>7. result' \in (Key \cup {NULL}) \X (Data \cup {NULL})
  BY <1>5, <1>6 DEF Types
<1>8. Types'
  BY <1>7 DEF Map_get, fields, Types
<1>9. QED
  BY <1>1, <1>8

-----------------------------------------------------------------------------
LEMMA InitHolds ==
  ASSUME Init
  PROVE  Types /\ \E c : Names(c)
<1>1. PICK map, s : map = Map_create /\ s = [i \in In(map) |-> NULL]
  OBVIOUS
<1>2. PICK c : c = [f \in 1 .. 1 |-> s]
  OBVIOUS
<1>3. tables = <<map>> /\ map.length = 0 /\ map.first = NULL /\ In(map) = {} /\ allocated = {}
  BY <1>1 DEF Init, Map_create, In
<1>4. Len(tables) = 1 /\ tables[1] = map /\ 1 .. Len(tables) = {1} /\ c[1] = s
  BY <1>2, <1>3
<1>5. Chained(map, s)
  BY <1>1, <1>3, NoneChained
<1>6. Types
  <2>1. map \in [first : Pointer, last : Pointer, length : Nat]
    BY <1>1 DEF Map_create, Pointer
  <2>2. tables \in Seq([first : Pointer, last : Pointer, length : Nat])
    BY <1>3, <2>1
  <2>3. Len(tables) <= MaxFrames
    BY <1>4, TablesAssumption
  <2>4. QED
    BY <2>2, <2>3 DEF Types, Init, Pointer
<1>7. Names(c)
  BY <1>2, <1>3, <1>4, <1>5 DEF Names, Spells
<1>8. QED
  BY <1>6, <1>7

LEMMA StepKeeps ==
  ASSUME Inv, [Next]_vars
  PROVE  Inv'
<1>1. PICK c \in Chains : Types /\ Spells(c)
  BY DEF Inv
<1>2. CASE vm_add_stack_frame
  <2>1. PICK d : d = Entered(c)
    OBVIOUS
  <2>2. QED
    BY <1>1, <1>2, <2>1, EnterKeeps, InvNext
<1>3. CASE Map_destroy
  <2>1. PICK d : d = Left(c)
    OBVIOUS
  <2>2. QED
    BY <1>1, <1>3, <2>1, LeaveKeeps, InvNext
<1>4. ASSUME NEW k \in Key, Map_get(k)
      PROVE  Inv'
  BY <1>1, <1>4, GetKeeps, InvNext
<1>5. ASSUME NEW k \in Key, NEW n \in Node, NEW v \in Data \cup {NULL}, Map_set(n, k, v)
      PROVE  Inv'
  <2>1. tables # <<>> /\ UNCHANGED result
    BY <1>5 DEF Map_set
  <2>2. CASE \E i \in In(Current) :
               key[c[Len(tables)][i]] = k /\ Overwrites(c[Len(tables)][i], v)
    <3>1. PICK i \in In(Current) : Overwrites(c[Len(tables)][i], v)
      BY <2>2
    <3>2. PICK m : m = c[Len(tables)][i]
      OBVIOUS
    <3>3. Types' /\ Names(c)'
      BY <1>1, <2>1, <3>1, <3>2, OverwriteKeeps
    <3>4. QED
      BY <3>3, InvNext
  <2>3. CASE /\ \A i \in In(Current) : key[c[Len(tables)][i]] # k
             /\ n \notin allocated /\ Link(n, k, v)
    <3>1. PICK d : d = Linked(c, n)
      OBVIOUS
    <3>2. Types' /\ Names(d)'
      BY <1>1, <2>1, <2>3, <3>1, LinkKeeps
    <3>3. QED
      BY <3>2, InvNext
  <2>4. QED
    BY <1>1, <1>5, <2>2, <2>3, AssignCases
<1>6. CASE UNCHANGED vars
  <2>1. Types'
    BY <1>1, <1>6 DEF Types, vars, fields
  <2>2. Names(c)'
    BY <1>1, <1>6, RestKeeps DEF vars, fields
  <2>3. QED
    BY <2>1, <2>2, InvNext
<1>7. QED
  BY <1>2, <1>3, <1>4, <1>5, <1>6 DEF Next

\* Whatever the calls, returns, assignments and lookups are, there is for each
\* call one sequence of distinct nodes, with a name each, that the first, last,
\* length, next and prev of map.c agree on; no node is of two calls, and none
\* is allocated that no call has.
THEOREM Invariant == Spec => []Inv
<1>1. Init => Inv
  <2>1. Init => Types /\ \E c : c \in Chains /\ Spells(c)
    BY InitHolds, Named DEF Names
  <2>2. QED
    BY <2>1 DEF Inv
<1>2. QED
  BY <1>1, StepKeeps, PTL DEF Spec

\* The fields of the maps and of the nodes keep their types, and no map is
\* longer than there are nodes.
THEOREM TypeCorrect == Spec => []TypeOK
<1>1. QED
  BY Invariant, InvImpliesTypeOK, PTL

\* The length of a map counts just the nodes that its walk meets, so a lookup
\* sees every variable and a return frees those of the callee, all of them and
\* no other.
THEOREM AlwaysWhole == Spec => []ChainsWhole
<1>1. QED
  BY Invariant, InvImpliesWhole, PTL

-----------------------------------------------------------------------------
(* The chains as the variables of the calls.                               *)

Scope(f) == Variables(tables[f])
Stack == [f \in DOMAIN tables |-> Scope(f)]
Variable == [Key -> Data \cup {NULL, Unbound}]

\* What the chain c[f] says of the variables of the f-th call.
Reads(c, f) ==
  /\ Scope(f) \in Variable
  /\ \A k \in Key : (\A i \in In(tables[f]) : key[c[f][i]] # k) => Scope(f)[k] = Unbound
  /\ \A i \in In(tables[f]) : Scope(f)[key[c[f][i]]] = data[c[f][i]]

LEMMA ScopeIs == \A c, f : Types /\ Names(c) /\ f \in 1 .. Len(tables) => Reads(c, f)
<1> SUFFICES ASSUME NEW c, NEW f \in 1 .. Len(tables), Types, Names(c)
             PROVE  Reads(c, f)
  OBVIOUS
<1>1. PICK map, s : map = tables[f] /\ s = c[f]
  OBVIOUS
<1>2. map.length \in Nat /\ Chained(map, s)
  BY <1>1, Shape DEF Names, Spells
<1>3. Scope(f) = [k \in Key |-> IF _Map_get_node(map, k) = NULL THEN Unbound
                               ELSE data[_Map_get_node(map, k)]]
  BY <1>1 DEF Scope, Variables
<1>4. ASSUME NEW k \in Key, \A i \in In(map) : key[s[i]] # k
      PROVE  Scope(f)[k] = Unbound
  <2>1. _Map_get_node(map, k) = NULL
    BY <1>2, <1>4, NodeIs
  <2>2. QED
    BY <1>3, <2>1
<1>5. ASSUME NEW i \in In(map)
      PROVE  /\ key[s[i]] \in Key /\ data[s[i]] \in Data \cup {NULL}
             /\ Scope(f)[key[s[i]]] = data[s[i]]
  <2>1. PICK k : k = key[s[i]]
    OBVIOUS
  <2>2. k \in Key /\ s[i] \in Node /\ s[i] # NULL
    BY <1>2, <1>5, <2>1, TablesAssumption DEF Chained
  <2>3. _Map_get_node(map, k) = s[i]
    BY <1>2, <1>5, <2>1, NodeIs
  <2>4. QED
    BY <1>3, <2>1, <2>2, <2>3 DEF Types
<1>6. Scope(f) \in Variable
  <2>1. ASSUME NEW k \in Key
        PROVE  Scope(f)[k] \in Data \cup {NULL, Unbound}
    <3>1. CASE \E i \in In(map) : key[s[i]] = k
      BY <1>5, <3>1
    <3>2. CASE \A i \in In(map) : key[s[i]] # k
      BY <1>4, <3>2
    <3>3. QED
      BY <3>1, <3>2
  <2>2. QED
    BY <1>3, <2>1 DEF Variable
<1>7. QED
  BY <1>1, <1>4, <1>5, <1>6 DEF Reads

LEMMA ScopeNext == \A c, f : Types' /\ Names(c)' /\ f \in 1 .. Len(tables') => Reads(c, f)'
<1>1. (\A c, f : Types /\ Names(c) /\ f \in 1 .. Len(tables) => Reads(c, f))'
  BY ScopeIs, PTL
<1>2. QED
  BY <1>1

\* A call whose names and data are as they were has the variables it had.
LEMMA ScopeRests ==
  ASSUME Types, NEW c, Names(c), Types', NEW d, Names(d)',
         NEW f \in 1 .. Len(tables), f \in 1 .. Len(tables'), tables'[f] = tables[f], d[f] = c[f],
         \A i \in In(tables[f]) : /\ key'[c[f][i]] = key[c[f][i]]
                                  /\ data'[c[f][i]] = data[c[f][i]]
  PROVE  Scope(f)' = Scope(f)
<1>1. Reads(c, f)
  BY ScopeIs
<1>2. Reads(d, f)'
  BY ScopeNext
<1>3. /\ Scope(f)' \in Variable
      /\ \A k \in Key : (\A i \in In(tables[f]) : key[c[f][i]] # k) => Scope(f)'[k] = Unbound
      /\ \A i \in In(tables[f]) : Scope(f)'[key[c[f][i]]] = data[c[f][i]]
  <2>1. In(tables[f])' = In(tables[f])
    BY DEF In
  <2>2. QED
    BY <1>2, <2>1 DEF Reads, Variable
<1>4. \A k \in Key : Scope(f)'[k] = Scope(f)[k]
  BY <1>1, <1>3 DEF Reads
<1>5. QED
  BY <1>1, <1>3, <1>4 DEF Reads, Variable

LEMMA StackIs == \A c : Types /\ Names(c) => /\ Stack \in Seq(Variable) /\ Len(Stack) = Len(tables)
                                            /\ \A f \in 1 .. Len(tables) : Stack[f] = Scope(f)
<1> SUFFICES ASSUME NEW c, Types, Names(c)
             PROVE  /\ Stack \in Seq(Variable) /\ Len(Stack) = Len(tables)
                    /\ \A f \in 1 .. Len(tables) : Stack[f] = Scope(f)
  OBVIOUS
<1>1. \A f \in 1 .. Len(tables) : Scope(f) \in Variable
  BY ScopeIs DEF Reads
<1>2. Stack = [f \in 1 .. Len(tables) |-> Scope(f)] /\ Len(tables) \in Nat
  BY Shape DEF Stack
<1>3. QED
  BY <1>1, <1>2

LEMMA StackNext ==
  \A c : Types' /\ Names(c)' => /\ Stack' \in Seq(Variable) /\ Len(Stack') = Len(tables')
                               /\ \A f \in 1 .. Len(tables') : Stack'[f] = Scope(f)'
<1>1. (\A c : Types /\ Names(c) => /\ Stack \in Seq(Variable) /\ Len(Stack) = Len(tables)
                                  /\ \A f \in 1 .. Len(tables) : Stack[f] = Scope(f))'
  BY StackIs, PTL
<1>2. QED
  BY <1>1 DEF Variable

\* A call starts without variables, and the others keep theirs.
LEMMA EnterAsTold ==
  ASSUME Types, NEW c, Names(c), vm_add_stack_frame
  PROVE  Stack' = Append(Stack, [k \in Key |-> Unbound]) /\ UNCHANGED result
<1>1. PICK d : d = Entered(c)
  OBVIOUS
<1>2. Types' /\ Names(d)'
  BY <1>1, EnterKeeps, Named DEF Names
<1> DEFINE m == Len(tables)
<1>3. m \in Nat /\ Len(tables') = m + 1 /\ tables'[m + 1] = Map_create
      /\ \A f \in 1 .. m : tables'[f] = tables[f]
  <2> DEFINE Shapes == [first : Pointer, last : Pointer, length : Nat]
  <2>1. tables \in Seq(Shapes) /\ tables' = Append(tables, Map_create)
    BY DEF Types, vm_add_stack_frame
  <2> HIDE DEF Shapes
  <2>2. QED
    BY <2>1
<1>4. \A f \in 1 .. m : d[f] = c[f] /\ f \in 1 .. Len(tables')
  BY <1>1, <1>3 DEF Entered
<1>5. key' = key /\ data' = data /\ result' = result
  BY DEF vm_add_stack_frame, fields
<1>6. ASSUME NEW f \in 1 .. m
      PROVE  Scope(f)' = Scope(f)
  BY <1>2, <1>3, <1>4, <1>5, ScopeRests
<1>7. ASSUME NEW f, f = m + 1
      PROVE  Scope(f)' = [k \in Key |-> Unbound]
  <2>1. Reads(d, f)'
    BY <1>2, <1>3, <1>7, ScopeNext
  <2>2. In(tables'[f]) = {}
    BY <1>3, <1>7 DEF In, Map_create
  <2>3. Scope(f)' \in Variable /\ \A k \in Key : Scope(f)'[k] = Unbound
    BY <2>1, <2>2 DEF Reads, Variable, In
  <2>4. QED
    BY <2>3 DEF Variable
<1>8. [k \in Key |-> Unbound] \in Variable
  BY DEF Variable
<1>9. /\ Stack \in Seq(Variable) /\ Len(Stack) = m
      /\ \A f \in 1 .. m : Stack[f] = Scope(f)
  BY StackIs
<1>10. /\ Stack' \in Seq(Variable) /\ Len(Stack') = m + 1
       /\ \A f \in 1 .. m + 1 : Stack'[f] = Scope(f)'
  BY <1>2, <1>3, StackNext
<1>11. \A f \in 1 .. m + 1 : Stack'[f] = Append(Stack, [k \in Key |-> Unbound])[f]
  <2> SUFFICES ASSUME NEW f \in 1 .. m + 1
               PROVE  Stack'[f] = Append(Stack, [k \in Key |-> Unbound])[f]
    OBVIOUS
  <2>1. CASE f \in 1 .. m
    BY <1>6, <1>8, <1>9, <1>10, <2>1, AppendProperties
  <2>2. CASE f = m + 1
    BY <1>7, <1>8, <1>9, <1>10, <2>2, AppendProperties
  <2>3. f \in 1 .. m \/ f = m + 1
    BY <1>3
  <2>4. QED
    BY <2>1, <2>2, <2>3
<1>12. Stack' = Append(Stack, [k \in Key |-> Unbound])
  BY <1>3, <1>8, <1>9, <1>10, <1>11, AppendProperties, SeqEqual
<1>13. QED
  BY <1>5, <1>12

LEMMA LeaveAsTold ==
  ASSUME Types, NEW c, Names(c), Map_destroy
  PROVE  Stack # <<>> /\ Stack' = SubSeq(Stack, 1, Len(Stack) - 1) /\ UNCHANGED result
<1>1. PICK d : d = Left(c)
  OBVIOUS
<1> DEFINE m == Len(tables)
<1>2. /\ Types' /\ Names(d)' /\ Len(tables') = m - 1 /\ m > 0
      /\ \A f \in 1 .. m - 1 :
           /\ tables'[f] = tables[f]
           /\ \A i \in In(tables[f]) : /\ key'[c[f][i]] = key[c[f][i]]
                                      /\ data'[c[f][i]] = data[c[f][i]]
  BY <1>1, LeaveKeeps, Named DEF Names
<1>3. m \in Nat
  BY Shape
<1>4. \A f \in 1 .. m - 1 : d[f] = c[f] /\ f \in 1 .. Len(tables') /\ f \in 1 .. Len(tables)
  BY <1>1, <1>2, <1>3 DEF Left
<1>5. ASSUME NEW f \in 1 .. m - 1
      PROVE  Scope(f)' = Scope(f)
  <2>1. /\ f \in 1 .. Len(tables) /\ f \in 1 .. Len(tables')
        /\ tables'[f] = tables[f] /\ d[f] = c[f]
        /\ \A i \in In(tables[f]) : /\ key'[c[f][i]] = key[c[f][i]]
                                   /\ data'[c[f][i]] = data[c[f][i]]
    BY <1>2, <1>4
  <2>2. QED
    BY <1>2, <2>1, ScopeRests
<1>6. /\ Stack \in Seq(Variable) /\ Len(Stack) = m
      /\ \A f \in 1 .. m : Stack[f] = Scope(f)
  BY StackIs
<1>7. /\ Stack' \in Seq(Variable) /\ Len(Stack') = m - 1
      /\ \A f \in 1 .. m - 1 : Stack'[f] = Scope(f)'
  BY <1>2, StackNext
<1>8. /\ SubSeq(Stack, 1, m - 1) \in Seq(Variable) /\ Len(SubSeq(Stack, 1, m - 1)) = m - 1
      /\ \A f \in 1 .. m - 1 : SubSeq(Stack, 1, m - 1)[f] = Stack[f]
  BY <1>2, <1>3, <1>6
<1>9. \A f \in 1 .. m - 1 : Stack'[f] = SubSeq(Stack, 1, m - 1)[f]
  BY <1>4, <1>5, <1>6, <1>7, <1>8
<1>10. Stack' = SubSeq(Stack, 1, m - 1)
  BY <1>7, <1>8, <1>9, SeqEqual
<1>11. QED
  BY <1>2, <1>6, <1>10 DEF Map_destroy

\* One variable of the last call changes, if no other does.
LEMMA TopAsTold ==
  ASSUME Types, NEW c, Names(c), Types', NEW d, Names(d)',
         NEW m, m = Len(tables), m > 0, Len(tables') = m,
         NEW k \in Key, NEW v \in Data \cup {NULL},
         \A f \in 1 .. m - 1 : Scope(f)' = Scope(f),
         Scope(m)'[k] = v,
         \A j \in Key \ {k} : Scope(m)'[j] = Scope(m)[j]
  PROVE  Stack # <<>> /\ Stack' = [Stack EXCEPT ![Len(Stack)][k] = v]
<1>1. m \in Nat /\ m \in 1 .. m
  BY Shape
<1>2. /\ Stack \in Seq(Variable) /\ Len(Stack) = m
      /\ \A f \in 1 .. m : Stack[f] = Scope(f)
  BY StackIs
<1>3. /\ Stack' \in Seq(Variable) /\ Len(Stack') = m
      /\ \A f \in 1 .. m : Stack'[f] = Scope(f)'
  BY StackNext
<1>4. Scope(m) \in Variable /\ Scope(m)' \in Variable
  <2>1. \A f \in 1 .. m : Stack[f] \in Variable /\ Stack'[f] \in Variable
    BY <1>2, <1>3
  <2>2. QED
    BY <1>1, <1>2, <1>3, <2>1
<1>5. Scope(m)' = [Scope(m) EXCEPT ![k] = v]
  BY <1>4 DEF Variable
<1>6. PICK w : w = [Scope(m) EXCEPT ![k] = v]
  OBVIOUS
<1>7. [Stack EXCEPT ![Len(Stack)][k] = v] = [Stack EXCEPT ![m] = w]
  BY <1>1, <1>2, <1>6
<1>8. w \in Variable
  BY <1>4, <1>5, <1>6
<1>9. /\ [Stack EXCEPT ![m] = w] \in Seq(Variable) /\ Len([Stack EXCEPT ![m] = w]) = m
      /\ \A f \in 1 .. m : [Stack EXCEPT ![m] = w][f] = IF f = m THEN w ELSE Stack[f]
  BY <1>1, <1>2, <1>8
<1>10. \A f \in 1 .. m : f = m \/ f \in 1 .. m - 1
  BY <1>1
<1>11. \A f \in 1 .. m : Stack'[f] = [Stack EXCEPT ![m] = w][f]
  <2> SUFFICES ASSUME NEW f \in 1 .. m
               PROVE  Stack'[f] = IF f = m THEN w ELSE Stack[f]
    BY <1>9
  <2>1. CASE f = m
    <3>1. Stack'[f] = Scope(f)'
      BY <1>3
    <3>2. Scope(f)' = w
      BY <1>5, <1>6, <2>1
    <3>3. QED
      BY <2>1, <3>1, <3>2
  <2>2. CASE f # m
    BY <1>2, <1>3, <1>10, <2>2
  <2>3. QED
    BY <2>1, <2>2
<1>12. Stack' = [Stack EXCEPT ![m] = w]
  BY <1>3, <1>9, <1>11, SeqEqual
<1>13. QED
  BY <1>1, <1>2, <1>7, <1>12

LEMMA OverwriteAsTold ==
  ASSUME Types, NEW c, Names(c), tables # <<>>,
         NEW m, m = Len(tables), NEW i \in In(Current), NEW k \in Key, NEW v \in Data \cup {NULL},
         key[c[m][i]] = k, Overwrites(c[m][i], v), UNCHANGED result
  PROVE  Stack # <<>> /\ Stack' = [Stack EXCEPT ![Len(Stack)][k] = v]
<1>1. Types' /\ Names(c)'
  <2>1. PICK n : n = c[m][i]
    OBVIOUS
  <2>2. QED
    BY <2>1, OverwriteKeeps, Named DEF Names
<1>2. PICK map, s : map = Current /\ s = c[m]
  OBVIOUS
<1>3. /\ map.length \in Nat /\ Chained(map, s) /\ map = tables[m]
      /\ m \in 1 .. m /\ m > 0 /\ m \in Nat
  <2>1. Len(tables) \in Nat
    BY Shape
  <2>2. QED
    BY <1>2, <2>1, CurrentIs DEF Names
<1>4. /\ \A j \in In(map) : s[j] \in Node /\ key[s[j]] \in Key
      /\ \A j \in In(map) : key[s[j]] = k => j = i
      /\ key[s[i]] = k /\ i \in In(map) /\ s[i] \in Node
  BY <1>2, <1>3 DEF Chained
<1>5. data' = [data EXCEPT ![s[i]] = v] /\ key' = key /\ tables' = tables
  BY <1>2 DEF Overwrites
<1>6. ASSUME NEW f \in 1 .. m - 1
      PROVE  Scope(f)' = Scope(f)
  <2>1. f \in 1 .. m /\ f # m
    BY <1>3
  <2>2. \A j \in In(tables[f]) : c[f][j] # s[i] /\ c[f][j] \in Node
    BY <1>2, <1>3, <1>4, <2>1 DEF Names, Spells, Chained
  <2>3. \A j \in In(tables[f]) : key'[c[f][j]] = key[c[f][j]] /\ data'[c[f][j]] = data[c[f][j]]
    BY <1>5, <2>2 DEF Types
  <2>4. QED
    BY <1>1, <1>5, <2>1, <2>3, ScopeRests
<1>7. Reads(c, m) /\ Reads(c, m)'
  BY <1>1, <1>3, <1>5, ScopeIs, ScopeNext
<1>8. /\ \A j \in Key : (\A a \in In(map) : key[s[a]] # j) => Scope(m)'[j] = Unbound
      /\ \A a \in In(map) : Scope(m)'[key[s[a]]] = data'[s[a]]
  <2>1. In(tables[m])' = In(map)
    BY <1>3, <1>5 DEF In
  <2>2. QED
    BY <1>2, <1>5, <1>7, <2>1 DEF Reads
<1>9. Scope(m)'[k] = v
  BY <1>4, <1>5, <1>8 DEF Types
<1>10. ASSUME NEW j \in Key \ {k}
       PROVE  Scope(m)'[j] = Scope(m)[j]
  <2>1. CASE \E a \in In(map) : key[s[a]] = j
    <3>1. PICK a \in In(map) : key[s[a]] = j
      BY <2>1
    <3>2. s[a] # s[i] /\ s[a] \in Node
      BY <1>4, <1>10, <3>1
    <3>3. data'[s[a]] = data[s[a]]
      BY <1>5, <3>2 DEF Types
    <3>4. QED
      BY <1>2, <1>3, <1>7, <1>8, <3>1, <3>3 DEF Reads
  <2>2. CASE \A a \in In(map) : key[s[a]] # j
    BY <1>2, <1>3, <1>7, <1>8, <2>2 DEF Reads
  <2>3. QED
    BY <2>1, <2>2
<1>11. QED
  BY <1>1, <1>3, <1>5, <1>6, <1>9, <1>10, TopAsTold

LEMMA LinkAsTold ==
  ASSUME Types, NEW c, Names(c), tables # <<>>,
         NEW m, m = Len(tables),
         NEW n \in Node \ allocated, NEW k \in Key, NEW v \in Data \cup {NULL},
         \A i \in In(Current) : key[c[m][i]] # k,
         Link(n, k, v), UNCHANGED result
  PROVE  Stack # <<>> /\ Stack' = [Stack EXCEPT ![Len(Stack)][k] = v]
<1>1. PICK d : d = Linked(c, n)
  OBVIOUS
<1>2. PICK map, s : map = Current /\ s = c[m]
  OBVIOUS
<1>3. /\ map.length \in Nat /\ Chained(map, s) /\ map = tables[m]
      /\ m \in 1 .. m /\ m > 0 /\ m \in Nat
  <2>1. Len(tables) \in Nat
    BY Shape
  <2>2. QED
    BY <1>2, <2>1, CurrentIs DEF Names
<1>4. /\ Types' /\ Names(d)' /\ Len(tables') = m /\ tables'[m].length = map.length + 1
      /\ \A f \in 1 .. m - 1 : tables'[f] = tables[f]
  <2>1. c \in Chains /\ Spells(c)
    BY Named DEF Names
  <2>2. \A i \in In(Current) : key[c[Len(tables)][i]] # k
    OBVIOUS
  <2>3. /\ Types' /\ Names(d)' /\ Len(tables') = Len(tables)
        /\ \A f \in 1 .. Len(tables) - 1 : tables'[f] = tables[f]
        /\ tables'[Len(tables)].length = Current.length + 1
    BY <1>1, <2>1, <2>2, LinkKeeps
  <2>4. QED
    BY <1>2, <2>3
<1>5. key' = [key EXCEPT ![n] = k] /\ data' = [data EXCEPT ![n] = v]
  BY DEF Link
<1>6. /\ \A f \in 1 .. m - 1 : d[f] = c[f]
      /\ d[m] = Grown(s, map.length, n)
  BY <1>1, <1>2, <1>3 DEF Linked
<1>7. ASSUME NEW f \in 1 .. m, NEW i \in In(tables[f])
      PROVE  key'[c[f][i]] = key[c[f][i]] /\ data'[c[f][i]] = data[c[f][i]]
  <2>1. c[f][i] \in allocated /\ c[f][i] \in Node
    BY DEF Names, Spells, Chained
  <2>2. QED
    BY <1>5, <2>1 DEF Types
<1>8. ASSUME NEW f \in 1 .. m - 1
      PROVE  Scope(f)' = Scope(f)
  <2>1. f \in 1 .. m
    BY <1>3
  <2>2. tables'[f] = tables[f] /\ d[f] = c[f]
    BY <1>4, <1>6
  <2>3. QED
    BY <1>4, <1>7, <2>1, <2>2, ScopeRests
<1>9. Reads(c, m) /\ Reads(d, m)'
  BY <1>3, <1>4, ScopeIs, ScopeNext
<1>10. /\ In(tables'[m]) = 0 .. map.length /\ In(map) = 0 .. map.length - 1
       /\ map.length \in 0 .. map.length
       /\ \A i \in 0 .. map.length : i = map.length \/ i \in In(map)
       /\ \A i \in In(map) : i \in 0 .. map.length
  <2>1. map.length + 1 - 1 = map.length
    BY <1>3
  <2>2. In(tables'[m]) = 0 .. map.length
    <3>1. PICK t : t = tables'[m]
      OBVIOUS
    <3>2. t.length = map.length + 1
      BY <1>4, <3>1
    <3>3. t.length - 1 = map.length
      BY <1>3, <3>2
    <3>4. In(t) = 0 .. map.length
      BY <3>3 DEF In
    <3>5. QED
      BY <3>1, <3>4
  <2>3. In(map) = 0 .. map.length - 1
    BY DEF In
  <2>4. QED
    BY <1>3, <2>2, <2>3
<1>11. key'[n] = k /\ data'[n] = v
  BY <1>5 DEF Types
<1>12. \A i \in In(map) : key'[s[i]] = key[s[i]] /\ data'[s[i]] = data[s[i]]
  BY <1>2, <1>3, <1>7
<1>13. d[m][map.length] = n /\ \A i \in In(map) : d[m][i] = s[i]
  BY <1>3, <1>6 DEF Grown, In
<1>14. /\ \A j \in Key : (\A i \in 0 .. map.length : key'[d[m][i]] # j) => Scope(m)'[j] = Unbound
       /\ \A i \in 0 .. map.length : Scope(m)'[key'[d[m][i]]] = data'[d[m][i]]
  BY <1>9, <1>10 DEF Reads, In
<1>15. Scope(m)'[k] = v
  BY <1>10, <1>11, <1>13, <1>14
<1>16. ASSUME NEW j \in Key \ {k}
       PROVE  Scope(m)'[j] = Scope(m)[j]
  <2>1. CASE \E i \in In(map) : key[s[i]] = j
    <3>1. PICK i \in In(map) : key[s[i]] = j
      BY <2>1
    <3>2. Scope(m)'[j] = data[s[i]]
      BY <1>10, <1>12, <1>13, <1>14, <3>1
    <3>3. Scope(m)[j] = data[s[i]]
      BY <1>2, <1>3, <1>9, <3>1 DEF Reads
    <3>4. QED
      BY <3>2, <3>3
  <2>2. CASE \A i \in In(map) : key[s[i]] # j
    <3>1. \A i \in 0 .. map.length : key'[d[m][i]] # j
      BY <1>10, <1>11, <1>12, <1>13, <1>16, <2>2
    <3>2. Scope(m)'[j] = Unbound
      BY <1>14, <3>1
    <3>3. Scope(m)[j] = Unbound
      BY <1>2, <1>3, <1>9, <2>2 DEF Reads
    <3>4. QED
      BY <3>2, <3>3
  <2>3. QED
    BY <2>1, <2>2
<1>17. QED
  BY <1>3, <1>4, <1>8, <1>15, <1>16, TopAsTold

LEMMA AssignAsTold ==
  ASSUME Types, NEW c, Names(c), NEW k \in Key, NEW n \in Node, NEW v \in Data \cup {NULL},
         Map_set(n, k, v)
  PROVE  Stack # <<>> /\ Stack' = [Stack EXCEPT ![Len(Stack)][k] = v] /\ UNCHANGED result
<1>1. PICK m : m = Len(tables)
  OBVIOUS
<1>2. tables # <<>> /\ UNCHANGED result
  BY DEF Map_set
<1>3. CASE \E i \in In(Current) : key[c[m][i]] = k /\ Overwrites(c[m][i], v)
  <2>1. PICK i \in In(Current) : key[c[m][i]] = k /\ Overwrites(c[m][i], v)
    BY <1>3
  <2>2. Stack # <<>> /\ Stack' = [Stack EXCEPT ![Len(Stack)][k] = v]
    <3>1. i \in In(Current) /\ key[c[m][i]] = k /\ Overwrites(c[m][i], v)
      BY <2>1
    <3>2. QED
      BY <1>1, <1>2, <3>1, OverwriteAsTold, SMTT(20)
  <2>3. QED
    BY <1>2, <2>2
<1>4. CASE /\ \A i \in In(Current) : key[c[m][i]] # k
           /\ n \notin allocated /\ Link(n, k, v)
  BY <1>1, <1>2, <1>4, LinkAsTold
<1>5. QED
  BY <1>1, <1>3, <1>4, AssignCases DEF Names

LEMMA StackRests ==
  ASSUME Types, NEW c, Names(c), UNCHANGED <<tables, fields, allocated>>, Types'
  PROVE  Stack' = Stack
<1>1. /\ tables' = tables /\ key' = key /\ data' = data /\ next' = next /\ prev' = prev
      /\ allocated' = allocated
  BY DEF fields
<1>2. Names(c)'
  BY <1>1, RestKeeps, Named DEF Names
<1>3. ASSUME NEW f \in 1 .. Len(tables)
      PROVE  Scope(f)' = Scope(f)
  BY <1>1, <1>2, ScopeRests
<1>4. /\ Stack \in Seq(Variable) /\ Len(Stack) = Len(tables)
      /\ \A f \in 1 .. Len(tables) : Stack[f] = Scope(f)
  BY StackIs
<1>5. /\ Stack' \in Seq(Variable) /\ Len(Stack') = Len(tables)
      /\ \A f \in 1 .. Len(tables) : Stack'[f] = Scope(f)'
  BY <1>1, <1>2, StackNext
<1>6. QED
  BY <1>3, <1>4, <1>5, SeqEqual

LEMMA GetAsTold ==
  ASSUME Types, NEW c, Names(c), NEW k \in Key, Map_get(k)
  PROVE  /\ Stack # <<>> /\ Stack' = Stack
         /\ result' = <<k, IF Stack[Len(Stack)][k] = Unbound THEN NULL ELSE Stack[Len(Stack)][k]>>
<1>1. Types' /\ Stack' = Stack
  <2>1. Types'
    BY GetKeeps, Named DEF Names
  <2>2. QED
    BY <2>1, StackRests DEF Map_get
<1>2. PICK m, map, s, node : m = Len(tables) /\ map = tables[m] /\ s = c[m] /\ node = _Map_get_node(map, k)
  OBVIOUS
<1>3. map = Current /\ map.length \in Nat /\ Chained(map, s) /\ m \in 1 .. m
  BY <1>2, CurrentIs DEF Names, Map_get
<1>4. Stack # <<>> /\ Len(Stack) = m /\ Stack[m] = Scope(m)
  BY <1>2, <1>3, StackIs
<1>5. Scope(m)[k] = IF node = NULL THEN Unbound ELSE data[node]
  BY <1>2 DEF Scope, Variables
<1>6. result' = <<k, IF node = NULL THEN NULL ELSE data[node]>>
  BY <1>2, <1>3 DEF Map_get
<1>7. node # NULL => data[node] # Unbound
  <2>1. CASE \E i \in In(map) : key[s[i]] = k
    <3>1. PICK i \in In(map) : key[s[i]] = k
      BY <2>1
    <3>2. node = s[i] /\ s[i] \in Node
      BY <1>2, <1>3, <3>1, NodeIs DEF Chained
    <3>3. QED
      BY <3>2, TablesAssumption DEF Types
  <2>2. CASE \A i \in In(map) : key[s[i]] # k
    BY <1>2, <1>3, <2>2, NodeIs
  <2>3. QED
    BY <2>1, <2>2
<1>8. QED
  BY <1>1, <1>4, <1>5, <1>6, <1>7

LEMMA InitAsTold ==
  ASSUME Init
  PROVE  Stack = <<[k \in Key |-> Unbound]>> /\ result = <<NULL, NULL>>
<1>1. PICK c : Types /\ Names(c)
  BY InitHolds
<1>2. tables = <<Map_create>> /\ result = <<NULL, NULL>>
  BY DEF Init
<1>3. Len(tables) = 1 /\ tables[1] = Map_create /\ In(Map_create) = {} /\ 1 \in 1 .. 1
  BY <1>2 DEF In, Map_create
<1>4. Reads(c, 1)
  BY <1>1, <1>3, ScopeIs
<1>5. Scope(1) \in Variable /\ \A k \in Key : Scope(1)[k] = Unbound
  BY <1>3, <1>4 DEF Reads
<1>6. Scope(1) = [k \in Key |-> Unbound]
  BY <1>5 DEF Variable
<1>7. Stack \in Seq(Variable) /\ Len(Stack) = 1 /\ Stack[1] = Scope(1)
  BY <1>1, <1>3, StackIs
<1>8. Stack = <<Scope(1)>>
  <2>1. <<Scope(1)>> \in Seq(Variable) /\ Len(<<Scope(1)>>) = 1 /\ <<Scope(1)>>[1] = Scope(1)
    BY <1>5
  <2>2. QED
    BY <1>7, <2>1, SeqEqual
<1>9. QED
  BY <1>2, <1>6, <1>8

LEMMA StepAsTold ==
  ASSUME Inv, [Next]_vars
  PROVE  [Abstract!Next]_(Abstract!vars)
<1>1. PICK c : Types /\ Names(c)
  BY DEF Inv, Names, Chains
<1> DEFINE scopes == [f \in DOMAIN tables |-> Variables(tables[f])]
<1>2. Stack = scopes /\ Stack' = scopes'
  BY DEF Stack, Scope
<1>3. CASE vm_add_stack_frame
  BY <1>1, <1>2, <1>3, EnterAsTold DEF Abstract!Next, Abstract!Enter
<1>4. CASE Map_destroy
  BY <1>1, <1>2, <1>4, LeaveAsTold DEF Abstract!Next, Abstract!Leave
<1>5. ASSUME NEW k \in Key, Map_get(k)
      PROVE  Abstract!Next
  BY <1>1, <1>2, <1>5, GetAsTold DEF Abstract!Next, Abstract!Lookup
<1>6. ASSUME NEW k \in Key, NEW n \in Node, NEW v \in Data \cup {NULL}, Map_set(n, k, v)
      PROVE  Abstract!Next
  <2>1. Stack # <<>> /\ Stack' = [Stack EXCEPT ![Len(Stack)][k] = v] /\ UNCHANGED result
    BY <1>1, <1>6, AssignAsTold
  <2>2. Abstract!Assign(k, v)
    BY <1>2, <2>1 DEF Abstract!Assign
  <2>3. QED
    BY <2>2 DEF Abstract!Next
<1>7. CASE UNCHANGED vars
  <2>1. Types'
    BY <1>1, <1>7 DEF Types, vars, fields
  <2>2. Stack' = Stack /\ result' = result
    BY <1>1, <1>7, <2>1, StackRests DEF vars
  <2>3. QED
    BY <1>2, <2>2 DEF Abstract!vars
<1>8. QED
  BY <1>3, <1>4, <1>5, <1>6, <1>7 DEF Next

\* map.c implements the variables of the calls that vm.c relies on: a name of
\* the call at hand has the value last assigned to it, NULL before, and a
\* return leaves the caller the variables it had.
THEOREM ActsAsScopes == Spec => ImplementsScopes
<1>1. Init => Abstract!Init
  <2>1. Init => Stack = [f \in DOMAIN tables |-> Variables(tables[f])]
    BY DEF Stack, Scope
  <2>2. QED
    BY <2>1, InitAsTold DEF Abstract!Init
<1>2. Inv /\ [Next]_vars => [Abstract!Next]_(Abstract!vars)
  BY StepAsTold
<1>3. QED
  BY <1>1, <1>2, Invariant, PTL DEF Spec, ImplementsScopes, Abstract!Spec
=============================================================================
