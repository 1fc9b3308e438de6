-------------------------- MODULE LinkedListProofs --------------------------
(***************************************************************************)
(* Theorems about the list of LinkedList.tla, for any number of nodes.     *)
(*                                                                         *)
(* The invariant names the nodes of the list in order, s; a walk from      *)
(* either end meets just these (WalkIs), and each operation makes a new s  *)
(* of the old one.                                                         *)
(***************************************************************************)
EXTENDS LinkedList, FiniteSetTheorems, TLAPS, SequenceTheorems

\* Facts about the natural numbers.
Zero(p) == 0
Same(p, n, x) == x
Numbers == INSTANCE Recursion WITH Start <- Zero, Step <- Same

\* The types of the variables; the fields of a node hold anything, but the
\* data of one in use.
Types ==
  /\ length \in Nat
  /\ next \in [Node -> Pointer]
  /\ prev \in [Node -> Pointer]
  /\ data \in [Node -> Data \cup {NULL}]
  /\ allocated \subseteq Node
  /\ \A n \in allocated : data[n] \in Data

\* The nodes of the list are s, in order.
Spells(s) ==
  /\ s \in [1 .. length -> Node]
  /\ \A i, j \in 1 .. length : s[i] = s[j] => i = j
  /\ {s[i] : i \in 1 .. length} = allocated
  /\ length > 0 => first = s[1] /\ last = s[length]
  /\ \A i \in 1 .. length - 1 : next[s[i]] = s[i + 1] /\ prev[s[i + 1]] = s[i]

Inv == Types /\ \E s \in [1 .. length -> Node] : Spells(s)

-----------------------------------------------------------------------------
(* Walks.                                                                  *)

\* NthFrom meets the nodes of s if each is where the link of the one before
\* leads.
LEMMA WalkIs ==
  ASSUME NEW start, NEW link, NEW s, length \in Nat,
         s \in [1 .. length -> Node],
         \A k \in 1 .. length : s[k] = IF k = 1 THEN start ELSE Along(link, s[k - 1])
  PROVE  NthFrom(start, link) = s
<1> DEFINE Goes(at) == at = [k \in 1 .. length |-> IF k = 1 THEN start ELSE Along(link, at[k - 1])]
           walk == CHOOSE at : Goes(at)
<1>1. NthFrom(start, link) = walk
  BY DEF NthFrom
<1>2. Goes(s)
  OBVIOUS
<1>3. Goes(walk)
  BY <1>2
<1> HIDE DEF walk
<1> DEFINE Off == {k \in 1 .. length : walk[k] # s[k]}
<1>4. Off = {}
  <2> SUFFICES ASSUME Off # {}
               PROVE  FALSE
    OBVIOUS
  <2>1. PICK k \in Off : \A j \in Off : k <= j
    <3>1. Off \in SUBSET Nat
      OBVIOUS
    <3>2. QED
      BY <3>1, Numbers!Least
  <2>2. CASE k = 1
    BY <1>3, <2>1, <2>2
  <2>3. CASE k # 1
    <3>1. k - 1 \in 1 .. length /\ k - 1 \notin Off
      BY <2>1, <2>3
    <3>2. walk[k - 1] = s[k - 1]
      BY <3>1
    <3>3. QED
      BY <1>3, <2>1, <2>3, <3>2
  <2>4. QED
    BY <2>2, <2>3
<1>5. \A k \in 1 .. length : walk[k] = s[k]
  BY <1>4
<1>6. walk = s
  <2>1. DOMAIN walk = 1 .. length /\ walk = [k \in 1 .. length |-> walk[k]]
    BY <1>3
  <2>2. QED
    BY <1>5, <2>1
<1>7. QED
  BY <1>1, <1>6

\* The walks from both ends.
LEMMA WalksMeet ==
  ASSUME Types, NEW s \in [1 .. length -> Node], Spells(s)
  PROVE  /\ Forward = s
         /\ \A k \in 1 .. length : Backward[k] = s[length + 1 - k]
<1>1. Forward = s
  <2>1. \A k \in 1 .. length : s[k] = IF k = 1 THEN first ELSE Along(next, s[k - 1])
    <3> SUFFICES ASSUME NEW k \in 1 .. length
                 PROVE  s[k] = IF k = 1 THEN first ELSE Along(next, s[k - 1])
      OBVIOUS
    <3>1. CASE k = 1
      BY <3>1 DEF Spells, Types
    <3>2. CASE k # 1
      <4>1. k - 1 \in 1 .. length - 1
        BY <3>2 DEF Types
      <4>2. next[s[k - 1]] = s[k] /\ s[k - 1] \in Node
        BY <4>1 DEF Spells, Types
      <4>3. QED
        BY <3>2, <4>2 DEF Along
    <3>3. QED
      BY <3>1, <3>2
  <2>2. QED
    BY <2>1, WalkIs DEF Types, Forward
<1>2. \A k \in 1 .. length : Backward[k] = s[length + 1 - k]
  <2> DEFINE r == [k \in 1 .. length |-> s[length + 1 - k]]
  <2>1. r \in [1 .. length -> Node]
    BY DEF Types
  <2>2. \A k \in 1 .. length : r[k] = IF k = 1 THEN last ELSE Along(prev, r[k - 1])
    <3> SUFFICES ASSUME NEW k \in 1 .. length
                 PROVE  r[k] = IF k = 1 THEN last ELSE Along(prev, r[k - 1])
      OBVIOUS
    <3>1. CASE k = 1
      BY <3>1 DEF Spells, Types
    <3>2. CASE k # 1
      <4>1. length + 1 - k \in 1 .. length - 1
        BY <3>2 DEF Types
      <4>2. prev[s[length + 1 - k + 1]] = s[length + 1 - k]
        BY <4>1 DEF Spells
      <4>3. r[k - 1] = s[length + 1 - k + 1] /\ r[k - 1] \in Node
        BY <3>2, <2>1 DEF Types
      <4>4. QED
        BY <3>2, <4>2, <4>3 DEF Along
    <3>3. QED
      BY <3>1, <3>2
  <2> HIDE DEF r
  <2>3. Backward = r
    BY <2>1, <2>2, WalkIs DEF Types, Backward
  <2>4. QED
    BY <2>3 DEF r
<1>3. QED
  BY <1>1, <1>2

\* As many nodes as the length says.
LEMMA Counted ==
  ASSUME Types, NEW s \in [1 .. length -> Node], Spells(s)
  PROVE  IsFiniteSet(allocated) /\ Cardinality(allocated) = length
<1>1. IsFiniteSet(1 .. length) /\ Cardinality(1 .. length) = length
  BY FS_Interval DEF Types
<1>2. s \in Bijection(1 .. length, allocated)
  BY DEF Spells, Bijection, Injection, Surjection, IsInjective
<1>3. ExistsBijection(1 .. length, allocated)
  BY <1>2 DEF ExistsBijection
<1>4. QED
  BY <1>1, <1>3, FS_Bijection

LEMMA InvImpliesLinked ==
  ASSUME Inv
  PROVE  LinkedBothWays
<1>1. PICK s \in [1 .. length -> Node] : Spells(s)
  BY DEF Inv
<1>2. /\ Forward = s
      /\ \A k \in 1 .. length : Backward[k] = s[length + 1 - k]
      /\ Cardinality(allocated) = length
  BY <1>1, WalksMeet, Counted DEF Inv
<1>3. \A k \in 1 .. length : Forward[k] = Backward[length + 1 - k]
  <2>1. ASSUME NEW k \in 1 .. length
        PROVE  Forward[k] = Backward[length + 1 - k]
    <3>1. length + 1 - k \in 1 .. length /\ length + 1 - (length + 1 - k) = k
      BY DEF Inv, Types
    <3>2. QED
      BY <1>2, <3>1
  <2>2. QED
    BY <2>1
<1>4. QED
  BY <1>1, <1>2, <1>3 DEF LinkedBothWays, Spells

-----------------------------------------------------------------------------
(* What each operation makes of the nodes s.                               *)

Pushed(s, n) == [k \in 1 .. length + 1 |-> IF k = length + 1 THEN n ELSE s[k]]
Queued(s, n) == [k \in 1 .. length + 1 |-> IF k = 1 THEN n ELSE s[k - 1]]
Popped(s)    == [k \in 1 .. length - 1 |-> s[k]]
Dequeued(s)  == [k \in 1 .. length - 1 |-> s[k + 1]]
Nodes(t) == t \in [1 .. length -> Node] /\ Spells(t)

LEMMA PushKeeps ==
  ASSUME Types, NEW s \in [1 .. length -> Node], Spells(s),
         NEW n \in Node, NEW d \in Data, NEW wild \in Pointer, List_push(n, d, wild),
         NEW t, t = Pushed(s, n)
  PROVE  Types' /\ Nodes(t)'
<1>1. /\ length' = length + 1 /\ length \in Nat
      /\ n \notin allocated /\ allocated' = allocated \cup {n}
      /\ data' = [data EXCEPT ![n] = d]
      /\ last' = n
  BY DEF List_push, malloc, Types
<1>2. /\ t \in [1 .. length' -> Node]
      /\ t[length + 1] = n
      /\ \A k \in 1 .. length : t[k] = s[k]
  BY <1>1 DEF Pushed
<1>3. \A k \in 1 .. length : s[k] \in allocated /\ s[k] # n
  BY <1>1 DEF Spells
<1>4. Types'
  <2>1. last \in Node \/ length = 0
    BY <1>1 DEF Spells
  <2>2. next' \in [Node -> Pointer] /\ prev' \in [Node -> Pointer]
    BY <2>1 DEF List_push, Types, Pointer
  <2>3. data' \in [Node -> Data \cup {NULL}] /\ allocated' \subseteq Node
    BY <1>1 DEF Types
  <2>4. \A m \in allocated' : data'[m] \in Data
    BY <1>1 DEF Types
  <2>5. QED
    BY <1>1, <2>2, <2>3, <2>4 DEF Types
<1>5. \A i, j \in 1 .. length' : t[i] = t[j] => i = j
  BY <1>1, <1>2, <1>3 DEF Spells
<1>6. {t[i] : i \in 1 .. length'} = allocated'
  <2>1. \A i \in 1 .. length' : i = length + 1 \/ (i \in 1 .. length /\ t[i] = s[i])
    BY <1>1, <1>2
  <2>2. length + 1 \in 1 .. length' /\ \A i \in 1 .. length : i \in 1 .. length'
    BY <1>1
  <2>3. {s[i] : i \in 1 .. length} = allocated
    BY DEF Spells
  <2>4. QED
    BY <1>1, <1>2, <2>1, <2>2, <2>3
<1>7. first' = t[1] /\ last' = t[length']
  BY <1>1, <1>2 DEF Spells, List_push
<1>8. \A i \in 1 .. length' - 1 : next'[t[i]] = t[i + 1] /\ prev'[t[i + 1]] = t[i]
  <2> SUFFICES ASSUME NEW i \in 1 .. length' - 1
               PROVE  next'[t[i]] = t[i + 1] /\ prev'[t[i + 1]] = t[i]
    OBVIOUS
  <2>1. i \in 1 .. length /\ length > 0
    BY <1>1
  <2>2. /\ next' = [next EXCEPT ![last] = n, ![n] = NULL]
        /\ prev' = [prev EXCEPT ![n] = last]
        /\ last = s[length]
    BY <2>1 DEF List_push, Spells
  <2>3. CASE i = length
    BY <1>1, <1>2, <1>3, <2>1, <2>2, <2>3 DEF Types
  <2>4. CASE i # length
    <3>1. i \in 1 .. length - 1 /\ i + 1 \in 1 .. length
      BY <1>1, <2>1, <2>4
    <3>2. next[s[i]] = s[i + 1] /\ prev[s[i + 1]] = s[i] /\ s[i] # s[length]
      <4>1. length \in 1 .. length
        BY <1>1, <2>1
      <4>2. QED
        BY <2>1, <2>4, <3>1, <4>1 DEF Spells
    <3>3. QED
      BY <1>2, <1>3, <2>1, <2>2, <3>1, <3>2 DEF Types
  <2>5. QED
    BY <2>3, <2>4
<1>9. QED
  BY <1>2, <1>4, <1>5, <1>6, <1>7, <1>8 DEF Spells, Nodes

LEMMA QueueKeeps ==
  ASSUME Types, NEW s \in [1 .. length -> Node], Spells(s),
         NEW n \in Node, NEW d \in Data, NEW wild \in Pointer, List_queue(n, d, wild),
         NEW t, t = Queued(s, n)
  PROVE  Types' /\ Nodes(t)'
<1>1. /\ length' = length + 1 /\ length \in Nat
      /\ n \notin allocated /\ allocated' = allocated \cup {n}
      /\ data' = [data EXCEPT ![n] = d]
      /\ first' = n
  BY DEF List_queue, malloc, Types
<1>2. /\ t \in [1 .. length' -> Node]
      /\ t[1] = n
      /\ \A k \in 1 .. length : t[k + 1] = s[k]
      /\ \A i \in 1 .. length' : i = 1 \/ (i - 1 \in 1 .. length /\ t[i] = s[i - 1])
  BY <1>1 DEF Queued
<1>3. \A k \in 1 .. length : s[k] \in allocated /\ s[k] # n
  BY <1>1 DEF Spells
<1>4. Types'
  <2>1. first \in Node \/ length = 0
    BY <1>1 DEF Spells
  <2>2. next' \in [Node -> Pointer] /\ prev' \in [Node -> Pointer]
    BY <2>1 DEF List_queue, Types, Pointer
  <2>3. data' \in [Node -> Data \cup {NULL}] /\ allocated' \subseteq Node
    BY <1>1 DEF Types
  <2>4. \A m \in allocated' : data'[m] \in Data
    BY <1>1 DEF Types
  <2>5. QED
    BY <1>1, <2>2, <2>3, <2>4 DEF Types
<1>5. \A i, j \in 1 .. length' : t[i] = t[j] => i = j
  BY <1>1, <1>2, <1>3 DEF Spells
<1>6. {t[i] : i \in 1 .. length'} = allocated'
  <2>1. \A i \in 1 .. length : s[i] = t[i + 1] /\ i + 1 \in 1 .. length'
    BY <1>1, <1>2
  <2>2. 1 \in 1 .. length'
    BY <1>1
  <2>3. {s[i] : i \in 1 .. length} = allocated
    BY DEF Spells
  <2>4. QED
    BY <1>1, <1>2, <2>1, <2>2, <2>3
<1>7. first' = t[1] /\ last' = t[length']
  <2>1. CASE length = 0
    BY <1>1, <1>2, <2>1 DEF List_queue
  <2>2. CASE length > 0
    BY <1>1, <1>2, <2>2 DEF Spells, List_queue
  <2>3. QED
    BY <1>1, <2>1, <2>2
<1>8. \A i \in 1 .. length' - 1 : next'[t[i]] = t[i + 1] /\ prev'[t[i + 1]] = t[i]
  <2> SUFFICES ASSUME NEW i \in 1 .. length' - 1
               PROVE  next'[t[i]] = t[i + 1] /\ prev'[t[i + 1]] = t[i]
    OBVIOUS
  <2>1. i \in 1 .. length /\ length > 0 /\ t[i + 1] = s[i]
    BY <1>1, <1>2
  <2>2. /\ next' = [next EXCEPT ![n] = first]
        /\ prev' = [prev EXCEPT ![first] = n, ![n] = wild]
        /\ first = s[1]
    BY <2>1 DEF List_queue, Spells
  <2>3. CASE i = 1
    BY <1>1, <1>2, <1>3, <2>1, <2>2, <2>3 DEF Types
  <2>4. CASE i # 1
    <3>1. i - 1 \in 1 .. length - 1 /\ t[i] = s[i - 1]
      BY <1>1, <1>2, <2>1, <2>4
    <3>2. next[s[i - 1]] = s[i] /\ prev[s[i]] = s[i - 1] /\ s[i] # s[1]
      <4>1. i - 1 + 1 = i /\ 1 \in 1 .. length
        BY <1>1, <2>1
      <4>2. QED
        BY <2>1, <2>4, <3>1, <4>1 DEF Spells
    <3>3. QED
      BY <1>3, <2>1, <2>2, <3>1, <3>2 DEF Types
  <2>5. QED
    BY <2>3, <2>4
<1>9. QED
  BY <1>2, <1>4, <1>5, <1>6, <1>7, <1>8 DEF Spells, Nodes

LEMMA PopKeeps ==
  ASSUME Types, NEW s \in [1 .. length -> Node], Spells(s), length > 0, List_pop,
         NEW t, t = Popped(s)
  PROVE  Types' /\ Nodes(t)'
<1>1. /\ length' = length - 1 /\ length \in Nat
      /\ allocated' = allocated \ {last}
      /\ data' = [m \in Node |-> IF m \in {last} THEN NULL ELSE data[m]]
      /\ last = s[length] /\ last \in Node
  BY DEF List_pop, returnNull, free, Types, Spells
<1>2. /\ t \in [1 .. length' -> Node]
      /\ \A k \in 1 .. length - 1 : t[k] = s[k]
  BY <1>1 DEF Popped
<1>3. \A k \in 1 .. length - 1 : s[k] \in allocated /\ s[k] # last
  <2>1. length \in 1 .. length /\ 1 .. length - 1 \subseteq 1 .. length
    BY <1>1
  <2>2. QED
    BY <1>1, <2>1 DEF Spells
<1>4. length > 1 => prev[last] = s[length - 1] /\ prev[last] \in Node
  <2> SUFFICES ASSUME length > 1
               PROVE  prev[last] = s[length - 1] /\ s[length - 1] \in Node
    OBVIOUS
  <2>1. length - 1 \in 1 .. length - 1 /\ length - 1 + 1 = length
    BY <1>1
  <2>2. prev[s[length - 1 + 1]] = s[length - 1]
    BY <2>1 DEF Spells
  <2>3. QED
    BY <1>1, <2>1, <2>2
<1>5. Types'
  <2>1. next' \in [Node -> Pointer] /\ prev' \in [Node -> Pointer]
    BY <1>4 DEF List_pop, returnNull, unlinkOnly, Types, Pointer
  <2>2. data' \in [Node -> Data \cup {NULL}] /\ allocated' \subseteq Node
    BY <1>1 DEF Types
  <2>3. \A m \in allocated' : data'[m] \in Data
    BY <1>1 DEF Types
  <2>4. QED
    BY <1>1, <2>1, <2>2, <2>3 DEF Types
<1>6. \A i, j \in 1 .. length' : t[i] = t[j] => i = j
  <2>1. 1 .. length' \subseteq 1 .. length
    BY <1>1
  <2>2. QED
    BY <1>1, <1>2, <2>1 DEF Spells
<1>7. {t[i] : i \in 1 .. length'} = allocated'
  <2>1. \A m \in allocated : m = last \/ \E i \in 1 .. length - 1 : m = s[i]
    <3>1. \A i \in 1 .. length : i = length \/ i \in 1 .. length - 1
      BY <1>1
    <3>2. QED
      BY <1>1, <3>1 DEF Spells
  <2>2. QED
    BY <1>1, <1>2, <1>3, <2>1
<1>8. length' > 0 => first' = t[1] /\ last' = t[length']
  BY <1>1, <1>2, <1>4 DEF Spells, List_pop, returnNull, unlinkOnly
<1>9. \A i \in 1 .. length' - 1 : next'[t[i]] = t[i + 1] /\ prev'[t[i + 1]] = t[i]
  <2> SUFFICES ASSUME NEW i \in 1 .. length' - 1
               PROVE  next'[t[i]] = t[i + 1] /\ prev'[t[i + 1]] = t[i]
    OBVIOUS
  <2>1. /\ i \in 1 .. length - 1 /\ i + 1 \in 1 .. length - 1 /\ length > 1
        /\ i \in 1 .. length /\ length - 1 \in 1 .. length /\ i # length - 1
    BY <1>1
  <2>2. next[s[i]] = s[i + 1] /\ prev[s[i + 1]] = s[i] /\ s[i] # s[length - 1]
    BY <2>1 DEF Spells
  <2>3. next' = [next EXCEPT ![s[length - 1]] = NULL] /\ prev' = prev
    BY <1>1, <1>4, <2>1 DEF List_pop, returnNull, unlinkOnly
  <2>4. QED
    BY <1>2, <2>1, <2>2, <2>3 DEF Types
<1>10. QED
  BY <1>2, <1>5, <1>6, <1>7, <1>8, <1>9 DEF Spells, Nodes

LEMMA DequeueKeeps ==
  ASSUME Types, NEW s \in [1 .. length -> Node], Spells(s), length > 0, List_dequeue,
         NEW t, t = Dequeued(s)
  PROVE  Types' /\ Nodes(t)'
<1>1. length > 1 => next[first] = s[2] /\ s[2] \in Node /\ prev[next[first]] = first
  <2> SUFFICES ASSUME length > 1
               PROVE  next[first] = s[2] /\ s[2] \in Node /\ prev[s[2]] = first
    OBVIOUS
  <2>1. 1 \in 1 .. length - 1 /\ 2 \in 1 .. length /\ 1 + 1 = 2 /\ first = s[1]
    BY DEF Types, Spells
  <2>2. next[s[1]] = s[1 + 1] /\ prev[s[1 + 1]] = s[1]
    BY <2>1 DEF Spells
  <2>3. QED
    BY <2>1, <2>2
<1>2. /\ length' = length - 1 /\ length \in Nat
      /\ allocated' = allocated \ {first}
      /\ data' = [m \in Node |-> IF m \in {first} THEN NULL ELSE data[m]]
      /\ first = s[1] /\ first \in Node
  BY <1>1 DEF List_dequeue, returnNull, unlinkOnly, free, Types, Spells
<1>3. /\ t \in [1 .. length' -> Node]
      /\ \A k \in 1 .. length - 1 : t[k] = s[k + 1] /\ k + 1 \in 1 .. length
  BY <1>2 DEF Dequeued
<1>4. \A k \in 1 .. length - 1 : s[k + 1] \in allocated /\ s[k + 1] # first
  <2>1. 1 \in 1 .. length /\ \A k \in 1 .. length - 1 : k + 1 \in 1 .. length /\ k + 1 # 1
    BY <1>2
  <2>2. QED
    BY <1>2, <2>1 DEF Spells
<1>5. Types'
  <2>1. next' \in [Node -> Pointer] /\ prev' \in [Node -> Pointer]
    BY <1>1 DEF List_dequeue, returnNull, unlinkOnly, Types, Pointer
  <2>2. data' \in [Node -> Data \cup {NULL}] /\ allocated' \subseteq Node
    BY <1>2 DEF Types
  <2>3. \A m \in allocated' : data'[m] \in Data
    BY <1>2 DEF Types
  <2>4. QED
    BY <1>2, <2>1, <2>2, <2>3 DEF Types
<1>6. \A i, j \in 1 .. length' : t[i] = t[j] => i = j
  <2> SUFFICES ASSUME NEW i \in 1 .. length', NEW j \in 1 .. length', t[i] = t[j]
               PROVE  i = j
    OBVIOUS
  <2>1. s[i + 1] = s[j + 1] /\ i + 1 \in 1 .. length /\ j + 1 \in 1 .. length
    BY <1>2, <1>3
  <2>2. i + 1 = j + 1
    BY <2>1 DEF Spells
  <2>3. QED
    BY <1>2, <2>2
<1>7. {t[i] : i \in 1 .. length'} = allocated'
  <2>1. \A m \in allocated : m = first \/ \E i \in 1 .. length - 1 : m = t[i]
    <3>1. \A i \in 1 .. length : i = 1 \/ (i - 1 \in 1 .. length - 1 /\ t[i - 1] = s[i])
      BY <1>2 DEF Dequeued
    <3>2. QED
      BY <1>2, <3>1 DEF Spells
  <2>2. QED
    BY <1>2, <1>3, <1>4, <2>1
<1>8. length' > 0 => first' = t[1] /\ last' = t[length']
  <2> SUFFICES ASSUME length > 1
               PROVE  first' = t[1] /\ last' = t[length - 1]
    BY <1>2
  <2>1. first' = next[first] /\ last' = last /\ last = s[length]
    BY DEF List_dequeue, returnNull, unlinkOnly, Spells
  <2>2. 1 \in 1 .. length - 1 /\ length - 1 \in 1 .. length - 1
    BY <1>2
  <2>3. t[1] = s[2] /\ t[length - 1] = s[length]
    BY <1>2, <2>2 DEF Dequeued
  <2>4. QED
    BY <1>1, <2>1, <2>3
<1>9. \A i \in 1 .. length' - 1 : next'[t[i]] = t[i + 1] /\ prev'[t[i + 1]] = t[i]
  <2> SUFFICES ASSUME NEW i \in 1 .. length' - 1
               PROVE  next'[t[i]] = t[i + 1] /\ prev'[t[i + 1]] = t[i]
    OBVIOUS
  <2>1. /\ i + 1 \in 1 .. length - 1 /\ i \in 1 .. length - 1 /\ length > 1
        /\ 2 \in 1 .. length /\ i + 2 \in 1 .. length /\ i + 2 # 2 /\ i + 1 + 1 = i + 2
    BY <1>2
  <2>2. /\ next[s[i + 1]] = s[i + 2] /\ prev[s[i + 2]] = s[i + 1] /\ s[i + 2] # s[2]
        /\ s[i + 2] \in Node
    BY <2>1 DEF Spells
  <2>3. next' = next /\ prev' = [prev EXCEPT ![s[2]] = NULL]
    BY <1>1, <2>1 DEF List_dequeue, returnNull, unlinkOnly
  <2>4. t[i] = s[i + 1] /\ t[i + 1] = s[i + 2]
    BY <1>3, <2>1
  <2>5. QED
    BY <2>2, <2>3, <2>4 DEF Types
<1>10. QED
  BY <1>3, <1>5, <1>6, <1>7, <1>8, <1>9 DEF Spells, Nodes

LEMMA ClearKeeps ==
  ASSUME Types, NEW s \in [1 .. length -> Node], Spells(s), List_clear,
         NEW t, t = [k \in 1 .. 0 |-> NULL]
  PROVE  Types' /\ Nodes(t)' /\ allocated' = {}
<1>1. NthFrom(first, next) = s
  BY WalksMeet DEF Forward
<1>2. {s[k] : k \in 1 .. length} = allocated
  BY DEF Spells
<1>3. free(allocated) /\ length' = 0 /\ next' = next /\ prev' = prev
  BY <1>1, <1>2 DEF List_clear
<1>4. allocated' = {}
  BY <1>3 DEF free
<1>5. Types'
  <2>1. data' \in [Node -> Data \cup {NULL}]
    BY <1>3 DEF free, Types
  <2>2. QED
    BY <1>3, <1>4, <2>1 DEF Types
<1>6. Nodes(t)'
  <2>1. 1 .. length' = {} /\ 1 .. length' - 1 = {} /\ ~ (length' > 0)
    BY <1>3
  <2>2. t \in [1 .. length' -> Node]
    BY <1>3
  <2>3. QED
    BY <1>4, <2>1, <2>2 DEF Nodes, Spells
<1>7. QED
  BY <1>4, <1>5, <1>6

\* An operation on the empty list, and a step of another component.
LEMMA RestKeeps ==
  ASSUME Types, NEW s \in [1 .. length -> Node], Spells(s),
         UNCHANGED <<first, last, length, fields, allocated>>
  PROVE  Types' /\ Nodes(s)'
<1>1. /\ first' = first /\ last' = last /\ length' = length /\ allocated' = allocated
      /\ next' = next /\ prev' = prev /\ data' = data
  BY DEF fields
<1>2. Types'
  BY <1>1 DEF Types
<1>3. Nodes(s)'
  BY <1>1 DEF Nodes, Spells
<1>4. QED
  BY <1>2, <1>3

-----------------------------------------------------------------------------
LEMMA InitHolds ==
  ASSUME Init
  PROVE  Inv
<1> DEFINE none == [k \in 1 .. 0 |-> NULL]
<1>1. Types
  BY DEF Init, List_init, Types, Pointer
<1>2. Spells(none) /\ none \in [1 .. length -> Node]
  <2>1. 1 .. length = {} /\ 1 .. length - 1 = {} /\ ~ (length > 0) /\ length = 0
    BY DEF Init, List_init
  <2>2. none \in [1 .. length -> Node]
    BY <2>1
  <2>3. allocated = {}
    BY DEF Init
  <2>4. QED
    BY <2>1, <2>2, <2>3 DEF Spells
<1>3. QED
  BY <1>1, <1>2 DEF Inv

LEMMA StepKeeps ==
  ASSUME Inv, [Next]_vars
  PROVE  Inv'
<1>1. Types
  BY DEF Inv
<1>2. PICK s \in [1 .. length -> Node] : Spells(s)
  BY DEF Inv
<1>3. ASSUME Types', NEW t, Nodes(t)'
      PROVE  Inv'
  BY <1>3 DEF Inv, Nodes
<1>4. CASE \E n \in Node, d \in Data, wild \in Pointer : List_push(n, d, wild)
  <2>1. PICK n \in Node, d \in Data, wild \in Pointer : List_push(n, d, wild)
    BY <1>4
  <2>2. PICK t : t = Pushed(s, n)
    OBVIOUS
  <2>3. QED
    BY <1>1, <1>2, <1>3, <2>1, <2>2, PushKeeps
<1>5. CASE \E n \in Node, d \in Data, wild \in Pointer : List_queue(n, d, wild)
  <2>1. PICK n \in Node, d \in Data, wild \in Pointer : List_queue(n, d, wild)
    BY <1>5
  <2>2. PICK t : t = Queued(s, n)
    OBVIOUS
  <2>3. QED
    BY <1>1, <1>2, <1>3, <2>1, <2>2, QueueKeeps
<1>6. CASE List_pop /\ length > 0
  <2>1. PICK t : t = Popped(s)
    OBVIOUS
  <2>2. QED
    BY <1>1, <1>2, <1>3, <1>6, <2>1, PopKeeps
<1>7. CASE List_dequeue /\ length > 0
  <2>1. PICK t : t = Dequeued(s)
    OBVIOUS
  <2>2. QED
    BY <1>1, <1>2, <1>3, <1>7, <2>1, DequeueKeeps
<1>8. CASE List_clear
  <2>1. PICK t : t = [k \in 1 .. 0 |-> NULL]
    OBVIOUS
  <2>2. QED
    BY <1>1, <1>2, <1>3, <1>8, <2>1, ClearKeeps
<1>9. CASE returnNull \/ UNCHANGED vars
  <2>1. UNCHANGED <<first, last, length, fields, allocated>>
    BY <1>9 DEF returnNull, vars
  <2>2. QED
    BY <1>1, <1>2, <1>3, <2>1, RestKeeps
<1>10. QED
  BY <1>4, <1>5, <1>6, <1>7, <1>8, <1>9 DEF Next, UsedNext, List_pop, List_dequeue

\* Whatever pushes, queues, pops, dequeues and clears come after one another,
\* there is one sequence of distinct nodes that first, last, length and the
\* links of list.c agree on, and its nodes are all that is allocated.
THEOREM Invariant == Spec => []Inv
<1>1. QED
  BY InitHolds, StepKeeps, PTL DEF Spec

\* The walks from both ends of the list meet the same nodes, each once, and no
\* other is allocated: no operation of list.c loses a node or frees one in use.
THEOREM AlwaysLinkedBothWays == Spec => []LinkedBothWays
<1>1. QED
  BY Invariant, InvImpliesLinked, PTL

-----------------------------------------------------------------------------
LEMMA UsedKeepsWalkEnds ==
  ASSUME Inv, WalkEnds, UsedNext
  PROVE  WalkEnds'
<1>1. PICK s \in [1 .. length -> Node] : Spells(s)
  BY DEF Inv
<1>2. length \in Nat /\ next \in [Node -> Pointer]
  BY DEF Inv, Types
<1>3. ASSUME NEW n \in Node, NEW d \in Data, NEW wild \in Pointer, List_push(n, d, wild)
      PROVE  next'[last'] = NULL
  BY <1>2, <1>3 DEF List_push
<1>4. CASE length > 1 /\ List_pop
  <2>1. /\ length \in 1 .. length /\ length - 1 \in 1 .. length - 1
        /\ length - 1 \in 1 .. length /\ length - 1 + 1 = length
    BY <1>2, <1>4
  <2>2. prev[last] = s[length - 1] /\ s[length - 1] \in Node
    <3>1. prev[s[length - 1 + 1]] = s[length - 1] /\ last = s[length]
      BY <1>1, <1>4, <2>1 DEF Spells
    <3>2. QED
      BY <2>1, <3>1
  <2>3. last' = prev[last] /\ next' = [next EXCEPT ![prev[last]] = NULL]
    BY <1>4 DEF List_pop, returnNull, unlinkOnly
  <2>4. QED
    BY <1>2, <2>2, <2>3 DEF WalkEnds
<1>5. CASE length > 1 /\ List_dequeue
  <2>1. last' = last /\ next' = next /\ length > 0
    BY <1>5 DEF List_dequeue, returnNull, unlinkOnly
  <2>2. QED
    BY <2>1 DEF WalkEnds
<1>6. CASE length <= 1 /\ (List_pop \/ List_dequeue)
  <2>1. ~ (length' > 0)
    BY <1>2, <1>6 DEF List_pop, List_dequeue, returnNull
  <2>2. QED
    BY <2>1 DEF WalkEnds
<1>7. CASE List_clear
  <2>1. length' = 0
    BY <1>7 DEF List_clear
  <2>2. QED
    BY <2>1 DEF WalkEnds
<1>8. QED
  BY <1>2, <1>3, <1>4, <1>5, <1>6, <1>7 DEF UsedNext, WalkEnds

\* A list whose last node points to no other keeps that under every operation
\* that the interpreter calls, so LIST_FOREACH over a list of its own stops.
THEOREM WalksEnd == Spec => WalkStaysWhole
<1>1. Inv /\ [Next]_vars => [WalkEnds /\ UsedNext => WalkEnds']_vars
  BY UsedKeepsWalkEnds
<1>2. QED
  BY <1>1, Invariant, PTL DEF Spec, WalkStaysWhole

-----------------------------------------------------------------------------
(* The list as the sequence of its data.                                   *)

\* What the nodes of s hold.
Holds(s) == [k \in 1 .. length |-> data[s[k]]]

LEMMA ContentsAre == \A s : Types /\ Nodes(s) => Contents = Holds(s)
<1> SUFFICES ASSUME NEW s, Types, Nodes(s)
             PROVE  Contents = Holds(s)
  OBVIOUS
<1>1. Forward = s /\ \A k \in 1 .. length : s[k] \in Node
  BY WalksMeet DEF Nodes
<1>2. QED
  BY <1>1 DEF Contents, Holds

LEMMA ContentsNext == \A s : Types' /\ Nodes(s)' => Contents' = Holds(s)'
<1>1. (\A s : Types /\ Nodes(s) => Contents = Holds(s))'
  BY ContentsAre, PTL
<1>2. QED
  BY <1>1

\* A sequence is a function, and these are the ones the operations make.
LEMMA Held ==
  ASSUME Types, NEW s, Nodes(s)
  PROVE  /\ Holds(s) \in Seq(Data) /\ Len(Holds(s)) = length
         /\ \A k \in 1 .. length : Holds(s)[k] = data[s[k]]
<1>1. \A k \in 1 .. length : data[s[k]] \in Data
  BY DEF Types, Nodes, Spells
<1>2. QED
  BY <1>1 DEF Types, Holds

LEMMA AppendIs ==
  ASSUME NEW S, NEW q \in Seq(S), NEW e \in S
  PROVE  Append(q, e) = [k \in 1 .. Len(q) + 1 |-> IF k = Len(q) + 1 THEN e ELSE q[k]]
<1> DEFINE F == [k \in 1 .. Len(q) + 1 |-> IF k = Len(q) + 1 THEN e ELSE q[k]]
<1>1. F \in Seq(S) /\ Len(F) = Len(q) + 1
  <2>1. \A k \in 1 .. Len(q) + 1 : F[k] \in S
    OBVIOUS
  <2>2. QED
    BY <2>1
<1>2. \A k \in 1 .. Len(q) + 1 : Append(q, e)[k] = F[k]
  BY AppendProperties
<1> HIDE DEF F
<1>3. Append(q, e) = F
  BY <1>1, <1>2, AppendProperties, SeqEqual
<1>4. QED
  BY <1>3 DEF F

LEMMA TailIs ==
  ASSUME NEW S, NEW q \in Seq(S), q # <<>>
  PROVE  Tail(q) = [k \in 1 .. Len(q) - 1 |-> q[k + 1]]
<1> DEFINE F == [k \in 1 .. Len(q) - 1 |-> q[k + 1]]
<1>1. F \in Seq(S) /\ Len(F) = Len(q) - 1
  <2>1. \A k \in 1 .. Len(q) - 1 : F[k] \in S
    OBVIOUS
  <2>2. Len(q) - 1 \in Nat
    OBVIOUS
  <2>3. QED
    BY <2>1, <2>2
<1>2. \A k \in 1 .. Len(q) - 1 : Tail(q)[k] = F[k]
  BY HeadTailProperties
<1> HIDE DEF F
<1>3. Tail(q) = F
  BY <1>1, <1>2, HeadTailProperties, SeqEqual
<1>4. QED
  BY <1>3 DEF F

LEMMA PushAsTold ==
  ASSUME Types, NEW s, Nodes(s), NEW n \in Node, NEW d \in Data, NEW wild \in Pointer,
         List_push(n, d, wild)
  PROVE  Contents' = Append(Contents, d) /\ result' = NULL
<1>1. PICK t : t = Pushed(s, n)
  OBVIOUS
<1>2. Contents' = [k \in 1 .. length' |-> data'[t[k]]]
  BY <1>1, PushKeeps, ContentsNext DEF Nodes, Holds
<1>3. Contents = Holds(s)
  BY ContentsAre
<1>4. length' = length + 1 /\ data' = [data EXCEPT ![n] = d] /\ n \notin allocated
  BY DEF List_push, malloc
<1>5. \A k \in 1 .. length : t[k] = s[k] /\ s[k] # n /\ s[k] \in Node
  BY <1>1, <1>4 DEF Types, Pushed, Nodes, Spells
<1>6. t[length + 1] = n
  BY <1>1 DEF Types, Pushed
<1>7. \A k \in 1 .. length + 1 : data'[t[k]] = IF k = length + 1 THEN d ELSE Holds(s)[k]
  <2>1. data'[n] = d /\ \A k \in 1 .. length : data'[s[k]] = data[s[k]]
    BY <1>4, <1>5 DEF Types
  <2>2. \A k \in 1 .. length + 1 : k = length + 1 \/ k \in 1 .. length
    BY DEF Types
  <2>3. ~ (length + 1 \in 1 .. length)
    BY DEF Types
  <2>4. \A k \in 1 .. length : data[s[k]] = Holds(s)[k]
    BY Held
  <2> HIDE DEF Holds
  <2>5. ASSUME NEW k \in 1 .. length
        PROVE  data'[t[k]] = Holds(s)[k] /\ k # length + 1
    BY <1>5, <2>1, <2>3, <2>4
  <2>6. QED
    BY <1>6, <2>1, <2>2, <2>5
<1>8. Append(Holds(s), d) = [k \in 1 .. length + 1 |-> IF k = length + 1 THEN d ELSE Holds(s)[k]]
  BY Held, AppendIs
<1>9. result' = NULL
  BY DEF List_push
<1>10. QED
  BY <1>2, <1>3, <1>4, <1>7, <1>8, <1>9

LEMMA QueueAsTold ==
  ASSUME Types, NEW s, Nodes(s), NEW n \in Node, NEW d \in Data, NEW wild \in Pointer,
         List_queue(n, d, wild)
  PROVE  Contents' = <<d>> \o Contents /\ result' = NULL
<1>1. PICK t : t = Queued(s, n)
  OBVIOUS
<1>2. Contents' = [k \in 1 .. length' |-> data'[t[k]]]
  BY <1>1, QueueKeeps, ContentsNext DEF Nodes, Holds
<1>3. Contents = Holds(s)
  BY ContentsAre
<1>4. length' = length + 1 /\ data' = [data EXCEPT ![n] = d] /\ n \notin allocated
  BY DEF List_queue, malloc
<1>5. \A k \in 1 .. length : s[k] # n /\ s[k] \in Node
  BY <1>1, <1>4 DEF Types, Nodes, Spells
<1>6. \A k \in 1 .. length + 1 : t[k] = IF k = 1 THEN n ELSE s[k - 1]
  BY <1>1 DEF Types, Queued
<1>7. \A k \in 1 .. length + 1 : data'[t[k]] = IF k = 1 THEN d ELSE Holds(s)[k - 1]
  <2>1. data'[n] = d /\ \A k \in 1 .. length : data'[s[k]] = data[s[k]]
    BY <1>4, <1>5 DEF Types
  <2>2. \A k \in 1 .. length + 1 : k = 1 \/ k - 1 \in 1 .. length
    BY DEF Types
  <2>3. QED
    BY <1>6, <2>1, <2>2, Held
<1>8. <<d>> \o Holds(s) = [k \in 1 .. length + 1 |-> IF k = 1 THEN d ELSE Holds(s)[k - 1]]
  BY Held DEF Types
<1>9. result' = NULL
  BY DEF List_queue
<1>10. QED
  BY <1>2, <1>3, <1>4, <1>7, <1>8, <1>9

LEMMA PopAsTold ==
  ASSUME Types, NEW s, Nodes(s), length > 0, List_pop
  PROVE  /\ Contents # <<>> /\ result' = Contents[Len(Contents)]
         /\ Contents' = SubSeq(Contents, 1, Len(Contents) - 1)
<1>1. PICK t : t = Popped(s)
  OBVIOUS
<1>2. Contents' = [k \in 1 .. length' |-> data'[t[k]]]
  BY <1>1, PopKeeps, ContentsNext DEF Nodes, Holds
<1>3. Contents = Holds(s)
  BY ContentsAre
<1>4. /\ length' = length - 1 /\ result' = data[last] /\ last = s[length]
      /\ data' = [m \in Node |-> IF m \in {last} THEN NULL ELSE data[m]]
      /\ length \in 1 .. length
  BY DEF List_pop, returnNull, free, Types, Nodes, Spells
<1>5. \A k \in 1 .. length - 1 : t[k] = s[k] /\ s[k] # last /\ s[k] \in Node
  <2>1. 1 .. length - 1 \subseteq 1 .. length /\ length \notin 1 .. length - 1
    BY DEF Types
  <2>2. QED
    BY <1>1, <1>4, <2>1 DEF Popped, Nodes, Spells
<1>6. \A k \in 1 .. length - 1 : data'[t[k]] = Holds(s)[k]
  BY <1>4, <1>5, Held DEF Types
<1>7. SubSeq(Holds(s), 1, length - 1) = [k \in 1 .. length - 1 |-> Holds(s)[k]]
  BY Held DEF Types
<1>8. Holds(s) # <<>> /\ Holds(s)[length] = data[last]
  BY <1>4, Held
<1>9. QED
  BY <1>2, <1>3, <1>4, <1>6, <1>7, <1>8, Held

LEMMA DequeueAsTold ==
  ASSUME Types, NEW s, Nodes(s), length > 0, List_dequeue
  PROVE  Contents # <<>> /\ result' = Head(Contents) /\ Contents' = Tail(Contents)
<1>1. PICK t : t = Dequeued(s)
  OBVIOUS
<1>2. Contents' = [k \in 1 .. length' |-> data'[t[k]]]
  BY <1>1, DequeueKeeps, ContentsNext DEF Nodes, Holds
<1>3. Contents = Holds(s)
  BY ContentsAre
<1>4. length > 1 => prev[next[first]] = first
  <2> SUFFICES ASSUME length > 1
               PROVE  prev[next[first]] = first
    OBVIOUS
  <2>1. 1 \in 1 .. length - 1
    BY DEF Types
  <2>2. QED
    BY <2>1 DEF Nodes, Spells
<1>5. /\ length' = length - 1 /\ result' = data[first] /\ first = s[1]
      /\ data' = [m \in Node |-> IF m \in {first} THEN NULL ELSE data[m]]
      /\ 1 \in 1 .. length
  BY <1>4 DEF List_dequeue, returnNull, unlinkOnly, free, Types, Nodes, Spells
<1>6. \A k \in 1 .. length - 1 : t[k] = s[k + 1] /\ s[k + 1] # first /\ s[k + 1] \in Node
  <2>1. \A k \in 1 .. length - 1 : k + 1 \in 1 .. length /\ k + 1 # 1
    BY DEF Types
  <2>2. QED
    BY <1>1, <1>5, <2>1 DEF Dequeued, Nodes, Spells
<1>7. \A k \in 1 .. length - 1 : data'[t[k]] = Holds(s)[k + 1]
  <2>1. \A k \in 1 .. length - 1 : k + 1 \in 1 .. length
    BY DEF Types
  <2>2. QED
    BY <1>5, <1>6, <2>1, Held DEF Types
<1>8. Tail(Holds(s)) = [k \in 1 .. length - 1 |-> Holds(s)[k + 1]]
  BY Held, TailIs
<1>9. Holds(s) # <<>> /\ Head(Holds(s)) = data[first]
  BY <1>5, Held
<1>10. QED
  BY <1>2, <1>3, <1>5, <1>7, <1>8, <1>9

LEMMA EmptyAsTold ==
  ASSUME Types, NEW s, Nodes(s), length = 0
  PROVE  Contents = <<>>
<1>1. Contents = Holds(s)
  BY ContentsAre
<1>2. QED
  BY <1>1 DEF Holds

LEMMA ClearAsTold ==
  ASSUME Types, NEW s, Nodes(s), List_clear
  PROVE  Contents' = <<>> /\ result' = NULL
<1>1. PICK t : t = [k \in 1 .. 0 |-> NULL]
  OBVIOUS
<1>2. Contents' = [k \in 1 .. length' |-> data'[t[k]]]
  BY <1>1, ClearKeeps, ContentsNext DEF Nodes, Holds
<1>3. length' = 0 /\ result' = NULL
  BY DEF List_clear
<1>4. QED
  BY <1>2, <1>3

LEMMA RestAsTold ==
  ASSUME Types, NEW s, Nodes(s), UNCHANGED <<first, last, length, fields, allocated>>
  PROVE  Contents' = Contents
<1>1. Contents' = [k \in 1 .. length' |-> data'[s[k]]]
  BY RestKeeps, ContentsNext DEF Nodes, Holds
<1>2. QED
  BY <1>1, ContentsAre DEF Holds, fields

LEMMA InitAsTold ==
  ASSUME Init
  PROVE  Abstract!Init
<1>1. PICK s \in [1 .. length -> Node] : Spells(s)
  BY InitHolds DEF Inv
<1>2. Contents = <<>>
  BY <1>1, InitHolds, EmptyAsTold DEF Init, List_init, Inv, Nodes
<1>3. QED
  BY <1>2 DEF Init, Abstract!Init

LEMMA StepAsTold ==
  ASSUME Inv, [Next]_vars
  PROVE  [Abstract!Next]_(Abstract!vars)
<1>1. PICK s \in [1 .. length -> Node] : Types /\ Nodes(s)
  BY DEF Inv, Nodes
<1>2. ASSUME NEW n \in Node, NEW d \in Data, NEW wild \in Pointer, List_push(n, d, wild)
      PROVE  Abstract!Next
  BY <1>1, <1>2, PushAsTold DEF Abstract!Next, Abstract!Push
<1>3. ASSUME NEW n \in Node, NEW d \in Data, NEW wild \in Pointer, List_queue(n, d, wild)
      PROVE  Abstract!Next
  BY <1>1, <1>3, QueueAsTold DEF Abstract!Next, Abstract!Queue
<1>4. CASE List_pop /\ length > 0
  BY <1>1, <1>4, PopAsTold DEF Abstract!Next, Abstract!Pop
<1>5. CASE List_dequeue /\ length > 0
  BY <1>1, <1>5, DequeueAsTold DEF Abstract!Next, Abstract!Dequeue
<1>6. CASE List_clear
  BY <1>1, <1>6, ClearAsTold DEF Abstract!Next, Abstract!Clear
<1>7. CASE returnNull
  <2>1. Contents = <<>> /\ Contents' = Contents /\ result' = NULL
    BY <1>1, <1>7, EmptyAsTold, RestAsTold DEF returnNull
  <2>2. QED
    BY <2>1 DEF Abstract!Next, Abstract!Pop
<1>8. CASE UNCHANGED vars
  <2>1. Contents' = Contents /\ result' = result
    BY <1>1, <1>8, RestAsTold DEF vars
  <2>2. QED
    BY <2>1 DEF Abstract!vars
<1>9. QED
  BY <1>2, <1>3, <1>4, <1>5, <1>6, <1>7, <1>8 DEF Next, UsedNext, List_pop, List_dequeue

\* list.c implements the sequence list.h promises: what is pushed, queued,
\* popped and dequeued comes back in the order of the sequence, NULL of an
\* empty one, for any number of nodes and any data.
THEOREM ActsAsDeque == Spec => ImplementsDeque
<1>1. Init => Abstract!Init
  BY InitAsTold
<1>2. Inv /\ [Next]_vars => [Abstract!Next]_(Abstract!vars)
  BY StepAsTold
<1>3. QED
  BY <1>1, <1>2, Invariant, PTL DEF Spec, ImplementsDeque, Abstract!Spec
=============================================================================
