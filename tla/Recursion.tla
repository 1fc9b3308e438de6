------------------------------ MODULE Recursion ------------------------------
(***************************************************************************)
(* A set of natural numbers that is not empty has a least member: the      *)
(* first function of a name, which the loop of derp_vm_run finds, and the  *)
(* first place at which something fails, from which proofs by induction    *)
(* are made.                                                               *)
(*                                                                         *)
(* What is defined step by step over the natural numbers, as recursive     *)
(* functions are: there is such a function, for every p it is made from.   *)
(***************************************************************************)
EXTENDS Integers, FiniteSets, FiniteSetTheorems, WellFoundedInduction, TLAPS

CONSTANTS
  Start(_),        \* the first value
  Step(_, _, _)    \* the n-th value, from n and the one before

-----------------------------------------------------------------------------
\* Among finite sets one contains none of the others.
LEMMA SmallestSet ==
  ASSUME NEW T, T \subseteq FiniteSubsetsOf(Nat), T # {}
  PROVE  \E t \in T : \A u \in T : ~ (<<u, t>> \in StrictSubsetOrdering(Nat))
<1>1. IsWellFoundedOn(StrictSubsetOrdering(Nat), FiniteSubsetsOf(Nat))
  BY FS_StrictSubsetOrderingWellFounded, Zenon
<1>2. QED
  BY <1>1, WFMin, Zenon

\* So a set of natural numbers that is not empty has a least member.
LEMMA Least ==
  ASSUME NEW S \in SUBSET Nat, S # {}
  PROVE  \E f \in S : \A g \in S : f <= g
<1> DEFINE T == {0 .. f : f \in S}
<1>1. T \subseteq FiniteSubsetsOf(Nat) /\ T # {}
  <2>1. \A f \in S : 0 .. f \subseteq Nat /\ IsFiniteSet(0 .. f)
    BY FS_Interval
  <2>2. QED
    BY <2>1 DEF FiniteSubsetsOf
<1>2. PICK t \in T : \A u \in T : ~ (<<u, t>> \in StrictSubsetOrdering(Nat))
  <2> HIDE DEF T
  <2>1. QED
    BY <1>1, SmallestSet
<1>3. PICK f \in S : t = 0 .. f
  OBVIOUS
<1>4. ASSUME NEW g \in S, g < f
      PROVE  FALSE
  <2>1. /\ 0 .. g \in SUBSET Nat
        /\ t \in SUBSET Nat
        /\ 0 .. g \subseteq t
        /\ 0 .. g # t
    BY <1>3, <1>4
  <2>2. <<0 .. g, t>> \in StrictSubsetOrdering(Nat)
    BY <2>1 DEF StrictSubsetOrdering
  <2>3. QED
    BY <1>2, <2>2
<1>5. QED
  BY <1>4

-----------------------------------------------------------------------------
(* There is such a function: its beginnings exist, agree, and make it up.  *)

From(p) == LET at[n \in Nat] == IF n = 0 THEN Start(p) ELSE Step(p, n, at[n - 1]) IN at

Upto(p, n, g) == g = [m \in 0 .. n |-> IF m = 0 THEN Start(p) ELSE Step(p, m, g[m - 1])]

LEMMA BeginningsExist ==
  ASSUME NEW p
  PROVE  \A n \in Nat : \E g : Upto(p, n, g)
<1> DEFINE Off == {n \in Nat : ~ \E g : Upto(p, n, g)}
<1> SUFFICES ASSUME Off # {}
             PROVE  FALSE
  OBVIOUS
<1>1. PICK n \in Off : \A m \in Off : n <= m
  <2>1. Off \in SUBSET Nat
    OBVIOUS
  <2>2. QED
    BY <2>1, Least
<1>2. n # 0
  <2> DEFINE g == [m \in 0 .. 0 |-> Start(p)]
  <2>1. Upto(p, 0, g)
    BY DEF Upto
  <2>2. QED
    BY <1>1, <2>1
<1>3. PICK h : Upto(p, n - 1, h)
  <2>1. n - 1 \in Nat /\ n - 1 \notin Off
    BY <1>1, <1>2
  <2>2. QED
    BY <2>1
<1> DEFINE g == [m \in 0 .. n |-> IF m = n THEN Step(p, n, h[n - 1]) ELSE h[m]]
<1>4. \A m \in 0 .. n - 1 : h[m] = IF m = 0 THEN Start(p) ELSE Step(p, m, h[m - 1])
  BY <1>3 DEF Upto
<1>5. \A m \in 0 .. n : g[m] = IF m = 0 THEN Start(p) ELSE Step(p, m, g[m - 1])
  <2> SUFFICES ASSUME NEW m \in 0 .. n
               PROVE  g[m] = IF m = 0 THEN Start(p) ELSE Step(p, m, g[m - 1])
    OBVIOUS
  <2>1. CASE m = n
    BY <1>1, <1>2, <2>1
  <2>2. CASE m # n
    BY <1>1, <1>4, <2>2
  <2>3. QED
    BY <2>1, <2>2
<1>6. Upto(p, n, g)
  BY <1>5 DEF Upto
<1>7. QED
  BY <1>1, <1>6

LEMMA BeginningsAgree ==
  ASSUME NEW p, NEW k \in Nat, NEW n \in Nat, NEW g, NEW h, Upto(p, k, g), Upto(p, n, h), k <= n
  PROVE  \A m \in 0 .. k : g[m] = h[m]
<1> DEFINE Off == {m \in 0 .. k : g[m] # h[m]}
<1> SUFFICES ASSUME Off # {}
             PROVE  FALSE
  OBVIOUS
<1>1. PICK m \in Off : \A l \in Off : m <= l
  <2>1. Off \in SUBSET Nat
    OBVIOUS
  <2>2. QED
    BY <2>1, Least
<1>2. /\ g[m] = IF m = 0 THEN Start(p) ELSE Step(p, m, g[m - 1])
      /\ h[m] = IF m = 0 THEN Start(p) ELSE Step(p, m, h[m - 1])
  BY DEF Upto
<1>3. m # 0 => g[m - 1] = h[m - 1]
  BY <1>1
<1>4. QED
  BY <1>2, <1>3

LEMMA FromIs ==
  ASSUME NEW p
  PROVE  From(p) = [n \in Nat |-> IF n = 0 THEN Start(p) ELSE Step(p, n, From(p)[n - 1])]
<1> DEFINE beginning(n) == CHOOSE g : Upto(p, n, g)
           whole == [n \in Nat |-> beginning(n)[n]]
           Is(f) == f = [n \in Nat |-> IF n = 0 THEN Start(p) ELSE Step(p, n, f[n - 1])]
<1>1. \A n \in Nat : Upto(p, n, beginning(n))
  BY BeginningsExist
<1> HIDE DEF beginning
<1>2. \A n \in Nat : whole[n] = IF n = 0 THEN Start(p) ELSE Step(p, n, whole[n - 1])
  <2> SUFFICES ASSUME NEW n \in Nat
               PROVE  whole[n] = IF n = 0 THEN Start(p) ELSE Step(p, n, whole[n - 1])
    OBVIOUS
  <2>1. beginning(n)[n] = IF n = 0 THEN Start(p) ELSE Step(p, n, beginning(n)[n - 1])
    BY <1>1 DEF Upto
  <2>2. CASE n = 0
    BY <2>1, <2>2
  <2>3. CASE n # 0
    <3>1. n - 1 \in Nat /\ n - 1 <= n /\ n - 1 \in 0 .. n - 1
      BY <2>3
    <3>2. beginning(n - 1)[n - 1] = beginning(n)[n - 1]
      BY <1>1, <3>1, BeginningsAgree
    <3>3. QED
      BY <2>1, <2>3, <3>1, <3>2
  <2>4. QED
    BY <2>2, <2>3
<1>3. Is(whole)
  BY <1>2
<1>4. From(p) = CHOOSE f : Is(f)
  BY DEF From
<1> HIDE DEF whole
<1>5. QED
  BY <1>3, <1>4
=============================================================================
