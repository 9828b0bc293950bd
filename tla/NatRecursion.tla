---------------------------- MODULE NatRecursion ----------------------------
(***************************************************************************)
(* Induction and recursion over the natural numbers without operators as   *)
(* parameters: the step of a recursion is a function.                      *)
(***************************************************************************)
EXTENDS Integers, WellFoundedInduction, TLAPS

\* Every set of numbers has a least one.
LEMMA LeastNumber ==
  ASSUME NEW T, T \subseteq Nat, T # {}
  PROVE  \E x \in T : \A y \in T : x <= y
<1>1. \E x \in T : \A y \in T : <<y, x>> \notin OpToRel(<, Nat)
  BY NatLessThanWellFounded, WFMin, Zenon
<1>2. PICK x \in T : \A y \in T : <<y, x>> \notin OpToRel(<, Nat)
  BY <1>1
<1>3. ASSUME NEW y \in T PROVE ~(y < x)
  <2>1. <<y, x>> \notin OpToRel(<, Nat)
    BY <1>2
  <2>2. <<y, x>> \in Nat \X Nat
    OBVIOUS
  <2> QED BY <2>1, <2>2 DEF OpToRel
<1> QED BY <1>3

\* A set of numbers up to n that holds 0 and, with each number below n, the
\* next one, holds them all.
LEMMA UpTo ==
  ASSUME NEW n \in Nat, NEW G, 0 \in G,
         \A k \in 1..n : k - 1 \in G => k \in G
  PROVE  0..n \subseteq G
<1> DEFINE Bad == {k \in 0..n : k \notin G}
<1> SUFFICES ASSUME Bad # {} PROVE FALSE
  OBVIOUS
<1>1. Bad \subseteq Nat
  OBVIOUS
<1>2. PICK k \in Bad : \A m \in Bad : k <= m
  <2> HIDE DEF Bad
  <2> QED BY <1>1, LeastNumber
<1>3. k \in 1..n /\ k \notin G
  OBVIOUS
<1>4. k - 1 \in G
  BY <1>2, <1>3
<1> QED BY <1>3, <1>4

(***************************************************************************)
(* Recursion.  step[k] takes the value at k - 1 to the value at k.         *)
(***************************************************************************)
IsIterate(p, V, c, step, n) ==
  /\ p \in [0..n -> V]
  /\ p[0] = c
  /\ \A k \in 1..n : p[k] = step[k][p[k - 1]]

LEMMA IterateExtend ==
  ASSUME NEW V, NEW c \in V, NEW n \in Nat, NEW step \in [1..n -> [V -> V]],
         NEW k \in 1..n, NEW p, IsIterate(p, V, c, step, k - 1)
  PROVE  \E q : IsIterate(q, V, c, step, k)
<1> DEFINE v == step[k][p[k - 1]]
           q == [i \in 0..k |-> IF i = k THEN v ELSE p[i]]
<1>1. p \in [0..(k - 1) -> V] /\ p[0] = c
  BY DEF IsIterate
<1>2. v \in V
  BY <1>1
<1>3. q \in [0..k -> V] /\ q[0] = c
  <2> HIDE DEF v
  <2> QED BY <1>1, <1>2
<1>4. ASSUME NEW i \in 1..k PROVE q[i] = step[i][q[i - 1]]
  <2>1. i # k => p[i] = step[i][p[i - 1]]
    BY DEF IsIterate
  <2>2. q[i - 1] = p[i - 1]
    OBVIOUS
  <2> QED BY <2>1, <2>2
<1> HIDE DEF q
<1> QED BY <1>3, <1>4 DEF IsIterate

LEMMA IterateExists ==
  ASSUME NEW V, NEW c \in V, NEW n \in Nat, NEW step \in [1..n -> [V -> V]]
  PROVE  \E p : IsIterate(p, V, c, step, n)
<1> DEFINE G == {k \in 0..n : \E p : IsIterate(p, V, c, step, k)}
<1>1. 0 \in G
  <2>1. IsIterate([i \in 0..0 |-> c], V, c, step, 0)
    BY DEF IsIterate
  <2> QED BY <2>1
<1>2. ASSUME NEW k \in 1..n, k - 1 \in G PROVE k \in G
  BY <1>2, IterateExtend
<1>3. 0..n \subseteq G
  <2> HIDE DEF G
  <2> QED BY <1>1, <1>2, UpTo
<1> QED BY <1>3
=============================================================================
