----------------------------- MODULE NumberLemmas ------------------------------
(***************************************************************************)
(* Facts about natural numbers that the proofs of several components need. *)
(* Induction is by the least counterexample: the naturals are well founded.*)
(***************************************************************************)
EXTENDS Integers, WellFoundedInduction, TLAPS

\* Naturals, however they are given, have a least one.
LEMMA LeastNatural ==
  ASSUME NEW T, T \subseteq Nat, T # {}
  PROVE  \E x \in T : \A y \in T : x <= y
  <1>1. PICK x \in T : \A y \in T : ~(<<y, x>> \in OpToRel(<, Nat))
    BY NatLessThanWellFounded, WFMin
  <1>2. \A y \in T : ~(y < x)
    BY <1>1 DEF OpToRel
  <1> QED
    BY <1>2

\* A list of naturals has an upper bound.
LEMMA ListIsBounded ==
  ASSUME NEW n \in Nat, NEW f, \A i \in 1 .. n : f[i] \in Nat
  PROVE  \E m \in Nat : \A i \in 1 .. n : f[i] <= m
  <1> DEFINE Bounded(k) == \E m \in Nat : \A i \in 1 .. k : f[i] <= m
             T == {k \in 0 .. n : ~Bounded(k)}
  <1>0. /\ \A k \in 0 .. n : k \in T <=> ~Bounded(k)
        /\ T \subseteq Nat /\ \A k \in T : k \in 0 .. n
        /\ Bounded(0)
    BY 0 \in Nat
  <1> HIDE DEF T
  <1>1. SUFFICES ASSUME T # {} PROVE FALSE
    BY <1>0, n \in 0 .. n
  <1>2. PICK k \in T : \A j \in T : k <= j
    BY <1>0, <1>1, LeastNatural
  <1>3. k # 0
    BY <1>0, <1>2, 0 \in 0 .. n
  <1>4. k \in 1 .. n /\ k - 1 \in 0 .. n /\ k - 1 \notin T
    BY <1>0, <1>2, <1>3
  <1>5. PICK m \in Nat : \A i \in 1 .. k - 1 : f[i] <= m
    BY <1>0, <1>4
  <1>6. PICK b \in Nat : b >= m /\ b >= f[k]
    <2>1. f[k] \in Nat
      BY <1>4
    <2>2. CASE m >= f[k]
      BY <2>1, <2>2
    <2>3. CASE f[k] >= m
      BY <2>1, <2>3
    <2> QED
      BY <2>1, <2>2, <2>3
  <1>7. \A i \in 1 .. k : f[i] <= b
    <2> SUFFICES ASSUME NEW i \in 1 .. k PROVE f[i] <= b
      OBVIOUS
    <2>1. CASE i = k
      BY <1>6, <2>1
    <2>2. CASE i # k
      <3>1. i \in 1 .. k - 1 /\ i \in 1 .. n
        BY <1>4, <2>2
      <3>2. f[i] \in Nat /\ f[i] <= m
        BY <1>5, <3>1
      <3> QED
        BY <1>6, <3>2
    <2> QED
      BY <2>1, <2>2
  <1> QED
    BY <1>0, <1>2, <1>7

\* One of the list is its largest.
LEMMA ListHasLargest ==
  ASSUME NEW n \in Nat \ {0}, NEW f, \A i \in 1 .. n : f[i] \in Nat
  PROVE  \E k \in 1 .. n : \A i \in 1 .. n : f[i] <= f[k]
  <1> DEFINE T == {m \in Nat : \A i \in 1 .. n : f[i] <= m}
  <1>1. T # {}
    BY ListIsBounded
  <1>2. PICK m \in T : \A j \in T : m <= j
    BY <1>1, LeastNatural
  <1>3. SUFFICES ASSUME \A k \in 1 .. n : f[k] # m PROVE FALSE
    BY <1>2
  <1>4. \A i \in 1 .. n : f[i] \in Nat /\ f[i] <= m /\ f[i] # m
    BY <1>2, <1>3
  <1>5. m \in Nat /\ m # 0
    BY <1>2, <1>4
  <1>6. m - 1 \in T
    BY <1>4, <1>5
  <1> QED
    BY <1>2, <1>5, <1>6

\* How often a gap fits into a span.
LEMMA FitsInto ==
  ASSUME NEW n \in Nat, NEW gap \in Nat \ {0}, NEW span \in Nat, n * gap <= span
  PROVE  n <= span \div gap
  <1>1. span \div gap \in Int /\ span < (span \div gap + 1) * gap
    OBVIOUS
  <1>2. SUFFICES ASSUME n >= span \div gap + 1 PROVE FALSE
    BY <1>1
  <1>3. n * gap >= (span \div gap + 1) * gap
    BY <1>1, <1>2
  <1> QED
    BY <1>1, <1>3
===============================================================================
