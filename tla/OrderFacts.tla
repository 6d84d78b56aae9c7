------------------------------ MODULE OrderFacts ----------------------------
(***************************************************************************)
(* Least and greatest numbers of sets, induction stated with a set, and    *)
(* functions defined by recursion on 0 .. n: what the proofs use for an    *)
(* induction over data.                                                    *)
(***************************************************************************)
EXTENDS Integers, TLAPS, WellFoundedInduction

(***************************************************************************)
(* A set of numbers that is not empty has a least one.                     *)
(***************************************************************************)
LEMMA LeastNat ==
    ASSUME NEW T \in SUBSET Nat, T # {}
    PROVE  \E m \in T : \A k \in T : m <= k
<1>1. PICK R : R = OpToRel(<, Nat)
  OBVIOUS
<1>2. IsWellFoundedOn(R, Nat)
  BY <1>1, NatLessThanWellFounded
<1>3. PICK m \in T : \A k \in T : ~(<<k, m>> \in R)
  BY <1>2, WFMin
<1>4. \A k \in T : k < m => <<k, m>> \in R
  BY <1>1 DEF OpToRel
<1>5. \A k \in T : ~(k < m)
  BY <1>3, <1>4
<1>6. m \in Nat /\ \A k \in T : k \in Nat
  OBVIOUS
<1>7. \A k \in T : m <= k
  BY <1>5, <1>6
<1> QED
  BY <1>7

(***************************************************************************)
(* What holds of 0, and of every number after one of which it holds, holds *)
(* of every number: the set of those of which it does not has no least one.*)
(***************************************************************************)
LEMMA SetInduction ==
    ASSUME NEW H, 0 \in H, \A n \in Nat : n \in H => n + 1 \in H
    PROVE  Nat \subseteq H
<1> DEFINE T == {n \in Nat : n \notin H}
<1> SUFFICES ASSUME T # {} PROVE FALSE
  OBVIOUS
<1>1. T \in SUBSET Nat
  OBVIOUS
<1> HIDE DEF T
<1>2. PICK m \in T : \A k \in T : m <= k
  BY <1>1, LeastNat
<1>3. m \in Nat /\ m \notin H
  BY DEF T
<1>4. m # 0
  BY <1>3
<1>5. m - 1 \in Nat /\ ~(m <= m - 1) /\ (m - 1) + 1 = m
  BY <1>3, <1>4
<1>6. m - 1 \in H
  BY <1>2, <1>5 DEF T
<1> QED
  BY <1>3, <1>5, <1>6

(***************************************************************************)
(* A set of numbers with a bound that is not empty has a greatest one.     *)
(***************************************************************************)
LEMMA GreatestNat ==
    ASSUME NEW T \in SUBSET Nat, T # {}, NEW b \in Nat, \A k \in T : k <= b
    PROVE  \E m \in T : \A k \in T : k <= m
<1> DEFINE D == {d \in Nat : b - d \in T}
<1>1. D \in SUBSET Nat
  OBVIOUS
<1>2. D # {}
  <2>1. PICK k \in T : TRUE
    OBVIOUS
  <2>2. b - k \in Nat /\ b - (b - k) = k
    OBVIOUS
  <2> QED
    BY <2>2
<1> HIDE DEF D
<1>3. PICK d \in D : \A e \in D : d <= e
  BY <1>1, <1>2, LeastNat
<1>4. b - d \in T /\ d \in Nat
  BY DEF D
<1>5. ASSUME NEW k \in T PROVE k <= b - d
  <2>1. b - k \in Nat /\ b - (b - k) = k
    OBVIOUS
  <2>2. b - k \in D
    BY <2>1 DEF D
  <2>3. d <= b - k
    BY <1>3, <2>2
  <2> QED
    BY <1>4, <2>3
<1> QED
  BY <1>4, <1>5


(***************************************************************************)
(* A function that is given by its value at 0 and by each value from the   *)
(* one before it: it exists, and there is one only.                        *)
(***************************************************************************)
StepsWithin(f, X, n) == \A y \in X, i \in 1 .. n : f[<<y, i>>] \in X

Recursion(g, f, x, X, n) ==
    g \in [0 .. n -> X] /\ g[0] = x /\ \A i \in 1 .. n : g[i] = f[<<g[i - 1], i>>]

LEMMA FiniteRecursion ==
    ASSUME NEW X, NEW x \in X, NEW n \in Nat, NEW f, StepsWithin(f, X, n)
    PROVE  \E g : Recursion(g, f, x, X, n)
<1> USE DEF StepsWithin
<1> DEFINE Recursive(g, m) == /\ g \in [0 .. m -> X] /\ g[0] = x
                              /\ \A i \in 1 .. m : g[i] = f[<<g[i - 1], i>>]
           H == {m \in Nat : m <= n => \E g : Recursive(g, m)}
<1>1. 0 \in H
  <2>1. PICK g : g = [i \in 0 .. 0 |-> x]
    OBVIOUS
  <2>2. g \in [0 .. 0 -> X] /\ g[0] = x /\ \A i \in 1 .. 0 : FALSE
    BY <2>1
  <2> QED
    BY <2>2
<1>2. ASSUME NEW m \in Nat, m \in H PROVE m + 1 \in H
  <2> SUFFICES ASSUME m + 1 <= n PROVE \E g : Recursive(g, m + 1)
    OBVIOUS
  <2>1. m <= n /\ m + 1 \in 1 .. n /\ m \in 0 .. m
    OBVIOUS
  <2>2. PICK g : Recursive(g, m)
    BY <1>2, <2>1
  <2>3. PICK y \in X : y = f[<<g[m], m + 1>>]
    BY <2>1, <2>2
  <2>4. PICK h : h = [i \in 0 .. m + 1 |-> IF i = m + 1 THEN y ELSE g[i]]
    OBVIOUS
  <2>5. h \in [0 .. m + 1 -> X] /\ h[m + 1] = y /\ \A i \in 0 .. m : h[i] = g[i]
    BY <2>2, <2>4
  <2>6. ASSUME NEW i \in 1 .. m + 1 PROVE h[i] = f[<<h[i - 1], i>>]
    <3>1. CASE i = m + 1
      <4>1. i - 1 = m
        BY <3>1
      <4> QED
        BY <2>1, <2>3, <2>5, <3>1, <4>1
    <3>2. CASE i # m + 1
      <4>1. i \in 1 .. m /\ i \in 0 .. m /\ i - 1 \in 0 .. m
        BY <3>2
      <4> QED
        BY <2>2, <2>5, <4>1
    <3> QED
      BY <3>1, <3>2
  <2>7. Recursive(h, m + 1)
    BY <2>2, <2>5, <2>6
  <2> QED
    BY <2>7
<1> HIDE DEF H
<1>3. n \in H
  BY <1>1, <1>2, SetInduction
<1>4. PICK g : Recursive(g, n)
  BY <1>3 DEF H
<1> QED
  BY <1>4 DEF Recursion

LEMMA FunctionsAgree ==
    ASSUME NEW n \in Nat, NEW g, NEW h, g[0] = h[0],
           \A i \in 1 .. n : g[i - 1] = h[i - 1] => g[i] = h[i]
    PROVE  \A i \in 0 .. n : g[i] = h[i]
<1> DEFINE H == {m \in Nat : m <= n => g[m] = h[m]}
<1>1. 0 \in H
  OBVIOUS
<1>2. ASSUME NEW m \in Nat, m \in H PROVE m + 1 \in H
  <2> SUFFICES ASSUME m + 1 <= n PROVE g[m + 1] = h[m + 1]
    OBVIOUS
  <2>1. m <= n /\ m + 1 \in 1 .. n /\ (m + 1) - 1 = m
    OBVIOUS
  <2> QED
    BY <1>2, <2>1
<1> HIDE DEF H
<1>3. \A i \in 0 .. n : i \in H
  BY <1>1, <1>2, SetInduction
<1> QED
  BY <1>3 DEF H

=============================================================================
