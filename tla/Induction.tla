------------------------------- MODULE Induction -------------------------------
(***************************************************************************)
(* Induction over the natural numbers for a set, and what it gives of a    *)
(* loop: a recursive function over 0 .. n exists, so that the function a   *)
(* definition chooses by its recursion has it.                             *)
(***************************************************************************)
EXTENDS Integers, WellFoundedInduction, TLAPS

\* Induction over the natural numbers, for a set.
LEMMA InductiveSet ==
  ASSUME NEW S, 0 \in S, \A k \in Nat : k \in S => k + 1 \in S
  PROVE  \A k \in Nat : k \in S
  <1> SUFFICES ASSUME NEW k \in Nat, k \notin S PROVE FALSE
    OBVIOUS
  <1> DEFINE T == Nat \ S
             R == OpToRel(<, Nat)
  <1>1. IsWellFoundedOn(R, Nat)
    BY NatLessThanWellFounded
  <1>2. T \subseteq Nat /\ T # {}
    OBVIOUS
  <1>3. PICK x \in T : \A y \in T : ~ (<<y, x>> \in R)
    <2> HIDE DEF T, R
    <2> QED
      BY <1>1, <1>2, WFMin
  <1>4. x # 0 /\ x \in Nat /\ x - 1 \in Nat
    OBVIOUS
  <1>5. <<x - 1, x>> \in R
    BY <1>4 DEF OpToRel
  <1>6. x - 1 \in S
    BY <1>3, <1>4, <1>5
  <1> QED
    BY <1>4, <1>6

\* A function over 0 .. n that begins with b and whose steps are those of F.
StepFunction(F, n, V) == F \in [(1 .. n) \X V -> V]
Recursion(g, n, V, b, F) ==
  g \in [0 .. n -> V] /\ g[0] = b /\ \A i \in 1 .. n : g[i] = F[<<i, g[i - 1]>>]

\* There is one.
LEMMA RecursionExists ==
  ASSUME NEW n \in Nat, NEW V, NEW b \in V, NEW F, StepFunction(F, n, V)
  PROVE  \E g : Recursion(g, n, V, b, F)
  <1> USE DEF StepFunction
  <1> DEFINE P(m, g) == g \in [0 .. m -> V] /\ g[0] = b /\ \A i \in 1 .. m : g[i] = F[<<i, g[i - 1]>>]
             S == {m \in Nat : m <= n => \E g : P(m, g)}
  <1>1. 0 \in S
    <2>1. P(0, [i \in 0 .. 0 |-> b])
      OBVIOUS
    <2> QED
      BY <2>1
  <1>2. ASSUME NEW m \in Nat, m \in S PROVE m + 1 \in S
    <2> SUFFICES ASSUME m + 1 <= n PROVE \E g : P(m + 1, g)
      OBVIOUS
    <2>1. PICK g : P(m, g)
      BY <1>2
    <2> DEFINE v == F[<<m + 1, g[m]>>]
               h == [i \in 0 .. (m + 1) |-> IF i = m + 1 THEN v ELSE g[i]]
    <2>2. v \in V
      <3>1. g[m] \in V /\ m + 1 \in 1 .. n
        BY <2>1
      <3> QED
        BY <3>1
    <2> HIDE DEF v
    <2>3. h \in [0 .. (m + 1) -> V] /\ h[0] = b
      BY <2>1, <2>2
    <2>4. ASSUME NEW i \in 1 .. (m + 1) PROVE h[i] = F[<<i, h[i - 1]>>]
      <3>1. h[i - 1] = g[i - 1]
        OBVIOUS
      <3>2. CASE i = m + 1
        BY <3>1, <3>2 DEF v
      <3>3. CASE i # m + 1
        <4>1. i \in 1 .. m
          BY <3>3
        <4> QED
          BY <2>1, <3>1, <4>1
      <3> QED
        BY <3>2, <3>3
    <2> QED
      BY <2>3, <2>4
  <1>3. n \in S
    <2> HIDE DEF S
    <2> QED
      BY <1>1, <1>2, InductiveSet
  <1> QED
    BY <1>3 DEF Recursion
=============================================================================
