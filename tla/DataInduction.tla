---------------------------- MODULE DataInduction ----------------------------
(***************************************************************************)
(* Induction for the proof modules, told with a set instead of a           *)
(* predicate, so that a proof can use it by naming the set.                *)
(***************************************************************************)
EXTENDS Integers, WellFoundedInduction, TLAPS

\* A set of natural numbers that is not empty has a least element.
LEMMA LeastElement ==
    ASSUME NEW T, T \subseteq Nat, T # {}
    PROVE  \E x \in T : \A y \in T : x <= y
  <1> DEFINE R == OpToRel(<, Nat)
  <1>1. IsWellFoundedOn(R, Nat)
    BY NatLessThanWellFounded
  <1>2. \E x \in T : \A y \in T : <<y, x>> \notin R
    <2> HIDE DEF R
    <2> QED
      BY <1>1, WFMin
  <1>3. ASSUME NEW x \in Nat, NEW y \in Nat, <<y, x>> \notin R
        PROVE  x <= y
    BY <1>3 DEF OpToRel
  <1> HIDE DEF R
  <1> QED
    BY <1>2, <1>3

\* What holds of 0 and passes from each number below n to the next one holds up to n.
LEMMA Upwards ==
    ASSUME NEW n \in Nat, NEW S, 0 \in S, \A k \in Nat : k < n /\ k \in S => k + 1 \in S
    PROVE  \A k \in 0..n : k \in S
  <1> DEFINE T == {k \in 0..n : k \notin S}
  <1> SUFFICES ASSUME T # {} PROVE FALSE
    OBVIOUS
  <1>1. PICK m \in T : \A y \in T : m <= y
    <2>1. T \subseteq Nat
      OBVIOUS
    <2> HIDE DEF T
    <2> QED
      BY <2>1, LeastElement
  <1>2. m \in Nat /\ m <= n /\ m \notin S /\ m # 0
    BY <1>1
  <1>3. m - 1 \in Nat /\ m - 1 < n /\ m - 1 \in 0..n /\ ~(m <= m - 1)
    BY <1>2
  <1>4. m - 1 \in S
    BY <1>1, <1>3
  <1> QED
    BY <1>2, <1>3, <1>4

\* What holds of n and passes from each number up to n to the one before holds down to 0.
LEMMA Downwards ==
    ASSUME NEW n \in Nat, NEW S, n \in S, \A k \in Nat : k < n /\ k + 1 \in S => k \in S
    PROVE  \A k \in 0..n : k \in S
  <1> DEFINE T == {k \in 0..n : n - k \in S}
  <1>1. 0 \in T
    OBVIOUS
  <1>2. ASSUME NEW k \in Nat, k < n, k \in T PROVE k + 1 \in T
    <2>1. n - k \in S /\ (n - (k + 1)) + 1 = n - k /\ n - (k + 1) \in Nat /\ n - (k + 1) < n /\ k + 1 \in 0..n
      BY <1>2
    <2> QED
      BY <2>1
  <1>3. \A k \in 0..n : k \in T
    <2> HIDE DEF T
    <2> QED
      BY <1>1, <1>2, Upwards
  <1>4. ASSUME NEW k \in 0..n PROVE k \in S
    <2>1. n - k \in 0..n /\ n - (n - k) = k
      OBVIOUS
    <2> QED
      BY <1>3, <2>1
  <1> QED
    BY <1>4
==============================================================================
