----------------------------- MODULE LeastNumber -----------------------------
(***************************************************************************)
(* The least-number principle, from the well-foundedness of the strict     *)
(* subset ordering on finite sets (n is taken for 1 .. n).  It replaces    *)
(* induction in the proofs about positions in a text.                      *)
(***************************************************************************)
EXTENDS Integers, FiniteSetTheorems, TLAPS

\* A nonempty set of natural numbers has a least element.
LEMMA LeastNat == ASSUME NEW T, T \subseteq Nat, T # {}
                  PROVE  \E x \in T : \A y \in T : x <= y
<1> DEFINE Below == {1 .. n : n \in T}
<1>1. Below \subseteq FiniteSubsetsOf(Nat)
  <2> SUFFICES ASSUME NEW n \in T PROVE 1 .. n \in FiniteSubsetsOf(Nat)
    OBVIOUS
  <2>1. IsFiniteSet(1 .. n)
    BY FS_Interval
  <2> QED
    BY <2>1 DEF FiniteSubsetsOf
<1>2. Below # {}
  OBVIOUS
<1>3. PICK a \in Below : \A b \in Below : <<b, a>> \notin StrictSubsetOrdering(Nat)
  <2> HIDE DEF Below
  <2>1. IsWellFoundedOn(StrictSubsetOrdering(Nat), FiniteSubsetsOf(Nat))
    BY FS_StrictSubsetOrderingWellFounded
  <2> QED
    BY <1>1, <1>2, <2>1, WFMin
<1>4. PICK x \in T : a = 1 .. x
  OBVIOUS
<1>5. \A y \in T : x <= y
  <2> SUFFICES ASSUME NEW y \in T, y < x PROVE FALSE
    OBVIOUS
  <2>1. 1 .. y \subseteq 1 .. x /\ x \in 1 .. x /\ x \notin 1 .. y
    OBVIOUS
  <2>2. <<1 .. y, 1 .. x>> \in StrictSubsetOrdering(Nat)
    BY <2>1 DEF StrictSubsetOrdering
  <2> QED
    BY <1>3, <1>4, <2>2
<1> QED
  BY <1>5

\* A nonempty set of integers bounded from above has a greatest element.
LEMMA GreatestInt == ASSUME NEW n \in Int, NEW T, T \subseteq Int, T # {},
                            \A t \in T : t <= n
                     PROVE  \E x \in T : \A y \in T : y <= x
<1> DEFINE Gaps == {m \in Nat : n - m \in T}
<1>1. PICK t \in T : t <= n
  OBVIOUS
<1>2. n - t \in Gaps
  <2>1. n - (n - t) = t /\ n - t \in Nat
    BY <1>1
  <2> QED
    BY <2>1
<1>3. PICK g \in Gaps : \A h \in Gaps : g <= h
  <2>1. Gaps \subseteq Nat /\ Gaps # {}
    BY <1>2
  <2> HIDE DEF Gaps
  <2> QED
    BY <2>1, LeastNat
<1>4. \A y \in T : y <= n - g
  <2> SUFFICES ASSUME NEW y \in T PROVE y <= n - g
    OBVIOUS
  <2>1. y <= n /\ y \in Int
    OBVIOUS
  <2>2. n - (n - y) = y /\ n - y \in Nat
    BY <2>1
  <2>3. n - y \in Gaps
    BY <2>2
  <2>4. g <= n - y /\ g \in Nat
    BY <1>3, <2>3
  <2> QED
    BY <2>1, <2>4
<1> QED
  BY <1>3, <1>4
=============================================================================
