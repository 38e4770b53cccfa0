---------------------------- MODULE OrderLemmas ----------------------------
(***************************************************************************)
(* Sets of natural numbers have a smallest element, and a largest when     *)
(* they are bounded.                                                       *)
(***************************************************************************)
EXTENDS Integers, FiniteSetTheorems, WellFoundedInduction, TLAPS

\* A non-empty set of natural numbers has a smallest element.
LEMMA SmallestElement ==
  ASSUME NEW T \in SUBSET Nat, T # {}
  PROVE  \E d \in T : \A e \in T : d <= e
<1> DEFINE Upto == {0 .. d : d \in T}
<1>1. Upto \subseteq FiniteSubsetsOf(Nat) /\ Upto # {}
  <2>1. \A d \in T : IsFiniteSet(0 .. d)
    BY FS_Interval
  <2>2. \A d \in T : 0 .. d \in SUBSET Nat
    OBVIOUS
  <2> QED
    BY <2>1, <2>2 DEF FiniteSubsetsOf
<1>2. PICK I \in Upto : \A J \in Upto : <<J, I>> \notin StrictSubsetOrdering(Nat)
  BY <1>1, FS_StrictSubsetOrderingWellFounded, WFMin
<1>3. PICK d \in T : I = 0 .. d
  OBVIOUS
<1>4. ASSUME NEW e \in T, e < d
      PROVE  FALSE
  <2>1. <<0 .. e, 0 .. d>> \in StrictSubsetOrdering(Nat)
    BY <1>4 DEF StrictSubsetOrdering
  <2> QED
    BY <1>2, <1>3, <2>1
<1> QED
  BY <1>4

\* A non-empty set of numbers up to n has a largest element.
LEMMA LargestElement ==
  ASSUME NEW n \in Nat, NEW T \in SUBSET (1 .. n), T # {}
  PROVE  \E d \in T : \A e \in T : d >= e
<1> DEFINE Mirror == {n - d : d \in T}
<1>1. Mirror \in SUBSET Nat /\ Mirror # {}
  <2>1. \A d \in T : n - d \in Nat
    OBVIOUS
  <2>2. PICK d \in T : TRUE
    OBVIOUS
  <2>3. n - d \in Mirror
    BY <2>2
  <2> QED
    BY <2>1, <2>3
<1>2. PICK m \in Mirror : \A k \in Mirror : m <= k
  <2> HIDE DEF Mirror
  <2> QED
    BY <1>1, SmallestElement
<1>3. PICK d \in T : m = n - d
  OBVIOUS
<1>4. ASSUME NEW e \in T
      PROVE  d >= e
  <2>1. n - e \in Mirror
    OBVIOUS
  <2> QED
    BY <1>2, <1>3, <2>1
<1> QED
  BY <1>4
=============================================================================
