---------------------------- MODULE NumberFacts -----------------------------
(***************************************************************************)
(* What the proofs need of sets of natural numbers: the extreme members,   *)
(* by which "the first" and "the last index such that" exist.              *)
(***************************************************************************)
EXTENDS Integers, FiniteSetTheorems, WellFoundedInduction, TLAPS

(* A set of natural numbers that is not empty has a least member. *)
LEMMA LeastNumber ==
  ASSUME NEW T \in SUBSET Nat, T # {}
  PROVE  \E t \in T : \A u \in T : t <= u
<1> DEFINE F == {0..t : t \in T}
<1>1. F \subseteq FiniteSubsetsOf(Nat) /\ F # {}
  <2>1. \A t \in T : 0..t \in SUBSET Nat /\ IsFiniteSet(0..t)
    BY FS_Interval
  <2> QED BY <2>1 DEF FiniteSubsetsOf
<1>2. PICK x \in F : \A y \in F : <<y, x>> \notin StrictSubsetOrdering(Nat)
  <2> HIDE DEF F
  <2> QED BY <1>1, FS_StrictSubsetOrderingWellFounded, WFMin
<1>3. PICK t \in T : x = 0..t
  OBVIOUS
<1>4. ASSUME NEW u \in T PROVE t <= u
  <2>1. CASE u < t
    <3>1. 0..u \in SUBSET Nat /\ 0..t \in SUBSET Nat /\ 0..u \subseteq 0..t /\ 0..u # 0..t
      BY <2>1
    <3>2. <<0..u, 0..t>> \in StrictSubsetOrdering(Nat)
      BY <3>1 DEF StrictSubsetOrdering
    <3> QED BY <3>2, <1>2, <1>3
  <2> QED BY <2>1
<1> QED BY <1>4

(* A set of indices that is not empty has a greatest member. *)
LEMMA GreatestIndex ==
  ASSUME NEW n \in Nat, NEW T \in SUBSET (1..n), T # {}
  PROVE  \E t \in T : \A u \in T : u <= t
<1> DEFINE D == {n - t : t \in T}
<1>1. D \in SUBSET Nat /\ D # {}
  <2>1. \A t \in T : t \in 1..n /\ n - t \in Nat
    OBVIOUS
  <2> QED BY <2>1
<1>2. PICK d \in D : \A e \in D : d <= e
  <2> HIDE DEF D
  <2> QED BY <1>1, LeastNumber
<1>3. PICK t \in T : d = n - t
  OBVIOUS
<1>4. ASSUME NEW u \in T PROVE u <= t
  <2>1. n - t <= n - u
    BY <1>2, <1>3
  <2> QED BY <2>1
<1> QED BY <1>4
=============================================================================
