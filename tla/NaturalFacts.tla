---------------------------- MODULE NaturalFacts ----------------------------
(***************************************************************************)
(* What the proofs of several components need of the natural numbers: a    *)
(* least element, and induction over a set.  The library has induction     *)
(* over a predicate, which must be turned into a set to be used.           *)
(***************************************************************************)
EXTENDS Integers, FiniteSetTheorems, TLAPS

\* A set of numbers has a least element: the sets of its elements up to one
\* of them are finite, and inclusion of finite sets is well-founded.
LEMMA LeastExists ==
  ASSUME NEW S \in SUBSET Nat, S # {}
  PROVE  \E x \in S : \A y \in S : x <= y
<1> DEFINE UpTo(x) == {y \in S : y <= x}
           T == {UpTo(x) : x \in S}
<1>1. T \subseteq FiniteSubsetsOf(S) /\ T # {}
  <2>1. ASSUME NEW x \in S PROVE UpTo(x) \in FiniteSubsetsOf(S)
    <3>1. x \in Nat /\ \A y \in S : y \in Nat
      OBVIOUS
    <3>2. UpTo(x) \subseteq 0 .. x
      <4>1. ASSUME NEW y \in S, y <= x PROVE y \in 0 .. x
        BY <3>1, <4>1
      <4>. QED  BY <4>1
    <3>3. IsFiniteSet(0 .. x)
      BY <3>1, FS_Interval
    <3>. QED  BY <3>2, <3>3, FS_Subset DEF FiniteSubsetsOf
  <2>. QED  BY <2>1
<1>2. PICK U \in T : \A V \in T : ~ (<<V, U>> \in StrictSubsetOrdering(S))
  <2> HIDE DEF T
  <2>. QED  BY <1>1, FS_StrictSubsetOrderingWellFounded, WFMin
<1>3. PICK x \in S : U = UpTo(x)
  OBVIOUS
<1>4. ASSUME NEW y \in S, y < x PROVE FALSE
  <2>1. x \in Nat /\ y \in Nat /\ UpTo(y) \in T
    OBVIOUS
  <2>2. x \in UpTo(x) /\ x \notin UpTo(y)
    BY <1>4, <2>1
  <2>3. ASSUME NEW z \in S, z <= y PROVE z <= x
    <3>1. z \in Nat
      OBVIOUS
    <3>. QED  BY <1>4, <2>1, <2>3, <3>1
  <2>4. UpTo(y) \subseteq U /\ UpTo(y) \subseteq S /\ U \subseteq S
    BY <1>3, <2>3
  <2>5. <<UpTo(y), U>> \in StrictSubsetOrdering(S)
    BY <1>3, <2>2, <2>4 DEF StrictSubsetOrdering
  <2>. QED  BY <1>2, <2>1, <2>5
<1>. QED  BY <1>4

\* A set that holds 0, and with a number the next, holds every number.
LEMMA NatSetInduction ==
  ASSUME NEW S, 0 \in S, \A k \in Nat : k \in S => k + 1 \in S
  PROVE  Nat \subseteq S
<1> DEFINE Q == Nat \ S
<1> SUFFICES ASSUME Q # {} PROVE FALSE
  OBVIOUS
<1>1. PICK x \in Q : \A y \in Q : x <= y
  BY LeastExists
<1>2. x \in Nat /\ x # 0 /\ x - 1 \in Nat /\ (x - 1) + 1 = x
  OBVIOUS
<1>3. x - 1 \in S
  <2>1. ASSUME x - 1 \notin S PROVE FALSE
    <3>1. x <= x - 1
      BY <1>1, <1>2, <2>1
    <3>. QED  BY <1>2, <3>1
  <2>. QED  BY <2>1
<1>4. x \in S
  BY <1>2, <1>3
<1>. QED  BY <1>4
=============================================================================
