---------------------------- MODULE LeastElement ----------------------------
(***************************************************************************)
(* The least element of a set of naturals.  A claim about every number, or *)
(* about every index of a recursive function, is proved from its least     *)
(* counterexample.                                                         *)
(***************************************************************************)
EXTENDS Naturals, NaturalsInduction, WellFoundedInduction, TLAPS

\* A nonempty set of naturals has a least element.
LEMMA LeastNatural ==
  ASSUME NEW T, T \subseteq Nat, T # {}
  PROVE  \E x \in T : \A y \in T : x <= y
<1> DEFINE R == {ss \in Nat \X Nat : ss[1] < ss[2]}
<1>1. IsWellFoundedOn(R, Nat)
  BY NatLessThanWellFounded DEF OpToRel
<1>2. \E x \in T : \A y \in T : ~ (<<y, x>> \in R)
  <2> HIDE DEF R
  <2> QED BY <1>1, WFMin
<1>3. \A x, y \in T : ~ (<<y, x>> \in R) => x <= y
  OBVIOUS
<1> QED
  BY <1>2, <1>3

=============================================================================
