-------------------------- MODULE InductionLemmas --------------------------
(***************************************************************************)
(* Induction over the natural numbers in a form that the provers can use:  *)
(* the library's theorems take a predicate as a parameter, these take the  *)
(* set of the numbers that satisfy it.                                     *)
(***************************************************************************)
EXTENDS Integers, WellFoundedInduction, TLAPS

LessThan == {pair \in Nat \X Nat : pair[1] < pair[2]}

LEMMA LessThanWellFounded == IsWellFoundedOn(LessThan, Nat)
BY NatLessThanWellFounded DEF LessThan, OpToRel

(* Every set of natural numbers that is not empty has a least element, as   *)
(* the searches for the first match in the code take for granted.           *)
LEMMA HasLeast ==
    ASSUME NEW S, S \subseteq Nat, S # {}
    PROVE  \E x \in S : \A y \in S : x <= y
<1>1. PICK x \in S : \A y \in S : <<y, x>> \notin LessThan
  BY LessThanWellFounded, WFMin
<1>2. ASSUME NEW y \in S PROVE x <= y
  <2>1. x \in Nat /\ y \in Nat
    OBVIOUS
  <2>2. ~(y < x)
    BY <1>1, <2>1 DEF LessThan
  <2> QED BY <2>1, <2>2
<1> QED BY <1>2

(* A set that has 0, and n + 1 with every n, has all natural numbers.       *)
LEMMA SetInduction ==
    ASSUME NEW S, S \subseteq Nat, 0 \in S, \A n \in S : n + 1 \in S
    PROVE  S = Nat
<1>1. SUFFICES ASSUME Nat \ S # {} PROVE FALSE
  OBVIOUS
<1>2. PICK x \in Nat \ S : \A y \in Nat \ S : x <= y
  BY <1>1, HasLeast
<1>3. x # 0 /\ x - 1 \in Nat
  BY <1>2
<1>4. x - 1 \in S
  BY <1>2, <1>3
<1> QED BY <1>2, <1>3, <1>4
=============================================================================
