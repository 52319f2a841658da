---------------------------- MODULE SetInduction ----------------------------
(***************************************************************************)
(* Induction on natural numbers for a set instead of a predicate: to prove *)
(* P(n) for every n, show that {n \in Nat : P(n)} has 0 and, with n, n + 1.*)
(* Stated this way the provers can instantiate it, which they cannot do    *)
(* with a theorem about an arbitrary operator P(_).                        *)
(***************************************************************************)
EXTENDS Integers, WellFoundedInduction, TLAPS

\* A set of natural numbers that is not empty has a least element.
LEMMA LeastElement ==
    ASSUME NEW T, T \subseteq Nat, T # {}
    PROVE  \E x \in T : \A y \in T : x <= y
<1> DEFINE less == {pair \in Nat \X Nat : pair[1] < pair[2]}
<1>1. IsWellFoundedOn(less, Nat)
  BY NatLessThanWellFounded DEF OpToRel
<1> HIDE DEF less
<1>2. PICK x \in T : \A y \in T : <<y, x>> \notin less
  BY <1>1, WFMin
<1>3. ASSUME NEW y \in T
      PROVE  x <= y
  <2>1. <<y, x>> \in Nat \X Nat
    OBVIOUS
  <2>2. ~(y < x)
    BY <1>2, <2>1 DEF less
  <2> QED
    BY <2>2
<1> QED
  BY <1>3

\* The principle of induction.
THEOREM InductionOnSet ==
    ASSUME NEW T, 0 \in T, \A n \in Nat : n \in T => n + 1 \in T
    PROVE  \A n \in Nat : n \in T
<1> DEFINE missing == Nat \ T
<1> SUFFICES ASSUME missing # {}
             PROVE  FALSE
  OBVIOUS
<1>1. PICK n \in missing : \A m \in missing : n <= m
  BY LeastElement
<1>2. n \in Nat /\ n # 0
  OBVIOUS
<1>3. n - 1 \in Nat /\ n - 1 \notin missing
  BY <1>1, <1>2
<1>4. (n - 1) + 1 \in T
  BY <1>3
<1> QED
  BY <1>2, <1>4
=============================================================================
