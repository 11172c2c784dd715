---------------------------- MODULE OrderLemmas ----------------------------
(***************************************************************************)
(* Facts about natural numbers and finite sets that several proofs need.   *)
(* The library's theorems on induction take an operator as a parameter,    *)
(* for which the provers have no use; the least element of a set of        *)
(* numbers serves instead.                                                 *)
(***************************************************************************)
EXTENDS Integers, FiniteSets, FiniteSetTheorems, WellFoundedInduction, TLAPS

\* A set of naturals that is not empty has a least element.
LEMMA LeastNatural ==
  ASSUME NEW T \in SUBSET Nat, T # {}
  PROVE  \E n \in T : \A m \in T : n <= m
<1>. DEFINE Less == {ss \in Nat \X Nat : ss[1] < ss[2]}
<1>1. IsWellFoundedOn(Less, Nat)
  BY NatLessThanWellFounded DEF OpToRel
<1>. HIDE DEF Less
<1>2. PICK n \in T : \A m \in T : <<m, n>> \notin Less
  BY <1>1, WFMin
<1>3. \A m \in T : m \in Nat /\ n \in Nat /\ ~ (m < n)
  BY <1>2 DEF Less
<1>. QED  BY <1>3

\* Induction for a set of numbers that is closed under successor.
LEMMA NaturalsBySuccessor ==
  ASSUME NEW T, 0 \in T, \A n \in Nat : n \in T => n + 1 \in T
  PROVE  Nat \subseteq T
<1>. SUFFICES ASSUME Nat \ T # {} PROVE FALSE
  OBVIOUS
<1>1. PICK n \in Nat \ T : \A m \in Nat \ T : n <= m
  BY LeastNatural
<1>2. n - 1 \in Nat /\ ~ (n <= n - 1)
  BY <1>1
<1>3. n - 1 \in T
  BY <1>1, <1>2
<1>. QED  BY <1>1, <1>2, <1>3

\* Where multiples of d lie.
LEMMA WholeMultiples ==
  ASSUME NEW m \in Nat, NEW d \in Nat \ {0}
  PROVE  /\ m \div d \in Nat /\ d * (m \div d) \in Nat
         /\ d * (m \div d) <= m /\ m < d * (m \div d) + d
OBVIOUS

LEMMA WholeMultiplesGrow ==
  ASSUME NEW m \in Nat, NEW n \in Nat, NEW d \in Nat \ {0}, m <= n
  PROVE  d * (m \div d) <= d * (n \div d)
<1>1. m \div d <= n \div d
  BY WholeMultiples, SMT
<1>. QED  BY <1>1, WholeMultiples, SMT

\* In a set whose elements are numbered, one has the least number.
LEMMA LeastNumbered ==
  ASSUME NEW S, S # {}, NEW f, \A x \in S : f[x] \in Nat
  PROVE  \E x \in S : \A y \in S : f[x] <= f[y]
<1>. DEFINE T == {f[x] : x \in S}
<1>1. PICK n \in T : \A m \in T : n <= m
  BY LeastNatural
<1>. QED  BY <1>1
=============================================================================
