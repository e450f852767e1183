------------------------------ MODULE LeastElement ------------------------------
(***************************************************************************)
(* A fact about the numbers that the proofs about lists of ports and of    *)
(* preferences rest on: both take the first place with some property.      *)
(***************************************************************************)
EXTENDS Integers, WellFoundedInduction, TLAPS

\* Every set of naturals that is not empty has a least element: if there is a place
\* at all, there is a first one.
LEMMA LeastElementExists ==
    ASSUME NEW S, S \subseteq Nat, S # {}
    PROVE  \E i \in S : \A j \in S : i <= j
  <1>1. IsWellFoundedOn(OpToRel(<, Nat), Nat)
    BY NatLessThanWellFounded
  <1>2. PICK i \in S : \A j \in S : <<j, i>> \notin OpToRel(<, Nat)
    BY <1>1, WFMin
  <1>3. \A j \in S : ~(j < i)
    BY <1>2 DEF OpToRel
  <1> QED
    BY <1>3

=================================================================================
