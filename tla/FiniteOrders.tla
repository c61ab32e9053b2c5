---------------------------- MODULE FiniteOrders ----------------------------
(***************************************************************************)
(* A fact about finite sets that the proofs about orders need.             *)
(***************************************************************************)
EXTENDS FiniteSetTheorems, TLAPS

\* Of finitely many things that one relation orders strictly, one comes before none.
LEMMA FirstOfAll ==
  ASSUME NEW S, IsFiniteSet(S), S # {}, NEW R,
         \A i \in S : <<i, i>> \notin R,
         \A i, j, k \in S : <<i, j>> \in R /\ <<j, k>> \in R => <<i, k>> \in R
  PROVE  \E i \in S : \A j \in S : <<j, i>> \notin R
<1> DEFINE Under(i) == {j \in S : <<j, i>> \in R}
           T == {Under(i) : i \in S}
<1>1. IsWellFoundedOn(StrictSubsetOrdering(S), SUBSET S)
  BY FS_StrictSubsetOrderingWellFounded, FS_FiniteSubsetsOfFinite
<1>2. T \subseteq SUBSET S /\ T # {}
  <2>1. \A i \in S : Under(i) \in SUBSET S
    OBVIOUS
  <2>2. PICK i \in S : TRUE
    OBVIOUS
  <2>3. Under(i) \in T
    BY <2>2
  <2>4. \A x \in T : \E j \in S : x = Under(j)
    OBVIOUS
  <2> HIDE DEF T, Under
  <2> QED BY <2>1, <2>3, <2>4
<1>3. PICK x \in T : \A y \in T : <<y, x>> \notin StrictSubsetOrdering(S)
  <2> HIDE DEF T
  <2> QED BY <1>1, <1>2, WFMin
<1>4. PICK i \in S : x = Under(i)
  BY <1>3
<1>5. ASSUME NEW j \in S, <<j, i>> \in R PROVE FALSE
  <2>1. Under(j) \subseteq Under(i) /\ j \in Under(i) /\ j \notin Under(j)
    BY <1>5
  <2>2. Under(j) \in T /\ Under(j) \in SUBSET S /\ Under(i) \in SUBSET S
    OBVIOUS
  <2>3. <<Under(j), Under(i)>> \in StrictSubsetOrdering(S)
    <3> HIDE DEF Under
    <3> QED BY <2>1, <2>2 DEF StrictSubsetOrdering
  <2> QED BY <1>3, <1>4, <2>2, <2>3
<1> QED BY <1>5

=============================================================================
