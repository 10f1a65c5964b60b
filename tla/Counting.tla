------------------------------- MODULE Counting -------------------------------
(***************************************************************************)
(* Facts about the sizes of sets that grow one element at a time, for the  *)
(* proofs that count: announcements per charge, mishaps per duplicate.     *)
(***************************************************************************)
EXTENDS Naturals, FiniteSets, FiniteSetTheorems, TLAPS

\* A finite set that gains at most one element.
LEMMA GrowsByOne ==
  ASSUME NEW S, IsFiniteSet(S), NEW x, NEW T \in SUBSET (S \cup {x})
  PROVE  /\ IsFiniteSet(T) /\ Cardinality(T) \in Nat
         /\ Cardinality(T) <= Cardinality(S) + 1
<1>1. /\ IsFiniteSet(S \cup {x})
      /\ Cardinality(S \cup {x}) <= Cardinality(S) + 1
  <2>1. Cardinality(S) \in Nat
    BY FS_CardinalityType
  <2>2. CASE x \in S
    <3>1. S \cup {x} = S
      BY <2>2
    <3> QED
      BY <2>1, <3>1
  <2>3. CASE x \notin S
    <3>1. IsFiniteSet(S \cup {x}) /\ Cardinality(S \cup {x}) = Cardinality(S) + 1
      BY <2>3, FS_AddElement
    <3> QED
      BY <2>1, <3>1
  <2> QED
    BY <2>2, <2>3
<1>2. IsFiniteSet(T) /\ Cardinality(T) <= Cardinality(S \cup {x})
  BY <1>1, FS_Subset
<1>3. /\ Cardinality(S) \in Nat /\ Cardinality(T) \in Nat
      /\ Cardinality(S \cup {x}) \in Nat
  BY <1>1, <1>2, FS_CardinalityType
<1> QED
  BY <1>1, <1>2, <1>3

\* A finite set that gains nothing.
LEMMA GrowsByNone ==
  ASSUME NEW S, IsFiniteSet(S), NEW T \in SUBSET S
  PROVE  /\ IsFiniteSet(T) /\ Cardinality(T) \in Nat
         /\ Cardinality(T) <= Cardinality(S)
  BY FS_Subset, FS_CardinalityType

\* Two numbers that grow together keep their order.
LEMMA GrowsWithin == \A a, b, c \in Nat : a <= b + 1 /\ b <= c => a <= c + 1
  OBVIOUS

===============================================================================
