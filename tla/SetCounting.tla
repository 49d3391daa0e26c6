------------------------------ MODULE SetCounting ------------------------------
(***************************************************************************)
(* How the size of a set changes when a step moves one element: what every *)
(* proof that a counter of the code counts a set of requests rests on.     *)
(***************************************************************************)
EXTENDS Integers, FiniteSetTheorems, TLAPS

(* The cardinality of a set after one element may have entered or left it.  *)
LEMMA CountMoved ==
  ASSUME NEW S, NEW T, NEW r, IsFiniteSet(S), S \ {r} = T \ {r}
  PROVE  /\ Cardinality(S) \in Nat
         /\ (r \in S) = (r \in T) => Cardinality(T) = Cardinality(S)
         /\ r \in T /\ r \notin S => Cardinality(T) = Cardinality(S) + 1
         /\ r \in S /\ r \notin T =>
              Cardinality(S) > 0 /\ Cardinality(T) = Cardinality(S) - 1
<1>1. Cardinality(S) \in Nat
  BY FS_CardinalityType
<1>2. CASE (r \in S) = (r \in T)
  <2>1. S = T
    BY <1>2
  <2> QED BY <1>1, <1>2, <2>1
<1>3. CASE r \in T /\ r \notin S
  <2>1. T = S \cup {r}
    BY <1>3
  <2> QED BY <1>1, <1>3, <2>1, FS_AddElement
<1>4. CASE r \in S /\ r \notin T
  <2>1. T = S \ {r}
    BY <1>4
  <2>2. S # {} /\ Cardinality(S) # 0
    BY <1>4, FS_EmptySet
  <2> QED BY <1>1, <1>4, <2>1, <2>2, FS_RemoveElement
<1> QED BY <1>2, <1>3, <1>4

(* The same as one equation.                                                *)
LEMMA CountDelta ==
  ASSUME NEW S, NEW T, NEW r, IsFiniteSet(S), S \ {r} = T \ {r}
  PROVE  Cardinality(T) = Cardinality(S) + (IF r \in T THEN 1 ELSE 0)
                                         - (IF r \in S THEN 1 ELSE 0)
<1>1. CASE (r \in S) = (r \in T)
  BY <1>1, CountMoved
<1>2. CASE r \in T /\ r \notin S
  BY <1>2, CountMoved
<1>3. CASE r \in S /\ r \notin T
  BY <1>3, CountMoved
<1> QED BY <1>1, <1>2, <1>3

(* A part of a finite set is finite and no larger.                          *)
LEMMA CountPart ==
  ASSUME NEW S, NEW T \in SUBSET S, IsFiniteSet(S)
  PROVE  /\ IsFiniteSet(T)
         /\ Cardinality(S) \in Nat /\ Cardinality(T) \in Nat
         /\ Cardinality(T) <= Cardinality(S)
BY FS_Subset, FS_CardinalityType
=============================================================================
