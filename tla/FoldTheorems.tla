----------------------------- MODULE FoldTheorems -----------------------------
(***************************************************************************)
(* Induction in the form of a statement about sets, and what it gives for  *)
(* definitions by recursion over a finite set: the folds of the community  *)
(* modules are such definitions.                                           *)
(***************************************************************************)
EXTENDS Integers, FiniteSetsExt, FiniteSetTheorems, WellFoundedInduction, TLAPS

\* Every set of natural numbers that is not empty has a least element.
LEMMA LeastNat ==
  ASSUME NEW T \in SUBSET Nat, T # {}
  PROVE  \E n \in T : \A m \in T : n <= m
<1>1. PICK n \in T : \A m \in T : <<m, n>> \notin OpToRel(<, Nat)
  BY NatLessThanWellFounded, WFMin
<1>2. ASSUME NEW m \in T PROVE ~(m < n)
  BY <1>1 DEF OpToRel
<1> QED
  BY <1>2

\* Induction: a set with 0, and with n + 1 for each n it has, is all of Nat.
LEMMA AllNat ==
  ASSUME NEW P \in SUBSET Nat, 0 \in P, \A n \in P : n + 1 \in P
  PROVE  P = Nat
<1>1. ASSUME Nat \ P # {} PROVE FALSE
  <2>1. PICK n \in Nat \ P : \A m \in Nat \ P : n <= m
    BY <1>1, LeastNat
  <2>2. n # 0 /\ n - 1 \in Nat /\ n - 1 \notin Nat \ P
    BY <2>1
  <2>3. n - 1 \in P /\ (n - 1) + 1 = n
    BY <2>2
  <2> QED
    BY <2>1, <2>3
<1> QED
  BY <1>1

\* Recursion over the subsets of S: take[s] is the element of s that is handled last,
\* and Step its effect on what the others gave.
Chooses(take, S) == \A s \in SUBSET S : s # {} => take[s] \in s

IsFold(f, S, base, Step, take) ==
  \A s \in SUBSET S :
    f[s] = IF s = {} THEN base ELSE Step[f[s \ {take[s]}]][take[s]]

\* Such a recursion defines a function.
LEMMA FoldExists ==
  ASSUME NEW S, IsFiniteSet(S), NEW V, NEW base \in V, NEW Step \in [V -> [S -> V]],
         NEW take, Chooses(take, S)
  PROVE  \E f \in [SUBSET S -> V] : IsFold(f, S, base, Step, take)
<1> USE DEF Chooses
<1> DEFINE Small(n) == {s \in SUBSET S : Cardinality(s) <= n}
           Value(f, s) == IF s = {} THEN base ELSE Step[f[s \ {take[s]}]][take[s]]
           Q == {n \in Nat :
                   \E f \in [Small(n) -> V] : \A s \in Small(n) : f[s] = Value(f, s)}
<1>1. ASSUME NEW s \in SUBSET S
      PROVE  /\ IsFiniteSet(s) /\ Cardinality(s) \in Nat
             /\ Cardinality(s) = 0 <=> s = {}
             /\ s # {} => Cardinality(s \ {take[s]}) = Cardinality(s) - 1
  BY FS_Subset, FS_CardinalityType, FS_EmptySet, FS_RemoveElement
<1>2. 0 \in Q
  <2> DEFINE f == [s \in Small(0) |-> base]
  <2>1. ASSUME NEW s \in Small(0) PROVE s = {}
    <3>1. Cardinality(s) \in Nat /\ Cardinality(s) <= 0
      BY <1>1
    <3>2. Cardinality(s) = 0
      BY <3>1
    <3> QED
      BY <1>1, <3>2
  <2> HIDE DEF Small
  <2>2. f \in [Small(0) -> V] /\ \A s \in Small(0) : f[s] = Value(f, s)
    BY <2>1
  <2> QED
    BY <2>2
<1>3. ASSUME NEW n \in Q PROVE n + 1 \in Q
  <2>0. n \in Nat
    OBVIOUS
  <2>1. PICK f \in [Small(n) -> V] : \A s \in Small(n) : f[s] = Value(f, s)
    OBVIOUS
  <2> HIDE DEF Q
  <2> DEFINE g == [s \in Small(n + 1) |-> Value(f, s)]
  <2>2. ASSUME NEW s \in Small(n + 1), s # {} PROVE s \ {take[s]} \in Small(n)
    <3>1. Cardinality(s \ {take[s]}) = Cardinality(s) - 1 /\ Cardinality(s) \in Nat
      BY <1>1, <2>2
    <3> QED
      BY <2>0, <3>1
  <2>3. ASSUME NEW s \in Small(n) PROVE s \in Small(n + 1)
    <3>1. Cardinality(s) \in Nat
      BY <1>1
    <3> QED
      BY <2>0, <3>1
  <2> HIDE DEF Small
  <2>4. \A s \in Small(n + 1) : s \subseteq S
    BY DEF Small
  <2>5. g \in [Small(n + 1) -> V]
    <3>1. ASSUME NEW s \in Small(n + 1), s # {} PROVE Value(f, s) \in V
      <4>1. f[s \ {take[s]}] \in V /\ take[s] \in S
        BY <2>2, <2>4, <3>1
      <4>2. Step[f[s \ {take[s]}]] \in [S -> V]
        BY <4>1
      <4>3. Step[f[s \ {take[s]}]][take[s]] \in V
        BY <4>1, <4>2
      <4> QED
        BY <3>1, <4>3
    <3>2. \A s \in Small(n + 1) : Value(f, s) \in V
      BY <3>1
    <3> HIDE DEF Value
    <3> QED
      BY <3>2
  <2>6. \A s \in Small(n) : g[s] = f[s]
    <3> HIDE DEF Value
    <3> QED
      BY <2>1, <2>3
  <2>7. ASSUME NEW s \in Small(n + 1) PROVE g[s] = Value(g, s)
    <3>1. g[s] = Value(f, s)
      OBVIOUS
    <3>2. s # {} => g[s \ {take[s]}] = f[s \ {take[s]}]
      BY <2>2, <2>6
    <3> HIDE DEF g
    <3> QED
      BY <3>1, <3>2
  <2>8. \E h \in [Small(n + 1) -> V] : \A s \in Small(n + 1) : h[s] = Value(h, s)
    <3> HIDE DEF g, Value
    <3> QED
      BY <2>5, <2>7
  <2> HIDE DEF g, Value
  <2> QED
    BY <2>0, <2>8 DEF Q
<1>4. Cardinality(S) \in Q
  <2>1. Q \in SUBSET Nat
    OBVIOUS
  <2> HIDE DEF Q
  <2>2. Q = Nat
    BY <1>2, <1>3, <2>1, AllNat
  <2> QED
    BY <2>2, FS_CardinalityType
<1>5. Small(Cardinality(S)) = SUBSET S
  BY FS_Subset
<1> QED
  BY <1>4, <1>5 DEF IsFold

\* Among sets of elements of S there is one with the fewest.
LEMMA SmallestSubset ==
  ASSUME NEW S, IsFiniteSet(S), NEW B \in SUBSET SUBSET S, B # {}
  PROVE  \E s \in B : \A t \in B : Cardinality(s) <= Cardinality(t)
<1> DEFINE T == {Cardinality(s) : s \in B}
<1>1. T \in SUBSET Nat /\ T # {}
  BY FS_Subset, FS_CardinalityType
<1>2. PICK n \in T : \A m \in T : n <= m
  BY <1>1, LeastNat
<1> QED
  BY <1>2

\* A set of indices that is not empty has a greatest one.
LEMMA GreatestIndex ==
  ASSUME NEW n \in Nat, NEW s \in SUBSET (1..n), s # {}
  PROVE  Max(s) \in s /\ \A i \in s : i <= Max(s)
<1> DEFINE T == {n - i : i \in s}
<1>1. T \in SUBSET Nat /\ T # {}
  OBVIOUS
<1>2. PICK m \in T : \A k \in T : m <= k
  BY <1>1, LeastNat
<1>3. PICK i \in s : m = n - i
  BY <1>2
<1>4. \A j \in s : i >= j
  <2>1. ASSUME NEW j \in s PROVE i >= j
    <3>1. n - i <= n - j
      BY <1>2, <1>3
    <3> QED
      BY <3>1
  <2> QED
    BY <2>1
<1>5. \E x \in s : \A y \in s : x >= y
  BY <1>4
<1>6. Max(s) \in s /\ \A y \in s : Max(s) >= y
  BY <1>5 DEF Max
<1> QED
  BY <1>6

================================================================================
