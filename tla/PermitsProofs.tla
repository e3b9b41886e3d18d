---------------------------- MODULE PermitsProofs ----------------------------
(***************************************************************************)
(* Lemmas about module Permits that the theorems about the semaphore, the  *)
(* guards and the clients share.                                           *)
(***************************************************************************)
EXTENDS Permits, FiniteSetTheorems, TLAPS

USE MaxAvailableAssumption

\* The arithmetic of Permits stays within the type, and poison absorbs every
\* addition (the saturating_add of impl Add for Permits).
LEMMA PermitArithmetic ==
  /\ POISON \in PermitCount /\ 0 \in PermitCount /\ POISON # 0
  /\ \A n \in Nat : ToPermits(n) \in PermitCount
  /\ \A p, q \in PermitCount :
       /\ AddPermits(p, q) \in PermitCount
       /\ (p = POISON \/ q = POISON) => AddPermits(p, q) = POISON
  /\ \A p \in PermitCount, n \in Nat :
       p # POISON /\ n <= p => p - n \in PermitCount /\ p - n # POISON
BY DEF POISON, PermitCount, ToPermits, AddPermits

-----------------------------------------------------------------------------
(* Sums *)

\* Finitely many counts have finitely many ones.
LEMMA OnesFinite ==
  ASSUME NEW S, IsFiniteSet(S), NEW n \in [S -> Nat]
  PROVE  IsFiniteSet(Ones(n, S)) /\ SumOf(n, S) \in Nat
<1> DEFINE row == [x \in S |-> {x} \X (1 .. n[x])]
           rows == {{x} \X (1 .. n[x]) : x \in S}
<1>1. row \in Surjection(S, rows)
  <2>1. row \in [S -> rows]
    OBVIOUS
  <2>2. \A r \in rows : \E x \in S : row[x] = r
    OBVIOUS
  <2> QED  BY <2>1, <2>2 DEF Surjection
<1>2. IsFiniteSet(rows)
  BY <1>1, FS_Surjection
<1>3. ASSUME NEW r \in rows PROVE IsFiniteSet(r)
  <2>1. PICK x \in S : r = {x} \X (1 .. n[x])
    OBVIOUS
  <2>2. n[x] \in Int /\ 1 \in Int
    OBVIOUS
  <2>3. IsFiniteSet(1 .. n[x])
    BY <2>2, FS_Interval
  <2>4. IsFiniteSet({x})
    BY FS_Singleton
  <2> QED  BY <2>1, <2>3, <2>4, FS_Product
<1>4. IsFiniteSet(UNION rows)
  BY <1>2, <1>3, FS_UNION
<1> QED  BY <1>4, FS_CardinalityType DEF Ones, SumOf

\* One count taken out of a sum.
LEMMA SumWithout ==
  ASSUME NEW S, IsFiniteSet(S), NEW n \in [S -> Nat], NEW x \in S
  PROVE  /\ SumOf(n, S) = SumOf(n, S \ {x}) + n[x]
         /\ SumOf(n, S \ {x}) \in Nat
<1> DEFINE rest == Ones(n, S \ {x})
           row  == {x} \X (1 .. n[x])
<1>1. IsFiniteSet(S \ {x})
  BY FS_RemoveElement
<1>2. IsFiniteSet(rest) /\ SumOf(n, S \ {x}) \in Nat
  <2> DEFINE m == [y \in S \ {x} |-> n[y]]
  <2>1. m \in [S \ {x} -> Nat]
    OBVIOUS
  <2>2. Ones(m, S \ {x}) = Ones(n, S \ {x})
    BY DEF Ones
  <2> HIDE DEF m
  <2>3. IsFiniteSet(Ones(m, S \ {x})) /\ SumOf(m, S \ {x}) \in Nat
    BY <1>1, <2>1, OnesFinite
  <2> QED  BY <2>2, <2>3 DEF SumOf
<1>3. IsFiniteSet(row) /\ Cardinality(row) = n[x]
  <2>1. IsFiniteSet({x}) /\ Cardinality({x}) = 1
    BY FS_Singleton
  <2>2. n[x] \in Nat /\ n[x] \in Int /\ 1 \in Int
    OBVIOUS
  <2>3. IsFiniteSet(1 .. n[x]) /\ Cardinality(1 .. n[x]) = n[x]
    BY <2>2, FS_Interval
  <2>4. IsFiniteSet(row) /\ Cardinality(row) = Cardinality({x}) * Cardinality(1 .. n[x])
    BY <2>1, <2>3, FS_Product
  <2> QED  BY <2>1, <2>2, <2>3, <2>4
<1>4. Ones(n, S) = rest \cup row
  BY DEF Ones
<1>5. rest \cap row = {}
  BY DEF Ones
<1>6. Cardinality(rest \cup row) = Cardinality(rest) + Cardinality(row)
  <2>1. IsFiniteSet(rest) /\ IsFiniteSet(row) /\ Cardinality(rest \cap row) = 0
    BY <1>2, <1>3, <1>5, FS_EmptySet
  <2>2. Cardinality(rest) \in Nat /\ Cardinality(row) \in Nat
    BY <2>1, FS_CardinalityType
  <2> HIDE DEF rest, row
  <2>3. Cardinality(rest \cup row) = Cardinality(rest) + Cardinality(row) - Cardinality(rest \cap row)
    BY <2>1, FS_Union
  <2> QED  BY <2>1, <2>2, <2>3
<1> QED  BY <1>2, <1>3, <1>4, <1>6 DEF SumOf

\* Sums of the same counts are the same.
LEMMA SumSame ==
  ASSUME NEW S, NEW n, NEW m, \A x \in S : n[x] = m[x]
  PROVE  SumOf(n, S) = SumOf(m, S)
BY DEF SumOf, Ones

\* The sum when one count changes.
LEMMA SumUpdate ==
  ASSUME NEW S, IsFiniteSet(S), NEW n \in [S -> Nat], NEW m \in [S -> Nat], NEW x \in S,
         \A y \in S \ {x} : m[y] = n[y]
  PROVE  /\ SumOf(m, S) + n[x] = SumOf(n, S) + m[x]
         /\ SumOf(n, S) \in Nat /\ SumOf(m, S) \in Nat
<1>1. SumOf(m, S \ {x}) = SumOf(n, S \ {x})
  BY SumSame
<1>2. /\ SumOf(n, S) = SumOf(n, S \ {x}) + n[x] /\ SumOf(n, S \ {x}) \in Nat
      /\ SumOf(m, S) = SumOf(m, S \ {x}) + m[x]
  BY SumWithout
<1> QED  BY <1>1, <1>2

\* No part of a sum, and no two together, exceed it.
LEMMA SumAtLeast ==
  ASSUME NEW S, IsFiniteSet(S), NEW n \in [S -> Nat], NEW x \in S, NEW y \in S, x # y
  PROVE  /\ n[x] <= SumOf(n, S)
         /\ n[x] + n[y] <= SumOf(n, S)
<1>1. IsFiniteSet(S \ {x}) /\ y \in S \ {x}
  BY FS_RemoveElement
<1> DEFINE m == [z \in S \ {x} |-> n[z]]
<1>2. m \in [S \ {x} -> Nat] /\ m[y] = n[y]
  BY <1>1
<1>3. SumOf(n, S \ {x}) = SumOf(m, S \ {x})
  BY SumSame
<1> HIDE DEF m
<1>4. SumOf(m, S \ {x}) = SumOf(m, (S \ {x}) \ {y}) + m[y] /\ SumOf(m, (S \ {x}) \ {y}) \in Nat
  BY <1>1, <1>2, SumWithout
<1>5. SumOf(n, S) = SumOf(n, S \ {x}) + n[x]
  BY SumWithout
<1> QED  BY <1>2, <1>3, <1>4, <1>5

\* Nothing is the sum of nothing.
LEMMA SumNothing ==
  ASSUME NEW S, NEW n, \A x \in S : n[x] = 0
  PROVE  SumOf(n, S) = 0
<1>1. \A x \in S : 1 .. n[x] = {}
  OBVIOUS
<1>2. Ones(n, S) = {}
  BY <1>1 DEF Ones
<1> QED  BY <1>2, FS_EmptySet DEF SumOf

=============================================================================
