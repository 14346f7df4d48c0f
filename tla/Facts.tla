------------------------------- MODULE Facts -------------------------------
(***************************************************************************)
(* Facts about data that the proofs of several components rest on.         *)
(*                                                                         *)
(* The library's induction theorems take the property as an operator,      *)
(* which the provers cannot instantiate.  SetInduction says the same of a  *)
(* set of numbers, and follows from the least-element form of well-        *)
(* foundedness; a property is proved by induction as the set of numbers    *)
(* that have it.                                                           *)
(***************************************************************************)
EXTENDS Integers, FiniteSets, Sequences, Bags, SequencesExt, WellFoundedInduction,
        FiniteSetTheorems, FunctionTheorems, SequenceTheorems, TLAPS

-----------------------------------------------------------------------------
(* Induction. *)

\* A set of natural numbers that is not empty has a least one.
LEMMA LeastNumber ==
  ASSUME NEW T \in SUBSET Nat, T # {}
  PROVE \E x \in T : \A y \in T : x <= y
  <1>1. IsWellFoundedOn(OpToRel(<,Nat), Nat)
    BY NatLessThanWellFounded, Zenon
  <1>2. PICK x \in T : \A y \in T : ~ (<<y, x>> \in OpToRel(<,Nat))
    BY <1>1, WFMin, Zenon
  <1>3. \A y \in T : y < x => <<y, x>> \in OpToRel(<,Nat)
    BY Zenon DEF OpToRel
  <1>4. \A y \in T : ~(y < x)
    BY <1>2, <1>3, Zenon
  <1>5. \A y \in T : x <= y
    BY <1>4
  <1> QED BY <1>5

\* What holds of 0, and of n + 1 if of n, holds of every natural number.
LEMMA SetInduction ==
  ASSUME NEW S \in SUBSET Nat, 0 \in S, \A n \in S : n + 1 \in S
  PROVE S = Nat
  <1>1. SUFFICES ASSUME Nat \ S # {} PROVE FALSE
    OBVIOUS
  <1>2. PICK x \in Nat \ S : \A y \in Nat \ S : x <= y
    BY <1>1, LeastNumber
  <1>3. x # 0 /\ x - 1 \in Nat
    BY <1>2
  <1>4. x - 1 \in S
    BY <1>2, <1>3
  <1> QED BY <1>2, <1>4

-----------------------------------------------------------------------------
(* Sets in order. *)

\* A sequence of some of them is a sequence of them.
LEMMA SeqOfSubset ==
  ASSUME NEW S, NEW T, S \subseteq T, NEW s \in Seq(S)
  PROVE s \in Seq(T)
  <1>1. Len(s) \in Nat /\ s \in [1..Len(s) -> S]
    OBVIOUS
  <1>2. s \in [1..Len(s) -> T]
    BY <1>1
  <1> QED BY <1>1, <1>2

\* A finite set whose elements have numbers of their own can be put in their
\* order.
LEMMA OrderExists ==
  ASSUME NEW U, NEW key \in [U -> Nat], \A x, y \in U : key[x] = key[y] => x = y,
         NEW S \in SUBSET U, IsFiniteSet(S)
  PROVE \E s \in SetToSeqs(S) : \A i, j \in DOMAIN s : i < j => key[s[i]] < key[s[j]]
  <1> DEFINE Ordered(n, R) == \E s \in [1..n -> R] :
                 /\ \A i, j \in 1..n : i < j => key[s[i]] < key[s[j]]
             T == {n \in Nat : \A R \in SUBSET U :
                      IsFiniteSet(R) /\ Cardinality(R) = n => Ordered(n, R)}
  <1>1. 0 \in T
    <2> SUFFICES ASSUME NEW R \in SUBSET U PROVE Ordered(0, R)
      OBVIOUS
    <2>1. 1..0 = {}
      OBVIOUS
    <2>2. [i \in 1..0 |-> i] \in [1..0 -> R]
      BY <2>1
    <2> QED BY <2>1, <2>2
  <1>2. ASSUME NEW n \in T PROVE n + 1 \in T
    <2> SUFFICES ASSUME NEW R \in SUBSET U, IsFiniteSet(R), Cardinality(R) = n + 1
                 PROVE Ordered(n + 1, R)
      BY <1>2
    <2>0. n \in Nat
      BY <1>2
    <2>1. R # {}
      BY <2>0, FS_EmptySet
    <2> DEFINE K == {key[x] : x \in R}
    <2>2. K \in SUBSET Nat /\ K # {}
      BY <2>1
    <2>3. PICK k \in K : \A y \in K : k <= y
      BY <2>2, LeastNumber
    <2>4. PICK m \in R : k = key[m]
      BY <2>3
    <2>5. \A x \in R \ {m} : key[m] < key[x]
      <3> SUFFICES ASSUME NEW x \in R \ {m} PROVE key[m] < key[x]
        OBVIOUS
      <3>1. key[x] \in K
        OBVIOUS
      <3>2. key[m] <= key[x] /\ key[m] # key[x]
        BY <2>3, <2>4, <3>1
      <3>3. key[m] \in Nat /\ key[x] \in Nat
        OBVIOUS
      <3> QED BY <3>2, <3>3
    <2>6. IsFiniteSet(R \ {m}) /\ Cardinality(R \ {m}) = n
      <3>1. Cardinality(R \ {m}) = Cardinality(R) - 1 /\ IsFiniteSet(R \ {m})
        BY FS_RemoveElement
      <3> QED BY <2>0, <3>1
    <2>7. Ordered(n, R \ {m})
      BY <1>2, <2>6
    <2> HIDE DEF T, K
    <2>8. PICK s \in [1..n -> R \ {m}] : \A i, j \in 1..n : i < j => key[s[i]] < key[s[j]]
      BY <2>7
    <2> DEFINE t == [i \in 1..(n + 1) |-> IF i = 1 THEN m ELSE s[i - 1]]
    <2>9. \A i \in 2..(n + 1) : i - 1 \in 1..n /\ t[i] = s[i - 1]
      BY <2>0
    <2>10. t \in [1..(n + 1) -> R]
      BY <2>0, <2>9
    <2>11. ASSUME NEW i \in 1..(n + 1), NEW j \in 1..(n + 1), i < j
           PROVE key[t[i]] < key[t[j]]
      <3>1. j \in 2..(n + 1)
        BY <2>0, <2>11
      <3>2. CASE i = 1
        BY <2>5, <2>9, <3>1, <3>2
      <3>3. CASE i # 1
        <4>1. i \in 2..(n + 1) /\ i - 1 < j - 1
          BY <2>0, <2>11, <3>3
        <4> QED BY <2>8, <2>9, <3>1, <4>1
      <3> QED BY <3>2, <3>3
    <2> QED BY <2>10, <2>11
  <1>3. T = Nat
    <2> HIDE DEF T
    <2>1. T \in SUBSET Nat
      BY DEF T
    <2> QED BY <1>1, <1>2, <2>1, SetInduction
  <1>4. Cardinality(S) \in Nat
    BY FS_CardinalityType
  <1>5. Ordered(Cardinality(S), S)
    BY <1>3, <1>4
  <1>6. PICK s \in [1..Cardinality(S) -> S] :
               \A i, j \in 1..Cardinality(S) : i < j => key[s[i]] < key[s[j]]
    BY <1>5
  <1>7. ASSUME NEW i \in 1..Cardinality(S), NEW j \in 1..Cardinality(S), i # j
        PROVE s[i] # s[j]
    <2>1. i < j \/ j < i
      BY <1>4, <1>7
    <2>2. key[s[i]] \in Nat /\ key[s[j]] \in Nat
      OBVIOUS
    <2>3. key[s[i]] # key[s[j]]
      BY <1>6, <2>1, <2>2
    <2> QED BY <2>3
  <1>8. s \in SetToSeqs(S)
    BY <1>7 DEF SetToSeqs
  <1> QED BY <1>6, <1>8

\* What SetToSeqs has are sequences of all the elements of the set.
LEMMA SetToSeqsAll ==
  ASSUME NEW S, IsFiniteSet(S), NEW s \in SetToSeqs(S)
  PROVE /\ s \in Seq(S) /\ Len(s) = Cardinality(S)
        /\ \A x \in S : \E i \in DOMAIN s : s[i] = x
  <1>1. Cardinality(S) \in Nat
    BY FS_CardinalityType
  <1>2. s \in [1..Cardinality(S) -> S] /\ \A i, j \in 1..Cardinality(S) : i # j => s[i] # s[j]
    BY DEF SetToSeqs
  <1>3. s \in Injection(1..Cardinality(S), S)
    BY <1>2, Fun_IsInj
  <1>4. IsFiniteSet(1..Cardinality(S)) /\ Cardinality(1..Cardinality(S)) = Cardinality(S)
    BY <1>1, FS_Interval
  <1>5. s \in Surjection(1..Cardinality(S), S)
    BY <1>3, <1>4, FS_Injection
  <1>6. \A x \in S : \E i \in 1..Cardinality(S) : s[i] = x
    BY <1>5 DEF Surjection
  <1> QED BY <1>1, <1>2, <1>6

\* Two rising enumerations of the same numbers are the same.
LEMMA OrderUniqueOn ==
  ASSUME NEW m \in Nat, NEW n \in Nat, NEW s \in [1..m -> Nat], NEW t \in [1..n -> Nat],
         \A i, j \in 1..m : i < j => s[i] < s[j],
         \A i, j \in 1..n : i < j => t[i] < t[j],
         \A i \in 1..m : \E j \in 1..n : s[i] = t[j],
         \A i \in 1..n : \E j \in 1..m : t[i] = s[j]
  PROVE s = t
  <1>1. DOMAIN s = 1..m
    OBVIOUS
  <1>2. DOMAIN t = 1..n
    OBVIOUS
  <1>3. \A i \in 1..m : s[i] \in Nat
    BY <1>1
  <1>4. \A i \in 1..n : t[i] \in Nat
    BY <1>2
  <1> DEFINE D == {i \in Nat : i \in 1..m /\ i \in 1..n /\ s[i] # t[i]}
  <1>5. D = {}
    <2> SUFFICES ASSUME D # {} PROVE FALSE
      OBVIOUS
    <2>1. PICK i \in D : \A k \in D : i <= k
      BY LeastNumber
    <2>2. i \in 1..m /\ i \in 1..n /\ s[i] # t[i]
      OBVIOUS
    <2>3. ASSUME NEW k \in 1..m, k < i PROVE k \in 1..n /\ s[k] = t[k]
      BY <2>1, <2>2, <2>3
    <2>4. ASSUME NEW k \in 1..n, k < i PROVE k \in 1..m /\ s[k] = t[k]
      BY <2>1, <2>2, <2>4
    <2>5. CASE s[i] < t[i]
      <3>1. PICK j \in 1..n : s[i] = t[j]
        BY <1>1, <1>2, <2>2
      <3>2. i # j
        BY <1>3, <1>4, <2>2, <2>5, <3>1
      <3>6. ~(i < j)
        <4>1. i < j => t[i] < t[j]
          BY <2>2
        <4> QED BY <1>3, <1>4, <2>2, <2>5, <3>1, <4>1
      <3>3. j < i
        BY <2>2, <3>2, <3>6
      <3>4. s[j] = t[j] /\ j \in 1..m
        BY <2>4, <3>3
      <3>5. s[j] < s[i]
        BY <1>1, <2>2, <3>3, <3>4
      <3> QED BY <1>3, <2>2, <3>1, <3>4, <3>5
    <2>6. CASE t[i] < s[i]
      <3>1. PICK j \in 1..m : t[i] = s[j]
        BY <1>1, <1>2, <2>2
      <3>2. i # j
        BY <1>3, <1>4, <2>2, <2>6, <3>1
      <3>6. ~(i < j)
        <4>1. i < j => s[i] < s[j]
          BY <2>2
        <4>2. t[i] \in Nat /\ s[i] \in Nat /\ s[j] \in Nat
          BY <1>3, <1>4, <2>2
        <4> QED BY <2>6, <3>1, <4>1, <4>2
      <3>3. j < i
        BY <2>2, <3>2, <3>6
      <3>4. s[j] = t[j] /\ j \in 1..n
        BY <2>3, <3>3
      <3>5. t[j] < t[i]
        BY <1>2, <2>2, <3>3, <3>4
      <3> QED BY <1>4, <2>2, <3>1, <3>4, <3>5
    <2> QED BY <1>3, <1>4, <2>2, <2>5, <2>6
  <1>d. \A i \in 1..m : i \in 1..n => s[i] = t[i]
    <2> SUFFICES ASSUME NEW i \in 1..m, i \in 1..n, s[i] # t[i] PROVE FALSE
      OBVIOUS
    <2>1. i \in Nat
      OBVIOUS
    <2> QED BY <1>5, <2>1
  <1> HIDE DEF D
  <1>6. ASSUME m < n PROVE FALSE
    <2>1. n \in 1..n /\ m + 1 \in 1..n
      BY <1>6
    <2>2. PICK j \in 1..m : t[n] = s[j]
      BY <1>1, <1>2, <2>1
    <2>3. j \in 1..n /\ j < n
      BY <1>6
    <2>4. s[j] = t[j]
      BY <1>d, <2>3
    <2>5. t[j] < t[n]
      BY <1>2, <2>1, <2>3
    <2> QED BY <1>4, <2>1, <2>2, <2>3, <2>4, <2>5
  <1>7. ASSUME n < m PROVE FALSE
    <2>1. m \in 1..m
      BY <1>7
    <2>2. PICK j \in 1..n : s[m] = t[j]
      BY <1>1, <1>2, <2>1
    <2>3. j \in 1..m /\ j < m
      BY <1>7
    <2>4. s[j] = t[j]
      BY <1>d, <2>3
    <2>5. s[j] < s[m]
      BY <1>1, <2>1, <2>3
    <2> QED BY <1>3, <2>1, <2>2, <2>3, <2>4, <2>5
  <1>8. m = n
    BY <1>6, <1>7
  <1>9. \A i \in 1..m : s[i] = t[i]
    BY <1>d, <1>8
  <1> QED BY <1>1, <1>2, <1>8, <1>9

LEMMA OrderUnique ==
  ASSUME NEW s \in Seq(Nat), NEW t \in Seq(Nat),
         \A i, j \in DOMAIN s : i < j => s[i] < s[j],
         \A i, j \in DOMAIN t : i < j => t[i] < t[j],
         \A i \in DOMAIN s : \E j \in DOMAIN t : s[i] = t[j],
         \A i \in DOMAIN t : \E j \in DOMAIN s : t[i] = s[j]
  PROVE s = t
  <1>1. /\ Len(s) \in Nat /\ s \in [1..Len(s) -> Nat] /\ DOMAIN s = 1..Len(s)
        /\ Len(t) \in Nat /\ t \in [1..Len(t) -> Nat] /\ DOMAIN t = 1..Len(t)
    OBVIOUS
  <1>2. /\ \A i, j \in 1..Len(s) : i < j => s[i] < s[j]
        /\ \A i, j \in 1..Len(t) : i < j => t[i] < t[j]
        /\ \A i \in 1..Len(s) : \E j \in 1..Len(t) : s[i] = t[j]
        /\ \A i \in 1..Len(t) : \E j \in 1..Len(s) : t[i] = s[j]
    BY <1>1
  <1> QED BY <1>1, <1>2, OrderUniqueOn

-----------------------------------------------------------------------------
(* Bags: the commands in flight of the event loop (Session, Streams) are one. *)

\* Taking one copy of e out.
LEMMA Removed ==
  ASSUME NEW B, IsABag(B), NEW e \in DOMAIN B
  PROVE LET C == B (-) SetToBag({e}) IN
        /\ IsABag(C)
        /\ DOMAIN C \subseteq DOMAIN B
        /\ \A x \in DOMAIN B : x # e => x \in DOMAIN C /\ C[x] = B[x]
        /\ B[e] = 1 => e \notin DOMAIN C
  <1> DEFINE M == SetToBag({e})
             D == [x \in DOMAIN B |-> IF x \in DOMAIN M THEN B[x] - M[x] ELSE B[x]]
             C == [x \in {d \in DOMAIN D : D[d] > 0} |-> D[x]]
  <1>1. \A x \in DOMAIN B : D[x] = IF x = e THEN B[x] - 1 ELSE B[x]
    BY DEF SetToBag
  <1>2. B (-) SetToBag({e}) = C
    BY Zenon DEF (-)
  <1>3. \A x \in DOMAIN B : B[x] \in Nat /\ B[x] > 0
    BY DEF IsABag
  <1>4. DOMAIN C = {x \in DOMAIN B : D[x] > 0} /\ \A x \in DOMAIN C : C[x] = D[x]
    OBVIOUS
  <1> HIDE DEF D
  <1>5. IsABag(C)
    BY <1>1, <1>3, <1>4 DEF IsABag
  <1> HIDE DEF C
  <1> QED BY <1>1, <1>2, <1>3, <1>4, <1>5

\* Putting one copy of each element of out in.
LEMMA Added ==
  ASSUME NEW B, IsABag(B), NEW out
  PROVE /\ IsABag(B (+) SetToBag(out))
        /\ DOMAIN (B (+) SetToBag(out)) = DOMAIN B \cup out
  BY DEF IsABag, SetToBag, (+)

\* The others keep their number.
LEMMA AddedKeeps ==
  ASSUME NEW B, IsABag(B), NEW out
  PROVE \A x \in DOMAIN B : x \notin out => (B (+) SetToBag(out))[x] = B[x]
  BY DEF IsABag, SetToBag, (+)

\* An element that was not in before is in once.
LEMMA AddedOnce ==
  ASSUME NEW B, IsABag(B), NEW out
  PROVE \A x \in out : x \notin DOMAIN B => (B (+) SetToBag(out))[x] = 1
  BY DEF IsABag, SetToBag, (+)

\* Taking one copy of e out, and putting one of each element of out in.
LEMMA Exchanged ==
  ASSUME NEW B, IsABag(B), NEW e \in DOMAIN B, NEW out
  PROVE LET C == (B (-) SetToBag({e})) (+) SetToBag(out) IN
        /\ IsABag(C)
        /\ DOMAIN C \subseteq DOMAIN B \cup out
        /\ out \subseteq DOMAIN C
        /\ \A x \in DOMAIN B : x # e => x \in DOMAIN C
        /\ B[e] = 1 /\ e \notin out => e \notin DOMAIN C
  <1> DEFINE A == B (-) SetToBag({e})
  <1>1. /\ IsABag(A)
        /\ DOMAIN A \subseteq DOMAIN B
        /\ \A x \in DOMAIN B : x # e => x \in DOMAIN A
        /\ B[e] = 1 => e \notin DOMAIN A
    BY Removed
  <1> HIDE DEF A
  <1>2. IsABag(A (+) SetToBag(out)) /\ DOMAIN (A (+) SetToBag(out)) = DOMAIN A \cup out
    BY <1>1, Added
  <1> QED BY <1>1, <1>2 DEF A

\* The others keep their number.
LEMMA ExchangedKeeps ==
  ASSUME NEW B, IsABag(B), NEW e \in DOMAIN B, NEW out
  PROVE \A x \in DOMAIN B : x # e /\ x \notin out =>
          ((B (-) SetToBag({e})) (+) SetToBag(out))[x] = B[x]
  <1> DEFINE A == B (-) SetToBag({e})
  <1>1. IsABag(A) /\ \A x \in DOMAIN B : x # e => x \in DOMAIN A /\ A[x] = B[x]
    BY Removed
  <1> HIDE DEF A
  <1>2. \A x \in DOMAIN A : x \notin out => (A (+) SetToBag(out))[x] = A[x]
    BY <1>1, AddedKeeps
  <1> QED BY <1>1, <1>2 DEF A

\* An element that was not in before is in once.
LEMMA ExchangedOnce ==
  ASSUME NEW B, IsABag(B), NEW e \in DOMAIN B, NEW out
  PROVE \A x \in out : x \notin DOMAIN B =>
          ((B (-) SetToBag({e})) (+) SetToBag(out))[x] = 1
  <1> DEFINE A == B (-) SetToBag({e})
  <1>1. IsABag(A) /\ DOMAIN A \subseteq DOMAIN B
    BY Removed
  <1> HIDE DEF A
  <1>2. \A x \in out : x \notin DOMAIN A => (A (+) SetToBag(out))[x] = 1
    BY <1>1, AddedOnce
  <1> QED BY <1>1, <1>2 DEF A
=============================================================================
