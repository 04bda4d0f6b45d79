--------------------------- MODULE Vectors_proofs ---------------------------
(***************************************************************************)
(* What holds of sequences, and of removing elements from one, whatever    *)
(* the elements are.                                                       *)
(***************************************************************************)
EXTENDS Vectors, SequenceTheorems, FiniteSetTheorems, TLAPS

-----------------------------------------------------------------------------
(* Sequences and sets.                                                     *)

\* In a finite set of numbers, counting the members up to each one numbers them
\* from 1 on, in their order.
LEMMA RankIsOnto ==
  ASSUME NEW n \in Nat, NEW K \in SUBSET (1 .. n)
  PROVE  /\ Cardinality(K) \in Nat
         /\ Cardinality(K) <= n
         /\ \A k \in 1 .. Cardinality(K) :
              \E i \in K : Cardinality({j \in K : j <= i}) = k
         /\ \A i \in K : Cardinality({j \in K : j <= i}) \in 1 .. Cardinality(K)
         /\ \A i, j \in K : i < j => Cardinality({k \in K : k <= i})
                                      < Cardinality({k \in K : k <= j})
<1> DEFINE Upto(i) == {j \in K : j <= i}
           Rank(i) == Cardinality(Upto(i))
           r == [i \in K |-> Rank(i)]
<1>1. /\ IsFiniteSet(1 .. n)
      /\ Cardinality(1 .. n) = n
  BY FS_Interval
<1>2. /\ IsFiniteSet(K)
      /\ Cardinality(K) <= n
      /\ Cardinality(K) \in Nat
  BY <1>1, FS_Subset, FS_CardinalityType
<1>3. ASSUME NEW i \in K
      PROVE  /\ IsFiniteSet(Upto(i))
             /\ Rank(i) \in 1 .. Cardinality(K)
  <2>1. Upto(i) \in SUBSET K
    OBVIOUS
  <2>2. /\ IsFiniteSet(Upto(i))
        /\ Rank(i) <= Cardinality(K)
    BY <1>2, <2>1, FS_Subset
  <2>3. Rank(i) \in Nat
    BY <2>2, FS_CardinalityType
  <2>4. i \in Upto(i)
    OBVIOUS
  <2>5. Rank(i) # 0
    BY <2>2, <2>4, FS_EmptySet
  <2> HIDE DEF Rank, Upto
  <2> QED
    BY <1>2, <2>2, <2>3, <2>5
<1>4. ASSUME NEW i \in K, NEW j \in K, i < j
      PROVE  Rank(i) < Rank(j)
  <2>1. Upto(i) \in SUBSET Upto(j)
    <3>1. \A k \in K : k <= i => k <= j
      BY <1>4
    <3> QED
      BY <3>1
  <2>2. j \in Upto(j) /\ j \notin Upto(i)
    BY <1>4
  <2>3. /\ Rank(i) <= Rank(j)
        /\ Rank(i) # Rank(j)
        /\ Rank(i) \in Nat /\ Rank(j) \in Nat
    BY <1>3, <2>1, <2>2, FS_Subset
  <2> HIDE DEF Rank
  <2> QED
    BY <2>3
<1>5. r \in Injection(K, 1 .. Cardinality(K))
  <2>1. r \in [K -> 1 .. Cardinality(K)]
    BY <1>3
  <2>2. ASSUME NEW i \in K, NEW j \in K, r[i] = r[j]
        PROVE  i = j
    <3>1. Rank(i) = Rank(j)
      BY <2>2
    <3>2. i < j \/ j < i \/ i = j
      OBVIOUS
    <3>3. Rank(i) \in Nat /\ Rank(j) \in Nat
      BY <1>2, <1>3
    <3> HIDE DEF Rank
    <3> QED
      BY <1>4, <3>1, <3>2, <3>3
  <2> HIDE DEF r
  <2> QED
    BY <2>1, <2>2 DEF Injection, IsInjective
<1>6. r \in Surjection(K, 1 .. Cardinality(K))
  <2>1. /\ IsFiniteSet(1 .. Cardinality(K))
        /\ Cardinality(1 .. Cardinality(K)) = Cardinality(K)
    BY <1>2, FS_Interval
  <2> HIDE DEF r
  <2> QED
    BY <1>5, <2>1, FS_Injection
<1>7. \A k \in 1 .. Cardinality(K) : \E i \in K : r[i] = k
  BY <1>6 DEF Surjection
<1> QED
  BY <1>2, <1>3, <1>4, <1>7

\* A non-empty set of indices has a least one.
LEMMA LeastExists ==
  ASSUME NEW n \in Nat, NEW K \in SUBSET (1 .. n), K # {}
  PROVE  \E i \in K : \A j \in K : i <= j
<1>0. IsFiniteSet(1 .. n)
  BY FS_Interval
<1>1. IsFiniteSet(K)
  BY <1>0, FS_Subset
<1>2. Cardinality(K) \in Nat /\ Cardinality(K) # 0
  BY <1>1, FS_CardinalityType, FS_EmptySet
<1>3. PICK i \in K : Cardinality({j \in K : j <= i}) = 1
  <2>1. 1 \in 1 .. Cardinality(K)
    BY <1>2
  <2>2. \A k \in 1 .. Cardinality(K) :
          \E i \in K : Cardinality({j \in K : j <= i}) = k
    BY RankIsOnto
  <2> QED
    BY <2>1, <2>2
<1>4. IsFiniteSet({j \in K : j <= i})
  BY <1>1, FS_Subset
<1>5. PICK x : {j \in K : j <= i} = {x}
  BY <1>3, <1>4, FS_Singleton
<1>6. \A j \in K : j <= i => j = i
  BY <1>5
<1> QED
  BY <1>6

\* Removing elements from a sequence leaves the others, in their order.
LEMMA WithoutFacts ==
  ASSUME NEW S, NEW q \in Seq(S), NEW D
  PROVE  /\ Without(q, D) \in Seq(S)
         /\ Len(Without(q, D)) <= Len(q)
         /\ Range(Without(q, D)) = Range(q) \ D
         /\ \A m, n \in DOMAIN Without(q, D) : m < n =>
              \E i, j \in DOMAIN q : /\ i < j
                                    /\ Without(q, D)[m] = q[i]
                                    /\ Without(q, D)[n] = q[j]
<1> DEFINE kept == {i \in DOMAIN q : q[i] \notin D}
           Rank(i) == Cardinality({j \in kept : j <= i})
           At1(n) == CHOOSE i \in kept : Rank(i) = n
           w == [n \in 1 .. Cardinality(kept) |-> q[At1(n)]]
<1>1. Without(q, D) = w
  BY DEF Without
<1>2. Len(q) \in Nat /\ DOMAIN q = 1 .. Len(q)
  BY LenProperties
<1>3. /\ Cardinality(kept) \in Nat
      /\ Cardinality(kept) <= Len(q)
      /\ \A k \in 1 .. Cardinality(kept) : \E i \in kept : Rank(i) = k
      /\ \A i \in kept : Rank(i) \in 1 .. Cardinality(kept)
      /\ \A i, j \in kept : i < j => Rank(i) < Rank(j)
  BY <1>2, RankIsOnto
<1> HIDE DEF Rank
<1>4. \A n \in 1 .. Cardinality(kept) : At1(n) \in kept /\ Rank(At1(n)) = n
  BY <1>3
<1> HIDE DEF At1
<1>5. \A n \in 1 .. Cardinality(kept) : q[At1(n)] \in S /\ q[At1(n)] \in Range(q) \ D
  BY <1>2, <1>4, ElementOfSeq DEF Range
<1>6. w \in [1 .. Cardinality(kept) -> S]
  BY <1>5
<1>7. /\ w \in Seq(S) /\ Len(w) = Cardinality(kept)
      /\ DOMAIN w = 1 .. Cardinality(kept)
  BY <1>3, <1>6, SeqDef, LenProperties
<1>8. Range(w) = Range(q) \ D
  <2>1. Range(w) \subseteq Range(q) \ D
    BY <1>5 DEF Range
  <2>2. ASSUME NEW e \in Range(q) \ D
        PROVE  e \in Range(w)
    <3>1. PICK i \in kept : q[i] = e
      BY DEF Range
    <3>2. Rank(i) \in 1 .. Cardinality(kept)
      BY <1>3
    <3>3. At1(Rank(i)) = i
      <4> DEFINE k == At1(Rank(i))
      <4>1. k \in kept /\ Rank(k) = Rank(i) /\ Rank(i) \in Nat
        BY <1>3, <1>4, <3>2
      <4>2. ~(k < i) /\ ~(i < k) /\ k \in Nat /\ i \in Nat
        BY <1>2, <1>3, <4>1
      <4> QED
        BY <4>2
    <3>4. w[Rank(i)] = e
      BY <3>1, <3>2, <3>3
    <3> QED
      BY <1>7, <3>2, <3>4 DEF Range
  <2> QED
    BY <2>1, <2>2
<1>9. ASSUME NEW m \in DOMAIN w, NEW n \in DOMAIN w, m < n
      PROVE  \E i, j \in DOMAIN q : i < j /\ w[m] = q[i] /\ w[n] = q[j]
  <2>1. /\ At1(m) \in kept /\ Rank(At1(m)) = m
        /\ At1(n) \in kept /\ Rank(At1(n)) = n
    BY <1>4, <1>7
  <2>2. At1(m) < At1(n)
    BY <1>2, <1>3, <1>9, <2>1
  <2> QED
    BY <1>7, <2>1, <2>2
<1> HIDE DEF w
<1> QED
  BY <1>1, <1>3, <1>7, <1>8, <1>9

\* The same in parts.
LEMMA WithoutIsASequence ==
  ASSUME NEW S, NEW q \in Seq(S), NEW D
  PROVE  /\ Without(q, D) \in Seq(S)
         /\ Len(Without(q, D)) <= Len(q)
         /\ Range(Without(q, D)) = Range(q) \ D
BY WithoutFacts

LEMMA WithoutKeepsOrder ==
  ASSUME NEW S, NEW q \in Seq(S), NEW D,
         NEW m \in DOMAIN Without(q, D), NEW n \in DOMAIN Without(q, D), m < n
  PROVE  \E i, j \in DOMAIN q : /\ i < j
                               /\ Without(q, D)[m] = q[i]
                               /\ Without(q, D)[n] = q[j]
BY WithoutFacts

\* So no element comes twice if none did before.
LEMMA WithoutIsInjective ==
  ASSUME NEW S, NEW q \in Seq(S), NEW D, IsInjective(q)
  PROVE  IsInjective(Without(q, D))
<1> DEFINE w == Without(q, D)
<1>1. DOMAIN w = 1 .. Len(w) /\ Len(w) \in Nat /\ DOMAIN q = 1 .. Len(q) /\ Len(q) \in Nat
  BY WithoutIsASequence, LenProperties
<1>2. \A m, n \in DOMAIN w : m < n =>
        \E i, j \in DOMAIN q : i < j /\ w[m] = q[i] /\ w[n] = q[j]
  BY WithoutKeepsOrder
<1> HIDE DEF w
<1>3. \A m, n \in DOMAIN w : m < n => w[m] # w[n]
  BY <1>1, <1>2 DEF IsInjective
<1>4. \A m, n \in DOMAIN w : m < n \/ n < m \/ m = n
  BY <1>1
<1>5. IsInjective(w)
  BY <1>3, <1>4 DEF IsInjective
<1> QED
  BY <1>5 DEF w

\* The elements of the empty sequence, of one with an element more or less, and of two in a row.
LEMMA RangeOfEmpty == Range(<<>>) = {}
  BY DEF Range

LEMMA RangeOfAppend ==
  ASSUME NEW S, NEW q \in Seq(S), NEW e \in S
  PROVE  Range(Append(q, e)) = Range(q) \cup {e}
<1> DEFINE a == Append(q, e)
<1>1. /\ DOMAIN q = 1 .. Len(q) /\ Len(q) \in Nat
      /\ DOMAIN a = 1 .. Len(q) + 1
      /\ \A i \in 1 .. Len(q) : a[i] = q[i]
      /\ a[Len(q) + 1] = e
  BY AppendProperties, LenProperties
<1> HIDE DEF a
<1>2. 1 .. Len(q) + 1 = (1 .. Len(q)) \cup {Len(q) + 1}
  BY <1>1
<1>3. Range(a) = Range(q) \cup {e}
  BY <1>1, <1>2 DEF Range
<1> QED
  BY <1>3 DEF a

LEMMA RangeOfTail ==
  ASSUME NEW S, NEW q \in Seq(S), q # <<>>
  PROVE  /\ Range(q) = {Head(q)} \cup Range(Tail(q))
         /\ IsInjective(q) => IsInjective(Tail(q)) /\ Head(q) \notin Range(Tail(q))
<1> DEFINE t == Tail(q)
<1>1. /\ DOMAIN q = 1 .. Len(q) /\ Len(q) \in Nat \ {0}
      /\ DOMAIN t = 1 .. Len(q) - 1
      /\ \A i \in 1 .. Len(q) - 1 : t[i] = q[i + 1]
  BY HeadTailProperties, LenProperties, EmptySeq
<1>2. Head(q) = q[1]
  BY <1>1
<1> HIDE DEF t
<1>3. \A i \in 1 .. Len(q) : i = 1 \/ i - 1 \in 1 .. Len(q) - 1
  BY <1>1
<1>4. \A i \in 1 .. Len(q) - 1 : i + 1 \in 1 .. Len(q) /\ i + 1 # 1
  BY <1>1
<1>5. Range(q) \subseteq {q[1]} \cup Range(t)
  <2>1. ASSUME NEW i \in 1 .. Len(q), i # 1
        PROVE  q[i] \in Range(t)
    <3>1. i - 1 \in 1 .. Len(q) - 1 /\ (i - 1) + 1 = i
      BY <1>1, <2>1
    <3>2. t[i - 1] = q[i]
      BY <1>1, <3>1
    <3> QED
      BY <1>1, <3>1, <3>2 DEF Range
  <2> QED
    BY <1>1, <2>1 DEF Range
<1>6. {q[1]} \cup Range(t) \subseteq Range(q)
  BY <1>1, <1>4 DEF Range
<1>7. ASSUME IsInjective(q)
      PROVE  IsInjective(t) /\ q[1] \notin Range(t)
  <2>1. \A i, j \in 1 .. Len(q) - 1 : t[i] = t[j] => i = j
    <3> SUFFICES ASSUME NEW i \in 1 .. Len(q) - 1, NEW j \in 1 .. Len(q) - 1, t[i] = t[j]
                 PROVE  i = j
      OBVIOUS
    <3>1. i + 1 = j + 1
      BY <1>1, <1>4, <1>7 DEF IsInjective
    <3> QED
      BY <3>1
  <2>2. \A i \in 1 .. Len(q) - 1 : t[i] # q[1]
    BY <1>1, <1>4, <1>7 DEF IsInjective
  <2> QED
    BY <1>1, <2>1, <2>2 DEF IsInjective, Range
<1> QED
  BY <1>2, <1>5, <1>6, <1>7 DEF t

\* An element that is not there yet may be appended to an injective sequence, and so may
\* a sequence that shares none.
LEMMA AppendIsInjective ==
  ASSUME NEW S, NEW q \in Seq(S), NEW e \in S, IsInjective(q), e \notin Range(q)
  PROVE  IsInjective(Append(q, e))
<1> DEFINE a == Append(q, e)
<1>1. /\ DOMAIN q = 1 .. Len(q) /\ Len(q) \in Nat
      /\ DOMAIN a = 1 .. Len(q) + 1
      /\ \A i \in 1 .. Len(q) : a[i] = q[i]
      /\ a[Len(q) + 1] = e
  BY AppendProperties, LenProperties
<1> HIDE DEF a
<1>2. \A i \in 1 .. Len(q) + 1 : i \in 1 .. Len(q) \/ i = Len(q) + 1
  BY <1>1
<1>3. \A i \in 1 .. Len(q) : q[i] # e
  BY <1>1 DEF Range
<1>4. IsInjective(a)
  BY <1>1, <1>2, <1>3 DEF IsInjective
<1> QED
  BY <1>4 DEF a

LEMMA ConcatIsInjective ==
  ASSUME NEW S, NEW q \in Seq(S), NEW r \in Seq(S)
  PROVE  IsInjective(q \o r) <=>
           IsInjective(q) /\ IsInjective(r) /\ Range(q) \cap Range(r) = {}
<1> DEFINE c == q \o r
<1>1. /\ DOMAIN q = 1 .. Len(q) /\ Len(q) \in Nat
      /\ DOMAIN r = 1 .. Len(r) /\ Len(r) \in Nat
      /\ DOMAIN c = 1 .. Len(q) + Len(r)
      /\ \A i \in 1 .. Len(q) + Len(r) : c[i] = IF i <= Len(q) THEN q[i] ELSE r[i - Len(q)]
  BY ConcatProperties, LenProperties
<1> HIDE DEF c
<1>2. \A i \in 1 .. Len(q) : i \in 1 .. Len(q) + Len(r) /\ c[i] = q[i]
  BY <1>1
<1>3. \A i \in 1 .. Len(r) : /\ Len(q) + i \in 1 .. Len(q) + Len(r)
                             /\ Len(q) + i \notin 1 .. Len(q)
                             /\ c[Len(q) + i] = r[i]
  <2> SUFFICES ASSUME NEW i \in 1 .. Len(r)
               PROVE  /\ Len(q) + i \in 1 .. Len(q) + Len(r)
                      /\ Len(q) + i \notin 1 .. Len(q)
                      /\ c[Len(q) + i] = r[i]
    OBVIOUS
  <2>1. /\ Len(q) + i \in 1 .. Len(q) + Len(r)
        /\ Len(q) + i \notin 1 .. Len(q)
        /\ ~(Len(q) + i <= Len(q))
        /\ (Len(q) + i) - Len(q) = i
    BY <1>1
  <2> QED
    BY <1>1, <2>1
<1>4. \A i \in 1 .. Len(q) + Len(r) :
        i \in 1 .. Len(q) \/ \E k \in 1 .. Len(r) : i = Len(q) + k
  <2> SUFFICES ASSUME NEW i \in 1 .. Len(q) + Len(r), i \notin 1 .. Len(q)
               PROVE  \E k \in 1 .. Len(r) : i = Len(q) + k
    OBVIOUS
  <2>1. i - Len(q) \in 1 .. Len(r) /\ i = Len(q) + (i - Len(q))
    BY <1>1
  <2> QED
    BY <2>1
<1>5. ASSUME IsInjective(c)
      PROVE  IsInjective(q) /\ IsInjective(r) /\ Range(q) \cap Range(r) = {}
  <2>1. IsInjective(q)
    BY <1>1, <1>2, <1>5 DEF IsInjective
  <2>2. IsInjective(r)
    <3> SUFFICES ASSUME NEW i \in 1 .. Len(r), NEW j \in 1 .. Len(r), r[i] = r[j]
                 PROVE  i = j
      BY <1>1 DEF IsInjective
    <3>1. Len(q) + i = Len(q) + j
      BY <1>1, <1>3, <1>5 DEF IsInjective
    <3> QED
      BY <1>1, <3>1
  <2>3. \A i \in 1 .. Len(q), j \in 1 .. Len(r) : q[i] # r[j]
    BY <1>1, <1>2, <1>3, <1>5 DEF IsInjective
  <2> QED
    BY <1>1, <2>1, <2>2, <2>3 DEF Range
<1>6. ASSUME IsInjective(q), IsInjective(r), Range(q) \cap Range(r) = {}
      PROVE  IsInjective(c)
  <2>1. \A i \in 1 .. Len(q), j \in 1 .. Len(r) : q[i] # r[j]
    BY <1>1, <1>6 DEF Range
  <2>2. \A i, j \in 1 .. Len(q) : q[i] = q[j] => i = j
    BY <1>1, <1>6 DEF IsInjective
  <2>3. \A i, j \in 1 .. Len(r) : r[i] = r[j] => i = j
    BY <1>1, <1>6 DEF IsInjective
  <2>4. \A i, j \in 1 .. Len(q) + Len(r) : c[i] = c[j] => i = j
    <3> SUFFICES ASSUME NEW i \in 1 .. Len(q) + Len(r), NEW j \in 1 .. Len(q) + Len(r),
                        c[i] = c[j]
                 PROVE  i = j
      OBVIOUS
    <3>1. CASE i \in 1 .. Len(q) /\ j \in 1 .. Len(q)
      BY <1>2, <2>2, <3>1
    <3>2. ASSUME NEW k \in 1 .. Len(r), NEW l \in 1 .. Len(r), i = Len(q) + k, j = Len(q) + l
          PROVE  i = j
      BY <1>3, <2>3, <3>2
    <3>3. ASSUME NEW k \in 1 .. Len(r), i \in 1 .. Len(q), j = Len(q) + k
          PROVE  FALSE
      BY <1>2, <1>3, <2>1, <3>3
    <3>4. ASSUME NEW k \in 1 .. Len(r), i = Len(q) + k, j \in 1 .. Len(q)
          PROVE  FALSE
      BY <1>2, <1>3, <2>1, <3>4
    <3> QED
      BY <1>4, <3>1, <3>2, <3>3, <3>4
  <2> QED
    BY <1>1, <2>4 DEF IsInjective
<1>7. IsInjective(c) <=> IsInjective(q) /\ IsInjective(r) /\ Range(q) \cap Range(r) = {}
  BY <1>5, <1>6
<1> QED
  BY <1>7 DEF c

-----------------------------------------------------------------------------
(* Moving elements along a line of vectors.                                *)

\* The first element of one moves to the end of the one before it.
LEMMA HeadMovesOn ==
  ASSUME NEW S, NEW r \in Seq(S), NEW q \in Seq(S), NEW s \in Seq(S), q # <<>>
  PROVE  Append(r, Head(q)) \o (Tail(q) \o s) = r \o (q \o s)
<1> DEFINE h == Head(q)
           t == Tail(q)
<1>1. /\ h \in S /\ t \in Seq(S)
      /\ h = q[1] /\ Len(t) = Len(q) - 1
      /\ \A i \in 1 .. Len(t) : t[i] = q[i + 1]
      /\ Len(q) \in Nat \ {0}
  BY HeadTailProperties, EmptySeq
<1> HIDE DEF h, t
<1>2. /\ <<h>> \in Seq(S) /\ Len(<<h>>) = 1 /\ <<h>>[1] = h
  BY <1>1
<1>3. <<h>> \o t = q
  <2>1. /\ <<h>> \o t \in Seq(S)
        /\ Len(<<h>> \o t) = 1 + Len(t)
        /\ \A i \in 1 .. 1 + Len(t) :
             (<<h>> \o t)[i] = IF i <= 1 THEN <<h>>[i] ELSE t[i - 1]
    BY <1>1, <1>2, ConcatProperties
  <2>2. Len(<<h>> \o t) = Len(q)
    BY <1>1, <2>1
  <2>3. \A i \in 1 .. Len(q) : (<<h>> \o t)[i] = q[i]
    BY <1>1, <1>2, <2>1
  <2> QED
    BY <2>1, <2>2, <2>3, SeqEqual
<1>4. Append(r, h) = r \o <<h>>
  BY <1>1, AppendIsConcat
<1>5. t \o s \in Seq(S)
  BY <1>1, ConcatProperties
<1>6. (r \o <<h>>) \o (t \o s) = r \o (<<h>> \o (t \o s))
  BY <1>2, <1>5, ConcatAssociative
<1>7. <<h>> \o (t \o s) = (<<h>> \o t) \o s
  BY <1>1, <1>2, ConcatAssociative
<1>8. Append(r, h) \o (t \o s) = r \o (q \o s)
  BY <1>3, <1>4, <1>6, <1>7
<1> QED
  BY <1>8 DEF h, t

\* What is appended to the last one is appended to the line.
LEMMA AppendedAtTheEnd ==
  ASSUME NEW S, NEW r \in Seq(S), NEW q \in Seq(S), NEW e \in S
  PROVE  r \o Append(q, e) = Append(r \o q, e)
<1>1. <<e>> \in Seq(S) /\ r \o q \in Seq(S)
  BY ConcatProperties
<1>2. Append(q, e) = q \o <<e>> /\ Append(r \o q, e) = (r \o q) \o <<e>>
  BY <1>1, AppendIsConcat
<1>3. (r \o q) \o <<e>> = r \o (q \o <<e>>)
  BY <1>1, ConcatAssociative
<1> QED
  BY <1>2, <1>3

-----------------------------------------------------------------------------
(* A family of vectors in which every element is at most once.             *)

Apart(P) ==
  /\ \A k \in DOMAIN P : IsInjective(P[k])
  /\ \A k, l \in DOMAIN P : k # l => Range(P[k]) \cap Range(P[l]) = {}

\* The elements of a family's vectors.
Members(P) == UNION {Range(P[k]) : k \in DOMAIN P}

\* What goes from one vector of the family to another is not lost, and is not twice.
LEMMA ExchangeKeepsApart ==
  ASSUME NEW S, NEW K, NEW P \in [K -> Seq(S)], NEW Q \in [K -> Seq(S)],
         NEW a \in K, NEW b \in K,
         \A k \in K \ {a, b} : Q[k] = P[k],
         IsInjective(Q[a]), IsInjective(Q[b]), a # b => Range(Q[a]) \cap Range(Q[b]) = {},
         Range(Q[a]) \cup Range(Q[b]) = Range(P[a]) \cup Range(P[b]),
         Apart(P)
  PROVE  Apart(Q) /\ Members(Q) = Members(P)
<1>1. DOMAIN P = K /\ DOMAIN Q = K
  OBVIOUS
<1>2. \A k \in K : IsInjective(Q[k])
  BY <1>1 DEF Apart
<1>3. \A k, l \in K : k # l => Range(P[k]) \cap Range(P[l]) = {}
  BY <1>1 DEF Apart
<1>4. \A k \in K \ {a, b} : Range(Q[k]) \cap (Range(Q[a]) \cup Range(Q[b])) = {}
  BY <1>3
<1>5. \A k, l \in K : k # l => Range(Q[k]) \cap Range(Q[l]) = {}
  <2> SUFFICES ASSUME NEW k \in K, NEW l \in K, k # l
               PROVE  Range(Q[k]) \cap Range(Q[l]) = {}
    OBVIOUS
  <2>1. CASE k \notin {a, b} /\ l \notin {a, b}
    BY <1>3, <2>1
  <2>2. CASE k \notin {a, b} /\ l \in {a, b}
    BY <1>4, <2>2
  <2>3. CASE k \in {a, b} /\ l \notin {a, b}
    BY <1>4, <2>3
  <2>4. CASE k \in {a, b} /\ l \in {a, b}
    BY <2>4
  <2> QED
    BY <2>1, <2>2, <2>3, <2>4
<1>6. Members(Q) = Members(P)
  <2>1. ASSUME NEW x
        PROVE  x \in Members(Q) <=> x \in Members(P)
    <3>1. x \in Members(Q) <=> \E k \in K : x \in Range(Q[k])
      BY <1>1 DEF Members
    <3>2. x \in Members(P) <=> \E k \in K : x \in Range(P[k])
      BY <1>1 DEF Members
    <3>3. x \in Range(Q[a]) \/ x \in Range(Q[b]) <=> x \in Range(P[a]) \/ x \in Range(P[b])
      OBVIOUS
    <3> QED
      BY <3>1, <3>2, <3>3
  <2> QED
    BY <2>1
<1> QED
  BY <1>1, <1>2, <1>5, <1>6 DEF Apart

\* So when the first element of one vector goes to the end of another ...
LEMMA HeadGoesOver ==
  ASSUME NEW S, NEW p \in Seq(S), NEW r \in Seq(S), p # <<>>,
         IsInjective(p), IsInjective(r), Range(p) \cap Range(r) = {}
  PROVE  /\ IsInjective(Tail(p)) /\ IsInjective(Append(r, Head(p)))
         /\ Range(Tail(p)) \cap Range(Append(r, Head(p))) = {}
         /\ Range(Tail(p)) \cup Range(Append(r, Head(p))) = Range(p) \cup Range(r)
<1>1. Head(p) \in S
  BY HeadTailProperties
<1>2. /\ Range(p) = {Head(p)} \cup Range(Tail(p))
      /\ IsInjective(Tail(p)) /\ Head(p) \notin Range(Tail(p))
  BY RangeOfTail
<1>3. Range(Append(r, Head(p))) = Range(r) \cup {Head(p)}
  BY <1>1, RangeOfAppend
<1>4. IsInjective(Append(r, Head(p)))
  BY <1>1, <1>2, AppendIsInjective
<1> QED
  BY <1>2, <1>3, <1>4

\* ... and when all of it does.
LEMMA AllGoesOver ==
  ASSUME NEW S, NEW p \in Seq(S), NEW r \in Seq(S),
         IsInjective(p), IsInjective(r), Range(p) \cap Range(r) = {}
  PROVE  /\ IsInjective(<<>>) /\ IsInjective(r \o p)
         /\ Range(<<>>) \cap Range(r \o p) = {}
         /\ Range(<<>>) \cup Range(r \o p) = Range(p) \cup Range(r)
<1>1. IsInjective(r \o p) /\ Range(r \o p) = Range(r) \cup Range(p)
  BY ConcatIsInjective, RangeConcatenation
<1>2. IsInjective(<<>>) /\ Range(<<>>) = {}
  BY RangeOfEmpty DEF IsInjective
<1> QED
  BY <1>1, <1>2

\* What none of them holds may be added to one.
LEMMA NewAdded ==
  ASSUME NEW K, NEW P, NEW Q, DOMAIN P = K, DOMAIN Q = K,
         NEW b \in K, NEW e, e \notin Members(P),
         \A k \in K \ {b} : Q[k] = P[k],
         IsInjective(Q[b]), Range(Q[b]) = Range(P[b]) \cup {e},
         Apart(P)
  PROVE  Apart(Q) /\ Members(Q) = Members(P) \cup {e}
<1>1. DOMAIN P = K /\ DOMAIN Q = K
  OBVIOUS
<1>2. \A k \in K : IsInjective(P[k]) /\ e \notin Range(P[k])
  BY <1>1 DEF Apart, Members
<1>3. \A k, l \in K : k # l => Range(P[k]) \cap Range(P[l]) = {}
  BY <1>1 DEF Apart
<1>4. \A k \in K : IsInjective(Q[k])
  BY <1>2
<1>5. \A k \in K \ {b} : Range(Q[k]) \cap Range(Q[b]) = {}
  BY <1>2, <1>3
<1>6. \A k, l \in K : k # l => Range(Q[k]) \cap Range(Q[l]) = {}
  <2> SUFFICES ASSUME NEW k \in K, NEW l \in K, k # l
               PROVE  Range(Q[k]) \cap Range(Q[l]) = {}
    OBVIOUS
  <2>1. CASE k # b /\ l # b
    BY <1>3, <2>1
  <2>2. CASE k = b \/ l = b
    BY <1>5, <2>2
  <2> QED
    BY <2>1, <2>2
<1>7. Members(Q) = Members(P) \cup {e}
  <2>1. ASSUME NEW x
        PROVE  x \in Members(Q) <=> x \in Members(P) \/ x = e
    <3>1. x \in Members(Q) <=> \E k \in K : x \in Range(Q[k])
      BY <1>1 DEF Members
    <3>2. x \in Members(P) <=> \E k \in K : x \in Range(P[k])
      BY <1>1 DEF Members
    <3>3. x \in Range(Q[b]) <=> x \in Range(P[b]) \/ x = e
      OBVIOUS
    <3> QED
      BY <3>1, <3>2, <3>3
  <2> QED
    BY <2>1
<1> QED
  BY <1>1, <1>4, <1>6, <1>7 DEF Apart

\* Erasing members of D alone, from some of them, loses no other.
LEMMA SomeErased ==
  ASSUME NEW K, NEW P, NEW Q, DOMAIN P = K, DOMAIN Q = K, NEW D,
         \A k \in K : /\ IsInjective(Q[k])
                      /\ Range(Q[k]) \subseteq Range(P[k])
                      /\ Range(P[k]) \ D \subseteq Range(Q[k]),
         Apart(P)
  PROVE  Apart(Q) /\ Members(Q) \subseteq Members(P) /\ Members(P) \ D \subseteq Members(Q)
<1>1. \A k, l \in K : k # l => Range(P[k]) \cap Range(P[l]) = {}
  BY DEF Apart
<1>2. \A k, l \in K : k # l => Range(Q[k]) \cap Range(Q[l]) = {}
  BY <1>1
<1>3. ASSUME NEW x
      PROVE  /\ x \in Members(Q) <=> \E k \in K : x \in Range(Q[k])
             /\ x \in Members(P) <=> \E k \in K : x \in Range(P[k])
  BY DEF Members
<1>4. Members(Q) \subseteq Members(P) /\ Members(P) \ D \subseteq Members(Q)
  BY <1>3
<1> QED
  BY <1>2, <1>4 DEF Apart
=============================================================================
