--------------------------- MODULE OrderingProofs ---------------------------
(***************************************************************************)
(* What SortByIndex does, for sequences of any length: it permutes the     *)
(* elements, puts the indexes in order, and keeps the order of those with  *)
(* the same index.  Ranks are a bijection between the places before the    *)
(* sort and those after it; the rest follows from that.                    *)
(***************************************************************************)
EXTENDS Ordering, Functions, FiniteSetTheorems, TLAPS

Indexed(s) == \A i \in DOMAIN s : s[i].index \in Nat
Before(s, i) == {j \in DOMAIN s : Precedes(s, j, i)}

\* What precedes an element is a set of places other than its own.
LEMMA BeforeFinite ==
    ASSUME NEW T, NEW s \in Seq(T), NEW i \in DOMAIN s, Indexed(s)
    PROVE  /\ Before(s, i) \subseteq DOMAIN s \ {i}
           /\ IsFiniteSet(Before(s, i))
           /\ Cardinality(Before(s, i)) \in 0 .. (Len(s) - 1)
<1>1. Before(s, i) \subseteq DOMAIN s \ {i}
  BY DEF Before, Precedes, Indexed
<1>2. IsFiniteSet(1 .. Len(s)) /\ Cardinality(1 .. Len(s)) = Len(s)
  BY FS_Interval
<1>3. /\ IsFiniteSet(DOMAIN s \ {i})
      /\ Cardinality(DOMAIN s \ {i}) = Len(s) - 1
  <2>1. DOMAIN s = 1 .. Len(s) /\ i \in 1 .. Len(s)
    OBVIOUS
  <2>2. /\ IsFiniteSet((1 .. Len(s)) \ {i})
        /\ Cardinality((1 .. Len(s)) \ {i}) = Cardinality(1 .. Len(s)) - 1
    BY <1>2, <2>1, FS_RemoveElement
  <2> QED
    BY <1>2, <2>1, <2>2
<1>4. /\ IsFiniteSet(Before(s, i))
      /\ Cardinality(Before(s, i)) <= Len(s) - 1
  BY <1>1, <1>3, FS_Subset
<1>5. Cardinality(Before(s, i)) \in Nat
  BY <1>4, FS_CardinalityType
<1> QED
  BY <1>1, <1>4, <1>5

\* A rank is a place.
LEMMA RankType ==
    ASSUME NEW T, NEW s \in Seq(T), NEW i \in DOMAIN s, Indexed(s)
    PROVE  Rank(s, i) \in 1 .. Len(s)
<1>1. Cardinality(Before(s, i)) \in 0 .. (Len(s) - 1)
  BY BeforeFinite
<1>2. Rank(s, i) = 1 + Cardinality(Before(s, i))
  BY DEF Rank, Before
<1> QED
  BY <1>1, <1>2

\* Ranks are in the order of the sort.
LEMMA RankOrder ==
    ASSUME NEW T, NEW s \in Seq(T), NEW i \in DOMAIN s, NEW j \in DOMAIN s,
           Indexed(s), Precedes(s, i, j)
    PROVE  Rank(s, i) < Rank(s, j)
<1>1. Before(s, i) \subseteq Before(s, j)
  BY DEF Before, Precedes, Indexed
<1>2. i \in Before(s, j) /\ i \notin Before(s, i)
  BY BeforeFinite DEF Before
<1>3. /\ IsFiniteSet(Before(s, i)) /\ Cardinality(Before(s, i)) \in Nat
      /\ IsFiniteSet(Before(s, j)) /\ Cardinality(Before(s, j)) \in Nat
  BY BeforeFinite
<1>4. /\ Cardinality(Before(s, i)) <= Cardinality(Before(s, j))
      /\ Cardinality(Before(s, i)) # Cardinality(Before(s, j))
  BY <1>1, <1>2, <1>3, FS_Subset
<1> QED
  BY <1>3, <1>4 DEF Rank, Before

\* Of two elements one precedes the other.
LEMMA PrecedesTotal ==
    ASSUME NEW T, NEW s \in Seq(T), NEW i \in DOMAIN s, NEW j \in DOMAIN s,
           Indexed(s), i # j
    PROVE  Precedes(s, i, j) \/ Precedes(s, j, i)
BY DEF Precedes, Indexed

\* Ranks are a bijection.
LEMMA RankBijective ==
    ASSUME NEW T, NEW s \in Seq(T), Indexed(s)
    PROVE  /\ \A i, j \in DOMAIN s : Rank(s, i) = Rank(s, j) => i = j
           /\ \A p \in 1 .. Len(s) : \E i \in DOMAIN s : Rank(s, i) = p
<1> DEFINE f == [i \in DOMAIN s |-> Rank(s, i)]
           D == 1 .. Len(s)
<1>1. \A i \in DOMAIN s : Rank(s, i) \in D
  BY RankType
<1>2. ASSUME NEW i \in DOMAIN s, NEW j \in DOMAIN s, Rank(s, i) = Rank(s, j), i # j
      PROVE  FALSE
  <2>1. Rank(s, i) < Rank(s, j) \/ Rank(s, j) < Rank(s, i)
    BY <1>2, PrecedesTotal, RankOrder
  <2> QED
    BY <2>1, <1>1, <1>2
<1>3. DOMAIN s = D
  OBVIOUS
<1>4. f \in Injection(D, D)
  BY <1>1, <1>2, <1>3 DEF Injection, IsInjective
<1>5. IsFiniteSet(D)
  BY FS_Interval
<1>6. f \in Surjection(D, D)
  BY <1>4, <1>5, FS_Injection
<1>7. \A p \in D : \E i \in D : f[i] = p
  BY <1>6 DEF Surjection
<1> QED
  BY <1>2, <1>3, <1>7

----------------------------------------------------------------------------
From(s, p) == CHOOSE i \in DOMAIN s : Rank(s, i) = p

\* Each place of the sorted sequence is filled from the one with its rank.
LEMMA FromRank ==
    ASSUME NEW T, NEW s \in Seq(T), Indexed(s)
    PROVE  /\ \A p \in 1 .. Len(s) : From(s, p) \in DOMAIN s /\ Rank(s, From(s, p)) = p
           /\ \A i \in DOMAIN s : From(s, Rank(s, i)) = i
           /\ SortByIndex(s) = [p \in 1 .. Len(s) |-> s[From(s, p)]]
<1>1. \A p \in 1 .. Len(s) : From(s, p) \in DOMAIN s /\ Rank(s, From(s, p)) = p
  BY RankBijective DEF From
<1>2. \A i \in DOMAIN s : From(s, Rank(s, i)) = i
  BY <1>1, RankType, RankBijective
<1> QED
  BY <1>1, <1>2 DEF SortByIndex, From

\* Sorting gives a sequence of the same length and of the same elements.
THEOREM SortType ==
    ASSUME NEW T, NEW s \in Seq(T), Indexed(s)
    PROVE  SortByIndex(s) \in Seq(T) /\ Len(SortByIndex(s)) = Len(s)
<1>1. \A p \in 1 .. Len(s) : s[From(s, p)] \in T
  BY FromRank
<1> QED
  BY <1>1, FromRank

\* The sort is a permutation of the places (ast/src/lib.rs:61-67).
THEOREM SortPermutes ==
    ASSUME NEW T, NEW s \in Seq(T), Indexed(s)
    PROVE  \E f \in Bijection(DOMAIN s, DOMAIN s) :
              \A i \in DOMAIN s : SortByIndex(s)[f[i]] = s[i]
<1> DEFINE f == [i \in DOMAIN s |-> Rank(s, i)]
           D == 1 .. Len(s)
<1>1. DOMAIN s = D /\ f \in [D -> D]
  BY RankType
<1>2. f \in Injection(D, D)
  BY <1>1, RankBijective DEF Injection, IsInjective
<1>3. f \in Surjection(D, D)
  BY <1>1, RankBijective DEF Surjection
<1>4. \A i \in DOMAIN s : SortByIndex(s)[f[i]] = s[i]
  BY FromRank, RankType
<1> QED
  BY <1>1, <1>2, <1>3, <1>4 DEF Bijection

\* The indexes of the result are in order, and equal ones keep the order they
\* had (ast/src/lib.rs:61-67).
THEOREM SortOrders ==
    ASSUME NEW T, NEW s \in Seq(T), Indexed(s)
    PROVE  /\ SortedByIndex(SortByIndex(s))
           /\ \A i, j \in DOMAIN s :
                 i < j /\ s[i].index = s[j].index => Rank(s, i) < Rank(s, j)
<1>1. ASSUME NEW p \in 1 .. Len(s), NEW q \in 1 .. Len(s), p < q
      PROVE  s[From(s, p)].index <= s[From(s, q)].index
  <2> DEFINE i == From(s, p)
             j == From(s, q)
  <2>1. i \in DOMAIN s /\ j \in DOMAIN s /\ Rank(s, i) = p /\ Rank(s, j) = q
    BY FromRank
  <2>2. ~Precedes(s, j, i)
    BY <1>1, <2>1, RankOrder
  <2>3. Precedes(s, i, j)
    BY <1>1, <2>1, <2>2, PrecedesTotal
  <2> QED
    BY <2>1, <2>3 DEF Precedes, Indexed
<1>2. SortedByIndex(SortByIndex(s))
  BY <1>1, FromRank DEF SortedByIndex
<1>3. \A i, j \in DOMAIN s :
          i < j /\ s[i].index = s[j].index => Rank(s, i) < Rank(s, j)
  BY RankOrder DEF Precedes
<1> QED
  BY <1>2, <1>3

\* A sequence in order is left as it is.
THEOREM SortKeepsSorted ==
    ASSUME NEW T, NEW s \in Seq(T), Indexed(s), SortedByIndex(s)
    PROVE  SortByIndex(s) = s
<1>1. ASSUME NEW i \in DOMAIN s PROVE Rank(s, i) = i
  <2>1. i \in 1 .. Len(s) /\ DOMAIN s = 1 .. Len(s) /\ Len(s) \in Nat
    OBVIOUS
  <2>2. Before(s, i) = 1 .. (i - 1)
    BY <2>1 DEF Before, Precedes, Indexed, SortedByIndex
  <2>3. Cardinality(1 .. (i - 1)) = i - 1
    BY <2>1, FS_Interval
  <2>4. Rank(s, i) = 1 + Cardinality(Before(s, i))
    BY DEF Rank, Before
  <2> QED
    BY <2>1, <2>2, <2>3, <2>4
<1>2. \A i \in DOMAIN s : From(s, i) = i
  BY <1>1, FromRank
<1>3. SortByIndex(s) = [i \in 1 .. Len(s) |-> s[i]]
  BY <1>2, FromRank
<1> QED
  BY <1>3

----------------------------------------------------------------------------
(* The elements at some of the places                                      *)

Place(P, i) == Cardinality({j \in P : j <= i})
Nth(P, k)   == CHOOSE i \in P : Place(P, i) = k

\* The places up to one of them.
LEMMA PlaceType ==
    ASSUME NEW n \in Nat, NEW P \in SUBSET (1 .. n), NEW i \in P
    PROVE  /\ IsFiniteSet(P) /\ Cardinality(P) \in Nat
           /\ IsFiniteSet({j \in P : j <= i})
           /\ Place(P, i) \in 1 .. Cardinality(P)
<1> DEFINE S == {j \in P : j <= i}
<1>1. IsFiniteSet(1 .. n)
  BY FS_Interval
<1>2. IsFiniteSet(P) /\ Cardinality(P) \in Nat
  BY <1>1, FS_Subset, FS_CardinalityType
<1>3. S \subseteq P /\ i \in S
  OBVIOUS
<1>4. IsFiniteSet(S) /\ Cardinality(S) \in Nat /\ Cardinality(S) <= Cardinality(P)
  BY <1>2, <1>3, FS_Subset, FS_CardinalityType
<1>5. Cardinality(S) # 0
  <2>1. S # {}
    BY <1>3
  <2> QED
    BY <1>4, <2>1, FS_EmptySet
<1>6. Place(P, i) = Cardinality(S)
  BY DEF Place
<1> HIDE DEF S
<1>7. Place(P, i) \in 1 .. Cardinality(P)
  BY <1>2, <1>4, <1>5, <1>6
<1> QED
  BY <1>2, <1>4, <1>7 DEF S

\* They are in order.
LEMMA PlaceOrder ==
    ASSUME NEW n \in Nat, NEW P \in SUBSET (1 .. n), NEW i \in P, NEW j \in P, i < j
    PROVE  Place(P, i) < Place(P, j)
<1> DEFINE S == {k \in P : k <= i}
           R == {k \in P : k <= j}
<1>1. S \subseteq R /\ j \in R /\ j \notin S
  <2>1. \A k \in P : k \in Nat
    OBVIOUS
  <2>2. j <= j /\ ~(j <= i)
    BY <2>1
  <2>3. ASSUME NEW k \in S PROVE k \in R
    <3>1. k \in P /\ k <= i
      OBVIOUS
    <3>2. k <= j
      BY <2>1, <3>1
    <3> QED
      BY <3>1, <3>2
  <2> QED
    BY <2>2, <2>3
<1>2. IsFiniteSet(S) /\ IsFiniteSet(R)
  BY PlaceType
<1>3. /\ Cardinality(S) <= Cardinality(R) /\ Cardinality(S) # Cardinality(R)
      /\ Cardinality(S) \in Nat /\ Cardinality(R) \in Nat
  BY <1>1, <1>2, FS_Subset, FS_CardinalityType
<1>4. Place(P, i) = Cardinality(S) /\ Place(P, j) = Cardinality(R)
  BY DEF Place
<1> HIDE DEF S, R
<1> QED
  BY <1>3, <1>4

\* The k-th of the places is the one with k places up to it.
LEMMA NthPlace ==
    ASSUME NEW n \in Nat, NEW P \in SUBSET (1 .. n)
    PROVE  /\ Cardinality(P) \in Nat
           /\ \A k \in 1 .. Cardinality(P) : Nth(P, k) \in P /\ Place(P, Nth(P, k)) = k
           /\ \A i \in P : Place(P, i) \in 1 .. Cardinality(P) /\ Nth(P, Place(P, i)) = i
           /\ \A k, l \in 1 .. Cardinality(P) : k < l => Nth(P, k) < Nth(P, l)
<1> DEFINE f == [i \in P |-> Place(P, i)]
           D == 1 .. Cardinality(P)
<1>1. IsFiniteSet(1 .. n)
  BY FS_Interval
<1>2. IsFiniteSet(P) /\ Cardinality(P) \in Nat
  BY <1>1, FS_Subset, FS_CardinalityType
<1>3. \A i \in P : Place(P, i) \in D
  BY PlaceType
<1>4. ASSUME NEW i \in P, NEW j \in P, Place(P, i) = Place(P, j), i # j
      PROVE  FALSE
  <2>1. i < j \/ j < i
    BY <1>4
  <2>2. Place(P, i) < Place(P, j) \/ Place(P, j) < Place(P, i)
    BY <2>1, PlaceOrder
  <2>3. Place(P, i) \in Nat
    BY <1>2, <1>3
  <2> QED
    BY <1>4, <2>2, <2>3
<1>5. f \in Injection(P, D)
  BY <1>3, <1>4 DEF Injection, IsInjective
<1>6. IsFiniteSet(D) /\ Cardinality(D) = Cardinality(P)
  BY <1>2, FS_Interval
<1>7. f \in Surjection(P, D)
  BY <1>5, <1>6, FS_Injection
<1>8. \A k \in D : \E i \in P : Place(P, i) = k
  BY <1>7 DEF Surjection
<1>9. \A k \in D : Nth(P, k) \in P /\ Place(P, Nth(P, k)) = k
  BY <1>8 DEF Nth
<1>10. \A i \in P : Nth(P, Place(P, i)) = i
  BY <1>3, <1>4, <1>9
<1>11. ASSUME NEW k \in D, NEW l \in D, k < l PROVE Nth(P, k) < Nth(P, l)
  <2>1. Nth(P, k) \in P /\ Nth(P, l) \in P /\ Place(P, Nth(P, k)) = k /\ Place(P, Nth(P, l)) = l
    BY <1>9
  <2>2. Nth(P, k) # Nth(P, l) /\ ~(Nth(P, l) < Nth(P, k))
    <3>1. Nth(P, l) < Nth(P, k) => l < k
      BY <2>1, PlaceOrder
    <3> QED
      BY <1>2, <1>11, <2>1, <3>1
  <2>3. Nth(P, k) \in Nat /\ Nth(P, l) \in Nat
    <3>1. \A i \in P : i \in Nat
      OBVIOUS
    <3> QED
      BY <2>1, <3>1, Zenon
  <2> QED
    BY <2>2, <2>3
<1> QED
  BY <1>2, <1>3, <1>9, <1>10, <1>11

\* What is kept of a sequence: each element at a place of P once, in order.
THEOREM KeepIs ==
    ASSUME NEW T, NEW s \in Seq(T), NEW P \in SUBSET DOMAIN s
    PROVE  /\ Keep(s, P) \in Seq(T) /\ Len(Keep(s, P)) = Cardinality(P)
           /\ \A k \in 1 .. Cardinality(P) : Nth(P, k) \in P /\ Keep(s, P)[k] = s[Nth(P, k)]
           /\ \E f \in Bijection(P, DOMAIN Keep(s, P)) : \A i \in P : Keep(s, P)[f[i]] = s[i]
<1> DEFINE D == 1 .. Cardinality(P)
           f == [i \in P |-> Place(P, i)]
<1>1. DOMAIN s = 1 .. Len(s) /\ Len(s) \in Nat
  OBVIOUS
<1>2. /\ Cardinality(P) \in Nat
      /\ \A k \in D : Nth(P, k) \in P /\ Place(P, Nth(P, k)) = k
      /\ \A i \in P : Place(P, i) \in D /\ Nth(P, Place(P, i)) = i
  BY <1>1, NthPlace
<1>3. Keep(s, P) = [k \in D |-> s[Nth(P, k)]]
  BY DEF Keep, Nth, Place
<1>4. \A k \in D : s[Nth(P, k)] \in T
  BY <1>2
<1>5. Keep(s, P) \in Seq(T) /\ Len(Keep(s, P)) = Cardinality(P) /\ DOMAIN Keep(s, P) = D
  BY <1>2, <1>3, <1>4
<1>6. f \in Injection(P, D) /\ f \in Surjection(P, D)
  <2>1. f \in [P -> D]
    BY <1>2
  <2>2. \A i, j \in P : f[i] = f[j] => i = j
    BY <1>2
  <2>3. \A k \in D : \E i \in P : f[i] = k
    BY <1>2
  <2> QED
    BY <2>1, <2>2, <2>3 DEF Injection, IsInjective, Surjection
<1>7. f \in Bijection(P, DOMAIN Keep(s, P))
  BY <1>5, <1>6 DEF Bijection
<1>8. \A i \in P : Keep(s, P)[f[i]] = s[i]
  <2>1. ASSUME NEW i \in P PROVE Keep(s, P)[f[i]] = s[i]
    <3>1. Place(P, i) \in D /\ Nth(P, Place(P, i)) = i
      BY <1>2
    <3>2. Keep(s, P)[Place(P, i)] = s[i]
      BY <1>3, <3>1
    <3>3. f[i] = Place(P, i)
      OBVIOUS
    <3> QED
      BY <3>2, <3>3, Zenon
  <2> QED
    BY <2>1, Zenon
<1> QED
  BY <1>2, <1>3, <1>5, <1>7, <1>8
============================================================================
