---------------------------- MODULE OrderLemmas ----------------------------
(***************************************************************************)
(* Numbers and places in their order: the least and the greatest of a set  *)
(* of numbers, and what a sublist is, for every list and every set of      *)
(* places.  The number of places up to one of them, its rank, is a         *)
(* bijection that respects the order; all else follows.                    *)
(***************************************************************************)
EXTENDS Sublists, FiniteSetTheorems, FunctionTheorems, SequenceTheorems,
        WellFoundedInduction, TLAPS

---------------------------------------------------------------------------
(* Least and greatest numbers.                                             *)

\* A set of natural numbers has a least element.
LEMMA HasLeast ==
    ASSUME NEW S, S \subseteq Nat, S # {}
    PROVE  \E m \in S : \A n \in S : m <= n
<1>1. \E x \in S : \A y \in S : ~ (<<y, x>> \in OpToRel(<, Nat))
  BY NatLessThanWellFounded, WFMin
<1>2. PICK x \in S : \A y \in S : ~ (<<y, x>> \in OpToRel(<, Nat))
  BY <1>1
<1>3. \A y \in S : ~ (y < x)
  BY <1>2 DEF OpToRel
<1>4. QED
  BY <1>3

\* A set of natural numbers with a bound has a greatest element.
LEMMA HasGreatest ==
    ASSUME NEW b \in Nat, NEW S \in SUBSET Nat, \A n \in S : n <= b, S # {}
    PROVE  \E m \in S : \A n \in S : n <= m
<1> DEFINE T == {b - n : n \in S}
<1>0. \A n \in S : n \in Nat /\ b - n \in Nat
  OBVIOUS
<1>1. T \subseteq Nat /\ T # {}
  BY <1>0
<1>2. PICK t \in T : \A u \in T : t <= u
  BY <1>1, HasLeast
<1>3. PICK m \in S : t = b - m
  OBVIOUS
<1>4. \A n \in S : n <= m
  BY <1>0, <1>2, <1>3
<1>5. QED
  BY <1>4

---------------------------------------------------------------------------
(* Sublists: the places in their order, each once.                         *)

\* I are places of some list.
ArePlaces(I) == \E n \in Nat : I \in SUBSET (1..n)

\* f lists the places of I in their order.
Lists(f, m, I) ==
    /\ f \in [1..m -> I]
    /\ \A k, l \in 1..m : k < l => f[k] < f[l]
    /\ \A i \in I : \E k \in 1..m : f[k] = i

\* The rank of a place counts up to the number of places, and grows with it.
LEMMA NthGrows ==
    ASSUME NEW n \in Nat, NEW I \in SUBSET (1..n)
    PROVE  /\ IsFiniteSet(I) /\ Cardinality(I) \in Nat /\ Cardinality(I) <= n
           /\ \A i \in I : Nth(I, i) \in 1..Cardinality(I)
           /\ \A i, j \in I : i < j => Nth(I, i) < Nth(I, j)
<1>. DEFINE Upto(i) == {j \in I : j <= i}
<1>1. IsFiniteSet(1..n) /\ Cardinality(1..n) = n
  BY FS_Interval
<1>2. IsFiniteSet(I) /\ Cardinality(I) \in Nat /\ Cardinality(I) <= n
  BY <1>1, FS_Subset, FS_CardinalityType
<1>3. ASSUME NEW i \in I
      PROVE  /\ IsFiniteSet(Upto(i)) /\ Cardinality(Upto(i)) \in Nat
             /\ Nth(I, i) = Cardinality(Upto(i))
             /\ Nth(I, i) \in 1..Cardinality(I)
  <2>1. Upto(i) \in SUBSET I /\ i \in Upto(i)
    OBVIOUS
  <2>2. /\ IsFiniteSet(Upto(i)) /\ Cardinality(Upto(i)) \in Nat
        /\ Cardinality(Upto(i)) <= Cardinality(I)
    BY <1>2, <2>1, FS_Subset, FS_CardinalityType
  <2>3. Cardinality(Upto(i)) # 0
    BY <2>1, <2>2, FS_EmptySet
  <2>. QED  BY <1>2, <2>2, <2>3 DEF Nth
<1>4. ASSUME NEW i \in I, NEW j \in I, i < j
      PROVE  Nth(I, i) < Nth(I, j)
  <2>1. Upto(i) \in SUBSET Upto(j)
    <3>1. i \in Int /\ j \in Int /\ \A h \in I : h \in Int
      OBVIOUS
    <3>2. \A h \in I : h <= i => h <= j
      BY <1>4, <3>1
    <3>. QED  BY <3>2
  <2>2. j \in Upto(j) /\ j \notin Upto(i)
    BY <1>4
  <2>3. Cardinality(Upto(i)) <= Cardinality(Upto(j))
    BY <1>3, <2>1, FS_Subset
  <2>4. Cardinality(Upto(i)) # Cardinality(Upto(j))
    BY <1>3, <2>1, <2>2, FS_Subset
  <2>. QED  BY <1>3, <2>3, <2>4
<1>. QED  BY <1>2, <1>3, <1>4

\* As many names as there are places to name are not too many to count.
LEMMA NamedFinite ==
    ASSUME NEW n \in Nat, NEW f, NEW T, \A c \in T : \E i \in 1..n : f[i] = c
    PROVE  IsFiniteSet(T) /\ Cardinality(T) \in Nat
<1>. DEFINE R == {f[i] : i \in 1..n}
            g == [i \in 1..n |-> f[i]]
<1>1. g \in Surjection(1..n, R)
  BY DEF Surjection
<1>2. IsFiniteSet(1..n)
  BY FS_Interval
<1>3. IsFiniteSet(R)
  BY <1>1, <1>2, FS_Surjection
<1>4. T \in SUBSET R
  OBVIOUS
<1>. QED  BY <1>3, <1>4, FS_Subset, FS_CardinalityType

\* Each number up to that of the places is the rank of one place.
LEMMA NthHits ==
    ASSUME NEW n \in Nat, NEW I \in SUBSET (1..n), NEW k \in 1..Cardinality(I)
    PROVE  \E i \in I : Nth(I, i) = k
<1>. DEFINE c == Cardinality(I)
            f == [i \in I |-> Nth(I, i)]
<1>1. /\ IsFiniteSet(I) /\ c \in Nat
      /\ \A i \in I : Nth(I, i) \in 1..c
      /\ \A i, j \in I : i < j => Nth(I, i) < Nth(I, j)
  BY NthGrows
<1>. HIDE DEF c
<1>2. f \in [I -> 1..c]
  BY <1>1
<1>3. \A i, j \in I : f[i] = f[j] => i = j
  <2>. SUFFICES ASSUME NEW i \in I, NEW j \in I, Nth(I, i) = Nth(I, j), i # j
                PROVE  FALSE
    OBVIOUS
  <2>1. i < j \/ j < i
    OBVIOUS
  <2>2. Nth(I, i) \in Int
    BY <1>1
  <2>. QED  BY <1>1, <2>1, <2>2
<1>4. f \in Injection(I, 1..c)
  BY <1>2, <1>3 DEF Injection, IsInjective
<1>5. IsFiniteSet(1..c) /\ Cardinality(1..c) = c
  BY <1>1, FS_Interval
<1>6. f \in Surjection(I, 1..c)
  BY <1>4, <1>5, FS_Injection DEF c
<1>. QED  BY <1>6 DEF Surjection, c

\* The places in their order are just that.
THEOREM PlacesInOrder ==
    ASSUME NEW n \in Nat, NEW I \in SUBSET (1..n)
    PROVE  /\ Cardinality(I) \in Nat /\ Cardinality(I) <= n
           /\ \A k \in 1..Cardinality(I) : Place(I, k) \in I
           /\ \A k, l \in 1..Cardinality(I) : k < l => Place(I, k) < Place(I, l)
           /\ \A i \in I : \E k \in 1..Cardinality(I) : Place(I, k) = i
<1>1. /\ Cardinality(I) \in Nat /\ Cardinality(I) <= n
      /\ \A i \in I : Nth(I, i) \in 1..Cardinality(I)
      /\ \A i, j \in I : i < j => Nth(I, i) < Nth(I, j)
  BY NthGrows
<1>2. ASSUME NEW k \in 1..Cardinality(I)
      PROVE  Place(I, k) \in I /\ Nth(I, Place(I, k)) = k
  BY NthHits DEF Place
<1>6. \A i \in I : i \in Int
  OBVIOUS
<1>3. ASSUME NEW i \in I, NEW j \in I, Nth(I, i) <= Nth(I, j)
      PROVE  i <= j
  <2>1. Nth(I, i) \in Int /\ Nth(I, j) \in Int
    BY <1>1
  <2>. QED  BY <1>1, <1>3, <2>1
<1>4. ASSUME NEW k \in 1..Cardinality(I), NEW l \in 1..Cardinality(I), k < l
      PROVE  Place(I, k) < Place(I, l)
  <2>1. Place(I, k) <= Place(I, l)
    <3>1. k <= l
      BY <1>1, <1>4
    <3>. QED  BY <1>2, <1>3, <3>1
  <2>2. Place(I, k) # Place(I, l)
    BY <1>1, <1>2, <1>4
  <2>3. Place(I, k) \in Int /\ Place(I, l) \in Int
    BY <1>2, <1>6
  <2>. QED  BY <2>1, <2>2, <2>3
<1>5. ASSUME NEW i \in I
      PROVE  \E k \in 1..Cardinality(I) : Place(I, k) = i
  <2>1. Nth(I, i) \in 1..Cardinality(I)
    BY <1>1
  <2>. DEFINE j == Place(I, Nth(I, i))
  <2>2. j \in I /\ Nth(I, j) = Nth(I, i)
    BY <1>2, <2>1
  <2>. HIDE DEF j
  <2>3. j <= i /\ i <= j
    <3>1. Nth(I, i) \in Int
      BY <2>1
    <3>. QED  BY <1>3, <2>2, <3>1
  <2>4. j = i
    BY <2>2, <2>3
  <2>. QED  BY <2>1, <2>4 DEF j
<1>. QED  BY <1>1, <1>2, <1>4, <1>5

\* A list of the places in their order is the only one.
THEOREM OneOrder ==
    ASSUME NEW I, ArePlaces(I), NEW m \in Nat, NEW f, Lists(f, m, I)
    PROVE  m = Cardinality(I) /\ \A k \in 1..m : f[k] = Place(I, k)
<1>. PICK n \in Nat : I \in SUBSET (1..n)
  BY DEF ArePlaces
<1>1. /\ f \in [1..m -> I]
      /\ \A k, l \in 1..m : k < l => f[k] < f[l]
      /\ \A i \in I : \E k \in 1..m : f[k] = i
  BY DEF Lists
<1>6. \A k \in 1..m : f[k] \in I /\ f[k] \in Int
  <2>1. \A i \in I : i \in Int
    OBVIOUS
  <2>. QED  BY <1>1, <2>1
<1>2. \A k, l \in 1..m : f[k] <= f[l] <=> k <= l
  <2>. SUFFICES ASSUME NEW k \in 1..m, NEW l \in 1..m
                PROVE  f[k] <= f[l] <=> k <= l
    OBVIOUS
  <2>1. f[k] \in Int /\ f[l] \in Int
    BY <1>6
  <2>2. k < l \/ k = l \/ l < k
    OBVIOUS
  <2>. QED  BY <1>1, <2>1, <2>2
<1>3. ASSUME NEW k \in 0..m, NEW J,
             J = {i \in I : \E l \in 1..k : f[l] = i}
      PROVE  Cardinality(J) = k
  <2>. DEFINE g == [l \in 1..k |-> f[l]]
  <2>1. 1..k \subseteq 1..m
    OBVIOUS
  <2>2. g \in [1..k -> J]
    BY <1>1, <1>3, <2>1
  <2>3. \A a, b \in 1..k : g[a] = g[b] => a = b
    <3>. SUFFICES ASSUME NEW a \in 1..k, NEW b \in 1..k, f[a] = f[b]
                  PROVE  a = b
      OBVIOUS
    <3>1. a \in 1..m /\ b \in 1..m /\ f[a] \in Int /\ f[b] \in Int
      BY <1>6, <2>1
    <3>. QED  BY <1>2, <3>1
  <2>4. \A i \in J : \E l \in 1..k : g[l] = i
    BY <1>3
  <2>5. g \in Bijection(1..k, J)
    BY <2>2, <2>3, <2>4 DEF Bijection, Injection, Surjection, IsInjective
  <2>6. IsFiniteSet(1..k) /\ Cardinality(1..k) = k
    BY FS_Interval
  <2>. QED  BY <2>5, <2>6, FS_Bijection DEF ExistsBijection
<1>4. m = Cardinality(I)
  <2>1. I = {i \in I : \E l \in 1..m : f[l] = i}
    BY <1>1
  <2>2. m \in 0..m
    OBVIOUS
  <2>. QED  BY <1>3, <2>1, <2>2
<1>5. ASSUME NEW k \in 1..m
      PROVE  f[k] = Place(I, k)
  <2>1. f[k] \in I /\ k \in 0..m
    BY <1>1
  <2>2. {j \in I : j <= f[k]} = {i \in I : \E l \in 1..k : f[l] = i}
    <3>1. ASSUME NEW j \in I, j <= f[k]
          PROVE  \E l \in 1..k : f[l] = j
      <4>1. PICK l \in 1..m : f[l] = j
        BY <1>1
      <4>. QED  BY <1>2, <3>1, <4>1
    <3>2. ASSUME NEW j \in I, NEW l \in 1..k, f[l] = j
          PROVE  j <= f[k]
      <4>1. l \in 1..m /\ l <= k
        OBVIOUS
      <4>. QED  BY <1>2, <3>2, <4>1
    <3>. QED  BY <3>1, <3>2
  <2>3. Nth(I, f[k]) = k
    BY <1>3, <2>1, <2>2 DEF Nth
  <2>4. PICK l \in 1..Cardinality(I) : Place(I, l) = f[k]
    BY <2>1, PlacesInOrder
  <2>5. Nth(I, Place(I, l)) = l
    BY NthHits DEF Place
  <2>. QED  BY <2>3, <2>4, <2>5
<1>. QED  BY <1>4, <1>5

---------------------------------------------------------------------------
(* Sublists.                                                               *)

\* A sublist is a list of elements of the longer one.
THEOREM SublistType ==
    ASSUME NEW S, NEW s \in Seq(S), NEW I \in SUBSET DOMAIN s
    PROVE  /\ Sublist(s, I) \in Seq(S)
           /\ Len(Sublist(s, I)) = Cardinality(I) /\ Cardinality(I) <= Len(s)
           /\ DOMAIN Sublist(s, I) = 1..Cardinality(I)
           /\ Cardinality(I) \in Nat
           /\ \A k \in 1..Cardinality(I) : /\ Place(I, k) \in I
                                           /\ Sublist(s, I)[k] = s[Place(I, k)]
           /\ \A i \in I : \E k \in 1..Cardinality(I) : Place(I, k) = i
           /\ \A k, l \in 1..Cardinality(I) : k < l => Place(I, k) < Place(I, l)
<1>1. Len(s) \in Nat /\ DOMAIN s = 1..Len(s) /\ \A i \in DOMAIN s : s[i] \in S
  BY LenProperties, ElementOfSeq
<1>2. /\ Cardinality(I) \in Nat /\ Cardinality(I) <= Len(s)
      /\ \A k \in 1..Cardinality(I) : Place(I, k) \in I
      /\ \A k, l \in 1..Cardinality(I) : k < l => Place(I, k) < Place(I, l)
      /\ \A i \in I : \E k \in 1..Cardinality(I) : Place(I, k) = i
  BY <1>1, PlacesInOrder
<1>. DEFINE c == Cardinality(I)
<1>3. Sublist(s, I) = [k \in 1..c |-> s[Place(I, k)]]
  BY DEF Sublist
<1>. HIDE DEF c
<1>4. Sublist(s, I) \in [1..c -> S]
  BY <1>1, <1>2, <1>3 DEF c
<1>5. Sublist(s, I) \in Seq(S) /\ Len(Sublist(s, I)) = c
  BY <1>2, <1>4 DEF c
<1>. QED  BY <1>2, <1>3, <1>4, <1>5 DEF c

\* Two lists that take the same places in their order are equal.
THEOREM SublistIs ==
    ASSUME NEW S, NEW s \in Seq(S), NEW I \in SUBSET DOMAIN s,
           NEW t \in Seq(S), NEW f, Lists(f, Len(t), I),
           \A k \in 1..Len(t) : t[k] = s[f[k]]
    PROVE  t = Sublist(s, I)
<1>1. Len(s) \in Nat /\ DOMAIN s = 1..Len(s) /\ Len(t) \in Nat
  BY LenProperties
<1>2. Len(t) = Cardinality(I) /\ \A k \in 1..Len(t) : f[k] = Place(I, k)
  <2>1. ArePlaces(I)
    BY <1>1 DEF ArePlaces
  <2>. QED  BY <1>1, <2>1, OneOrder
<1>3. /\ Sublist(s, I) \in Seq(S) /\ Len(Sublist(s, I)) = Cardinality(I)
      /\ \A k \in 1..Cardinality(I) : Sublist(s, I)[k] = s[Place(I, k)]
  BY SublistType
<1>. QED  BY <1>2, <1>3, SeqEqual

\* What is kept of all is all.
THEOREM SublistAll ==
    ASSUME NEW S, NEW s \in Seq(S)
    PROVE  Sublist(s, DOMAIN s) = s
<1>. DEFINE f == [k \in 1..Len(s) |-> k]
<1>1. DOMAIN s = 1..Len(s) /\ Len(s) \in Nat
  BY LenProperties
<1>2. Lists(f, Len(s), DOMAIN s)
  BY <1>1 DEF Lists
<1>. QED  BY <1>2, SublistIs

\* A sublist of a sublist is one of the list: the places of both choices.
THEOREM SublistTwice ==
    ASSUME NEW S, NEW s \in Seq(S), NEW I \in SUBSET DOMAIN s,
           NEW J \in SUBSET DOMAIN Sublist(s, I),
           NEW K \in SUBSET DOMAIN s,
           \A i \in DOMAIN s : i \in K <=> \E j \in J : Place(I, j) = i
    PROVE  Sublist(Sublist(s, I), J) = Sublist(s, K)
<1>. DEFINE t == Sublist(s, I)
            u == Sublist(t, J)
            f == [k \in 1..Len(u) |-> Place(I, Place(J, k))]
<1>1. /\ t \in Seq(S) /\ DOMAIN t = 1..Cardinality(I)
      /\ \A k \in 1..Cardinality(I) : Place(I, k) \in I /\ t[k] = s[Place(I, k)]
      /\ \A k, l \in 1..Cardinality(I) : k < l => Place(I, k) < Place(I, l)
  BY SublistType
<1>. HIDE DEF t
<1>2. /\ u \in Seq(S) /\ Len(u) = Cardinality(J)
      /\ \A k \in 1..Cardinality(J) : Place(J, k) \in J /\ u[k] = t[Place(J, k)]
      /\ \A k, l \in 1..Cardinality(J) : k < l => Place(J, k) < Place(J, l)
  BY <1>1, SublistType DEF t
<1>3. \A j \in J : \E k \in 1..Cardinality(J) : Place(J, k) = j
  <2>1. Len(t) \in Nat /\ DOMAIN t = 1..Len(t)
    BY <1>1, LenProperties
  <2>. QED  BY <2>1, PlacesInOrder DEF t
<1>. HIDE DEF u
<1>4. ASSUME NEW k \in 1..Len(u)
      PROVE  f[k] \in K /\ u[k] = s[f[k]]
  <2>1. Place(J, k) \in J /\ Place(J, k) \in 1..Cardinality(I)
    BY <1>1, <1>2 DEF t
  <2>. QED  BY <1>1, <1>2, <2>1
<1>5. ASSUME NEW k \in 1..Len(u), NEW l \in 1..Len(u), k < l
      PROVE  f[k] < f[l]
  <2>1. Place(J, k) \in 1..Cardinality(I) /\ Place(J, l) \in 1..Cardinality(I)
    BY <1>1, <1>2 DEF t
  <2>. QED  BY <1>1, <1>2, <1>5, <2>1
<1>6. ASSUME NEW i \in K
      PROVE  \E k \in 1..Len(u) : f[k] = i
  <2>1. PICK j \in J : Place(I, j) = i
    OBVIOUS
  <2>2. PICK k \in 1..Len(u) : Place(J, k) = j
    BY <1>2, <1>3
  <2>. QED  BY <2>1, <2>2
<1>7. Lists(f, Len(u), K)
  BY <1>4, <1>5, <1>6 DEF Lists
<1>. HIDE DEF f
<1>8. u = Sublist(s, K)
  BY <1>2, <1>4, <1>7, SublistIs
<1>. QED  BY <1>8 DEF u, t

\* The same, for a choice from the places of the first.
THEOREM SublistWithin ==
    ASSUME NEW S, NEW s \in Seq(S), NEW I \in SUBSET DOMAIN s, NEW K \in SUBSET I,
           NEW J, J = {k \in DOMAIN Sublist(s, I) : Place(I, k) \in K}
    PROVE  Sublist(Sublist(s, I), J) = Sublist(s, K)
<1>1. /\ DOMAIN Sublist(s, I) = 1..Cardinality(I)
      /\ \A i \in I : \E k \in 1..Cardinality(I) : Place(I, k) = i
  BY SublistType
<1>2. \A i \in DOMAIN s : i \in K <=> \E j \in J : Place(I, j) = i
  BY <1>1
<1>3. J \in SUBSET DOMAIN Sublist(s, I) /\ K \in SUBSET DOMAIN s
  OBVIOUS
<1>. QED  BY <1>2, <1>3, SublistTwice

\* A list that grows by an element, which is kept or not.
THEOREM SublistAppend ==
    ASSUME NEW S, NEW s \in Seq(S), NEW e \in S, NEW I \in SUBSET DOMAIN s
    PROVE  /\ Sublist(Append(s, e), I) = Sublist(s, I)
           /\ Sublist(Append(s, e), I \union {Len(s) + 1}) = Append(Sublist(s, I), e)
<1>. DEFINE m == Len(s) + 1
            J == I \union {m}
<1>1. PICK a, t : a = Append(s, e) /\ t = Sublist(s, I)
  OBVIOUS
<1>2. /\ a \in Seq(S) /\ Len(a) = Len(s) + 1 /\ Len(s) \in Nat
      /\ \A i \in 1..Len(s) : a[i] = s[i]
      /\ a[Len(s) + 1] = e
      /\ DOMAIN s = 1..Len(s) /\ DOMAIN a = 1..Len(a)
  BY <1>1, AppendProperties, LenProperties
<1>3. /\ t \in Seq(S) /\ Len(t) \in Nat /\ Len(t) = Cardinality(I)
      /\ \A k \in 1..Len(t) : Place(I, k) \in I /\ t[k] = s[Place(I, k)]
      /\ \A k, l \in 1..Len(t) : k < l => Place(I, k) < Place(I, l)
      /\ \A i \in I : \E k \in 1..Len(t) : Place(I, k) = i
  BY <1>1, SublistType
<1>4. \A i \in I : i \in 1..Len(s) /\ i \in Int /\ i < m
  BY <1>2
<1>5. I \in SUBSET DOMAIN a /\ J \in SUBSET DOMAIN a
  BY <1>2, <1>4
<1>6. Sublist(a, I) = t
  <2>. DEFINE f == [k \in 1..Len(t) |-> Place(I, k)]
  <2>1. Lists(f, Len(t), I)
    BY <1>3 DEF Lists
  <2>2. \A k \in 1..Len(t) : t[k] = a[f[k]]
    BY <1>2, <1>3, <1>4
  <2>. HIDE DEF f
  <2>. QED  BY <1>2, <1>3, <1>5, <2>1, <2>2, SublistIs
<1>7. Sublist(a, J) = Append(t, e)
  <2>1. PICK u : u = Append(t, e)
    OBVIOUS
  <2>2. /\ u \in Seq(S) /\ Len(u) = Len(t) + 1
        /\ \A k \in 1..Len(t) : u[k] = t[k]
        /\ u[Len(t) + 1] = e
    BY <1>3, <2>1, AppendProperties
  <2>. DEFINE g == [k \in 1..Len(u) |-> IF k = Len(u) THEN m ELSE Place(I, k)]
  <2>3. \A k \in 1..Len(u) : k # Len(u) => k \in 1..Len(t)
    BY <1>3, <2>2
  <2>4. Len(u) \in 1..Len(u) /\ \A k \in 1..Len(t) : k \in 1..Len(u) /\ k # Len(u)
    BY <1>3, <2>2
  <2>5. g \in [1..Len(u) -> J]
    BY <1>3, <2>3
  <2>6. ASSUME NEW k \in 1..Len(u), NEW l \in 1..Len(u), k < l
        PROVE  g[k] < g[l]
    <3>1. k # Len(u) /\ k \in 1..Len(t)
      BY <1>3, <2>2, <2>6
    <3>2. g[k] = Place(I, k) /\ Place(I, k) \in I
      BY <1>3, <3>1
    <3>3. CASE l = Len(u)
      BY <1>4, <3>2, <3>3
    <3>4. CASE l # Len(u)
      <4>1. l \in 1..Len(t) /\ g[l] = Place(I, l)
        BY <2>3, <3>4
      <4>. QED  BY <1>3, <2>6, <3>1, <3>2, <4>1
    <3>. QED  BY <3>3, <3>4
  <2>7. ASSUME NEW i \in J
        PROVE  \E k \in 1..Len(u) : g[k] = i
    <3>1. CASE i = m
      BY <2>4, <3>1
    <3>2. CASE i \in I
      <4>1. PICK k \in 1..Len(t) : Place(I, k) = i
        BY <1>3, <3>2
      <4>. QED  BY <2>4, <4>1
    <3>. QED  BY <3>1, <3>2
  <2>8. \A k \in 1..Len(u) : u[k] = a[g[k]]
    <3>1. TAKE k \in 1..Len(u)
    <3>2. CASE k = Len(u)
      BY <1>2, <2>2, <3>2
    <3>3. CASE k # Len(u)
      <4>1. k \in 1..Len(t) /\ g[k] = Place(I, k)
        BY <2>3, <3>3
      <4>. QED  BY <1>2, <1>3, <1>4, <2>2, <4>1
    <3>. QED  BY <3>2, <3>3
  <2>. HIDE DEF g
  <2>9. Lists(g, Len(u), J)
    BY <2>5, <2>6, <2>7 DEF Lists
  <2>10. Sublist(a, J) = u
    <3>. HIDE DEF J
    <3>. QED  BY <1>2, <1>5, <2>2, <2>8, <2>9, SublistIs
  <2>. QED  BY <2>1, <2>10
<1>. QED  BY <1>1, <1>6, <1>7
=============================================================================
