---------------------------- MODULE OrderLemmas ----------------------------
(***************************************************************************)
(* Facts about order in finite sets that the proofs of several modules     *)
(* need: least and greatest elements, the rank of an element, and what a   *)
(* set looks like that is listed in order.  Counting replaces induction:   *)
(* a rank is an injection of n elements into n numbers.                    *)
(***************************************************************************)
EXTENDS Integers, FiniteSets, Sequences, FiniteSetsExt, FiniteSetTheorems,
        WellFoundedInduction, TLAPS

-----------------------------------------------------------------------------
\* A non-empty set of naturals has a least element.
LEMMA HasLeast ==
  ASSUME NEW S \in SUBSET Nat, S # {}
  PROVE  \E i \in S : \A j \in S : i <= j
<1>1. PICK x \in S : \A y \in S : ~(<<y, x>> \in OpToRel(<, Nat))
  BY NatLessThanWellFounded, WFMin
<1>2. ASSUME NEW y \in S, y < x
      PROVE  FALSE
  <2>1. <<y, x>> \in OpToRel(<, Nat)
    BY <1>2 DEF OpToRel
  <2> QED BY <1>1, <2>1
<1> QED BY <1>2

\* And one that is bounded has a greatest.
LEMMA HasGreatest ==
  ASSUME NEW n \in Nat, NEW S \in SUBSET (0..n), S # {}
  PROVE  \E i \in S : \A j \in S : j <= i
<1> DEFINE T == {n - i : i \in S}
<1>1. T \in SUBSET Nat /\ T # {}
  <2>1. \A i \in S : n - i \in Nat
    OBVIOUS
  <2> QED BY <2>1
<1>2. \E d \in T : \A e \in T : d <= e
  <2> HIDE DEF T
  <2> QED BY <1>1, HasLeast
<1>3. PICK i \in S : \A e \in T : n - i <= e
  BY <1>2
<1>4. \A j \in S : n - i <= n - j
  BY <1>3
<1>5. \A j \in S : j <= i
  BY <1>4
<1> QED BY <1>5

\* Min is what it is called.
LEMMA MinIs ==
  ASSUME NEW S \in SUBSET Nat, S # {}
  PROVE  Min(S) \in S /\ \A j \in S : Min(S) <= j
BY HasLeast DEF Min

\* What a function makes of a finite set.
LEMMA FiniteImage ==
  ASSUME NEW S, IsFiniteSet(S), NEW f
  PROVE  IsFiniteSet({f[x] : x \in S})
<1> DEFINE T == {f[x] : x \in S}
           h == [x \in S |-> f[x]]
<1>1. h \in Surjection(S, T)
  BY DEF Surjection
<1> HIDE DEF h, T
<1>2. IsFiniteSet(T)
  BY <1>1, FS_Surjection
<1> QED BY <1>2 DEF T

-----------------------------------------------------------------------------
\* The elements of S that R puts before x.
Before(R, S, x) == {y \in S : <<y, x>> \in R}

\* R puts the elements of S in an order without ties.
Orders(R, S) ==
  /\ \A x \in S : <<x, x>> \notin R
  /\ \A x, y, z \in S : <<x, y>> \in R /\ <<y, z>> \in R => <<x, z>> \in R
  /\ \A x, y \in S : x = y \/ <<x, y>> \in R \/ <<y, x>> \in R

\* The place of an element in the order tells it, and all places are taken.
LEMMA Ranks ==
  ASSUME NEW S, IsFiniteSet(S), NEW R, Orders(R, S)
  PROVE  /\ \A x \in S : Cardinality(Before(R, S, x)) \in 0..Cardinality(S) - 1
         /\ \A x, y \in S : <<x, y>> \in R => Cardinality(Before(R, S, x)) < Cardinality(Before(R, S, y))
         /\ \A x, y \in S : Cardinality(Before(R, S, x)) = Cardinality(Before(R, S, y)) => x = y
         /\ \A k \in 0..Cardinality(S) - 1 : \E x \in S : Cardinality(Before(R, S, x)) = k
<1> DEFINE B(x) == Before(R, S, x)
           n == Cardinality(S)
           h == [x \in S |-> Cardinality(B(x))]
<1>1. n \in Nat
  BY FS_CardinalityType
<1>2. ASSUME NEW x \in S PROVE IsFiniteSet(B(x)) /\ Cardinality(B(x)) \in 0..n - 1
  <2>1. B(x) \in SUBSET (S \ {x})
    BY DEF Before, Orders
  <2>2. IsFiniteSet(S \ {x}) /\ Cardinality(S \ {x}) = n - 1
    BY FS_RemoveElement
  <2>3. IsFiniteSet(B(x)) /\ Cardinality(B(x)) <= n - 1
    BY <2>1, <2>2, FS_Subset
  <2> QED BY <1>1, <2>3, FS_CardinalityType
<1>3. ASSUME NEW x \in S, NEW y \in S, <<x, y>> \in R PROVE Cardinality(B(x)) < Cardinality(B(y))
  <2>1. B(x) \in SUBSET B(y) /\ x \in B(y) /\ x \notin B(x)
    BY <1>3 DEF Before, Orders
  <2>2. Cardinality(B(x)) <= Cardinality(B(y)) /\ Cardinality(B(x)) # Cardinality(B(y))
    BY <1>2, <2>1, FS_Subset
  <2> QED BY <1>2, <2>2
<1>4. ASSUME NEW x \in S, NEW y \in S, Cardinality(B(x)) = Cardinality(B(y)) PROVE x = y
  <2>1. ~(<<x, y>> \in R) /\ ~(<<y, x>> \in R)
    BY <1>2, <1>3, <1>4
  <2> QED BY <2>1 DEF Orders
<1>5. h \in Injection(S, 0..n - 1)
  <2>1. h \in [S -> 0..n - 1]
    BY <1>2
  <2>2. \A x, y \in S : h[x] = h[y] => x = y
    BY <1>4
  <2> HIDE DEF h
  <2> QED BY <2>1, <2>2 DEF Injection, IsInjective
<1>6. IsFiniteSet(0..n - 1) /\ Cardinality(0..n - 1) = n
  BY <1>1, FS_Interval
<1>7. h \in Surjection(S, 0..n - 1)
  <2> HIDE DEF h
  <2> QED BY <1>5, <1>6, FS_Injection
<1>8. \A k \in 0..n - 1 : \E x \in S : Cardinality(B(x)) = k
  BY <1>7 DEF Surjection
<1> QED BY <1>2, <1>3, <1>4, <1>8

\* The last fact by itself, as an operator that the provers leave alone.
HasRank(R, S, k) == k \in 0..Cardinality(S) - 1 => \E x \in S : Cardinality(Before(R, S, x)) = k

LEMMA RankTaken ==
  ASSUME NEW S, IsFiniteSet(S), NEW R, Orders(R, S)
  PROVE  \A k : HasRank(R, S, k)
BY Ranks DEF HasRank

\* The same, counting an element itself, for integers in their order.
Less(S) == {p \in S \X S : p[1] < p[2]}
UpTo(S, i) == {j \in S : j <= i}

LEMMA PlaceFacts ==
  ASSUME NEW S \in SUBSET Int, IsFiniteSet(S)
  PROVE  /\ Cardinality(S) \in Nat
         /\ \A i \in S : Cardinality(UpTo(S, i)) \in 1..Cardinality(S)
         /\ \A i, j \in S : i < j <=> Cardinality(UpTo(S, i)) < Cardinality(UpTo(S, j))
         /\ \A k \in 1..Cardinality(S) : \E i \in S : Cardinality(UpTo(S, i)) = k
<1> DEFINE B(i) == Before(Less(S), S, i)
           n == Cardinality(S)
           c(i) == Cardinality(B(i))
<1>0. \A i \in S : i \in Int
  OBVIOUS
<1>1. n \in Nat
  BY FS_CardinalityType
<1>2. \A i, j \in S : <<i, j>> \in Less(S) <=> i < j
  BY DEF Less
<1>3. Orders(Less(S), S)
  <2> QED BY <1>0, <1>2 DEF Orders
<1>4. ASSUME NEW i \in S PROVE Cardinality(UpTo(S, i)) = c(i) + 1
  <2>1. UpTo(S, i) = B(i) \cup {i} /\ i \notin B(i) /\ B(i) \in SUBSET S
    <3>1. \A j \in S : j <= i <=> j < i \/ j = i
      BY <1>0
    <3>2. ~(i < i)
      BY <1>0
    <3> QED BY <1>2, <3>1, <3>2, Zenon DEF UpTo, Before
  <2>2. IsFiniteSet(B(i))
    BY <2>1, FS_Subset
  <2> QED BY <2>1, <2>2, FS_AddElement
<1>5. /\ \A i \in S : c(i) \in 0..n - 1
      /\ \A i, j \in S : <<i, j>> \in Less(S) => c(i) < c(j)
      /\ \A k \in 0..n - 1 : \E i \in S : c(i) = k
  <2>1. IsFiniteSet(S) /\ Orders(Less(S), S)
    BY <1>3
  <2>2. \A i \in S : c(i) \in 0..n - 1
    BY <2>1, Ranks, Zenon
  <2>3. \A i, j \in S : <<i, j>> \in Less(S) => c(i) < c(j)
    BY <2>1, Ranks, Zenon
  <2>4. ASSUME NEW k \in 0..n - 1 PROVE \E i \in S : c(i) = k
    <3>1. HasRank(Less(S), S, k)
      BY <2>1, RankTaken, Zenon
    <3> QED BY <3>1 DEF HasRank
  <2> QED BY <2>2, <2>3, <2>4
<1> HIDE DEF B
<1>6. ASSUME NEW i \in S, NEW j \in S PROVE i < j <=> c(i) < c(j)
  <2>1. c(i) \in Int /\ c(j) \in Int /\ i \in Int /\ j \in Int
    BY <1>0, <1>1, <1>5
  <2>2. i < j => c(i) < c(j)
    BY <1>2, <1>5
  <2>3. j < i => c(j) < c(i)
    BY <1>2, <1>5
  <2> HIDE DEF c
  <2> QED BY <2>1, <2>2, <2>3
<1>7. ASSUME NEW k \in 1..n PROVE \E i \in S : c(i) + 1 = k
  <2>1. k - 1 \in 0..n - 1
    BY <1>1
  <2>2. PICK i \in S : c(i) = k - 1
    BY <1>5, <2>1
  <2> QED BY <1>1, <2>2
<1> HIDE DEF c
<1>8. /\ \A i \in S : c(i) + 1 \in 1..n
      /\ \A i, j \in S : i < j <=> c(i) + 1 < c(j) + 1
  <2>1. \A i \in S : c(i) \in 0..n - 1
    BY <1>5
  <2> QED BY <1>1, <1>6, <2>1
<1> QED BY <1>1, <1>4, <1>7, <1>8

\* A finite set has a greatest element, too: the one whose place is the last.
LEMMA MaxIs ==
  ASSUME NEW S \in SUBSET Int, IsFiniteSet(S), S # {}
  PROVE  Max(S) \in S /\ \A j \in S : j <= Max(S)
<1> DEFINE c(i) == Cardinality(UpTo(S, i))
           n == Cardinality(S)
<1>1. /\ n \in Nat
      /\ \A i \in S : c(i) \in 1..n
      /\ \A i, j \in S : i < j <=> c(i) < c(j)
      /\ \A k \in 1..n : \E i \in S : c(i) = k
  BY PlaceFacts
<1>2. \A i \in S : i \in Int
  OBVIOUS
<1> HIDE DEF c, n
<1>3. n \in 1..n
  <2>1. PICK i \in S : c(i) \in 1..n
    BY <1>1
  <2> QED BY <1>1, <2>1
<1>4. PICK i \in S : c(i) = n
  BY <1>1, <1>3
<1>5. \A j \in S : j <= i
  <2> SUFFICES ASSUME NEW j \in S PROVE j <= i
    OBVIOUS
  <2>1. ~(c(i) < c(j))
    BY <1>1, <1>4
  <2>2. ~(i < j)
    BY <1>1, <2>1
  <2> QED BY <1>2, <2>2
<1>6. \E k \in S : \A j \in S : k >= j
  BY <1>2, <1>5
<1> QED BY <1>2, <1>6 DEF Max

\* A sequence that lists the elements of a set in their order.
Listing(s, S) ==
  /\ s \in [1..Cardinality(S) -> S]
  /\ \A k, l \in 1..Cardinality(S) : k < l <=> s[k] < s[l]
  /\ \A i \in S : \E k \in 1..Cardinality(S) : s[k] = i

LEMMA Lists ==
  ASSUME NEW S \in SUBSET Int, IsFiniteSet(S),
         NEW s, s = [k \in 1..Cardinality(S) |-> CHOOSE i \in S : Cardinality(UpTo(S, i)) = k]
  PROVE  Listing(s, S) /\ Cardinality(S) \in Nat
<1> DEFINE c(i) == Cardinality(UpTo(S, i))
           n == Cardinality(S)
<1>1. /\ n \in Nat
      /\ \A i \in S : c(i) \in 1..n
      /\ \A i, j \in S : i < j <=> c(i) < c(j)
      /\ \A k \in 1..n : \E i \in S : c(i) = k
  BY PlaceFacts
<1>2. \A k \in 1..n : s[k] \in S /\ c(s[k]) = k
  BY <1>1
<1>3. s \in [1..n -> S]
  BY <1>2
<1>4. ASSUME NEW k \in 1..n, NEW l \in 1..n PROVE k < l <=> s[k] < s[l]
  <2>1. s[k] \in S /\ s[l] \in S /\ c(s[k]) = k /\ c(s[l]) = l
    BY <1>2
  <2>2. s[k] < s[l] <=> c(s[k]) < c(s[l])
    BY <1>1, <2>1
  <2> QED BY <2>1, <2>2
<1>5. ASSUME NEW i \in S PROVE s[c(i)] = i
  <2>1. c(i) \in 1..n
    BY <1>1
  <2>2. s[c(i)] \in S /\ c(s[c(i)]) = c(i)
    BY <1>2, <2>1
  <2> DEFINE j == s[c(i)]
  <2>3. j \in S /\ c(j) = c(i)
    BY <2>2
  <2>4. j \in Int /\ i \in Int
    BY <2>3
  <2>5. c(i) \in Int
    BY <1>1, <2>1
  <2> HIDE DEF j, c
  <2>6. ~(i < j) /\ ~(j < i)
    BY <1>1, <2>5, <2>3
  <2>7. i = j
    BY <2>4, <2>6
  <2> QED BY <2>7 DEF j
<1>6. \A i \in S : \E k \in 1..n : s[k] = i
  BY <1>1, <1>5
<1> QED BY <1>1, <1>3, <1>4, <1>6 DEF Listing

-----------------------------------------------------------------------------
\* An increasing sequence of integers.
Rises(s, n) ==
  /\ \A k \in 1..n : s[k] \in Int
  /\ \A k, l \in 1..n : k < l <=> s[k] < s[l]

Stretch(s, a, b) == {s[k] : k \in a..b}

\* The set of a stretch tells how many elements are before one of them.
LEMMA StretchPlace ==
  ASSUME NEW n \in Nat, NEW s, Rises(s, n), NEW a \in 1..n, NEW b \in 1..n, NEW k \in a..b
  PROVE  Cardinality(UpTo(Stretch(s, a, b), s[k])) = k - a + 1
<1> DEFINE U == UpTo(Stretch(s, a, b), s[k])
           h == [j \in a..k |-> s[j]]
<1>1. \A j \in a..b : j \in 1..n
  OBVIOUS
<1>2. \A i, j \in 1..n : s[i] \in Int /\ s[j] \in Int /\ (i < j <=> s[i] < s[j])
  BY DEF Rises
<1>3. \A j \in a..b : s[j] <= s[k] <=> j <= k
  <2> SUFFICES ASSUME NEW j \in a..b PROVE s[j] <= s[k] <=> j <= k
    OBVIOUS
  <2>1. j \in 1..n /\ k \in 1..n /\ j \in Int /\ k \in Int
    BY <1>1
  <2>2. s[j] \in Int /\ s[k] \in Int /\ (k < j <=> s[k] < s[j])
    BY <1>2, <2>1
  <2> QED BY <2>1, <2>2
<1>4. U = {s[j] : j \in a..k}
  <2>1. \A j : j \in a..k <=> j \in a..b /\ j <= k
    OBVIOUS
  <2>2. U = {s[j] : j \in {i \in a..b : i <= k}}
    BY <1>3 DEF UpTo, Stretch
  <2>3. {i \in a..b : i <= k} = a..k
    BY <2>1
  <2> QED BY <2>2, <2>3
<1>5. h \in Bijection(a..k, U)
  <2>1. \A i, j \in a..k : h[i] = h[j] => i = j
    <3> SUFFICES ASSUME NEW i \in a..k, NEW j \in a..k, s[i] = s[j] PROVE i = j
      OBVIOUS
    <3>1. i \in 1..n /\ j \in 1..n /\ i \in Int /\ j \in Int
      BY <1>1
    <3>2. ~(i < j) /\ ~(j < i)
      BY <1>2, <3>1
    <3> QED BY <3>1, <3>2
  <2>2. h \in [a..k -> U] /\ \A u \in U : \E j \in a..k : h[j] = u
    BY <1>4
  <2> HIDE DEF h, U
  <2> QED BY <2>1, <2>2 DEF Bijection, Injection, IsInjective, Surjection
<1>6. IsFiniteSet(a..k) /\ Cardinality(a..k) = k - a + 1
  <2>1. a \in Int /\ k \in Int /\ a <= k
    OBVIOUS
  <2> QED BY <2>1, FS_Interval
<1> HIDE DEF h, U
<1>7. Cardinality(U) = Cardinality(a..k)
  BY <1>5, <1>6, FS_Bijection DEF ExistsBijection
<1> QED BY <1>6, <1>7 DEF U

\* So two stretches of the same elements are the same.
StretchOf(s, n, a, b) == n \in Nat /\ Rises(s, n) /\ a \in 1..n /\ b \in 1..n /\ a <= b

LEMMA SameStretch ==
  ASSUME NEW s, NEW n, NEW a, NEW b, StretchOf(s, n, a, b),
         NEW r, NEW m, NEW c, NEW d, StretchOf(r, m, c, d),
         Stretch(s, a, b) = Stretch(r, c, d)
  PROVE  b - a = d - c /\ \A i \in 0..b - a : s[a + i] = r[c + i]
<1> USE DEF StretchOf
<1>1. ASSUME NEW k \in a..b
      PROVE  \E l \in c..d : s[k] = r[l] /\ k - a = l - c
  <2>1. PICK l \in c..d : s[k] = r[l]
    BY DEF Stretch
  <2>2. Cardinality(UpTo(Stretch(s, a, b), s[k])) = k - a + 1
    BY StretchPlace
  <2>3. Cardinality(UpTo(Stretch(r, c, d), r[l])) = l - c + 1
    BY StretchPlace
  <2>4. k - a + 1 = l - c + 1
    BY <2>1, <2>2, <2>3
  <2>5. k - a = l - c
    BY <2>4
  <2> QED BY <2>1, <2>5
<1>2. ASSUME NEW l \in c..d
      PROVE  \E k \in a..b : k - a = l - c
  <2>1. PICK k \in a..b : s[k] = r[l]
    BY DEF Stretch
  <2>2. Cardinality(UpTo(Stretch(s, a, b), s[k])) = k - a + 1
    BY StretchPlace
  <2>3. Cardinality(UpTo(Stretch(r, c, d), r[l])) = l - c + 1
    BY StretchPlace
  <2>4. k - a + 1 = l - c + 1
    BY <2>1, <2>2, <2>3
  <2>5. k - a = l - c
    BY <2>4
  <2> QED BY <2>5
<1>3. b - a <= d - c
  <2>1. b \in a..b
    OBVIOUS
  <2>2. PICK l \in c..d : b - a = l - c
    BY <1>1, <2>1
  <2> QED BY <2>2
<1>4. d - c <= b - a
  <2>1. d \in c..d
    OBVIOUS
  <2>2. PICK k \in a..b : k - a = d - c
    BY <1>2, <2>1
  <2> QED BY <2>2
<1>5. ASSUME NEW i \in 0..b - a PROVE s[a + i] = r[c + i]
  <2>1. a + i \in a..b /\ (a + i) - a = i
    OBVIOUS
  <2>2. PICK l \in c..d : s[a + i] = r[l] /\ (a + i) - a = l - c
    BY <1>1, <2>1
  <2>3. l = c + i
    BY <2>1, <2>2
  <2> QED BY <2>2, <2>3
<1> QED BY <1>3, <1>4, <1>5
=============================================================================
