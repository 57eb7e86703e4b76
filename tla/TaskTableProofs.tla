-------------------------- MODULE TaskTableProofs ---------------------------
(***************************************************************************)
(* Proofs about TaskTable, for any radii and any number of rows per        *)
(* commit.  The sort of a ring is a permutation, because its key is a      *)
(* strict total order; so the spiral goes through each region of a square  *)
(* once; and the fills, cut short and started again with another           *)
(* configuration, never mix two spirals.                                   *)
(***************************************************************************)
EXTENDS TaskTable, FiniteSetTheorems, FunctionTheorems,
        SequenceTheorems, WellFoundedInduction, TLAPS

\* A set of naturals that is not empty has a least element: below an element of
\* it there are finitely many, and a smallest such set is empty.
LEMMA LeastNatural ==
    ASSUME NEW S \in SUBSET Nat, S # {}
    PROVE  \E x \in S : \A y \in S : x =< y
<1> DEFINE Below(x) == {y \in S : y < x}
           R == StrictSubsetOrdering(S)
           F == FiniteSubsetsOf(S)
           T == {Below(x) : x \in S}
<1>1. IsWellFoundedOn(R, F)
  BY FS_StrictSubsetOrderingWellFounded
<1>2. T \subseteq F /\ T # {}
  <2>1. ASSUME NEW x \in S
        PROVE  Below(x) \in FiniteSubsetsOf(S)
    <3>1. Below(x) \in SUBSET S /\ Below(x) \in SUBSET Nat
      OBVIOUS
    <3>2. x \in Nat /\ \A y \in Below(x) : y <= x
      OBVIOUS
    <3>3. IsFiniteSet(Below(x))
      <4> HIDE DEF Below
      <4> QED
        BY <3>1, <3>2, FS_BoundedSetOfNaturals
    <3> QED
      BY <3>1, <3>3 DEF FiniteSubsetsOf
  <2> QED
    BY <2>1
<1>3. \E U \in T : \A V \in T : ~ (<<V, U>> \in R)
  <2> HIDE DEF R, F, T
  <2> QED
    BY <1>1, <1>2, WFMin
<1>4. PICK x \in S : \A V \in T : ~ (<<V, Below(x)>> \in R)
  BY <1>3
<1>5. ASSUME NEW y \in S, ~(x =< y)
      PROVE  FALSE
  <2>1. Below(y) \subseteq Below(x) /\ y \in Below(x) /\ y \notin Below(y)
    <3>1. x \in Int /\ y \in Int /\ y < x
      BY <1>5
    <3>2. ~(y < y) /\ \A z \in S : z < y => z < x
      BY <3>1
    <3>3. y \in Below(x) /\ y \notin Below(y)
      BY <3>1, <3>2
    <3>4. Below(y) \subseteq Below(x)
      BY Zenon, <3>2
    <3> QED
      BY Zenon, <3>3, <3>4
  <2>2. <<Below(y), Below(x)>> \in R
    BY <2>1 DEF StrictSubsetOrdering
  <2> QED
    BY <1>4, <2>2
<1> QED
  BY <1>5

\* A set of naturals with 0 and with the successor of each of its elements has
\* them all.
LEMMA AllNaturals ==
    ASSUME NEW S, 0 \in S, \A n \in Nat : n \in S => n + 1 \in S
    PROVE  \A n \in Nat : n \in S
<1> DEFINE Out == {n \in Nat : n \notin S}
<1>1. SUFFICES ASSUME Out # {}
               PROVE  FALSE
  OBVIOUS
<1>2. PICK m \in Out : \A y \in Out : m =< y
  BY <1>1, LeastNatural
<1>3. m - 1 \in Nat /\ m - 1 \notin Out /\ (m - 1) + 1 = m
  BY <1>2
<1> QED
  BY <1>2, <1>3

-----------------------------------------------------------------------------
(* Sorting by a strict total order *)

\* R orders the elements of S: irreflexive, transitive and total.
StrictOrder(S, R) ==
    /\ \A c \in S : <<c, c>> \notin R
    /\ \A c, d, e \in S : <<c, d>> \in R /\ <<d, e>> \in R => <<c, e>> \in R
    /\ \A c, d \in S : c = d \/ <<c, d>> \in R \/ <<d, c>> \in R

\* In a finite set with a strict total order exactly one element has k elements
\* before it, for each k below the size of the set.
LEMMA RanksAreDistinct ==
    ASSUME NEW S, IsFiniteSet(S), NEW R, StrictOrder(S, R)
    PROVE  LET Rank(c) == Cardinality({d \in S : <<d, c>> \in R})
           IN  /\ \A k \in 1 .. Cardinality(S) : \E c \in S : Rank(c) = k - 1
               /\ \A c, d \in S : Rank(c) = Rank(d) => c = d
               /\ \A c \in S : Rank(c) \in 0 .. Cardinality(S) - 1
<1> DEFINE Below(c) == {d \in S : <<d, c>> \in R}
           Rank(c) == Cardinality(Below(c))
           n == Cardinality(S)
           rank == [c \in S |-> Rank(c) + 1]
<1>1. ASSUME NEW c \in S
      PROVE  /\ IsFiniteSet(Below(c)) /\ Rank(c) \in Nat
             /\ Rank(c) < n
  <2>1. Below(c) \in SUBSET S /\ c \notin Below(c)
    BY DEF StrictOrder
  <2>2. Below(c) # S
    BY <2>1
  <2> HIDE DEF Below
  <2>3. /\ IsFiniteSet(Below(c))
        /\ Cardinality(Below(c)) <= n
        /\ n = Cardinality(Below(c)) => S = Below(c)
    BY <2>1, FS_Subset
  <2>4. n \in Nat /\ Cardinality(Below(c)) \in Nat
    BY <2>3, FS_CardinalityType
  <2> QED
    BY <2>2, <2>3, <2>4
<1>2. ASSUME NEW c \in S, NEW d \in S, <<c, d>> \in R
      PROVE  Rank(c) < Rank(d)
  <2>1. Below(c) \in SUBSET Below(d) /\ c \in Below(d) /\ c \notin Below(c)
    BY <1>2 DEF StrictOrder
  <2>2. Below(c) # Below(d)
    BY <2>1
  <2>3. IsFiniteSet(Below(d)) /\ Rank(c) \in Nat /\ Rank(d) \in Nat
    BY <1>1
  <2> HIDE DEF Below
  <2>4. Cardinality(Below(c)) <= Cardinality(Below(d))
        /\ (Cardinality(Below(d)) = Cardinality(Below(c)) => Below(d) = Below(c))
    BY <2>1, <2>3, FS_Subset
  <2> QED
    BY <2>2, <2>3, <2>4
<1>3. n \in Nat /\ \A c \in S : Rank(c) \in Nat /\ Rank(c) < n
  BY <1>1, FS_CardinalityType
<1>4. ASSUME NEW c \in S, NEW d \in S, Rank(c) = Rank(d)
      PROVE  c = d
  <2>1. ~(<<c, d>> \in R) /\ ~(<<d, c>> \in R)
    <3> HIDE DEF Rank
    <3>1. Rank(c) \in Nat /\ ~(Rank(c) < Rank(c))
      BY <1>3
    <3> QED
      BY Zenon, <3>1, <1>2, <1>4
  <2> QED
    BY <2>1 DEF StrictOrder
<1>5. rank \in Injection(S, 1 .. n)
  <2> HIDE DEF Rank, Below, n
  <2>1. rank \in [S -> 1 .. n]
    BY <1>3
  <2>2. \A c, d \in S : rank[c] = rank[d] => c = d
    BY <1>3, <1>4
  <2> QED
    BY <2>1, <2>2, Fun_IsInj
<1>6. IsFiniteSet(1 .. n) /\ Cardinality(1 .. n) = n
  <2> HIDE DEF n
  <2>1. Cardinality(1 .. n) = IF 1 > n THEN 0 ELSE n - 1 + 1
    BY <1>3, FS_Interval
  <2> QED
    BY <1>3, <2>1, FS_Interval
<1>7. rank \in Surjection(S, 1 .. n)
  <2> HIDE DEF n, rank
  <2> QED
    BY <1>5, <1>6, FS_Injection DEF n
<1>8. ASSUME NEW k \in 1 .. n
      PROVE  \E c \in S : Rank(c) = k - 1
  <2>0. \A t \in 1 .. n : \E s \in S : rank[s] = t
    <3> HIDE DEF n, rank, Rank, Below
    <3> QED
      BY <1>7 DEF Surjection
  <2>1. PICK c \in S : rank[c] = k
    BY <2>0
  <2> HIDE DEF Rank, Below, n
  <2> QED
    BY <1>3, <2>1
<1>9. \A c \in S : Rank(c) \in 0 .. n - 1
  <2> HIDE DEF Rank, Below, n
  <2> QED
    BY <1>3
<1> QED
  BY <1>4, <1>8, <1>9

-----------------------------------------------------------------------------
(* Before *)

\* Coordinates of regions.
Places == Int \X Int

\* The sort key as a relation, the distance from the centre (squared), and the
\* sign of the angle from c to d.
BeforeRel == {p \in Places \X Places : Before(p[1], p[2])}

Near(p) == Sq(p[1]) + Sq(p[2])
Cross(c, d) == c[1] * d[2] - c[2] * d[1]

\* Products of integers of known signs.
LEMMA SignsOfProducts ==
    ASSUME NEW a \in Int, NEW b \in Int
    PROVE  /\ a > 0 /\ b > 0 => a * b > 0
           /\ a < 0 /\ b > 0 => a * b < 0
           /\ a * a >= 0
           /\ a # 0 => a * a > 0
  OBVIOUS

\* Numbers of one sign with one square are equal.
LEMMA SquareIsInjective ==
    ASSUME NEW a \in Int, NEW b \in Int, a * a = b * b,
           \/ a < 0 /\ b < 0
           \/ a > 0 /\ b > 0
           \/ a <= 0 /\ b <= 0
    PROVE  a = b
<1>1. (a - b) * (a + b) = 0
  OBVIOUS
<1>2. a - b = 0 \/ a + b = 0
  BY <1>1
<1> QED
  BY <1>2

\* The angle is transitive within a half plane.
LEMMA CrossIsTransitive ==
    ASSUME NEW c \in Places, NEW d \in Places, NEW e \in Places,
           \/ c[2] < 0 /\ d[2] < 0 /\ e[2] < 0
           \/ c[2] > 0 /\ d[2] > 0 /\ e[2] > 0,
           Cross(c, d) > 0, Cross(d, e) > 0
    PROVE  Cross(c, e) > 0
<1> DEFINE c1 == c[1]  c2 == c[2]  d1 == d[1]  d2 == d[2]  e1 == e[1]  e2 == e[2]
           cd == c1 * d2 - c2 * d1
           de == d1 * e2 - d2 * e1
           ce == c1 * e2 - c2 * e1
<1>a. /\ c1 \in Int /\ c2 \in Int /\ d1 \in Int /\ d2 \in Int /\ e1 \in Int /\ e2 \in Int
      /\ (c2 < 0 /\ d2 < 0 /\ e2 < 0) \/ (c2 > 0 /\ d2 > 0 /\ e2 > 0)
      /\ cd > 0 /\ de > 0
  BY DEF Places, Cross
<1>b. ce = Cross(c, e)
  BY DEF Cross
<1> HIDE DEF c1, c2, d1, d2, e1, e2
<1>1. d2 * ce = e2 * cd + c2 * de
  BY <1>a
<1>2. cd \in Int /\ de \in Int /\ ce \in Int /\ cd > 0 /\ de > 0
  BY <1>a
<1> HIDE DEF cd, de, ce
<1>3. CASE c2 > 0 /\ d2 > 0 /\ e2 > 0
  <2>1. e2 * cd > 0 /\ c2 * de > 0
    BY <1>a, <1>2, <1>3, SignsOfProducts
  <2>2. d2 * ce > 0
    BY <1>a, <1>1, <1>2, <2>1
  <2> QED
    BY <1>a, <1>b, <1>2, <1>3, <2>2
<1>4. CASE c2 < 0 /\ d2 < 0 /\ e2 < 0
  <2>1. e2 * cd < 0 /\ c2 * de < 0
    BY <1>a, <1>2, <1>4, SignsOfProducts
  <2>2. d2 * ce < 0
    BY <1>a, <1>1, <1>2, <2>1
  <2> QED
    BY <1>a, <1>b, <1>2, <1>4, <2>2
<1> QED
  BY <1>a, <1>3, <1>4

\* Within a half plane one direction and one distance are one place.
LEMMA CrossSeparates ==
    ASSUME NEW c1 \in Int, NEW c2 \in Int, NEW d1 \in Int, NEW d2 \in Int,
           \/ c2 < 0 /\ d2 < 0
           \/ c2 > 0 /\ d2 > 0,
           c1 * c1 + c2 * c2 = d1 * d1 + d2 * d2, c1 * d2 - c2 * d1 = 0
    PROVE  c1 = d1 /\ c2 = d2
<1> DEFINE r == c1 * c1 + c2 * c2
<1>1. (c1 * d2) * (c1 * d2) = (c2 * d1) * (c2 * d1)
  OBVIOUS
<1>2. (c1 * c1) * (d2 * d2) = (c2 * c2) * (d1 * d1)
  BY <1>1
<1>3. (r - c2 * c2) * (d2 * d2) = (c2 * c2) * (r - d2 * d2)
  <2>1. c1 * c1 = r - c2 * c2 /\ d1 * d1 = r - d2 * d2
    OBVIOUS
  <2> QED
    BY Zenon, <1>2, <2>1
<1>4. r * (d2 * d2 - c2 * c2) = 0
  <2> HIDE DEF r
  <2>1. r \in Int
    BY DEF r
  <2> QED
    BY <1>3, <2>1
<1>5. r > 0
  <2>1. c1 * c1 >= 0 /\ c2 * c2 > 0
    BY SignsOfProducts
  <2> QED
    BY <2>1
<1>6. d2 * d2 = c2 * c2
  <2> HIDE DEF r
  <2>1. r \in Int /\ d2 * d2 - c2 * c2 \in Int
    BY DEF r
  <2>2. d2 * d2 - c2 * c2 = 0
    BY <1>4, <1>5, <2>1
  <2> QED
    BY <2>2
<1>7. c2 = d2
  BY <1>6, SquareIsInjective
<1>8. c2 * (c1 - d1) = 0
  BY <1>7
<1> QED
  BY <1>7, <1>8

\* The four cases of Sector exclude each other.
LEMMA SectorValues ==
    ASSUME NEW c \in Places
    PROVE  /\ c[1] \in Int /\ c[2] \in Int /\ c = <<c[1], c[2]>>
           /\ Near(c) \in Int /\ Near(c) = c[1] * c[1] + c[2] * c[2]
           /\ Sector(c) \in 0 .. 3
           /\ Sector(c) = 0 <=> c[2] < 0
           /\ Sector(c) = 1 <=> c[2] = 0 /\ c[1] > 0
           /\ Sector(c) = 2 <=> c[2] > 0
           /\ Sector(c) = 3 <=> c[2] = 0 /\ c[1] <= 0
<1>1. c[1] \in Int /\ c[2] \in Int /\ c = <<c[1], c[2]>>
  BY DEF Places
<1>2. Near(c) \in Int /\ Near(c) = c[1] * c[1] + c[2] * c[2]
  BY <1>1 DEF Near, Sq
<1>3. CASE c[2] < 0
  BY <1>1, <1>2, <1>3 DEF Sector
<1>4. CASE c[2] = 0 /\ c[1] > 0
  BY <1>1, <1>2, <1>4 DEF Sector
<1>5. CASE c[2] > 0
  BY <1>1, <1>2, <1>5 DEF Sector
<1>6. CASE c[2] = 0 /\ c[1] <= 0
  BY <1>1, <1>2, <1>6 DEF Sector
<1> QED
  BY <1>1, <1>3, <1>4, <1>5, <1>6

\* The sort key in terms of distance, half plane and angle.
LEMMA BeforeUnfolds ==
    ASSUME NEW c \in Places, NEW d \in Places
    PROVE  Before(c, d) <=>
             \/ Near(c) < Near(d)
             \/ Near(c) = Near(d) /\ Sector(c) < Sector(d)
             \/ Near(c) = Near(d) /\ Sector(c) = Sector(d) /\ Cross(c, d) > 0
  BY Zenon DEF Before, SmallerAngle, Near, Cross

\* The sort key of a ring orders the regions strictly and totally: two regions
\* at one distance and in one direction are one region.
LEMMA BeforeIsStrictOrder ==
    StrictOrder(Places, BeforeRel)
<1>1. \A c, d \in Places : <<c, d>> \in BeforeRel <=> Before(c, d)
  BY DEF BeforeRel
<1>2. ASSUME NEW c \in Places
      PROVE  ~Before(c, c)
  <2>1. Cross(c, c) = 0
    BY SectorValues DEF Cross
  <2>2. Near(c) \in Int /\ Sector(c) \in Int
    BY SectorValues
  <2> QED
    BY <2>1, <2>2, BeforeUnfolds
<1>3. ASSUME NEW c \in Places, NEW d \in Places, NEW e \in Places, Before(c, d), Before(d, e)
      PROVE  Before(c, e)
  <2>1. /\ Near(c) \in Int /\ Near(d) \in Int /\ Near(e) \in Int
        /\ Sector(c) \in Int /\ Sector(d) \in Int /\ Sector(e) \in Int
    BY SectorValues
  <2>2. CASE /\ Near(c) = Near(d) /\ Sector(c) = Sector(d) /\ Cross(c, d) > 0
             /\ Near(d) = Near(e) /\ Sector(d) = Sector(e) /\ Cross(d, e) > 0
    <3>1. /\ c[1] \in Int /\ c[2] \in Int /\ d[1] \in Int /\ d[2] \in Int
          /\ e[1] \in Int /\ e[2] \in Int
      BY SectorValues
    <3>2. CASE c[2] = 0
      <4>1. Sector(c) = 1 \/ Sector(c) = 3
        BY <3>1, <3>2, SectorValues
      <4>2. c[2] = 0 /\ d[2] = 0
        BY <2>2, <4>1, SectorValues
      <4>3. Cross(c, d) = 0
        BY <3>1, <4>2 DEF Cross
      <4> QED
        BY <2>2, <4>3
    <3>3. CASE c[2] # 0
      <4>1. \/ c[2] < 0 /\ d[2] < 0 /\ e[2] < 0
            \/ c[2] > 0 /\ d[2] > 0 /\ e[2] > 0
        BY <2>2, <3>1, <3>3, SectorValues
      <4>2. Cross(c, e) > 0
        BY <2>2, <4>1, CrossIsTransitive
      <4> QED
        BY <2>2, <4>2, BeforeUnfolds
    <3> QED
      BY <3>2, <3>3
  <2>3. \/ Near(c) < Near(e)
        \/ Near(c) = Near(e) /\ Sector(c) < Sector(e)
        \/ /\ Near(c) = Near(d) /\ Sector(c) = Sector(d) /\ Cross(c, d) > 0
           /\ Near(d) = Near(e) /\ Sector(d) = Sector(e) /\ Cross(d, e) > 0
    BY <1>3, <2>1, BeforeUnfolds
  <2> QED
    BY <2>2, <2>3, BeforeUnfolds
<1>4. ASSUME NEW c \in Places, NEW d \in Places
      PROVE  c = d \/ Before(c, d) \/ Before(d, c)
  <2>1. /\ c[1] \in Int /\ c[2] \in Int /\ d[1] \in Int /\ d[2] \in Int
        /\ Near(c) \in Int /\ Near(d) \in Int /\ Sector(c) \in Int /\ Sector(d) \in Int
        /\ c = <<c[1], c[2]>> /\ d = <<d[1], d[2]>>
    BY SectorValues
  <2>2. Cross(c, d) \in Int /\ Cross(d, c) = -Cross(c, d)
    BY <2>1 DEF Cross
  <2>3. CASE Near(c) = Near(d) /\ Sector(c) = Sector(d) /\ Cross(c, d) = 0
    <3>1. c[1] * c[1] + c[2] * c[2] = d[1] * d[1] + d[2] * d[2]
      BY <2>3, SectorValues
    <3>2. CASE c[2] = 0
      <4>1. Sector(c) = 1 \/ Sector(c) = 3
        BY <2>1, <3>2, SectorValues
      <4>2. /\ c[2] = 0 /\ d[2] = 0
            /\ (c[1] > 0 /\ d[1] > 0) \/ (c[1] <= 0 /\ d[1] <= 0)
        BY <2>3, <4>1, SectorValues
      <4>3. c[1] * c[1] = d[1] * d[1]
        BY <2>1, <3>1, <4>2
      <4>4. c[1] = d[1]
        BY <2>1, <4>2, <4>3, SquareIsInjective
      <4> QED
        BY Zenon, <2>1, <4>2, <4>4
    <3>3. CASE c[2] # 0
      <4>1. \/ c[2] < 0 /\ d[2] < 0
            \/ c[2] > 0 /\ d[2] > 0
        BY <2>1, <2>3, <3>3, SectorValues
      <4>2. c[1] * d[2] - c[2] * d[1] = 0
        BY <2>3 DEF Cross
      <4>3. c[1] = d[1] /\ c[2] = d[2]
        BY <2>1, <3>1, <4>1, <4>2, CrossSeparates
      <4> QED
        BY Zenon, <2>1, <4>3
    <3> QED
      BY <3>2, <3>3
  <2>4. CASE ~(Near(c) = Near(d) /\ Sector(c) = Sector(d) /\ Cross(c, d) = 0)
    BY <2>1, <2>2, <2>4, BeforeUnfolds
  <2> QED
    BY <2>3, <2>4
<1> QED
  BY <1>1, <1>2, <1>3, <1>4 DEF StrictOrder

\* A set sorted by Before is a sequence without a repetition of all its elements.
LEMMA SortedIsPermutation ==
    ASSUME NEW S \in SUBSET Places, IsFiniteSet(S)
    PROVE  /\ Sorted(S) \in Seq(S)
           /\ Len(Sorted(S)) = Cardinality(S)
           /\ \A c \in S : \E i \in 1 .. Len(Sorted(S)) : Sorted(S)[i] = c
<1> DEFINE R == BeforeRel
           Rank(c) == Cardinality({d \in S : <<d, c>> \in R})
           n == Cardinality(S)
<1>1. StrictOrder(S, R)
  BY BeforeIsStrictOrder DEF StrictOrder
<1>2. /\ \A k \in 1 .. n : \E c \in S : Rank(c) = k - 1
      /\ \A c, d \in S : Rank(c) = Rank(d) => c = d
      /\ \A c \in S : Rank(c) \in 0 .. n - 1
  BY <1>1, RanksAreDistinct
<1>3. \A c \in S : Cardinality({d \in S : Before(d, c)}) = Rank(c)
  <2>1. ASSUME NEW c \in S
        PROVE  {d \in S : Before(d, c)} = {d \in S : <<d, c>> \in R}
    BY DEF BeforeRel
  <2> QED
    BY <2>1
<1>4. Sorted(S) = [i \in 1 .. n |-> CHOOSE c \in S : Rank(c) = i - 1]
  <2> DEFINE F(i) == CHOOSE c \in S : Cardinality({d \in S : Before(d, c)}) = i - 1
             G(i) == CHOOSE c \in S : Rank(c) = i - 1
  <2>1. Sorted(S) = [i \in 1 .. n |-> F(i)]
    BY DEF Sorted
  <2>2. \A i : F(i) = G(i)
    BY <1>3
  <2> HIDE DEF F, G
  <2>3. Sorted(S) = [i \in 1 .. n |-> G(i)]
    BY Zenon, <2>1, <2>2
  <2> QED
    BY <2>3 DEF G
<1>5. n \in Nat
  BY FS_CardinalityType
<1> HIDE DEF n, Rank
<1>6. \A i \in 1 .. n : Sorted(S)[i] \in S /\ Rank(Sorted(S)[i]) = i - 1
  BY <1>2, <1>4
<1>7. Sorted(S) \in Seq(S) /\ Len(Sorted(S)) = n
  BY <1>4, <1>5, <1>6
<1>8. ASSUME NEW c \in S
      PROVE  \E i \in 1 .. n : Sorted(S)[i] = c
  <2>1. Rank(c) \in 0 .. n - 1
    BY <1>2
  <2>2. Rank(c) + 1 \in 1 .. n /\ (Rank(c) + 1) - 1 = Rank(c)
    BY <1>5, <2>1
  <2>3. Sorted(S)[Rank(c) + 1] = c
    BY <1>2, <1>6, <2>2
  <2> QED
    BY <2>2, <2>3
<1> QED
  BY <1>7, <1>8 DEF n

-----------------------------------------------------------------------------
(* The rings and the spiral *)

\* The regions n rings make up.
Square(n) == (-n .. n) \X (-n .. n)

\* A square of side 2n + 1 has the square of that many regions.
LEMMA SquareSize ==
    ASSUME NEW n \in Nat
    PROVE  /\ IsFiniteSet(Square(n)) /\ Cardinality(Square(n)) = Sq(2 * n + 1)
           /\ Square(n) \subseteq Places
<1>1. IsFiniteSet(-n .. n) /\ Cardinality(-n .. n) = 2 * n + 1
  <2>1. -n \in Int /\ n \in Int
    OBVIOUS
  <2>2. IsFiniteSet(-n .. n) /\ Cardinality(-n .. n) = IF -n > n THEN 0 ELSE n - (-n) + 1
    BY <2>1, FS_Interval
  <2> QED
    BY <2>2
<1>2. /\ IsFiniteSet(Square(n))
      /\ Cardinality(Square(n)) = Cardinality(-n .. n) * Cardinality(-n .. n)
  BY <1>1, FS_Product DEF Square
<1> QED
  BY <1>1, <1>2 DEF Square, Sq, Places

\* Ring n surrounds the square of the rings before it.
LEMMA RingSurrounds ==
    ASSUME NEW n \in Nat \ {0}
    PROVE  /\ Ring(n) \subseteq Square(n)
           /\ Ring(n) \cap Square(n - 1) = {}
           /\ Square(n) = Square(n - 1) \cup Ring(n)
           /\ Square(n - 1) \subseteq Square(n)
<1>1. ASSUME NEW x \in Int, NEW z \in Int
      PROVE  <<x, z>> \in Ring(n) <=> /\ x \in -n .. n /\ z \in -n .. n
                                      /\ x = n \/ x = -n \/ z = n \/ z = -n
  BY DEF Ring
<1>2. Ring(n) \subseteq Places
  BY DEF Ring, Places
<1>3. ASSUME NEW x \in Int, NEW z \in Int
      PROVE  /\ <<x, z>> \in Square(n) <=> x \in -n .. n /\ z \in -n .. n
             /\ <<x, z>> \in Square(n - 1) <=> x \in -(n-1) .. n-1 /\ z \in -(n-1) .. n-1
  BY DEF Square
<1>4. Square(n) \subseteq Places /\ Square(n - 1) \subseteq Places
  BY DEF Square, Places
<1>5. ASSUME NEW c \in Places
      PROVE  /\ c \in Ring(n) => c \in Square(n) /\ c \notin Square(n - 1)
             /\ c \in Square(n) <=> c \in Square(n - 1) \/ c \in Ring(n)
  <2>1. PICK x \in Int, z \in Int : c = <<x, z>>
    BY DEF Places
  <2>2. /\ <<x, z>> \in Ring(n) <=> /\ x \in -n .. n /\ z \in -n .. n
                                    /\ x = n \/ x = -n \/ z = n \/ z = -n
        /\ <<x, z>> \in Square(n) <=> x \in -n .. n /\ z \in -n .. n
        /\ <<x, z>> \in Square(n - 1) <=> x \in -(n-1) .. n-1 /\ z \in -(n-1) .. n-1
    BY <1>1, <1>3
  <2> QED
    BY <2>1, <2>2
<1> QED
  BY Zenon, <1>2, <1>4, <1>5

\* A ring has the regions its square has more than the one inside.
LEMMA RingSize ==
    ASSUME NEW n \in Nat \ {0}
    PROVE  /\ IsFiniteSet(Ring(n)) /\ Ring(n) \in SUBSET Places
           /\ Cardinality(Ring(n)) = Sq(2 * n + 1) - Sq(2 * n - 1)
<1>1. n - 1 \in Nat /\ n \in Nat /\ 2 * (n - 1) + 1 = 2 * n - 1
  OBVIOUS
<1>2. Ring(n) = Square(n) \ Square(n - 1) /\ Square(n) \cap Square(n - 1) = Square(n - 1)
  BY Zenon, RingSurrounds
<1>3. /\ IsFiniteSet(Square(n)) /\ Square(n) \subseteq Places
      /\ Cardinality(Square(n)) = Sq(2 * n + 1)
      /\ Cardinality(Square(n - 1)) = Sq(2 * n - 1)
  BY <1>1, SquareSize
<1>4. /\ IsFiniteSet(Square(n) \ Square(n - 1))
      /\ Cardinality(Square(n) \ Square(n - 1))
           = Cardinality(Square(n)) - Cardinality(Square(n) \cap Square(n - 1))
  BY <1>3, FS_Difference
<1>5. Ring(n) \in SUBSET Places
  BY Zenon, <1>2, <1>3
<1> QED
  BY Zenon, <1>2, <1>3, <1>4, <1>5

\* The values of f up to n are those of the function that starts with a and adds
\* b[i] at i.
IsApprox(a, b, n, f) == f[0] = a /\ \A i \in 1 .. n : f[i] = f[i-1] \o b[i]

\* h is that function.
IsRecursive(a, b, h) == h = [n \in Nat |-> IF n = 0 THEN a ELSE h[n-1] \o b[n]]

\* Two of them agree as far as both go: by induction on the argument.
LEMMA ApproxIsUnique ==
    ASSUME NEW a, NEW b, NEW n \in Nat, NEW m \in Nat, NEW f, NEW g,
           IsApprox(a, b, n, f), IsApprox(a, b, m, g)
    PROVE  \A i \in Nat : i <= n /\ i <= m => f[i] = g[i]
<1> DEFINE Agree == {i \in Nat : i <= n /\ i <= m => f[i] = g[i]}
<1>1. 0 \in Agree
  BY DEF IsApprox
<1>2. ASSUME NEW i \in Nat, i \in Agree
      PROVE  i + 1 \in Agree
  <2>1. CASE i + 1 <= n /\ i + 1 <= m
    <3>1. f[i] = g[i] /\ i + 1 \in Nat /\ i + 1 \in 1 .. n /\ i + 1 \in 1 .. m /\ (i + 1) - 1 = i
      BY <1>2, <2>1
    <3>2. /\ \A k \in 1 .. n : f[k] = f[k-1] \o b[k]
          /\ \A k \in 1 .. m : g[k] = g[k-1] \o b[k]
      BY Zenon DEF IsApprox
    <3>3. f[i + 1] = g[i + 1]
      BY Zenon, <3>1, <3>2
    <3> QED
      BY <3>1, <3>3
  <2>2. CASE ~(i + 1 <= n /\ i + 1 <= m)
    BY <2>2
  <2> QED
    BY <2>1, <2>2
<1>3. \A i \in Nat : i \in Agree
  <2> HIDE DEF Agree
  <2> QED
    BY <1>1, <1>2, AllNaturals
<1> QED
  BY <1>3

\* There is one for every n: one value more at each step.
LEMMA ApproxExists ==
    ASSUME NEW a, NEW b
    PROVE  \A n \in Nat : \E f : IsApprox(a, b, n, f)
<1> DEFINE Reached == {n \in Nat : \E f : IsApprox(a, b, n, f)}
<1>1. 0 \in Reached
  <2> DEFINE f == [i \in {0} |-> a]
  <2>1. f[0] = a /\ 1 .. 0 = {}
    OBVIOUS
  <2>2. IsApprox(a, b, 0, f)
    BY <2>1 DEF IsApprox
  <2> QED
    BY <2>2
<1>2. ASSUME NEW n \in Nat, n \in Reached
      PROVE  n + 1 \in Reached
  <2>1. PICK f : IsApprox(a, b, n, f)
    BY <1>2
  <2> DEFINE g == [i \in 0 .. n + 1 |-> IF i <= n THEN f[i] ELSE f[n] \o b[n + 1]]
  <2>a. f[0] = a /\ \A i \in 1 .. n : f[i] = f[i-1] \o b[i]
    BY Zenon, <2>1 DEF IsApprox
  <2>2. g[0] = a
    BY <2>a
  <2>3. ASSUME NEW i \in 1 .. n + 1
        PROVE  g[i] = g[i-1] \o b[i]
    <3>1. CASE i \in 1 .. n
      <4>1. f[i] = f[i-1] \o b[i]
        BY Zenon, <2>a, <3>1
      <4>2. g[i] = f[i] /\ g[i-1] = f[i-1]
        BY <3>1
      <4> QED
        BY Zenon, <4>1, <4>2
    <3>2. CASE i = n + 1
      <4>1. g[i] = f[n] \o b[n + 1] /\ g[i-1] = f[n]
        BY <3>2
      <4> QED
        BY Zenon, <3>2, <4>1
    <3> QED
      BY <3>1, <3>2
  <2> HIDE DEF g
  <2>4. IsApprox(a, b, n + 1, g)
    BY Zenon, <2>2, <2>3 DEF IsApprox
  <2> QED
    BY <2>4
<1>3. \A n \in Nat : n \in Reached
  <2> HIDE DEF Reached
  <2> QED
    BY <1>1, <1>2, AllNaturals
<1> QED
  BY <1>3

\* The function itself takes at n the value of those that go as far as n.
LEMMA RecursionExists ==
    ASSUME NEW a, NEW b
    PROVE  \E h : IsRecursive(a, b, h)
<1> DEFINE A(n) == CHOOSE f : IsApprox(a, b, n, f)
           h == [n \in Nat |-> A(n)[n]]
<1>1. \A n \in Nat : IsApprox(a, b, n, A(n))
  BY Zenon, ApproxExists
<1> HIDE DEF A
<1>2. ASSUME NEW n \in Nat
      PROVE  h[n] = IF n = 0 THEN a ELSE h[n-1] \o b[n]
  <2>1. CASE n = 0
    <3>1. A(0)[0] = a
      BY <1>1 DEF IsApprox
    <3> QED
      BY <2>1, <3>1
  <2>2. CASE n # 0
    <3>1. n - 1 \in Nat /\ n - 1 <= n /\ n - 1 <= n - 1 /\ n \in 1 .. n
      BY <2>2
    <3>2. A(n)[n] = A(n)[n-1] \o b[n]
      BY Zenon, <1>1, <3>1 DEF IsApprox
    <3>3. A(n)[n-1] = A(n-1)[n-1]
      <4>1. IsApprox(a, b, n, A(n)) /\ IsApprox(a, b, n - 1, A(n-1))
        BY <1>1, <3>1
      <4>2. \A i \in Nat : i <= n /\ i <= n - 1 => A(n)[i] = A(n-1)[i]
        <5> DEFINE f == A(n)  g == A(n-1)  m == n - 1
        <5>1. IsApprox(a, b, n, f) /\ IsApprox(a, b, m, g) /\ m \in Nat
          BY <3>1, <4>1
        <5> HIDE DEF f, g, m
        <5>2. \A i \in Nat : i <= n /\ i <= m => f[i] = g[i]
          BY <5>1, ApproxIsUnique
        <5> QED
          BY <5>2 DEF f, g, m
      <4> QED
        BY <3>1, <4>2
    <3>4. h[n] = A(n)[n] /\ h[n-1] = A(n-1)[n-1]
      BY <3>1
    <3> QED
      BY Zenon, <2>2, <3>2, <3>3, <3>4
  <2> QED
    BY <2>1, <2>2
<1>3. h = [n \in Nat |-> h[n]]
  OBVIOUS
<1> HIDE DEF h
<1>4. IsRecursive(a, b, h)
  BY Zenon, <1>2, <1>3 DEF IsRecursive
<1> QED
  BY Zenon, <1>4

\* The spiral is what its definition says.
LEMMA SpiralUnfolds ==
    /\ Spiral[0] = <<<<0, 0>>>>
    /\ \A n \in Nat \ {0} : Spiral[n] = Spiral[n-1] \o Sorted(Ring(n))
<1> DEFINE a == <<<<0, 0>>>>
           b == [n \in Nat |-> Sorted(Ring(n))]
           Good(h) == h = [n \in Nat |-> IF n = 0 THEN a ELSE h[n-1] \o Sorted(Ring(n))]
<1>1. \E h : Good(h)
  <2>1. PICK h : IsRecursive(a, b, h)
    <3> HIDE DEF a, b
    <3> QED
      BY Zenon, RecursionExists
  <2>2. \A n \in Nat : b[n] = Sorted(Ring(n))
    BY Zenon
  <2> HIDE DEF a, b
  <2>3. Good(h)
    BY Zenon, <2>1, <2>2 DEF IsRecursive
  <2> QED
    BY Zenon, <2>3
<1>2. Spiral = CHOOSE h : Good(h)
  BY Zenon DEF Spiral
<1>3. Good(Spiral)
  <2> HIDE DEF Good
  <2> QED
    BY Zenon, <1>1, <1>2
<1> HIDE DEF a
<1>4. \A n \in Nat : Spiral[n] = IF n = 0 THEN a ELSE Spiral[n-1] \o Sorted(Ring(n))
  BY Zenon, <1>3
<1>5. 0 \in Nat /\ \A n \in Nat \ {0} : n \in Nat /\ n # 0
  OBVIOUS
<1> QED
  BY Zenon, <1>4, <1>5 DEF a

\* The members of a sequence.
Items(s) == {s[i] : i \in 1 .. Len(s)}

\* A concatenation has the members of its parts.
LEMMA Concatenated ==
    ASSUME NEW S, NEW s \in Seq(S), NEW t \in Seq(S)
    PROVE  Items(s \o t) = Items(s) \cup Items(t)
<1> DEFINE m == Len(s)  k == Len(t)
<1>1. m \in Nat /\ k \in Nat /\ Len(s \o t) = m + k
  OBVIOUS
<1>2. \A i \in 1 .. m : (s \o t)[i] = s[i] /\ i \in 1 .. m + k
  OBVIOUS
<1>3. \A i \in 1 .. k : (s \o t)[m + i] = t[i] /\ m + i \in 1 .. m + k
  OBVIOUS
<1>4. \A i \in 1 .. m + k : i \in 1 .. m \/ \E j \in 1 .. k : i = m + j
  <2>1. \A i \in 1 .. m + k : i \in 1 .. m \/ (i - m \in 1 .. k /\ i = m + (i - m))
    BY <1>1
  <2> QED
    BY <2>1
<1> HIDE DEF m, k
<1>5. \A i \in 1 .. m + k : (s \o t)[i] \in {s[j] : j \in 1 .. m} \cup {t[j] : j \in 1 .. k}
  BY <1>2, <1>3, <1>4
<1>6. {(s \o t)[i] : i \in 1 .. m + k} \subseteq {s[j] : j \in 1 .. m} \cup {t[j] : j \in 1 .. k}
  BY <1>5
<1>7. {s[j] : j \in 1 .. m} \subseteq {(s \o t)[i] : i \in 1 .. m + k}
  BY Zenon, <1>2
<1>8. {t[j] : j \in 1 .. k} \subseteq {(s \o t)[i] : i \in 1 .. m + k}
  BY Zenon, <1>3
<1>9. {(s \o t)[i] : i \in 1 .. m + k} = {s[j] : j \in 1 .. m} \cup {t[j] : j \in 1 .. k}
  BY Zenon, <1>6, <1>7, <1>8
<1> QED
  BY Zenon, <1>1, <1>9 DEF m, k, Items

\* The spiral of n rings is a sequence of all the regions of the square of side
\* 2n + 1, as long as there are such regions.
LEMMA SpiralCoversSquare ==
    \A n \in Nat : /\ Spiral[n] \in Seq(Places)
                   /\ Len(Spiral[n]) = Sq(2 * n + 1)
                   /\ Items(Spiral[n]) = Square(n)
<1> DEFINE Good == {n \in Nat : /\ Spiral[n] \in Seq(Places)
                                /\ Len(Spiral[n]) = Sq(2 * n + 1)
                                /\ Items(Spiral[n]) = Square(n)}
<1>1. 0 \in Good
  <2>1. <<<<0, 0>>>> \in Seq(Places) /\ Len(<<<<0, 0>>>>) = 1
    BY DEF Places
  <2>2. Items(<<<<0, 0>>>>) = {<<0, 0>>}
    BY DEF Items
  <2>3. Square(0) = {<<0, 0>>}
    BY DEF Square
  <2>4. Sq(2 * 0 + 1) = 1
    BY DEF Sq
  <2>5. 0 \in Nat
    OBVIOUS
  <2> QED
    BY Zenon, <2>1, <2>2, <2>3, <2>4, <2>5, SpiralUnfolds
<1>2. ASSUME NEW n \in Nat, n \in Good
      PROVE  n + 1 \in Good
  <2> DEFINE s == Spiral[n]  t == Sorted(Ring(n + 1))
  <2>0. n + 1 \in Nat \ {0} /\ (n + 1) - 1 = n /\ 2 * (n + 1) - 1 = 2 * n + 1
    OBVIOUS
  <2>1. Spiral[n + 1] = s \o t
    BY Zenon, <2>0, SpiralUnfolds
  <2>2. /\ s \in Seq(Places) /\ Len(s) = Sq(2 * n + 1)
        /\ Items(s) = Square(n)
    BY <1>2
  <2>3. /\ IsFiniteSet(Ring(n + 1)) /\ Ring(n + 1) \in SUBSET Places
        /\ Cardinality(Ring(n + 1)) = Sq(2 * (n + 1) + 1) - Sq(2 * (n + 1) - 1)
    BY <2>0, RingSize
  <2>4. /\ t \in Seq(Ring(n + 1)) /\ Len(t) = Cardinality(Ring(n + 1))
        /\ \A c \in Ring(n + 1) : \E i \in 1 .. Len(t) : t[i] = c
    BY <2>3, SortedIsPermutation
  <2> HIDE DEF s, t
  <2>5. t \in Seq(Places) /\ Items(t) = Ring(n + 1)
    <3>1. \A i \in 1 .. Len(t) : t[i] \in Ring(n + 1)
      BY <2>4
    <3>2. t \in Seq(Places)
      BY <2>3, <2>4
    <3> QED
      BY <2>4, <3>1, <3>2 DEF Items
  <2>6. s \o t \in Seq(Places) /\ Len(s \o t) = Len(s) + Len(t)
    BY <2>2, <2>5
  <2>7. Items(s \o t) = Items(s) \cup Items(t)
    <3>1. s \in Seq(Places) /\ t \in Seq(Places)
      BY <2>2, <2>5
    <3> QED
      BY Zenon, <3>1, Concatenated
  <2>8. Len(s \o t) = Sq(2 * (n + 1) + 1)
    BY <2>0, <2>2, <2>3, <2>4, <2>6 DEF Sq
  <2>9. Square(n + 1) = Square(n) \cup Ring(n + 1)
    BY <2>0, RingSurrounds
  <2> QED
    BY Zenon, <2>0, <2>1, <2>2, <2>5, <2>6, <2>7, <2>8, <2>9
<1>3. \A n \in Nat : n \in Good
  <2> HIDE DEF Good
  <2> QED
    BY <1>1, <1>2, AllNaturals
<1> QED
  BY <1>3

-----------------------------------------------------------------------------
(* fill_tasks_table *)

\* config.shape is a str, which no test of is_inside_shape is equal to: all rows
\* of the spiral are inside.
LEMMA RowsAreSpiral ==
    ASSUME NEW r \in Radii, NEW sh \in Shapes
    PROVE  CeilDiv(r, 32) \in Nat /\ Rows(r, sh) = Spiral[CeilDiv(r, 32)]
<1> DEFINE order == Spiral[CeilDiv(r, 32)]
           n == Len(order)
           kept == {i \in DOMAIN order : IsInsideShape(order[i][1] * 32, order[i][2] * 32, sh, r)}
           Nth(k) == CHOOSE i \in kept : Cardinality({j \in kept : j < i}) = k - 1
<1>1. CeilDiv(r, 32) \in Nat
  BY TableAssumption DEF CeilDiv
<1>2. order \in Seq(Places) /\ n \in Nat /\ DOMAIN order = 1 .. n /\ order \in [1 .. n -> Places]
  <2>1. order \in Seq(Places)
    BY Zenon, <1>1, SpiralCoversSquare
  <2> HIDE DEF order
  <2> QED
    BY <2>1
<1>3. \A s : sh # Member(s)
  <2>1. sh = <<"str", sh[2]>>
    BY TableAssumption
  <2> QED
    BY <2>1 DEF Member
<1>4. \A cx, cz : IsInsideShape(cx, cz, sh, r)
  BY Zenon, <1>3 DEF IsInsideShape
<1>5. kept = 1 .. n
  BY Zenon, <1>2, <1>4
<1>6. Rows(r, sh) = [k \in 1 .. Cardinality(kept) |-> order[Nth(k)]]
  BY DEF Rows
<1> HIDE DEF kept, order, n
<1>7. Cardinality(kept) = n
  <2>1. Cardinality(1 .. n) = IF 1 > n THEN 0 ELSE n - 1 + 1
    BY <1>2, FS_Interval
  <2> QED
    BY <1>2, <1>5, <2>1
<1>8. ASSUME NEW i \in 1 .. n
      PROVE  Cardinality({j \in kept : j < i}) = i - 1
  <2>1. {j \in kept : j < i} = 1 .. i - 1
    BY <1>2, <1>5
  <2>2. Cardinality(1 .. i - 1) = IF 1 > i - 1 THEN 0 ELSE (i - 1) - 1 + 1
    BY <1>2, FS_Interval
  <2>3. Cardinality(1 .. i - 1) = i - 1
    BY <1>2, <2>2
  <2> QED
    BY Zenon, <2>1, <2>3
<1>9. \A k \in 1 .. n : Nth(k) = k
  BY <1>2, <1>5, <1>8
<1>10. Rows(r, sh) = [k \in 1 .. n |-> order[k]]
  <2> HIDE DEF Nth
  <2> QED
    BY Zenon, <1>6, <1>7, <1>9
<1>11. order = [k \in 1 .. n |-> order[k]]
  BY <1>2
<1> QED
  BY Zenon, <1>1, <1>10, <1>11 DEF order

\* The first part of a concatenation is a prefix of it.
LEMMA StartIsPrefix ==
    ASSUME NEW S, NEW s \in Seq(S), NEW t \in Seq(S)
    PROVE  IsPrefix(s, s \o t)
<1>1. Len(s \o t) = Len(s) + Len(t) /\ Len(s) \in Nat /\ Len(t) \in Nat
  OBVIOUS
<1>2. SubSeq(s \o t, 1, Len(s)) = s /\ SubSeq(s, 1, Len(s)) = s
  BY SubSeqOfConcat1, SubSeqFull
<1> QED
  BY <1>1, <1>2 DEF IsPrefix

\* A part taken from what is left and added to the table leaves their
\* concatenation as it was.
LEMMA PartMoves ==
    ASSUME NEW S, NEW s \in Seq(S), NEW t \in Seq(S), NEW k \in 0 .. Len(t)
    PROVE  /\ SubSeq(t, 1, k) \in Seq(S) /\ SubSeq(t, k + 1, Len(t)) \in Seq(S)
           /\ (s \o SubSeq(t, 1, k)) \o SubSeq(t, k + 1, Len(t)) = s \o t
<1> DEFINE first == SubSeq(t, 1, k)
           rest  == SubSeq(t, k + 1, Len(t))
<1>1. Len(t) \in Nat /\ SubSeq(t, 1, Len(t)) = t
  BY SubSeqFull
<1>2. first \in Seq(S) /\ rest \in Seq(S)
  OBVIOUS
<1>3. first \o rest = t
  <2>1. 1 \in 1 .. Len(t) + 1 /\ k \in 1 - 1 .. Len(t) /\ Len(t) \in k .. Len(t)
    BY <1>1
  <2>2. first \o rest = SubSeq(t, 1, Len(t))
    BY <2>1, ConcatAdjacentSubSeq
  <2> QED
    BY <1>1, <2>2
<1> HIDE DEF first, rest
<1>4. (s \o first) \o rest = s \o (first \o rest)
  BY <1>2, ConcatAssociative
<1> QED
  BY <1>2, <1>3, <1>4 DEF first, rest

\* What the table and the fill in progress have in common with the spiral of the
\* configuration the fill was made from.
FillInv ==
    /\ source.radius = 0 => table = <<>> /\ server = "down"
    /\ server = "serving" => table # <<>>
    /\ source.radius # 0 =>
        /\ IsPrefix(table, Spiral[Width])
        /\ server = "filling" => table \o todo = Spiral[Width]
        /\ server # "filling" /\ table # <<>> /\ ~cut => table = Spiral[Width]

\* The inductive invariant.
TableInv == TableTypeOK /\ FillInv

\* Once a fill has started, the spiral it goes through is a sequence of regions,
\* one for each region of the square.
LEMMA FillHasSpiral ==
    ASSUME TableTypeOK, source.radius # 0
    PROVE  /\ Width \in Nat /\ Spiral[Width] \in Seq(Places)
           /\ Len(Spiral[Width]) = Sq(2 * Width + 1)
           /\ Items(Spiral[Width]) = Square(Width)
<1> DEFINE r == source.radius
<1>1. r \in Nat
  BY TableAssumption DEF TableTypeOK
<1>2. Width = CeilDiv(r, 32)
  BY DEF Width
<1> HIDE DEF r
<1>3. Width \in Nat
  BY <1>1, <1>2 DEF CeilDiv
<1> QED
  BY Zenon, <1>3, SpiralCoversSquare

\* A new database has no rows, and no fill has run.
LEMMA InitTable == TableInit => TableInv
<1> SUFFICES ASSUME TableInit
             PROVE  TableInv
  OBVIOUS
<1>1. TableTypeOK
  <2>1. source \in [radius : Radii \cup {0}, shape : Shapes]
    BY DEF TableInit
  <2>2. <<>> \in Seq(Int \X Int)
    OBVIOUS
  <2> QED
    BY <2>1, <2>2 DEF TableInit, TableTypeOK
<1>2. FillInv
  BY DEF TableInit, FillInv
<1> QED
  BY <1>1, <1>2 DEF TableInv

\* A start reads the configuration and counts the rows.
LEMMA StartKeeps ==
    ASSUME TableInv, Start
    PROVE  TableInv'
<1> USE DEF TableInv
<1>1. CASE Populated
  <2>1. /\ server' = "serving" /\ server = "down"
        /\ UNCHANGED <<radius, shape, table, todo, source, cut>>
    BY <1>1 DEF Start
  <2>2. TableTypeOK'
    BY <2>1 DEF TableTypeOK
  <2>3. FillInv'
    BY <1>1, <2>1 DEF FillInv, Populated, Width
  <2> QED
    BY <2>2, <2>3
<1>2. CASE ~Populated
  <2>1. /\ server' = "filling" /\ server = "down"
        /\ todo' = Rows(radius, shape)
        /\ source' = [radius |-> radius, shape |-> shape]
        /\ UNCHANGED <<radius, shape, table, cut>>
        /\ table = <<>>
    BY Zenon, <1>2 DEF Start, Populated
  <2>2. radius \in Radii /\ shape \in Shapes /\ radius # 0
    BY TableAssumption DEF TableTypeOK
  <2>3. /\ source'.radius = radius
        /\ source' \in [radius : Radii \cup {0}, shape : Shapes]
    BY <2>1, <2>2
  <2>4. todo' = Spiral[Width'] /\ todo' \in Seq(Places)
    <3>1. CeilDiv(radius, 32) \in Nat /\ Rows(radius, shape) = Spiral[CeilDiv(radius, 32)]
      BY Zenon, <2>2, RowsAreSpiral
    <3>2. Width' = CeilDiv(radius, 32)
      BY <2>3 DEF Width
    <3>3. Spiral[CeilDiv(radius, 32)] \in Seq(Places)
      BY Zenon, <3>1, SpiralCoversSquare
    <3> QED
      BY Zenon, <2>1, <3>1, <3>2, <3>3
  <2>5. TableTypeOK'
    BY <2>1, <2>2, <2>3, <2>4 DEF TableTypeOK, Places
  <2>6. <<>> \o todo' = todo' /\ <<>> \in Seq(Places)
    BY <2>4
  <2>7. IsPrefix(<<>>, Spiral[Width'])
    BY Zenon, <2>4, <2>6, StartIsPrefix
  <2>8. FillInv'
    <3>1. table' = <<>> /\ server' = "filling" /\ source'.radius # 0
      BY <2>1, <2>2, <2>3
    <3>2. IsPrefix(table', Spiral[Width']) /\ table' \o todo' = Spiral[Width']
      BY Zenon, <2>4, <2>6, <2>7, <3>1
    <3> QED
      BY <3>1, <3>2 DEF FillInv
  <2> QED
    BY <2>5, <2>8
<1> QED
  BY <1>1, <1>2

\* A commit moves rows from what is left to the table.
LEMMA CommitKeeps ==
    ASSUME TableInv, Commit
    PROVE  TableInv'
<1> USE DEF TableInv
<1>1. /\ server = "filling"
      /\ UNCHANGED <<radius, shape, source, cut>>
      /\ source.radius # 0 /\ Width' = Width
      /\ table \in Seq(Places) /\ todo \in Seq(Places)
      /\ table \o todo = Spiral[Width]
  BY DEF Commit, TableTypeOK, FillInv, Places, Width
<1>2. Width \in Nat /\ Spiral[Width] \in Seq(Places) /\ Len(Spiral[Width]) = Sq(2 * Width + 1)
  BY Zenon, <1>1, FillHasSpiral
<1>3. CASE /\ Len(todo) >= PartSize
           /\ table' = table \o SubSeq(todo, 1, PartSize)
           /\ todo' = SubSeq(todo, PartSize + 1, Len(todo))
           /\ UNCHANGED server
  <2>1. PartSize \in 0 .. Len(todo)
    BY <1>1, <1>3, TableAssumption
  <2>2. /\ SubSeq(todo, 1, PartSize) \in Seq(Places) /\ todo' \in Seq(Places)
        /\ table' \o todo' = table \o todo
    <3>1. table \in Seq(Places) /\ todo \in Seq(Places)
      BY <1>1
    <3>2. /\ SubSeq(todo, 1, PartSize) \in Seq(Places)
          /\ SubSeq(todo, PartSize + 1, Len(todo)) \in Seq(Places)
          /\ (table \o SubSeq(todo, 1, PartSize)) \o SubSeq(todo, PartSize + 1, Len(todo))
               = table \o todo
      BY <2>1, <3>1, PartMoves
    <3> QED
      BY Zenon, <1>3, <3>2
  <2>3. table' \in Seq(Places)
    BY <1>1, <1>3, <2>2
  <2>4. TableTypeOK'
    BY <1>1, <1>3, <2>2, <2>3 DEF TableTypeOK, Places
  <2>5. IsPrefix(table', Spiral[Width])
    BY Zenon, <1>1, <2>2, <2>3, StartIsPrefix
  <2>6. FillInv'
    BY <1>1, <1>3, <2>2, <2>5 DEF FillInv
  <2> QED
    BY <2>4, <2>6
<1>4. CASE LastPart /\ todo' = <<>> /\ server' = "serving"
  <2>1. table' = Spiral[Width] /\ table' \in Seq(Places)
    BY <1>1, <1>2, <1>4 DEF LastPart
  <2>2. TableTypeOK'
    BY <1>1, <1>4, <2>1 DEF TableTypeOK, Places
  <2>3. table' \o <<>> = table' /\ <<>> \in Seq(Places)
    BY <2>1
  <2>4. IsPrefix(table', Spiral[Width])
    BY Zenon, <2>1, <2>3, StartIsPrefix
  <2>5. table' # <<>>
    <3>1. Sq(2 * Width + 1) # 0
      BY <1>2, SignsOfProducts DEF Sq
    <3> QED
      BY <1>2, <2>1, <3>1
  <2>6. FillInv'
    BY <1>1, <1>4, <2>1, <2>4, <2>5 DEF FillInv
  <2> QED
    BY <2>2, <2>6
<1> QED
  BY <1>3, <1>4 DEF Commit

\* A crash loses the rows still to add, never committed ones.
LEMMA ServerDiesKeeps ==
    ASSUME TableInv, ServerDies
    PROVE  TableInv'
<1> USE DEF TableInv
<1>1. /\ server # "down" /\ server' = "down" /\ todo' = <<>>
      /\ cut' = (cut \/ (server = "filling" /\ Populated))
      /\ UNCHANGED <<radius, shape, table, source>> /\ Width' = Width
  BY DEF ServerDies, Width
<1>2. TableTypeOK'
  <2>1. <<>> \in Seq(Int \X Int)
    OBVIOUS
  <2>2. cut' \in BOOLEAN
    BY Zenon, <1>1 DEF TableTypeOK
  <2> QED
    BY <1>1, <2>1, <2>2 DEF TableTypeOK
<1>3. FillInv'
  <2>1. cut' <=> cut \/ (server = "filling" /\ table # <<>>)
    BY Zenon, <1>1 DEF Populated
  <2>2. server \in {"down", "filling", "serving"}
    BY DEF TableTypeOK
  <2> QED
    BY <1>1, <2>1, <2>2 DEF FillInv
<1> QED
  BY <1>2, <1>3

\* Editing the configuration leaves the rows and their source alone.
LEMMA ReconfigureKeeps ==
    ASSUME TableInv, Reconfigure
    PROVE  TableInv'
<1> USE DEF TableInv
<1>1. /\ radius' \in Radii /\ shape' \in Shapes /\ Width' = Width
      /\ UNCHANGED <<table, todo, server, source, cut>>
  BY DEF Reconfigure, Width
<1>2. TableTypeOK'
  BY <1>1 DEF TableTypeOK
<1>3. FillInv'
  BY <1>1 DEF FillInv
<1> QED
  BY <1>2, <1>3

\* The invariant is inductive.
LEMMA NextTable == TableInv /\ [TableNext]_tableVars => TableInv'
<1> SUFFICES ASSUME TableInv, [TableNext]_tableVars
             PROVE  TableInv'
  OBVIOUS
<1>1. CASE Start
  BY <1>1, StartKeeps
<1>2. CASE Commit
  BY <1>2, CommitKeeps
<1>3. CASE ServerDies
  BY <1>3, ServerDiesKeeps
<1>4. CASE Reconfigure
  BY <1>4, ReconfigureKeeps
<1>5. CASE UNCHANGED tableVars
  <2>1. UNCHANGED <<radius, shape, table, todo, server, source, cut>> /\ Width' = Width
    BY <1>5 DEF tableVars, Width
  <2>2. TableTypeOK'
    BY <2>1 DEF TableInv, TableTypeOK
  <2>3. FillInv'
    BY <2>1 DEF TableInv, FillInv
  <2> QED
    BY <2>2, <2>3 DEF TableInv
<1> QED
  BY <1>1, <1>2, <1>3, <1>4, <1>5 DEF TableNext

\* Configuration, rows and phase of the server stay in their types, and rows wait
\* only while a fill runs.
THEOREM TableTypesHold == TableSpec => []TableTypeOK
<1>1. TableInv => TableTypeOK
  BY DEF TableInv
<1> QED
  BY <1>1, InitTable, NextTable, PTL DEF TableSpec

\* A table that is being filled is what is left short of the spiral; at any other
\* time nothing is left.
LEMMA PrefixFollows == TableInv => TableIsOnePrefix
<1> SUFFICES ASSUME TableInv, source.radius # 0
             PROVE  /\ IsPrefix(table \o todo, Spiral[Width])
                    /\ server = "filling" => Len(table \o todo) = Sq(2 * Width + 1)
  BY DEF TableIsOnePrefix
<1>1. Width \in Nat /\ Spiral[Width] \in Seq(Places) /\ Len(Spiral[Width]) = Sq(2 * Width + 1)
  BY FillHasSpiral DEF TableInv
<1>2. CASE server = "filling"
  <2>1. table \o todo = Spiral[Width]
    BY <1>2 DEF TableInv, FillInv
  <2>2. Spiral[Width] \o <<>> = Spiral[Width] /\ <<>> \in Seq(Places)
    BY <1>1
  <2>3. IsPrefix(Spiral[Width], Spiral[Width])
    BY Zenon, <1>1, <2>2, StartIsPrefix
  <2> QED
    BY Zenon, <1>1, <2>1, <2>3
<1>3. CASE server # "filling"
  <2>1. todo = <<>> /\ table \in Seq(Int \X Int)
    BY <1>3 DEF TableInv, TableTypeOK
  <2>2. table \o todo = table
    BY <2>1
  <2>3. IsPrefix(table, Spiral[Width])
    BY DEF TableInv, FillInv
  <2> QED
    BY Zenon, <1>3, <2>2, <2>3
<1> QED
  BY <1>2, <1>3

\* Rows committed and rows to come are always the spiral of one configuration, in
\* order: no restart in the middle of a fill and no edited radius mixes two fills.
THEOREM TableIsAlwaysOnePrefix == TableSpec => []TableIsOnePrefix
  BY PrefixFollows, InitTable, NextTable, PTL DEF TableSpec

\* A table served without a cut is the whole spiral.
LEMMA CompleteFollows == TableInv => TableIsComplete
<1> SUFFICES ASSUME TableInv, server = "serving", ~cut
             PROVE  /\ Range(table) = (-Width .. Width) \X (-Width .. Width)
                    /\ Len(table) = Sq(2 * Width + 1)
  BY DEF TableIsComplete
<1>1. source.radius # 0 /\ table # <<>>
  BY DEF TableInv, FillInv
<1>2. table = Spiral[Width]
  BY <1>1 DEF TableInv, FillInv
<1>4. /\ Spiral[Width] \in Seq(Places) /\ Len(Spiral[Width]) = Sq(2 * Width + 1)
      /\ Items(Spiral[Width]) = Square(Width)
  BY <1>1, FillHasSpiral DEF TableInv
<1>5. Range(table) = Items(table)
  BY <1>2, <1>4 DEF Range, Items
<1> QED
  BY Zenon, <1>2, <1>4, <1>5 DEF Square

\* A table served after fills that were never cut short has each region of the
\* square exactly once, for any radius and any number of rows per commit.
THEOREM TableIsAlwaysComplete == TableSpec => []TableIsComplete
  BY CompleteFollows, InitTable, NextTable, PTL DEF TableSpec

=============================================================================
