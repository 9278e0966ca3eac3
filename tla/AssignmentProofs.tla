--------------------------- MODULE AssignmentProofs ---------------------------
(***************************************************************************)
(* What compute_rebalance returns, for every number of members and buckets: *)
(* each active member owns exactly its quota, and every bucket it can keep  *)
(* it keeps.  The argument counts by bijections: ranks number a finite set, *)
(* claims pair a member with the number of one of its buckets.             *)
(***************************************************************************)
EXTENDS Assignment, FiniteSetTheorems, FunctionTheorems, TLAPS

-----------------------------------------------------------------------------
\* A half-open interval of numbers has as many elements as it is long.
LEMMA IntervalCount ==
  ASSUME NEW lo \in Nat, NEW hi \in Nat, lo <= hi
  PROVE  IsFiniteSet(lo .. hi - 1) /\ Cardinality(lo .. hi - 1) = hi - lo
<1> DEFINE last == hi - 1
<1>1. last \in Int /\ lo \in Int
  OBVIOUS
<1> HIDE DEF last
<1>2. /\ IsFiniteSet(lo .. last)
      /\ Cardinality(lo .. last) = IF lo > last THEN 0 ELSE last - lo + 1
  BY <1>1, FS_Interval, Zenon
<1>3. (IF lo > last THEN 0 ELSE last - lo + 1) = hi - lo
  BY DEF last
<1> QED BY <1>2, <1>3 DEF last

-----------------------------------------------------------------------------
(* Ranks.                                                                   *)

\* How many elements of S are smaller.
Rank(S, x) == Cardinality({y \in S : y < x})

\* A smaller element has a smaller rank.
LEMMA RankGrows ==
  ASSUME NEW S \in SUBSET Nat, IsFiniteSet(S), NEW x \in S, NEW y \in S, x < y
  PROVE  /\ Rank(S, x) \in Nat /\ Rank(S, y) \in Nat
         /\ Rank(S, x) < Rank(S, y) /\ Rank(S, y) < Cardinality(S)
<1> DEFINE below(z) == {w \in S : w < z}
<1>1. /\ IsFiniteSet(below(x)) /\ IsFiniteSet(below(y))
      /\ Cardinality(below(x)) \in Nat /\ Cardinality(below(y)) \in Nat /\ Cardinality(S) \in Nat
  <2>1. below(x) \in SUBSET S /\ below(y) \in SUBSET S
    OBVIOUS
  <2> QED BY <2>1, FS_Subset, FS_CardinalityType
<1>2. Cardinality(below(x)) < Cardinality(below(y))
  <2>1. \A w \in S : w < x => w < y
    OBVIOUS
  <2>2. below(x) \in SUBSET below(y) /\ x \in below(y) /\ x \notin below(x)
    <3>1. x \in Nat /\ ~(x < x)
      OBVIOUS
    <3> QED BY <2>1, <3>1
  <2> HIDE DEF below
  <2> QED BY <1>1, <2>2, FS_Subset
<1>3. Cardinality(below(y)) < Cardinality(S)
  <2>1. below(y) \in SUBSET S /\ y \in S /\ y \notin below(y)
    OBVIOUS
  <2> HIDE DEF below
  <2> QED BY <1>1, <2>1, FS_Subset
<1> QED BY <1>1, <1>2, <1>3 DEF Rank

\* Ranks number the elements from 0.
LEMMA RankType ==
  ASSUME NEW S \in SUBSET Nat, IsFiniteSet(S), NEW x \in S
  PROVE  Rank(S, x) \in 0 .. Cardinality(S) - 1
<1> DEFINE below == {w \in S : w < x}
<1>1. below \in SUBSET S /\ x \in S /\ x \notin below
  OBVIOUS
<1> HIDE DEF below
<1>2. IsFiniteSet(below) /\ Cardinality(below) \in Nat /\ Cardinality(S) \in Nat
  BY <1>1, FS_Subset, FS_CardinalityType
<1>3. Cardinality(below) <= Cardinality(S) /\ Cardinality(below) # Cardinality(S)
  BY <1>1, FS_Subset
<1>4. Rank(S, x) = Cardinality(below)
  BY DEF Rank, below
<1> QED BY <1>2, <1>3, <1>4

\* ... each with a number of its own, and none is left out.
LEMMA RankBijection ==
  ASSUME NEW S \in SUBSET Nat, IsFiniteSet(S)
  PROVE  [x \in S |-> Rank(S, x)] \in Bijection(S, 0 .. Cardinality(S) - 1)
<1> DEFINE rank == [x \in S |-> Rank(S, x)]
           range == 0 .. Cardinality(S) - 1
<1>1. Cardinality(S) \in Nat
  BY FS_CardinalityType
<1>2. rank \in Injection(S, range)
  <2>1. rank \in [S -> range]
    BY RankType
  <2>2. ASSUME NEW x \in S, NEW y \in S, x # y
        PROVE  rank[x] # rank[y]
    <3>1. CASE x < y
      BY <3>1, RankGrows
    <3>2. CASE y < x
      BY <3>2, RankGrows
    <3> QED BY <2>2, <3>1, <3>2
  <2> HIDE DEF rank, range
  <2> QED BY <2>1, <2>2, Fun_IsInj
<1>3. IsFiniteSet(range) /\ Cardinality(range) = Cardinality(S)
  BY <1>1, IntervalCount
<1> HIDE DEF rank, range
<1>4. rank \in Surjection(S, range)
  BY <1>2, <1>3, FS_Injection
<1>5. rank \in Bijection(S, range)
  BY <1>2, <1>4 DEF Bijection
<1> QED BY <1>5 DEF rank, range

\* ... said of the ranks themselves.
LEMMA RankNumbers ==
  ASSUME NEW S \in SUBSET Nat, IsFiniteSet(S)
  PROVE  /\ \A x \in S : Rank(S, x) \in 0 .. Cardinality(S) - 1
         /\ \A x, y \in S : Rank(S, x) = Rank(S, y) => x = y
         /\ \A i \in 0 .. Cardinality(S) - 1 : \E x \in S : Rank(S, x) = i
<1>1. PICK rank : rank = [x \in S |-> Rank(S, x)]
  OBVIOUS
<1>2. PICK all : all = 0 .. Cardinality(S) - 1
  OBVIOUS
<1>3. rank \in Bijection(S, all)
  BY <1>1, <1>2, RankBijection
<1>4. /\ \A x, y \in S : rank[x] = rank[y] => x = y
      /\ \A i \in all : \E x \in S : rank[x] = i
  BY <1>3 DEF Bijection, Injection, Surjection, IsInjective
<1>5. \A x \in S : rank[x] = Rank(S, x)
  BY <1>1
<1>6. \A x \in S : Rank(S, x) \in 0 .. Cardinality(S) - 1
  BY RankType
<1>7. \A x, y \in S : Rank(S, x) = Rank(S, y) => x = y
  BY <1>4, <1>5
<1>8. \A i \in all : \E x \in S : Rank(S, x) = i
  BY <1>4, <1>5
<1> QED BY <1>2, <1>6, <1>7, <1>8

\* The elements whose rank lies in an interval are as many as the interval is long.
LEMMA RankInterval ==
  ASSUME NEW S \in SUBSET Nat, IsFiniteSet(S), NEW lo \in Nat, NEW hi \in Nat,
         lo <= hi, hi <= Cardinality(S)
  PROVE  Cardinality({x \in S : lo <= Rank(S, x) /\ Rank(S, x) < hi}) = hi - lo
<1> DEFINE chosen == {x \in S : lo <= Rank(S, x) /\ Rank(S, x) < hi}
           range  == lo .. hi - 1
           number == [x \in chosen |-> Rank(S, x)]
<1>1. Cardinality(S) \in Nat
  BY FS_CardinalityType
<1>2. /\ \A x, y \in S : Rank(S, x) = Rank(S, y) => x = y
      /\ \A i \in 0 .. Cardinality(S) - 1 : \E x \in S : Rank(S, x) = i
      /\ \A x \in S : Rank(S, x) \in Nat
  BY RankNumbers
<1>3. number \in Bijection(chosen, range)
  <2>1. number \in [chosen -> range]
    <3>1. \A x \in chosen : Rank(S, x) \in range
      BY <1>2
    <3> HIDE DEF chosen, range
    <3> QED BY <3>1
  <2>2. \A x, y \in chosen : number[x] = number[y] => x = y
    BY <1>2
  <2>3. \A i \in range : \E x \in chosen : number[x] = i
    <3> SUFFICES ASSUME NEW i \in range PROVE \E x \in chosen : number[x] = i
      OBVIOUS
    <3>1. PICK x \in S : Rank(S, x) = i
      BY <1>1, <1>2
    <3> QED BY <3>1
  <2> HIDE DEF number, range, chosen
  <2> QED BY <2>1, <2>2, <2>3, Fun_IsBij
<1>4. IsFiniteSet(chosen) /\ ExistsBijection(chosen, range)
  <2>1. chosen \in SUBSET S
    OBVIOUS
  <2> HIDE DEF number, range, chosen
  <2> QED BY <1>3, <2>1, FS_Subset, Fun_ExistsBij
<1>5. Cardinality(range) = hi - lo
  BY IntervalCount
<1> HIDE DEF range, chosen
<1>6. Cardinality(range) = Cardinality(chosen)
  BY <1>4, FS_Bijection
<1> QED BY <1>5, <1>6 DEF chosen

\* A nonempty finite set of numbers has a least element, of rank 0, and a greatest.
LEMMA LeastAndGreatest ==
  ASSUME NEW S \in SUBSET Nat, IsFiniteSet(S), S # {}
  PROVE  /\ \E x \in S : \A y \in S : x <= y
         /\ \E x \in S : \A y \in S : y <= x
<1>1. Cardinality(S) \in Nat /\ Cardinality(S) # 0
  BY FS_CardinalityType, FS_EmptySet
<1>2. \A i \in 0 .. Cardinality(S) - 1 : \E x \in S : Rank(S, x) = i
  BY RankNumbers
<1>3. ASSUME NEW x \in S, NEW y \in S, x < y
      PROVE  Rank(S, x) \in Nat /\ Rank(S, y) \in Nat /\ Rank(S, x) < Rank(S, y)
  BY <1>3, RankGrows
<1>4. \A x \in S : Rank(S, x) \in 0 .. Cardinality(S) - 1
  BY RankType
<1>5. PICK x \in S : Rank(S, x) = 0
  BY <1>1, <1>2
<1>6. PICK z \in S : Rank(S, z) = Cardinality(S) - 1
  BY <1>1, <1>2
<1>7. \A y \in S : x <= y
  BY <1>3, <1>4, <1>5
<1>8. \A y \in S : y <= z
  BY <1>1, <1>3, <1>4, <1>6
<1> QED BY <1>7, <1>8

-----------------------------------------------------------------------------
(* Quotas add up.                                                           *)

\* Quotient and remainder.
LEMMA DivMod ==
  ASSUME NEW a \in Nat, NEW n \in Nat \ {0}
  PROVE  a \div n \in Nat /\ a % n \in 0 .. n - 1 /\ a = (a \div n) * n + (a % n)
OBVIOUS

\* More rows of n reach further.
LEMMA RowsGrow ==
  ASSUME NEW n \in Nat, NEW k \in Nat, NEW l \in Nat, k < l
  PROVE  k * n \in Nat /\ l * n \in Nat /\ k * n + n <= l * n
<1>1. PICK d \in Nat : l = k + 1 + d
  <2>1. l - k - 1 \in Nat /\ l = k + 1 + (l - k - 1)
    OBVIOUS
  <2> QED BY <2>1
<1>2. (k + 1 + d) * n = k * n + n + d * n /\ d * n \in Nat /\ k * n \in Nat /\ l * n \in Nat
  OBVIOUS
<1> QED BY <1>1, <1>2

\* A number is in one row of n, at one place.
LEMMA RowUnique ==
  ASSUME NEW n \in Nat, NEW k \in Nat, NEW l \in Nat, NEW i \in 0 .. n - 1, NEW j \in 0 .. n - 1,
         k * n + i = l * n + j
  PROVE  k = l /\ i = j
<1>1. k * n \in Nat /\ l * n \in Nat
  OBVIOUS
<1>2. ~(k < l)
  BY <1>1, RowsGrow
<1>3. ~(l < k)
  BY <1>1, RowsGrow
<1> QED BY <1>1, <1>2, <1>3

\* Place i of row k is one of the first B numbers when row k is below the quotient,
\* or is the last one and i is below the remainder.
LEMMA RowFits ==
  ASSUME NEW n \in Nat \ {0}, NEW B \in Nat, NEW k \in Nat, NEW i \in 0 .. n - 1
  PROVE  k * n + i < B <=> k < B \div n + (IF i < B % n THEN 1 ELSE 0)
<1>1. PICK q \in Nat, r \in 0 .. n - 1 : q = B \div n /\ r = B % n /\ B = q * n + r
  BY DivMod
<1>2. k * n \in Nat /\ q * n \in Nat
  OBVIOUS
<1>3. CASE k < q
  BY <1>1, <1>2, <1>3, RowsGrow
<1>4. CASE q < k
  BY <1>1, <1>2, <1>4, RowsGrow
<1>5. CASE k = q
  BY <1>1, <1>2, <1>5
<1> QED BY <1>3, <1>4, <1>5

\* The pairs of an m in S and a number up to f[m].
Claims(S, f) == UNION {{m} \X (1 .. f[m]) : m \in S}

LEMMA ClaimPairs ==
  ASSUME NEW S, NEW f
  PROVE  /\ \A c \in Claims(S, f) : c[1] \in S /\ c[2] \in 1 .. f[c[1]] /\ c = <<c[1], c[2]>>
         /\ \A m \in S : \A k \in 1 .. f[m] : <<m, k>> \in Claims(S, f)
BY DEF Claims

Quota(S) == [m \in S |-> balanced_bucket_count(S, m)]

\* Buckets are numbered.
LEMMA BucketsFinite ==
  /\ IsFiniteSet(Bucket) /\ Cardinality(Bucket) = BucketCount
  /\ BucketCount \in Nat \ {0} /\ Bucket \in SUBSET Nat
BY BucketCountAssumption, IntervalCount DEF Bucket

\* Quotas are numbers.
LEMMA QuotaType ==
  ASSUME NEW S \in SUBSET Member, NEW m \in S
  PROVE  balanced_bucket_count(S, m) \in Nat /\ Quota(S)[m] = balanced_bucket_count(S, m)
<1>1. IsFiniteSet(S) /\ Cardinality(S) \in Nat \ {0}
  BY MemberAssumption, FS_Subset, FS_CardinalityType, FS_EmptySet
<1>2. BucketCount \div Cardinality(S) \in Nat
  BY <1>1, BucketCountAssumption, DivMod
<1> QED BY <1>2 DEF balanced_bucket_count, Quota

\* The quotas of the active members add up to the number of buckets: member of rank i
\* and its k-th bucket are number (k - 1) * n + i.
LEMMA QuotasAddUp ==
  ASSUME NEW S \in SUBSET Member, S # {}
  PROVE  IsFiniteSet(Claims(S, Quota(S))) /\ Cardinality(Claims(S, Quota(S))) = BucketCount
<1> DEFINE Q == Claims(S, Quota(S))
           n == Cardinality(S)
           number == [c \in Q |-> (c[2] - 1) * n + Rank(S, c[1])]
<1>1. /\ S \in SUBSET Nat /\ IsFiniteSet(S) /\ n \in Nat \ {0}
      /\ BucketCount \in Nat
  BY MemberAssumption, BucketCountAssumption, FS_Subset, FS_CardinalityType, FS_EmptySet
<1>2. /\ \A m \in S : Rank(S, m) \in 0 .. n - 1
      /\ \A m, k \in S : Rank(S, m) = Rank(S, k) => m = k
      /\ \A i \in 0 .. n - 1 : \E m \in S : Rank(S, m) = i
  BY <1>1, RankNumbers
<1>3. \A m \in S : /\ Quota(S)[m] \in Nat
                   /\ Quota(S)[m] = BucketCount \div n + (IF Rank(S, m) < BucketCount % n THEN 1 ELSE 0)
  BY QuotaType DEF balanced_bucket_count, Rank
<1>4. /\ \A c \in Q : c[1] \in S /\ c[2] \in 1 .. Quota(S)[c[1]] /\ c = <<c[1], c[2]>>
      /\ \A m \in S : \A k \in 1 .. Quota(S)[m] : <<m, k>> \in Q
  BY ClaimPairs
<1> HIDE DEF Q, n
<1> HIDE DEF number
<1>5. \A m \in S : \A k \in Nat :
        /\ k * n \in Nat
        /\ k * n + Rank(S, m) < BucketCount <=> k < Quota(S)[m]
  <2> SUFFICES ASSUME NEW m \in S, NEW k \in Nat
               PROVE  /\ k * n \in Nat
                      /\ k * n + Rank(S, m) < BucketCount <=> k < Quota(S)[m]
    OBVIOUS
  <2>1. PICK i \in 0 .. n - 1 : i = Rank(S, m)
    BY <1>2
  <2>2. k * n + i < BucketCount <=> k < BucketCount \div n + (IF i < BucketCount % n THEN 1 ELSE 0)
    BY <1>1, RowFits
  <2>3. k * n \in Nat
    BY <1>1
  <2> QED BY <1>3, <2>1, <2>2, <2>3
<1>6. ASSUME NEW c \in Q
      PROVE  /\ c[2] - 1 \in Nat /\ (c[2] - 1) * n + Rank(S, c[1]) \in Bucket
  <2>1. c[1] \in S /\ c[2] \in Nat /\ c[2] - 1 \in Nat /\ c[2] - 1 < Quota(S)[c[1]]
    BY <1>3, <1>4
  <2>2. PICK k \in Nat, m \in S : k = c[2] - 1 /\ m = c[1]
    BY <2>1
  <2>3. k * n \in Nat /\ k * n + Rank(S, m) < BucketCount
    BY <1>5, <2>1, <2>2
  <2>4. Rank(S, m) \in Nat
    BY <1>2
  <2>5. k * n + Rank(S, m) \in Bucket
    BY <1>1, <2>3, <2>4 DEF Bucket
  <2> QED BY <2>2, <2>5
<1>7. \A c, d \in Q : number[c] = number[d] => c = d
  <2> SUFFICES ASSUME NEW c \in Q, NEW d \in Q, number[c] = number[d] PROVE c = d
    OBVIOUS
  <2>1. (c[2] - 1) * n + Rank(S, c[1]) = (d[2] - 1) * n + Rank(S, d[1])
    BY DEF number
  <2>2. c[2] - 1 = d[2] - 1 /\ Rank(S, c[1]) = Rank(S, d[1])
    BY <1>1, <1>2, <1>4, <1>6, <2>1, RowUnique
  <2>3. c[2] = d[2]
    BY <1>3, <1>4, <2>2
  <2> QED BY <1>2, <1>4, <2>2, <2>3
<1>8. \A b \in Bucket : \E c \in Q : number[c] = b
  <2> SUFFICES ASSUME NEW b \in Bucket PROVE \E c \in Q : number[c] = b
    OBVIOUS
  <2>1. b \in Nat /\ b < BucketCount
    BY <1>1 DEF Bucket
  <2>2. PICK k \in Nat, i \in 0 .. n - 1 : b = k * n + i
    BY <1>1, <2>1, DivMod
  <2>3. PICK m \in S : Rank(S, m) = i
    BY <1>2
  <2>4. k < Quota(S)[m]
    BY <1>5, <2>1, <2>2, <2>3
  <2>5. k + 1 \in 1 .. Quota(S)[m] /\ (k + 1) - 1 = k
    BY <1>3, <2>4
  <2>6. <<m, k + 1>> \in Q
    BY <1>4, <2>5
  <2>7. number[<<m, k + 1>>] = k * n + i
    BY <2>3, <2>5, <2>6 DEF number
  <2> QED BY <2>2, <2>6, <2>7
<1>9. number \in Bijection(Q, Bucket)
  <2>1. number \in [Q -> Bucket]
    BY <1>6 DEF number
  <2> QED BY <1>7, <1>8, <2>1, Fun_IsBij
<1>10. ExistsBijection(Bucket, Q)
  <2>1. ExistsBijection(Q, Bucket)
    BY <1>9, Fun_ExistsBij
  <2> QED BY <2>1, Fun_ExistsBijSymmetric
<1>11. IsFiniteSet(Bucket) /\ Cardinality(Bucket) = BucketCount
  BY BucketsFinite
<1>12. IsFiniteSet(Q) /\ Cardinality(Q) = BucketCount
  BY <1>10, <1>11, FS_Bijection
<1> QED BY <1>12 DEF Q

-----------------------------------------------------------------------------
(* What is retained.                                                        *)

\* Buckets chosen among those of members in S are as many as the claims that number
\* them for each owner.
LEMMA CountByOwner ==
  ASSUME NEW owners, NEW S, NEW K \in SUBSET Bucket, \A b \in K : owners[b] \in S
  PROVE  LET count == [m \in S |-> Cardinality(K \cap OwnedBuckets(owners, m))]
         IN  IsFiniteSet(Claims(S, count)) /\ Cardinality(Claims(S, count)) = Cardinality(K)
<1> DEFINE own(m) == K \cap OwnedBuckets(owners, m)
           count == [m \in S |-> Cardinality(own(m))]
           C == Claims(S, count)
           number == [b \in K |-> <<owners[b], Rank(own(owners[b]), b) + 1>>]
<1>1. IsFiniteSet(K)
  BY BucketsFinite, FS_Subset
<1>2. \A m \in S : own(m) \in SUBSET Nat /\ IsFiniteSet(own(m)) /\ count[m] = Cardinality(own(m))
                   /\ Cardinality(own(m)) \in Nat
  <2> SUFFICES ASSUME NEW m \in S
               PROVE  own(m) \in SUBSET Nat /\ IsFiniteSet(own(m)) /\ count[m] = Cardinality(own(m))
                      /\ Cardinality(own(m)) \in Nat
    OBVIOUS
  <2>1. own(m) \in SUBSET K /\ K \in SUBSET Nat
    BY BucketsFinite
  <2> QED BY <1>1, <2>1, FS_Subset, FS_CardinalityType
<1>3. \A b \in K : b \in own(owners[b])
  BY DEF OwnedBuckets
<1>4. \A m \in S : \A b \in own(m) : b \in K /\ owners[b] = m
  BY DEF OwnedBuckets
<1>5. /\ \A c \in C : c[1] \in S /\ c[2] \in 1 .. count[c[1]] /\ c = <<c[1], c[2]>>
      /\ \A m \in S : \A k \in 1 .. count[m] : <<m, k>> \in C
  BY ClaimPairs
<1>6. \A m \in S :
        /\ \A b \in own(m) : Rank(own(m), b) \in 0 .. count[m] - 1
        /\ \A b, d \in own(m) : Rank(own(m), b) = Rank(own(m), d) => b = d
        /\ \A i \in 0 .. count[m] - 1 : \E b \in own(m) : Rank(own(m), b) = i
  <2> SUFFICES ASSUME NEW m \in S
      PROVE /\ \A b \in own(m) : Rank(own(m), b) \in 0 .. count[m] - 1
            /\ \A b, d \in own(m) : Rank(own(m), b) = Rank(own(m), d) => b = d
            /\ \A i \in 0 .. count[m] - 1 : \E b \in own(m) : Rank(own(m), b) = i
    OBVIOUS
  <2> HIDE DEF own
  <2> QED BY <1>2, RankNumbers
<1>7. \A m \in S : count[m] \in Nat
  BY <1>2
<1> HIDE DEF own, count, C
<1>8. number \in [K -> C]
  <2> SUFFICES ASSUME NEW b \in K PROVE <<owners[b], Rank(own(owners[b]), b) + 1>> \in C
    OBVIOUS
  <2>1. PICK m \in S : m = owners[b]
    OBVIOUS
  <2>2. Rank(own(m), b) \in 0 .. count[m] - 1
    BY <1>3, <1>6, <2>1
  <2>3. Rank(own(m), b) + 1 \in 1 .. count[m]
    BY <1>7, <2>2
  <2> QED BY <1>5, <2>1, <2>3
<1>9. \A b, d \in K : number[b] = number[d] => b = d
  <2> SUFFICES ASSUME NEW b \in K, NEW d \in K, number[b] = number[d] PROVE b = d
    OBVIOUS
  <2>1. owners[b] = owners[d] /\ Rank(own(owners[b]), b) + 1 = Rank(own(owners[d]), d) + 1
    OBVIOUS
  <2>2. PICK m \in S : m = owners[b]
    OBVIOUS
  <2>3. /\ b \in own(m) /\ d \in own(m) /\ count[m] \in Nat
        /\ Rank(own(m), b) + 1 = Rank(own(m), d) + 1
        /\ Rank(own(m), b) \in 0 .. count[m] - 1 /\ Rank(own(m), d) \in 0 .. count[m] - 1
    BY <1>3, <1>6, <1>7, <2>1, <2>2
  <2>4. Rank(own(m), b) = Rank(own(m), d)
    BY <2>3
  <2> QED BY <1>6, <2>3, <2>4
<1>10. \A c \in C : \E b \in K : number[b] = c
  <2> SUFFICES ASSUME NEW c \in C PROVE \E b \in K : number[b] = c
    OBVIOUS
  <2>1. PICK m \in S : c[1] = m
    BY <1>5
  <2>5. PICK k \in 1 .. count[m] : c = <<m, k>>
    BY <1>5, <2>1
  <2>2. k - 1 \in 0 .. count[m] - 1 /\ (k - 1) + 1 = k
    BY <1>7
  <2>3. PICK b \in own(m) : Rank(own(m), b) = k - 1
    BY <1>6, <2>2
  <2>4. b \in K /\ owners[b] = m
    BY <1>4
  <2> QED BY <2>5, <2>2, <2>3, <2>4
<1> HIDE DEF number
<1>11. number \in Bijection(K, C)
  BY <1>8, <1>9, <1>10, Fun_IsBij
<1>12. IsFiniteSet(C) /\ Cardinality(C) = Cardinality(K)
  BY <1>1, <1>11, Fun_ExistsBij, FS_Bijection
<1> QED BY <1>12 DEF C, count, own

\* What m keeps: what it owns, up to its quota.
Kept(owners, S) ==
  [m \in S |-> IF owned_bucket_count(owners, m) < balanced_bucket_count(S, m)
               THEN owned_bucket_count(owners, m) ELSE balanced_bucket_count(S, m)]

\* The deficits, as a function.
Missing(owners, S) == [m \in S |-> Deficit(owners, S, m)]

\* Retention leaves each active member what it may keep, and a deficit up to its quota.
LEMMA RetainedOf ==
  ASSUME NEW owners \in Owners, NEW S \in SUBSET Member, NEW m \in S
  PROVE  /\ Cardinality(Retained(owners, S) \cap OwnedBuckets(owners, m)) = Kept(owners, S)[m]
         /\ IsFiniteSet(OwnedBuckets(owners, m)) /\ owned_bucket_count(owners, m) \in Nat
         /\ Kept(owners, S)[m] \in Nat
         /\ Missing(owners, S)[m] \in Nat
         /\ Kept(owners, S)[m] + Missing(owners, S)[m] = balanced_bucket_count(S, m)
<1> DEFINE own == OwnedBuckets(owners, m)
           quota == balanced_bucket_count(S, m)
           most == IF Cardinality(own) < quota THEN Cardinality(own) ELSE quota
<1>1. /\ IsFiniteSet(own) /\ own \in SUBSET Nat /\ Cardinality(own) \in Nat
  <2>1. own \in SUBSET Bucket /\ IsFiniteSet(Bucket) /\ Bucket \in SUBSET Nat
    BY BucketsFinite DEF OwnedBuckets
  <2> QED BY <2>1, FS_Subset, FS_CardinalityType
<1>2. quota \in Nat
  BY QuotaType
<1>3. Retained(owners, S) \cap own = {b \in own : Rank(own, b) < quota}
  BY DEF Retained, OwnedBuckets, Rank
<1> HIDE DEF own, quota
<1>4. \A b \in own : Rank(own, b) \in 0 .. Cardinality(own) - 1
  BY <1>1, RankType
<1>5. {b \in own : Rank(own, b) < quota} = {b \in own : 0 <= Rank(own, b) /\ Rank(own, b) < most}
  <2>1. \A b \in own : Rank(own, b) < quota <=> 0 <= Rank(own, b) /\ Rank(own, b) < most
    BY <1>1, <1>2, <1>4
  <2> HIDE DEF most
  <2> QED BY <2>1
<1>6. most \in Nat /\ 0 <= most /\ most <= Cardinality(own) /\ most <= quota
  BY <1>1, <1>2
<1> HIDE DEF most
<1>7. Cardinality({b \in own : 0 <= Rank(own, b) /\ Rank(own, b) < most}) = most - 0
  BY <1>1, <1>6, RankInterval
<1>8. Cardinality(Retained(owners, S) \cap own) = most
  BY <1>3, <1>5, <1>6, <1>7
<1>9. Kept(owners, S)[m] = most
  BY DEF Kept, most, own, quota, owned_bucket_count
<1>10. Missing(owners, S)[m] = quota - most
  BY <1>8 DEF Missing, Deficit, own, quota
<1>11. owned_bucket_count(owners, m) \in Nat
  BY <1>1 DEF own, owned_bucket_count
<1> QED BY <1>1, <1>2, <1>6, <1>8, <1>9, <1>10, <1>11 DEF own, quota

\* Together the members keep as many buckets as are retained.
LEMMA RetainedCount ==
  ASSUME NEW owners \in Owners, NEW S \in SUBSET Member
  PROVE  /\ Retained(owners, S) \in SUBSET Bucket
         /\ IsFiniteSet(Claims(S, Kept(owners, S)))
         /\ Cardinality(Claims(S, Kept(owners, S))) = Cardinality(Retained(owners, S))
<1> DEFINE R == Retained(owners, S)
           count == [m \in S |-> Cardinality(R \cap OwnedBuckets(owners, m))]
<1>1. R \in SUBSET Bucket /\ \A b \in R : owners[b] \in S
  BY DEF Retained
<1>2. count = Kept(owners, S)
  <2>1. \A m \in S : Cardinality(R \cap OwnedBuckets(owners, m)) = Kept(owners, S)[m]
    BY RetainedOf
  <2>2. Kept(owners, S) = [m \in S |-> Kept(owners, S)[m]]
    BY DEF Kept
  <2> QED BY <2>1, <2>2
<1>3. IsFiniteSet(Claims(S, count)) /\ Cardinality(Claims(S, count)) = Cardinality(R)
  BY <1>1, CountByOwner
<1> QED BY <1>1, <1>2, <1>3

\* Together the deficits are as many as the buckets left free.
LEMMA MissingCount ==
  ASSUME NEW owners \in Owners, NEW S \in SUBSET Member, S # {}
  PROVE  LET F == Bucket \ Retained(owners, S)
             D == Claims(S, Missing(owners, S))
         IN  /\ IsFiniteSet(F) /\ IsFiniteSet(D)
             /\ Cardinality(D) = Cardinality(F)
             /\ Cardinality(F) = BucketCount - Cardinality(Retained(owners, S))
<1> DEFINE R == Retained(owners, S)
           F == Bucket \ R
           D == Claims(S, Missing(owners, S))
           K == Claims(S, Kept(owners, S))
           Q == Claims(S, Quota(S))
           shift == [c \in Q \ K |-> <<c[1], c[2] - Kept(owners, S)[c[1]]>>]
<1>1. /\ \A m \in S : /\ Kept(owners, S)[m] \in Nat /\ Missing(owners, S)[m] \in Nat
                      /\ Kept(owners, S)[m] + Missing(owners, S)[m] = Quota(S)[m]
  BY RetainedOf, QuotaType
<1>2. /\ IsFiniteSet(Q) /\ Cardinality(Q) = BucketCount /\ R \in SUBSET Bucket
      /\ IsFiniteSet(K) /\ Cardinality(K) = Cardinality(R)
  BY QuotasAddUp, RetainedCount
<1>3. /\ \A c \in Q : c[1] \in S /\ c[2] \in 1 .. Quota(S)[c[1]] /\ c = <<c[1], c[2]>>
      /\ \A m \in S : \A k \in 1 .. Quota(S)[m] : <<m, k>> \in Q
  BY ClaimPairs
<1>4. /\ \A c \in K : c[1] \in S /\ c[2] \in 1 .. Kept(owners, S)[c[1]] /\ c = <<c[1], c[2]>>
      /\ \A m \in S : \A k \in 1 .. Kept(owners, S)[m] : <<m, k>> \in K
  BY ClaimPairs
<1>5. /\ \A c \in D : c[1] \in S /\ c[2] \in 1 .. Missing(owners, S)[c[1]] /\ c = <<c[1], c[2]>>
      /\ \A m \in S : \A k \in 1 .. Missing(owners, S)[m] : <<m, k>> \in D
  BY ClaimPairs
<1> HIDE DEF R, D, K, Q
<1>6. K \subseteq Q
  <2> SUFFICES ASSUME NEW c \in K PROVE c \in Q
    OBVIOUS
  <2>1. c[1] \in S /\ c[2] \in 1 .. Quota(S)[c[1]]
    BY <1>1, <1>4
  <2> QED BY <1>3, <1>4, <2>1
<1>7. \A c \in Q \ K : c[1] \in S /\ c[2] - Kept(owners, S)[c[1]] \in 1 .. Missing(owners, S)[c[1]]
  <2> SUFFICES ASSUME NEW c \in Q \ K
               PROVE  c[1] \in S /\ c[2] - Kept(owners, S)[c[1]] \in 1 .. Missing(owners, S)[c[1]]
    OBVIOUS
  <2>1. c[1] \in S /\ c[2] \in 1 .. Quota(S)[c[1]] /\ c = <<c[1], c[2]>>
    BY <1>3
  <2>2. c[2] \notin 1 .. Kept(owners, S)[c[1]]
    BY <1>4, <2>1
  <2> QED BY <1>1, <2>1, <2>2
<1>8. shift \in Bijection(Q \ K, D)
  <2>1. shift \in [Q \ K -> D]
    BY <1>5, <1>7
  <2>2. \A c, d \in Q \ K : shift[c] = shift[d] => c = d
    <3> SUFFICES ASSUME NEW c \in Q \ K, NEW d \in Q \ K, shift[c] = shift[d] PROVE c = d
      OBVIOUS
    <3>1. c[1] = d[1] /\ c[2] - Kept(owners, S)[c[1]] = d[2] - Kept(owners, S)[d[1]]
      OBVIOUS
    <3>2. /\ c[1] \in S /\ c[2] \in 1 .. Quota(S)[c[1]] /\ c = <<c[1], c[2]>>
          /\ d[1] \in S /\ d[2] \in 1 .. Quota(S)[d[1]] /\ d = <<d[1], d[2]>>
      BY <1>3
    <3>3. c[2] = d[2]
      BY <1>1, <3>1, <3>2
    <3> QED BY <3>1, <3>2, <3>3
  <2>3. \A d \in D : \E c \in Q \ K : shift[c] = d
    <3> SUFFICES ASSUME NEW d \in D PROVE \E c \in Q \ K : shift[c] = d
      OBVIOUS
    <3>1. PICK m \in S : d[1] = m
      BY <1>5
    <3>2. PICK k \in 1 .. Missing(owners, S)[m] : d = <<m, k>>
      BY <1>5, <3>1
    <3>3. PICK i \in Nat : i = k + Kept(owners, S)[m]
      BY <1>1
    <3>4. i \in 1 .. Quota(S)[m] /\ i \notin 1 .. Kept(owners, S)[m] /\ i - Kept(owners, S)[m] = k
      BY <1>1, <3>3
    <3>5. <<m, i>> \in Q
      BY <1>3, <3>4
    <3>6. <<m, i>> \notin K
      BY <1>4, <3>4
    <3>7. shift[<<m, i>>] = d
      BY <3>2, <3>4, <3>5, <3>6
    <3> QED BY <3>5, <3>6, <3>7
  <2> HIDE DEF shift
  <2> QED BY <2>1, <2>2, <2>3, Fun_IsBij
<1>9. IsFiniteSet(Q \ K) /\ Cardinality(Q \ K) = BucketCount - Cardinality(R)
  <2>1. Q \cap K = K
    BY <1>6
  <2>2. IsFiniteSet(Q \ K) /\ Cardinality(Q \ K) = Cardinality(Q) - Cardinality(Q \cap K)
    BY <1>2, FS_Difference
  <2> QED BY <1>2, <2>1, <2>2
<1>10. IsFiniteSet(D) /\ Cardinality(D) = Cardinality(Q \ K)
  <2>1. ExistsBijection(Q \ K, D)
    BY <1>8, Fun_ExistsBij
  <2> QED BY <1>9, <2>1, FS_Bijection
<1>11. IsFiniteSet(F) /\ Cardinality(F) = BucketCount - Cardinality(R)
  <2>1. Bucket \cap R = R
    BY <1>2
  <2> QED BY <2>1, BucketsFinite, FS_Difference
<1> QED BY <1>9, <1>10, <1>11 DEF D, R

-----------------------------------------------------------------------------
(* Who gets a free bucket.                                                  *)

\* The claims of the members up to m, and of those before it.
Upto(S, f, m)  == Cardinality({c \in Claims(S, f) : c[1] <= m})
Below(S, f, m) == Cardinality({c \in Claims(S, f) : c[1] < m})

\* A member's claims come after those of the members before it.
LEMMA UptoStep ==
  ASSUME NEW S \in SUBSET Nat, NEW f \in [S -> Nat], IsFiniteSet(Claims(S, f)), NEW m \in S
  PROVE  /\ Below(S, f, m) \in Nat /\ Upto(S, f, m) \in Nat
         /\ Upto(S, f, m) = Below(S, f, m) + f[m]
         /\ Upto(S, f, m) <= Cardinality(Claims(S, f))
         /\ \A k \in S : k < m => Upto(S, f, k) <= Below(S, f, m)
         /\ (\A k \in S : k <= m) => Upto(S, f, m) = Cardinality(Claims(S, f))
<1> DEFINE C == Claims(S, f)
           upto(k) == {c \in C : c[1] <= k}
           below == {c \in C : c[1] < m}
           own == {m} \X (1 .. f[m])
<1>1. /\ \A c \in C : c[1] \in S /\ c[2] \in 1 .. f[c[1]] /\ c = <<c[1], c[2]>>
      /\ \A k \in S : \A i \in 1 .. f[k] : <<k, i>> \in C
  BY ClaimPairs
<1>2. IsFiniteSet(C) /\ f[m] \in Nat
  OBVIOUS
<1>3. IsFiniteSet(own) /\ Cardinality(own) = f[m]
  <2>1. IsFiniteSet({m}) /\ Cardinality({m}) = 1
    BY FS_Singleton
  <2>2. IsFiniteSet(1 .. f[m]) /\ Cardinality(1 .. f[m]) = f[m]
    BY <1>2, FS_Interval
  <2>3. Cardinality(own) = Cardinality({m}) * Cardinality(1 .. f[m]) /\ IsFiniteSet(own)
    BY <2>1, <2>2, FS_Product
  <2> QED BY <1>2, <2>1, <2>2, <2>3
<1> HIDE DEF C
<1>4. upto(m) = below \cup own /\ below \cap own = {}
  <2>1. \A c \in own : c[1] = m /\ c \in C
    BY <1>1
  <2>2. \A c \in C : c[1] = m => c \in own
    BY <1>1
  <2>3. m \in Nat /\ \A c \in C : c[1] \in Nat
    BY <1>1
  <2> HIDE DEF own
  <2> QED BY <2>1, <2>2, <2>3
<1>5. /\ IsFiniteSet(below) /\ Cardinality(below) \in Nat
      /\ \A k \in S : IsFiniteSet(upto(k)) /\ Cardinality(upto(k)) \in Nat
  <2>1. below \in SUBSET C /\ \A k \in S : upto(k) \in SUBSET C
    OBVIOUS
  <2> HIDE DEF below, upto
  <2> QED BY <1>2, <2>1, FS_Subset, FS_CardinalityType
<1>6. Cardinality(upto(m)) = Cardinality(below) + f[m]
  <2>1. Cardinality(below \cap own) = 0
    BY <1>4, FS_EmptySet
  <2> HIDE DEF below, own
  <2>2. Cardinality(below \cup own) = Cardinality(below) + Cardinality(own) - Cardinality(below \cap own)
    BY <1>3, <1>5, FS_Union
  <2>3. Cardinality(below) \in Nat /\ Cardinality(below \cup own) = Cardinality(below) + f[m] - 0
    BY <1>3, <1>5, <2>1, <2>2
  <2>4. upto(m) = below \cup own
    BY <1>4
  <2> HIDE DEF upto
  <2> QED BY <1>2, <2>3, <2>4
<1>7. Cardinality(upto(m)) <= Cardinality(C)
  <2>1. upto(m) \in SUBSET C
    OBVIOUS
  <2> HIDE DEF upto
  <2> QED BY <1>2, <2>1, FS_Subset
<1>8. \A k \in S : k < m => Cardinality(upto(k)) <= Cardinality(below)
  <2> SUFFICES ASSUME NEW k \in S, k < m PROVE Cardinality(upto(k)) <= Cardinality(below)
    OBVIOUS
  <2>1. upto(k) \in SUBSET below
    <3>1. \A c \in C : c[1] \in Nat /\ k \in Nat /\ m \in Nat
      BY <1>1
    <3> QED BY <3>1
  <2> HIDE DEF upto, below
  <2> QED BY <1>5, <2>1, FS_Subset
<1>9. (\A k \in S : k <= m) => upto(m) = C
  BY <1>1
<1> QED BY <1>5, <1>6, <1>7, <1>8, <1>9 DEF Upto, Below, C

\* The claims before m end where those of the member before it do.
LEMMA BelowIsUpto ==
  ASSUME NEW S \in SUBSET Nat, IsFiniteSet(S), NEW f \in [S -> Nat], IsFiniteSet(Claims(S, f)),
         NEW m \in S, NEW p \in Nat, p < Below(S, f, m)
  PROVE  \E k \in S : k < m /\ p < Upto(S, f, k)
<1> DEFINE C == Claims(S, f)
           before == {k \in S : k < m}
<1>1. \A c \in C : c[1] \in S
  BY ClaimPairs
<1>2. before # {}
  <2> SUFFICES ASSUME before = {} PROVE FALSE
    OBVIOUS
  <2>1. {c \in C : c[1] < m} = {}
    BY <1>1
  <2>2. Below(S, f, m) = 0
    BY <2>1, FS_EmptySet DEF Below
  <2> QED BY <2>2
<1>3. before \in SUBSET S /\ before \in SUBSET Nat
  OBVIOUS
<1> HIDE DEF before
<1>4. PICK k \in before : \A l \in before : l <= k
  BY <1>2, <1>3, FS_Subset, LeastAndGreatest
<1>5. k \in S /\ k < m /\ \A l \in S : l < m <=> l <= k
  <2>1. k \in S /\ k < m /\ \A l \in S : l < m => l <= k
    BY <1>4 DEF before
  <2> QED BY <2>1
<1>6. {c \in C : c[1] < m} = {c \in C : c[1] <= k}
  BY <1>1, <1>5
<1> QED BY <1>5, <1>6 DEF Below, Upto

\* Position p falls to exactly one member: the first whose claims reach beyond it.
LEMMA FirstBeyond ==
  ASSUME NEW S \in SUBSET Nat, IsFiniteSet(S), NEW f \in [S -> Nat], IsFiniteSet(Claims(S, f)),
         S # {}, NEW p \in Nat, p < Cardinality(Claims(S, f))
  PROVE  /\ \E m \in S : p < Upto(S, f, m) /\ \A k \in S : p < Upto(S, f, k) => m <= k
         /\ \A m \in S : (p < Upto(S, f, m) /\ \A k \in S : p < Upto(S, f, k) => m <= k)
                           <=> (Below(S, f, m) <= p /\ p < Upto(S, f, m))
<1> DEFINE able == {m \in S : p < Upto(S, f, m)}
<1>1. able # {}
  <2>1. PICK z \in S : \A k \in S : k <= z
    BY LeastAndGreatest
  <2>2. Upto(S, f, z) = Cardinality(Claims(S, f))
    BY <2>1, UptoStep
  <2> QED BY <2>2
<1>2. able \in SUBSET S /\ able \in SUBSET Nat
  OBVIOUS
<1> HIDE DEF able
<1>3. PICK m \in able : \A k \in able : m <= k
  BY <1>1, <1>2, FS_Subset, LeastAndGreatest
<1>4. m \in S /\ p < Upto(S, f, m) /\ \A k \in S : p < Upto(S, f, k) => m <= k
  BY <1>3 DEF able
<1>5. ASSUME NEW x \in S, p < Upto(S, f, x), \A k \in S : p < Upto(S, f, k) => x <= k
      PROVE  Below(S, f, x) <= p
  <2> SUFFICES ASSUME p < Below(S, f, x) PROVE FALSE
    BY UptoStep
  <2>1. PICK k \in S : k < x /\ p < Upto(S, f, k)
    BY BelowIsUpto
  <2> QED BY <1>5, <2>1
<1>6. ASSUME NEW x \in S, Below(S, f, x) <= p, NEW k \in S, p < Upto(S, f, k)
      PROVE  x <= k
  <2> SUFFICES ASSUME k < x PROVE FALSE
    OBVIOUS
  <2>1. Upto(S, f, k) <= Below(S, f, x) /\ Upto(S, f, k) \in Nat /\ Below(S, f, x) \in Nat
    BY UptoStep
  <2> QED BY <1>6, <2>1
<1> QED BY <1>4, <1>5, <1>6

-----------------------------------------------------------------------------
(* What compute_rebalance returns.                                          *)

Free(owners, S) == Bucket \ Retained(owners, S)

\* The members' deficits, and the buckets that fill them.
LEMMA FreeBuckets ==
  ASSUME NEW owners \in Owners, NEW S \in SUBSET Member, S # {}
  PROVE  /\ S \in SUBSET Nat /\ IsFiniteSet(S)
         /\ Free(owners, S) \in SUBSET Nat /\ IsFiniteSet(Free(owners, S))
         /\ Missing(owners, S) \in [S -> Nat]
         /\ IsFiniteSet(Claims(S, Missing(owners, S)))
         /\ Cardinality(Claims(S, Missing(owners, S))) = Cardinality(Free(owners, S))
<1>1. S \in SUBSET Nat /\ IsFiniteSet(S)
  BY MemberAssumption, FS_Subset
<1>2. Missing(owners, S) \in [S -> Nat]
  <2>1. Missing(owners, S) = [m \in S |-> Missing(owners, S)[m]]
    BY DEF Missing
  <2>2. \A m \in S : Missing(owners, S)[m] \in Nat
    BY RetainedOf
  <2> QED BY <2>1, <2>2
<1>3. Free(owners, S) \in SUBSET Nat
  BY BucketsFinite DEF Free
<1> QED BY <1>1, <1>2, <1>3, MissingCount DEF Free

\* A free bucket goes to the active member whose deficit covers its position.
LEMMA FillerOwner ==
  ASSUME NEW owners \in Owners, NEW S \in SUBSET Member, S # {}, NEW b \in Free(owners, S)
  PROVE  /\ Filler(owners, S, b) \in S
         /\ \A m \in S :
              Filler(owners, S, b) = m
                <=> /\ Below(S, Missing(owners, S), m) <= Rank(Free(owners, S), b)
                    /\ Rank(Free(owners, S), b) < Upto(S, Missing(owners, S), m)
<1> DEFINE f == Missing(owners, S)
           F == Free(owners, S)
           p == Rank(F, b)
           first == {m \in S : p < Upto(S, f, m) /\ \A k \in S : p < Upto(S, f, k) => m <= k}
<1>1. /\ S \in SUBSET Nat /\ IsFiniteSet(S)
      /\ F \in SUBSET Nat /\ IsFiniteSet(F) /\ f \in [S -> Nat]
      /\ IsFiniteSet(Claims(S, f)) /\ Cardinality(Claims(S, f)) = Cardinality(F)
  BY FreeBuckets
<1>2. Claims(S, f) = UNION {{m} \X (1 .. Deficit(owners, S, m)) : m \in S}
  <2>1. \A m \in S : f[m] = Deficit(owners, S, m)
    BY DEF Missing
  <2> HIDE DEF f
  <2> QED BY <2>1 DEF Claims
<1>3. Filler(owners, S, b) = IF first = {} THEN Nil ELSE CHOOSE m \in first : TRUE
  <2> DEFINE claims == UNION {{m} \X (1 .. Deficit(owners, S, m)) : m \in S}
             Up(m) == Cardinality({c \in claims : c[1] <= m})
             pos == Cardinality({c \in Bucket \ Retained(owners, S) : c < b})
             able == {m \in S : pos < Up(m)}
             firsts == {m \in able : \A k \in able : m <= k}
  <2>1. Filler(owners, S, b) = IF firsts = {} THEN Nil ELSE CHOOSE m \in firsts : TRUE
    BY DEF Filler
  <2>2. pos = p
    BY DEF Rank, Free
  <2>3. \A m \in S : Up(m) = Upto(S, f, m)
    <3>1. claims = Claims(S, f)
      BY <1>2
    <3> HIDE DEF claims, f
    <3> QED BY <3>1 DEF Upto
  <2> HIDE DEF Up, pos, f, p
  <2>4. firsts = first
    BY <2>2, <2>3
  <2> HIDE DEF firsts, first
  <2> QED BY <2>1, <2>4
<1> HIDE DEF f
<1>4. p \in Nat /\ p < Cardinality(Claims(S, f))
  <2>1. p \in 0 .. Cardinality(F) - 1 /\ Cardinality(F) \in Nat
    BY <1>1, RankType, FS_CardinalityType
  <2> HIDE DEF p, F
  <2> QED BY <1>1, <2>1
<1> HIDE DEF p, F
<1>5. /\ \E m \in S : m \in first
      /\ \A m \in S : m \in first <=> (Below(S, f, m) <= p /\ p < Upto(S, f, m))
  BY <1>1, <1>4, FirstBeyond
<1>6. \A m, k \in first : m = k
  BY <1>1
<1> HIDE DEF first
<1>7. PICK m \in S : m \in first /\ Filler(owners, S, b) = m
  BY <1>3, <1>5, <1>6
<1>8. \A k \in S : Filler(owners, S, b) = k <=> k \in first
  BY <1>6, <1>7
<1> QED BY <1>5, <1>7, <1>8 DEF f, p, F

\* Each active member gets as many free buckets as it misses.
LEMMA FilledCount ==
  ASSUME NEW owners \in Owners, NEW S \in SUBSET Member, NEW m \in S
  PROVE  LET filled == {b \in Free(owners, S) : Filler(owners, S, b) = m}
         IN  IsFiniteSet(filled) /\ Cardinality(filled) = Missing(owners, S)[m]
<1> DEFINE f == Missing(owners, S)
           F == Free(owners, S)
           filled == {b \in F : Filler(owners, S, b) = m}
           covered == {b \in F : Below(S, f, m) <= Rank(F, b) /\ Rank(F, b) < Upto(S, f, m)}
<1>1. S # {}
  OBVIOUS
<1>2. /\ S \in SUBSET Nat /\ IsFiniteSet(S)
      /\ F \in SUBSET Nat /\ IsFiniteSet(F) /\ f \in [S -> Nat]
      /\ IsFiniteSet(Claims(S, f)) /\ Cardinality(Claims(S, f)) = Cardinality(F)
  BY <1>1, FreeBuckets
<1>3. filled = covered
  <2>1. \A b \in F : Filler(owners, S, b) = m
                       <=> (Below(S, f, m) <= Rank(F, b) /\ Rank(F, b) < Upto(S, f, m))
    BY <1>1, FillerOwner
  <2> HIDE DEF F, f
  <2> QED BY <2>1
<1>4. filled \in SUBSET F
  OBVIOUS
<1> HIDE DEF F, f, filled
<1>5. /\ Below(S, f, m) \in Nat /\ Upto(S, f, m) \in Nat
      /\ Upto(S, f, m) = Below(S, f, m) + f[m]
      /\ Upto(S, f, m) <= Cardinality(Claims(S, f))
  BY <1>2, UptoStep
<1>6. f[m] \in Nat
  BY <1>2
<1>7. Cardinality(covered) = Upto(S, f, m) - Below(S, f, m)
  BY <1>2, <1>5, <1>6, RankInterval
<1>8. IsFiniteSet(filled)
  BY <1>2, <1>4, FS_Subset
<1> HIDE DEF covered
<1>9. Cardinality(filled) = f[m]
  BY <1>3, <1>5, <1>6, <1>7
<1> QED BY <1>8, <1>9 DEF filled, F, f

\* With active members, every bucket goes to one of them and each gets its quota.
LEMMA QuotasMet ==
  ASSUME NEW owners \in Owners, NEW S \in SUBSET Member, S # {}
  PROVE  /\ compute_rebalance(owners, S) \in [Bucket -> S]
         /\ \A m \in S : owned_bucket_count(compute_rebalance(owners, S), m)
                           = balanced_bucket_count(S, m)
<1> DEFINE R == Retained(owners, S)
           F == Free(owners, S)
           new == compute_rebalance(owners, S)
<1>1. /\ R \in SUBSET Bucket /\ F = Bucket \ R
      /\ \A b \in R : owners[b] \in S
  BY DEF Retained, Free
<1>2. new = [b \in Bucket |-> IF b \in R THEN owners[b] ELSE Filler(owners, S, b)]
  BY DEF compute_rebalance
<1>3. \A b \in F : Filler(owners, S, b) \in S
  BY FillerOwner
<1> HIDE DEF R, F, new
<1>4. new \in [Bucket -> S]
  BY <1>1, <1>2, <1>3
<1>5. ASSUME NEW m \in S
      PROVE  owned_bucket_count(new, m) = balanced_bucket_count(S, m)
  <2> DEFINE kept == R \cap OwnedBuckets(owners, m)
             filled == {b \in F : Filler(owners, S, b) = m}
  <2>1. OwnedBuckets(new, m) = kept \cup filled /\ kept \cap filled = {}
    BY <1>1, <1>2 DEF OwnedBuckets
  <2>2. IsFiniteSet(filled) /\ Cardinality(filled) = Missing(owners, S)[m]
    BY FilledCount DEF F
  <2>3. /\ Cardinality(kept) = Kept(owners, S)[m]
        /\ IsFiniteSet(OwnedBuckets(owners, m))
        /\ Kept(owners, S)[m] \in Nat /\ Missing(owners, S)[m] \in Nat
        /\ Kept(owners, S)[m] + Missing(owners, S)[m] = balanced_bucket_count(S, m)
    BY RetainedOf DEF R
  <2>4. IsFiniteSet(kept)
    <3>1. kept \in SUBSET OwnedBuckets(owners, m)
      OBVIOUS
    <3> QED BY <2>3, <3>1, FS_Subset
  <2> HIDE DEF kept, filled
  <2>5. Cardinality(kept \cap filled) = 0
    BY <2>1, FS_EmptySet
  <2>6. Cardinality(kept \cup filled)
          = Cardinality(kept) + Cardinality(filled) - Cardinality(kept \cap filled)
    BY <2>2, <2>4, FS_Union
  <2>7. Cardinality(kept \cup filled) = balanced_bucket_count(S, m)
    BY <2>2, <2>3, <2>5, <2>6
  <2> QED BY <2>1, <2>7 DEF owned_bucket_count
<1> QED BY <1>4, <1>5 DEF new

\* Without active members every bucket is unassigned.
LEMMA NobodyLeft ==
  ASSUME NEW owners \in Owners
  PROVE  /\ compute_rebalance(owners, {}) = Unassigned
         /\ check_assignment(Unassigned, {})
<1>1. Retained(owners, {}) = {}
  BY DEF Retained
<1>2. \A b \in Bucket : Filler(owners, {}, b) = Nil
  BY DEF Filler
<1>3. compute_rebalance(owners, {}) = Unassigned
  BY <1>1, <1>2 DEF compute_rebalance, Unassigned
<1>4. check_assignment(Unassigned, {})
  BY DEF check_assignment, Balanced, Unassigned
<1> QED BY <1>3, <1>4

\* A map that gives the members their quotas passes check_assignment ...
LEMMA QuotasAreValid ==
  ASSUME NEW S \in SUBSET Member, S # {}, NEW map \in [Bucket -> S],
         \A m \in S : owned_bucket_count(map, m) = balanced_bucket_count(S, m)
  PROVE  check_assignment(map, S)
<1>1. IsFiniteSet(S) /\ Cardinality(S) \in Nat \ {0}
  BY MemberAssumption, FS_Subset, FS_CardinalityType, FS_EmptySet
<1>2. PICK q \in Nat : q = BucketCount \div Cardinality(S)
  BY <1>1, BucketCountAssumption, DivMod
<1>3. \A m \in S : owned_bucket_count(map, m) \in {q, q + 1}
  <2> SUFFICES ASSUME NEW m \in S PROVE balanced_bucket_count(S, m) \in {q, q + 1}
    OBVIOUS
  <2>1. balanced_bucket_count(S, m) = q + (IF Rank(S, m) < BucketCount % Cardinality(S) THEN 1 ELSE 0)
    BY <1>2 DEF balanced_bucket_count, Rank
  <2>2. CASE Rank(S, m) < BucketCount % Cardinality(S)
    BY <2>1, <2>2
  <2>3. CASE ~(Rank(S, m) < BucketCount % Cardinality(S))
    BY <2>1, <2>3
  <2> QED BY <2>2, <2>3
<1>4. Balanced(map, S)
  BY <1>3 DEF Balanced
<1>5. \A b \in Bucket : map[b] \in S
  OBVIOUS
<1> QED BY <1>4, <1>5 DEF check_assignment

\* ... and is what compute_rebalance makes of it.
LEMMA QuotasAreSettled ==
  ASSUME NEW S \in SUBSET Member, NEW map \in [Bucket -> S],
         \A m \in S : owned_bucket_count(map, m) = balanced_bucket_count(S, m)
  PROVE  compute_rebalance(map, S) = map
<1>1. ASSUME NEW b \in Bucket
      PROVE  b \in Retained(map, S)
  <2>1. PICK m \in S : map[b] = m
    OBVIOUS
  <2>2. PICK own : own = OwnedBuckets(map, m)
    OBVIOUS
  <2>3. own \in SUBSET Bucket /\ own \in SUBSET Nat /\ IsFiniteSet(own) /\ b \in own
    <3>1. own \in SUBSET Bucket /\ b \in own
      BY <2>1, <2>2 DEF OwnedBuckets
    <3> QED BY <3>1, BucketsFinite, FS_Subset
  <2>4. Cardinality(own) = balanced_bucket_count(S, m) /\ Cardinality(own) \in Nat
    BY <2>2, <2>3, FS_CardinalityType DEF owned_bucket_count
  <2>5. Rank(own, b) \in 0 .. Cardinality(own) - 1
    BY <2>3, RankType
  <2>6. Rank(own, b) < balanced_bucket_count(S, m)
    BY <2>4, <2>5
  <2>7. Cardinality({c \in OwnedBuckets(map, map[b]) : c < b}) < balanced_bucket_count(S, map[b])
    BY <2>1, <2>2, <2>6 DEF Rank
  <2> QED BY <2>1, <2>7 DEF Retained
<1>2. compute_rebalance(map, S) = [b \in Bucket |-> map[b]]
  BY <1>1 DEF compute_rebalance
<1> QED BY <1>2

\* A map serves the members it was computed for: each has its quota.
Serves(map, S) ==
  /\ S = {} => map = Unassigned
  /\ S # {} => /\ map \in [Bucket -> S]
               /\ \A m \in S : owned_bucket_count(map, m) = balanced_bucket_count(S, m)

\* compute_rebalance makes of any map one that serves S ...
LEMMA RebalanceServes ==
  ASSUME NEW owners \in Owners, NEW S \in SUBSET Member
  PROVE  /\ compute_rebalance(owners, S) \in Owners
         /\ Serves(compute_rebalance(owners, S), S)
<1>1. CASE S = {}
  <2>1. compute_rebalance(owners, S) = Unassigned
    BY <1>1, NobodyLeft
  <2>2. Unassigned \in Owners
    BY DEF Unassigned, Owners
  <2> QED BY <1>1, <2>1, <2>2 DEF Serves
<1>2. CASE S # {}
  <2>1. /\ compute_rebalance(owners, S) \in [Bucket -> S]
        /\ \A m \in S : owned_bucket_count(compute_rebalance(owners, S), m) = balanced_bucket_count(S, m)
    BY <1>2, QuotasMet
  <2>2. compute_rebalance(owners, S) \in Owners
    BY <2>1 DEF Owners
  <2> QED BY <1>2, <2>1, <2>2 DEF Serves
<1> QED BY <1>1, <1>2

\* ... and such a map is valid, and computed again stays what it is.
LEMMA ServesIsValid ==
  ASSUME NEW S \in SUBSET Member, NEW map \in Owners, Serves(map, S)
  PROVE  check_assignment(map, S) /\ compute_rebalance(map, S) = map
<1>1. CASE S = {}
  BY <1>1, NobodyLeft DEF Serves
<1>2. CASE S # {}
  BY <1>2, QuotasAreValid, QuotasAreSettled DEF Serves
<1> QED BY <1>1, <1>2

-----------------------------------------------------------------------------
(* What moves.                                                              *)

\* A bucket keeps its owner exactly when it is retained: no member is refilled with a
\* bucket it had to give up.
LEMMA UnmovedAreRetained ==
  ASSUME NEW owners \in Owners, NEW S \in SUBSET Member, S # {}, NEW b \in Bucket
  PROVE  compute_rebalance(owners, S)[b] = owners[b] <=> b \in Retained(owners, S)
<1>1. CASE b \in Retained(owners, S)
  BY <1>1 DEF compute_rebalance
<1>2. CASE b \notin Retained(owners, S)
  <2> SUFFICES ASSUME Filler(owners, S, b) = owners[b] PROVE FALSE
    BY <1>2 DEF compute_rebalance
  <2>1. b \in Free(owners, S)
    BY <1>2 DEF Free
  <2>2. PICK m \in S : m = owners[b] /\ Filler(owners, S, b) = m
    BY <2>1, FillerOwner
  <2>3. PICK filled : filled = {c \in Free(owners, S) : Filler(owners, S, c) = m}
    OBVIOUS
  <2>4. Missing(owners, S)[m] # 0
    <3>1. IsFiniteSet(filled) /\ Cardinality(filled) = Missing(owners, S)[m] /\ b \in filled
      BY <2>1, <2>2, <2>3, FilledCount
    <3> QED BY <3>1, FS_EmptySet
  <2>5. PICK own : own = OwnedBuckets(owners, m)
    OBVIOUS
  <2>6. own \in SUBSET Nat /\ IsFiniteSet(own) /\ b \in own /\ Cardinality(own) \in Nat
    <3>1. own \in SUBSET Bucket /\ b \in own
      BY <2>2, <2>5 DEF OwnedBuckets
    <3> QED BY <3>1, BucketsFinite, FS_Subset, FS_CardinalityType
  <2>7. Cardinality(own) < balanced_bucket_count(S, m) /\ balanced_bucket_count(S, m) \in Nat
    <3>1. /\ Kept(owners, S)[m] \in Nat /\ Missing(owners, S)[m] \in Nat
          /\ Kept(owners, S)[m] + Missing(owners, S)[m] = balanced_bucket_count(S, m)
      BY RetainedOf
    <3>2. Kept(owners, S)[m] = IF Cardinality(own) < balanced_bucket_count(S, m)
                               THEN Cardinality(own) ELSE balanced_bucket_count(S, m)
      BY <2>5 DEF Kept, owned_bucket_count
    <3> QED BY <2>4, <2>6, <3>1, <3>2
  <2>8. Rank(own, b) \in 0 .. Cardinality(own) - 1
    BY <2>6, RankType
  <2>9. Rank(own, b) < balanced_bucket_count(S, m)
    BY <2>6, <2>7, <2>8
  <2> QED BY <1>2, <2>2, <2>5, <2>9 DEF Rank, Retained
<1> QED BY <1>1, <1>2

\* What moves and what stays are the buckets.
LEMMA MovedAndKept ==
  ASSUME NEW before, NEW after
  PROVE  LET kept == {b \in Bucket : before[b] = after[b]}
         IN  IsFiniteSet(kept) /\ Cardinality(kept) \in Nat
             /\ churn(before, after) = BucketCount - Cardinality(kept)
<1> DEFINE kept == {b \in Bucket : before[b] = after[b]}
<1>1. kept \in SUBSET Bucket /\ Moves(before, after) = Bucket \ kept /\ Bucket \cap kept = kept
  BY DEF Moves
<1> HIDE DEF kept
<1>2. IsFiniteSet(kept) /\ Cardinality(kept) \in Nat
  BY <1>1, BucketsFinite, FS_Subset, FS_CardinalityType
<1>3. Cardinality(Bucket \ kept) = Cardinality(Bucket) - Cardinality(Bucket \cap kept)
  BY BucketsFinite, FS_Difference
<1>4. churn(before, after) = BucketCount - Cardinality(kept)
  BY <1>1, <1>3, BucketsFinite DEF churn
<1> QED BY <1>2, <1>4 DEF kept

\* The closed form counts the buckets that are not retained.
LEMMA ClosedFormOfChurn ==
  ASSUME NEW owners \in Owners, NEW S \in SUBSET Member
  PROVE  minimum_possible_churn(owners, S) = BucketCount - Cardinality(Retained(owners, S))
<1> DEFINE owned == [m \in S |-> owned_bucket_count(owners, m)]
           within == {c \in Claims(S, owned) : c[2] <= balanced_bucket_count(S, c[1])}
<1>1. minimum_possible_churn(owners, S) = BucketCount - Cardinality(within)
  <2>1. UNION {{m} \X (1 .. owned_bucket_count(owners, m)) : m \in S} = Claims(S, owned)
    BY DEF Claims
  <2> HIDE DEF owned
  <2> QED BY <2>1 DEF minimum_possible_churn
<1>2. within = Claims(S, Kept(owners, S))
  <2>1. /\ \A c \in Claims(S, owned) : c[1] \in S /\ c[2] \in 1 .. owned[c[1]] /\ c = <<c[1], c[2]>>
        /\ \A m \in S : \A k \in 1 .. owned[m] : <<m, k>> \in Claims(S, owned)
    BY ClaimPairs
  <2>2. /\ \A c \in Claims(S, Kept(owners, S)) :
             c[1] \in S /\ c[2] \in 1 .. Kept(owners, S)[c[1]] /\ c = <<c[1], c[2]>>
        /\ \A m \in S : \A k \in 1 .. Kept(owners, S)[m] : <<m, k>> \in Claims(S, Kept(owners, S))
    BY ClaimPairs
  <2>3. \A m \in S :
          /\ owned[m] \in Nat /\ balanced_bucket_count(S, m) \in Nat
          /\ Kept(owners, S)[m] = IF owned[m] < balanced_bucket_count(S, m)
                                  THEN owned[m] ELSE balanced_bucket_count(S, m)
    BY RetainedOf, QuotaType DEF Kept
  <2> HIDE DEF owned
  <2>4. ASSUME NEW c \in within PROVE c \in Claims(S, Kept(owners, S))
    <3>1. c[1] \in S /\ c[2] \in 1 .. owned[c[1]] /\ c = <<c[1], c[2]>>
          /\ c[2] <= balanced_bucket_count(S, c[1])
      BY <2>1
    <3>2. c[2] \in 1 .. Kept(owners, S)[c[1]]
      BY <2>3, <3>1
    <3> QED BY <2>2, <3>1, <3>2
  <2>5. ASSUME NEW c \in Claims(S, Kept(owners, S)) PROVE c \in within
    <3>1. c[1] \in S /\ c[2] \in 1 .. Kept(owners, S)[c[1]] /\ c = <<c[1], c[2]>>
      BY <2>2
    <3>2. c[2] \in 1 .. owned[c[1]] /\ c[2] <= balanced_bucket_count(S, c[1])
      BY <2>3, <3>1
    <3> QED BY <2>1, <3>1, <3>2
  <2> QED BY <2>4, <2>5
<1> HIDE DEF within
<1> QED BY <1>1, <1>2, RetainedCount

\* compute_rebalance moves as many buckets as the closed form says ...
LEMMA ChurnOfRebalance ==
  ASSUME NEW owners \in Owners, NEW S \in SUBSET Member, S # {}
  PROVE  churn(owners, compute_rebalance(owners, S)) = minimum_possible_churn(owners, S)
<1>1. {b \in Bucket : owners[b] = compute_rebalance(owners, S)[b]} = Retained(owners, S)
  <2>1. \A b \in Bucket : owners[b] = compute_rebalance(owners, S)[b] <=> b \in Retained(owners, S)
    BY UnmovedAreRetained
  <2>2. Retained(owners, S) \in SUBSET Bucket
    BY RetainedCount
  <2> QED BY <2>1, <2>2
<1> QED BY <1>1, MovedAndKept, ClosedFormOfChurn

\* ... and no map with the same quotas moves fewer.
LEMMA NoMapMovesFewer ==
  ASSUME NEW owners \in Owners, NEW S \in SUBSET Member, S # {}, NEW map \in [Bucket -> S],
         \A m \in S : owned_bucket_count(map, m) = balanced_bucket_count(S, m)
  PROVE  /\ churn(owners, map) \in Nat
         /\ minimum_possible_churn(owners, S) <= churn(owners, map)
<1> DEFINE U == {b \in Bucket : owners[b] = map[b]}
           part(m) == U \cap OwnedBuckets(owners, m)
           count == [m \in S |-> Cardinality(part(m))]
<1>1. U \in SUBSET Bucket /\ \A b \in U : owners[b] \in S
  OBVIOUS
<1>2. IsFiniteSet(Claims(S, count)) /\ Cardinality(Claims(S, count)) = Cardinality(U)
  <2> HIDE DEF U
  <2> QED BY <1>1, CountByOwner
<1>3. \A m \in S : count[m] \in Nat /\ count[m] <= Kept(owners, S)[m] /\ Kept(owners, S)[m] \in Nat
  <2> SUFFICES ASSUME NEW m \in S
               PROVE  count[m] \in Nat /\ count[m] <= Kept(owners, S)[m] /\ Kept(owners, S)[m] \in Nat
    OBVIOUS
  <2>1. part(m) \in SUBSET OwnedBuckets(owners, m) /\ part(m) \in SUBSET OwnedBuckets(map, m)
    BY DEF OwnedBuckets
  <2>2. IsFiniteSet(OwnedBuckets(owners, m)) /\ IsFiniteSet(OwnedBuckets(map, m))
    <3>1. OwnedBuckets(owners, m) \in SUBSET Bucket /\ OwnedBuckets(map, m) \in SUBSET Bucket
      BY DEF OwnedBuckets
    <3> QED BY <3>1, BucketsFinite, FS_Subset
  <2>3. count[m] = Cardinality(part(m))
    OBVIOUS
  <2> HIDE DEF part, count
  <2>4. /\ Cardinality(part(m)) \in Nat
        /\ Cardinality(part(m)) <= owned_bucket_count(owners, m)
        /\ Cardinality(part(m)) <= balanced_bucket_count(S, m)
    <3>1. /\ IsFiniteSet(part(m)) /\ Cardinality(part(m)) <= Cardinality(OwnedBuckets(owners, m))
          /\ Cardinality(part(m)) <= Cardinality(OwnedBuckets(map, m))
      BY <2>1, <2>2, FS_Subset
    <3> QED BY <3>1, FS_CardinalityType DEF owned_bucket_count
  <2>5. Kept(owners, S)[m] \in Nat
    BY RetainedOf
  <2>6. Kept(owners, S)[m] = IF owned_bucket_count(owners, m) < balanced_bucket_count(S, m)
                             THEN owned_bucket_count(owners, m) ELSE balanced_bucket_count(S, m)
    BY DEF Kept
  <2> QED BY <2>3, <2>4, <2>5, <2>6
<1> HIDE DEF U, count
<1>4. Claims(S, count) \in SUBSET Claims(S, Kept(owners, S))
  <2> SUFFICES ASSUME NEW c \in Claims(S, count) PROVE c \in Claims(S, Kept(owners, S))
    OBVIOUS
  <2>1. c[1] \in S /\ c[2] \in 1 .. count[c[1]] /\ c = <<c[1], c[2]>>
    BY ClaimPairs
  <2>2. c[2] \in 1 .. Kept(owners, S)[c[1]]
    BY <1>3, <2>1
  <2> QED BY <2>1, <2>2, ClaimPairs
<1>5. IsFiniteSet(Claims(S, Kept(owners, S)))
      /\ Cardinality(Claims(S, Kept(owners, S))) = Cardinality(Retained(owners, S))
  BY RetainedCount
<1>6. Cardinality(U) <= Cardinality(Retained(owners, S)) /\ Cardinality(Retained(owners, S)) \in Nat
  <2>1. Cardinality(Claims(S, count)) <= Cardinality(Claims(S, Kept(owners, S)))
    BY <1>4, <1>5, FS_Subset
  <2> QED BY <1>2, <1>5, <2>1, FS_CardinalityType
<1>7. /\ Cardinality(U) \in Nat
      /\ churn(owners, map) = BucketCount - Cardinality(U)
  BY MovedAndKept DEF U
<1>8. Cardinality(U) <= BucketCount /\ BucketCount \in Nat
  BY <1>1, BucketsFinite, FS_Subset
<1> QED BY <1>6, <1>7, <1>8, ClosedFormOfChurn
=============================================================================
