-------------------------- MODULE CompressedSetProofs --------------------------
(***************************************************************************)
(* Proofs about CompressedSet, for blocks of any size and any documents.   *)
(***************************************************************************)
EXTENDS CompressedSet, WellFoundedInduction, FiniteSetTheorems, SequenceTheorems, TLAPS

--------------------------------------------------------------------------------
(* Induction over the natural numbers: a set of them that is not empty has *)
(* a least element.                                                        *)
LEMMA Least ==
    ASSUME NEW T, T \subseteq Nat, T # {}
    PROVE  \E m \in T : \A k \in T : m <= k
  <1> DEFINE R == OpToRel(<, Nat)
  <1>1. IsWellFoundedOn(R, Nat)
    BY NatLessThanWellFounded
  <1>2. R = {p \in Nat \X Nat : p[1] < p[2]}
    BY DEF OpToRel
  <1> HIDE DEF R
  <1>3. PICK m \in T : \A k \in T : ~(<<k, m>> \in R)
    BY <1>1, WFMin
  <1>4. ASSUME NEW k \in T PROVE m <= k
    <2>1. k \in Nat /\ m \in Nat
      OBVIOUS
    <2>2. k < m => <<k, m>> \in R
      BY <1>2, <2>1
    <2> QED
      BY <1>3, <2>1, <2>2
  <1> QED
    BY <1>4

(* A sequence of documents in increasing order.                            *)
Increasing(s) ==
    /\ s \in Seq(Int)
    /\ \A i, j \in 1..Len(s) : i < j => s[i] < s[j]

(* The codec: the sums of the differences of a block are the block.        *)
LEMMA CompressType ==
    ASSUME NEW b \in Seq(Int)
    PROVE  Compress(b) \in Seq(Int) /\ Len(Compress(b)) = Len(b)
  <1>1. Len(b) \in Nat
    OBVIOUS
  <1>2. \A k \in 1..Len(b) : (IF k = 1 THEN b[1] ELSE b[k] - b[k - 1]) \in Int
    OBVIOUS
  <1> QED
    BY <1>1, <1>2 DEF Compress

(* What is compressed comes back as it was.                                *)
LEMMA CodecRoundTrip ==
    ASSUME NEW b \in Seq(Int)
    PROVE  Uncompress(Compress(b)) = b
  <1> DEFINE c == Compress(b)
             Sums(f) == f = [k \in 1..Len(c) |-> IF k = 1 THEN c[1] ELSE f[k - 1] + c[k]]
  <1>0. Len(b) \in Nat /\ Len(c) = Len(b) /\ b = [k \in 1..Len(b) |-> b[k]]
    BY CompressType
  <1>0a. \A k \in 1..Len(b) : c[k] = (IF k = 1 THEN b[1] ELSE b[k] - b[k - 1])
    BY DEF Compress
  <1>1. Sums(b)
    <2>1. \A k \in 1..Len(b) : b[k] = (IF k = 1 THEN c[1] ELSE b[k - 1] + c[k])
      BY <1>0, <1>0a
    <2> HIDE DEF c
    <2> QED
      BY <1>0, <2>1
  <1>2. ASSUME NEW f, Sums(f) PROVE f = b
    <2> DEFINE T == {k \in 1..Len(b) : f[k] # b[k]}
    <2> HIDE DEF c
    <2>1. \A k \in 1..Len(b) : f[k] = (IF k = 1 THEN c[1] ELSE f[k - 1] + c[k])
      BY <1>0, <1>2
    <2>2. CASE T # {}
      <3>0. T \subseteq Nat
        BY <1>0
      <3>1. PICK m \in T : \A k \in T : m <= k
        BY <3>0, <2>2, Least
      <3>2. m = 1 \/ (m > 1 /\ f[m - 1] = b[m - 1])
        BY <1>0, <3>1
      <3> QED
        BY <1>0, <1>0a, <2>1, <3>1, <3>2
    <2>3. CASE T = {}
      BY <1>0, <1>2, <2>3
    <2> QED
      BY <2>2, <2>3
  <1> HIDE DEF Sums
  <1>3. Uncompress(c) = CHOOSE f : Sums(f)
    BY DEF Uncompress, Sums
  <1> QED
    BY <1>1, <1>2, <1>3

--------------------------------------------------------------------------------
(* What binarySearch is for: the first entry from start to end that is not *)
(* less than t, by its index, or -1.                                       *)
FirstFrom(s, start, end, t) ==
    IF \E i \in start..end : At(s, i) >= t
    THEN CHOOSE i \in start..end : At(s, i) >= t /\ \A j \in start..(i - 1) : At(s, j) < t
    ELSE -1

(* The index is that of the first such entry, and -1 if there is none.     *)
LEMMA FirstFromExact ==
    ASSUME NEW s, NEW start \in Nat, NEW end \in Nat, NEW t \in Int,
           \A i \in start..end : At(s, i) \in Int
    PROVE  \/ /\ FirstFrom(s, start, end, t) \in start..end
              /\ At(s, FirstFrom(s, start, end, t)) >= t
              /\ \A j \in start..(FirstFrom(s, start, end, t) - 1) : At(s, j) < t
           \/ /\ FirstFrom(s, start, end, t) = -1
              /\ \A i \in start..end : At(s, i) < t
  <1> DEFINE T == {i \in start..end : At(s, i) >= t}
  <1>1. CASE T = {}
    <2>1. \A i \in start..end : At(s, i) < t
      BY <1>1
    <2>2. FirstFrom(s, start, end, t) = -1
      BY <1>1 DEF FirstFrom
    <2> QED
      BY <2>1, <2>2
  <1>2. CASE T # {}
    <2>0. T \subseteq Nat
      OBVIOUS
    <2>1. PICK m \in T : \A k \in T : m <= k
      BY <2>0, <1>2, Least
    <2>2. \A j \in start..(m - 1) : At(s, j) < t
      <3> SUFFICES ASSUME NEW j \in start..(m - 1) PROVE At(s, j) < t
        OBVIOUS
      <3>1. j \in start..end /\ j < m
        BY <2>0
      <3> QED
        BY <3>1, <2>1
    <2>3. m \in start..end /\ At(s, m) >= t
      OBVIOUS
    <2> HIDE DEF T
    <2>4. FirstFrom(s, start, end, t) =
            CHOOSE i \in start..end : At(s, i) >= t /\ \A j \in start..(i - 1) : At(s, j) < t
      BY <2>3 DEF FirstFrom
    <2> QED
      BY <2>2, <2>3, <2>4
  <1> QED
    BY <1>1, <1>2

(* If there is such an entry, the first one is found.                      *)
LEMMA FirstFromFound ==
    ASSUME NEW s, NEW start \in Nat, NEW end \in Nat, NEW t \in Int,
           \A i \in start..end : At(s, i) \in Int,
           NEW k \in start..end, At(s, k) >= t
    PROVE  /\ FirstFrom(s, start, end, t) \in start..end
           /\ At(s, FirstFrom(s, start, end, t)) >= t
           /\ \A j \in start..(FirstFrom(s, start, end, t) - 1) : At(s, j) < t
  <1>1. ~\A i \in start..end : At(s, i) < t
    OBVIOUS
  <1> QED
    BY <1>1, FirstFromExact

(* There is only one first entry.                                          *)
LEMMA FirstFromUnique ==
    ASSUME NEW s, NEW start \in Nat, NEW end \in Nat, NEW t \in Int,
           \A i \in start..end : At(s, i) \in Int,
           NEW k \in start..end, At(s, k) >= t,
           \A j \in start..(k - 1) : At(s, j) < t
    PROVE  FirstFrom(s, start, end, t) = k
  <1> DEFINE f == FirstFrom(s, start, end, t)
  <1> HIDE DEF f
  <1>1. f \in start..end /\ At(s, f) >= t /\ \A j \in start..(f - 1) : At(s, j) < t
    BY FirstFromFound DEF f
  <1>2. ~(f < k)
    <2>1. f < k => f \in start..(k - 1)
      BY <1>1
    <2> QED
      BY <1>1, <2>1
  <1>3. ~(k < f)
    <2>1. k < f => k \in start..(f - 1)
      BY <1>1
    <2> QED
      BY <1>1, <2>1
  <1> QED
    BY <1>1, <1>2, <1>3 DEF f

(* The loop halves the interval and finds it.                              *)
LEMMA BinarySearchExact ==
    ASSUME NEW s, NEW start \in Nat, NEW end \in Nat, NEW t \in Int, start <= end,
           \A i \in start..end : At(s, i) \in Int,
           \A i, j \in start..end : i < j => At(s, i) < At(s, j)
    PROVE  binarySearch(s, start, end, t) = FirstFrom(s, start, end, t)
  <1> DEFINE D == start..end
             Body(f, lo, hi) ==
                IF lo >= hi THEN (IF At(s, lo) >= t THEN lo ELSE -1)
                ELSE IF At(s, (lo + hi) \div 2) < t THEN f[<<(lo + hi) \div 2 + 1, hi>>]
                ELSE IF At(s, (lo + hi) \div 2) = t THEN (lo + hi) \div 2
                ELSE f[<<lo, (lo + hi) \div 2>>]
             Search(f) == f = [r \in D \X D |-> Body(f, r[1], r[2])]
             G == [r \in D \X D |->
                     IF r[1] >= r[2] THEN (IF At(s, r[1]) >= t THEN r[1] ELSE -1)
                     ELSE FirstFrom(s, r[1], r[2], t)]
  <1>1. ASSUME NEW lo \in D, NEW hi \in D PROVE G[<<lo, hi>>] = Body(G, lo, hi)
    <2>1. CASE lo >= hi
      BY <2>1
    <2>2. CASE lo < hi
      <3> DEFINE mid == (lo + hi) \div 2
      <3>1. mid \in D /\ mid + 1 \in D /\ lo <= mid /\ mid < hi /\ lo \in Nat /\ hi \in Nat
        BY <2>2
      <3> HIDE DEF mid
      <3>2. G[<<lo, hi>>] = FirstFrom(s, lo, hi, t)
        BY <2>2
      <3>2a. \A i \in lo..hi : i \in D /\ At(s, i) \in Int
        OBVIOUS
      <3>3. CASE At(s, mid) < t
        <4>1. Body(G, lo, hi) = G[<<mid + 1, hi>>]
          BY <2>2, <3>3 DEF mid
        <4>2. \A j \in lo..mid : At(s, j) < t
          <5> SUFFICES ASSUME NEW j \in lo..mid PROVE At(s, j) < t
            OBVIOUS
          <5>1. j \in D /\ (j < mid \/ j = mid)
            BY <3>1
          <5> QED
            BY <3>1, <3>3, <5>1
        <4>3. G[<<mid + 1, hi>>] = FirstFrom(s, mid + 1, hi, t)
          <5>1. CASE mid + 1 >= hi
            <6>1. mid + 1 = hi /\ G[<<mid + 1, hi>>] = (IF At(s, hi) >= t THEN hi ELSE -1)
              BY <3>1, <5>1
            <6>2. (hi \in hi..hi) /\ \A i \in hi..hi : i = hi
              BY <3>1
            <6>3. CASE At(s, hi) >= t
              <7>1. FirstFrom(s, hi, hi, t) = hi
                <8>1. \A j \in hi..(hi - 1) : At(s, j) < t
                  BY <3>1
                <8> QED
                  BY <3>1, <3>2a, <6>2, <6>3, <8>1, FirstFromUnique
              <7> QED
                BY <6>1, <6>3, <7>1
            <6>4. CASE ~(At(s, hi) >= t)
              BY <6>1, <6>2, <6>4 DEF FirstFrom
            <6> QED
              BY <6>3, <6>4
          <5>2. CASE mid + 1 < hi
            BY <3>1, <5>2
          <5> QED
            BY <3>1, <5>1, <5>2
        <4>4. FirstFrom(s, mid + 1, hi, t) = FirstFrom(s, lo, hi, t)
          <5>1. CASE \E i \in (mid + 1)..hi : At(s, i) >= t
            <6> DEFINE k == FirstFrom(s, mid + 1, hi, t)
            <6> HIDE DEF k
            <6>1. /\ k \in (mid + 1)..hi /\ At(s, k) >= t
                  /\ \A j \in (mid + 1)..(k - 1) : At(s, j) < t
              <7>1. \A i \in (mid + 1)..hi : At(s, i) \in Int
                BY <3>1, <3>2a
              <7>2. PICK i \in (mid + 1)..hi : At(s, i) >= t
                BY <5>1
              <7>3. mid + 1 \in Nat
                BY <3>1
              <7> QED
                BY <3>1, <7>1, <7>2, <7>3, FirstFromFound DEF k
            <6>2. \A j \in lo..(k - 1) : At(s, j) < t
              <7> SUFFICES ASSUME NEW j \in lo..(k - 1) PROVE At(s, j) < t
                OBVIOUS
              <7>1. j \in lo..mid \/ j \in (mid + 1)..(k - 1)
                BY <3>1, <6>1
              <7> QED
                BY <7>1, <4>2, <6>1
            <6>3. k \in lo..hi
              BY <3>1, <6>1
            <6>4. FirstFrom(s, lo, hi, t) = k
              BY <3>1, <3>2a, <6>1, <6>2, <6>3, FirstFromUnique
            <6> QED
              BY <6>4 DEF k
          <5>2. CASE ~\E i \in (mid + 1)..hi : At(s, i) >= t
            <6>1. ~\E i \in lo..hi : At(s, i) >= t
              <7> SUFFICES ASSUME NEW i \in lo..hi, At(s, i) >= t PROVE FALSE
                OBVIOUS
              <7>1. i \in lo..mid \/ i \in (mid + 1)..hi
                BY <3>1
              <7>2. CASE i \in lo..mid
                BY <4>2, <7>2, <3>2a
              <7> QED
                BY <7>1, <7>2, <5>2
            <6> QED
              BY <5>2, <6>1 DEF FirstFrom
          <5> QED
            BY <5>1, <5>2
        <4> QED
          BY <3>2, <4>1, <4>3, <4>4
      <3>4. CASE At(s, mid) = t
        <4>1. Body(G, lo, hi) = mid
          BY <2>2, <3>1, <3>4 DEF mid
        <4>2. \A j \in lo..(mid - 1) : At(s, j) < t
          BY <3>1, <3>4
        <4>3. mid \in lo..hi /\ At(s, mid) >= t
          BY <3>1, <3>4
        <4>4. FirstFrom(s, lo, hi, t) = mid
          BY <3>1, <3>2a, <4>2, <4>3, FirstFromUnique
        <4> QED
          BY <3>2, <4>1, <4>4
      <3>5. CASE At(s, mid) > t
        <4>1. Body(G, lo, hi) = G[<<lo, mid>>]
          BY <2>2, <3>1, <3>5 DEF mid
        <4>2. CASE lo = mid
          <5>1. G[<<lo, mid>>] = lo
            BY <3>1, <3>5, <4>2
          <5>2. \A j \in lo..(lo - 1) : At(s, j) < t
            BY <3>1
          <5>3. lo \in lo..hi /\ At(s, lo) >= t
            BY <3>1, <3>5, <4>2
          <5>4. FirstFrom(s, lo, hi, t) = lo
            BY <3>1, <3>2a, <5>2, <5>3, FirstFromUnique
          <5> QED
            BY <3>2, <4>1, <5>1, <5>4
        <4>3. CASE lo < mid
          <5>1. G[<<lo, mid>>] = FirstFrom(s, lo, mid, t)
            BY <3>1, <4>3
          <5> DEFINE k == FirstFrom(s, lo, mid, t)
          <5> HIDE DEF k
          <5>2. /\ k \in lo..mid /\ At(s, k) >= t
                /\ \A j \in lo..(k - 1) : At(s, j) < t
            <6>1. mid \in lo..mid /\ At(s, mid) >= t
              BY <3>1, <3>5
            <6>2. \A i \in lo..mid : At(s, i) \in Int
              BY <3>1, <3>2a
            <6> QED
              BY <3>1, <6>1, <6>2, FirstFromFound DEF k
          <5>3. k \in lo..hi
            BY <3>1, <5>2
          <5>4. FirstFrom(s, lo, hi, t) = k
            BY <3>1, <3>2a, <5>2, <5>3, FirstFromUnique
          <5> QED
            BY <3>2, <4>1, <5>1, <5>4 DEF k
        <4> QED
          BY <3>1, <4>2, <4>3
      <3>6. At(s, mid) \in Int
        BY <3>1
      <3>7. At(s, mid) < t \/ At(s, mid) = t \/ At(s, mid) > t
        BY <3>6
      <3> HIDE DEF G
      <3> QED
        BY <3>3, <3>4, <3>5, <3>7
    <2> QED
      BY <2>1, <2>2
  <1> HIDE DEF Body
  <1>2. Search(G)
    <2>1. G = [r \in D \X D |-> G[r]]
      OBVIOUS
    <2> HIDE DEF G
    <2> QED
      BY <1>1, <2>1
  <1>3. ASSUME NEW f, Search(f), NEW lo \in D, NEW hi \in D PROVE f[<<lo, hi>>] = G[<<lo, hi>>]
    <2> DEFINE T == {n \in Nat : \E p, q \in D : n = (IF p < q THEN q - p ELSE 0) /\ f[<<p, q>>] # G[<<p, q>>]}
    <2>1. \A p, q \in D : f[<<p, q>>] = Body(f, p, q)
      BY <1>3
    <2> HIDE DEF G
    <2>2. CASE T # {}
      <3>1. PICK m \in T : \A n \in T : m <= n
        <4>1. T \subseteq Nat
          OBVIOUS
        <4> QED
          BY <4>1, <2>2, Least
      <3>1a. m \in Nat
        OBVIOUS
      <3>1b. \A n \in Nat : n < m => ~(n \in T)
        <4> HIDE DEF T
        <4> QED
          BY <3>1, <3>1a
      <3>2. PICK p \in D, q \in D : m = (IF p < q THEN q - p ELSE 0) /\ f[<<p, q>>] # G[<<p, q>>]
        OBVIOUS
      <3>3. f[<<p, q>>] = Body(f, p, q) /\ G[<<p, q>>] = Body(G, p, q)
        BY <1>1, <2>1
      <3>4. CASE p >= q
        BY <3>2, <3>3, <3>4 DEF Body
      <3>5. CASE p < q
        <4> DEFINE mid == (p + q) \div 2
        <4>1. mid \in D /\ mid + 1 \in D /\ p <= mid /\ mid < q
          BY <3>5
        <4> HIDE DEF mid
        <4>2. f[<<mid + 1, q>>] = G[<<mid + 1, q>>]
          <5> DEFINE n == IF mid + 1 < q THEN q - (mid + 1) ELSE 0
          <5>1. n \in Nat /\ n < m
            BY <3>2, <3>5, <4>1
          <5> HIDE DEF n
          <5>2. ~(n \in T)
            BY <3>1b, <5>1
          <5> QED
            BY <4>1, <5>1, <5>2 DEF n
        <4>3. f[<<p, mid>>] = G[<<p, mid>>]
          <5> DEFINE n == IF p < mid THEN mid - p ELSE 0
          <5>1. n \in Nat /\ n < m
            BY <3>2, <3>5, <4>1
          <5> HIDE DEF n
          <5>2. ~(n \in T)
            BY <3>1b, <5>1
          <5> QED
            BY <4>1, <5>1, <5>2 DEF n
        <4> QED
          BY <3>2, <3>3, <4>2, <4>3 DEF Body, mid
      <3> QED
        BY <3>4, <3>5
    <2>3. CASE T = {}
      <3>1. (IF lo < hi THEN hi - lo ELSE 0) \in Nat
        OBVIOUS
      <3> QED
        BY <2>3, <3>1
    <2> QED
      BY <2>2, <2>3
  <1>4. binarySearch(s, start, end, t) = (CHOOSE f : Search(f))[<<start, end>>]
    BY DEF binarySearch, Search, Body
  <1> HIDE DEF Search
  <1>5. binarySearch(s, start, end, t) = G[<<start, end>>]
    <2>1. Search(CHOOSE f : Search(f))
      BY <1>2
    <2>2. start \in D /\ end \in D
      OBVIOUS
    <2> QED
      BY <1>3, <1>4, <2>1, <2>2
  <1>6. CASE start < end
    BY <1>5, <1>6
  <1>7. CASE start = end
    <2>1. G[<<start, end>>] = (IF At(s, start) >= t THEN start ELSE -1)
      BY <1>7
    <2>2. start \in start..start /\ (\A i \in start..start : i = start)
      OBVIOUS
    <2>3. CASE At(s, start) >= t
      <3>1. \A j \in start..(start - 1) : At(s, j) < t
        OBVIOUS
      <3>2. FirstFrom(s, start, start, t) = start
        BY <1>7, <2>2, <2>3, <3>1, FirstFromUnique
      <3> QED
        BY <1>5, <1>7, <2>1, <2>3, <3>2
    <2>4. CASE ~(At(s, start) >= t)
      BY <1>5, <1>7, <2>1, <2>2, <2>4 DEF FirstFrom
    <2> QED
      BY <2>3, <2>4
  <1> QED
    BY <1>6, <1>7

--------------------------------------------------------------------------------
(* The array addDocs is given: Sorted(D) lists D in increasing order.      *)
LEMMA SortedExact ==
    ASSUME NEW D, D \subseteq Int, IsFiniteSet(D)
    PROVE  /\ Increasing(Sorted(D))
           /\ Len(Sorted(D)) = Cardinality(D)
           /\ D = {Sorted(D)[k] : k \in 1..Len(Sorted(D))}
  <1> DEFINE n == Cardinality(D)
             Below(d) == {e \in D : e <= d}
             rank == [d \in D |-> Cardinality(Below(d))]
  <1>1. n \in Nat
    BY FS_CardinalityType
  <1>2. ASSUME NEW d \in D
        PROVE  IsFiniteSet(Below(d)) /\ rank[d] \in 1..n
    <2>1. Below(d) \in SUBSET D
      OBVIOUS
    <2>2. IsFiniteSet(Below(d)) /\ Cardinality(Below(d)) <= n
      BY <2>1, FS_Subset
    <2>3. d \in Below(d)
      OBVIOUS
    <2> HIDE DEF Below
    <2>4. Cardinality(Below(d)) \in Nat
      BY <2>2, FS_CardinalityType
    <2>5. Cardinality(Below(d)) # 0
      BY <2>2, <2>3, FS_EmptySet
    <2> HIDE DEF n
    <2> QED
      BY <1>1, <2>2, <2>4, <2>5
  <1>3. ASSUME NEW d \in D, NEW e \in D, d < e PROVE rank[d] < rank[e]
    <2>0. \A x \in D : x <= d => x <= e
      BY <1>3
    <2>1. Below(d) \in SUBSET Below(e)
      BY <2>0
    <2>2. e \in Below(e) /\ ~(e \in Below(d))
      BY <1>3
    <2>3. IsFiniteSet(Below(e))
      BY <1>2
    <2>3a. rank[d] = Cardinality(Below(d)) /\ rank[e] = Cardinality(Below(e))
      OBVIOUS
    <2> HIDE DEF Below
    <2>4. Cardinality(Below(d)) <= Cardinality(Below(e)) /\ Cardinality(Below(e)) # Cardinality(Below(d))
      BY <2>1, <2>2, <2>3, FS_Subset
    <2>5. rank[d] \in Int /\ rank[e] \in Int
      BY <1>2
    <2> HIDE DEF rank
    <2> QED
      BY <2>3a, <2>4, <2>5
  <1>4. rank \in [D -> 1..n]
    BY <1>2
  <1>5. \A d, e \in D : rank[d] = rank[e] => d = e
    <2> SUFFICES ASSUME NEW d \in D, NEW e \in D, d # e PROVE rank[d] # rank[e]
      OBVIOUS
    <2>1. d < e \/ e < d
      OBVIOUS
    <2>2. rank[d] \in Int /\ rank[e] \in Int
      BY <1>2
    <2> HIDE DEF rank
    <2> QED
      BY <1>3, <2>1, <2>2
  <1>6. \A k \in 1..n : \E d \in D : rank[d] = k
    <2> HIDE DEF rank
    <2>1. rank \in Injection(D, 1..n)
      BY <1>4, <1>5 DEF Injection, IsInjective
    <2>2. IsFiniteSet(1..n) /\ Cardinality(1..n) = n
      BY <1>1, FS_Interval
    <2>3. rank \in Surjection(D, 1..n)
      BY <2>1, <2>2, FS_Injection
    <2> QED
      BY <2>3 DEF Surjection
  <1>7. ASSUME NEW k \in 1..n PROVE Sorted(D)[k] \in D /\ rank[Sorted(D)[k]] = k
    <2>1. PICK d \in D : rank[d] = k
      BY <1>6
    <2>2. Sorted(D)[k] = CHOOSE x \in D : Cardinality({e \in D : e <= x}) = k
      BY DEF Sorted
    <2>3. Cardinality({e \in D : e <= d}) = k
      BY <2>1
    <2>4. Sorted(D)[k] \in D /\ Cardinality({e \in D : e <= Sorted(D)[k]}) = k
      BY <2>2, <2>3
    <2> QED
      BY <2>4
  <1>8. Sorted(D) \in Seq(Int) /\ Len(Sorted(D)) = n
    <2>1. Sorted(D) = [k \in 1..n |-> Sorted(D)[k]]
      BY DEF Sorted
    <2>2. \A k \in 1..n : Sorted(D)[k] \in Int
      BY <1>7
    <2> HIDE DEF n
    <2> QED
      BY <1>1, <2>1, <2>2
  <1> HIDE DEF rank
  <1>9. ASSUME NEW i \in 1..n, NEW j \in 1..n, i < j PROVE Sorted(D)[i] < Sorted(D)[j]
    <2> DEFINE x == Sorted(D)[i]
               y == Sorted(D)[j]
    <2>1. x \in D /\ y \in D /\ rank[x] = i /\ rank[y] = j
      BY <1>7
    <2> HIDE DEF x, y
    <2>1a. x \in Int /\ y \in Int
      BY <2>1
    <2>2. x < y \/ y < x \/ x = y
      BY <2>1a
    <2>3. x < y
      BY <1>3, <1>9, <2>1, <2>2
    <2> QED
      BY <2>3 DEF x, y
  <1>10. ASSUME NEW d \in D PROVE \E k \in 1..n : Sorted(D)[k] = d
    <2>1. rank[d] \in 1..n
      BY <1>2
    <2>2. Sorted(D)[rank[d]] \in D /\ rank[Sorted(D)[rank[d]]] = rank[d]
      BY <1>7, <2>1
    <2> QED
      BY <1>5, <2>1, <2>2
  <1> HIDE DEF n
  <1>11. Increasing(Sorted(D))
    BY <1>8, <1>9 DEF Increasing
  <1>12. D = {Sorted(D)[k] : k \in 1..n}
    BY <1>7, <1>10
  <1> QED
    BY <1>8, <1>11, <1>12 DEF n

--------------------------------------------------------------------------------
(* Arithmetic of blocks.  The provers see no product, only what is known   *)
(* of the length of k blocks.                                              *)
Times(k) == k * BlockSize

(* A document is in a block, at an offset in it.                           *)
LEMMA DivMod ==
    ASSUME NEW c \in Nat
    PROVE  /\ BlockIndex(c) \in Nat
           /\ Offset(c) \in 0..(BlockSize - 1)
           /\ c = Times(BlockIndex(c)) + Offset(c)
  BY BlockSizeAssumption DEF BlockIndex, Offset, Times

(* The document at an offset of a block is in that block.                  *)
LEMMA DivModOf ==
    ASSUME NEW q \in Nat, NEW r \in 0..(BlockSize - 1)
    PROVE  BlockIndex(Times(q) + r) = q /\ Offset(Times(q) + r) = r
  BY BlockSizeAssumption DEF BlockIndex, Offset, Times

(* Blocks follow one another.                                              *)
LEMMA BlocksApart ==
    ASSUME NEW p \in Nat, NEW q \in Nat
    PROVE  /\ Times(p) \in Nat
           /\ p < q => Times(p) + BlockSize <= Times(q)
           /\ p <= q => Times(p) <= Times(q)
           /\ Times(p + q) = Times(p) + Times(q)
           /\ Times(p + 1) = Times(p) + BlockSize
  BY BlockSizeAssumption DEF Times

(* The full blocks of a list that is cut, and what is left over of it.     *)
LEMMA FullBlocksOf ==
    ASSUME NEW s \in Seq(Int), s # <<>>
    PROVE  /\ FullBlocks(s) \in Nat
           /\ Times(FullBlocks(s)) < Len(s)
           /\ Len(s) <= Times(FullBlocks(s)) + BlockSize
  <1>1. Len(s) - 1 \in Nat
    OBVIOUS
  <1>2. FullBlocks(s) = BlockIndex(Len(s) - 1)
    BY DEF FullBlocks, BlockIndex
  <1> DEFINE q == FullBlocks(s)
             r == Offset(Len(s) - 1)
  <1>3. q \in Nat /\ r \in 0..(BlockSize - 1) /\ Len(s) - 1 = Times(q) + r
    BY <1>1, <1>2, DivMod
  <1>4. Times(q) \in Nat
    BY <1>3, BlocksApart
  <1> HIDE DEF q, r
  <1>5. Times(q) < Len(s) /\ Len(s) <= Times(q) + BlockSize
    BY <1>1, <1>3, <1>4, BlockSizeAssumption
  <1> QED
    BY <1>3, <1>5 DEF q

--------------------------------------------------------------------------------
(* How a list of documents S is laid out: n compressed blocks, the last    *)
(* document of each beside them, and a last block that is not empty when   *)
(* there are others.                                                       *)
Lay(S, cur, bas, chk) ==
    /\ cur \in Seq(Int) /\ bas \in Seq(Int) /\ chk \in Seq(Seq(Int))
    /\ Len(bas) = Len(chk)
    /\ Len(S) = Times(Len(chk)) + Len(cur)
    /\ Len(cur) <= BlockSize
    /\ Len(chk) > 0 => Len(cur) > 0
    /\ \A k \in 1..Len(chk) : bas[k] = S[Times(k)] /\ chk[k] = Compress(Block(S, k - 1))
    /\ \A i \in 1..Len(cur) : cur[i] = S[Times(Len(chk)) + i]

(* A block is a part of the list.                                          *)
LEMMA BlockExact ==
    ASSUME NEW S \in Seq(Int), NEW k \in Nat, Times(k + 1) <= Len(S)
    PROVE  /\ Block(S, k) \in Seq(Int)
           /\ Len(Block(S, k)) = BlockSize
           /\ \A i \in 1..BlockSize : Block(S, k)[i] = S[Times(k) + i]
  <1> DEFINE a == Times(k)
  <1>1. a \in Nat /\ Times(k + 1) = a + BlockSize
    BY BlocksApart, 1 \in Nat
  <1> HIDE DEF a
  <1>2. Block(S, k) = SubSeq(S, a + 1, a + BlockSize)
    BY <1>1 DEF Block, a, Times
  <1>3. \A i \in (a + 1)..(a + BlockSize) : S[i] \in Int
    BY <1>1, BlockSizeAssumption
  <1>4. a + 1 \in Int /\ a + BlockSize \in Int
    BY <1>1, BlockSizeAssumption
  <1>5. /\ SubSeq(S, a + 1, a + BlockSize) \in Seq(Int)
        /\ Len(SubSeq(S, a + 1, a + BlockSize)) =
             IF a + 1 <= a + BlockSize THEN (a + BlockSize) - (a + 1) + 1 ELSE 0
        /\ \A i \in 1..((a + BlockSize) - (a + 1) + 1) :
              SubSeq(S, a + 1, a + BlockSize)[i] = S[(a + 1) + i - 1]
    BY <1>3, <1>4, SubSeqProperties
  <1>6. (a + BlockSize) - (a + 1) + 1 = BlockSize /\ a + 1 <= a + BlockSize
    BY <1>1, BlockSizeAssumption
  <1>7. \A i \in 1..BlockSize : (a + 1) + i - 1 = a + i
    BY <1>1, BlockSizeAssumption
  <1> QED
    BY <1>2, <1>5, <1>6, <1>7 DEF a

(* Two lists that agree on a block have the same block.                    *)
LEMMA SameBlock ==
    ASSUME NEW S \in Seq(Int), NEW R \in Seq(Int), NEW k \in Nat, NEW j \in Nat,
           Times(k + 1) <= Len(S), Times(j + 1) <= Len(R),
           \A i \in 1..BlockSize : S[Times(k) + i] = R[Times(j) + i]
    PROVE  Block(S, k) = Block(R, j)
  <1>1. \A i \in 1..BlockSize : Block(S, k)[i] = Block(R, j)[i]
    BY BlockExact
  <1>2. Block(S, k) \in Seq(Int) /\ Block(R, j) \in Seq(Int) /\ Len(Block(S, k)) = BlockSize /\ Len(Block(R, j)) = BlockSize
    BY BlockExact
  <1> QED
    BY <1>1, <1>2, SeqEqual

(* The block found through the codec.                                      *)
LEMMA UncompressedBlock ==
    ASSUME NEW S \in Seq(Int), NEW cur, NEW bas, NEW chk, Lay(S, cur, bas, chk),
           NEW b \in 0..(Len(chk) - 1)
    PROVE  /\ Times(b + 1) <= Len(S)
           /\ Uncompress(At(chk, b)) = Block(S, b)
           /\ Len(At(chk, b)) = BlockSize
           /\ At(bas, b) = S[Times(b) + BlockSize]
  <1>1. Len(chk) \in Nat /\ Len(cur) \in Nat /\ b \in Nat /\ b + 1 \in 1..Len(chk) /\ (b + 1) - 1 = b
    BY DEF Lay
  <1>2. Times(b + 1) <= Times(Len(chk))
    BY <1>1, BlocksApart
  <1>3. Times(Len(chk)) \in Nat /\ Times(b + 1) = Times(b) + BlockSize /\ Times(b + 1) \in Nat
    BY <1>1, BlocksApart, 1 \in Nat
  <1>4. Times(b + 1) <= Len(S)
    BY <1>1, <1>2, <1>3 DEF Lay
  <1>5. chk[b + 1] = Compress(Block(S, b)) /\ bas[b + 1] = S[Times(b + 1)]
    BY <1>1 DEF Lay
  <1>6. Block(S, b) \in Seq(Int) /\ Len(Block(S, b)) = BlockSize
    BY <1>1, <1>4, BlockExact
  <1> QED
    BY <1>3, <1>4, <1>5, <1>6, CodecRoundTrip, CompressType DEF At

(* The list goes on with E: the last block is filled up, and what E still  *)
(* has fills further blocks and the new last block.                        *)
LEMMA LayExtends ==
    ASSUME NEW S \in Seq(Int), NEW cur, NEW bas, NEW chk, Lay(S, cur, bas, chk),
           NEW E \in Seq(Int), E # <<>>
    PROVE  LET s == cur \o E
           IN Lay(S \o E, LeftOver(s),
                  bas \o [k \in 1..FullBlocks(s) |-> LastOf(Block(s, k - 1))],
                  chk \o [k \in 1..FullBlocks(s) |-> Compress(Block(s, k - 1))])
  <1> DEFINE s == cur \o E
             m == FullBlocks(s)
             n == Len(chk)
             nB == Times(n)
             mB == Times(m)
             P == S \o E
             nb == [k \in 1..m |-> LastOf(Block(s, k - 1))]
             nc == [k \in 1..m |-> Compress(Block(s, k - 1))]
             left == LeftOver(s)
  <1>1. /\ cur \in Seq(Int) /\ bas \in Seq(Int) /\ chk \in Seq(Seq(Int))
        /\ n \in Nat /\ Len(bas) = n /\ Len(S) = nB + Len(cur) /\ Len(cur) \in Nat
        /\ Len(cur) <= BlockSize
    BY DEF Lay
  <1>1a. /\ \A k \in 1..n : bas[k] = S[Times(k)] /\ chk[k] = Compress(Block(S, k - 1))
         /\ \A i \in 1..Len(cur) : cur[i] = S[nB + i]
    BY DEF Lay
  <1>2. nB \in Nat
    BY <1>1, BlocksApart
  <1>3. s \in Seq(Int) /\ s # <<>>
    BY <1>1
  <1>3n. Len(s) = Len(cur) + Len(E) /\ Len(s) \in Nat /\ Len(E) \in Nat
    BY <1>1
  <1>3q. \A i \in 1..Len(s) : s[i] = IF i <= Len(cur) THEN cur[i] ELSE E[i - Len(cur)]
    BY <1>1
  <1>4n. Len(P) = Len(S) + Len(E) /\ Len(S) \in Nat /\ Len(P) \in Nat
    OBVIOUS
  <1>4. /\ P \in Seq(Int)
        /\ \A i \in 1..Len(P) : P[i] = IF i <= Len(S) THEN S[i] ELSE E[i - Len(S)]
    OBVIOUS
  <1> HIDE DEF nB, s, P
  <1>5. m \in Nat /\ mB < Len(s) /\ Len(s) <= mB + BlockSize /\ mB \in Nat
    BY <1>3, FullBlocksOf, BlocksApart
  <1> HIDE DEF m, n
  <1>1n. n \in Nat /\ Len(S) = nB + Len(cur) /\ Len(cur) \in Nat /\ Len(cur) <= BlockSize
    BY <1>1
  <1>6. Len(P) = nB + Len(s)
    BY <1>1n, <1>2, <1>3n, <1>4n
  <1>7. ASSUME NEW i \in 1..Len(s) PROVE P[nB + i] = s[i]
    <2>1. nB + i \in 1..Len(P)
      BY <1>2, <1>3n, <1>6
    <2>2. CASE i <= Len(cur)
      <3>1. nB + i <= Len(S) /\ i \in 1..Len(cur)
        BY <1>1n, <1>2, <2>2
      <3> QED
        BY <1>1a, <1>3q, <1>4, <2>1, <2>2, <3>1
    <2>3. CASE i > Len(cur)
      <3>1. ~(nB + i <= Len(S)) /\ (nB + i) - Len(S) = i - Len(cur) /\ ~(i <= Len(cur))
        BY <1>1n, <1>2, <2>3
      <3> QED
        BY <1>3q, <1>4, <2>1, <3>1
    <2> QED
      BY <1>1n, <2>2, <2>3
  <1>8. Times(n + m) = nB + mB
    BY <1>1, <1>5, BlocksApart DEF nB
  <1> HIDE DEF mB
  <1>9. /\ left \in Seq(Int) /\ Len(left) = Len(s) - mB /\ Len(left) \in Nat
        /\ \A i \in 1..Len(left) : left[i] = s[mB + i]
    <2>1. left = SubSeq(s, mB + 1, Len(s))
      BY DEF LeftOver, mB, m, Times
    <2>2. \A i \in (mB + 1)..Len(s) : s[i] \in Int
      <3>1. \A i \in (mB + 1)..Len(s) : i \in 1..Len(s)
        BY <1>3n, <1>5
      <3> QED
        BY <1>3, <3>1
    <2>3. mB + 1 \in Int /\ Len(s) \in Int /\ mB + 1 <= Len(s) /\ Len(s) - (mB + 1) + 1 = Len(s) - mB
      BY <1>3n, <1>5
    <2> HIDE DEF left
    <2>4. /\ left \in Seq(Int) /\ Len(left) = Len(s) - mB
          /\ \A i \in 1..(Len(s) - mB) : left[i] = s[(mB + 1) + i - 1]
      BY <2>1, <2>2, <2>3, SubSeqProperties
    <2>5. \A i \in 1..(Len(s) - mB) : (mB + 1) + i - 1 = mB + i
      BY <1>3n, <1>5
    <2>6. Len(s) - mB \in Nat
      BY <1>3n, <1>5
    <2> QED
      BY <2>4, <2>5, <2>6
  <1>9n. Len(left) = Len(s) - mB /\ Len(left) \in Nat
    BY <1>9
  <1> HIDE DEF left
  <1>10. ASSUME NEW k \in 1..m
         PROVE  /\ k - 1 \in Nat /\ (k - 1) + 1 = k
                /\ Times(k) <= mB /\ Times(k) \in 1..Len(s)
                /\ Times(k) = Times(k - 1) + BlockSize /\ Times(k - 1) \in Nat
    <2>1. k - 1 \in Nat /\ (k - 1) + 1 = k /\ k \in Nat /\ k <= m
      BY <1>5
    <2>2. Times(k) <= mB /\ Times(k) \in Nat
      BY <1>5, <2>1, BlocksApart DEF mB
    <2>3. Times(k) = Times(k - 1) + BlockSize /\ Times(k - 1) \in Nat
      BY <2>1, BlocksApart, 1 \in Nat
    <2>4. BlockSize \in Nat /\ BlockSize > 0
      BY BlockSizeAssumption
    <2>5. Times(k) >= 1
      BY <2>2, <2>3, <2>4
    <2>6. Times(k) <= Len(s)
      BY <1>3n, <1>5, <2>2
    <2>7. Times(k) \in 1..Len(s)
      BY <1>3n, <2>2, <2>5, <2>6
    <2> QED
      BY <2>1, <2>2, <2>3, <2>7
  <1>10b. ASSUME NEW k \in 1..m
         PROVE  /\ Block(s, k - 1) \in Seq(Int) /\ Len(Block(s, k - 1)) = BlockSize
                /\ \A i \in 1..BlockSize : Block(s, k - 1)[i] = s[Times(k - 1) + i]
    <2>1. k - 1 \in Nat /\ Times((k - 1) + 1) <= Len(s)
      BY <1>10
    <2> QED
      BY <1>3, <2>1, BlockExact
  <1>11. nb \in Seq(Int) /\ Len(nb) = m /\ \A k \in 1..m : nb[k] = s[Times(k)]
    <2>1. ASSUME NEW k \in 1..m
          PROVE  LastOf(Block(s, k - 1)) = s[Times(k)] /\ s[Times(k)] \in Int
      <3>1. BlockSize \in 1..BlockSize
        BY BlockSizeAssumption
      <3>2. Times(k) \in 1..Len(s) /\ Times(k) = Times(k - 1) + BlockSize
        BY <1>10
      <3>3. LastOf(Block(s, k - 1)) = Block(s, k - 1)[BlockSize]
        BY <1>10b DEF LastOf
      <3>4. Block(s, k - 1)[BlockSize] = s[Times(k - 1) + BlockSize]
        BY <1>10b, <3>1
      <3>5. s[Times(k)] \in Int
        BY <1>3, <3>2
      <3> QED
        BY <3>2, <3>3, <3>4, <3>5
    <2>2. \A k \in 1..m : LastOf(Block(s, k - 1)) \in Int
      BY <2>1
    <2>3. nb \in Seq(Int) /\ Len(nb) = m
      BY <1>5, <2>2
    <2>4. \A k \in 1..m : nb[k] = s[Times(k)]
      BY <2>1
    <2> QED
      BY <2>3, <2>4
  <1>12. nc \in Seq(Seq(Int)) /\ Len(nc) = m /\ \A k \in 1..m : nc[k] = Compress(Block(s, k - 1))
    <2>1. \A k \in 1..m : Compress(Block(s, k - 1)) \in Seq(Int)
      BY <1>10b, CompressType
    <2> QED
      BY <1>5, <2>1
  <1> HIDE DEF nb, nc
  <1>13. /\ bas \o nb \in Seq(Int) /\ Len(bas \o nb) = n + m
         /\ \A k \in 1..(n + m) : (bas \o nb)[k] = IF k <= n THEN bas[k] ELSE nb[k - n]
    <2>1. bas \in Seq(Int) /\ Len(bas) = n /\ nb \in Seq(Int) /\ Len(nb) = m
      BY <1>1, <1>11
    <2> QED
      BY <2>1, ConcatProperties
  <1>13c. /\ chk \o nc \in Seq(Seq(Int)) /\ Len(chk \o nc) = n + m
          /\ \A k \in 1..(n + m) : (chk \o nc)[k] = IF k <= n THEN chk[k] ELSE nc[k - n]
    <2>1. chk \in Seq(Seq(Int)) /\ Len(chk) = n /\ nc \in Seq(Seq(Int)) /\ Len(nc) = m
      BY <1>1, <1>12 DEF n
    <2> QED
      BY <2>1, ConcatProperties
  <1>14. ASSUME NEW k \in 1..(n + m)
         PROVE  (bas \o nb)[k] = P[Times(k)] /\ (chk \o nc)[k] = Compress(Block(P, k - 1))
    <2>0. k \in Nat /\ k - 1 \in Nat /\ (k - 1) + 1 = k /\ k <= n + m
      BY <1>1n, <1>5
    <2>0a. Times(k) = Times(k - 1) + BlockSize /\ Times(k - 1) \in Nat /\ Times(k) \in Nat
      BY <2>0, BlocksApart, 1 \in Nat
    <2>0b. BlockSize \in Nat /\ BlockSize > 0
      BY BlockSizeAssumption
    <2>0c. Times(k) >= 1
      BY <2>0a, <2>0b
    <2>1. CASE k <= n
      <3>1. k \in 1..n
        BY <1>1n, <2>0, <2>1
      <3>2. Times(k) <= nB
        BY <1>1n, <2>0, <2>1, BlocksApart DEF nB
      <3>3. Times(k) \in 1..Len(P) /\ Times(k) <= Len(S) /\ Times(k) <= Len(P)
        <4>1. Times(k) <= Len(S)
          BY <1>1n, <1>2, <1>4n, <2>0a, <3>2
        <4>2. Len(S) <= Len(P)
          BY <1>3n, <1>4n
        <4> QED
          BY <4>1, <4>2, <1>4n, <2>0a, <2>0c
      <3>4. P[Times(k)] = S[Times(k)]
        BY <1>4, <3>3
      <3>5. \A i \in 1..BlockSize : P[Times(k - 1) + i] = S[Times(k - 1) + i]
        <4> SUFFICES ASSUME NEW i \in 1..BlockSize PROVE P[Times(k - 1) + i] = S[Times(k - 1) + i]
          OBVIOUS
        <4>1. Times(k - 1) + i \in 1..Len(P) /\ Times(k - 1) + i <= Len(S)
          <5>1. i \in Nat /\ i >= 1 /\ i <= BlockSize
            BY <2>0b
          <5>2. Times(k - 1) + i \in Nat /\ Times(k - 1) + i <= Times(k) /\ Times(k - 1) + i >= 1
            BY <2>0a, <2>0b, <5>1
          <5> QED
            BY <1>4n, <2>0a, <3>3, <5>2
        <4> QED
          BY <1>4, <4>1
      <3>5a. Times((k - 1) + 1) <= Len(P) /\ Times((k - 1) + 1) <= Len(S)
        BY <2>0, <3>3
      <3>6. Block(P, k - 1) = Block(S, k - 1)
        BY <1>4, <2>0, <3>5a, <3>5, SameBlock
      <3>7. (bas \o nb)[k] = bas[k] /\ (chk \o nc)[k] = chk[k]
        BY <1>13, <1>13c, <2>1
      <3> QED
        BY <1>1a, <3>1, <3>4, <3>6, <3>7
    <2>2. CASE k > n
      <3> DEFINE j == k - n
      <3>1. j \in 1..m /\ j \in Nat /\ k = n + j /\ ~(k <= n)
        BY <1>1n, <1>5, <2>0, <2>2
      <3>2. (bas \o nb)[k] = nb[j] /\ (chk \o nc)[k] = nc[j]
        BY <1>13, <1>13c, <3>1
      <3> HIDE DEF j
      <3>3. /\ Times(j) \in 1..Len(s) /\ Times(j) \in Nat /\ Times(j - 1) \in Nat /\ Times(j) = Times(j - 1) + BlockSize
            /\ j - 1 \in Nat /\ (j - 1) + 1 = j
        <4>1. Times(j) \in Nat
          BY <3>1, BlocksApart
        <4> QED
          BY <1>10, <3>1, <4>1
      <3>4. Times(k) = nB + Times(j)
        BY <1>1n, <3>1, BlocksApart DEF nB
      <3>5. (bas \o nb)[k] = P[Times(k)]
        BY <1>7, <1>11, <3>1, <3>2, <3>3, <3>4
      <3>6. Times(k - 1) = nB + Times(j - 1)
        <4>1. Times(k) = Times(k - 1) + BlockSize /\ Times(k - 1) \in Nat /\ BlockSize \in Nat
          BY <2>0a, <2>0b
        <4>2. Times(j) = Times(j - 1) + BlockSize /\ Times(j - 1) \in Nat
          BY <3>3
        <4>3. Times(k - 1) + BlockSize = nB + (Times(j - 1) + BlockSize)
          BY <3>4, <4>1, <4>2
        <4> DEFINE x == Times(k - 1)
                   y == Times(j - 1)
        <4>4. x \in Nat /\ y \in Nat /\ BlockSize \in Nat /\ x + BlockSize = nB + (y + BlockSize)
          BY <4>1, <4>2, <4>3
        <4> HIDE DEF x, y
        <4>5. x = nB + y
          BY <1>2, <4>4
        <4> QED
          BY <4>5 DEF x, y
      <3>7. \A i \in 1..BlockSize : P[Times(k - 1) + i] = s[Times(j - 1) + i]
        <4> SUFFICES ASSUME NEW i \in 1..BlockSize PROVE P[Times(k - 1) + i] = s[Times(j - 1) + i]
          OBVIOUS
        <4>1. Times(j - 1) + i \in 1..Len(s)
          BY <1>3n, <2>0b, <3>3
        <4>2. Times(k - 1) + i = nB + (Times(j - 1) + i)
          BY <1>2, <2>0b, <3>3, <3>6
        <4> QED
          BY <1>7, <4>1, <4>2
      <3>8. Times((k - 1) + 1) <= Len(P) /\ Times((j - 1) + 1) <= Len(s)
        BY <1>2, <1>3n, <1>6, <2>0, <3>3, <3>4
      <3>9. Block(P, k - 1) = Block(s, j - 1)
        <4> DEFINE p == k - 1
                   q == j - 1
        <4>1. P \in Seq(Int) /\ s \in Seq(Int) /\ p \in Nat /\ q \in Nat
          BY <1>3, <1>4, <2>0, <3>3
        <4>2. Times(p + 1) <= Len(P) /\ Times(q + 1) <= Len(s)
          BY <3>8
        <4>3. \A i \in 1..BlockSize : P[Times(p) + i] = s[Times(q) + i]
          BY <3>7
        <4> HIDE DEF p, q
        <4>4. Block(P, p) = Block(s, q)
          BY <4>1, <4>2, <4>3, SameBlock
        <4> QED
          BY <4>4 DEF p, q
      <3> QED
        BY <1>12, <3>1, <3>2, <3>5, <3>9
    <2>3. k <= n \/ k > n
      BY <1>1n, <2>0
    <2> QED
      BY <2>1, <2>2, <2>3
  <1>15. ASSUME NEW i \in 1..Len(left) PROVE left[i] = P[Times(n + m) + i]
    <2>1. mB + i \in 1..Len(s)
      BY <1>3n, <1>5, <1>9n
    <2>2. Times(n + m) + i = nB + (mB + i)
      BY <1>2, <1>5, <1>8, <1>9n
    <2> QED
      BY <1>7, <1>9, <2>1, <2>2
  <1>16. /\ Len(left) > 0 /\ Len(left) <= BlockSize
         /\ Len(P) = Times(n + m) + Len(left)
    <2>1. BlockSize \in Nat
      BY BlockSizeAssumption
    <2> QED
      BY <2>1, <1>2, <1>3n, <1>5, <1>6, <1>8, <1>9n
  <1>17. Lay(P, left, bas \o nb, chk \o nc)
    <2> DEFINE bas2 == bas \o nb
               chk2 == chk \o nc
    <2>1. bas2 \in Seq(Int) /\ Len(bas2) = n + m /\ chk2 \in Seq(Seq(Int)) /\ Len(chk2) = n + m
      BY <1>13, <1>13c
    <2>2. \A k \in 1..(n + m) : bas2[k] = P[Times(k)] /\ chk2[k] = Compress(Block(P, k - 1))
      BY <1>14
    <2> HIDE DEF bas2, chk2
    <2>3. left \in Seq(Int)
      BY <1>9
    <2>4. Lay(P, left, bas2, chk2)
      BY <2>1, <2>2, <2>3, <1>15, <1>16 DEF Lay
    <2> QED
      BY <2>4 DEF bas2, chk2
  <1> QED
    BY <1>17 DEF P, left, nb, nc, m, s

--------------------------------------------------------------------------------
(* Documents by their index in the list.                                   *)
LEMMA DocAt ==
    ASSUME NEW S \in Seq(Int), NEW cur, NEW bas, NEW chk, Lay(S, cur, bas, chk),
           NEW c \in 0..(Len(S) - 1)
    PROVE  /\ BlockIndex(c) <= Len(chk)
           /\ BlockIndex(c) = Len(chk) => Offset(c) < Len(cur) /\ At(cur, Offset(c)) = S[c + 1]
           /\ BlockIndex(c) < Len(chk) => At(Block(S, BlockIndex(c)), Offset(c)) = S[c + 1]
  <1> DEFINE q == BlockIndex(c)
             r == Offset(c)
             n == Len(chk)
             l == Len(cur)
             L == Len(S)
  <1>1. L \in Nat /\ n \in Nat /\ l \in Nat /\ L = Times(n) + l /\ l <= BlockSize /\ BlockSize \in Nat
    BY BlockSizeAssumption DEF Lay
  <1>2. c \in Nat /\ c < L
    BY <1>1
  <1>3. q \in Nat /\ r \in 0..(BlockSize - 1) /\ c = Times(q) + r /\ Times(q) \in Nat /\ Times(n) \in Nat
    BY <1>1, <1>2, DivMod, BlocksApart
  <1>4. \A i \in 1..l : cur[i] = S[Times(n) + i]
    BY DEF Lay
  <1> HIDE DEF q, r, n, l, L
  <1>5. q <= n
    <2>1. n < q => Times(n) + BlockSize <= Times(q)
      BY <1>1, <1>3, BlocksApart
    <2> QED
      BY <1>1, <1>2, <1>3, <2>1
  <1>6. ASSUME q = n PROVE r < l /\ At(cur, r) = S[c + 1]
    <2>1. r < l
      BY <1>1, <1>2, <1>3, <1>6
    <2>2. r + 1 \in 1..l /\ Times(n) + (r + 1) = c + 1
      BY <1>1, <1>3, <1>6, <2>1
    <2> QED
      BY <1>4, <2>1, <2>2 DEF At
  <1>7. ASSUME q < n PROVE At(Block(S, q), r) = S[c + 1]
    <2>1. q \in 0..(n - 1)
      BY <1>1, <1>3, <1>7
    <2>2. Times(q + 1) <= Len(S)
      BY <2>1, UncompressedBlock DEF n
    <2>3. r + 1 \in 1..BlockSize /\ Times(q) + (r + 1) = c + 1
      BY <1>1, <1>3
    <2>4. Block(S, q)[r + 1] = S[Times(q) + (r + 1)]
      BY <1>3, <2>2, <2>3, BlockExact
    <2> QED
      BY <2>3, <2>4 DEF At
  <1> QED
    BY <1>5, <1>6, <1>7 DEF q, r, n, l

(* The index after the last document is in no compressed block.            *)
LEMMA PastBlocks ==
    ASSUME NEW S \in Seq(Int), NEW cur, NEW bas, NEW chk, Lay(S, cur, bas, chk)
    PROVE  ~(BlockIndex(Len(S)) < Len(chk))
  <1> DEFINE q == BlockIndex(Len(S))
             n == Len(chk)
             L == Len(S)
             r == Offset(Len(S))
  <1>1. L \in Nat /\ n \in Nat /\ L >= Times(n)
    <2>1. Len(cur) \in Nat /\ Len(S) = Times(n) + Len(cur) /\ n \in Nat
      BY DEF Lay
    <2>2. Times(n) \in Nat
      BY <2>1, BlocksApart
    <2> QED
      BY <2>1, <2>2
  <1>2. q \in Nat /\ r \in 0..(BlockSize - 1) /\ L = Times(q) + r /\ Times(q) \in Nat /\ Times(n) \in Nat
    BY <1>1, DivMod, BlocksApart
  <1> HIDE DEF q, n, L, r
  <1>3. q < n => Times(q) + BlockSize <= Times(n)
    BY <1>1, <1>2, BlocksApart
  <1>4. ~(q < n)
    BY <1>1, <1>2, <1>3, BlockSizeAssumption
  <1> QED
    BY <1>4 DEF q, n

(* Inside a block, the next document is in the same block.                 *)
LEMMA NextInBlock ==
    ASSUME NEW c \in Nat, Offset(c) # 0
    PROVE  c - 1 \in Nat /\ BlockIndex(c - 1) = BlockIndex(c) /\ Offset(c - 1) = Offset(c) - 1
  <1> DEFINE q == BlockIndex(c)
             r == Offset(c)
  <1>1. q \in Nat /\ r \in 0..(BlockSize - 1) /\ c = Times(q) + r /\ r # 0 /\ Times(q) \in Nat
    BY DivMod, BlocksApart
  <1> HIDE DEF q, r
  <1>2. r - 1 \in 0..(BlockSize - 1) /\ c - 1 = Times(q) + (r - 1) /\ c - 1 \in Nat
    BY <1>1, BlockSizeAssumption
  <1>3. BlockIndex(Times(q) + (r - 1)) = q /\ Offset(Times(q) + (r - 1)) = r - 1
    BY <1>1, <1>2, DivModOf
  <1> QED
    BY <1>2, <1>3 DEF q, r

(* The documents of a list in increasing order are as many as its length.  *)
LEMMA CardinalityOfList ==
    ASSUME NEW S, Increasing(S)
    PROVE  /\ IsFiniteSet({S[i] : i \in 1..Len(S)})
           /\ Cardinality({S[i] : i \in 1..Len(S)}) = Len(S)
  <1> DEFINE R == {S[i] : i \in 1..Len(S)}
             n == Len(S)
             f == [i \in 1..n |-> S[i]]
  <1>1. n \in Nat /\ \A i \in 1..n : S[i] \in Int
    BY DEF Increasing
  <1>2. \A i, j \in 1..n : i < j => S[i] < S[j]
    BY DEF Increasing
  <1>3. f \in [1..n -> R]
    OBVIOUS
  <1>4. \A i, j \in 1..n : S[i] = S[j] => i = j
    <2> SUFFICES ASSUME NEW i \in 1..n, NEW j \in 1..n, S[i] = S[j] PROVE i = j
      OBVIOUS
    <2> HIDE DEF n
    <2>1. i < j \/ j < i \/ i = j
      BY <1>1
    <2> QED
      BY <1>1, <1>2, <2>1
  <1>5. f \in Bijection(1..n, R)
    BY <1>3, <1>4 DEF Bijection, Injection, Surjection, IsInjective
  <1>6. ExistsBijection(1..n, R)
    BY <1>5 DEF ExistsBijection
  <1>7. IsFiniteSet(1..n) /\ Cardinality(1..n) = n
    BY <1>1, FS_Interval
  <1> HIDE DEF R, n
  <1>8. IsFiniteSet(R) /\ Cardinality(R) = n
    BY <1>6, <1>7, FS_Bijection
  <1> QED
    BY <1>8 DEF R, n

--------------------------------------------------------------------------------
(* The documents added so far, as a list.                                  *)
Layout(S) ==
    /\ S \in Seq(Doc) /\ Increasing(S)
    /\ added = {S[i] : i \in 1..Len(S)}
    /\ total = Len(S)
    /\ Lay(S, current, base, chunks)

(* The iterator stands on the document at its cursor, with the block of    *)
(* that document uncompressed.                                             *)
Iterating(S) ==
    /\ reading \in BOOLEAN
    /\ cursor \in (-1)..Len(S)
    /\ cursor = -1 \/ cursor = Len(S) => last = NO_MORE_DOCS
    /\ cursor \in 0..(Len(S) - 1) => last = S[cursor + 1]
    /\ cursor >= 0 /\ BlockIndex(cursor) < Len(chunks) => decomp = Block(S, BlockIndex(cursor))
    /\ ~reading => cursor = -1 /\ request = NoRequest
    /\ \/ request = NoRequest
       \/ request = [op |-> "nextDoc", target |-> 0] /\ cursor # Len(S)
       \/ \E t \in Doc : request = [op |-> "Advance", target |-> t]

(* The inductive invariant.                                                *)
IInv == \E S \in Seq(Doc) : Layout(S) /\ Iterating(S)

(* The order of the documents is the order of their indices.               *)
LEMMA Ordered ==
    ASSUME NEW S, Increasing(S), NEW i \in 1..Len(S), NEW j \in 1..Len(S)
    PROVE  /\ S[i] \in Int /\ S[j] \in Int
           /\ S[i] < S[j] <=> i < j
           /\ S[i] <= S[j] <=> i <= j
  <1>1. Len(S) \in Nat /\ S[i] \in Int /\ S[j] \in Int
    BY DEF Increasing
  <1>2. i < j => S[i] < S[j]
    BY DEF Increasing
  <1>3. j < i => S[j] < S[i]
    BY DEF Increasing
  <1>4. i = j => S[i] = S[j]
    OBVIOUS
  <1>5. i \in Int /\ j \in Int
    BY <1>1
  <1> QED
    BY <1>1, <1>2, <1>3, <1>4, <1>5

(* What the layout says of the numbers in it.                              *)
LEMMA LayoutNumbers ==
    ASSUME NEW S, Layout(S)
    PROVE  /\ S \in Seq(Int) /\ Len(S) \in Nat
           /\ Len(chunks) \in Nat /\ Len(base) = Len(chunks) /\ Len(current) \in Nat
           /\ current \in Seq(Int) /\ base \in Seq(Int) /\ chunks \in Seq(Seq(Int))
           /\ Times(Len(chunks)) \in Nat /\ Len(S) = Times(Len(chunks)) + Len(current)
           /\ Len(current) <= BlockSize
           /\ Len(S) > 0 => Len(current) > 0
           /\ BlockSize \in Nat /\ BlockSize > 0
           /\ base = <<>> <=> Len(chunks) = 0
           /\ current = <<>> <=> Len(current) = 0
           /\ total = Len(S)
  <1>1. S \in Seq(Int) /\ Len(S) \in Nat /\ total = Len(S)
    BY DEF Layout, Increasing
  <1>2. /\ current \in Seq(Int) /\ base \in Seq(Int) /\ chunks \in Seq(Seq(Int))
        /\ Len(base) = Len(chunks)
        /\ Len(S) = Times(Len(chunks)) + Len(current)
        /\ Len(current) <= BlockSize
        /\ Len(chunks) > 0 => Len(current) > 0
    BY DEF Layout, Lay
  <1>3. Len(chunks) \in Nat /\ Len(current) \in Nat
    BY <1>2
  <1>4. Times(Len(chunks)) \in Nat
    BY <1>3, BlocksApart
  <1>5. BlockSize \in Nat /\ BlockSize > 0
    BY BlockSizeAssumption
  <1>6. Times(0) = 0
    BY BlockSizeAssumption DEF Times
  <1>7. Len(S) > 0 => Len(current) > 0
    BY <1>1, <1>2, <1>3, <1>4, <1>6
  <1>8. (base = <<>> <=> Len(chunks) = 0) /\ (current = <<>> <=> Len(current) = 0)
    BY <1>2
  <1> QED
    BY <1>1, <1>2, <1>3, <1>4, <1>5, <1>7, <1>8

(* The entries of the three parts, by the list.                            *)
LEMMA LayoutEntries ==
    ASSUME NEW S, Layout(S)
    PROVE  /\ \A i \in 0..(Len(current) - 1) :
                 At(current, i) = S[Times(Len(chunks)) + i + 1] /\ Times(Len(chunks)) + i + 1 \in 1..Len(S)
           /\ \A b \in 0..(Len(chunks) - 1) :
                 /\ At(base, b) = S[Times(b) + BlockSize]
                 /\ Times(b) \in Nat /\ Times(b) + BlockSize \in 1..Len(S)
                 /\ Times(b) + BlockSize <= Times(Len(chunks))
                 /\ Uncompress(At(chunks, b)) = Block(S, b)
                 /\ Len(Block(S, b)) = BlockSize /\ Len(At(chunks, b)) = BlockSize
                 /\ Block(S, b) \in Seq(Int)
                 /\ \A i \in 0..(BlockSize - 1) : At(Block(S, b), i) = S[Times(b) + i + 1]
  <1> DEFINE n == Len(chunks)
             l == Len(current)
             L == Len(S)
  <1>1. /\ S \in Seq(Int) /\ L \in Nat /\ n \in Nat /\ l \in Nat /\ Times(n) \in Nat
        /\ L = Times(n) + l /\ BlockSize \in Nat /\ BlockSize > 0
    BY LayoutNumbers
  <1>2. Lay(S, current, base, chunks)
    BY DEF Layout
  <1>3. \A i \in 1..l : current[i] = S[Times(n) + i]
    BY <1>2 DEF Lay
  <1>4. ASSUME NEW i \in 0..(l - 1)
        PROVE  At(current, i) = S[Times(n) + i + 1] /\ Times(n) + i + 1 \in 1..L
    <2> HIDE DEF n, l, L
    <2>1. i + 1 \in 1..l /\ Times(n) + (i + 1) = Times(n) + i + 1 /\ Times(n) + i + 1 \in 1..L
      BY <1>1
    <2> QED
      BY <1>3, <2>1 DEF At
  <1>5. ASSUME NEW b \in 0..(n - 1)
        PROVE  /\ At(base, b) = S[Times(b) + BlockSize]
               /\ Times(b) \in Nat /\ Times(b) + BlockSize \in 1..Len(S)
               /\ Times(b) + BlockSize <= Times(Len(chunks))
               /\ Uncompress(At(chunks, b)) = Block(S, b)
               /\ Len(Block(S, b)) = BlockSize /\ Len(At(chunks, b)) = BlockSize
               /\ Block(S, b) \in Seq(Int)
               /\ \A i \in 0..(BlockSize - 1) : At(Block(S, b), i) = S[Times(b) + i + 1]
    <2>1. /\ Times(b + 1) <= L /\ Uncompress(At(chunks, b)) = Block(S, b) /\ Len(At(chunks, b)) = BlockSize
          /\ At(base, b) = S[Times(b) + BlockSize]
      BY <1>1, <1>2, UncompressedBlock
    <2> HIDE DEF L
    <2>2. b \in Nat /\ b < n
      BY <1>1
    <2>3. Times(b) \in Nat /\ Times(b + 1) = Times(b) + BlockSize
      BY <2>2, BlocksApart, 1 \in Nat
    <2>4. Times(b) + BlockSize <= Times(n)
      BY <1>1, <2>2, BlocksApart
    <2>5. Times(b) + BlockSize \in 1..L
      BY <1>1, <2>1, <2>3
    <2>6. /\ Block(S, b) \in Seq(Int) /\ Len(Block(S, b)) = BlockSize
          /\ \A i \in 1..BlockSize : Block(S, b)[i] = S[Times(b) + i]
      BY <1>1, <2>1, <2>2, BlockExact DEF L
    <2>7. ASSUME NEW i \in 0..(BlockSize - 1) PROVE At(Block(S, b), i) = S[Times(b) + i + 1]
      <3>1. i + 1 \in 1..BlockSize /\ Times(b) + (i + 1) = Times(b) + i + 1
        BY <1>1, <2>3
      <3> QED
        BY <2>6, <3>1 DEF At
    <2> QED
      BY <2>1, <2>3, <2>4, <2>5, <2>6, <2>7 DEF L
  <1> QED
    BY <1>4, <1>5

(* Blocks cut from the list of the documents added are as they should be.  *)
LEMMA LayoutCanonical ==
    ASSUME NEW S, Layout(S)
    PROVE  Canonical
  <1> DEFINE doc(k) == IF BlockIndex(k) = Len(chunks) THEN At(current, Offset(k))
                       ELSE At(Uncompress(At(chunks, BlockIndex(k))), Offset(k))
  <1>1. /\ S \in Seq(Int) /\ Len(S) \in Nat /\ Len(chunks) \in Nat /\ Len(base) = Len(chunks)
        /\ Len(current) \in Nat /\ Len(S) = Times(Len(chunks)) + Len(current)
        /\ Len(current) <= BlockSize /\ BlockSize \in Nat /\ BlockSize > 0 /\ total = Len(S)
        /\ Len(S) > 0 => Len(current) > 0
        /\ (current = <<>> <=> Len(current) = 0) /\ (base = <<>> <=> Len(chunks) = 0)
    BY LayoutNumbers
  <1>2. Lay(S, current, base, chunks) /\ Increasing(S) /\ added = {S[i] : i \in 1..Len(S)}
    BY DEF Layout
  <1>3. total = Cardinality(added)
    BY <1>1, <1>2, CardinalityOfList
  <1>4. total = BlockSize * Len(chunks) + Len(current)
    BY <1>1 DEF Times
  <1>5. chunks # <<>> => current # <<>>
    BY <1>1, <1>2 DEF Lay
  <1>6. ASSUME NEW k \in 0..(Len(chunks) - 1)
        PROVE  At(base, k) = LastOf(Uncompress(At(chunks, k))) /\ Len(At(chunks, k)) = BlockSize
    <2>1. /\ At(base, k) = S[Times(k) + BlockSize] /\ Uncompress(At(chunks, k)) = Block(S, k)
          /\ Len(Block(S, k)) = BlockSize /\ Len(At(chunks, k)) = BlockSize
          /\ \A i \in 0..(BlockSize - 1) : At(Block(S, k), i) = S[Times(k) + i + 1]
          /\ Times(k) \in Nat
      BY LayoutEntries
    <2>2. BlockSize - 1 \in 0..(BlockSize - 1) /\ Times(k) + (BlockSize - 1) + 1 = Times(k) + BlockSize
          /\ (BlockSize - 1) + 1 = BlockSize
      BY <1>1, <2>1
    <2>3. At(Block(S, k), BlockSize - 1) = S[Times(k) + BlockSize]
      BY <2>1, <2>2
    <2>4. At(Block(S, k), BlockSize - 1) = LastOf(Block(S, k))
      BY <2>1, <2>2 DEF At, LastOf
    <2> QED
      BY <2>1, <2>3, <2>4
  <1>7. ASSUME NEW k \in 0..(total - 1) PROVE doc(k) = S[k + 1]
    <2>1. /\ BlockIndex(k) <= Len(chunks)
          /\ BlockIndex(k) = Len(chunks) => At(current, Offset(k)) = S[k + 1]
          /\ BlockIndex(k) < Len(chunks) => At(Block(S, BlockIndex(k)), Offset(k)) = S[k + 1]
      BY <1>1, <1>2, DocAt
    <2>2. BlockIndex(k) \in Nat
      BY <1>1, DivMod
    <2>3. CASE BlockIndex(k) = Len(chunks)
      BY <2>1, <2>3
    <2>4. CASE BlockIndex(k) < Len(chunks)
      <3>1. BlockIndex(k) \in 0..(Len(chunks) - 1)
        BY <1>1, <2>2, <2>4
      <3>2. Uncompress(At(chunks, BlockIndex(k))) = Block(S, BlockIndex(k))
        BY <3>1, LayoutEntries
      <3>3. BlockIndex(k) # Len(chunks)
        BY <1>1, <2>2, <2>4
      <3> QED
        BY <2>1, <2>4, <3>2, <3>3
    <2> QED
      BY <1>1, <2>1, <2>2, <2>3, <2>4
  <1> HIDE DEF doc
  <1>8. added = {doc(k) : k \in 0..(total - 1)}
    <2>1. ASSUME NEW d \in added PROVE \E k \in 0..(total - 1) : d = doc(k)
      <3>1. PICK i \in 1..Len(S) : d = S[i]
        BY <1>2
      <3>2. i - 1 \in 0..(total - 1) /\ (i - 1) + 1 = i
        BY <1>1
      <3> QED
        BY <1>7, <3>1, <3>2
    <2>2. ASSUME NEW k \in 0..(total - 1) PROVE doc(k) \in added
      <3>1. k + 1 \in 1..Len(S)
        BY <1>1
      <3> QED
        BY <1>2, <1>7, <3>1
    <2> QED
      BY <2>1, <2>2
  <1>9. ASSUME NEW k \in 1..(total - 1) PROVE doc(k - 1) < doc(k)
    <2>1. k \in 0..(total - 1) /\ k - 1 \in 0..(total - 1) /\ (k - 1) + 1 = k /\ k < k + 1
          /\ k \in 1..Len(S) /\ k + 1 \in 1..Len(S)
      BY <1>1
    <2>2. doc(k - 1) = S[k] /\ doc(k) = S[k + 1]
      BY <1>7, <2>1
    <2> QED
      BY <1>2, <2>1, <2>2, Ordered
  <1> QED
    BY <1>1, <1>3, <1>4, <1>5, <1>6, <1>8, <1>9 DEF Canonical, doc

(* find, by the block a member would be in.                                *)
LEMMA LayoutFinds ==
    ASSUME NEW S, Layout(S)
    PROVE  FindExact
  <1> DEFINE n == Len(chunks)
             nB == Times(n)
             l == Len(current)
             L == Len(S)
  <1>1. /\ L \in Nat /\ n \in Nat /\ l \in Nat /\ nB \in Nat /\ L = nB + l
        /\ BlockSize \in Nat /\ BlockSize > 0 /\ total = L /\ Len(base) = n
        /\ L > 0 => l > 0
        /\ (current = <<>> <=> l = 0) /\ (base = <<>> <=> n = 0)
    BY LayoutNumbers
  <1>2. Increasing(S) /\ added = {S[i] : i \in 1..L}
    BY DEF Layout
  <1>2a. \A i \in 1..L : S[i] \in Int
    BY <1>2 DEF Increasing
  <1>3. \A i \in 0..(l - 1) : At(current, i) = S[nB + i + 1] /\ nB + i + 1 \in 1..L
    BY LayoutEntries
  <1>4. \A b \in 0..(n - 1) :
           /\ At(base, b) = S[Times(b) + BlockSize] /\ Times(b) \in Nat /\ Times(b) + BlockSize \in 1..L
           /\ Times(b) + BlockSize <= nB
           /\ Uncompress(At(chunks, b)) = Block(S, b)
    BY LayoutEntries
  <1> HIDE DEF n, nB, l, L
  <1> SUFFICES ASSUME NEW t \in Doc PROVE find(t) <=> t \in added
    BY DEF FindExact
  <1> DEFINE inCurrent == base = <<>> \/ t > LastOf(base)
             b == binarySearch(base, 0, Len(base) - 1, t)
  <1>5. find(t) <=>
          /\ total > 0
          /\ IF current # <<>> /\ t > LastOf(current) THEN FALSE
             ELSE IF current # <<>> /\ inCurrent THEN \E k \in 1..Len(current) : current[k] = t
             ELSE /\ base # <<>> /\ b >= 0
                  /\ \E k \in 1..BlockSize : Uncompress(At(chunks, b))[k] = t
    BY DEF find
  <1>t. t \in Int
    BY MaxDocAssumption DEF Doc
  <1>6. CASE L = 0
    BY <1>1, <1>2, <1>5, <1>6
  <1>7. CASE L > 0
    <2>1. l > 0 /\ current # <<>> /\ total > 0
      BY <1>1, <1>7
    <2>2. LastOf(current) = S[L]
      <3>1. l - 1 \in 0..(l - 1) /\ (l - 1) + 1 = l /\ nB + (l - 1) + 1 = L
        BY <1>1, <2>1
      <3>2. At(current, l - 1) = S[L]
        BY <1>3, <3>1
      <3> QED
        BY <3>1, <3>2 DEF At, LastOf, l
    <2>3. L \in 1..L
      BY <1>1, <1>7
    <2>4. CASE t > S[L]
      <3>1. ~find(t)
        BY <1>5, <2>1, <2>2, <2>4
      <3>2. ~(t \in added)
        <4> SUFFICES ASSUME t \in added PROVE FALSE
          OBVIOUS
        <4>1. PICK i \in 1..L : t = S[i]
          BY <1>2
        <4>2. S[i] <= S[L]
          <5>1. i <= L
            BY <1>1
          <5> QED
            BY <1>2, <2>3, <5>1, Ordered DEF L
        <4>3. S[L] \in Int
          BY <1>2a, <2>3
        <4> QED
          BY <1>t, <2>4, <4>1, <4>2, <4>3
      <3> QED
        BY <3>1, <3>2
    <2>5. CASE ~(t > S[L]) /\ inCurrent
      <3>1. find(t) <=> \E k \in 1..l : current[k] = t
        BY <1>5, <2>1, <2>2, <2>5 DEF l
      <3>2. ASSUME NEW k \in 1..l, current[k] = t PROVE t \in added
        <4>1. k - 1 \in 0..(l - 1) /\ (k - 1) + 1 = k
          BY <1>1
        <4>2. At(current, k - 1) = S[nB + (k - 1) + 1] /\ nB + (k - 1) + 1 \in 1..L
          BY <1>3, <4>1
        <4>3. At(current, k - 1) = t
          BY <3>2, <4>1 DEF At
        <4> QED
          BY <1>2, <4>2, <4>3
      <3>3. ASSUME t \in added PROVE \E k \in 1..l : current[k] = t
        <4>1. PICK i \in 1..L : t = S[i]
          BY <1>2, <3>3
        <4>2. i > nB
          <5>1. CASE n = 0
            <6>1. nB = 0
              BY <5>1, BlockSizeAssumption DEF nB, Times
            <6> QED
              BY <1>1, <6>1
          <5>2. CASE n > 0
            <6>1. t > LastOf(base)
              BY <1>1, <2>5, <5>2
            <6>2. n - 1 \in 0..(n - 1) /\ (n - 1) + 1 = n /\ n - 1 \in Nat
              BY <1>1, <5>2
            <6>3. Times(n - 1) + BlockSize = nB
              BY <6>2, BlocksApart, 1 \in Nat DEF nB
            <6>4. LastOf(base) = S[nB] /\ nB \in 1..L
              <7>1. At(base, n - 1) = S[nB] /\ nB \in 1..L
                BY <1>4, <6>2, <6>3
              <7> QED
                BY <1>1, <6>2, <7>1 DEF At, LastOf
            <6>5. S[nB] < S[i]
              BY <4>1, <6>1, <6>4, <1>2a
            <6> QED
              BY <1>2, <6>4, <6>5, Ordered DEF L
          <5> QED
            BY <1>1, <5>1, <5>2
        <4>3. i - nB \in 1..l /\ i - nB - 1 \in 0..(l - 1) /\ nB + (i - nB - 1) + 1 = i /\ (i - nB - 1) + 1 = i - nB
          BY <1>1, <4>2
        <4>4. At(current, i - nB - 1) = S[i]
          BY <1>3, <4>3
        <4>5. current[i - nB] = S[i]
          BY <4>3, <4>4 DEF At
        <4> QED
          BY <4>1, <4>3, <4>5
      <3> QED
        BY <3>1, <3>2, <3>3
    <2>6. CASE ~(t > S[L]) /\ ~inCurrent
      <3>1. base # <<>> /\ n > 0 /\ ~(t > LastOf(base))
        BY <1>1, <2>6
      <3>2. \A i \in 0..(n - 1) : At(base, i) \in Int
        BY <1>2a, <1>4
      <3>3. \A i, j \in 0..(n - 1) : i < j => At(base, i) < At(base, j)
        <4> SUFFICES ASSUME NEW i \in 0..(n - 1), NEW j \in 0..(n - 1), i < j PROVE At(base, i) < At(base, j)
          OBVIOUS
        <4>1. i \in Nat /\ j \in Nat
          BY <1>1
        <4>2. Times(i) + BlockSize <= Times(j)
          BY <4>1, BlocksApart
        <4>3. Times(i) + BlockSize \in 1..L /\ Times(j) + BlockSize \in 1..L /\ Times(i) \in Nat /\ Times(j) \in Nat
          BY <1>4
        <4>4. Times(i) + BlockSize < Times(j) + BlockSize
          BY <1>1, <4>2, <4>3
        <4>5. S[Times(i) + BlockSize] < S[Times(j) + BlockSize]
          BY <1>2, <4>3, <4>4, Ordered DEF L
        <4> QED
          BY <1>4, <4>5
      <3>4. b = FirstFrom(base, 0, n - 1, t)
        <4>1. n - 1 \in Nat /\ 0 \in Nat /\ 0 <= n - 1 /\ Len(base) - 1 = n - 1
          BY <1>1, <3>1
        <4> QED
          BY <1>t, <3>2, <3>3, <4>1, BinarySearchExact
      <3>5. /\ b \in 0..(n - 1) /\ At(base, b) >= t
            /\ \A j \in 0..(b - 1) : At(base, j) < t
        <4>1. n - 1 \in 0..(n - 1) /\ n - 1 \in Nat /\ (n - 1) + 1 = n
          BY <1>1, <3>1
        <4>2. At(base, n - 1) = LastOf(base)
          BY <1>1, <4>1 DEF At, LastOf
        <4>3. At(base, n - 1) >= t
          BY <1>t, <3>1, <3>2, <4>1, <4>2
        <4> QED
          BY <1>t, <3>2, <3>4, <4>1, <4>3, FirstFromFound
      <3> HIDE DEF b
      <3>6. /\ b \in Nat /\ b >= 0 /\ Times(b) \in Nat /\ Times(b) + BlockSize \in 1..L
            /\ At(base, b) = S[Times(b) + BlockSize] /\ Uncompress(At(chunks, b)) = Block(S, b)
        BY <1>1, <1>4, <3>5
      <3>7. \A i \in 0..(BlockSize - 1) : At(Block(S, b), i) = S[Times(b) + i + 1]
        <4>1. b \in 0..(Len(chunks) - 1)
          BY <3>5 DEF n
        <4> QED
          BY <4>1, LayoutEntries
      <3>8. find(t) <=> \E k \in 1..BlockSize : Block(S, b)[k] = t
        BY <1>5, <2>1, <2>2, <2>6, <3>1, <3>6
      <3>9. ASSUME NEW k \in 1..BlockSize, Block(S, b)[k] = t PROVE t \in added
        <4>1. k - 1 \in 0..(BlockSize - 1) /\ (k - 1) + 1 = k /\ Times(b) + (k - 1) + 1 = Times(b) + k
          BY <1>1, <3>6
        <4>2. At(Block(S, b), k - 1) = S[Times(b) + k]
          BY <3>7, <4>1
        <4>3. At(Block(S, b), k - 1) = t
          BY <3>9, <4>1 DEF At
        <4>4. Times(b) + k \in 1..L
          BY <1>1, <3>6
        <4> QED
          BY <1>2, <4>2, <4>3, <4>4
      <3>10. ASSUME t \in added PROVE \E k \in 1..BlockSize : Block(S, b)[k] = t
        <4>1. PICK i \in 1..L : t = S[i]
          BY <1>2, <3>10
        <4>2. i <= Times(b) + BlockSize
          <5>1. S[i] <= S[Times(b) + BlockSize]
            BY <1>2a, <3>5, <3>6, <4>1
          <5> QED
            BY <1>2, <3>6, <5>1, Ordered DEF L
        <4>3. i > Times(b)
          <5>1. CASE b = 0
            <6>1. Times(b) = 0
              BY <5>1, BlockSizeAssumption DEF Times
            <6> QED
              BY <1>1, <6>1
          <5>2. CASE b > 0
            <6>1. b - 1 \in 0..(b - 1) /\ b - 1 \in 0..(n - 1) /\ b - 1 \in Nat /\ (b - 1) + 1 = b
              BY <1>1, <3>5, <5>2
            <6>2. Times(b - 1) + BlockSize = Times(b)
              BY <6>1, BlocksApart, 1 \in Nat
            <6>3. At(base, b - 1) < t /\ At(base, b - 1) = S[Times(b)] /\ Times(b) \in 1..L
              BY <1>4, <3>5, <6>1, <6>2
            <6>4. S[Times(b)] < S[i]
              BY <4>1, <6>3
            <6> QED
              BY <1>2, <6>3, <6>4, Ordered DEF L
          <5> QED
            BY <3>6, <5>1, <5>2
        <4> DEFINE k == i - Times(b)
        <4>4. k \in 1..BlockSize /\ k - 1 \in 0..(BlockSize - 1) /\ (k - 1) + 1 = k /\ Times(b) + (k - 1) + 1 = i
          BY <1>1, <3>6, <4>2, <4>3
        <4> HIDE DEF k
        <4>5. At(Block(S, b), k - 1) = S[i]
          BY <3>7, <4>4
        <4>6. Block(S, b)[k] = S[i]
          BY <4>4, <4>5 DEF At
        <4> QED
          BY <4>1, <4>4, <4>6
      <3> QED
        BY <3>8, <3>9, <3>10
    <2> QED
      BY <2>4, <2>5, <2>6
  <1> QED
    BY <1>1, <1>6, <1>7

--------------------------------------------------------------------------------
(* The stream a set is written to: its parts are found again.              *)
LEMMA ConcatAt ==
    ASSUME NEW A, NEW a \in Seq(A), NEW b \in Seq(A)
    PROVE  /\ a \o b \in Seq(A) /\ Len(a \o b) = Len(a) + Len(b)
           /\ Len(a) \in Nat /\ Len(b) \in Nat
           /\ \A i \in 1..Len(a) : (a \o b)[i] = a[i]
           /\ \A i \in 1..Len(b) : (a \o b)[Len(a) + i] = b[i]
  <1>1. /\ a \o b \in Seq(A) /\ Len(a \o b) = Len(a) + Len(b)
        /\ \A i \in 1..(Len(a) + Len(b)) : (a \o b)[i] = IF i <= Len(a) THEN a[i] ELSE b[i - Len(a)]
    BY ConcatProperties
  <1>2. Len(a) \in Nat /\ Len(b) \in Nat
    BY LenProperties
  <1>3. ASSUME NEW i \in 1..Len(a) PROVE (a \o b)[i] = a[i]
    <2>1. i \in 1..(Len(a) + Len(b)) /\ i <= Len(a)
      BY <1>2
    <2> QED
      BY <1>1, <2>1
  <1>4. ASSUME NEW i \in 1..Len(b) PROVE (a \o b)[Len(a) + i] = b[i]
    <2>1. Len(a) + i \in 1..(Len(a) + Len(b)) /\ ~(Len(a) + i <= Len(a)) /\ (Len(a) + i) - Len(a) = i
      BY <1>2
    <2> QED
      BY <1>1, <2>1
  <1> QED
    BY <1>1, <1>2, <1>3, <1>4

(* The part of a sequence that read takes out of the stream.               *)
LEMMA SubSeqIs ==
    ASSUME NEW A, NEW b \in Seq(A), NEW w, NEW m \in Nat,
           \A i \in 1..Len(b) : w[m + i] = b[i]
    PROVE  SubSeq(w, m + 1, m + Len(b)) = b
  <1> DEFINE c == SubSeq(w, m + 1, m + Len(b))
  <1>1. Len(b) \in Nat /\ \A i \in 1..Len(b) : b[i] \in A
    BY LenProperties
  <1>2. \A i \in (m + 1)..(m + Len(b)) : w[i] \in A
    <2> SUFFICES ASSUME NEW i \in (m + 1)..(m + Len(b)) PROVE w[i] \in A
      OBVIOUS
    <2>1. i - m \in 1..Len(b) /\ m + (i - m) = i
      BY <1>1
    <2>2. w[m + (i - m)] = b[i - m]
      BY <2>1
    <2> QED
      BY <1>1, <2>1, <2>2
  <1>3. m + 1 \in Int /\ m + Len(b) \in Int
    BY <1>1
  <1>4. /\ c \in Seq(A)
        /\ Len(c) = IF m + 1 <= m + Len(b) THEN (m + Len(b)) - (m + 1) + 1 ELSE 0
        /\ \A i \in 1..((m + Len(b)) - (m + 1) + 1) : c[i] = w[(m + 1) + i - 1]
    BY <1>2, <1>3, SubSeqProperties
  <1> HIDE DEF c
  <1>5. (m + Len(b)) - (m + 1) + 1 = Len(b) /\ (~(m + 1 <= m + Len(b)) => Len(b) = 0)
    BY <1>1
  <1>6. Len(c) = Len(b)
    BY <1>4, <1>5
  <1>7. ASSUME NEW i \in 1..Len(b) PROVE c[i] = b[i]
    <2>1. (m + 1) + i - 1 = m + i
      BY <1>1
    <2> QED
      BY <1>4, <1>5, <2>1
  <1>8. c = b
    BY <1>4, <1>6, <1>7, SeqEqual
  <1> QED
    BY <1>8 DEF c

(* read undoes write.                                                      *)
LEMMA StoreKeeps ==
    ASSUME NEW S, Layout(S), read(write)
    PROVE  total' = total /\ current' = current /\ base' = base /\ chunks' = chunks
  <1> DEFINE n == Len(chunks)
             l == Len(current)
             A == Int \cup Seq(Int)
             H == IF total >= BlockSize THEN <<l>> ELSE <<>>
             T == IF total > BlockSize THEN <<Len(base)>> \o base \o <<n>> \o chunks ELSE <<>>
             h == <<total>> \o H
             w == h \o current \o T
  <1>1. /\ n \in Nat /\ l \in Nat /\ total \in Nat /\ total = Times(n) + l /\ l <= BlockSize
        /\ BlockSize \in Nat /\ BlockSize > 0 /\ Len(base) = n /\ Times(n) \in Nat
        /\ total > 0 => l > 0
        /\ (current = <<>> <=> l = 0) /\ (base = <<>> <=> n = 0)
    BY LayoutNumbers
  <1>2. current \in Seq(A) /\ base \in Seq(A) /\ chunks \in Seq(A)
    <2>1. current \in Seq(Int) /\ base \in Seq(Int) /\ chunks \in Seq(Seq(Int))
      BY LayoutNumbers
    <2> QED
      BY <2>1, SeqMonotonic
  <1>3. <<total>> \in Seq(A) /\ <<l>> \in Seq(A) /\ <<n>> \in Seq(A) /\ <<>> \in Seq(A)
    BY <1>1
  <1>4. H \in Seq(A)
    BY <1>3
  <1>5. n = 0 <=> total <= BlockSize
    <2>1. CASE n = 0
      <3>1. Times(n) = 0
        BY <2>1, BlockSizeAssumption DEF Times
      <3> QED
        BY <1>1, <2>1, <3>1
    <2>2. CASE n # 0
      <3>1. 0 < n /\ 0 \in Nat
        BY <1>1, <2>2
      <3>2. Times(0) + BlockSize <= Times(n) /\ Times(0) \in Nat
        BY <1>1, <3>1, BlocksApart
      <3> QED
        BY <1>1, <2>2, <3>2
    <2> QED
      BY <2>1, <2>2
  <1>5a. n = 0 => total = l
    <2>1. Times(0) = 0
      BY BlockSizeAssumption DEF Times
    <2> QED
      BY <1>1, <2>1
  <1>6. w = write
    BY <1>1 DEF write
  <1> DEFINE bb == <<n>> \o base
             cc == bb \o <<n>>
             at == SizeAt(total)
  <1> HIDE DEF A
  <1>7. /\ T \in Seq(A)
        /\ total > BlockSize => T = cc \o chunks
    BY <1>1, <1>2, <1>3, ConcatAt
  <1> HIDE DEF T, H
  <1>8. /\ h \in Seq(A) /\ Len(h) = 1 + Len(H) /\ h[1] = total
        /\ \A i \in 1..Len(H) : h[1 + i] = H[i]
    <2>1. Len(<<total>>) = 1 /\ <<total>>[1] = total /\ 1 \in 1..1
      OBVIOUS
    <2> QED
      BY <1>3, <1>4, <2>1, ConcatAt
  <1> HIDE DEF h
  <1>9. Len(h) \in Nat /\ Len(H) \in Nat /\ Len(h) >= 1
    BY <1>4, <1>8, LenProperties
  <1> DEFINE v == h \o current
  <1>10. /\ v \in Seq(A) /\ Len(v) = Len(h) + l /\ Len(v) \in Nat
         /\ \A i \in 1..Len(h) : v[i] = h[i]
         /\ \A i \in 1..l : v[Len(h) + i] = current[i]
    <2>1. h \in Seq(A)
      BY <1>8
    <2>2. /\ v \in Seq(A) /\ Len(v) = Len(h) + l
          /\ \A i \in 1..Len(h) : v[i] = h[i]
          /\ \A i \in 1..l : v[Len(h) + i] = current[i]
      BY <1>2, <2>1, ConcatAt
    <2>3. Len(h) + l \in Nat
      BY <1>1, <1>9
    <2> HIDE DEF v, l
    <2> QED
      BY <2>2, <2>3
  <1> HIDE DEF v
  <1>11. /\ w \in Seq(A)
         /\ \A i \in 1..Len(v) : w[i] = v[i]
         /\ \A i \in 1..Len(T) : w[Len(v) + i] = T[i]
    <2>1. w = v \o T
      BY DEF v
    <2> QED
      BY <1>7, <1>10, <2>1, ConcatAt
  <1> HIDE DEF w
  <1>12. w[1] = total
    <2>1. 1 \in 1..Len(h) /\ 1 \in 1..Len(v)
      BY <1>1, <1>9, <1>10
    <2> QED
      BY <1>8, <1>10, <1>11, <2>1
  <1>13. at = Len(h) /\ at \in Nat /\ w[at] = l
    <2>1. CASE total < BlockSize
      <3>1. at = 1 /\ H = <<>>
        BY <1>1, <2>1 DEF SizeAt, H
      <3>2. Len(h) = 1
        BY <1>8, <3>1
      <3>3. total = l
        BY <1>1, <1>5, <1>5a, <2>1
      <3> QED
        BY <1>12, <3>1, <3>2, <3>3
    <2>2. CASE ~(total < BlockSize)
      <3>1. at = 2 /\ H = <<l>>
        BY <1>1, <2>2 DEF SizeAt, H
      <3>2. Len(H) = 1 /\ H[1] = l /\ 1 \in 1..Len(H)
        BY <3>1
      <3>3. Len(h) = 2 /\ h[2] = l
        BY <1>8, <3>2
      <3>4. 2 \in 1..Len(h) /\ 2 \in 1..Len(v)
        BY <1>1, <1>10, <3>3
      <3> QED
        BY <1>10, <1>11, <3>1, <3>3, <3>4
    <2> QED
      BY <2>1, <2>2
  <1> HIDE DEF at
  <1>14. SubSeq(w, at + 1, at + l) = current
    <2>1. \A i \in 1..l : w[at + i] = current[i]
      <3> SUFFICES ASSUME NEW i \in 1..l PROVE w[at + i] = current[i]
        OBVIOUS
      <3>1. at + i \in 1..Len(v)
        BY <1>1, <1>9, <1>10, <1>13
      <3> QED
        BY <1>10, <1>11, <1>13, <3>1
    <2> QED
      BY <1>2, <1>13, <2>1, SubSeqIs
  <1>15. ASSUME total > BlockSize
         PROVE  LET baseAt == at + l + 1
                    chunksAt == baseAt + n + 1
                IN /\ w[baseAt] = n /\ w[chunksAt] = n
                   /\ SubSeq(w, baseAt + 1, baseAt + n) = base
                   /\ SubSeq(w, chunksAt + 1, chunksAt + n) = chunks
    <2> DEFINE baseAt == at + l + 1
               chunksAt == baseAt + n + 1
    <2>1. T = cc \o chunks
      BY <1>7, <1>15
    <2>2. /\ bb \in Seq(A) /\ Len(bb) = 1 + n /\ bb[1] = n
          /\ \A i \in 1..n : bb[1 + i] = base[i]
      <3>1. Len(<<n>>) = 1 /\ <<n>>[1] = n /\ 1 \in 1..1
        OBVIOUS
      <3> QED
        BY <1>1, <1>2, <1>3, <3>1, ConcatAt
    <2> HIDE DEF bb
    <2>3. /\ cc \in Seq(A) /\ Len(cc) = n + 2 /\ cc[n + 2] = n
          /\ \A i \in 1..(1 + n) : cc[i] = bb[i]
      <3>1. Len(<<n>>) = 1 /\ <<n>>[1] = n /\ 1 \in 1..1
        OBVIOUS
      <3>2. /\ bb \o <<n>> \in Seq(A) /\ Len(bb \o <<n>>) = (1 + n) + 1
            /\ \A i \in 1..(1 + n) : (bb \o <<n>>)[i] = bb[i]
            /\ (bb \o <<n>>)[(1 + n) + 1] = n
        BY <1>3, <2>2, <3>1, ConcatAt
      <3>3. (1 + n) + 1 = n + 2
        BY <1>1
      <3> QED
        BY <3>2, <3>3
    <2> HIDE DEF cc
    <2>4. /\ Len(T) = n + 2 + n
          /\ \A i \in 1..(n + 2) : T[i] = cc[i]
          /\ \A i \in 1..n : T[n + 2 + i] = chunks[i]
      <3>0. cc \in Seq(A) /\ chunks \in Seq(A)
        BY <1>2, <2>3
      <3>1. Len(cc) = n + 2
        BY <2>3
      <3>2. /\ Len(cc \o chunks) = Len(cc) + Len(chunks)
            /\ \A i \in 1..Len(cc) : (cc \o chunks)[i] = cc[i]
            /\ \A i \in 1..Len(chunks) : (cc \o chunks)[Len(cc) + i] = chunks[i]
        BY ONLY <3>0, ConcatAt
      <3> QED
        BY <2>1, <3>1, <3>2
    <2>5. Len(v) = at + l /\ at + l \in Nat /\ baseAt \in Nat /\ chunksAt \in Nat
      BY <1>1, <1>10, <1>13
    <2>6. \A i \in 1..(n + 2 + n) : w[at + l + i] = T[i]
      BY <1>11, <2>4, <2>5
    <2>7. w[baseAt] = n
      <3>1. 1 \in 1..(n + 2 + n) /\ 1 \in 1..(n + 2) /\ 1 \in 1..(1 + n)
        BY <1>1
      <3> QED
        BY <2>2, <2>3, <2>4, <2>6, <3>1
    <2>8. w[chunksAt] = n
      <3>1. n + 2 \in 1..(n + 2 + n) /\ n + 2 \in 1..(n + 2) /\ chunksAt = at + l + (n + 2)
        BY <1>1, <1>13
      <3> QED
        BY <2>3, <2>4, <2>6, <3>1
    <2>9. \A i \in 1..n : w[baseAt + i] = base[i]
      <3> SUFFICES ASSUME NEW i \in 1..n PROVE w[baseAt + i] = base[i]
        OBVIOUS
      <3>1. 1 + i \in 1..(n + 2 + n) /\ 1 + i \in 1..(n + 2) /\ 1 + i \in 1..(1 + n) /\ baseAt + i = at + l + (1 + i)
        BY <1>1, <1>13
      <3> QED
        BY <2>2, <2>3, <2>4, <2>6, <3>1
    <2>10. \A i \in 1..n : w[chunksAt + i] = chunks[i]
      <3> SUFFICES ASSUME NEW i \in 1..n PROVE w[chunksAt + i] = chunks[i]
        OBVIOUS
      <3>1. n + 2 + i \in 1..(n + 2 + n) /\ chunksAt + i = at + l + (n + 2 + i)
        BY <1>1, <1>13
      <3> QED
        BY <2>4, <2>6, <3>1
    <2> HIDE DEF baseAt, chunksAt
    <2>11. SubSeq(w, baseAt + 1, baseAt + n) = base
      BY <1>1, <1>2, <2>5, <2>9, SubSeqIs
    <2>12. SubSeq(w, chunksAt + 1, chunksAt + n) = chunks
      BY <1>1, <1>2, <2>5, <2>10, SubSeqIs
    <2> QED
      BY <2>7, <2>8, <2>11, <2>12 DEF baseAt, chunksAt
  <1>16. /\ total' = w[1]
         /\ current' = IF w[1] = 0 THEN <<>> ELSE SubSeq(w, SizeAt(w[1]) + 1, SizeAt(w[1]) + w[SizeAt(w[1])])
         /\ base' = IF w[1] <= BlockSize THEN <<>>
                    ELSE SubSeq(w, (SizeAt(w[1]) + w[SizeAt(w[1])] + 1) + 1,
                                (SizeAt(w[1]) + w[SizeAt(w[1])] + 1) + w[SizeAt(w[1]) + w[SizeAt(w[1])] + 1])
         /\ chunks' = IF w[1] <= BlockSize THEN <<>>
                      ELSE LET baseAt == SizeAt(w[1]) + w[SizeAt(w[1])] + 1
                               chunksAt == baseAt + w[baseAt] + 1
                           IN SubSeq(w, chunksAt + 1, chunksAt + w[chunksAt])
    BY <1>6 DEF read
  <1>17. total' = total
    BY <1>12, <1>16
  <1>18. SizeAt(w[1]) = at /\ w[SizeAt(w[1])] = l
    BY <1>12, <1>13 DEF at
  <1>19. current' = current
    <2>1. CASE total = 0
      BY <1>1, <1>12, <1>16, <2>1
    <2>2. CASE total # 0
      BY <1>12, <1>14, <1>16, <1>18, <2>2
    <2> QED
      BY <2>1, <2>2
  <1>20. base' = base /\ chunks' = chunks
    <2>1. CASE total <= BlockSize
      <3>1. n = 0 /\ base = <<>>
        BY <1>1, <1>5, <2>1
      <3>2. chunks = <<>>
        BY <1>2, <3>1 DEF n
      <3> QED
        BY <1>12, <1>16, <2>1, <3>1, <3>2
    <2>2. CASE ~(total <= BlockSize)
      <3>1. total > BlockSize
        BY <1>1, <2>2
      <3> QED
        BY <1>12, <1>15, <1>16, <1>18, <2>2, <3>1
    <2> QED
      BY <2>1, <2>2
  <1> QED
    BY <1>17, <1>19, <1>20

--------------------------------------------------------------------------------
(* Filling.                                                                *)

(* A list goes on with a list of later documents.                          *)
LEMMA IncreasingExtends ==
    ASSUME NEW S \in Seq(Doc), NEW E \in Seq(Doc), Increasing(S), Increasing(E),
           \A i \in 1..Len(S), j \in 1..Len(E) : S[i] < E[j]
    PROVE  /\ S \o E \in Seq(Doc) /\ Increasing(S \o E)
           /\ Len(S \o E) = Len(S) + Len(E)
           /\ {(S \o E)[i] : i \in 1..Len(S \o E)}
                = {S[i] : i \in 1..Len(S)} \cup {E[i] : i \in 1..Len(E)}
  <1> DEFINE P == S \o E
             a == Len(S)
             b == Len(E)
  <1>1. P \in Seq(Doc) /\ Len(P) = a + b /\ a \in Nat /\ b \in Nat
    BY ConcatAt
  <1>2. \A i \in 1..a : P[i] = S[i]
    BY ConcatAt
  <1>3. \A i \in 1..b : P[a + i] = E[i]
    BY ConcatAt
  <1>4. /\ \A i, j \in 1..a : i < j => S[i] < S[j]
        /\ \A i, j \in 1..b : i < j => E[i] < E[j]
    BY DEF Increasing
  <1>5. P \in Seq(Int)
    <2>1. Doc \subseteq Int
      BY DEF Doc
    <2> QED
      BY <1>1, <2>1, SeqMonotonic
  <1> HIDE DEF P
  <1>6. ASSUME NEW i \in 1..(a + b)
        PROVE  i \in 1..a \/ \E x \in 1..b : i = a + x
    <2> HIDE DEF a, b
    <2>1. i \in 1..a \/ (i - a \in 1..b /\ i = a + (i - a))
      BY <1>1
    <2> QED
      BY <2>1
  <1>7. ASSUME NEW i \in 1..Len(P), NEW j \in 1..Len(P), i < j PROVE P[i] < P[j]
    <2>1. i \in 1..(a + b) /\ j \in 1..(a + b)
      BY <1>1
    <2> HIDE DEF a, b
    <2>2. CASE i \in 1..a /\ j \in 1..a
      BY <1>2, <1>4, <1>7, <2>2
    <2>3. CASE ~(i \in 1..a)
      <3>1. PICK x \in 1..b : i = a + x
        BY <1>6, <2>1, <2>3
      <3>2. ~(j \in 1..a)
        BY <1>1, <1>7, <3>1
      <3>3. PICK y \in 1..b : j = a + y
        BY <1>6, <2>1, <3>2
      <3>4. x < y
        BY <1>1, <1>7, <3>1, <3>3
      <3> QED
        BY <1>3, <1>4, <3>1, <3>3, <3>4
    <2>4. CASE i \in 1..a /\ ~(j \in 1..a)
      <3>1. PICK y \in 1..b : j = a + y
        BY <1>6, <2>1, <2>4
      <3> QED
        BY <1>2, <1>3, <2>4, <3>1 DEF a, b
    <2> QED
      BY <2>2, <2>3, <2>4
  <1>8. Increasing(P)
    BY <1>5, <1>7 DEF Increasing
  <1>9. {P[i] : i \in 1..Len(P)} = {S[i] : i \in 1..a} \cup {E[i] : i \in 1..b}
    <2>1. ASSUME NEW i \in 1..Len(P) PROVE P[i] \in {S[x] : x \in 1..a} \cup {E[x] : x \in 1..b}
      <3>1. i \in 1..(a + b)
        BY <1>1
      <3> QED
        BY <1>2, <1>3, <1>6, <3>1
    <2>2. ASSUME NEW i \in 1..a PROVE S[i] \in {P[x] : x \in 1..Len(P)}
      <3> HIDE DEF a, b
      <3>1. i \in 1..Len(P)
        BY <1>1
      <3> QED
        BY <1>2, <3>1
    <2>3. ASSUME NEW i \in 1..b PROVE E[i] \in {P[x] : x \in 1..Len(P)}
      <3> HIDE DEF a, b
      <3>1. a + i \in 1..Len(P)
        BY <1>1
      <3>2. P[a + i] \in {P[x] : x \in 1..Len(P)}
        BY <3>1
      <3> QED
        BY <1>3, <3>2
    <2> QED
      BY <2>1, <2>2, <2>3
  <1> QED
    BY <1>1, <1>8, <1>9 DEF P

(* addDocs.                                                                *)
LEMMA AddDocsLayout ==
    ASSUME NEW S, Layout(S), NEW D \in (SUBSET Doc) \ {{}}, addDocs(D)
    PROVE  Layout(S \o Sorted(D))' /\ S \o Sorted(D) \in Seq(Doc)
  <1> DEFINE E == Sorted(D)
             s == current \o E
  <1>1. IsFiniteSet(D) /\ D \subseteq Int
    <2>1. Doc \subseteq Int /\ IsFiniteSet(Doc)
      BY MaxDocAssumption, FS_Interval, 1 \in Int DEF Doc
    <2>2. D \in SUBSET Doc
      OBVIOUS
    <2> QED
      BY <2>1, <2>2, FS_Subset
  <1>2. Increasing(E) /\ Len(E) = Cardinality(D) /\ D = {E[k] : k \in 1..Len(E)}
    BY <1>1, SortedExact
  <1> HIDE DEF E
  <1>3. E \in Seq(Int) /\ Len(E) \in Nat
    <2>1. Increasing(E)
      BY <1>2
    <2>2. E \in Seq(Int)
      BY <2>1 DEF Increasing
    <2> QED
      BY <2>2, LenProperties
  <1>4. E # <<>>
    <2>1. PICK d \in D : TRUE
      OBVIOUS
    <2>2. PICK k \in 1..Len(E) : d = E[k]
      BY <1>2
    <2> QED
      BY <1>3, <2>2
  <1>5. E \in Seq(Doc)
    <2>1. \A k \in 1..Len(E) : E[k] \in Doc
      BY <1>2
    <2>2. E = [k \in 1..Len(E) |-> E[k]]
      BY <1>3
    <2> QED
      BY <1>3, <2>1, <2>2
  <1>6. /\ S \in Seq(Doc) /\ Increasing(S) /\ added = {S[i] : i \in 1..Len(S)} /\ total = Len(S)
        /\ Lay(S, current, base, chunks)
    BY DEF Layout
  <1>7. \A i \in 1..Len(S), j \in 1..Len(E) : S[i] < E[j]
    BY <1>2, <1>6 DEF addDocs, Filling
  <1>8. /\ S \o E \in Seq(Doc) /\ Increasing(S \o E) /\ Len(S \o E) = Len(S) + Len(E)
        /\ {(S \o E)[i] : i \in 1..Len(S \o E)}
              = {S[i] : i \in 1..Len(S)} \cup {E[i] : i \in 1..Len(E)}
    BY <1>2, <1>5, <1>6, <1>7, IncreasingExtends
  <1>9. /\ base' = base \o [k \in 1..FullBlocks(s) |-> LastOf(Block(s, k - 1))]
        /\ chunks' = chunks \o [k \in 1..FullBlocks(s) |-> Compress(Block(s, k - 1))]
        /\ current' = LeftOver(s)
        /\ total' = total + Cardinality(D)
        /\ added' = added \cup D
    <2> DEFINE full == [k \in 1..FullBlocks(s) |-> Block(s, k - 1)]
    <2>1. /\ base' = base \o [k \in DOMAIN full |-> LastOf(full[k])]
          /\ chunks' = chunks \o [k \in DOMAIN full |-> Compress(full[k])]
          /\ current' = LeftOver(s)
          /\ total' = total + Cardinality(D)
          /\ added' = added \cup D
      BY DEF addDocs, Filling, E
    <2>2. DOMAIN full = 1..FullBlocks(s) /\ \A k \in 1..FullBlocks(s) : full[k] = Block(s, k - 1)
      OBVIOUS
    <2> HIDE DEF full
    <2>3. /\ [k \in DOMAIN full |-> LastOf(full[k])] = [k \in 1..FullBlocks(s) |-> LastOf(Block(s, k - 1))]
          /\ [k \in DOMAIN full |-> Compress(full[k])] = [k \in 1..FullBlocks(s) |-> Compress(Block(s, k - 1))]
      BY <2>2
    <2> QED
      BY <2>1, <2>3
  <1>10. S \in Seq(Int)
    BY <1>6 DEF Increasing
  <1>11. Lay(S \o E, LeftOver(s),
             base \o [k \in 1..FullBlocks(s) |-> LastOf(Block(s, k - 1))],
             chunks \o [k \in 1..FullBlocks(s) |-> Compress(Block(s, k - 1))])
    BY <1>3, <1>4, <1>6, <1>10, LayExtends
  <1>12. Lay(S \o E, current', base', chunks')
    BY <1>9, <1>11
  <1>13. Layout(S \o E)'
    BY <1>2, <1>6, <1>8, <1>9, <1>12 DEF Layout
  <1> QED
    BY <1>8, <1>13 DEF E

(* addDoc is addDocs of one document.                                      *)
LEMMA AddDocLayout ==
    ASSUME NEW S, Layout(S), NEW d \in Doc, addDoc(d)
    PROVE  Layout(S \o <<d>>)' /\ S \o <<d>> \in Seq(Doc)
  <1> DEFINE E == <<d>>
             s == current \o E
             l == Len(current)
             m == FullBlocks(s)
             nb == [k \in 1..m |-> LastOf(Block(s, k - 1))]
             nc == [k \in 1..m |-> Compress(Block(s, k - 1))]
  <1>0. d \in Int
    BY MaxDocAssumption DEF Doc
  <1>1. E \in Seq(Doc) /\ E \in Seq(Int) /\ Len(E) = 1 /\ E[1] = d /\ E # <<>>
    BY <1>0
  <1>2. Increasing(E)
    <2>1. \A i, j \in 1..1 : ~(i < j)
      OBVIOUS
    <2> QED
      BY <1>1, <2>1 DEF Increasing
  <1>3. /\ S \in Seq(Doc) /\ Increasing(S) /\ added = {S[i] : i \in 1..Len(S)} /\ total = Len(S)
        /\ Lay(S, current, base, chunks) /\ S \in Seq(Int)
    BY DEF Layout, Increasing
  <1>4. /\ l \in Nat /\ l <= BlockSize /\ BlockSize \in Nat /\ BlockSize > 0
        /\ current \in Seq(Int) /\ base \in Seq(Int) /\ chunks \in Seq(Seq(Int))
    BY LayoutNumbers
  <1> HIDE DEF E
  <1>5. \A i \in 1..Len(S), j \in 1..Len(E) : S[i] < E[j]
    <2>1. \A e \in added : e < d
      BY DEF addDoc, Filling
    <2>2. \A j \in 1..Len(E) : E[j] = d
      BY <1>1
    <2> QED
      BY <1>3, <2>1, <2>2
  <1>6. /\ S \o E \in Seq(Doc) /\ Increasing(S \o E) /\ Len(S \o E) = Len(S) + Len(E)
        /\ {(S \o E)[i] : i \in 1..Len(S \o E)}
              = {S[i] : i \in 1..Len(S)} \cup {E[i] : i \in 1..Len(E)}
    BY <1>1, <1>2, <1>3, <1>5, IncreasingExtends
  <1>7. {E[i] : i \in 1..Len(E)} = {d}
    BY <1>1
  <1>8. /\ s \in Seq(Int) /\ Len(s) = l + 1
        /\ \A i \in 1..l : s[i] = current[i]
        /\ s[l + 1] = d
    <2>1. 1 \in 1..Len(E)
      BY <1>1
    <2>2. /\ s \in Seq(Int) /\ Len(s) = Len(current) + Len(E)
          /\ \A i \in 1..Len(current) : s[i] = current[i]
          /\ \A i \in 1..Len(E) : s[Len(current) + i] = E[i]
      <3>1. current \in Seq(Int) /\ E \in Seq(Int)
        BY <1>1, <1>4
      <3> QED
        BY ONLY <3>1, ConcatAt
    <2> QED
      BY <1>1, <2>1, <2>2
  <1>9. Lay(S \o E, LeftOver(s), base \o nb, chunks \o nc)
    BY <1>1, <1>3, LayExtends
  <1>10. LeftOver(s) = SubSeq(s, m * BlockSize + 1, l + 1)
    BY <1>8 DEF LeftOver
  <1>11. m = l \div BlockSize
    <2>1. (l + 1) - 1 = l
      BY <1>4
    <2> QED
      BY <1>8, <2>1 DEF FullBlocks
  <1> HIDE DEF s
  <1>12. current' = LeftOver(s) /\ base' = base \o nb /\ chunks' = chunks \o nc
    <2>1. CASE l # BlockSize
      <3>1. /\ current' = Append(current, d) /\ base' = base /\ chunks' = chunks
        BY <2>1 DEF addDoc
      <3>2. m = 0
        <4> HIDE DEF m, l
        <4>1. l \in Nat /\ l < BlockSize
          BY <1>4, <2>1
        <4>2. l \div BlockSize = 0
          BY <1>4, <4>1
        <4> QED
          BY <1>11, <4>2
      <3>3. nb = <<>> /\ nc = <<>>
        BY <3>2
      <3>4. base \o <<>> = base /\ chunks \o <<>> = chunks
        BY <1>4, ConcatEmptySeq
      <3>5. LeftOver(s) = s
        <4>1. m * BlockSize + 1 = 1
          BY <1>4, <3>2
        <4>2. SubSeq(s, 1, Len(s)) = s
          BY <1>8, SubSeqFull
        <4> QED
          BY <1>8, <1>10, <4>1, <4>2
      <3>6. Append(current, d) = s
        BY <1>0, <1>4, AppendIsConcat DEF s, E
      <3> QED
        BY <3>1, <3>3, <3>4, <3>5, <3>6
    <2>2. CASE l = BlockSize
      <3>1. /\ base' = Append(base, LastOf(current)) /\ chunks' = Append(chunks, Compress(current))
            /\ current' = <<d>>
        BY <2>2 DEF addDoc
      <3>2. m = 1
        BY <1>4, <1>11, <2>2
      <3>3. LeftOver(s) = <<d>>
        <4>1. m * BlockSize + 1 = l + 1
          BY <1>4, <2>2, <3>2
        <4>2. \A i \in 1..Len(E) : s[l + i] = E[i]
          BY <1>1, <1>8
        <4>3. SubSeq(s, l + 1, l + Len(E)) = E
          BY <1>1, <1>4, <4>2, SubSeqIs
        <4> QED
          BY <1>1, <1>10, <4>1, <4>3 DEF E
      <3>4. Block(s, 0) = current
        <4>1. \A i \in 1..Len(current) : s[0 + i] = current[i]
          BY <1>8
        <4>2. SubSeq(s, 0 + 1, 0 + Len(current)) = current
          BY <1>4, <4>1, SubSeqIs
        <4>3. 0 * BlockSize + 1 = 0 + 1 /\ (0 + 1) * BlockSize = 0 + Len(current)
          BY <1>4, <2>2
        <4> QED
          BY <4>2, <4>3 DEF Block
      <3>5. nb = <<LastOf(current)>> /\ nc = <<Compress(current)>>
        <4>1. \A k \in 1..1 : k - 1 = 0
          OBVIOUS
        <4>2. nb = [k \in 1..1 |-> LastOf(current)]
          BY <3>2, <3>4, <4>1
        <4>3. nc = [k \in 1..1 |-> Compress(current)]
          BY <3>2, <3>4, <4>1
        <4> QED
          BY <4>2, <4>3
      <3>6. LastOf(current) \in Int
        BY <1>4, <2>2 DEF LastOf
      <3>7. Compress(current) \in Seq(Int)
        BY <1>4, CompressType
      <3>8. /\ Append(base, LastOf(current)) = base \o <<LastOf(current)>>
            /\ Append(chunks, Compress(current)) = chunks \o <<Compress(current)>>
        BY <1>4, <3>6, <3>7, AppendIsConcat
      <3> QED
        BY <3>1, <3>3, <3>5, <3>8
    <2> QED
      BY <2>1, <2>2
  <1>13. total' = total + 1 /\ added' = added \cup {d}
    BY DEF addDoc, Filling
  <1> HIDE DEF nb, nc
  <1>14. Lay(S \o E, current', base', chunks')
    BY <1>9, <1>12
  <1>15. Layout(S \o E)'
    BY <1>1, <1>3, <1>6, <1>7, <1>13, <1>14 DEF Layout
  <1> QED
    BY <1>6, <1>15 DEF E

--------------------------------------------------------------------------------
(* The iterator.                                                           *)

(* A call takes the iterator to the index j, the end of the list or the    *)
(* first document it may answer.                                           *)
Moved(S, j) ==
    /\ j \in (cursor + 1)..Len(S)
    /\ cursor' = j
    /\ last' = IF j < Len(S) THEN S[j + 1] ELSE NO_MORE_DOCS
    /\ BlockIndex(j) < Len(chunks) => decomp' = Block(S, BlockIndex(j))
    /\ \A i \in (cursor + 1)..(j - 1) : Called("Advance") /\ S[i + 1] < Target
    /\ Called("Advance") /\ j < Len(S) => S[j + 1] >= Target

(* Advance past the end, or over nothing.                                  *)
Stayed(S) ==
    /\ Called("Advance")
    /\ cursor = Len(S) \/ (Len(S) = 0 /\ cursor = -1)
    /\ cursor' = cursor
    /\ last' = NO_MORE_DOCS

(* What an answer is.                                                      *)
Answered(S) ==
    /\ Called("nextDoc") \/ Called("Advance")
    /\ (\E j \in Nat : Moved(S, j)) \/ Stayed(S)
    /\ request' = NoRequest
    /\ UNCHANGED <<bitmap, reading, added>>

(* Where a call that is not at the end starts.                             *)
LEMMA Standing ==
    ASSUME NEW S, Layout(S), Iterating(S), cursor + 1 < total
    PROVE  /\ cursor \in Int /\ cursor + 1 \in Nat /\ cursor + 1 \in 0..(Len(S) - 1)
           /\ Len(S) \in Nat /\ total = Len(S) /\ Len(chunks) \in Nat /\ Len(current) \in Nat
           /\ Len(current) > 0 /\ current # <<>>
           /\ BlockIndex(cursor + 1) \in Nat /\ BlockIndex(cursor + 1) <= Len(chunks)
           /\ Offset(cursor + 1) \in 0..(BlockSize - 1)
           /\ cursor + 1 = Times(BlockIndex(cursor + 1)) + Offset(cursor + 1)
           /\ Times(BlockIndex(cursor + 1)) \in Nat
           /\ Offset(cursor + 1) # 0 /\ BlockIndex(cursor + 1) < Len(chunks)
                => decomp = Block(S, BlockIndex(cursor + 1))
  <1>1. Len(S) \in Nat /\ total = Len(S) /\ Len(chunks) \in Nat /\ Len(current) \in Nat /\ S \in Seq(Int)
        /\ (Len(S) > 0 => Len(current) > 0) /\ (current = <<>> <=> Len(current) = 0)
    BY LayoutNumbers
  <1> DEFINE c == cursor + 1
  <1>2. cursor \in Int /\ c \in Nat /\ c \in 0..(Len(S) - 1) /\ Len(S) > 0 /\ cursor >= -1
    BY <1>1 DEF Iterating
  <1>3. Len(current) > 0 /\ current # <<>>
    BY <1>1, <1>2
  <1>4. BlockIndex(c) \in Nat /\ Offset(c) \in 0..(BlockSize - 1) /\ c = Times(BlockIndex(c)) + Offset(c)
    BY <1>2, DivMod
  <1>5. BlockIndex(c) <= Len(chunks)
    BY <1>1, <1>2, DocAt DEF Layout
  <1>6. ASSUME Offset(c) # 0, BlockIndex(c) < Len(chunks)
        PROVE  decomp = Block(S, BlockIndex(c))
    <2>1. c - 1 \in Nat /\ BlockIndex(c - 1) = BlockIndex(c)
      BY <1>2, <1>6, NextInBlock
    <2>2. c - 1 = cursor
      BY <1>2
    <2>3. cursor >= 0 /\ BlockIndex(cursor) < Len(chunks)
      BY <1>2, <1>6, <2>1, <2>2
    <2>4. decomp = Block(S, BlockIndex(cursor))
      BY <2>3 DEF Iterating
    <2> QED
      BY <2>1, <2>2, <2>4
  <1>7. Times(BlockIndex(c)) \in Nat
    BY <1>4, BlocksApart
  <1> QED
    BY <1>1, <1>2, <1>3, <1>4, <1>5, <1>6, <1>7

(* nextDoc and Advance at the end.                                         *)
LEMMA AtEndAnswers ==
    ASSUME NEW S, Layout(S), Iterating(S), AtEnd
    PROVE  Answered(S)
  <1>1. Len(S) \in Nat /\ total = Len(S) /\ S \in Seq(Int)
    BY LayoutNumbers
  <1>2. cursor \in (-1)..Len(S)
    BY DEF Iterating
  <1>3. /\ request' = NoRequest /\ UNCHANGED <<bitmap, reading, added>>
        /\ last' = NO_MORE_DOCS
        /\ cursor' = (IF Called("Advance") /\ total = 0 THEN cursor ELSE total)
        /\ (Called("nextDoc") /\ cursor + 1 = total)
             \/ (Called("Advance") /\ cursor + 1 \in {total, total + 1})
    BY DEF AtEnd, Return
  <1>4. Called("nextDoc") => ~Called("Advance")
    BY DEF Called
  <1>5. ASSUME cursor + 1 = Len(S), cursor' = Len(S) PROVE Moved(S, Len(S))
    <2>1. ~(BlockIndex(Len(S)) < Len(chunks))
      BY <1>1, PastBlocks DEF Layout
    <2>2. Len(S) \in (cursor + 1)..Len(S) /\ ~(Len(S) < Len(S)) /\ (cursor + 1)..(Len(S) - 1) = {}
      BY <1>1, <1>2, <1>5
    <2> QED
      BY <1>3, <1>5, <2>1, <2>2 DEF Moved
  <1>6. (\E j \in Nat : Moved(S, j)) \/ Stayed(S)
    <2>1. CASE Called("nextDoc")
      BY <1>1, <1>3, <1>4, <1>5, <2>1
    <2>2. CASE Called("Advance") /\ Len(S) # 0 /\ cursor + 1 = Len(S)
      BY <1>1, <1>3, <1>5, <2>2
    <2>3. CASE Called("Advance") /\ Len(S) # 0 /\ cursor + 1 = Len(S) + 1
      <3>1. cursor = Len(S)
        BY <1>1, <1>2, <2>3
      <3> QED
        BY <1>1, <1>3, <2>3, <3>1 DEF Stayed
    <2>4. CASE Called("Advance") /\ Len(S) = 0
      <3>1. cursor = -1 \/ cursor = Len(S)
        BY <1>1, <1>2, <2>4
      <3> QED
        BY <1>1, <1>3, <2>4, <3>1 DEF Stayed
    <2> QED
      BY <1>1, <1>3, <2>1, <2>2, <2>3, <2>4
  <1> QED
    BY <1>3, <1>6 DEF Answered

(* nextDoc within the set moves to the next document of the list.          *)
LEMMA NextDocAnswers ==
    ASSUME NEW S, Layout(S), Iterating(S), nextDocInCurrent \/ nextDocInChunk
    PROVE  Answered(S)
  <1> DEFINE c == cursor + 1
  <1>1. Called("nextDoc") /\ c < total
    BY DEF nextDocInCurrent, nextDocInChunk
  <1>2. /\ cursor \in Int /\ c \in Nat /\ c \in 0..(Len(S) - 1) /\ Len(S) \in Nat /\ total = Len(S)
        /\ BlockIndex(c) \in Nat /\ BlockIndex(c) <= Len(chunks) /\ Len(chunks) \in Nat
        /\ (Offset(c) # 0 /\ BlockIndex(c) < Len(chunks) => decomp = Block(S, BlockIndex(c)))
    BY <1>1, Standing
  <1>3. ~Called("Advance")
    BY <1>1 DEF Called
  <1>4. /\ BlockIndex(c) = Len(chunks) => At(current, Offset(c)) = S[c + 1]
        /\ BlockIndex(c) < Len(chunks) => At(Block(S, BlockIndex(c)), Offset(c)) = S[c + 1]
    <2>1. S \in Seq(Int) /\ Lay(S, current, base, chunks)
      BY LayoutNumbers DEF Layout
    <2> QED
      BY <1>2, <2>1, DocAt
  <1>5. c \in (cursor + 1)..Len(S) /\ c < Len(S) /\ (cursor + 1)..(c - 1) = {}
    BY <1>2
  <1>6. ASSUME nextDocInCurrent PROVE Moved(S, c) /\ request' = NoRequest /\ UNCHANGED <<bitmap, reading, added>>
    <2>1. /\ BlockIndex(c) = Len(chunks) /\ cursor' = c /\ last' = At(current, Offset(c))
          /\ request' = NoRequest /\ UNCHANGED <<bitmap, reading, added>>
      BY <1>6 DEF nextDocInCurrent, Return
    <2>2. ~(BlockIndex(c) < Len(chunks))
      BY <1>2, <2>1
    <2> QED
      BY <1>3, <1>4, <1>5, <2>1, <2>2 DEF Moved
  <1>7. ASSUME nextDocInChunk PROVE Moved(S, c) /\ request' = NoRequest /\ UNCHANGED <<bitmap, reading, added>>
    <2>1. /\ BlockIndex(c) # Len(chunks) /\ cursor' = c /\ last' = At(decomp', Offset(c))
          /\ decomp' = (IF Offset(c) = 0 THEN Uncompress(At(chunks, BlockIndex(c))) ELSE decomp)
          /\ request' = NoRequest /\ UNCHANGED <<bitmap, reading, added>>
      BY <1>7 DEF nextDocInChunk, Return, Entered
    <2>2. BlockIndex(c) < Len(chunks) /\ BlockIndex(c) \in 0..(Len(chunks) - 1)
      BY <1>2, <2>1
    <2>3. Uncompress(At(chunks, BlockIndex(c))) = Block(S, BlockIndex(c))
      BY <2>2, LayoutEntries
    <2>4. decomp' = Block(S, BlockIndex(c))
      BY <1>2, <2>1, <2>2, <2>3
    <2> QED
      BY <1>3, <1>4, <1>5, <2>1, <2>2, <2>4 DEF Moved
  <1> QED
    BY <1>1, <1>2, <1>6, <1>7 DEF Answered

(* What Advance looks for is a number.                                     *)
LEMMA TargetType ==
    ASSUME NEW S, Layout(S), Iterating(S), Called("Advance")
    PROVE  /\ Target \in Int /\ request.target \in Doc
           /\ request = [op |-> "Advance", target |-> request.target]
  <1>1. PICK t \in Doc : request = [op |-> "Advance", target |-> t]
    BY DEF Iterating, Called, NoRequest, Iter!NoRequest
  <1>2. request.target = t
    BY <1>1
  <1>3. last \in Int
    <2>1. cursor \in (-1)..Len(S) /\ Len(S) \in Nat
      BY LayoutNumbers DEF Iterating
    <2>2. CASE cursor = -1 \/ cursor = Len(S)
      BY <2>2, MaxDocAssumption DEF Iterating, NO_MORE_DOCS
    <2>3. CASE cursor \in 0..(Len(S) - 1)
      <3>1. cursor + 1 \in 1..Len(S)
        BY <2>1, <2>3
      <3>2. last = S[cursor + 1]
        BY <2>3 DEF Iterating
      <3> QED
        BY <3>1, <3>2, LayoutNumbers
    <2> QED
      BY <2>1, <2>2, <2>3
  <1>4. t \in Int
    BY MaxDocAssumption DEF Doc
  <1> QED
    BY <1>1, <1>2, <1>3, <1>4 DEF Target

(* Advance looks beyond the document it stands on.                         *)
LEMMA TargetBeyond ==
    ASSUME NEW S, Layout(S), Iterating(S), Called("Advance"), cursor + 1 < total,
           NEW j \in 0..(Len(S) - 1), S[j + 1] >= Target
    PROVE  j >= cursor + 1
  <1>1. cursor \in Int /\ cursor + 1 \in Nat /\ Len(S) \in Nat /\ total = Len(S)
    BY Standing
  <1>2. Target \in Int /\ request.target \in Int
    BY TargetType, MaxDocAssumption DEF Doc
  <1>3. CASE cursor = -1
    BY <1>1, <1>3
  <1>4. CASE cursor # -1
    <2>1. cursor \in 0..(Len(S) - 1) /\ cursor + 1 \in 1..Len(S) /\ j + 1 \in 1..Len(S)
      BY <1>1, <1>4
    <2>2. last = S[cursor + 1]
      BY <2>1 DEF Iterating
    <2>3. S[cursor + 1] \in Int /\ S[j + 1] \in Int /\ (S[cursor + 1] < S[j + 1] <=> cursor + 1 < j + 1)
      BY <2>1, Ordered DEF Layout
    <2>4. Target > last
      BY <1>2, <1>4, <2>2, <2>3 DEF Target
    <2>5. S[cursor + 1] < S[j + 1]
      BY <1>2, <2>2, <2>3, <2>4
    <2> QED
      BY <1>1, <2>3, <2>5
  <1> QED
    BY <1>3, <1>4

(* The last document of the compressed blocks.                             *)
LEMMA LastOfBase ==
    ASSUME NEW S, Layout(S), base # <<>>
    PROVE  /\ LastOf(base) = S[Times(Len(chunks))] /\ Times(Len(chunks)) \in 1..Len(S)
           /\ LastOf(base) = At(base, Len(chunks) - 1) /\ Len(chunks) > 0
  <1> DEFINE n == Len(chunks)
  <1>1. n \in Nat /\ Len(base) = n /\ n # 0
    BY LayoutNumbers
  <1>2. n - 1 \in 0..(n - 1) /\ n - 1 \in Nat /\ (n - 1) + 1 = n /\ n > 0
    BY <1>1
  <1>3. Times(n - 1) + BlockSize = Times(n)
    BY <1>2, BlocksApart, 1 \in Nat
  <1>4. At(base, n - 1) = S[Times(n - 1) + BlockSize] /\ Times(n - 1) + BlockSize \in 1..Len(S)
    BY <1>2, LayoutEntries
  <1>5. At(base, n - 1) = LastOf(base)
    BY <1>1, <1>2 DEF At, LastOf
  <1> QED
    BY <1>2, <1>3, <1>4, <1>5

(* The block that is not compressed, searched for the target.              *)
LEMMA CurrentSearch ==
    ASSUME NEW S, Layout(S), NEW T \in Int, Len(current) > 0
    PROVE  binarySearch(current, 0, Len(current) - 1, T) = FirstFrom(current, 0, Len(current) - 1, T)
           /\ \A i \in 0..(Len(current) - 1) : At(current, i) \in Int
  <1> DEFINE l == Len(current)
             nB == Times(Len(chunks))
  <1>1. l \in Nat /\ nB \in Nat /\ S \in Seq(Int)
    BY LayoutNumbers
  <1>2. \A i \in 0..(l - 1) : At(current, i) = S[nB + i + 1] /\ nB + i + 1 \in 1..Len(S)
    BY LayoutEntries
  <1>3. \A i \in 0..(l - 1) : At(current, i) \in Int
    BY <1>1, <1>2
  <1> HIDE DEF nB, l
  <1>4. ASSUME NEW i \in 0..(l - 1), NEW j \in 0..(l - 1), i < j PROVE At(current, i) < At(current, j)
    <2>1. nB + i + 1 < nB + j + 1
      BY <1>1, <1>4
    <2>2. S[nB + i + 1] < S[nB + j + 1]
      BY <1>2, <2>1, Ordered DEF Layout
    <2> QED
      BY <1>2, <2>2
  <1>5. l - 1 \in Nat /\ 0 \in Nat /\ 0 <= l - 1
    BY <1>1 DEF l
  <1> QED
    BY <1>3, <1>4, <1>5, BinarySearchExact DEF l

(* Advance into the block that is not compressed.                          *)
LEMMA AdvanceInCurrentAnswers ==
    ASSUME NEW S, Layout(S), Iterating(S), AdvanceInCurrent
    PROVE  Answered(S)
  <1> DEFINE c == cursor + 1
             n == Len(chunks)
             nB == Times(n)
             l == Len(current)
             L == Len(S)
             T == Target
             k == binarySearch(current, 0, l - 1, T)
  <1>1. Called("Advance") /\ c < total /\ InCurrent
    BY DEF AdvanceInCurrent, Advancing
  <1>2. /\ cursor \in Int /\ c \in Nat /\ c \in 0..(L - 1) /\ L \in Nat /\ total = L
        /\ BlockIndex(c) \in Nat /\ BlockIndex(c) <= n /\ n \in Nat /\ l \in Nat /\ l > 0
        /\ c = Times(BlockIndex(c)) + Offset(c) /\ Offset(c) \in 0..(BlockSize - 1)
        /\ Times(BlockIndex(c)) \in Nat
    BY <1>1, Standing
  <1>3. /\ nB \in Nat /\ L = nB + l /\ l <= BlockSize /\ BlockSize \in Nat /\ S \in Seq(Int)
    BY LayoutNumbers
  <1>4. T \in Int
    BY <1>1, TargetType
  <1>5. k = FirstFrom(current, 0, l - 1, T) /\ \A i \in 0..(l - 1) : At(current, i) \in Int
    BY <1>2, <1>4, CurrentSearch
  <1>6. \/ k \in 0..(l - 1) /\ At(current, k) >= T /\ \A i \in 0..(k - 1) : At(current, i) < T
        \/ k = -1 /\ \A i \in 0..(l - 1) : At(current, i) < T
    <2>1. l - 1 \in Nat /\ 0 \in Nat
      BY <1>2
    <2> QED
      BY <1>4, <1>5, <2>1, FirstFromExact
  <1>7. /\ request' = NoRequest /\ UNCHANGED <<bitmap, reading, added>>
        /\ IF k >= 0 THEN cursor' = nB + k /\ last' = At(current, k)
           ELSE cursor' = total /\ last' = NO_MORE_DOCS
    BY DEF AdvanceInCurrent, Return, Times
  <1>8. \A i \in 0..(l - 1) : At(current, i) = S[nB + i + 1] /\ nB + i + 1 \in 1..L
    BY LayoutEntries
  <1>9. BlockIndex(c) = n \/ (base # <<>> /\ T > LastOf(base))
    BY <1>1 DEF InCurrent
  <1> HIDE DEF k, l, nB, T, L
  <1>10. ASSUME NEW i \in c..(nB - 1) PROVE S[i + 1] < T
    <2>1. BlockIndex(c) # n
      <3>1. BlockIndex(c) = n => c = nB + Offset(c)
        BY <1>2 DEF nB
      <3> QED
        BY <1>2, <1>3, <3>1
    <2>2. base # <<>> /\ T > LastOf(base)
      BY <1>9, <2>1
    <2>3. LastOf(base) = S[nB] /\ nB \in 1..L
      BY <2>2, LastOfBase DEF nB, L
    <2>4. i + 1 \in 1..L /\ i + 1 <= nB
      BY <1>2, <1>3, <2>3
    <2>5. S[i + 1] <= S[nB] /\ S[i + 1] \in Int /\ S[nB] \in Int
      BY <2>3, <2>4, Ordered DEF Layout, L
    <2> QED
      BY <1>4, <2>2, <2>3, <2>5
  <1>11. CASE k \in 0..(l - 1) /\ At(current, k) >= T /\ \A i \in 0..(k - 1) : At(current, i) < T
    <2> DEFINE j == nB + k
    <2>1. k >= 0 /\ cursor' = j /\ last' = At(current, k) /\ k \in Nat
      BY <1>2, <1>7, <1>11
    <2>2. j \in 0..(L - 1) /\ j \in Nat /\ j < L
      BY <1>2, <1>3, <1>11
    <2>3. At(current, k) = S[j + 1]
      BY <1>8, <1>11
    <2>4. j >= c
      BY <1>1, <1>11, <2>2, <2>3, TargetBeyond DEF L, T
    <2>5. ASSUME NEW i \in c..(j - 1) PROVE S[i + 1] < T
      <3>1. CASE i < nB
        <4>1. i \in c..(nB - 1)
          BY <1>2, <1>3, <3>1
        <4> QED
          BY <1>10, <4>1
      <3>2. CASE i >= nB
        <4>1. i - nB \in 0..(k - 1) /\ i - nB \in 0..(l - 1) /\ nB + (i - nB) + 1 = i + 1
          BY <1>2, <1>3, <1>11, <2>1, <3>2
        <4> QED
          BY <1>8, <1>11, <4>1
      <3> QED
        BY <1>2, <1>3, <3>1, <3>2
    <2>6. ~(BlockIndex(j) < n)
      <3>1. k \in 0..(BlockSize - 1)
        BY <1>2, <1>3, <1>11
      <3>2. BlockIndex(j) = n
        BY <1>2, <3>1, DivModOf DEF nB
      <3> QED
        BY <1>2, <3>2
    <2>7. j \in c..L
      BY <1>2, <1>3, <2>2, <2>4
    <2> HIDE DEF j
    <2>8. Moved(S, j)
      BY <1>1, <1>11, <2>1, <2>2, <2>3, <2>5, <2>6, <2>7 DEF Moved, L, T
    <2> QED
      BY <1>1, <1>7, <2>2, <2>8 DEF Answered
  <1>12. CASE k = -1 /\ \A i \in 0..(l - 1) : At(current, i) < T
    <2>1. cursor' = L /\ last' = NO_MORE_DOCS
      BY <1>2, <1>7, <1>12
    <2>2. ASSUME NEW i \in c..(L - 1) PROVE S[i + 1] < T
      <3>1. CASE i < nB
        <4>1. i \in c..(nB - 1)
          BY <1>2, <1>3, <3>1
        <4> QED
          BY <1>10, <4>1
      <3>2. CASE i >= nB
        <4>1. i - nB \in 0..(l - 1) /\ nB + (i - nB) + 1 = i + 1
          BY <1>2, <1>3, <3>2
        <4> QED
          BY <1>8, <1>12, <4>1
      <3> QED
        BY <1>2, <1>3, <3>1, <3>2
    <2>3. ~(BlockIndex(L) < n)
      BY <1>3, PastBlocks DEF Layout, L
    <2>4. L \in c..L /\ ~(L < L)
      BY <1>2
    <2>5. Moved(S, L)
      BY <1>1, <2>1, <2>2, <2>3, <2>4 DEF Moved, L, T
    <2> QED
      BY <1>1, <1>2, <1>7, <2>5 DEF Answered
  <1> QED
    BY <1>6, <1>11, <1>12

(* A document of a compressed block is the answer.                         *)
LEMMA ChunkAnswers ==
    ASSUME NEW S, Layout(S), Iterating(S), Called("Advance"), cursor + 1 < total,
           NEW b \in 0..(Len(chunks) - 1), NEW k \in 0..(BlockSize - 1), b >= BlockIndex(cursor + 1),
           cursor' = Times(b) + k, last' = At(Block(S, b), k), decomp' = Block(S, b),
           At(Block(S, b), k) >= Target,
           \A i \in 0..(k - 1) : Times(b) + i >= cursor + 1 => At(Block(S, b), i) < Target,
           b > BlockIndex(cursor + 1) => At(base, b - 1) < Target,
           request' = NoRequest, UNCHANGED <<bitmap, reading, added>>
    PROVE  Answered(S)
  <1> DEFINE c == cursor + 1
             q == BlockIndex(c)
             L == Len(S)
             T == Target
             bB == Times(b)
             j == bB + k
  <1>1. /\ cursor \in Int /\ c \in Nat /\ c \in 0..(L - 1) /\ L \in Nat /\ total = L /\ q \in Nat
        /\ Len(chunks) \in Nat
    BY Standing
  <1>2. T \in Int
    BY TargetType
  <1>3. /\ bB \in Nat /\ bB + BlockSize \in 1..L
        /\ \A i \in 0..(BlockSize - 1) : At(Block(S, b), i) = S[bB + i + 1]
    BY LayoutEntries
  <1>4. BlockSize \in Nat /\ b \in Nat
    BY <1>1, BlockSizeAssumption
  <1>5. BlockIndex(j) = b
    BY <1>4, DivModOf
  <1>6. \A i \in 1..L : S[i] \in Int
    BY LayoutNumbers
  <1> HIDE DEF q, L, T, bB
  <1>7. j \in 0..(L - 1) /\ j \in Nat /\ j < L
    BY <1>1, <1>3, <1>4
  <1>8. S[j + 1] = At(Block(S, b), k) /\ S[j + 1] >= T
    BY <1>3 DEF T
  <1>9. j >= c
    BY <1>7, <1>8, TargetBeyond DEF L, T
  <1>10. ASSUME NEW i \in c..(j - 1) PROVE S[i + 1] < T
    <2>1. CASE i >= bB
      <3>1. i - bB \in 0..(k - 1) /\ i - bB \in 0..(BlockSize - 1) /\ bB + (i - bB) + 1 = i + 1 /\ bB + (i - bB) >= c
        BY <1>1, <1>3, <1>4, <2>1
      <3>2. At(Block(S, b), i - bB) = S[i + 1]
        BY <1>3, <3>1
      <3> QED
        BY <3>1, <3>2 DEF bB, T
    <2>2. CASE i < bB
      <3>1. b > q
        <4>1. c = Times(q) + Offset(c) /\ Offset(c) \in 0..(BlockSize - 1) /\ Times(q) \in Nat
          BY Standing DEF q
        <4>2. b = q => bB = Times(q)
          BY DEF bB
        <4>3. b >= q
          BY DEF q
        <4> QED
          BY <1>1, <1>3, <1>4, <2>2, <4>1, <4>2, <4>3
      <3>2. At(base, b - 1) < T
        BY <3>1 DEF q, T
      <3>3. b - 1 \in 0..(Len(chunks) - 1) /\ b - 1 \in Nat /\ (b - 1) + 1 = b
        BY <1>1, <1>4, <3>1
      <3>4. Times(b - 1) + BlockSize = bB
        BY <3>3, BlocksApart, 1 \in Nat DEF bB
      <3>5. At(base, b - 1) = S[bB] /\ bB \in 1..L
        BY <3>3, <3>4, LayoutEntries DEF L
      <3>6. i + 1 \in 1..L /\ i + 1 <= bB
        BY <1>1, <1>3, <2>2, <3>5
      <3>7. S[i + 1] <= S[bB]
        BY <3>5, <3>6, Ordered DEF Layout, L
      <3> QED
        BY <1>2, <1>6, <3>2, <3>5, <3>6, <3>7
    <2> QED
      BY <1>1, <1>3, <2>1, <2>2
  <1>11. j \in c..L
    BY <1>1, <1>7, <1>9
  <1>12. cursor' = j
    BY DEF bB
  <1> HIDE DEF j
  <1>13. Moved(S, j)
    BY <1>5, <1>7, <1>8, <1>10, <1>11, <1>12 DEF Moved, L, T
  <1> QED
    BY <1>7, <1>13 DEF Answered

(* Advance within the compressed block of the next document.               *)
LEMMA AdvanceInChunkAnswers ==
    ASSUME NEW S, Layout(S), Iterating(S), AdvanceInChunk
    PROVE  Answered(S)
  <1> DEFINE c == cursor + 1
             q == BlockIndex(c)
             n == Len(chunks)
  <1>1. Called("Advance") /\ c < total /\ ~InCurrent /\ InChunk
    BY DEF AdvanceInChunk, Advancing
  <1>2. /\ c \in Nat /\ q \in Nat /\ q <= n /\ n \in Nat /\ current # <<>>
        /\ c = Times(q) + Offset(c) /\ Offset(c) \in 0..(BlockSize - 1) /\ Times(q) \in Nat
        /\ (Offset(c) # 0 /\ q < n => decomp = Block(S, q))
    BY <1>1, Standing
  <1>3. q < n /\ q \in 0..(n - 1)
    <2>1. q # n
      BY <1>1, <1>2 DEF InCurrent
    <2> QED
      BY <1>2, <2>1
  <1>4. decomp = Block(S, q)
    BY <1>1, <1>2, <1>3 DEF InChunk
  <1>5. PICK k \in Offset(c)..(BlockSize - 1) :
          /\ At(decomp, k) >= Target
          /\ \A j \in Offset(c)..(k - 1) : At(decomp, j) < Target
          /\ cursor' = Times(q) + k /\ last' = At(decomp, k)
          /\ request' = NoRequest /\ UNCHANGED <<bitmap, reading, added>>
    BY DEF AdvanceInChunk, Return, Times
  <1>6. decomp' = Block(S, q)
    BY <1>4 DEF AdvanceInChunk
  <1>7. k \in 0..(BlockSize - 1) /\ BlockSize \in Nat
    BY <1>2, BlockSizeAssumption
  <1>8. ASSUME NEW i \in 0..(k - 1), Times(q) + i >= c PROVE At(Block(S, q), i) < Target
    <2> HIDE DEF q
    <2>1. i \in Offset(c)..(k - 1)
      BY <1>2, <1>7, <1>8
    <2> QED
      BY <1>4, <1>5, <2>1
  <1>9. q >= BlockIndex(cursor + 1) /\ ~(q > BlockIndex(cursor + 1))
    BY <1>2
  <1> QED
    BY <1>1, <1>3, <1>4, <1>5, <1>6, <1>7, <1>8, <1>9, ChunkAnswers

(* Advance to a compressed block further on.                               *)
LEMMA AdvanceToChunkAnswers ==
    ASSUME NEW S, Layout(S), Iterating(S), AdvanceToChunk
    PROVE  Answered(S)
  <1> DEFINE c == cursor + 1
             q == BlockIndex(c)
             n == Len(chunks)
             T == Target
             b == binarySearch(base, q, Len(base) - 1, T)
             k == binarySearch(decomp', 0, BlockSize - 1, T)
  <1>1. Called("Advance") /\ c < total /\ ~InCurrent
    BY DEF AdvanceToChunk, Advancing
  <1>2. /\ c \in Nat /\ q \in Nat /\ q <= n /\ n \in Nat /\ current # <<>>
        /\ Offset(c) \in 0..(BlockSize - 1)
        /\ (Offset(c) # 0 /\ q < n => decomp = Block(S, q))
    BY <1>1, Standing
  <1>2a. T \in Int
    BY <1>1, TargetType
  <1>2b. BlockSize \in Nat /\ BlockSize > 0 /\ Len(base) = n /\ (base = <<>> <=> n = 0) /\ S \in Seq(Int)
    BY LayoutNumbers
  <1>3. q < n /\ ~(base # <<>> /\ T > LastOf(base))
    <2>1. q # n /\ ~(base # <<>> /\ T > LastOf(base))
      BY <1>1, <1>2 DEF InCurrent
    <2> QED
      BY <1>2, <2>1
  <1>4. base # <<>> /\ ~(T > LastOf(base))
    BY <1>2, <1>2b, <1>3
  <1>5. /\ decomp' = (IF IsUncompressed(b) THEN decomp ELSE Uncompress(At(chunks, b)))
        /\ cursor' = Times(b) + k /\ last' = At(decomp', k)
        /\ request' = NoRequest /\ UNCHANGED <<bitmap, reading, added>>
    BY DEF AdvanceToChunk, Return, Times
  <1> HIDE DEF T
  <1>6. \A i \in 0..(n - 1) : At(base, i) = S[Times(i) + BlockSize] /\ Times(i) \in Nat /\ Times(i) + BlockSize \in 1..Len(S)
    BY LayoutEntries
  <1>7. \A i \in q..(n - 1) : i \in 0..(n - 1) /\ At(base, i) \in Int
    <2>1. \A i \in q..(n - 1) : i \in 0..(n - 1)
      BY <1>2
    <2> QED
      BY <1>2b, <1>6, <2>1
  <1>8. ASSUME NEW i \in q..(n - 1), NEW j \in q..(n - 1), i < j PROVE At(base, i) < At(base, j)
    <2>1. i \in Nat /\ j \in Nat /\ i \in 0..(n - 1) /\ j \in 0..(n - 1)
      BY <1>2
    <2>2. Times(i) + BlockSize <= Times(j) /\ Times(j) \in Nat /\ Times(i) \in Nat
      BY <1>8, <2>1, BlocksApart
    <2>3. Times(i) + BlockSize < Times(j) + BlockSize
      BY <1>2b, <2>2
    <2>4. S[Times(i) + BlockSize] < S[Times(j) + BlockSize]
      BY <1>6, <2>1, <2>3, Ordered DEF Layout
    <2> QED
      BY <1>6, <2>1, <2>4
  <1>9. b \in q..(n - 1) /\ At(base, b) >= T /\ \A i \in q..(b - 1) : At(base, i) < T
    <2>1. n - 1 \in Nat /\ q <= n - 1 /\ n - 1 \in q..(n - 1) /\ Len(base) - 1 = n - 1
      BY <1>2, <1>2b, <1>3
    <2>1a. b = binarySearch(base, q, n - 1, T)
      BY <2>1
    <2>1b. q \in Nat /\ (\A i \in q..(n - 1) : At(base, i) \in Int)
      BY <1>2, <1>7
    <2> HIDE DEF q, n, b
    <2>1c. \A i, j \in q..(n - 1) : i < j => At(base, i) < At(base, j)
      BY <1>8
    <2>2. b = FirstFrom(base, q, n - 1, T)
      BY <1>2a, <2>1, <2>1a, <2>1b, <2>1c, BinarySearchExact
    <2>3. At(base, n - 1) >= T
      <3>1. At(base, n - 1) = LastOf(base)
        BY <1>4, LastOfBase DEF n
      <3>2. At(base, n - 1) \in Int
        BY <1>7, <2>1
      <3> QED
        BY <1>2a, <1>4, <3>1, <3>2
    <2> QED
      BY <1>2a, <2>1, <2>1b, <2>2, <2>3, FirstFromFound
  <1> HIDE DEF b
  <1>10. b \in 0..(n - 1) /\ b \in Nat /\ b >= q
    BY <1>2, <1>9
  <1>11. /\ Uncompress(At(chunks, b)) = Block(S, b)
         /\ Times(b) \in Nat /\ Times(b) + BlockSize \in 1..Len(S)
         /\ \A i \in 0..(BlockSize - 1) : At(Block(S, b), i) = S[Times(b) + i + 1]
    BY <1>10, LayoutEntries
  <1>12. decomp' = Block(S, b)
    <2>1. CASE IsUncompressed(b)
      <3>1. b = q /\ Offset(c) # 0
        BY <2>1 DEF IsUncompressed
      <3> QED
        BY <1>2, <1>3, <1>5, <2>1, <3>1
    <2>2. CASE ~IsUncompressed(b)
      BY <1>5, <1>11, <2>2
    <2> QED
      BY <2>1, <2>2
  <1>13. \A i \in 0..(BlockSize - 1) : Times(b) + i + 1 \in 1..Len(S)
    <2>1. Len(S) \in Nat
      BY <1>2b
    <2> QED
      BY <1>2b, <1>11, <2>1
  <1>14. \A i \in 0..(BlockSize - 1) : At(Block(S, b), i) \in Int
    BY <1>2b, <1>11, <1>13
  <1>15. ASSUME NEW i \in 0..(BlockSize - 1), NEW j \in 0..(BlockSize - 1), i < j
         PROVE  At(Block(S, b), i) < At(Block(S, b), j)
    <2>1. Times(b) + i + 1 < Times(b) + j + 1
      BY <1>2b, <1>11, <1>15
    <2>2. S[Times(b) + i + 1] < S[Times(b) + j + 1]
      BY <1>13, <2>1, Ordered DEF Layout
    <2> QED
      BY <1>11, <2>2
  <1>16. k \in 0..(BlockSize - 1) /\ At(Block(S, b), k) >= T /\ \A i \in 0..(k - 1) : At(Block(S, b), i) < T
    <2>1. BlockSize - 1 \in Nat /\ 0 \in Nat /\ 0 <= BlockSize - 1 /\ BlockSize - 1 \in 0..(BlockSize - 1)
      BY <1>2b
    <2>2. k = FirstFrom(Block(S, b), 0, BlockSize - 1, T)
      BY <1>2a, <1>12, <1>14, <1>15, <2>1, BinarySearchExact
    <2>3. At(Block(S, b), BlockSize - 1) >= T
      <3>1. Times(b) + (BlockSize - 1) + 1 = Times(b) + BlockSize
        BY <1>2b, <1>11
      <3>2. At(Block(S, b), BlockSize - 1) = S[Times(b) + BlockSize]
        BY <1>11, <2>1, <3>1
      <3> QED
        BY <1>6, <1>9, <1>10, <3>2
    <2> QED
      BY <1>2a, <1>14, <2>1, <2>2, <2>3, FirstFromFound
  <1> HIDE DEF k
  <1>17. b > q => At(base, b - 1) < T
    <2>1. b > q => b - 1 \in q..(b - 1)
      BY <1>2, <1>10
    <2> QED
      BY <1>9, <2>1
  <1>18. /\ cursor' = Times(b) + k /\ last' = At(Block(S, b), k)
         /\ request' = NoRequest /\ UNCHANGED <<bitmap, reading, added>>
    BY <1>5, <1>12
  <1>19. \A i \in 0..(k - 1) : Times(b) + i >= cursor + 1 => At(Block(S, b), i) < Target
    BY <1>16 DEF T
  <1>20. At(Block(S, b), k) >= Target /\ (b > BlockIndex(cursor + 1) => At(base, b - 1) < Target)
    BY <1>16, <1>17 DEF T
  <1> QED
    BY <1>1, <1>10, <1>12, <1>16, <1>18, <1>19, <1>20, ChunkAnswers

(* An answer leaves the iterator standing where it says.                   *)
LEMMA AnsweredInvariant ==
    ASSUME NEW S, Layout(S), Iterating(S), Answered(S)
    PROVE  Layout(S)' /\ Iterating(S)'
  <1>1. Len(S) \in Nat /\ total = Len(S) /\ Len(chunks) \in Nat /\ S \in Seq(Int)
    BY LayoutNumbers
  <1>2. /\ current' = current /\ base' = base /\ chunks' = chunks /\ total' = total
        /\ reading' = reading /\ added' = added /\ request' = NoRequest
        /\ Called("nextDoc") \/ Called("Advance")
    BY DEF Answered, bitmap
  <1>3. Layout(S)'
    BY <1>2 DEF Layout
  <1>4. reading = TRUE
    <2>1. request # NoRequest
      BY <1>2 DEF Called, NoRequest, Iter!NoRequest
    <2> QED
      BY <2>1 DEF Iterating
  <1>5. cursor \in (-1)..Len(S)
    BY DEF Iterating
  <1>6. /\ cursor' \in (-1)..Len(S)
        /\ cursor' = -1 \/ cursor' = Len(S) => last' = NO_MORE_DOCS
        /\ cursor' \in 0..(Len(S) - 1) => last' = S[cursor' + 1]
        /\ cursor' >= 0 /\ BlockIndex(cursor') < Len(chunks) => decomp' = Block(S, BlockIndex(cursor'))
    <2>1. CASE Stayed(S)
      <3>1. cursor' = cursor /\ last' = NO_MORE_DOCS /\ (cursor = Len(S) \/ (Len(S) = 0 /\ cursor = -1))
        BY <2>1 DEF Stayed
      <3>2. ~(BlockIndex(Len(S)) < Len(chunks))
        BY <1>1, PastBlocks DEF Layout
      <3> QED
        BY <1>1, <1>5, <3>1, <3>2
    <2>2. CASE \E j \in Nat : Moved(S, j)
      <3>1. PICK j \in Nat : Moved(S, j)
        BY <2>2
      <3>2. /\ cursor' = j /\ j \in (cursor + 1)..Len(S)
            /\ last' = IF j < Len(S) THEN S[j + 1] ELSE NO_MORE_DOCS
            /\ BlockIndex(j) < Len(chunks) => decomp' = Block(S, BlockIndex(j))
        BY <3>1 DEF Moved
      <3> QED
        BY <1>1, <1>5, <3>2
    <2> QED
      BY <2>1, <2>2 DEF Answered
  <1>7. Iterating(S)'
    <2>1. (NoRequest)' = NoRequest
      BY DEF NoRequest, Iter!NoRequest
    <2> QED
      BY <1>2, <1>4, <1>6, <2>1 DEF Iterating
  <1> QED
    BY <1>3, <1>7

(* The first of a set of documents.                                        *)
LEMMA FirstIs ==
    ASSUME NEW X, X \subseteq Doc, NEW m,
           \/ m \in X /\ \A e \in X : m <= e
           \/ X = {} /\ m = NO_MORE_DOCS
    PROVE  Iter!First(X) = m
  <1> DEFINE Y == X \cup {NO_MORE_DOCS}
             f == Iter!First(X)
  <1>1. f = CHOOSE d \in Y : \A e \in Y : d <= e
    BY DEF Iter!First
  <1>2. \A e \in Y : e \in Int /\ e <= NO_MORE_DOCS
    BY MaxDocAssumption DEF Doc, NO_MORE_DOCS
  <1>3. m \in Y /\ \A e \in Y : m <= e
    BY <1>2
  <1> HIDE DEF Y, f
  <1>4. f \in Y /\ \A e \in Y : f <= e
    BY <1>1, <1>3
  <1>5. f <= m /\ m <= f /\ f \in Int /\ m \in Int
    BY <1>2, <1>3, <1>4
  <1>6. f = m
    BY <1>5
  <1> QED
    BY <1>6 DEF f

(* The answer is the one DocIterator promises.                             *)
LEMMA AnsweredRefines ==
    ASSUME NEW S, Layout(S), Iterating(S), Answered(S)
    PROVE  Iter!Return
  <1> DEFINE d == IF cursor = -1 /\ ~(reading /\ total = 0) THEN 0 ELSE last
             L == Len(S)
             X == {e \in added : e > d /\ (Called("Advance") => e >= request.target)}
  <1>1. L \in Nat /\ total = L /\ S \in Seq(Int) /\ \A i \in 1..L : S[i] \in Int
    BY LayoutNumbers
  <1>2. /\ total' = total /\ reading' = reading /\ added' = added /\ request' = NoRequest
        /\ Called("nextDoc") \/ Called("Advance")
    BY DEF Answered, bitmap
  <1>3. request # NoRequest
    BY <1>2 DEF Called, NoRequest, Iter!NoRequest
  <1>4. reading = TRUE /\ cursor \in (-1)..L
    BY <1>3 DEF Iterating
  <1>5. Called("nextDoc") => ~Called("Advance")
    BY DEF Called
  <1>6. Increasing(S) /\ added = {S[i] : i \in 1..L} /\ S \in Seq(Doc)
    BY DEF Layout
  <1>6a. added \subseteq Doc
    BY <1>6
  <1>7. Iter!Answer(added, d, request) = Iter!First(X)
    <2>1. CASE Called("nextDoc")
      <3>1. X = {e \in added : e > d}
        BY <1>5, <2>1
      <3> HIDE DEF d, X
      <3> QED
        BY <2>1, <3>1 DEF Iter!Answer, Iter!Beyond, Called
    <2>2. CASE Called("Advance")
      <3>1. X = {e \in added : e > d /\ e >= request.target}
        BY <2>2
      <3>2. request.op # "nextDoc"
        BY <2>2 DEF Called
      <3> HIDE DEF d, X
      <3> QED
        BY <3>1, <3>2 DEF Iter!Answer, Iter!BeyondFrom
    <2> QED
      BY <1>2, <2>1, <2>2
  <1>8. X \subseteq Doc
    BY <1>6a
  <1>9. CASE Stayed(S)
    <2>1. cursor' = cursor /\ last' = NO_MORE_DOCS /\ (cursor = L \/ (L = 0 /\ cursor = -1))
      BY <1>9 DEF Stayed
    <2>2. last = NO_MORE_DOCS
      BY <2>1 DEF Iterating
    <2>3. d = NO_MORE_DOCS
      BY <1>1, <1>4, <2>1, <2>2
    <2>4. X = {}
      <3>1. \A e \in Doc : ~(e > NO_MORE_DOCS)
        BY MaxDocAssumption DEF Doc, NO_MORE_DOCS
      <3> HIDE DEF d
      <3> QED
        BY <1>6a, <2>3, <3>1
    <2>5. Iter!First(X) = NO_MORE_DOCS
      BY <1>8, <2>4, FirstIs
    <2>6. (IF cursor' = -1 /\ ~(reading' /\ total' = 0) THEN 0 ELSE last') = NO_MORE_DOCS
      BY <1>1, <1>2, <1>4, <2>1
    <2> QED
      BY <1>2, <1>3, <1>7, <2>5, <2>6 DEF Iter!Return, NoRequest
  <1>10. CASE \E j \in Nat : Moved(S, j)
    <2>1. PICK j \in Nat : Moved(S, j)
      BY <1>10
    <2>2. /\ cursor' = j /\ j \in (cursor + 1)..L
          /\ last' = IF j < L THEN S[j + 1] ELSE NO_MORE_DOCS
          /\ \A i \in (cursor + 1)..(j - 1) : Called("Advance") /\ S[i + 1] < Target
          /\ Called("Advance") /\ j < L => S[j + 1] >= Target
      BY <2>1 DEF Moved
    <2>3. cursor < L
      BY <1>1, <1>4, <2>2
    <2>4. ASSUME NEW i \in 0..(L - 1) PROVE S[i + 1] > d <=> i > cursor
      <3>1. i + 1 \in 1..L
        BY <1>1
      <3>2. CASE cursor = -1
        <4>1. L # 0
          BY <1>1
        <4>2. d = 0
          BY <1>1, <3>2, <4>1
        <4>3. S[i + 1] \in Doc
          BY <1>6, <3>1
        <4> HIDE DEF d
        <4> QED
          BY <1>1, <3>2, <4>2, <4>3, MaxDocAssumption DEF Doc
      <3>3. CASE cursor # -1
        <4>1. cursor \in 0..(L - 1) /\ cursor + 1 \in 1..L
          BY <1>1, <1>4, <2>3, <3>3
        <4>2. d = S[cursor + 1]
          BY <3>3, <4>1 DEF Iterating
        <4>3. S[cursor + 1] < S[i + 1] <=> cursor + 1 < i + 1
          BY <1>6, <3>1, <4>1, Ordered
        <4>4. S[cursor + 1] \in Int /\ S[i + 1] \in Int
          BY <1>1, <3>1, <4>1
        <4> HIDE DEF d, L
        <4> QED
          BY <1>1, <1>4, <4>2, <4>3, <4>4
      <3> QED
        BY <3>2, <3>3
    <2>5. ASSUME Called("Advance"), NEW i \in 0..(L - 1), i > cursor
          PROVE  S[i + 1] >= request.target <=> S[i + 1] >= Target
      <3>1. request.target \in Int
        BY <2>5, TargetType, MaxDocAssumption DEF Doc
      <3>2. i + 1 \in 1..L /\ S[i + 1] \in Int
        BY <1>1
      <3>3. CASE cursor # -1 /\ request.target <= last
        <4>1. cursor \in 0..(L - 1) /\ cursor + 1 \in 1..L
          BY <1>1, <1>4, <2>3, <3>3
        <4>2. last = S[cursor + 1] /\ last \in Int
          BY <1>1, <4>1 DEF Iterating
        <4>3. cursor + 1 < i + 1
          BY <1>1, <1>4, <2>5
        <4>4. S[cursor + 1] < S[i + 1]
          BY <1>6, <3>2, <4>1, <4>3, Ordered
        <4>5. Target = last + 1
          BY <3>3 DEF Target
        <4> QED
          BY <3>1, <3>2, <3>3, <4>2, <4>4, <4>5
      <3>4. CASE ~(cursor # -1 /\ request.target <= last)
        BY <3>4 DEF Target
      <3> QED
        BY <3>3, <3>4
    <2>6. ASSUME NEW i \in 0..(L - 1), S[i + 1] \in X PROVE i >= j
      <3>1. i > cursor
        BY <2>4, <2>6
      <3>2. CASE Called("nextDoc")
        <4>1. ~(i \in (cursor + 1)..(j - 1))
          BY <1>5, <2>2, <3>2
        <4> QED
          BY <1>1, <1>4, <2>2, <3>1, <4>1
      <3>3. CASE Called("Advance")
        <4>1. S[i + 1] >= Target /\ Target \in Int /\ S[i + 1] \in Int
          <5>1. i + 1 \in 1..L
            BY <1>1
          <5> QED
            BY <1>1, <2>5, <2>6, <3>1, <3>3, <5>1, TargetType
        <4>2. ~(i \in (cursor + 1)..(j - 1))
          BY <2>2, <4>1
        <4> QED
          BY <1>1, <1>4, <2>2, <3>1, <4>2
      <3> QED
        BY <1>2, <3>2, <3>3
    <2>7. ASSUME NEW e \in X PROVE \E i \in 0..(L - 1) : e = S[i + 1]
      <3>1. PICK x \in 1..L : e = S[x]
        BY <1>6
      <3>2. x - 1 \in 0..(L - 1) /\ (x - 1) + 1 = x
        BY <1>1
      <3> QED
        BY <3>1, <3>2
    <2>8. Iter!First(X) = last'
      <3>1. CASE j < L
        <4>1. j \in 0..(L - 1) /\ j > cursor /\ j + 1 \in 1..L
          BY <1>1, <1>4, <2>2, <3>1
        <4>2. S[j + 1] \in X
          <5>1. S[j + 1] \in added
            BY <1>6, <4>1
          <5>2. S[j + 1] > d
            BY <2>4, <4>1
          <5>3. Called("Advance") => S[j + 1] >= request.target
            BY <2>2, <2>5, <3>1, <4>1
          <5> HIDE DEF d
          <5> QED
            BY <5>1, <5>2, <5>3
        <4>3. ASSUME NEW e \in X PROVE S[j + 1] <= e
          <5>1. PICK i \in 0..(L - 1) : e = S[i + 1]
            BY <2>7
          <5>2. i >= j /\ i + 1 \in 1..L /\ j + 1 <= i + 1
            BY <1>1, <2>6, <4>1, <5>1
          <5> QED
            BY <1>6, <4>1, <5>1, <5>2, Ordered
        <4>4. last' = S[j + 1]
          BY <2>2, <3>1
        <4> HIDE DEF X
        <4> QED
          BY <1>8, <4>2, <4>3, <4>4, FirstIs
      <3>2. CASE ~(j < L)
        <4>1. X = {}
          <5> SUFFICES ASSUME NEW e \in X PROVE FALSE
            OBVIOUS
          <5>1. PICK i \in 0..(L - 1) : e = S[i + 1]
            BY <2>7
          <5>2. i >= j
            BY <2>6, <5>1
          <5> QED
            BY <1>1, <3>2, <5>2
        <4>2. last' = NO_MORE_DOCS
          BY <2>2, <3>2
        <4> HIDE DEF X
        <4> QED
          BY <1>8, <4>1, <4>2, FirstIs
      <3> QED
        BY <3>1, <3>2
    <2>9. (IF cursor' = -1 /\ ~(reading' /\ total' = 0) THEN 0 ELSE last') = last'
      BY <2>2
    <2> QED
      BY <1>2, <1>3, <1>7, <2>8, <2>9 DEF Iter!Return, NoRequest
  <1> QED
    BY <1>9, <1>10 DEF Answered

--------------------------------------------------------------------------------
(* Nothing is added and nothing asked for: the empty list.                 *)
LEMMA InitInvariant == Init => IInv
  <1> SUFFICES ASSUME Init PROVE Layout(<<>>) /\ Iterating(<<>>)
    <2>1. <<>> \in Seq(Doc)
      OBVIOUS
    <2> QED
      BY <2>1 DEF IInv
  <1>1. /\ current = <<>> /\ base = <<>> /\ chunks = <<>> /\ total = 0 /\ reading = FALSE /\ cursor = -1
        /\ last = NO_MORE_DOCS /\ request = NoRequest /\ added = {}
    BY DEF Init, NoRequest, Iter!NoRequest
  <1>2. Len(<<>>) = 0 /\ 1..0 = {} /\ 0..(0 - 1) = {}
    OBVIOUS
  <1>3. Increasing(<<>>)
    BY <1>2 DEF Increasing
  <1>4. Times(0) = 0 /\ BlockSize \in Nat
    BY BlockSizeAssumption DEF Times
  <1>5. Lay(<<>>, <<>>, <<>>, <<>>)
    BY <1>2, <1>4 DEF Lay
  <1>6. {<<>>[i] : i \in 1..0} = {}
    BY <1>2
  <1>7. Layout(<<>>)
    BY <1>1, <1>2, <1>3, <1>5, <1>6 DEF Layout
  <1>8. ASSUME NEW R \in Seq(Doc) PROVE Iterating(R)
    <2>1. Len(R) \in Nat
      OBVIOUS
    <2>2. -1 \in (-1)..Len(R) /\ ~(-1 \in 0..(Len(R) - 1)) /\ ~(-1 >= 0)
      BY <2>1
    <2> QED
      BY <1>1, <2>2 DEF Iterating
  <1>9. <<>> \in Seq(Doc)
    OBVIOUS
  <1> QED
    BY <1>7, <1>8, <1>9

(* While the set is filled the iterator has not moved.                     *)
LEMMA FillingIterates ==
    ASSUME NEW S, Iterating(S), ~reading, NEW R, R \in Seq(Doc),
           UNCHANGED <<iter, request>>, reading' \in BOOLEAN
    PROVE  Iterating(R)'
  <1>1. cursor' = -1 /\ request' = NoRequest /\ last' = NO_MORE_DOCS
    BY DEF Iterating, iter, NoRequest, Iter!NoRequest
  <1>2. Len(R) \in Nat
    OBVIOUS
  <1>3. -1 \in (-1)..Len(R) /\ ~(-1 \in 0..(Len(R) - 1)) /\ ~(-1 >= 0)
    BY <1>2
  <1>4. NoRequest' = NoRequest
    BY DEF NoRequest, Iter!NoRequest
  <1> QED
    BY <1>1, <1>3, <1>4 DEF Iterating

(* Every step preserves the invariant.                                     *)
LEMMA NextInvariant == IInv /\ [Next]_vars => IInv'
  <1> SUFFICES ASSUME NEW S \in Seq(Doc), Layout(S), Iterating(S), [Next]_vars
               PROVE  \E R \in Seq(Doc) : Layout(R)' /\ Iterating(R)'
    BY DEF IInv
  <1>1. ASSUME NEW d \in Doc, addDoc(d) PROVE Layout(S \o <<d>>)' /\ Iterating(S \o <<d>>)' /\ S \o <<d>> \in Seq(Doc)
    <2>1. Layout(S \o <<d>>)' /\ S \o <<d>> \in Seq(Doc)
      BY <1>1, AddDocLayout
    <2>2. ~reading /\ UNCHANGED <<iter, request>> /\ reading' \in BOOLEAN
      BY <1>1 DEF addDoc, Filling, Iterating
    <2> QED
      BY <2>1, <2>2, FillingIterates
  <1>2. ASSUME NEW D \in (SUBSET Doc) \ {{}}, addDocs(D)
        PROVE  Layout(S \o Sorted(D))' /\ Iterating(S \o Sorted(D))' /\ S \o Sorted(D) \in Seq(Doc)
    <2>1. Layout(S \o Sorted(D))' /\ S \o Sorted(D) \in Seq(Doc)
      BY <1>2, AddDocsLayout
    <2>2. ~reading /\ UNCHANGED <<iter, request>> /\ reading' \in BOOLEAN
      BY <1>2 DEF addDocs, Filling, Iterating
    <2> QED
      BY <2>1, <2>2, FillingIterates
  <1>3. ASSUME Store PROVE Layout(S)' /\ Iterating(S)'
    <2>1. /\ ~reading /\ UNCHANGED <<iter, request>> /\ reading' \in BOOLEAN /\ added' = added
          /\ read(write)
      BY <1>3 DEF Store, Iterating
    <2>2. total' = total /\ current' = current /\ base' = base /\ chunks' = chunks
      BY <2>1, StoreKeeps
    <2>3. Layout(S)'
      BY <2>1, <2>2 DEF Layout
    <2> QED
      BY <2>1, <2>3, FillingIterates
  <1>4. ASSUME iterator PROVE Layout(S)' /\ Iterating(S)'
    <2>1. ~reading /\ UNCHANGED <<iter, request>> /\ reading' \in BOOLEAN /\ UNCHANGED <<bitmap, added>>
      BY <1>4 DEF iterator
    <2>2. Layout(S)'
      BY <2>1 DEF Layout, bitmap
    <2> QED
      BY <2>1, <2>2, FillingIterates
  <1>5. ASSUME Call("nextDoc", 0) \/ \E t \in Doc : Call("Advance", t) PROVE Layout(S)' /\ Iterating(S)'
    <2>1. /\ reading /\ reading' = reading /\ UNCHANGED <<bitmap, iter, added>>
          /\ \/ request' = [op |-> "nextDoc", target |-> 0] /\ cursor # total
             \/ \E t \in Doc : request' = [op |-> "Advance", target |-> t]
      BY <1>5 DEF Call
    <2>2. Layout(S)'
      BY <2>1 DEF Layout, bitmap
    <2>3. total = Len(S)
      BY DEF Layout
    <2>4. Iterating(S)'
      BY <2>1, <2>3 DEF Iterating, bitmap, iter
    <2> QED
      BY <2>2, <2>4
  <1>6. ASSUME AtEnd \/ nextDocInCurrent \/ nextDocInChunk \/ AdvanceInCurrent \/ AdvanceInChunk \/ AdvanceToChunk
        PROVE  Layout(S)' /\ Iterating(S)'
    <2>1. Answered(S)
      BY <1>6, AtEndAnswers, NextDocAnswers, AdvanceInCurrentAnswers, AdvanceInChunkAnswers, AdvanceToChunkAnswers
    <2> QED
      BY <2>1, AnsweredInvariant
  <1>7. ASSUME UNCHANGED vars PROVE Layout(S)' /\ Iterating(S)'
    <2>1. Layout(S)'
      BY <1>7 DEF Layout, vars, bitmap
    <2>2. NoRequest' = NoRequest
      BY DEF NoRequest, Iter!NoRequest
    <2>3. Iterating(S)'
      BY <1>7, <2>2 DEF Iterating, vars, bitmap, iter
    <2> QED
      BY <2>1, <2>3
  <1> QED
    BY <1>1, <1>2, <1>3, <1>4, <1>5, <1>6, <1>7 DEF Next

(* Before its first call an iterator stands before the first document, or, *)
(* over nothing, at the end.                                               *)
LEMMA StartRefines ==
    ASSUME NEW S, Layout(S), Iterating(S), ~reading,
           NEW R, Layout(R)', Iterating(R)', cursor' = -1, request' = request, added \subseteq added'
    PROVE  Iter!Fill
  <1>1. cursor = -1 /\ request = NoRequest
    BY DEF Iterating
  <1>2. last' = NO_MORE_DOCS
    BY DEF Iterating
  <1>3. total' = 0 => added' = {}
    <2>1. total' = Len(R) /\ added' = {R[i] : i \in 1..Len(R)}
      BY DEF Layout
    <2> QED
      BY <2>1
  <1> QED
    BY <1>1, <1>2, <1>3 DEF Iter!Fill, NoRequest

(* Every step is a step of the abstract iterator, or changes nothing of it.*)
LEMMA StepRefines == IInv /\ [Next]_vars => [Iter!Fill \/ Iter!Call \/ Iter!Return]_(Iter!vars)
  <1> SUFFICES ASSUME NEW S \in Seq(Doc), Layout(S), Iterating(S), [Next]_vars
               PROVE  [Iter!Fill \/ Iter!Call \/ Iter!Return]_(Iter!vars)
    BY DEF IInv
  <1>0. PICK R \in Seq(Doc) : Layout(R)' /\ Iterating(R)'
    <2>1. IInv
      BY DEF IInv
    <2>2. IInv'
      BY <2>1, NextInvariant
    <2> QED
      BY <2>2 DEF IInv
  <1>1. ASSUME (\E d \in Doc : addDoc(d)) \/ (\E D \in (SUBSET Doc) \ {{}} : addDocs(D)) \/ Store \/ iterator
        PROVE  Iter!Fill
    <2>1. ~reading /\ UNCHANGED <<iter, request>> /\ added \subseteq added'
      BY <1>1 DEF addDoc, addDocs, Filling, Store, iterator
    <2>2. cursor = -1
      BY <2>1 DEF Iterating
    <2> QED
      BY <1>0, <2>1, <2>2, StartRefines DEF iter
  <1>2. ASSUME Call("nextDoc", 0) \/ \E t \in Doc : Call("Advance", t) PROVE Iter!Call
    <2>1. Doc \subseteq Nat
      BY MaxDocAssumption DEF Doc
    <2>2. /\ request = Iter!NoRequest /\ request' \in Iter!Request
          /\ UNCHANGED <<bitmap, reading, iter, added>>
      BY <1>2, <2>1 DEF Call, NoRequest, Iter!Request
    <2> QED
      BY <2>2 DEF Iter!Call, bitmap, iter
  <1>3. ASSUME AtEnd \/ nextDocInCurrent \/ nextDocInChunk \/ AdvanceInCurrent \/ AdvanceInChunk \/ AdvanceToChunk
        PROVE  Iter!Return
    <2>1. Answered(S)
      BY <1>3, AtEndAnswers, NextDocAnswers, AdvanceInCurrentAnswers, AdvanceInChunkAnswers, AdvanceToChunkAnswers
    <2> QED
      BY <2>1, AnsweredRefines
  <1>4. ASSUME UNCHANGED vars PROVE UNCHANGED Iter!vars
    BY <1>4 DEF vars, Iter!vars, bitmap, iter
  <1> QED
    BY <1>1, <1>2, <1>3, <1>4 DEF Next

--------------------------------------------------------------------------------
(* The invariant holds of every execution: there is a list of the          *)
(* documents added, in increasing order, that the blocks are cut from and  *)
(* that the iterator stands in.                                            *)
THEOREM InvariantHolds == Spec => []IInv
  BY InitInvariant, NextInvariant, PTL DEF Spec

(* The documents added are the documents of the blocks, whatever mixture   *)
(* of addDoc, addDocs and the store they went through.                     *)
THEOREM CanonicalHolds == Spec => []Canonical
  <1>1. IInv => Canonical
    BY LayoutCanonical DEF IInv
  <1> QED
    BY <1>1, InvariantHolds, PTL

(* find tells the members, for every document.                             *)
THEOREM FindIsExact == Spec => []FindExact
  <1>1. IInv => FindExact
    BY LayoutFinds DEF IInv
  <1> QED
    BY <1>1, InvariantHolds, PTL

(* The block an iterator stands in is the one it has uncompressed.         *)
THEOREM DecompIsFresh == Spec => []DecompFresh
  <1>1. IInv => DecompFresh
    <2> SUFFICES ASSUME NEW S \in Seq(Doc), Layout(S), Iterating(S),
                        cursor >= 0, BlockIndex(cursor) < Len(chunks)
                 PROVE  decomp = Uncompress(At(chunks, BlockIndex(cursor)))
      BY DEF IInv, DecompFresh
    <2>1. decomp = Block(S, BlockIndex(cursor))
      BY DEF Iterating
    <2>2. Len(S) \in Nat /\ Len(chunks) \in Nat
      BY LayoutNumbers
    <2>3. cursor \in Nat
      BY <2>2 DEF Iterating
    <2>4. BlockIndex(cursor) \in Nat
      BY <2>3, DivMod
    <2>5. BlockIndex(cursor) \in 0..(Len(chunks) - 1)
      BY <2>2, <2>4
    <2> QED
      BY <2>1, <2>5, LayoutEntries
  <1> QED
    BY <1>1, InvariantHolds, PTL

(* The posting list's iterator implements the iterator that the operators  *)
(* of query evaluation are built on: nextDoc and Advance return the        *)
(* documents added, in order, across block boundaries and to the end.      *)
THEOREM IteratorRefinement == Spec => ImplementsDocIterator
  <1>1. Init => Iter!Init
    BY DEF Init, Iter!Init, Iter!NoRequest
  <1> QED
    BY <1>1, InvariantHolds, StepRefines, PTL DEF Spec, ImplementsDocIterator, Iter!Spec
================================================================================
