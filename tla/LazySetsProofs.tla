----------------------------- MODULE LazySetsProofs -----------------------------
(***************************************************************************)
(* Proofs about LazySets, for every query over any number of tokens,       *)
(* fields and documents: the heap of a LazyOrSet is a heap, no postings    *)
(* iterator is called past its end, and the LazyAndSet over the LazyOrSets *)
(* answers every call with the document DocIterator says, that is with the *)
(* next one of the intersection over the tokens of the union over the      *)
(* fields.  Above them, EngineSearch returns the page it was asked for.    *)
(***************************************************************************)
EXTENDS EngineSearch, WellFoundedInduction, FiniteSetTheorems, SequenceTheorems, TLAPS

--------------------------------------------------------------------------------
(* Induction over the natural numbers, in the form the heap needs: a set   *)
(* of them that is not empty has a least element.                          *)
LEMMA Least ==
    ASSUME NEW T, T \subseteq Nat, T # {}
    PROVE  \E m \in T : \A k \in T : m <= k
  <1> DEFINE R == OpToRel(<, Nat)
  <1>1. IsWellFoundedOn(R, Nat)
    BY NatLessThanWellFounded
  <1>2. R = {p \in Nat \X Nat : p[1] < p[2]}
    BY DEF OpToRel
  <1> HIDE DEF R
  <1>3. PICK m \in T : \A k \in T : ~(<<k, m>> \in R)
    BY <1>1, WFMin
  <1>4. ASSUME NEW k \in T PROVE m <= k
    <2>1. k \in Nat /\ m \in Nat
      OBVIOUS
    <2>2. k < m => <<k, m>> \in R
      BY <1>2, <2>1
    <2> QED
      BY <1>3, <2>1, <2>2
  <1> QED
    BY <1>4

(* A set of natural numbers below a bound has a greatest element.          *)
LEMMA Greatest ==
    ASSUME NEW n \in Nat, NEW T, T \subseteq 0..n, T # {}
    PROVE  \E m \in T : \A k \in T : k <= m
  <1> DEFINE U == {n - k : k \in T}
  <1>0. PICK x \in T : TRUE
    OBVIOUS
  <1>1. U \subseteq Nat /\ U # {}
    <2>1. \A k \in T : k \in 0..n /\ n - k \in Nat
      OBVIOUS
    <2>2. n - x \in U
      OBVIOUS
    <2> QED
      BY <2>1, <2>2
  <1>2. PICK u \in U : \A v \in U : u <= v
    BY <1>1, Least
  <1>3. PICK m \in T : u = n - m
    OBVIOUS
  <1>4. ASSUME NEW k \in T PROVE k <= m
    <2>1. n - m <= n - k
      BY <1>2, <1>3
    <2> QED
      BY <2>1
  <1> QED
    BY <1>4

--------------------------------------------------------------------------------
(* The heap.  h is a sequence of the members of a set F, and d gives the   *)
(* document of each.                                                       *)

Member(h, f) == \E k \in 1..Len(h) : h[k] = f
DistinctMembers(h) == \A j, k \in 1..Len(h) : h[j] = h[k] => j = k
Ordered(h, d) == \A k \in 2..Len(h) : d[h[k \div 2]] <= d[h[k]]

(* Ordered but for the root, as heapAdjust finds it.                       *)
BelowOrdered(h, d) == \A k \in 4..Len(h) : d[h[k \div 2]] <= d[h[k]]

IsPath(P, h, d) ==
    \A k \in 1..Len(h) : k \in P <=> k = 1 \/ (k \div 2 \in P /\ Rising(h, d, k \div 2) = k)

(* The child that rises is a child, and not above its sibling; if none     *)
(* does, the root is not above either.                                     *)
LEMMA RisingChild ==
    ASSUME NEW F, NEW h \in Seq(F), NEW d \in [F -> Nat], NEW k \in 1..Len(h)
    PROVE  LET c == Rising(h, d, k)
           IN /\ c = 0 \/ (c \in 2..Len(h) /\ c \div 2 = k /\ k < c)
              /\ \A j \in 2..Len(h) : j \div 2 = k =>
                    IF c = 0 THEN d[h[1]] <= d[h[j]] ELSE d[h[c]] <= d[h[j]]
              /\ c # 0 => d[h[c]] <= d[h[1]]
  <1> DEFINE n == Len(h)
             D(x) == d[h[x]]
             l == 2 * k
             r == l + 1
             m == IF r <= n /\ D(r) <= D(l) THEN r ELSE l
  <1>1. n \in Nat /\ \A x \in 1..n : D(x) \in Nat
    BY LenProperties, ElementOfSeq
  <1>2. Rising(h, d, k) = IF l > n \/ D(1) <= D(m) THEN 0 ELSE m
    BY DEF Rising
  <1>3. \A j \in 2..n : j \div 2 = k => j = l \/ j = r
    BY <1>1
  <1>4. l \div 2 = k /\ r \div 2 = k /\ l \in Nat /\ r \in Nat /\ k < l /\ l < r
    OBVIOUS
  <1> HIDE DEF n, D, l, r
  <1>5. CASE l > n
    <2>1. \A j \in 2..n : j \div 2 # k
      BY <1>1, <1>3, <1>4, <1>5 DEF r
    <2>2. Rising(h, d, k) = 0
      BY <1>2, <1>5
    <2> QED
      BY <2>1, <2>2 DEF n
  <1>6. CASE l <= n
    <2>1. l \in 2..n /\ m \in 2..n /\ m \div 2 = k /\ k < m /\ 1 \in 1..n
      BY <1>1, <1>4, <1>6 DEF l, r
    <2>2. D(m) \in Nat /\ D(1) \in Nat /\ D(l) \in Nat /\ (r <= n => D(r) \in Nat)
      <3>1. l \in 1..n /\ m \in 1..n /\ (r <= n => r \in 1..n)
        BY <1>1, <1>4, <2>1
      <3> QED
        BY <1>1, <2>1, <3>1
    <2>3. ASSUME NEW j \in 2..n, j \div 2 = k PROVE D(m) <= D(j)
      <3>1. CASE j = l /\ r <= n /\ D(r) <= D(l)
        BY <3>1
      <3>2. CASE j = l /\ ~(r <= n /\ D(r) <= D(l))
        BY <2>2, <3>2
      <3>3. CASE j = r
        <4>1. r <= n
          BY <1>1, <3>3
        <4> QED
          BY <2>2, <3>3, <4>1
      <3> QED
        BY <1>3, <2>3, <3>1, <3>2, <3>3
    <2>4. ASSUME NEW j \in 2..n PROVE D(j) \in Nat
      BY <1>1
    <2> HIDE DEF m
    <2>5. CASE D(1) <= D(m)
      <3>1. Rising(h, d, k) = 0
        BY <1>2, <2>5
      <3>2. \A j \in 2..n : j \div 2 = k => D(1) <= D(j)
        BY <2>2, <2>3, <2>4, <2>5
      <3> QED
        BY <3>1, <3>2 DEF n, D
    <2>6. CASE ~(D(1) <= D(m))
      <3>1. Rising(h, d, k) = m /\ m # 0
        BY <1>1, <1>2, <1>4, <1>6, <2>1, <2>6
      <3>2. D(m) <= D(1)
        BY <2>2, <2>6
      <3> QED
        BY <2>1, <2>3, <3>1, <3>2 DEF n, D
    <2> QED
      BY <2>5, <2>6
  <1> QED
    BY <1>1, <1>4, <1>5, <1>6

(* The path exists: place by place, a place is on it or not.               *)
LEMMA PathExists ==
    ASSUME NEW F, NEW h \in Seq(F), NEW d
    PROVE  SinkingPath(h, d) \subseteq 1..Len(h) /\ IsPath(SinkingPath(h, d), h, d)
  <1> DEFINE n == Len(h)
             On(P, k) == k = 1 \/ (k \div 2 \in P /\ Rising(h, d, k \div 2) = k)
             Upto(m) == \E P \in SUBSET (1..m) : \A k \in 1..m : k \in P <=> On(P, k)
             T == {m \in 0..n : ~Upto(m)}
  <1>1. n \in Nat
    BY LenProperties
  <1>2. Upto(0)
    <2> WITNESS {} \in SUBSET (1..0)
    <2> QED
      OBVIOUS
  <1> HIDE DEF Upto, n
  <1>3. T = {}
    <2> SUFFICES ASSUME T # {} PROVE FALSE
      OBVIOUS
    <2>1. T \subseteq Nat
      BY <1>1
    <2>2. PICK m \in T : \A k \in T : m <= k
      BY <2>1, Least
    <2>3. m \in 1..n /\ m - 1 \in 0..n /\ ~Upto(m)
      <3>1. m \in 0..n /\ ~Upto(m)
        OBVIOUS
      <3>2. m # 0
        BY <1>2, <3>1
      <3> QED
        BY <1>1, <3>1, <3>2
    <2>4. Upto(m - 1)
      <3>1. m - 1 \notin T
        BY <2>2, <2>3
      <3> QED
        BY <2>3, <3>1
    <2>5. PICK P \in SUBSET (1..(m - 1)) : \A k \in 1..(m - 1) : k \in P <=> On(P, k)
      BY <2>4 DEF Upto
    <2> DEFINE Q == P \cup (IF On(P, m) THEN {m} ELSE {})
    <2>6. Q \in SUBSET (1..m)
      BY <2>3
    <2>7. ASSUME NEW k \in 1..m PROVE On(Q, k) <=> On(P, k)
      <3>1. k \div 2 # m
        BY <2>3
      <3>2. k \div 2 \in Q <=> k \div 2 \in P
        BY <3>1
      <3> QED
        BY <3>2
    <2>8. ASSUME NEW k \in 1..m PROVE k \in Q <=> On(P, k)
      <3>1. CASE k = m
        <4>1. m \notin P
          BY <2>3
        <4> QED
          BY <3>1, <4>1
      <3>2. CASE k # m
        <4>1. k \in 1..(m - 1)
          BY <2>3, <3>2
        <4>2. k \in Q <=> k \in P
          BY <3>2
        <4> QED
          BY <2>5, <4>1, <4>2
      <3> QED
        BY <3>1, <3>2
    <2> HIDE DEF Q, On
    <2>9. \A k \in 1..m : k \in Q <=> On(Q, k)
      BY <2>7, <2>8
    <2>10. Upto(m)
      BY <2>6, <2>9 DEF Upto
    <2> QED
      BY <2>3, <2>10
  <1>4. Upto(n)
    BY <1>1, <1>3
  <1>5. \E P \in SUBSET (1..Len(h)) : \A k \in 1..Len(h) :
           k \in P <=> k = 1 \/ (k \div 2 \in P /\ Rising(h, d, k \div 2) = k)
    BY <1>4 DEF Upto, n
  <1> QED
    BY <1>5 DEF SinkingPath, IsPath

(* heapAdjust puts the members of the heap into other places, and leaves   *)
(* none out.                                                               *)
LEMMA AdjustPermutes ==
    ASSUME NEW F, NEW h \in Seq(F), NEW d \in [F -> Nat], Len(h) >= 1, DistinctMembers(h)
    PROVE  /\ heapAdjust(h, d) \in Seq(F) /\ Len(heapAdjust(h, d)) = Len(h)
           /\ DistinctMembers(heapAdjust(h, d))
           /\ \A f : Member(heapAdjust(h, d), f) <=> Member(h, f)
  <1> DEFINE n == Len(h)
             P == SinkingPath(h, d)
             R(k) == Rising(h, d, k)
             g == [k \in 1..n |-> IF k \notin P THEN k ELSE IF R(k) = 0 THEN 1 ELSE R(k)]
             H == heapAdjust(h, d)
  <1>1. n \in Nat \ {0} /\ 1 \in 1..n /\ \A k \in 1..n : h[k] \in F
    BY LenProperties, ElementOfSeq
  <1>2. P \subseteq 1..n /\ \A k \in 1..n : k \in P <=> k = 1 \/ (k \div 2 \in P /\ R(k \div 2) = k)
    BY PathExists DEF IsPath
  <1>3. \A k \in 1..n : R(k) = 0 \/ (R(k) \in 2..n /\ R(k) \div 2 = k /\ k < R(k))
    BY RisingChild
  <1>4. H = [k \in 1..n |-> h[g[k]]]
    BY DEF heapAdjust
  <1>a. /\ \A j, k \in 1..n : h[j] = h[k] => j = k
        /\ \A f : Member(h, f) <=> \E k \in 1..n : h[k] = f
    BY DEF DistinctMembers, Member
  <1> HIDE DEF P, R, n, H
  <1>5. g \in [1..n -> 1..n]
    BY <1>1, <1>3
  <1>6. \A m \in 1..n : \E k \in 1..n : g[k] = m
    <2> TAKE m \in 1..n
    <2>1. CASE m \notin P
      BY <2>1
    <2>2. CASE m \in P /\ m # 1
      <3>1. m \div 2 \in P /\ R(m \div 2) = m
        BY <1>2, <2>2
      <3>2. m \div 2 \in 1..n
        BY <1>2, <3>1
      <3> QED
        BY <1>1, <3>1, <3>2
    <2>3. CASE m = 1
      <3>1. 1 \in P /\ P \subseteq 0..n
        BY <1>1, <1>2
      <3>2. PICK k \in P : \A j \in P : j <= k
        BY <1>1, <3>1, Greatest
      <3>3. k \in 1..n
        BY <1>2
      <3>4. R(k) = 0
        <4> SUFFICES ASSUME R(k) # 0 PROVE FALSE
          OBVIOUS
        <4>1. R(k) \in 1..n /\ R(k) \div 2 = k /\ k < R(k)
          BY <1>3, <3>3
        <4>2. R(k) \in P
          BY <1>2, <4>1
        <4>3. R(k) <= k
          BY <3>2, <4>2
        <4> QED
          BY <3>3, <4>1, <4>3
      <3> QED
        BY <2>3, <3>3, <3>4
    <2> QED
      BY <2>1, <2>2, <2>3
  <1>7. \A j, k \in 1..n : g[j] = g[k] => j = k
    <2> HIDE DEF g
    <2>1. g \in Surjection(1..n, 1..n)
      BY <1>5, <1>6 DEF Surjection
    <2>2. IsFiniteSet(1..n)
      BY <1>1, FS_Interval
    <2>3. g \in Injection(1..n, 1..n)
      BY <2>1, <2>2, FS_SurjSameCardinalityImpliesInj
    <2> QED
      BY <2>3 DEF Injection, IsInjective
  <1> HIDE DEF g
  <1>8. H \in [1..n -> F] /\ \A k \in 1..n : H[k] = h[g[k]] /\ g[k] \in 1..n
    BY <1>1, <1>4, <1>5
  <1>9. H \in Seq(F) /\ Len(H) = n
    BY <1>1, <1>8, IsASeq
  <1>10. \A j, k \in 1..n : H[j] = H[k] => j = k
    <2> SUFFICES ASSUME NEW j \in 1..n, NEW k \in 1..n, H[j] = H[k] PROVE j = k
      OBVIOUS
    <2>1. h[g[j]] = h[g[k]] /\ g[j] \in 1..n /\ g[k] \in 1..n
      BY <1>8
    <2>2. g[j] = g[k]
      BY <1>a, <2>1
    <2> QED
      BY <1>7, <2>2
  <1>11. \A f : Member(H, f) <=> Member(h, f)
    <2>1. ASSUME NEW f, NEW k \in 1..n, h[k] = f PROVE \E j \in 1..n : H[j] = f
      <3>1. PICK j \in 1..n : g[j] = k
        BY <1>6
      <3> QED
        BY <1>8, <2>1, <3>1
    <2>2. ASSUME NEW f, NEW k \in 1..n, H[k] = f PROVE \E j \in 1..n : h[j] = f
      BY <1>8, <2>2
    <2>3. \A f : Member(H, f) <=> \E k \in 1..n : H[k] = f
      BY <1>9 DEF Member
    <2> QED
      BY <1>a, <2>1, <2>2, <2>3
  <1> QED
    BY <1>9, <1>10, <1>11 DEF DistinctMembers, H, n

(* heapAdjust makes a heap of one that is ordered but for the root.        *)
LEMMA AdjustOrders ==
    ASSUME NEW F, NEW h \in Seq(F), NEW d \in [F -> Nat], Len(h) >= 1, BelowOrdered(h, d)
    PROVE  Ordered(heapAdjust(h, d), d)
  <1> DEFINE n == Len(h)
             P == SinkingPath(h, d)
             R(k) == Rising(h, d, k)
             D(k) == d[h[k]]
             H == heapAdjust(h, d)
             E(k) == d[H[k]]
  <1>1. n \in Nat \ {0} /\ 1 \in 1..n /\ \A k \in 1..n : D(k) \in Nat
    BY LenProperties, ElementOfSeq
  <1>2. P \subseteq 1..n /\ \A k \in 1..n : k \in P <=> k = 1 \/ (k \div 2 \in P /\ R(k \div 2) = k)
    BY PathExists DEF IsPath
  <1>3. ASSUME NEW k \in 1..n
        PROVE  /\ R(k) = 0 \/ (R(k) \in 2..n /\ R(k) \div 2 = k /\ k < R(k))
               /\ \A j \in 2..n : j \div 2 = k => IF R(k) = 0 THEN D(1) <= D(j) ELSE D(R(k)) <= D(j)
               /\ R(k) # 0 => D(R(k)) <= D(1)
    BY RisingChild
  <1>4. \A k \in 4..n : D(k \div 2) <= D(k)
    BY DEF BelowOrdered
  <1>5. Len(H) = n
    <2>1. H = [k \in 1..n |-> H[k]] /\ DOMAIN H = 1..n
      BY DEF heapAdjust
    <2> HIDE DEF H
    <2>2. H \in Seq({H[k] : k \in 1..n})
      BY <1>1, <2>1, IsASeq
    <2> QED
      BY <1>1, <2>1, <2>2, LenProperties
  <1>6. ASSUME NEW k \in 1..n
        PROVE  E(k) = IF k \notin P THEN D(k) ELSE IF R(k) = 0 THEN D(1) ELSE D(R(k))
    BY DEF heapAdjust
  <1> HIDE DEF P, R, n, H, D, E
  <1>7. ASSUME NEW k \in 2..n PROVE E(k \div 2) <= E(k)
    <2> DEFINE p == k \div 2
    <2>1. k \in 1..n /\ p \in 1..n /\ p = k \div 2 /\ (p # 1 => k \in 4..n)
      BY <1>1
    <2> HIDE DEF p
    <2>2. CASE p \notin P
      <3>1. k \notin P /\ p # 1
        BY <1>1, <1>2, <2>1, <2>2
      <3> QED
        BY <1>4, <1>6, <2>1, <2>2, <3>1
    <2>3. CASE p \in P /\ R(p) = 0
      <3>1. k \notin P
        BY <1>1, <1>2, <2>1, <2>3
      <3>2. D(1) <= D(k)
        BY <1>3, <2>1, <2>3
      <3> QED
        BY <1>6, <2>1, <2>3, <3>1, <3>2
    <2>4. CASE p \in P /\ R(p) # 0 /\ R(p) # k
      <3>1. k \notin P
        BY <1>2, <2>1, <2>4
      <3>2. D(R(p)) <= D(k)
        BY <1>3, <2>1, <2>4
      <3> QED
        BY <1>6, <2>1, <2>4, <3>1, <3>2
    <2>5. CASE p \in P /\ R(p) = k
      <3>1. k \in P /\ k # 0 /\ E(p) = D(k) /\ D(k) <= D(1)
        BY <1>2, <1>3, <1>6, <2>1, <2>5
      <3>2. CASE R(k) = 0
        BY <1>6, <2>1, <3>1, <3>2
      <3>3. CASE R(k) # 0
        <4>1. R(k) \in 4..n /\ R(k) \div 2 = k
          BY <1>1, <1>3, <2>1, <3>3
        <4>2. D(k) <= D(R(k))
          BY <1>4, <4>1
        <4> QED
          BY <1>6, <2>1, <3>1, <3>3, <4>2
      <3> QED
        BY <3>2, <3>3
    <2> QED
      BY <2>1, <2>2, <2>3, <2>4, <2>5
  <1> QED
    BY <1>5, <1>7 DEF Ordered, E, H

(* heapRemoveRoot leaves a heap of the members but for the root.           *)
LEMMA RemoveRoot ==
    ASSUME NEW F, NEW h \in Seq(F), NEW d \in [F -> Nat], Len(h) >= 1,
           DistinctMembers(h), BelowOrdered(h, d)
    PROVE  /\ heapRemoveRoot(h, d) \in Seq(F) /\ Len(heapRemoveRoot(h, d)) = Len(h) - 1
           /\ DistinctMembers(heapRemoveRoot(h, d))
           /\ Ordered(heapRemoveRoot(h, d), d)
           /\ \A f : Member(heapRemoveRoot(h, d), f) <=> Member(h, f) /\ f # h[1]
  <1> DEFINE n == Len(h)
             b == [k \in 1..(n - 1) |-> IF k = 1 THEN h[n] ELSE h[k]]
  <1>1. /\ n \in Nat \ {0} /\ \A k \in 1..n : h[k] \in F
        /\ \A j, k \in 1..n : h[j] = h[k] => j = k
        /\ \A f : Member(h, f) <=> \E k \in 1..n : h[k] = f
        /\ \A k \in 4..n : d[h[k \div 2]] <= d[h[k]]
    BY LenProperties, ElementOfSeq DEF DistinctMembers, Member, BelowOrdered
  <1>2. CASE n = 1
    <2>1. heapRemoveRoot(h, d) = <<>>
      BY <1>2 DEF heapRemoveRoot
    <2>2. Len(<<>>) = 0 /\ <<>> \in Seq(F)
      OBVIOUS
    <2>3. \A f : Member(h, f) <=> f = h[1]
      BY <1>1, <1>2
    <2>4. DistinctMembers(<<>>) /\ Ordered(<<>>, d) /\ \A f : ~Member(<<>>, f)
      BY DEF DistinctMembers, Ordered, Member
    <2> QED
      BY <1>1, <1>2, <2>1, <2>2, <2>3, <2>4
  <1>3. CASE n # 1
    <2>1. heapRemoveRoot(h, d) = heapAdjust(b, d)
      BY <1>3 DEF heapRemoveRoot
    <2> HIDE DEF n
    <2>2. n - 1 \in Nat \ {0} /\ 1 \in 1..(n - 1) /\ n \in 1..n /\ 1..(n - 1) \subseteq 1..n
      BY <1>1, <1>3
    <2>3. b \in [1..(n - 1) -> F]
      BY <1>1, <2>2
    <2>4. b \in Seq(F) /\ Len(b) = n - 1
      <3>1. DOMAIN b = 1..(n - 1)
        OBVIOUS
      <3> HIDE DEF b
      <3>2. b \in Seq(F)
        BY <2>2, <2>3, IsASeq
      <3> QED
        BY <2>2, <3>1, <3>2, LenProperties
    <2>5. DistinctMembers(b)
      <3> SUFFICES ASSUME NEW j \in 1..(n - 1), NEW k \in 1..(n - 1), b[j] = b[k] PROVE j = k
        BY <2>4 DEF DistinctMembers
      <3>1. j \in 1..n /\ k \in 1..n /\ j # n /\ k # n
        BY <1>1
      <3> QED
        BY <1>1, <2>2, <3>1
    <2>6. \A f : Member(b, f) <=> Member(h, f) /\ f # h[1]
      <3>1. \A f : Member(b, f) <=> \E k \in 1..(n - 1) : b[k] = f
        BY <2>4 DEF Member
      <3>2. ASSUME NEW k \in 1..(n - 1)
            PROVE  b[k] # h[1] /\ \E j \in 1..n : b[k] = h[j]
        <4>1. k \in 1..n /\ 1 \in 1..n /\ n # 1
          BY <1>1, <1>3, <2>2
        <4> QED
          BY <1>1, <2>2, <4>1
      <3>3. ASSUME NEW j \in 1..n, h[j] # h[1]
            PROVE  \E k \in 1..(n - 1) : b[k] = h[j]
        <4>1. CASE j = n
          BY <2>2, <4>1
        <4>2. CASE j # n
          <5>1. j \in 1..(n - 1) /\ j # 1
            BY <1>1, <3>3, <4>2
          <5> QED
            BY <5>1
        <4> QED
          BY <4>1, <4>2
      <3> HIDE DEF b
      <3>4. ASSUME NEW f, Member(b, f) PROVE Member(h, f) /\ f # h[1]
        <4>1. PICK k \in 1..(n - 1) : b[k] = f
          BY <3>1, <3>4
        <4> QED
          BY <1>1, <3>2, <4>1
      <3>5. ASSUME NEW f, Member(h, f), f # h[1] PROVE Member(b, f)
        <4>1. PICK j \in 1..n : h[j] = f
          BY <1>1, <3>5
        <4> QED
          BY <3>1, <3>3, <3>5, <4>1
      <3> QED
        BY <3>4, <3>5
    <2>7. BelowOrdered(b, d)
      <3> SUFFICES ASSUME NEW k \in 4..(n - 1) PROVE d[b[k \div 2]] <= d[b[k]]
        BY <2>4 DEF BelowOrdered
      <3>1. k \in 4..n /\ k \in 1..(n - 1) /\ k # 1 /\ k \div 2 \in 1..(n - 1) /\ k \div 2 # 1
        BY <1>1
      <3>2. b[k] = h[k] /\ b[k \div 2] = h[k \div 2]
        BY <3>1
      <3> QED
        BY <1>1, <3>1, <3>2
    <2> HIDE DEF b
    <2>8. Len(b) >= 1
      BY <2>2, <2>4
    <2>9. /\ heapAdjust(b, d) \in Seq(F) /\ Len(heapAdjust(b, d)) = Len(b)
          /\ DistinctMembers(heapAdjust(b, d))
          /\ \A f : Member(heapAdjust(b, d), f) <=> Member(b, f)
      BY <2>4, <2>5, <2>8, AdjustPermutes
    <2>10. Ordered(heapAdjust(b, d), d)
      BY <2>4, <2>7, <2>8, AdjustOrders
    <2> QED
      BY <2>1, <2>4, <2>6, <2>9, <2>10 DEF n
  <1> QED
    BY <1>2, <1>3

(* The root of a heap has the least document.                              *)
LEMMA RootIsLeast ==
    ASSUME NEW F, NEW h \in Seq(F), NEW d \in [F -> Nat], Ordered(h, d)
    PROVE  \A k \in 1..Len(h) : d[h[1]] <= d[h[k]]
  <1> DEFINE n == Len(h)
             D(k) == d[h[k]]
             T == {k \in 1..n : ~(D(1) <= D(k))}
  <1>1. n \in Nat /\ \A k \in 1..n : D(k) \in Nat
    BY LenProperties, ElementOfSeq
  <1>2. \A k \in 2..n : D(k \div 2) <= D(k)
    BY DEF Ordered
  <1> HIDE DEF n, D
  <1>3. T = {}
    <2> SUFFICES ASSUME T # {} PROVE FALSE
      OBVIOUS
    <2>1. T \subseteq Nat
      BY <1>1
    <2>2. PICK m \in T : \A k \in T : m <= k
      BY <2>1, Least
    <2>3. m \in 1..n /\ ~(D(1) <= D(m)) /\ 1 \in 1..n
      BY <1>1
    <2>4. m # 1
      BY <1>1, <2>3
    <2>5. m \in 2..n /\ m \div 2 \in 1..n /\ m \div 2 < m
      BY <1>1, <2>3, <2>4
    <2>6. m \div 2 \notin T
      BY <2>2, <2>5
    <2>7. D(1) <= D(m \div 2) /\ D(m \div 2) <= D(m)
      BY <1>2, <2>5, <2>6
    <2> QED
      BY <1>1, <2>3, <2>5, <2>7
  <1> QED
    BY <1>3 DEF n, D

--------------------------------------------------------------------------------
(* What an iterator answers: the first of the documents that come into     *)
(* question, and the end if there is none.                                 *)
LEMMA FirstOf ==
    ASSUME NEW S, S \subseteq Doc
    PROVE  /\ Search!First(S) \in S \cup {NO_MORE_DOCS}
           /\ \A e \in S : Search!First(S) <= e
           /\ \A m \in S \cup {NO_MORE_DOCS} : (\A e \in S : m <= e) => Search!First(S) = m
  <1> DEFINE T == S \cup {NO_MORE_DOCS}
  <1>1. T \subseteq Nat /\ T # {} /\ \A e \in S : e \in Nat /\ e <= NO_MORE_DOCS
    BY MaxDocAssumption DEF Doc, NO_MORE_DOCS
  <1>2. Search!First(S) = CHOOSE m \in T : \A e \in T : m <= e
    BY DEF Search!First
  <1>3. PICK m \in T : \A e \in T : m <= e
    BY <1>1, Least
  <1>4. Search!First(S) \in T /\ \A e \in T : Search!First(S) <= e
    <2> HIDE DEF T
    <2> QED
      BY <1>2, <1>3
  <1>5. ASSUME NEW n \in T, \A e \in S : n <= e PROVE Search!First(S) = n
    <2>1. Search!First(S) <= n /\ n <= Search!First(S)
      BY <1>1, <1>4, <1>5
    <2> QED
      BY <1>1, <1>4, <2>1
  <1> QED
    BY <1>4, <1>5

(* The documents that may answer the call r of an iterator over S at c.    *)
Coming(S, c, r) == {e \in S : e > c /\ e >= r.target}

Call == [op : {"nextDoc", "Advance"}, target : Nat]

(* nextDoc and Advance answer with the first of them.                      *)
LEMMA AnswerOf ==
    ASSUME NEW S, S \subseteq Doc, NEW c \in Nat, NEW r \in Call, r.op = "nextDoc" => r.target = 0
    PROVE  Search!Answer(S, c, r) = Search!First(Coming(S, c, r)) /\ Coming(S, c, r) \subseteq Doc
  <1>1. CASE r.op = "nextDoc"
    <2>1. Coming(S, c, r) = {e \in S : e > c}
      <3>1. r.target = 0 /\ \A e \in S : e >= 0
        BY <1>1, MaxDocAssumption DEF Doc
      <3> QED
        BY <3>1 DEF Coming
    <2> QED
      BY <1>1, <2>1 DEF Search!Answer, Search!Beyond
  <1>2. CASE r.op # "nextDoc"
    BY <1>2 DEF Search!Answer, Search!BeyondFrom, Coming
  <1> QED
    BY <1>1, <1>2

--------------------------------------------------------------------------------
(* The invariant of one LazyOrSetIterator: the fields in the heap are      *)
(* those whose iterators are not at the end, each with the document its    *)
(* iterator is at; no document that may still answer the call has been     *)
(* passed; and the root is where the last call left it, or not far enough  *)
(* yet for this one.                                                       *)

NotThere(c, r, top) == IF r.op = "nextDoc" THEN top <= c ELSE top < r.target

HeapPart(S, p, h, id) ==
    /\ p \in [1..Len(S) -> 0..NO_MORE_DOCS] /\ id \in [1..Len(S) -> 0..MaxDoc]
    /\ h \in Seq(1..Len(S)) /\ DistinctMembers(h) /\ Ordered(h, id)
    /\ \A f \in 1..Len(S) :
          IF Member(h, f) THEN p[f] = id[f] /\ p[f] \in S[f] \cup {0} ELSE p[f] = NO_MORE_DOCS

CallPart(S, h, c, r) ==
    /\ c \in 0..NO_MORE_DOCS
    /\ c = NO_MORE_DOCS <=> Len(h) = 0
    /\ c \in {0, NO_MORE_DOCS} \/ \E f \in 1..Len(S) : c \in S[f]
    /\ r = NoRequest \/ (r \in Call /\ IF r.op = "nextDoc" THEN r.target = 0 ELSE r.target > c)

NotPassed(S, p, c, r) == \A f \in 1..Len(S) : \A e \in Coming(S[f], c, r) : e >= p[f]

RootPart(h, id, c, r) ==
    Len(h) # 0 => IF r = NoRequest THEN id[h[1]] = c ELSE NotThere(c, r, id[h[1]])

OrOK(S, p, h, id, c, r) ==
    HeapPart(S, p, h, id) /\ CallPart(S, h, c, r) /\ NotPassed(S, p, c, r) /\ RootPart(h, id, c, r)

(* The documents and the heap after the iterator of the root answered d.   *)
DocsAfter(h, id, d) == [id EXCEPT ![h[1]] = IF d = NO_MORE_DOCS THEN @ ELSE d]
HeapAfter(h, id, d) ==
    IF d = NO_MORE_DOCS THEN heapRemoveRoot(h, DocsAfter(h, id, d)) ELSE heapAdjust(h, DocsAfter(h, id, d))

(* The heap after a round.                                                 *)
LEMMA RoundHeap ==
    ASSUME NEW S \in Seq(SUBSET Doc), NEW p, NEW h, NEW id, HeapPart(S, p, h, id), Len(h) >= 1,
           NEW d \in S[h[1]] \cup {NO_MORE_DOCS}
    PROVE  HeapPart(S, [p EXCEPT ![h[1]] = d], HeapAfter(h, id, d), DocsAfter(h, id, d))
  <1> DEFINE F == 1..Len(S)
             g == h[1]
             docs == DocsAfter(h, id, d)
             H == HeapAfter(h, id, d)
             q == [p EXCEPT ![g] = d]
  <1>1. /\ Len(S) \in Nat /\ \A f \in F : S[f] \subseteq Doc
        /\ Len(h) \in Nat /\ 1 \in 1..Len(h) /\ \A k \in 1..Len(h) : h[k] \in F
    BY LenProperties, ElementOfSeq DEF HeapPart
  <1>2. g \in F /\ d \in 0..NO_MORE_DOCS /\ (d # NO_MORE_DOCS => d \in 0..MaxDoc /\ d \in S[g])
    BY <1>1, MaxDocAssumption DEF Doc, NO_MORE_DOCS
  <1>3. docs \in [F -> 0..MaxDoc] /\ q \in [F -> 0..NO_MORE_DOCS]
    BY <1>2 DEF HeapPart, DocsAfter
  <1>4. /\ \A f \in F \ {g} : docs[f] = id[f] /\ q[f] = p[f]
        /\ docs[g] = IF d = NO_MORE_DOCS THEN id[g] ELSE d
        /\ q[g] = d
    BY <1>2 DEF HeapPart, DocsAfter
  <1>5. docs \in [F -> Nat] /\ h \in Seq(F) /\ DistinctMembers(h)
    BY <1>3, MaxDocAssumption DEF HeapPart
  <1>6. BelowOrdered(h, docs)
    <2> SUFFICES ASSUME NEW k \in 4..Len(h) PROVE docs[h[k \div 2]] <= docs[h[k]]
      BY DEF BelowOrdered
    <2>1. k \in 2..Len(h) /\ k \in 1..Len(h) /\ k \div 2 \in 1..Len(h) /\ k # 1 /\ k \div 2 # 1
      BY <1>1
    <2>2. h[k] \in F \ {g} /\ h[k \div 2] \in F \ {g}
      BY <1>1, <2>1 DEF HeapPart, DistinctMembers
    <2>3. id[h[k \div 2]] <= id[h[k]]
      BY <2>1 DEF HeapPart, Ordered
    <2> QED
      BY <1>4, <2>2, <2>3
  <1> HIDE DEF docs, q, F
  <1>7. /\ H \in Seq(F) /\ DistinctMembers(H) /\ Ordered(H, docs)
        /\ \A f : Member(H, f) <=> Member(h, f) /\ (d = NO_MORE_DOCS => f # g)
    <2>1. CASE d = NO_MORE_DOCS
      BY <1>5, <1>6, <2>1, RemoveRoot DEF HeapAfter, docs
    <2>2. CASE d # NO_MORE_DOCS
      BY <1>5, <1>6, <2>2, AdjustPermutes, AdjustOrders DEF HeapAfter, docs
    <2> QED
      BY <2>1, <2>2
  <1>8. Member(h, g)
    BY <1>1 DEF Member
  <1>9. ASSUME NEW f \in F
        PROVE  IF Member(H, f) THEN q[f] = docs[f] /\ q[f] \in S[f] \cup {0} ELSE q[f] = NO_MORE_DOCS
    <2>1. IF Member(h, f) THEN p[f] = id[f] /\ p[f] \in S[f] \cup {0} ELSE p[f] = NO_MORE_DOCS
      BY DEF HeapPart, F
    <2>2. CASE f # g
      BY <1>4, <1>7, <2>1, <2>2
    <2>3. CASE f = g
      BY <1>2, <1>4, <1>7, <1>8, <2>3
    <2> QED
      BY <2>2, <2>3
  <1> QED
    BY <1>3, <1>7, <1>9 DEF HeapPart, F, docs, q

(* One round of nextDoc or Advance of the LazyOrSet.  The iterator of the  *)
(* root is not at its end and answers d.  The call goes on, or it ends at  *)
(* a document of one of the fields, or at the end, before which no         *)
(* document of any field may answer it.                                    *)
LEMMA Round ==
    ASSUME NEW S \in Seq(SUBSET Doc), NEW p, NEW h, NEW id, NEW c, NEW r,
           OrOK(S, p, h, id, c, r), r # NoRequest, c # NO_MORE_DOCS,
           NEW d \in Leaf(S[h[1]], p[h[1]], r)
    PROVE  LET q == [p EXCEPT ![h[1]] = d]
               docs == DocsAfter(h, id, d)
               H == HeapAfter(h, id, d)
               stop == IF Len(H) = 0 THEN NO_MORE_DOCS ELSE docs[H[1]]
           IN /\ Len(h) >= 1 /\ H \in Seq(1..Len(S)) /\ docs \in [1..Len(S) -> Nat] /\ r \in Call
              /\ Len(H) # 0 /\ NotThere(c, r, docs[H[1]]) => OrOK(S, q, H, docs, c, r)
              /\ Len(H) = 0 \/ ~NotThere(c, r, docs[H[1]]) =>
                    /\ OrOK(S, q, H, docs, stop, NoRequest)
                    /\ (stop > c /\ stop >= r.target) \/ stop = NO_MORE_DOCS
                    /\ \A f \in 1..Len(S) : \A e \in Coming(S[f], c, r) : e >= stop
  <1> DEFINE F == 1..Len(S)
             g == h[1]
             q == [p EXCEPT ![g] = d]
             docs == DocsAfter(h, id, d)
             H == HeapAfter(h, id, d)
             stop == IF Len(H) = 0 THEN NO_MORE_DOCS ELSE docs[H[1]]
  <1>1. /\ Len(S) \in Nat /\ \A f \in F : S[f] \subseteq Doc
        /\ Len(h) \in Nat /\ Len(h) >= 1 /\ g \in F /\ c \in Nat /\ NO_MORE_DOCS \in Nat
        /\ r \in Call /\ (r.op = "nextDoc" => r.target = 0) /\ (r.op # "nextDoc" => r.target > c)
        /\ r.target \in Nat
    <2>1. Len(S) \in Nat /\ \A f \in F : S[f] \subseteq Doc
      BY LenProperties, ElementOfSeq
    <2>2. Len(h) \in Nat /\ Len(h) # 0
      BY LenProperties DEF OrOK, HeapPart, CallPart
    <2>3. Len(h) >= 1 /\ g \in F
      BY <2>2, ElementOfSeq DEF OrOK, HeapPart
    <2>4. NO_MORE_DOCS \in Nat /\ c \in Nat
      BY MaxDocAssumption DEF NO_MORE_DOCS, OrOK, CallPart
    <2>5. r \in Call /\ (r.op = "nextDoc" => r.target = 0) /\ (r.op # "nextDoc" => r.target > c)
      BY DEF OrOK, CallPart
    <2> QED
      BY <2>1, <2>2, <2>3, <2>4, <2>5 DEF Call
  <1>2. Member(h, g) /\ p[g] = id[g] /\ p[g] \in 0..MaxDoc /\ NotThere(c, r, p[g])
    <2>1. Member(h, g)
      BY <1>1 DEF Member
    <2>2. p[g] = id[g] /\ p[g] \in 0..MaxDoc
      BY <1>1, <2>1 DEF OrOK, HeapPart
    <2> QED
      BY <1>1, <2>1, <2>2 DEF OrOK, RootPart
  <1>3. d = Search!First(Coming(S[g], p[g], r)) /\ Coming(S[g], p[g], r) \subseteq Doc
    <2>1. p[g] # NO_MORE_DOCS /\ p[g] \in Nat
      BY <1>2, MaxDocAssumption DEF NO_MORE_DOCS
    <2>2. d = Search!Answer(S[g], p[g], r)
      BY <2>1 DEF Leaf
    <2>3. S[g] \subseteq Doc
      BY <1>1
    <2> QED
      BY <1>1, <2>1, <2>2, <2>3, AnswerOf
  <1>4. /\ d \in S[g] \cup {NO_MORE_DOCS}
        /\ \A e \in Coming(S[g], p[g], r) : d <= e
    BY <1>3, FirstOf DEF Coming
  <1>5. HeapPart(S, q, H, docs)
    BY <1>1, <1>4, RoundHeap DEF OrOK
  <1>6. NotPassed(S, q, c, r)
    <2> SUFFICES ASSUME NEW f \in F, NEW e \in Coming(S[f], c, r) PROVE e >= q[f]
      BY DEF NotPassed
    <2>1. e \in S[f] /\ e \in Nat /\ e > c /\ e >= r.target
      BY <1>1, MaxDocAssumption DEF Coming, Doc
    <2>2. CASE f # g
      <3>1. q[f] = p[f]
        BY <2>2 DEF OrOK, HeapPart
      <3> QED
        BY <3>1 DEF OrOK, NotPassed
    <2>3. CASE f = g
      <3>1. p[g] < e
        BY <1>1, <1>2, <2>1 DEF NotThere
      <3>2. e \in Coming(S[g], p[g], r)
        BY <2>1, <2>3, <3>1 DEF Coming
      <3>3. q[f] = d /\ d <= e
        BY <1>1, <1>4, <2>3, <3>2 DEF OrOK, HeapPart
      <3>4. d \in Nat
        BY <1>1, <1>4, MaxDocAssumption DEF Doc
      <3> QED
        BY <2>1, <3>3, <3>4
    <2> QED
      BY <2>2, <2>3
  <1>7. Len(H) \in Nat /\ H \in Seq(F) /\ \A k \in 1..Len(H) : H[k] \in F
    BY <1>5, LenProperties, ElementOfSeq DEF HeapPart
  <1>a. docs \in [F -> Nat]
    BY <1>5, MaxDocAssumption DEF HeapPart
  <1> HIDE DEF q, docs, H
  <1>8. ASSUME Len(H) # 0, NotThere(c, r, docs[H[1]])
        PROVE  OrOK(S, q, H, docs, c, r)
    <2>1. CallPart(S, H, c, r)
      BY <1>8 DEF OrOK, CallPart
    <2>2. RootPart(H, docs, c, r)
      BY <1>8 DEF RootPart
    <2> QED
      BY <1>5, <1>6, <2>1, <2>2 DEF OrOK
  <1>9. ASSUME Len(H) = 0 \/ ~NotThere(c, r, docs[H[1]])
        PROVE  /\ OrOK(S, q, H, docs, stop, NoRequest)
               /\ (stop > c /\ stop >= r.target) \/ stop = NO_MORE_DOCS
               /\ \A f \in F : \A e \in Coming(S[f], c, r) : e >= stop
    <2>1. CASE Len(H) = 0
      <3>1. \A f : ~Member(H, f)
        BY <2>1 DEF Member
      <3>2. \A f \in F : q[f] = NO_MORE_DOCS
        BY <1>5, <3>1 DEF HeapPart
      <3>3. stop = NO_MORE_DOCS
        BY <2>1
      <3> HIDE DEF stop
      <3>4. \A f \in F : \A e \in Coming(S[f], c, r) : e >= stop
        BY <1>6, <3>2, <3>3 DEF NotPassed
      <3>5. CallPart(S, H, stop, NoRequest)
        BY <1>1, <2>1, <3>3 DEF CallPart
      <3>6. NotPassed(S, q, stop, NoRequest)
        <4> SUFFICES ASSUME NEW f \in F, NEW e \in Coming(S[f], stop, NoRequest) PROVE FALSE
          BY DEF NotPassed
        <4> QED
          BY <1>1, <3>3, MaxDocAssumption DEF Coming, Doc, NO_MORE_DOCS
      <3>7. RootPart(H, docs, stop, NoRequest)
        BY <2>1 DEF RootPart
      <3> QED
        BY <1>5, <3>3, <3>4, <3>5, <3>6, <3>7 DEF OrOK
    <2>2. CASE Len(H) # 0
      <3> DEFINE f1 == H[1]
      <3>1. f1 \in F /\ stop = docs[f1] /\ 1 \in 1..Len(H) /\ Member(H, f1) /\ ~NotThere(c, r, stop)
        BY <1>7, <1>9, <2>2 DEF Member
      <3> HIDE DEF stop, f1
      <3>2. stop \in 0..MaxDoc /\ stop \in Nat /\ stop # NO_MORE_DOCS /\ stop \in 0..NO_MORE_DOCS
        <4>1. stop \in 0..MaxDoc
          BY <1>5, <3>1 DEF HeapPart
        <4> QED
          BY <4>1, MaxDocAssumption DEF NO_MORE_DOCS
      <3>3. stop > c /\ stop >= r.target
        BY <1>1, <3>1, <3>2 DEF NotThere
      <3>4. stop \in S[f1]
        BY <1>1, <1>5, <3>1, <3>2, <3>3 DEF HeapPart
      <3>5. ASSUME NEW f \in F, NEW e \in Coming(S[f], c, r) PROVE e >= stop
        <4>1. e >= q[f] /\ e \in Doc
          BY <1>1, <1>6 DEF NotPassed, Coming
        <4>2. Member(H, f) /\ q[f] = docs[f]
          <5>1. q[f] # NO_MORE_DOCS
            BY <4>1, MaxDocAssumption DEF Doc, NO_MORE_DOCS
          <5> QED
            BY <1>5, <5>1 DEF HeapPart
        <4>3. PICK k \in 1..Len(H) : H[k] = f
          BY <4>2 DEF Member
        <4>4. docs[H[1]] <= docs[H[k]]
          <5>1. docs \in [F -> Nat] /\ Ordered(H, docs)
            BY <1>5, MaxDocAssumption DEF HeapPart
          <5> QED
            BY <1>7, <5>1, RootIsLeast
        <4>5. stop <= docs[f] /\ docs[f] \in Nat
          BY <1>5, <3>1, <4>3, <4>4 DEF HeapPart, f1
        <4> QED
          BY <3>2, <4>1, <4>2, <4>5, MaxDocAssumption DEF Doc
      <3>6. CallPart(S, H, stop, NoRequest)
        BY <2>2, <3>1, <3>2, <3>4 DEF CallPart
      <3>7. NotPassed(S, q, stop, NoRequest)
        <4> SUFFICES ASSUME NEW f \in F, NEW e \in Coming(S[f], stop, NoRequest) PROVE e >= q[f]
          BY DEF NotPassed
        <4>1. e \in S[f] /\ e > stop /\ e \in Nat
          BY <1>1, MaxDocAssumption DEF Coming, Doc
        <4>2. e \in Coming(S[f], c, r)
          BY <1>1, <3>2, <3>3, <4>1 DEF Coming
        <4> QED
          BY <1>6, <4>2 DEF NotPassed
      <3>8. RootPart(H, docs, stop, NoRequest)
        BY <3>1 DEF RootPart, f1
      <3> QED
        BY <1>5, <3>3, <3>5, <3>6, <3>7, <3>8 DEF OrOK
    <2> QED
      BY <2>1, <2>2
  <1> QED
    BY <1>1, <1>7, <1>8, <1>9, <1>a DEF H, docs, q

--------------------------------------------------------------------------------
(* The invariant of the query.                                             *)

TokenOK(t) == OrOK(sets[t], pos[t], heap[t], itemDoc[t], curDoc[t], orRequest[t])

Shape ==
    /\ sets \in Queries
    /\ pos = [t \in Tokens |-> pos[t]] /\ heap = [t \in Tokens |-> heap[t]]
    /\ itemDoc = [t \in Tokens |-> itemDoc[t]] /\ curDoc = [t \in Tokens |-> curDoc[t]]
    /\ orRequest = [t \in Tokens |-> orRequest[t]]

(* The documents that may answer the call of the LazyAndSet.               *)
Wanted == Coming(Query, lastReturn, request)

(* None of them has been passed by any token, and what a token is asked    *)
(* for does not pass one either.                                           *)
NoneMissed ==
    lastReturn # NO_MORE_DOCS =>
        \A e \in Wanted : \A t \in Tokens :
            /\ e >= curDoc[t]
            /\ orRequest[t] # NoRequest => e > curDoc[t] /\ e >= orRequest[t].target

(* The token is behind the document d, or at its end.                      *)
Behind(t, d) == curDoc[t] < d \/ curDoc[t] = NO_MORE_DOCS
At(t, d) == curDoc[t] = d \/ curDoc[t] = NO_MORE_DOCS

OnlyCalled(T) == \A t \in Tokens \ T : orRequest[t] = NoRequest

Idle ==
    /\ request = NoRequest
    /\ OnlyCalled({})
    /\ lastReturn # NO_MORE_DOCS => \A t \in Tokens : At(t, lastReturn)

Finished ==
    /\ request \in Call /\ (request.op = "nextDoc" => request.target = 0)
    /\ lastReturn = NO_MORE_DOCS
    /\ OnlyCalled({})

(* Inside a call that has not found the end before it began.               *)
Called ==
    /\ request \in Call /\ (request.op = "nextDoc" => request.target = 0)
    /\ lastReturn # NO_MORE_DOCS
    /\ 1 \in Tokens

Lead ==
    /\ Called /\ OnlyCalled({1})
    /\ \A t \in Tokens \ {1} : At(t, lastReturn)
    /\ IF orRequest[1] # NoRequest
       THEN At(1, lastReturn) /\ orRequest[1].target >= request.target
       ELSE curDoc[1] = NO_MORE_DOCS \/ (curDoc[1] > lastReturn /\ curDoc[1] >= request.target)

(* In the loop the tokens before i and the one to skip are at the target,  *)
(* the others behind it.                                                   *)
Target ==
    /\ Called
    /\ target \in Doc /\ target > lastReturn /\ target >= request.target
    /\ i \in Nat \ {0} /\ skip \in Tokens /\ curDoc[skip] = target
    /\ \A t \in Tokens : t < i => curDoc[t] = target
    /\ \A t \in Tokens \ {skip} : t > i => Behind(t, target)

Loop ==
    /\ Target /\ OnlyCalled({})
    /\ i <= Len(sets) + 1
    /\ i \in Tokens \ {skip} => Behind(i, target)

Advanced ==
    /\ Target /\ OnlyCalled({i})
    /\ i \in Tokens \ {skip}
    /\ IF orRequest[i] # NoRequest
       THEN Behind(i, target) /\ orRequest[i].target >= target
       ELSE curDoc[i] >= target

AndOK ==
    /\ lastReturn \in 0..NO_MORE_DOCS
    /\ pc \in {"idle", "finished", "lead", "loop", "advanced"}
    /\ pc = "idle" => Idle
    /\ pc = "finished" => Finished
    /\ pc = "lead" => Lead
    /\ pc = "loop" => Loop
    /\ pc = "advanced" => Advanced
    /\ Tokens = {} => lastReturn = NO_MORE_DOCS

QueryInv ==
    /\ Shape
    /\ \A t \in Tokens : TokenOK(t)
    /\ NoneMissed
    /\ AndOK

(* What is used of the query everywhere.                                   *)
LEMMA Basics ==
    ASSUME QueryInv
    PROVE  /\ sets \in Seq(Seq(SUBSET Doc)) /\ Len(sets) \in Nat
           /\ \A t \in Tokens : sets[t] \in Seq(SUBSET Doc) /\ t \in Nat \ {0}
           /\ \A t \in Tokens : curDoc[t] \in 0..NO_MORE_DOCS
           /\ NO_MORE_DOCS \in Nat /\ \A e \in Doc : e \in Nat /\ e < NO_MORE_DOCS /\ e > 0
           /\ Query \subseteq Doc
           /\ lastReturn \in 0..NO_MORE_DOCS
  <1>1. sets \in Seq(Seq(SUBSET Doc))
    BY QueriesAssumption DEF QueryInv, Shape
  <1>2. Len(sets) \in Nat /\ \A t \in Tokens : sets[t] \in Seq(SUBSET Doc) /\ t \in Nat \ {0}
    BY <1>1, LenProperties, ElementOfSeq DEF Tokens
  <1>3. \A t \in Tokens : curDoc[t] \in 0..NO_MORE_DOCS
    BY DEF QueryInv, TokenOK, OrOK, CallPart
  <1>4. NO_MORE_DOCS \in Nat /\ \A e \in Doc : e \in Nat /\ e < NO_MORE_DOCS /\ e > 0
    BY MaxDocAssumption DEF NO_MORE_DOCS, Doc
  <1> QED
    BY <1>1, <1>2, <1>3, <1>4 DEF Query, QueryInv, AndOK

(* A document of the query is in one of the fields of every token.         *)
LEMMA InEveryToken ==
    ASSUME NEW e \in Query, NEW t \in Tokens
    PROVE  \E f \in 1..Len(sets[t]) : e \in sets[t][f]
  BY DEF Query, Fields

(* Init establishes the invariant.                                         *)
LEMMA InitQuery == Init => QueryInv
  <1> SUFFICES ASSUME Init PROVE QueryInv
    OBVIOUS
  <1> USE DEF Init
  <1>1. sets \in Seq(Seq(SUBSET Doc)) /\ Len(sets) \in Nat
    BY QueriesAssumption, LenProperties
  <1>2. \A t \in Tokens : sets[t] \in Seq(SUBSET Doc) /\ Len(sets[t]) \in Nat
    BY <1>1, LenProperties, ElementOfSeq DEF Tokens
  <1>3. NO_MORE_DOCS \in Nat \ {0} /\ \A e \in Doc : e \in Nat /\ e < NO_MORE_DOCS /\ e > 0
    BY MaxDocAssumption DEF NO_MORE_DOCS, Doc
  <1>4. Shape
    BY DEF Shape
  <1>5. ASSUME NEW t \in Tokens PROVE TokenOK(t)
    <2> DEFINE n == Len(sets[t])
               h == [f \in 1..n |-> f]
               z == [f \in 1..n |-> 0]
               c == IF 1..n = {} THEN NO_MORE_DOCS ELSE 0
    <2>1. pos[t] = z /\ heap[t] = h /\ itemDoc[t] = z /\ curDoc[t] = c /\ orRequest[t] = NoRequest
      BY DEF Fields
    <2>2. n \in Nat /\ (1..n = {} <=> n = 0) /\ \A f \in 1..n : sets[t][f] \subseteq Doc
      <3>1. n \in Nat
        BY <1>2
      <3>2. \A f \in 1..n : sets[t][f] \subseteq Doc
        BY <1>2, ElementOfSeq
      <3> HIDE DEF n
      <3>3. n # 0 => 1 \in 1..n
        BY <3>1
      <3>4. n = 0 => 1..n = {}
        BY <3>1
      <3> QED
        BY <3>1, <3>2, <3>3, <3>4
    <2> HIDE DEF n
    <2>3. h \in Seq(1..n) /\ DOMAIN h = 1..n
      BY <2>2, IsASeq
    <2>4. Len(h) = n /\ \A k \in 1..n : h[k] = k
      BY <2>2, <2>3, LenProperties
    <2>5. DistinctMembers(h) /\ \A f \in 1..n : Member(h, f)
      <3> HIDE DEF h
      <3> QED
        BY <2>4 DEF DistinctMembers, Member
    <2>6. Ordered(h, z)
      <3> SUFFICES ASSUME NEW k \in 2..n PROVE z[h[k \div 2]] <= z[h[k]]
        BY <2>4 DEF Ordered
      <3>1. k \in 1..n /\ k \div 2 \in 1..n
        BY <2>2
      <3> QED
        BY <2>4, <3>1
    <2>7. z \in [1..n -> 0..NO_MORE_DOCS] /\ z \in [1..n -> 0..MaxDoc]
      BY <1>3, MaxDocAssumption
    <2>8. HeapPart(sets[t], z, h, z)
      <3> HIDE DEF h
      <3> QED
        BY <2>3, <2>5, <2>6, <2>7 DEF HeapPart, n
    <2>9. CallPart(sets[t], h, c, NoRequest)
      <3> HIDE DEF h
      <3>1. c \in 0..NO_MORE_DOCS /\ c \in {0, NO_MORE_DOCS} /\ (c = NO_MORE_DOCS <=> Len(h) = 0)
        <4>1. CASE n = 0
          <5>1. c = NO_MORE_DOCS
            BY <2>2, <4>1
          <5> HIDE DEF c
          <5> QED
            BY <1>3, <2>4, <4>1, <5>1
        <4>2. CASE n # 0
          <5>1. c = 0
            BY <2>2, <4>2
          <5> HIDE DEF c
          <5> QED
            BY <1>3, <2>4, <4>2, <5>1
        <4> QED
          BY <4>1, <4>2
      <3> QED
        BY <3>1 DEF CallPart
    <2>10. NotPassed(sets[t], z, c, NoRequest)
      <3> SUFFICES ASSUME NEW f \in 1..n, NEW e \in sets[t][f] PROVE e >= z[f]
        BY DEF NotPassed, Coming, n
      <3> QED
        BY <1>3, <2>2
    <2>11. RootPart(h, z, c, NoRequest)
      <3> SUFFICES ASSUME n # 0 PROVE z[h[1]] = c
        BY <2>4 DEF RootPart
      <3>1. 1 \in 1..n /\ c = 0
        BY <2>2
      <3> QED
        BY <3>1
    <2> QED
      BY <2>1, <2>8, <2>9, <2>10, <2>11 DEF TokenOK, OrOK
  <1>6. \A t \in Tokens : orRequest[t] = NoRequest /\ curDoc[t] \in {0, NO_MORE_DOCS}
                          /\ (curDoc[t] = NO_MORE_DOCS => Fields(t) = {})
    BY <1>3
  <1>7. NoneMissed
    <2> SUFFICES ASSUME NEW e \in Query, NEW t \in Tokens PROVE e >= curDoc[t]
      BY <1>6 DEF NoneMissed, Wanted, Coming
    <2>1. e \in Doc /\ Fields(t) # {}
      BY DEF Query
    <2> QED
      BY <1>3, <1>6, <2>1
  <1>8. AndOK
    <2>1. Idle
      BY <1>6 DEF Idle, OnlyCalled, At
    <2> QED
      BY <1>3, <2>1 DEF AndOK
  <1> QED
    BY <1>4, <1>5, <1>7, <1>8 DEF QueryInv

(* A step of the tokens in T touches no other token.                       *)
LEMMA OtherTokens ==
    ASSUME QueryInv, sets' = sets, NEW u \in Tokens,
           pos'[u] = pos[u], heap'[u] = heap[u], itemDoc'[u] = itemDoc[u],
           curDoc'[u] = curDoc[u], orRequest'[u] = orRequest[u]
    PROVE  TokenOK(u)'
  BY DEF QueryInv, TokenOK

(* nextDoc or Advance of a LazyOrSet begins: no document it may answer     *)
(* with has been passed, and the root is not there yet.                    *)
LEMMA CallOrOK ==
    ASSUME QueryInv, NEW t \in Tokens, orRequest[t] = NoRequest,
           NEW op \in {"nextDoc", "Advance"}, NEW d \in Nat, op = "nextDoc" => d = 0,
           CallOr(t, op, d), UNCHANGED <<leaves, heap, itemDoc, curDoc>>
    PROVE  LET r == [op |-> op, target |-> IF op = "Advance" /\ d <= curDoc[t] THEN curDoc[t] + 1 ELSE d]
           IN /\ Shape' /\ \A u \in Tokens : TokenOK(u)'
              /\ orRequest'[t] = r /\ r # NoRequest /\ r \in Call /\ r.target >= d
              /\ d > curDoc[t] => r.target = d
              /\ \A u \in Tokens \ {t} : orRequest'[u] = orRequest[u]
  <1> DEFINE r == [op |-> op, target |-> IF op = "Advance" /\ d <= curDoc[t] THEN curDoc[t] + 1 ELSE d]
  <1>1. curDoc[t] \in Nat /\ sets[t] \in Seq(SUBSET Doc)
    BY Basics
  <1>2. /\ r \in Call /\ r.target >= d /\ (d > curDoc[t] => r.target = d)
        /\ IF r.op = "nextDoc" THEN r.target = 0 ELSE r.target > curDoc[t]
    BY <1>1 DEF Call
  <1>3. r # NoRequest
    BY DEF NoRequest, Search!NoRequest
  <1>4. orRequest' = [orRequest EXCEPT ![t] = r]
    BY DEF CallOr
  <1> HIDE DEF r
  <1>5. /\ Shape' /\ orRequest'[t] = r /\ \A u \in Tokens \ {t} : orRequest'[u] = orRequest[u]
    BY <1>4 DEF QueryInv, Shape, leaves, Tokens
  <1>6. TokenOK(t)'
    <2>1. HeapPart(sets[t], pos[t], heap[t], itemDoc[t]) /\ CallPart(sets[t], heap[t], curDoc[t], r)
      BY <1>2 DEF QueryInv, TokenOK, OrOK, CallPart
    <2>2. NotPassed(sets[t], pos[t], curDoc[t], r)
      <3>1. \A f \in 1..Len(sets[t]) : \A e \in Coming(sets[t][f], curDoc[t], NoRequest) : e >= pos[t][f]
        BY DEF QueryInv, TokenOK, OrOK, NotPassed
      <3>2. ASSUME NEW f \in 1..Len(sets[t]), NEW e \in Coming(sets[t][f], curDoc[t], r)
            PROVE  e \in Coming(sets[t][f], curDoc[t], NoRequest)
        <4>1. e \in Doc /\ e >= 0 /\ NoRequest.target = 0
          BY <1>1, ElementOfSeq, MaxDocAssumption DEF Coming, Doc, NoRequest, Search!NoRequest
        <4> QED
          BY <4>1 DEF Coming
      <3> QED
        BY <3>1, <3>2 DEF NotPassed
    <2>3. RootPart(heap[t], itemDoc[t], curDoc[t], r)
      <3>1. Len(heap[t]) # 0 => itemDoc[t][heap[t][1]] = curDoc[t]
        BY DEF QueryInv, TokenOK, OrOK, RootPart
      <3>2. NotThere(curDoc[t], r, curDoc[t])
        BY <1>1, <1>2 DEF NotThere, Call
      <3> QED
        BY <1>3, <3>1, <3>2 DEF RootPart
    <2> QED
      BY <1>5, <2>1, <2>2, <2>3 DEF TokenOK, OrOK, leaves
  <1>7. ASSUME NEW u \in Tokens, u # t PROVE TokenOK(u)'
    BY <1>5, <1>7, OtherTokens DEF leaves
  <1> QED
    BY <1>2, <1>3, <1>5, <1>6, <1>7 DEF r

(* What a LazyOrSetIterator does of itself: a round that goes on, or one   *)
(* that answers, or the early return at the end.  It never goes back, and  *)
(* never beyond a document that may answer the call.                       *)
LEMMA OrStep ==
    ASSUME QueryInv, NEW t \in Tokens, OrRound(t) \/ OrFinished(t)
    PROVE  /\ Shape' /\ \A u \in Tokens : TokenOK(u)'
           /\ orRequest[t] # NoRequest
           /\ \A u \in Tokens \ {t} : curDoc'[u] = curDoc[u] /\ orRequest'[u] = orRequest[u]
           /\ \/ curDoc'[t] = curDoc[t] /\ orRequest'[t] = orRequest[t]
              \/ /\ orRequest'[t] = NoRequest
                 /\ curDoc'[t] \in 0..NO_MORE_DOCS
                 /\ curDoc'[t] = NO_MORE_DOCS \/
                       (curDoc'[t] > curDoc[t] /\ curDoc'[t] >= orRequest[t].target)
                 /\ curDoc[t] # NO_MORE_DOCS =>
                       \A f \in 1..Len(sets[t]) :
                           \A e \in Coming(sets[t][f], curDoc[t], orRequest[t]) : e >= curDoc'[t]
                 /\ curDoc[t] = NO_MORE_DOCS => curDoc'[t] = NO_MORE_DOCS
  <1> DEFINE S == sets[t]
             p == pos[t]
             h == heap[t]
             id == itemDoc[t]
             c == curDoc[t]
             r == orRequest[t]
  <1>1. S \in Seq(SUBSET Doc) /\ OrOK(S, p, h, id, c, r) /\ c \in 0..NO_MORE_DOCS
    BY Basics DEF QueryInv, TokenOK
  <1>2. CASE OrRound(t)
    <2> DEFINE q(d) == [p EXCEPT ![h[1]] = d]
               docs(d) == DocsAfter(h, id, d)
               H(d) == HeapAfter(h, id, d)
               stop(d) == IF Len(H(d)) = 0 THEN NO_MORE_DOCS ELSE docs(d)[H(d)[1]]
    <2>1. r # NoRequest /\ c # NO_MORE_DOCS /\ sets' = sets
      BY <1>2 DEF OrRound
    <2>2. Head(h) = h[1]
      BY <1>1, <2>1 DEF OrOK, HeapPart, CallPart
    <2> DEFINE After(f, d, D, G) ==
             /\ pos' = [pos EXCEPT ![t][f] = d]
             /\ itemDoc' = [itemDoc EXCEPT ![t] = D]
             /\ heap' = [heap EXCEPT ![t] = G]
             /\ \/ /\ G = <<>>
                   /\ curDoc' = [curDoc EXCEPT ![t] = NO_MORE_DOCS]
                   /\ orRequest' = [orRequest EXCEPT ![t] = NoRequest]
                \/ /\ G # <<>>
                   /\ Reached(t, D[Head(G)])
                   /\ curDoc' = [curDoc EXCEPT ![t] = D[Head(G)]]
                   /\ orRequest' = [orRequest EXCEPT ![t] = NoRequest]
                \/ /\ G # <<>>
                   /\ ~Reached(t, D[Head(G)])
                   /\ UNCHANGED <<curDoc, orRequest>>
               Answered(f) ==
                  \E d \in Leaf(S[f], p[f], r) :
                  \E D \in {[id EXCEPT ![f] = IF d = NO_MORE_DOCS THEN @ ELSE d]} :
                  \E G \in {IF d = NO_MORE_DOCS THEN heapRemoveRoot(h, D) ELSE heapAdjust(h, D)} :
                     After(f, d, D, G)
    <2>a. Answered(h[1])
      <3>1. Answered(Head(h))
        BY <1>2 DEF OrRound
      <3> HIDE DEF Answered
      <3> QED
        BY <2>2, <3>1
    <2>b. PICK d \in Leaf(S[h[1]], p[h[1]], r) : After(h[1], d, docs(d), H(d))
      <3> HIDE DEF After
      <3> QED
        BY <2>a DEF DocsAfter, HeapAfter
    <2>3. /\ pos' = [pos EXCEPT ![t][h[1]] = d]
          /\ itemDoc' = [itemDoc EXCEPT ![t] = docs(d)]
          /\ heap' = [heap EXCEPT ![t] = H(d)]
          /\ \/ /\ H(d) = <<>>
                /\ curDoc' = [curDoc EXCEPT ![t] = NO_MORE_DOCS]
                /\ orRequest' = [orRequest EXCEPT ![t] = NoRequest]
             \/ /\ H(d) # <<>>
                /\ Reached(t, docs(d)[Head(H(d))])
                /\ curDoc' = [curDoc EXCEPT ![t] = docs(d)[Head(H(d))]]
                /\ orRequest' = [orRequest EXCEPT ![t] = NoRequest]
             \/ /\ H(d) # <<>>
                /\ ~Reached(t, docs(d)[Head(H(d))])
                /\ UNCHANGED <<curDoc, orRequest>>
      BY <2>b
    <2>4. /\ Len(h) >= 1 /\ H(d) \in Seq(1..Len(S)) /\ docs(d) \in [1..Len(S) -> Nat] /\ r \in Call
          /\ Len(H(d)) # 0 /\ NotThere(c, r, docs(d)[H(d)[1]]) => OrOK(S, q(d), H(d), docs(d), c, r)
          /\ Len(H(d)) = 0 \/ ~NotThere(c, r, docs(d)[H(d)[1]]) =>
                /\ OrOK(S, q(d), H(d), docs(d), stop(d), NoRequest)
                /\ (stop(d) > c /\ stop(d) >= r.target) \/ stop(d) = NO_MORE_DOCS
                /\ \A f \in 1..Len(S) : \A e \in Coming(S[f], c, r) : e >= stop(d)
      BY <1>1, <2>1, Round
    <2>5. /\ pos'[t] = q(d) /\ itemDoc'[t] = docs(d) /\ heap'[t] = H(d)
          /\ \A u \in Tokens \ {t} : pos'[u] = pos[u] /\ itemDoc'[u] = itemDoc[u] /\ heap'[u] = heap[u]
          /\ pos' = [u \in Tokens |-> pos'[u]] /\ itemDoc' = [u \in Tokens |-> itemDoc'[u]]
          /\ heap' = [u \in Tokens |-> heap'[u]]
      BY <2>3 DEF QueryInv, Shape
    <2>6. H(d) # <<>> <=> Len(H(d)) # 0
      BY <2>4, EmptySeq
    <2>7. H(d) # <<>> => Head(H(d)) = H(d)[1]
      BY <2>4
    <2> HIDE DEF q, docs, H
    <2>8. ASSUME H(d) # <<>>
          PROVE  /\ docs(d)[H(d)[1]] \in Nat
                 /\ Reached(t, docs(d)[H(d)[1]]) <=> ~NotThere(c, r, docs(d)[H(d)[1]])
      <3>1. H(d)[1] \in 1..Len(S)
        <4>1. Len(H(d)) \in Nat
          BY <2>4, LenProperties
        <4>2. 1 \in 1..Len(H(d))
          BY <2>6, <2>8, <4>1
        <4> QED
          BY <2>4, <4>2, ElementOfSeq
      <3>2. docs(d)[H(d)[1]] \in Nat
        BY <2>4, <3>1
      <3> QED
        BY <1>1, <2>4, <3>2, MaxDocAssumption DEF Reached, NotThere, Call, NO_MORE_DOCS
    <2>9. curDoc = [u \in Tokens |-> curDoc[u]] /\ orRequest = [u \in Tokens |-> orRequest[u]]
      BY DEF QueryInv, Shape
    <2>10. CASE H(d) # <<>> /\ ~Reached(t, docs(d)[H(d)[1]])
      <3>1. UNCHANGED <<curDoc, orRequest>>
        BY <2>3, <2>7, <2>10
      <3>2. TokenOK(t)'
        BY <2>1, <2>4, <2>5, <2>6, <2>8, <2>10, <3>1 DEF TokenOK
      <3>3. Shape'
        BY <2>1, <2>5, <3>1 DEF QueryInv, Shape, Tokens
      <3>4. ASSUME NEW u \in Tokens, u # t PROVE TokenOK(u)'
        BY <2>1, <2>5, <3>1, <3>4, OtherTokens
      <3> QED
        BY <2>1, <3>1, <3>2, <3>3, <3>4
    <2>11. CASE H(d) = <<>> \/ Reached(t, docs(d)[H(d)[1]])
      <3>1. /\ orRequest' = [orRequest EXCEPT ![t] = NoRequest]
            /\ curDoc' = [curDoc EXCEPT ![t] = stop(d)]
        BY <2>3, <2>6, <2>7, <2>11
      <3>2. /\ OrOK(S, q(d), H(d), docs(d), stop(d), NoRequest)
            /\ (stop(d) > c /\ stop(d) >= r.target) \/ stop(d) = NO_MORE_DOCS
            /\ \A f \in 1..Len(S) : \A e \in Coming(S[f], c, r) : e >= stop(d)
        BY <2>4, <2>6, <2>8, <2>11
      <3> HIDE DEF stop
      <3>3. /\ orRequest'[t] = NoRequest /\ curDoc'[t] = stop(d)
            /\ \A u \in Tokens \ {t} : curDoc'[u] = curDoc[u] /\ orRequest'[u] = orRequest[u]
            /\ curDoc' = [u \in Tokens |-> curDoc'[u]] /\ orRequest' = [u \in Tokens |-> orRequest'[u]]
        BY <2>9, <3>1
      <3>4. TokenOK(t)' /\ stop(d) \in 0..NO_MORE_DOCS
        BY <2>1, <2>5, <3>2, <3>3 DEF TokenOK, OrOK, CallPart
      <3>5. Shape'
        BY <2>1, <2>5, <3>3 DEF QueryInv, Shape, Tokens
      <3>6. ASSUME NEW u \in Tokens, u # t PROVE TokenOK(u)'
        BY <2>1, <2>5, <3>3, <3>6, OtherTokens
      <3> QED
        BY <2>1, <3>2, <3>3, <3>4, <3>5, <3>6
    <2> QED
      BY <2>10, <2>11
  <1>3. CASE OrFinished(t)
    <2>1. /\ r # NoRequest /\ c = NO_MORE_DOCS
          /\ orRequest' = [orRequest EXCEPT ![t] = NoRequest]
          /\ UNCHANGED <<sets, pos, heap, itemDoc, curDoc>>
      BY <1>3 DEF OrFinished, leaves
    <2>2. /\ orRequest'[t] = NoRequest /\ \A u \in Tokens \ {t} : orRequest'[u] = orRequest[u]
          /\ Shape'
      BY <2>1 DEF QueryInv, Shape, Tokens
    <2>3. OrOK(S, p, h, id, c, NoRequest)
      <3>1. HeapPart(S, p, h, id) /\ CallPart(S, h, c, NoRequest) /\ RootPart(h, id, c, NoRequest)
        BY <1>1, <2>1 DEF OrOK, CallPart, RootPart
      <3>2. NotPassed(S, p, c, NoRequest)
        <4> SUFFICES ASSUME NEW f \in 1..Len(S), NEW e \in Coming(S[f], c, NoRequest) PROVE FALSE
          BY DEF NotPassed
        <4>1. S[f] \subseteq Doc
          BY <1>1, ElementOfSeq
        <4> QED
          BY <2>1, <4>1, MaxDocAssumption DEF Coming, Doc, NO_MORE_DOCS
      <3> QED
        BY <3>1, <3>2 DEF OrOK
    <2>4. TokenOK(t)'
      BY <2>1, <2>2, <2>3 DEF TokenOK
    <2>5. ASSUME NEW u \in Tokens, u # t PROVE TokenOK(u)'
      BY <2>1, <2>2, <2>5, OtherTokens
    <2> QED
      BY <1>1, <2>1, <2>2, <2>4, <2>5
  <1> QED
    BY <1>2, <1>3

--------------------------------------------------------------------------------
(* The query is the same for ever.                                         *)
LEMMA SameQuery ==
    ASSUME sets' = sets
    PROVE  Query' = Query /\ Tokens' = Tokens
  BY DEF Query, Tokens, Fields

(* The calls a LazyOrSetIterator is in have targets.                       *)
LEMMA CallTarget ==
    ASSUME QueryInv, NEW t \in Tokens, orRequest[t] # NoRequest
    PROVE  orRequest[t] \in Call /\ orRequest[t].target \in Nat
  BY DEF QueryInv, TokenOK, OrOK, CallPart, Call

(* A step of a LazyOrSetIterator below the LazyAndSetIterator.             *)
LEMMA OrStepQuery ==
    ASSUME QueryInv, NEW t \in Tokens, OrRound(t) \/ OrFinished(t)
    PROVE  QueryInv' /\ UNCHANGED <<sets, lastReturn, request>>
  <1>1. UNCHANGED <<sets, lastReturn, request, pc, target, i, skip>>
    BY DEF OrRound, OrFinished, leaves, andVars
  <1>2. Query' = Query /\ Tokens' = Tokens /\ Wanted' = Wanted
    BY <1>1, SameQuery DEF Wanted, Coming
  <1>3. /\ Shape' /\ \A u \in Tokens : TokenOK(u)'
        /\ orRequest[t] # NoRequest
        /\ \A u \in Tokens \ {t} : curDoc'[u] = curDoc[u] /\ orRequest'[u] = orRequest[u]
        /\ \/ curDoc'[t] = curDoc[t] /\ orRequest'[t] = orRequest[t]
           \/ /\ orRequest'[t] = NoRequest
              /\ curDoc'[t] \in 0..NO_MORE_DOCS
              /\ curDoc'[t] = NO_MORE_DOCS \/
                    (curDoc'[t] > curDoc[t] /\ curDoc'[t] >= orRequest[t].target)
              /\ curDoc[t] # NO_MORE_DOCS =>
                    \A f \in 1..Len(sets[t]) :
                        \A e \in Coming(sets[t][f], curDoc[t], orRequest[t]) : e >= curDoc'[t]
              /\ curDoc[t] = NO_MORE_DOCS => curDoc'[t] = NO_MORE_DOCS
    BY OrStep
  <1>4. NoneMissed'
    <2> SUFFICES ASSUME lastReturn # NO_MORE_DOCS, NEW e \in Wanted, NEW u \in Tokens
                 PROVE  /\ e >= curDoc'[u]
                        /\ orRequest'[u] # NoRequest => e > curDoc'[u] /\ e >= orRequest'[u].target
      BY <1>1, <1>2 DEF NoneMissed
    <2>1. /\ e >= curDoc[u]
          /\ orRequest[u] # NoRequest => e > curDoc[u] /\ e >= orRequest[u].target
      BY DEF QueryInv, NoneMissed
    <2>2. CASE curDoc'[u] = curDoc[u] /\ orRequest'[u] = orRequest[u]
      BY <2>1, <2>2
    <2>3. CASE ~(curDoc'[u] = curDoc[u] /\ orRequest'[u] = orRequest[u])
      <3>1. u = t
        BY <1>3, <2>3
      <3>2. e \in Query /\ e \in Doc /\ e > curDoc[t] /\ e >= orRequest[t].target
        BY <1>3, <2>1, <3>1, Basics DEF Wanted, Coming
      <3>3. curDoc[t] # NO_MORE_DOCS
        BY <3>2, Basics
      <3>4. PICK f \in 1..Len(sets[t]) : e \in sets[t][f]
        BY <3>2, InEveryToken
      <3>5. e \in Coming(sets[t][f], curDoc[t], orRequest[t])
        BY <3>2, <3>4 DEF Coming
      <3> QED
        BY <1>3, <2>3, <3>1, <3>3, <3>5
    <2> QED
      BY <2>2, <2>3
  <1>5. /\ pc \in {"lead", "advanced"}
        /\ pc = "lead" => t = 1
        /\ pc = "advanced" => t = i
    BY <1>3 DEF QueryInv, AndOK, Idle, Finished, Lead, Loop, Advanced, OnlyCalled
  <1>6. /\ NO_MORE_DOCS \in Nat /\ lastReturn \in Nat /\ curDoc[t] \in Nat
        /\ orRequest[t] \in Call /\ orRequest[t].target \in Nat
    BY <1>3, Basics, CallTarget
  <1>7. CASE pc = "lead"
    <2>1. Lead /\ t = 1 /\ request.target \in Nat
      BY <1>5, <1>7 DEF QueryInv, AndOK, Lead, Called, Call
    <2>2. Called' /\ OnlyCalled({1})' /\ \A u \in Tokens \ {1} : At(u, lastReturn)'
      BY <1>1, <1>2, <1>3, <2>1 DEF Lead, Called, OnlyCalled, At
    <2>3. IF orRequest'[1] # NoRequest
          THEN At(1, lastReturn)' /\ orRequest'[1].target >= request.target
          ELSE curDoc'[1] = NO_MORE_DOCS \/ (curDoc'[1] > lastReturn /\ curDoc'[1] >= request.target)
      <3>1. At(1, lastReturn) /\ orRequest[1].target >= request.target
        BY <1>3, <2>1 DEF Lead
      <3>2. CASE curDoc'[t] = curDoc[t] /\ orRequest'[t] = orRequest[t]
        BY <1>1, <1>3, <2>1, <3>1, <3>2 DEF At
      <3>3. CASE orRequest'[t] = NoRequest
        BY <1>3, <1>6, <2>1, <3>1, <3>3 DEF At
      <3> QED
        BY <1>3, <3>2, <3>3
    <2>4. Lead'
      BY <1>1, <1>2, <2>2, <2>3 DEF Lead
    <2> QED
      BY <1>1, <1>2, <1>3, <1>4, <1>7, <2>4 DEF QueryInv, AndOK
  <1>8. CASE pc = "advanced"
    <2>1. Advanced /\ t = i /\ target \in Nat /\ target < NO_MORE_DOCS /\ skip # t /\ i \in Nat
      BY <1>5, <1>8, Basics DEF QueryInv, AndOK, Advanced, Target
    <2>2. Target' /\ OnlyCalled({i})' /\ (i \in Tokens \ {skip})'
      <3>1. Called' /\ OnlyCalled({i})' /\ (i \in Tokens \ {skip})'
        BY <1>1, <1>2, <1>3, <2>1 DEF Advanced, Target, Called, OnlyCalled
      <3>2. skip \in Tokens \ {t} /\ curDoc'[skip] = target
        BY <1>3, <2>1 DEF Advanced, Target
      <3>3. ASSUME NEW u \in Tokens, u < i PROVE curDoc'[u] = target
        BY <1>3, <2>1, <3>3 DEF Advanced, Target
      <3>4. ASSUME NEW u \in Tokens \ {skip}, u > i PROVE Behind(u, target)'
        BY <1>1, <1>3, <2>1, <3>4 DEF Advanced, Target, Behind
      <3> QED
        BY <1>1, <1>2, <2>1, <3>1, <3>2, <3>3, <3>4 DEF Advanced, Target
    <2>3. IF orRequest'[i] # NoRequest
          THEN Behind(i, target)' /\ orRequest'[i].target >= target
          ELSE curDoc'[i] >= target
      <3>1. Behind(i, target) /\ orRequest[i].target >= target
        BY <1>3, <2>1 DEF Advanced
      <3>2. CASE curDoc'[t] = curDoc[t] /\ orRequest'[t] = orRequest[t]
        BY <1>1, <1>3, <2>1, <3>1, <3>2 DEF Behind
      <3>3. CASE orRequest'[t] = NoRequest
        BY <1>3, <1>6, <2>1, <3>1, <3>3
      <3> QED
        BY <1>3, <3>2, <3>3
    <2>4. Advanced'
      BY <1>1, <1>2, <2>2, <2>3 DEF Advanced
    <2> QED
      BY <1>1, <1>2, <1>3, <1>4, <1>8, <2>4 DEF QueryInv, AndOK
  <1> QED
    BY <1>1, <1>5, <1>7, <1>8

(* A call of the LazyAndSetIterator, nextDoc or Advance(d).                *)
LEMMA AndCallQuery ==
    ASSUME QueryInv, NEW op \in {"nextDoc", "Advance"}, NEW d \in Nat, op = "nextDoc" => d = 0,
           AndCall(op, d)
    PROVE  /\ QueryInv' /\ UNCHANGED <<sets, lastReturn>>
           /\ request = NoRequest /\ request' \in Call
  <1>1. /\ UNCHANGED <<sets, pos, heap, itemDoc, curDoc, lastReturn, target, i, skip>>
        /\ request = NoRequest /\ request' = [op |-> op, target |-> d]
    BY DEF AndCall, leaves
  <1>2. Query' = Query /\ Tokens' = Tokens
    BY <1>1, SameQuery
  <1>3. /\ request' \in Call /\ request'.op = op /\ request'.target = d /\ request' # NoRequest
        /\ request.target = 0
    BY <1>1 DEF Call, NoRequest, Search!NoRequest
  <1>4. pc = "idle" /\ Idle
    BY <1>1 DEF QueryInv, AndOK, Finished, Lead, Loop, Advanced, Target, Called, Call, NoRequest, Search!NoRequest
  <1>5. Wanted' \subseteq Wanted
    <2> SUFFICES ASSUME NEW e \in Query, e > lastReturn PROVE e >= request.target
      BY <1>1, <1>2 DEF Wanted, Coming
    <2> QED
      BY <1>3, Basics
  <1>6. CASE lastReturn = NO_MORE_DOCS
    <2>1. pc' = "finished" /\ orRequest' = orRequest
      BY <1>6 DEF AndCall
    <2>2. Shape' /\ \A u \in Tokens : TokenOK(u)'
      BY <1>1, <1>2, <2>1 DEF QueryInv, Shape, TokenOK
    <2>3. Finished' /\ NoneMissed'
      BY <1>1, <1>2, <1>3, <1>4, <1>6, <2>1 DEF Finished, NoneMissed, Idle, OnlyCalled
    <2>4. AndOK'
      BY <1>1, <1>2, <2>1, <2>3 DEF AndOK, QueryInv
    <2> QED
      BY <1>1, <1>2, <1>3, <2>2, <2>3, <2>4 DEF QueryInv
  <1>7. CASE lastReturn # NO_MORE_DOCS
    <2>1. pc' = "lead" /\ CallOr(1, op, d)
      BY <1>7 DEF AndCall
    <2>2. 1 \in Tokens
      <3>1. Tokens # {} /\ Len(sets) \in Nat
        BY <1>7, Basics DEF QueryInv, AndOK
      <3> QED
        BY <3>1 DEF Tokens
    <2>3. orRequest[1] = NoRequest /\ At(1, lastReturn)
      BY <1>4, <1>7, <2>2 DEF Idle, OnlyCalled
    <2> DEFINE r == [op |-> op, target |-> IF op = "Advance" /\ d <= curDoc[1] THEN curDoc[1] + 1 ELSE d]
    <2>4. /\ Shape' /\ \A u \in Tokens : TokenOK(u)'
          /\ orRequest'[1] = r /\ r # NoRequest /\ r \in Call /\ r.target >= d
          /\ \A u \in Tokens \ {1} : orRequest'[u] = orRequest[u]
      BY <1>1, <2>1, <2>2, <2>3, CallOrOK DEF leaves
    <2>5. r.target \in {d, curDoc[1] + 1}
      OBVIOUS
    <2> HIDE DEF r
    <2>6. NoneMissed'
      <3> SUFFICES ASSUME NEW e \in Wanted', NEW u \in Tokens
                   PROVE  /\ e >= curDoc[u]
                          /\ orRequest'[u] # NoRequest => e > curDoc[u] /\ e >= orRequest'[u].target
        BY <1>1, <1>2 DEF NoneMissed
      <3>1. e \in Wanted /\ e >= curDoc[u] /\ e \in Doc /\ e > lastReturn /\ e >= d
        BY <1>1, <1>2, <1>3, <1>5, <1>7, Basics DEF QueryInv, NoneMissed, Wanted, Coming
      <3>2. CASE u # 1
        BY <1>4, <2>4, <3>1, <3>2 DEF Idle, OnlyCalled
      <3>3. CASE u = 1
        <4>1. e > curDoc[1]
          BY <2>2, <2>3, <3>1, <3>3, Basics DEF At
        <4>2. e >= r.target
          BY <2>2, <2>5, <3>1, <4>1, Basics
        <4> QED
          BY <2>4, <3>1, <3>3, <4>1, <4>2
      <3> QED
        BY <3>2, <3>3
    <2>7. Lead'
      <3>1. Called'
        BY <1>1, <1>2, <1>3, <1>7, <2>2 DEF Called
      <3>2. OnlyCalled({1})' /\ \A u \in Tokens \ {1} : At(u, lastReturn)'
        BY <1>1, <1>2, <1>4, <1>7, <2>4 DEF OnlyCalled, At, Idle
      <3>3. At(1, lastReturn)' /\ orRequest'[1].target >= request'.target /\ orRequest'[1] # NoRequest
        BY <1>1, <1>3, <2>3, <2>4 DEF At
      <3> QED
        BY <1>1, <1>2, <3>1, <3>2, <3>3 DEF Lead
    <2>8. AndOK'
      BY <1>1, <1>2, <2>1, <2>7 DEF AndOK, QueryInv
    <2> QED
      BY <1>1, <1>2, <1>3, <2>4, <2>6, <2>8 DEF QueryInv
  <1> QED
    BY <1>6, <1>7

(* A step of the LazyAndSetIterator that answers no call leaves the tokens *)
(* as they are.                                                            *)
LEMMA AndQuiet ==
    ASSUME QueryInv, UNCHANGED <<leaves, orVars>>
    PROVE  /\ Shape' /\ \A u \in Tokens : TokenOK(u)'
           /\ sets' = sets /\ Query' = Query /\ Tokens' = Tokens
           /\ curDoc' = curDoc /\ orRequest' = orRequest
  <1>1. sets' = sets /\ curDoc' = curDoc /\ orRequest' = orRequest
    BY DEF leaves, orVars
  <1> QED
    BY <1>1, SameQuery DEF QueryInv, Shape, TokenOK, leaves, orVars, Tokens

(* The answer the specification gives the call: the first document wanted. *)
LEMMA AnswerWanted ==
    ASSUME QueryInv, request \in Call, request.op = "nextDoc" => request.target = 0
    PROVE  Search!Answer(Query, lastReturn, request) = Search!First(Wanted) /\ Wanted \subseteq Doc
  <1>1. Query \subseteq Doc /\ lastReturn \in Nat
    BY Basics
  <1>2. /\ Search!Answer(Query, lastReturn, request) = Search!First(Coming(Query, lastReturn, request))
        /\ Coming(Query, lastReturn, request) \subseteq Doc
    BY <1>1, AnswerOf
  <1> QED
    BY <1>2 DEF Wanted

(* A call ends at the end: nothing that was wanted is left.                *)
LEMMA ReturnEnd ==
    ASSUME QueryInv, UNCHANGED <<leaves, orVars>>, AndReturn(NO_MORE_DOCS), OnlyCalled({}),
           request \in Call, request.op = "nextDoc" => request.target = 0,
           Wanted = {}
    PROVE  QueryInv' /\ Search!Return
  <1>1. /\ Shape' /\ \A u \in Tokens : TokenOK(u)'
        /\ sets' = sets /\ Query' = Query /\ Tokens' = Tokens
        /\ curDoc' = curDoc /\ orRequest' = orRequest
    BY AndQuiet
  <1>2. lastReturn' = NO_MORE_DOCS /\ request' = NoRequest /\ pc' = "idle"
    BY DEF AndReturn
  <1>3. Idle' /\ NoneMissed'
    BY <1>1, <1>2 DEF Idle, OnlyCalled, NoneMissed
  <1>4. AndOK'
    BY <1>2, <1>3, Basics DEF AndOK
  <1>5. Search!Answer(Query, lastReturn, request) = NO_MORE_DOCS
    <2>1. Search!Answer(Query, lastReturn, request) = Search!First(Wanted) /\ Wanted \subseteq Doc
      BY AnswerWanted
    <2> QED
      BY <2>1, FirstOf
  <1>6. request # NoRequest
    BY DEF Call, NoRequest, Search!NoRequest
  <1>7. Search!Return
    BY <1>1, <1>2, <1>5, <1>6 DEF Search!Return, NoRequest
  <1> QED
    BY <1>1, <1>3, <1>4, <1>7 DEF QueryInv

(* A call after the end answers the end again.                             *)
LEMMA AndFinishedQuery ==
    ASSUME QueryInv, AndFinished
    PROVE  QueryInv' /\ Search!Return
  <1>1. /\ UNCHANGED <<leaves, orVars>> /\ AndReturn(NO_MORE_DOCS) /\ Finished
    BY DEF AndFinished, QueryInv, AndOK
  <1>2. Wanted = {}
    BY <1>1, Basics DEF Wanted, Coming, Finished
  <1> QED
    BY <1>1, <1>2, ReturnEnd DEF Finished

(* The first iterator has answered.                                        *)
LEMMA AndLeadQuery ==
    ASSUME QueryInv, AndLead
    PROVE  QueryInv' /\ (Search!Return \/ UNCHANGED <<sets, lastReturn, request>>)
  <1>1. /\ UNCHANGED <<leaves, orVars>> /\ pc = "lead" /\ Lead /\ orRequest[1] = NoRequest
        /\ target' = curDoc[1] /\ i' = 2 /\ skip' = 1
    BY DEF AndLead, QueryInv, AndOK
  <1>2. 1 \in Tokens /\ curDoc[1] \in 0..NO_MORE_DOCS /\ OnlyCalled({}) /\ Called
    BY <1>1, Basics DEF Lead, Called, OnlyCalled
  <1>3. CASE curDoc[1] = NO_MORE_DOCS
    <2>1. Wanted = {}
      <3> SUFFICES ASSUME NEW e \in Wanted PROVE FALSE
        OBVIOUS
      <3>1. e >= NO_MORE_DOCS /\ e \in Doc
        BY <1>2, <1>3, Basics DEF QueryInv, NoneMissed, Called, Wanted, Coming
      <3> QED
        BY <3>1, Basics
    <2>2. AndReturn(NO_MORE_DOCS)
      BY <1>3 DEF AndLead
    <2> QED
      BY <1>1, <1>2, <2>1, <2>2, ReturnEnd DEF Called
  <1>4. CASE curDoc[1] # NO_MORE_DOCS
    <2>1. pc' = "loop" /\ UNCHANGED <<lastReturn, request>>
      BY <1>4 DEF AndLead
    <2>2. /\ Shape' /\ \A u \in Tokens : TokenOK(u)'
          /\ sets' = sets /\ Query' = Query /\ Tokens' = Tokens
          /\ curDoc' = curDoc /\ orRequest' = orRequest
      BY <1>1, AndQuiet
    <2>3. curDoc[1] > lastReturn /\ curDoc[1] >= request.target /\ curDoc[1] \in Doc
      <3>1. curDoc[1] > lastReturn /\ curDoc[1] >= request.target
        BY <1>1, <1>4 DEF Lead
      <3> QED
        BY <1>2, <1>4, <3>1, Basics, MaxDocAssumption DEF Doc, NO_MORE_DOCS
    <2>4. \A t \in Tokens \ {1} : Behind(t, curDoc[1])
      BY <1>1, <2>3 DEF Lead, At, Behind
    <2>5. Target'
      <3>1. Called'
        BY <1>2, <2>1, <2>2 DEF Called
      <3>2. \A t \in Tokens : t < 2 => t = 1
        BY Basics
      <3>3. \A t \in Tokens \ {1} : Behind(t, target)'
        BY <1>1, <2>2, <2>4 DEF Behind
      <3> QED
        BY <1>1, <1>2, <2>1, <2>2, <2>3, <3>1, <3>2, <3>3 DEF Target
    <2>6. Loop'
      <3>1. 2 <= Len(sets) + 1
        BY <1>2, Basics DEF Tokens
      <3>2. OnlyCalled({})' /\ \A t \in Tokens \ {1} : Behind(t, target)'
        BY <1>1, <1>2, <2>2, <2>4 DEF OnlyCalled, Behind
      <3> QED
        BY <1>1, <2>2, <2>5, <3>1, <3>2 DEF Loop
    <2>7. NoneMissed'
      BY <2>1, <2>2 DEF QueryInv, NoneMissed, Wanted
    <2>8. AndOK'
      BY <2>1, <2>2, <2>6 DEF AndOK, QueryInv
    <2> QED
      BY <2>1, <2>2, <2>7, <2>8 DEF QueryInv
  <1> QED
    BY <1>3, <1>4

(* while (i < size): every token is at the target, or the next one is      *)
(* asked for it.                                                           *)
LEMMA AndLoopQuery ==
    ASSUME QueryInv, AndLoop
    PROVE  QueryInv' /\ (Search!Return \/ UNCHANGED <<sets, lastReturn, request>>)
  <1>1. /\ UNCHANGED <<leaves, heap, itemDoc, curDoc, target, skip>> /\ pc = "loop" /\ Loop
    BY DEF AndLoop, QueryInv, AndOK
  <1>2. /\ sets' = sets /\ Query' = Query /\ Tokens' = Tokens /\ Len(sets) \in Nat
        /\ Target /\ Called /\ OnlyCalled({}) /\ target \in Doc /\ target \in Nat /\ target < NO_MORE_DOCS
        /\ i \in Nat \ {0} /\ Tokens = 1..Len(sets)
    BY <1>1, SameQuery, Basics DEF leaves, Loop, Target, Tokens
  <1>3. CASE i > Len(sets) /\ AndReturn(target) /\ UNCHANGED <<orRequest, i>>
    <2>1. lastReturn' = target /\ request' = NoRequest /\ pc' = "idle" /\ UNCHANGED <<leaves, orVars>>
      BY <1>1, <1>3 DEF AndReturn, orVars
    <2>2. /\ Shape' /\ \A u \in Tokens : TokenOK(u)'
          /\ curDoc' = curDoc /\ orRequest' = orRequest
      BY <2>1, AndQuiet
    <2>3. \A t \in Tokens : curDoc[t] = target
      <3>1. \A t \in Tokens : t < i
        BY <1>2, <1>3
      <3> QED
        BY <1>2, <3>1 DEF Target
    <2>4. target \in Query
      <3>1. ASSUME NEW t \in Tokens PROVE \E f \in Fields(t) : target \in sets[t][f]
        <4>1. curDoc[t] \notin {0, NO_MORE_DOCS}
          BY <1>2, <2>3, Basics
        <4>2. \E f \in 1..Len(sets[t]) : curDoc[t] \in sets[t][f]
          BY <4>1 DEF QueryInv, TokenOK, OrOK, CallPart
        <4> QED
          BY <2>3, <4>2 DEF Fields
      <3> QED
        BY <1>2, <3>1 DEF Query, Called
    <2>5. target \in Wanted /\ \A e \in Wanted : target <= e
      <3>1. target \in Wanted
        BY <1>2, <2>4 DEF Wanted, Coming, Target
      <3>2. ASSUME NEW e \in Wanted PROVE target <= e
        <4>1. e >= curDoc[skip] /\ e \in Doc /\ curDoc[skip] = target
          BY <1>2, Basics DEF QueryInv, NoneMissed, Called, Target, Wanted, Coming
        <4> QED
          BY <1>2, <4>1, Basics
      <3> QED
        BY <3>1, <3>2
    <2>6. Search!Answer(Query, lastReturn, request) = target
      <3>1. Search!Answer(Query, lastReturn, request) = Search!First(Wanted) /\ Wanted \subseteq Doc
        BY <1>2, AnswerWanted DEF Called
      <3> QED
        BY <2>5, <3>1, FirstOf
    <2>7. Search!Return
      <3>1. request # NoRequest
        BY <1>2 DEF Called, Call, NoRequest, Search!NoRequest
      <3> QED
        BY <1>2, <2>1, <2>6, <3>1 DEF Search!Return, NoRequest
    <2>8. NoneMissed'
      <3> SUFFICES ASSUME NEW e \in Wanted', NEW t \in Tokens
                   PROVE  e >= curDoc[t] /\ orRequest[t] = NoRequest
        BY <1>2, <2>2 DEF NoneMissed
      <3>1. e > target /\ e \in Doc
        BY <1>2, <2>1, Basics DEF Wanted, Coming
      <3> QED
        BY <1>2, <2>3, <3>1, Basics DEF OnlyCalled
    <2>9. Idle'
      BY <1>2, <2>1, <2>2, <2>3 DEF Idle, OnlyCalled, At
    <2>10. AndOK'
      <3>1. target \in 0..NO_MORE_DOCS /\ Tokens # {}
        BY <1>2, Basics DEF Called
      <3> QED
        BY <1>2, <2>1, <2>9, <3>1 DEF AndOK
    <2> QED
      BY <1>2, <2>2, <2>7, <2>8, <2>10 DEF QueryInv
  <1>4. CASE i <= Len(sets) /\ i = skip /\ i' = i + 1 /\ UNCHANGED <<orRequest, lastReturn, request, pc>>
    <2>1. UNCHANGED <<leaves, orVars>>
      BY <1>1, <1>4 DEF orVars
    <2>2. /\ Shape' /\ \A u \in Tokens : TokenOK(u)'
          /\ curDoc' = curDoc /\ orRequest' = orRequest
      BY <2>1, AndQuiet
    <2>3. Called' /\ OnlyCalled({})' /\ NoneMissed'
      BY <1>2, <1>4, <2>2 DEF Called, OnlyCalled, NoneMissed, QueryInv, Wanted
    <2>4. \A t \in Tokens : t < i + 1 => curDoc[t] = target
      <3>1. \A t \in Tokens : t < i + 1 => t < i \/ t = skip
        BY <1>2, <1>4
      <3> QED
        BY <1>2, <3>1 DEF Target
    <2>5. \A t \in Tokens \ {skip} : t > i => Behind(t, target)'
      BY <1>1, <1>2, <2>2 DEF Target, Behind
    <2>6. Target'
      <3>1. i + 1 \in Nat \ {0} /\ \A t \in Tokens : t > i + 1 => t > i
        BY <1>2
      <3> QED
        BY <1>1, <1>2, <1>4, <2>2, <2>3, <2>4, <2>5, <3>1 DEF Target
    <2>7. Loop'
      <3>1. i + 1 <= Len(sets) + 1 /\ i + 1 > i
        BY <1>2, <1>4
      <3> QED
        BY <1>1, <1>2, <1>4, <2>3, <2>5, <2>6, <3>1 DEF Loop
    <2>8. AndOK'
      BY <1>1, <1>2, <1>4, <2>7 DEF AndOK, QueryInv
    <2> QED
      BY <1>2, <1>4, <2>2, <2>3, <2>8 DEF QueryInv
  <1>5. CASE /\ i <= Len(sets) /\ i # skip /\ CallOr(i, "Advance", target) /\ pc' = "advanced"
             /\ UNCHANGED <<lastReturn, request, i>>
    <2>1. i \in Tokens \ {skip} /\ orRequest[i] = NoRequest /\ Behind(i, target)
      BY <1>1, <1>2, <1>5 DEF OnlyCalled, Loop
    <2> DEFINE r == [op |-> "Advance",
                     target |-> IF "Advance" = "Advance" /\ target <= curDoc[i] THEN curDoc[i] + 1 ELSE target]
    <2>2. /\ Shape' /\ \A u \in Tokens : TokenOK(u)'
          /\ orRequest'[i] = r /\ r # NoRequest /\ r \in Call /\ r.target >= target
          /\ target > curDoc[i] => r.target = target
          /\ \A u \in Tokens \ {i} : orRequest'[u] = orRequest[u]
      BY <1>1, <1>2, <1>5, <2>1, CallOrOK
    <2> HIDE DEF r
    <2>3. NoneMissed'
      <3> SUFFICES ASSUME NEW e \in Wanted, NEW t \in Tokens
                   PROVE  /\ e >= curDoc[t]
                          /\ orRequest'[t] # NoRequest => e > curDoc[t] /\ e >= orRequest'[t].target
        BY <1>1, <1>2, <1>5 DEF NoneMissed, Wanted
      <3>1. /\ e \in Doc /\ \A u \in Tokens : e >= curDoc[u]
            /\ e >= target
        BY <1>2, Basics DEF QueryInv, NoneMissed, Called, Target, Wanted, Coming
      <3>2. CASE t # i
        BY <1>2, <2>2, <3>1, <3>2 DEF OnlyCalled
      <3>3. CASE t = i
        <4>1. curDoc[i] # NO_MORE_DOCS /\ curDoc[i] \in Nat
          BY <2>1, <3>1, Basics
        <4>2. target > curDoc[i]
          BY <1>2, <2>1, <4>1 DEF Behind
        <4> QED
          BY <1>2, <2>2, <3>1, <3>3, <4>1, <4>2, Basics
      <3> QED
        BY <3>2, <3>3
    <2>4. Called' /\ OnlyCalled({i})'
      BY <1>2, <1>5, <2>2 DEF Called, OnlyCalled
    <2>5. Target' /\ Behind(i, target)'
      BY <1>1, <1>2, <1>5, <2>1, <2>4 DEF Target, Behind
    <2>6. Advanced'
      BY <1>1, <1>2, <1>5, <2>1, <2>2, <2>4, <2>5 DEF Advanced
    <2>7. AndOK'
      BY <1>2, <1>5, <2>6 DEF AndOK, QueryInv
    <2> QED
      BY <1>2, <1>5, <2>2, <2>3, <2>7 DEF QueryInv
  <1> QED
    BY <1>3, <1>4, <1>5 DEF AndLoop

(* The iterator of token i has answered: at the end, beyond the target or  *)
(* at it.                                                                  *)
LEMMA AndAdvancedQuery ==
    ASSUME QueryInv, AndAdvanced
    PROVE  QueryInv' /\ (Search!Return \/ UNCHANGED <<sets, lastReturn, request>>)
  <1> DEFINE d == curDoc[i]
  <1>1. UNCHANGED <<leaves, orVars>> /\ pc = "advanced" /\ Advanced /\ orRequest[i] = NoRequest
    BY DEF AndAdvanced, QueryInv, AndOK
  <1>2. /\ Called /\ Target /\ i \in Tokens \ {skip} /\ i \in Nat \ {0} /\ d \in 0..NO_MORE_DOCS
        /\ d >= target /\ target \in Nat /\ target < NO_MORE_DOCS /\ Tokens = 1..Len(sets) /\ Len(sets) \in Nat
    BY <1>1, Basics DEF Advanced, Target, Tokens
  <1>3. OnlyCalled({})
    BY <1>1 DEF Advanced, OnlyCalled
  <1>4. /\ Shape' /\ \A u \in Tokens : TokenOK(u)'
        /\ sets' = sets /\ Query' = Query /\ Tokens' = Tokens
        /\ curDoc' = curDoc /\ orRequest' = orRequest
    BY <1>1, AndQuiet
  <1>5. OnlyCalled({})'
    BY <1>3, <1>4 DEF OnlyCalled
  <1>6. CASE d = NO_MORE_DOCS
    <2>1. Wanted = {}
      <3> SUFFICES ASSUME NEW e \in Wanted PROVE FALSE
        OBVIOUS
      <3>1. e >= NO_MORE_DOCS /\ e \in Doc
        BY <1>2, <1>6, Basics DEF QueryInv, NoneMissed, Called, Wanted, Coming
      <3> QED
        BY <3>1, Basics
    <2>2. AndReturn(NO_MORE_DOCS)
      BY <1>2, <1>6 DEF AndAdvanced
    <2> QED
      BY <1>1, <1>2, <1>3, <2>1, <2>2, ReturnEnd DEF Called
  <1>7. CASE d # NO_MORE_DOCS /\ d > target
    <2>1. /\ target' = d /\ skip' = i /\ i' = (IF i = 1 THEN 2 ELSE 1) /\ pc' = "loop"
          /\ UNCHANGED <<lastReturn, request>>
      BY <1>2, <1>7 DEF AndAdvanced, SkipAfter
    <2>2. Called' /\ NoneMissed'
      BY <1>2, <1>4, <2>1 DEF Called, QueryInv, NoneMissed, Wanted
    <2>3. d \in Doc /\ d > lastReturn /\ d >= request.target
      <3>1. d \in Doc
        BY <1>2, <1>7, MaxDocAssumption DEF Doc, NO_MORE_DOCS
      <3>2. lastReturn \in Nat /\ request.target \in Nat /\ target > lastReturn /\ target >= request.target
        BY <1>2, Basics DEF Target, Called, Call
      <3> QED
        BY <1>2, <1>7, <3>1, <3>2
    <2>4. ASSUME NEW t \in Tokens, t # i PROVE Behind(t, d)
      <3>1. t \in Nat /\ curDoc[t] \in Nat
        BY Basics
      <3>2. CASE t < i \/ t = skip
        <4>1. curDoc[t] = target
          BY <1>2, <3>2 DEF Target
        <4> QED
          BY <1>7, <4>1 DEF Behind
      <3>3. CASE t > i /\ t # skip
        <4>1. curDoc[t] < target \/ curDoc[t] = NO_MORE_DOCS
          BY <1>2, <3>3 DEF Target, Behind
        <4> QED
          BY <1>2, <1>7, <3>1, <4>1 DEF Behind
      <3> QED
        BY <1>2, <2>4, <3>1, <3>2, <3>3
    <2>5. \A t \in Tokens \ {i} : Behind(t, target)'
      BY <1>4, <2>1, <2>4 DEF Behind
    <2>6. i' \in Nat \ {0} /\ i' <= Len(sets) + 1 /\ \A t \in Tokens : t < i' => t = i
      BY <1>2, <2>1
    <2>7. Target'
      BY <1>2, <1>4, <2>1, <2>2, <2>3, <2>5, <2>6 DEF Target
    <2>8. Loop'
      BY <1>4, <1>5, <2>1, <2>5, <2>6, <2>7 DEF Loop
    <2>9. AndOK'
      BY <1>4, <2>1, <2>8 DEF AndOK, QueryInv
    <2> QED
      BY <1>4, <2>1, <2>2, <2>9 DEF QueryInv
  <1>8. CASE d # NO_MORE_DOCS /\ d <= target
    <2>1. i' = i + 1 /\ pc' = "loop" /\ UNCHANGED <<lastReturn, request, target, skip>>
      BY <1>2, <1>8 DEF AndAdvanced
    <2>2. Called' /\ NoneMissed'
      BY <1>2, <1>4, <2>1 DEF Called, QueryInv, NoneMissed, Wanted
    <2>3. i + 1 \in Nat \ {0} /\ i + 1 <= Len(sets) + 1 /\ d = target
      BY <1>2, <1>8
    <2>4. \A t \in Tokens : t < i + 1 => curDoc[t] = target
      <3>1. \A t \in Tokens : t < i + 1 => t < i \/ t = i
        BY <1>2
      <3> QED
        BY <1>2, <2>3, <3>1 DEF Target
    <2>5. \A t \in Tokens \ {skip} : t >= i + 1 => Behind(t, target)'
      <3>1. \A t \in Tokens : t >= i + 1 => t > i
        BY <1>2
      <3> QED
        BY <1>2, <1>4, <2>1, <3>1 DEF Target, Behind
    <2>6. Target'
      <3>1. \A t \in Tokens : t > i + 1 => t >= i + 1
        BY <1>2
      <3> QED
        BY <1>2, <1>4, <2>1, <2>2, <2>3, <2>4, <2>5, <3>1 DEF Target
    <2>7. Loop'
      BY <1>4, <1>5, <2>1, <2>3, <2>5, <2>6 DEF Loop
    <2>8. AndOK'
      BY <1>4, <2>1, <2>7 DEF AndOK, QueryInv
    <2> QED
      BY <1>4, <2>1, <2>2, <2>8 DEF QueryInv
  <1> QED
    BY <1>2, <1>6, <1>7, <1>8

--------------------------------------------------------------------------------
(* Every step keeps the invariant, and is a step of what Set::Iterator     *)
(* promises for the documents of the query, or leaves its state alone.     *)
LEMMA NextQuery ==
    ASSUME QueryInv, [Next]_vars
    PROVE  QueryInv' /\ [Search!Fill \/ Search!Call \/ Search!Return]_(Search!vars)
  <1>1. CASE UNCHANGED vars
    <2>1. UNCHANGED <<leaves, orVars>> /\ UNCHANGED <<sets, lastReturn, request, pc, target, i, skip>>
      BY <1>1 DEF vars, andVars, leaves
    <2>2. /\ Shape' /\ \A u \in Tokens : TokenOK(u)'
          /\ Query' = Query /\ Tokens' = Tokens /\ curDoc' = curDoc /\ orRequest' = orRequest
      BY <2>1, AndQuiet
    <2>3. NoneMissed'
      BY <2>1, <2>2 DEF QueryInv, NoneMissed, Wanted
    <2>4. AndOK'
      BY <2>1, <2>2 DEF QueryInv, AndOK, Idle, Finished, Lead, Loop, Advanced, Target, Called, OnlyCalled, At, Behind
    <2> QED
      BY <2>1, <2>2, <2>3, <2>4 DEF QueryInv, Search!vars
  <1>2. ASSUME NEW op \in {"nextDoc", "Advance"}, NEW d \in Nat, op = "nextDoc" => d = 0, AndCall(op, d)
        PROVE  QueryInv' /\ Search!Call
    <2>1. /\ QueryInv' /\ UNCHANGED <<sets, lastReturn>>
          /\ request = NoRequest /\ request' \in Call
      BY <1>2, AndCallQuery
    <2>2. Query' = Query
      BY <2>1, SameQuery
    <2> QED
      BY <2>1, <2>2 DEF Search!Call, Search!Request, Call, NoRequest
  <1>3. CASE AndCall("nextDoc", 0)
    BY <1>2, <1>3
  <1>4. ASSUME NEW d \in Doc, AndCall("Advance", d)
        PROVE  QueryInv' /\ Search!Call
    BY <1>2, <1>4, Basics
  <1>5. ASSUME UNCHANGED <<sets, lastReturn, request>> PROVE UNCHANGED Search!vars
    BY <1>5, SameQuery DEF Search!vars
  <1>6. CASE \E t \in Tokens : OrRound(t) \/ OrFinished(t)
    <2>1. QueryInv' /\ UNCHANGED <<sets, lastReturn, request>>
      BY <1>6, OrStepQuery
    <2> QED
      BY <1>5, <2>1
  <1>7. CASE AndFinished
    BY <1>7, AndFinishedQuery
  <1>8. CASE AndLead
    BY <1>5, <1>8, AndLeadQuery
  <1>9. CASE AndLoop
    BY <1>5, <1>9, AndLoopQuery
  <1>10. CASE AndAdvanced
    BY <1>5, <1>10, AndAdvancedQuery
  <1> QED
    BY <1>1, <1>3, <1>4, <1>6, <1>7, <1>8, <1>9, <1>10 DEF Next, IteratorStep

(* The invariant holds of every query, with any number of tokens, fields   *)
(* and documents.                                                          *)
THEOREM QueryInvariant == Spec => []QueryInv
  <1>1. QueryInv /\ [Next]_vars => QueryInv'
    BY NextQuery
  <1> QED
    BY <1>1, InitQuery, PTL DEF Spec

(* LazyOrSetIterator: at every step, whatever the calls, _heap is a heap,  *)
(* and between calls its root is at the document last returned.            *)
THEOREM HeapStaysOrdered == Spec => []HeapOrdered
  <1>1. QueryInv => HeapOrdered
    <2> SUFFICES ASSUME QueryInv, NEW t \in Tokens
                 PROVE  /\ \A k \in 2..Len(heap[t]) : itemDoc[t][heap[t][k \div 2]] <= itemDoc[t][heap[t][k]]
                        /\ orRequest[t] = NoRequest /\ heap[t] # <<>> => itemDoc[t][Head(heap[t])] = curDoc[t]
      BY DEF HeapOrdered
    <2>1. OrOK(sets[t], pos[t], heap[t], itemDoc[t], curDoc[t], orRequest[t])
      BY DEF QueryInv, TokenOK
    <2>2. heap[t] \in Seq(1..Len(sets[t])) /\ Ordered(heap[t], itemDoc[t])
      BY <2>1 DEF OrOK, HeapPart
    <2>3. heap[t] # <<>> => Len(heap[t]) # 0 /\ Head(heap[t]) = heap[t][1]
      BY <2>2, EmptySeq
    <2> QED
      BY <2>1, <2>2, <2>3 DEF OrOK, RootPart, Ordered
  <1> QED
    BY <1>1, QueryInvariant, PTL

(* No iterator of the postings that has come to its end is in a heap, so   *)
(* nextDoc of a CompressedSet never reads beyond its block.                *)
THEOREM IteratorsNeverPastEnd == Spec => []NeverPastEnd
  <1>1. QueryInv => NeverPastEnd
    <2> SUFFICES ASSUME QueryInv, NEW t \in Tokens, NEW k \in 1..Len(heap[t])
                 PROVE  pos[t][heap[t][k]] # NO_MORE_DOCS
      BY DEF NeverPastEnd
    <2>1. HeapPart(sets[t], pos[t], heap[t], itemDoc[t])
      BY DEF QueryInv, TokenOK, OrOK
    <2>2. heap[t][k] \in 1..Len(sets[t]) /\ Member(heap[t], heap[t][k])
      BY <2>1, ElementOfSeq DEF HeapPart, Member
    <2>3. pos[t][heap[t][k]] = itemDoc[t][heap[t][k]] /\ itemDoc[t][heap[t][k]] \in 0..MaxDoc
      BY <2>1, <2>2 DEF HeapPart
    <2> QED
      BY <2>3, MaxDocAssumption DEF NO_MORE_DOCS
  <1> QED
    BY <1>1, QueryInvariant, PTL

(* The LazyAndSetIterator over the LazyOrSetIterators of any query keeps   *)
(* the promise of Set::Iterator for the intersection of the unions: every  *)
(* call is answered by the first document of it that the call asks for,    *)
(* and by NO_MORE_DOCS when there is none.                                 *)
THEOREM LazySetsImplementDocIterator == Spec => ImplementsDocIterator
  <1>1. Init => Search!Init
    <2> SUFFICES ASSUME Init PROVE Search!Init
      OBVIOUS
    <2>1. Tokens = {} => Query = {}
      BY DEF Query
    <2> QED
      BY <2>1 DEF Init, Search!Init, NoRequest
  <1>2. QueryInv /\ [Next]_vars => [Search!Fill \/ Search!Call \/ Search!Return]_(Search!vars)
    BY NextQuery
  <1> QED
    BY <1>1, <1>2, QueryInvariant, PTL DEF Spec, ImplementsDocIterator, Search!Spec
--------------------------------------------------------------------------------
(* The loop of Engine::search.                                             *)

(* Whatever search does with the iterators is allowed to their callers.    *)
THEOREM SearchUsesIterators == SearchSpec => Spec
  <1>1. SearchInit => Init
    BY DEF SearchInit
  <1>2. [SearchNext]_searchVars => [Next]_vars
    <2> SUFFICES ASSUME [SearchNext]_searchVars PROVE [Next]_vars
      OBVIOUS
    <2>1. CASE searchPc = "none" /\ Next /\ UNCHANGED searching
      BY <2>1
    <2>2. CASE Fetch
      BY <2>2 DEF Fetch, Next
    <2>3. CASE searchPc = "fetched" /\ IteratorStep /\ UNCHANGED searching
      BY <2>3 DEF Next
    <2>4. CASE Fetched
      BY <2>4 DEF Fetched
    <2>5. CASE UNCHANGED searchVars
      BY <2>5 DEF searchVars
    <2> QED
      BY <2>1, <2>2, <2>3, <2>4, <2>5 DEF SearchNext
  <1> QED
    BY <1>1, <1>2, PTL DEF SearchSpec, Spec

(* The documents search is done with: those before the one that nextDoc    *)
(* has just returned, or up to it once that one is dealt with too.         *)
Handled ==
    {e \in Query : IF searchPc \in {"fetched", "returned"} /\ request = NoRequest
                   THEN e < lastReturn ELSE e <= lastReturn}

Rank(d) == Cardinality({e \in Query : e < d})
Listed == {documentIdList[k] : k \in 1..Len(documentIdList)}

(* search has listed those of the documents it is done with that are not   *)
(* before the page, and has counted all of them if there is an offset.     *)
ListInv ==
    /\ documentIdList \in Seq(Doc)
    /\ \A k \in 2..Len(documentIdList) : documentIdList[k - 1] < documentIdList[k]
    /\ Listed = {d \in Handled : page.offset = 0 \/ Rank(d) >= skipped}

CountInv ==
    IF page.offset = 0 THEN passed = 0
    ELSE passed = Cardinality(Handled) /\ passed <= skipped + page.offset

LoopInv ==
    /\ searchPc # "fetched" => request = NoRequest
    /\ request = NoRequest \/ request = [op |-> "nextDoc", target |-> 0]
    /\ searchPc = "fetched" /\ request = NoRequest => lastReturn \in Query \cup {NO_MORE_DOCS}
    /\ searchPc = "returned" =>
          lastReturn = NO_MORE_DOCS \/ (page.offset > 0 /\ passed >= skipped + page.offset)

PageInv ==
    /\ page \in Pages \cup {NoPage} /\ passed \in Nat
    /\ searchPc \in {"none", "next", "fetched", "returned"}
    /\ searchPc # "none" => ListInv /\ CountInv /\ LoopInv

(* The numbers of the page are natural numbers, and without an offset      *)
(* nothing is skipped.                                                     *)
LEMMA PageNumbers ==
    ASSUME PageInv
    PROVE  /\ page.start \in Nat /\ page.offset \in Nat /\ skipped \in Nat
           /\ page.offset = 0 => skipped = 0
           /\ page.start * page.offset < Unsigned => skipped = page.start * page.offset
  <1>1. page.start \in Nat /\ page.offset \in Nat /\ Unsigned \in Nat \ {0}
    <2>1. CASE page \in Pages
      BY <2>1, PagesAssumption, UnsignedAssumption
    <2>2. CASE page = NoPage
      BY <2>2, UnsignedAssumption DEF NoPage
    <2> QED
      BY <2>1, <2>2 DEF PageInv
  <1>2. \A x \in Nat : x % Unsigned \in Nat /\ (x < Unsigned => x % Unsigned = x)
    BY <1>1
  <1>3. page.start * page.offset \in Nat /\ (page.offset = 0 => page.start * page.offset = 0)
    BY <1>1
  <1> QED
    BY <1>1, <1>2, <1>3 DEF skipped

(* The documents of a query can be counted.                                *)
LEMMA Countable ==
    ASSUME QueryInv, NEW S, S \subseteq Query
    PROVE  IsFiniteSet(S) /\ Cardinality(S) \in Nat
  <1>1. IsFiniteSet(Doc)
    BY MaxDocAssumption, FS_Interval DEF Doc
  <1> QED
    BY <1>1, Basics, FS_Subset, FS_CardinalityType

(* A document that search is done with has fewer before it than search is  *)
(* done with.                                                              *)
LEMMA RankBelow ==
    ASSUME QueryInv, NEW m \in Nat, NEW d \in Query, d < m
    PROVE  Rank(d) < Cardinality({e \in Query : e < m})
  <1> DEFINE A == {e \in Query : e < d}
             B == {e \in Query : e < m}
  <1>1. d \notin A /\ A \cup {d} \subseteq B
    <2>1. d \in Nat /\ \A e \in Query : e \in Nat
      BY Basics
    <2>2. ~(d < d) /\ \A e \in Query : e < d => e < m
      BY <2>1
    <2> QED
      BY <2>2
  <1>2. IsFiniteSet(A) /\ Cardinality(A) \in Nat /\ IsFiniteSet(B) /\ Cardinality(B) \in Nat
    BY Countable
  <1> HIDE DEF A, B
  <1>3. Cardinality(A \cup {d}) = Cardinality(A) + 1
    BY <1>1, <1>2, FS_AddElement
  <1>4. Cardinality(A \cup {d}) <= Cardinality(B)
    BY <1>1, <1>2, FS_Subset
  <1> QED
    BY <1>2, <1>3, <1>4 DEF A, B, Rank

(* SearchInit establishes the invariant.                                   *)
LEMMA InitPage == SearchInit => PageInv
  <1> SUFFICES ASSUME SearchInit PROVE PageInv
    OBVIOUS
  <1>1. /\ QueryInv /\ page \in Pages \cup {NoPage} /\ passed = 0 /\ documentIdList = <<>>
        /\ searchPc \in {"none", "next"} /\ request = NoRequest
        /\ lastReturn = IF Tokens = {} THEN NO_MORE_DOCS ELSE 0
    BY InitQuery DEF SearchInit, Init
  <1>2. Handled = {}
    <2>1. Tokens = {} => Query = {}
      BY DEF Query
    <2>2. \A e \in Query : e \in Nat /\ e > 0
      BY <1>1, Basics
    <2> QED
      BY <1>1, <2>1, <2>2 DEF Handled
  <1>3. PageInv
    <2>1. ListInv
      BY <1>1, <1>2 DEF ListInv, Listed
    <2>2. Cardinality(Handled) = 0
      BY <1>2, FS_EmptySet
    <2>3. page.offset \in Nat /\ skipped \in Nat
      <3>1. page.start \in Nat /\ page.offset \in Nat /\ Unsigned \in Nat \ {0}
        BY <1>1, PagesAssumption, UnsignedAssumption DEF NoPage
      <3>2. page.start * page.offset \in Nat
        BY <3>1
      <3> QED
        BY <3>1, <3>2 DEF skipped
    <2>4. CountInv
      BY <1>1, <2>2, <2>3 DEF CountInv
    <2>5. LoopInv
      BY <1>1 DEF LoopInv
    <2> QED
      BY <1>1, <2>1, <2>4, <2>5 DEF PageInv
  <1> QED
    BY <1>3

(* A step that leaves the documents dealt with as they are.                *)
LEMMA SamePage ==
    ASSUME PageInv, searchPc # "none", searchPc' \in {"next", "fetched", "returned"},
           Handled' = Handled, Query' = Query, UNCHANGED <<page, passed, documentIdList>>, LoopInv'
    PROVE  PageInv'
  <1>1. skipped' = skipped /\ Listed' = Listed
    BY DEF skipped, Listed
  <1>2. ListInv' /\ CountInv'
    BY <1>1 DEF PageInv, ListInv, CountInv, Rank
  <1> QED
    BY <1>2 DEF PageInv

(* The iterators work on, and the call is answered or not yet.             *)
LEMMA IteratorPage ==
    ASSUME QueryInv, PageInv, searchPc = "fetched", IteratorStep, UNCHANGED searching
    PROVE  PageInv'
  <1>0. UNCHANGED <<page, passed, documentIdList, searchPc>> /\ Next
    BY DEF searching, Next
  <1>1. Search!Return \/ UNCHANGED <<sets, lastReturn, request>>
    <2>1. CASE \E t \in Tokens : OrRound(t) \/ OrFinished(t)
      BY <2>1, OrStepQuery
    <2>2. CASE AndFinished
      BY <2>2, AndFinishedQuery
    <2>3. CASE AndLead
      BY <2>3, AndLeadQuery
    <2>4. CASE AndLoop
      BY <2>4, AndLoopQuery
    <2>5. CASE AndAdvanced
      BY <2>5, AndAdvancedQuery
    <2> QED
      BY <2>1, <2>2, <2>3, <2>4, <2>5 DEF IteratorStep
  <1>2. CASE UNCHANGED <<sets, lastReturn, request>>
    <2>1. Query' = Query
      BY <1>2, SameQuery
    <2>2. Handled' = Handled /\ LoopInv'
      BY <1>0, <1>2, <2>1 DEF Handled, LoopInv, PageInv
    <2> QED
      BY <1>0, <2>1, <2>2, SamePage
  <1>3. CASE Search!Return
    <2>1. /\ request = [op |-> "nextDoc", target |-> 0] /\ request' = NoRequest /\ request # NoRequest
          /\ Query' = Query /\ lastReturn' = Search!First({e \in Query : e > lastReturn})
      BY <1>3 DEF Search!Return, NoRequest, PageInv, LoopInv, Search!Answer, Search!Beyond
    <2> DEFINE S == {e \in Query : e > lastReturn}
    <2>2. /\ lastReturn' \in S \cup {NO_MORE_DOCS} /\ \A e \in S : lastReturn' <= e
          /\ lastReturn \in Nat /\ NO_MORE_DOCS \in Nat
          /\ \A e \in Query : e \in Nat /\ e < NO_MORE_DOCS
      <3>1. S \subseteq Doc
        BY Basics
      <3> HIDE DEF S
      <3>2. lastReturn' = Search!First(S)
        BY <2>1 DEF S
      <3> QED
        BY <3>1, <3>2, Basics, FirstOf
    <2>3. \A e \in Query : e < lastReturn' <=> e <= lastReturn
      <3> TAKE e \in Query
      <3>1. CASE e > lastReturn
        <4>1. e \in S
          BY <3>1
        <4> QED
          BY <2>2, <3>1, <4>1
      <3>2. CASE e <= lastReturn
        BY <2>2, <3>2
      <3> QED
        BY <2>2, <3>1, <3>2
    <2>4. Handled' = Handled
      BY <1>0, <2>1, <2>3 DEF Handled
    <2>5. LoopInv'
      BY <1>0, <2>1, <2>2 DEF LoopInv
    <2> QED
      BY <1>0, <2>1, <2>4, <2>5, SamePage
  <1> QED
    BY <1>1, <1>2, <1>3

(* A document that nextDoc returned is dealt with.                         *)
LEMMA NextDocument ==
    ASSUME QueryInv, PageInv, searchPc = "fetched", request = NoRequest,
           lastReturn # NO_MORE_DOCS, UNCHANGED vars, searchPc' = "next"
    PROVE  /\ lastReturn \in Query /\ lastReturn \in Doc /\ Query' = Query
           /\ \A e \in Handled : e < lastReturn
           /\ Handled' = Handled \cup {lastReturn}
           /\ Rank(lastReturn) = Cardinality(Handled)
           /\ Cardinality(Handled') = Cardinality(Handled) + 1
  <1>1. lastReturn \in Query /\ lastReturn \in Nat /\ \A e \in Query : e \in Nat /\ e \in Doc
    BY Basics DEF PageInv, LoopInv
  <1>2. Query' = Query /\ lastReturn' = lastReturn /\ request' = request
    BY SameQuery DEF vars, leaves, andVars
  <1>3. Handled = {e \in Query : e < lastReturn}
    BY DEF Handled
  <1>4. Handled' = {e \in Query : e <= lastReturn}
    BY <1>2 DEF Handled
  <1>5. Handled' = Handled \cup {lastReturn} /\ lastReturn \notin Handled
    <2>1. ~(lastReturn < lastReturn)
      BY <1>1
    <2>2. \A e \in Query : e <= lastReturn <=> e < lastReturn \/ e = lastReturn
      BY <1>1
    <2> QED
      BY <1>1, <1>3, <1>4, <2>1, <2>2
  <1>6. IsFiniteSet(Handled)
    BY <1>3, Countable
  <1>7. Cardinality(Handled \cup {lastReturn}) = Cardinality(Handled) + 1
    BY <1>5, <1>6, FS_AddElement
  <1> QED
    BY <1>1, <1>2, <1>3, <1>5, <1>7 DEF Rank

(* The list with one document more.                                        *)
LEMMA AppendListed ==
    ASSUME QueryInv, ListInv, NEW d \in Doc, \A e \in Handled : e < d,
           documentIdList' = Append(documentIdList, d)
    PROVE  /\ documentIdList' \in Seq(Doc)
           /\ \A k \in 2..Len(documentIdList') : documentIdList'[k - 1] < documentIdList'[k]
           /\ Listed' = Listed \cup {d}
  <1> DEFINE s == documentIdList
             n == Len(s)
  <1>1. s \in Seq(Doc) /\ n \in Nat
    BY DEF ListInv
  <1>2. /\ documentIdList' \in Seq(Doc) /\ Len(documentIdList') = n + 1
        /\ \A k \in 1..n : documentIdList'[k] = s[k]
        /\ documentIdList'[n + 1] = d
    BY <1>1
  <1>3. \A k \in 1..n : s[k] < d
    BY DEF ListInv, Listed
  <1> HIDE DEF n
  <1>4. ASSUME NEW k \in 2..(n + 1) PROVE documentIdList'[k - 1] < documentIdList'[k]
    <2>1. CASE k \in 2..n
      <3>1. k - 1 \in 1..n /\ k \in 1..n /\ s[k - 1] < s[k]
        BY <1>1, <2>1 DEF ListInv, n
      <3> QED
        BY <1>2, <3>1
    <2>2. CASE k = n + 1
      <3>1. k - 1 \in 1..n /\ k - 1 = n
        BY <1>1, <2>2
      <3>2. documentIdList'[k - 1] = s[k - 1] /\ s[k - 1] < d
        BY <1>2, <1>3, <3>1
      <3>3. documentIdList'[k] = d
        BY <1>2, <2>2
      <3> QED
        BY <3>2, <3>3
    <2>3. k \in 2..n \/ k = n + 1
      BY <1>1
    <2> QED
      BY <2>1, <2>2, <2>3
  <1>5. Listed' = Listed \cup {d}
    <2>1. Listed' = {documentIdList'[k] : k \in 1..(n + 1)}
      BY <1>2 DEF Listed
    <2>2. 1..(n + 1) = (1..n) \cup {n + 1}
      BY <1>1
    <2> QED
      BY <1>2, <2>1, <2>2 DEF Listed, n
  <1> QED
    BY <1>2, <1>4, <1>5

(* What search does with the answer of nextDoc.                            *)
LEMMA FetchedPage ==
    ASSUME QueryInv, PageInv, Fetched
    PROVE  PageInv'
  <1>1. /\ searchPc = "fetched" /\ request = NoRequest /\ UNCHANGED vars /\ page' = page
        /\ ListInv /\ CountInv /\ LoopInv
    BY DEF Fetched, PageInv
  <1>2. /\ lastReturn' = lastReturn /\ request' = request /\ Query' = Query
        /\ skipped' = skipped
    BY <1>1, SameQuery DEF vars, leaves, andVars, skipped
  <1>3. /\ page.offset \in Nat /\ skipped \in Nat /\ passed \in Nat
        /\ page.offset = 0 => skipped = 0
    BY PageNumbers DEF PageInv
  <1>4. \A d \in Query : Rank(d)' = Rank(d) /\ Rank(d) \in Nat
    BY <1>2, Countable DEF Rank
  <1>5. CASE searchPc' = "returned"
    <2>1. /\ UNCHANGED <<passed, documentIdList>>
          /\ lastReturn = NO_MORE_DOCS \/ (page.offset > 0 /\ ~OnPage)
      BY <1>5 DEF Fetched
    <2>2. Handled' = Handled
      BY <1>1, <1>2, <1>5 DEF Handled
    <2>3. LoopInv'
      BY <1>1, <1>2, <1>3, <1>5, <2>1 DEF LoopInv, OnPage
    <2> QED
      BY <1>1, <1>2, <1>5, <2>1, <2>2, <2>3, SamePage
  <1>6. CASE searchPc' = "next"
    <2>1. lastReturn # NO_MORE_DOCS
      BY <1>6 DEF Fetched
    <2>2. /\ lastReturn \in Query /\ lastReturn \in Doc
          /\ \A e \in Handled : e < lastReturn
          /\ Handled' = Handled \cup {lastReturn}
          /\ Rank(lastReturn) = Cardinality(Handled)
          /\ Cardinality(Handled') = Cardinality(Handled) + 1
      BY <1>1, <1>6, <2>1, NextDocument
    <2>3. LoopInv' /\ Handled \subseteq Query
      BY <1>1, <1>2, <1>6 DEF LoopInv, Handled
    <2> DEFINE On(d) == page.offset = 0 \/ Rank(d) >= skipped
    <2>4. {d \in Handled' : On(d)'} = {d \in Handled : On(d)} \cup {d \in {lastReturn} : On(d)}
      BY <1>1, <1>2, <1>4, <2>2, <2>3
    <2>5. CASE passed < skipped /\ passed' = passed + 1 /\ documentIdList' = documentIdList
      <3>1. page.offset # 0 /\ passed = Cardinality(Handled) /\ passed + 1 <= skipped + page.offset
        BY <1>1, <1>3, <2>5 DEF CountInv
      <3>2. ~On(lastReturn)
        BY <1>3, <2>2, <2>5, <3>1
      <3> HIDE DEF On
      <3>3. {d \in {lastReturn} : On(d)} = {}
        BY <3>2
      <3>4. Listed' = Listed /\ Listed = {d \in Handled : On(d)}
        BY <1>1, <2>5 DEF ListInv, Listed, On
      <3>5. ListInv'
        BY <1>1, <2>4, <2>5, <3>3, <3>4 DEF ListInv, On
      <3>6. CountInv'
        BY <1>1, <1>2, <2>2, <2>5, <3>1 DEF CountInv
      <3> QED
        BY <1>1, <1>3, <1>6, <2>3, <2>5, <3>5, <3>6 DEF PageInv
    <2>6. CASE /\ passed >= skipped /\ documentIdList' = Append(documentIdList, lastReturn)
               /\ \/ page.offset > 0 /\ OnPage /\ passed' = passed + 1
                  \/ page.offset = 0 /\ passed' = passed
      <3>1. On(lastReturn)
        BY <1>1, <1>3, <2>2, <2>6 DEF CountInv
      <3>2. /\ documentIdList' \in Seq(Doc)
            /\ \A k \in 2..Len(documentIdList') : documentIdList'[k - 1] < documentIdList'[k]
            /\ Listed' = Listed \cup {lastReturn}
        BY <1>1, <2>2, <2>6, AppendListed
      <3> HIDE DEF On
      <3>3. {d \in {lastReturn} : On(d)} = {lastReturn}
        BY <3>1
      <3>4. Listed = {d \in Handled : On(d)}
        BY <1>1 DEF ListInv, On
      <3>5. ListInv'
        BY <2>4, <3>2, <3>3, <3>4 DEF ListInv, On
      <3>6. CountInv' /\ passed' \in Nat
        BY <1>1, <1>2, <1>3, <2>2, <2>6 DEF CountInv, OnPage
      <3> QED
        BY <1>1, <1>6, <2>3, <3>5, <3>6 DEF PageInv
    <2> QED
      BY <1>3, <1>6, <2>5, <2>6 DEF Fetched
  <1> QED
    BY <1>5, <1>6 DEF Fetched

(* Every step keeps the invariant.                                         *)
LEMMA NextPage ==
    ASSUME QueryInv, PageInv, [SearchNext]_searchVars
    PROVE  PageInv'
  <1>1. CASE searchPc = "none" /\ Next /\ UNCHANGED searching
    BY <1>1 DEF searching, PageInv
  <1>2. CASE Fetch
    <2>1. /\ searchPc = "next" /\ searchPc' = "fetched" /\ UNCHANGED <<page, passed, documentIdList>>
          /\ request' = [op |-> "nextDoc", target |-> 0] /\ UNCHANGED <<sets, lastReturn>>
      BY <1>2 DEF Fetch, AndCall, leaves
    <2>2. request' # NoRequest /\ Query' = Query
      BY <2>1, SameQuery DEF NoRequest, Search!NoRequest
    <2>3. Handled' = Handled
      BY <2>1, <2>2 DEF Handled
    <2>4. LoopInv'
      BY <2>1, <2>2 DEF LoopInv
    <2> QED
      BY <2>1, <2>2, <2>3, <2>4, SamePage
  <1>3. CASE searchPc = "fetched" /\ IteratorStep /\ UNCHANGED searching
    BY <1>3, IteratorPage
  <1>4. CASE Fetched
    BY <1>4, FetchedPage
  <1>5. CASE UNCHANGED searchVars
    <2>1. UNCHANGED <<sets, lastReturn, request, page, passed, documentIdList, searchPc>>
      BY <1>5 DEF searchVars, searching, vars, leaves, andVars
    <2>2. Query' = Query
      BY <2>1, SameQuery
    <2>3. Handled' = Handled /\ (LoopInv => LoopInv')
      BY <2>1, <2>2 DEF Handled, LoopInv, skipped
    <2> QED
      BY <2>1, <2>2, <2>3, SamePage DEF PageInv
  <1> QED
    BY <1>1, <1>2, <1>3, <1>4, <1>5 DEF SearchNext

(* Engine::search returns exactly the documents of the page asked for, in  *)
(* increasing order, for any query, page and width of the counters, as     *)
(* long as start * offset does not wrap.                                   *)
THEOREM SearchReturnsPage == SearchSpec => []PageExact
  <1>1. QueryInv /\ PageInv => PageExact
    <2> SUFFICES ASSUME QueryInv, PageInv, searchPc = "returned", page.start * page.offset < Unsigned
                 PROVE  LET before(d) == Cardinality({e \in Query : e < d})
                            first == page.start * page.offset
                        IN /\ \A k \in 2..Len(documentIdList) : documentIdList[k - 1] < documentIdList[k]
                           /\ Listed = {d \in Query : page.offset = 0
                                             \/ before(d) \in first..(first + page.offset - 1)}
      BY DEF PageExact, Listed
    <2>1. /\ ListInv /\ CountInv /\ LoopInv
          /\ page.offset \in Nat /\ skipped \in Nat /\ skipped = page.start * page.offset
      BY PageNumbers DEF PageInv
    <2>2. Handled = {e \in Query : e < lastReturn} /\ lastReturn \in Nat
          /\ \A e \in Query : e \in Nat /\ e < NO_MORE_DOCS /\ Rank(e) \in Nat
      BY <2>1, Basics, Countable DEF LoopInv, Handled, Rank
    <2>3. ASSUME NEW d \in Query, page.offset # 0
          PROVE  d \in Handled /\ Rank(d) >= skipped <=> Rank(d) \in skipped..(skipped + page.offset - 1)
      <3>1. passed = Cardinality(Handled) /\ passed \in Nat /\ passed <= skipped + page.offset
        BY <2>1, <2>3 DEF CountInv, PageInv
      <3>2. CASE d \in Handled
        <4>1. Rank(d) < passed
          BY <2>2, <3>1, <3>2, RankBelow
        <4> QED
          BY <2>1, <2>2, <3>1, <3>2, <4>1
      <3>3. CASE d \notin Handled
        <4>1. Handled \subseteq {e \in Query : e < d}
          BY <2>2, <3>3
        <4>2. passed <= Rank(d)
          BY <3>1, <4>1, Countable, FS_Subset DEF Rank
        <4>3. passed >= skipped + page.offset
          BY <2>1, <2>2, <3>3 DEF LoopInv
        <4> QED
          BY <2>1, <2>2, <3>1, <3>3, <4>2, <4>3
      <3> QED
        BY <3>2, <3>3
    <2>4. page.offset = 0 => Handled = Query
      BY <2>1, <2>2 DEF LoopInv
    <2>5. \A d \in Query :
             d \in Handled /\ (page.offset = 0 \/ Rank(d) >= skipped)
             <=> page.offset = 0 \/ Rank(d) \in skipped..(skipped + page.offset - 1)
      BY <2>3, <2>4
    <2>6. Listed = {d \in Query : page.offset = 0 \/ Rank(d) \in skipped..(skipped + page.offset - 1)}
      BY <2>1, <2>2, <2>5 DEF ListInv
    <2> QED
      BY <2>1, <2>6 DEF ListInv, Rank
  <1>2. QueryInv /\ PageInv /\ [SearchNext]_searchVars => PageInv'
    BY NextPage
  <1> QED
    BY <1>1, <1>2, InitPage, QueryInvariant, SearchUsesIterators, PTL DEF SearchSpec
================================================================================
