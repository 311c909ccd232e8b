------------------------ MODULE InvertedIndexBatchProofs ------------------------
(***************************************************************************)
(* Proofs about InvertedIndexBatch, for any number of words and documents, *)
(* any sizes of batch and any capacity of the cache: between the two       *)
(* vectors, the cache and the store every posting is kept, once and in     *)
(* order, and the destructor leaves none of those the consumer took        *)
(* behind.                                                                 *)
(***************************************************************************)
EXTENDS InvertedIndexBatch, SequenceTheorems, FiniteSetTheorems, TLAPS

--------------------------------------------------------------------------------
(* Bitmaps.                                                                *)

(* The parts of a bitmap are bitmaps.                                      *)
LEMMA PartsOfBitmap ==
    ASSUME NEW s \in Seq(DocId), NEW t \in Seq(DocId), s \o t \in Bitmap
    PROVE  s \in Bitmap /\ t \in Bitmap
  <1>1. /\ Len(s \o t) = Len(s) + Len(t)
        /\ \A k \in 1..Len(s) + Len(t) : (s \o t)[k] = IF k <= Len(s) THEN s[k] ELSE t[k - Len(s)]
        /\ s \o t \in Seq(DocId)
    BY ConcatProperties
  <1>2. \A j, k \in 1..Len(s) + Len(t) : j < k => (s \o t)[j] < (s \o t)[k]
    BY <1>1, LenProperties DEF Bitmap, Increasing
  <1>3. ASSUME NEW j \in DOMAIN s, NEW k \in DOMAIN s, j < k
        PROVE  s[j] < s[k]
    BY <1>1, <1>2, <1>3, LenProperties
  <1>4. ASSUME NEW j \in DOMAIN t, NEW k \in DOMAIN t, j < k
        PROVE  t[j] < t[k]
    <2>1. j \in 1..Len(t) /\ k \in 1..Len(t) /\ Len(s) \in Nat /\ Len(t) \in Nat
      BY LenProperties
    <2>2. (s \o t)[Len(s) + j] = t[j] /\ (s \o t)[Len(s) + k] = t[k]
      BY <1>1, <2>1
    <2> QED
      BY <1>2, <1>4, <2>1, <2>2
  <1> QED
    BY <1>3, <1>4 DEF Bitmap, Increasing

(* A bitmap can be extended with a document beyond its last one.           *)
LEMMA ExtendBitmap ==
    ASSUME NEW s \in Bitmap, NEW d \in DocId, \A k \in DOMAIN s : s[k] < d
    PROVE  /\ s \o <<d>> \in Bitmap
           /\ \A k \in DOMAIN (s \o <<d>>) : (s \o <<d>>)[k] < d + 1
           /\ ToSet(s \o <<d>>) = ToSet(s) \cup {d}
  <1>1. s \in Seq(DocId) /\ <<d>> \in Seq(DocId) /\ Len(<<d>>) = 1 /\ <<d>>[1] = d
    BY DEF Bitmap
  <1>2. /\ s \o <<d>> \in Seq(DocId)
        /\ Len(s \o <<d>>) = Len(s) + 1
        /\ \A k \in 1..Len(s) + 1 : (s \o <<d>>)[k] = IF k <= Len(s) THEN s[k] ELSE <<d>>[k - Len(s)]
    BY <1>1, ConcatProperties
  <1>3. /\ Len(s) \in Nat /\ DOMAIN s = 1..Len(s) /\ DOMAIN (s \o <<d>>) = 1..Len(s) + 1
        /\ \A k \in 1..Len(s) : (s \o <<d>>)[k] = s[k]
        /\ (s \o <<d>>)[Len(s) + 1] = d
    BY <1>1, <1>2, LenProperties
  <1>4. \A k \in 1..Len(s) : s[k] \in DocId /\ s[k] < d
    BY <1>1, <1>3, ElementOfSeq
  <1>5. s \o <<d>> \in Bitmap
    <2>1. \A j, k \in 1..Len(s) : j < k => s[j] < s[k]
      BY <1>3 DEF Bitmap, Increasing
    <2>2. ASSUME NEW j \in 1..Len(s) + 1, NEW k \in 1..Len(s) + 1, j < k
          PROVE  (s \o <<d>>)[j] < (s \o <<d>>)[k]
      <3>1. j \in 1..Len(s) /\ (k \in 1..Len(s) \/ k = Len(s) + 1)
        BY <1>3, <2>2
      <3> QED
        BY <1>3, <1>4, <2>1, <2>2, <3>1
    <2> QED
      BY <1>2, <1>3, <2>2 DEF Bitmap, Increasing
  <1>6. \A k \in DOMAIN (s \o <<d>>) : (s \o <<d>>)[k] < d + 1
    BY <1>3, <1>4 DEF DocId
  <1>7. ToSet(s \o <<d>>) = ToSet(s) \cup {d}
    BY <1>3 DEF ToSet
  <1> QED
    BY <1>5, <1>6, <1>7

(* What a prefix is, document by document.                                 *)
LEMMA PrefixByElement ==
    ASSUME NEW s \in Seq(DocId), NEW t \in Seq(DocId)
    PROVE  IsPrefix(s, t) <=> Len(s) <= Len(t) /\ \A k \in 1..Len(s) : s[k] = t[k]
  <1>1. Len(s) \in Nat /\ Len(t) \in Nat
    BY LenProperties
  <1>2. ASSUME Len(s) <= Len(t)
        PROVE  /\ SubSeq(s, 1, Len(s)) \in Seq(DocId) /\ SubSeq(t, 1, Len(s)) \in Seq(DocId)
               /\ Len(SubSeq(s, 1, Len(s))) = Len(s) /\ Len(SubSeq(t, 1, Len(s))) = Len(s)
               /\ \A k \in 1..Len(s) : SubSeq(s, 1, Len(s))[k] = s[k]
                                       /\ SubSeq(t, 1, Len(s))[k] = t[k]
    <2>1. \A k \in 1..Len(s) : s[k] \in DocId /\ t[k] \in DocId
      BY <1>1, <1>2, ElementOfSeq
    <2> QED
      BY <1>1, <2>1, SubSeqProperties
  <1>3. CASE Len(s) <= Len(t) /\ \A k \in 1..Len(s) : s[k] = t[k]
    <2>1. SubSeq(s, 1, Len(s)) = SubSeq(t, 1, Len(s))
      BY <1>2, <1>3, SeqEqual
    <2> QED
      BY <1>3, <2>1 DEF IsPrefix
  <1>4. CASE IsPrefix(s, t)
    BY <1>2, <1>4 DEF IsPrefix
  <1> QED
    BY <1>3, <1>4

(* A bitmap is a prefix of itself, and a prefix of it one of what it is    *)
(* extended to.                                                            *)
LEMMA PrefixOfConcat ==
    ASSUME NEW r \in Seq(DocId), NEW s \in Seq(DocId), NEW t \in Seq(DocId), IsPrefix(r, s)
    PROVE  IsPrefix(r, s \o t) /\ IsPrefix(s, s)
  <1>1. /\ Len(r) \in Nat /\ Len(s) \in Nat /\ Len(t) \in Nat
        /\ Len(s \o t) = Len(s) + Len(t) /\ s \o t \in Seq(DocId)
        /\ \A k \in 1..Len(s) + Len(t) : (s \o t)[k] = IF k <= Len(s) THEN s[k] ELSE t[k - Len(s)]
    BY LenProperties, ConcatProperties
  <1>2. Len(r) <= Len(s) /\ \A k \in 1..Len(r) : r[k] = s[k]
    BY PrefixByElement
  <1>3. Len(r) <= Len(s \o t) /\ \A k \in 1..Len(r) : r[k] = (s \o t)[k]
    BY <1>1, <1>2
  <1>4. IsPrefix(r, s \o t)
    BY <1>1, <1>3, PrefixByElement
  <1>5. IsPrefix(s, s)
    BY <1>1, PrefixByElement
  <1> QED
    BY <1>4, <1>5

--------------------------------------------------------------------------------
(* The cache.                                                              *)

(* No word has two bitmaps in the cache.                                   *)
Distinct == \A j, k \in DOMAIN cache : cache[j].word = cache[k].word => j = k

CacheTyped ==
    /\ cache \in Seq([word : Word, docs : Bitmap]) /\ Len(cache) <= CacheSize
    /\ store \in [Word -> Bitmap]

(* The bitmap of a word is the one entry that has it.                      *)
LEMMA Lookup ==
    ASSUME Distinct
    PROVE  /\ \A k \in DOMAIN cache :
                 Cached(cache[k].word) /\ getOrCreate(cache[k].word) = cache[k].docs
           /\ \A w : Cached(w) => Place(w) \in DOMAIN cache /\ cache[Place(w)].word = w
  <1>1. ASSUME NEW w, Cached(w)
        PROVE  Place(w) \in DOMAIN cache /\ cache[Place(w)].word = w
    BY <1>1 DEF Cached, Place
  <1>2. ASSUME NEW k \in DOMAIN cache
        PROVE  Cached(cache[k].word) /\ Place(cache[k].word) = k
    BY <1>1 DEF Cached, Distinct
  <1> QED
    BY <1>1, <1>2 DEF getOrCreate

(* The bitmaps of a typed cache and store are bitmaps.                     *)
LEMMA LookupTyped ==
    ASSUME CacheTyped, Distinct, NEW w \in Word
    PROVE  getOrCreate(w) \in Bitmap
  <1>1. CASE Cached(w)
    <2>1. Place(w) \in 1..Len(cache)
      BY <1>1, Lookup, LenProperties DEF CacheTyped
    <2>2. cache[Place(w)] \in [word : Word, docs : Bitmap]
      BY <2>1, ElementOfSeq DEF CacheTyped
    <2> QED
      BY <1>1, <2>2 DEF getOrCreate
  <1>2. CASE ~Cached(w)
    BY <1>2 DEF getOrCreate, CacheTyped
  <1> QED
    BY <1>1, <1>2

(* The bitmap in place j leaves the cache for the store.                   *)
Evicted(j) ==
    /\ store' = [store EXCEPT ![cache[j].word] = cache[j].docs]
    /\ \A k \in DOMAIN cache' : cache'[k].word # cache[j].word

(* The entries after a put: the new one first, then old ones of other      *)
(* words, in one place each; the one left out is the one of the word, or   *)
(* has gone to the store.                                                  *)
LEMMA PutEntries ==
    ASSUME CacheTyped, Distinct, NEW w \in Word, NEW docs \in Bitmap, put(w, docs)
    PROVE  /\ CacheTyped'
           /\ Len(cache') >= 1 /\ cache'[1] = [word |-> w, docs |-> docs]
           /\ \A k \in 2..Len(cache') : \E j \in DOMAIN cache :
                 cache'[k] = cache[j] /\ cache[j].word # w
           /\ \A j, k \in 2..Len(cache') : cache'[j].word = cache'[k].word => j = k
           /\ \A j \in DOMAIN cache :
                 \/ cache[j].word = w
                 \/ \E k \in 2..Len(cache') : cache'[k] = cache[j]
                 \/ Evicted(j)
           /\ store' = store \/ \E j \in DOMAIN cache : cache[j].word # w /\ Evicted(j)
  <1> DEFINE Entry == [word : Word, docs : Bitmap]
             e == [word |-> w, docs |-> docs]
             n == Len(cache)
  <1> USE CacheSizeAssumption
  <1>1. /\ cache \in Seq(Entry) /\ n \in Nat /\ DOMAIN cache = 1..n /\ n <= CacheSize
        /\ e \in Entry /\ <<e>> \in Seq(Entry) /\ Len(<<e>>) = 1 /\ <<e>>[1] = e
        /\ \A k \in 1..n : cache[k] \in Entry
    <2>1. cache \in Seq(Entry) /\ n <= CacheSize /\ e \in Entry
      BY DEF CacheTyped
    <2>2. n \in Nat /\ DOMAIN cache = 1..n
      BY <2>1, LenProperties
    <2>3. \A k \in 1..n : cache[k] \in Entry
      BY <2>1, ElementOfSeq
    <2> HIDE DEF Entry, e
    <2>4. <<e>> \in Seq(Entry) /\ Len(<<e>>) = 1 /\ <<e>>[1] = e
      BY <2>1
    <2> QED
      BY <2>1, <2>2, <2>3, <2>4
  <1>a. e.word = w
    OBVIOUS
  <1>b. \A j, k \in 1..n : cache[j].word = cache[k].word => j = k
    BY <1>1 DEF Distinct
  <1>c. CacheTyped' <=> cache' \in Seq(Entry) /\ Len(cache') <= CacheSize /\ store' \in [Word -> Bitmap]
    BY DEF CacheTyped
  <1>d. store \in [Word -> Bitmap] /\ \A k \in 1..n : cache[k].word \in Word /\ cache[k].docs \in Bitmap
    BY <1>1 DEF CacheTyped
  <1>e. Full <=> n = CacheSize
    BY DEF Full
  <1>f. Cached(w) <=> \E j \in 1..n : cache[j].word = w
    BY <1>1 DEF Cached
  <1> HIDE DEF Entry, e, n
  <1>2. ASSUME NEW rest \in Seq(Entry), cache' = <<e>> \o rest
        PROVE  /\ cache' \in Seq(Entry) /\ Len(cache') = Len(rest) + 1 /\ Len(rest) \in Nat
               /\ DOMAIN cache' = 1..(Len(rest) + 1)
               /\ cache'[1] = e /\ \A k \in 2..(Len(rest) + 1) : cache'[k] = rest[k - 1]
    <2>1. /\ <<e>> \o rest \in Seq(Entry) /\ Len(<<e>> \o rest) = 1 + Len(rest)
          /\ Len(rest) \in Nat
          /\ \A k \in 1..1 + Len(rest) :
                (<<e>> \o rest)[k] = IF k <= 1 THEN <<e>>[k] ELSE rest[k - 1]
      BY <1>1, ConcatProperties, LenProperties
    <2>2. DOMAIN cache' = 1..Len(cache')
      BY <1>2, <2>1, LenProperties
    <2> QED
      BY <1>1, <1>2, <2>1, <2>2
  <1>3. CASE Cached(w) /\ cache' = <<e>> \o RemoveAt(cache, Place(w)) /\ UNCHANGED store
    <2> DEFINE p == Place(w)
               rest == RemoveAt(cache, p)
    <2>1. p \in 1..n /\ cache[p].word = w /\ \A j \in 1..n : cache[j].word = w => j = p
      BY <1>1, <1>3, <1>b, Lookup
    <2>2. /\ rest \in Seq(Entry) /\ Len(rest) = n - 1
          /\ \A k \in 1..n - 1 : rest[k] = IF k < p THEN cache[k] ELSE cache[k + 1]
      <3> DEFINE a == SubSeq(cache, 1, p - 1)
                 b == SubSeq(cache, p + 1, n)
      <3>1. /\ a \in Seq(Entry) /\ Len(a) = p - 1
            /\ \A k \in 1..p - 1 : a[k] = cache[k]
        <4>1. \A k \in 1..p - 1 : cache[k] \in Entry
          BY <1>1, <2>1
        <4>2. /\ a \in Seq(Entry)
              /\ Len(a) = IF 1 <= p - 1 THEN (p - 1) - 1 + 1 ELSE 0
              /\ \A k \in 1..(p - 1) - 1 + 1 : a[k] = cache[1 + k - 1]
          BY <2>1, <4>1, SubSeqProperties
        <4> HIDE DEF a
        <4> QED
          BY <2>1, <4>2
      <3>2. /\ b \in Seq(Entry) /\ Len(b) = n - p
            /\ \A k \in 1..n - p : b[k] = cache[p + k]
        <4>1. \A k \in p + 1..n : cache[k] \in Entry
          BY <1>1, <2>1
        <4>2. /\ b \in Seq(Entry)
              /\ Len(b) = IF p + 1 <= n THEN n - (p + 1) + 1 ELSE 0
              /\ \A k \in 1..n - (p + 1) + 1 : b[k] = cache[(p + 1) + k - 1]
          BY <1>1, <2>1, <4>1, SubSeqProperties
        <4>3. Len(b) = n - p
          BY <1>1, <2>1, <4>2
        <4>4. \A k \in 1..n - p : k \in 1..n - (p + 1) + 1 /\ (p + 1) + k - 1 = p + k
          BY <1>1, <2>1
        <4> HIDE DEF b, p
        <4> QED
          BY <4>2, <4>3, <4>4
      <3>3. /\ a \o b \in Seq(Entry) /\ Len(a \o b) = Len(a) + Len(b)
            /\ \A k \in 1..Len(a) + Len(b) : (a \o b)[k] = IF k <= Len(a) THEN a[k] ELSE b[k - Len(a)]
        BY <3>1, <3>2, ConcatProperties
      <3>4. rest = a \o b
        BY DEF RemoveAt, n
      <3> HIDE DEF a, b, rest, p
      <3>5. rest \in Seq(Entry) /\ Len(a) = p - 1 /\ Len(a) + Len(b) = n - 1 /\ Len(rest) = n - 1
        <4>1. \A x \in 1..n : (x - 1) + (n - x) = n - 1
          BY <1>1
        <4>2. Len(a) + Len(b) = n - 1
          BY <2>1, <3>1, <3>2, <4>1
        <4> QED
          BY <3>1, <3>3, <3>4, <4>2
      <3>6. ASSUME NEW k \in 1..n - 1
            PROVE  rest[k] = IF k < p THEN cache[k] ELSE cache[k + 1]
        <4>1. rest[k] = IF k <= p - 1 THEN a[k] ELSE b[k - (p - 1)]
          BY <3>3, <3>4, <3>5
        <4>2. CASE k < p
          <5>1. k <= p - 1 /\ k \in 1..p - 1
            BY <2>1, <4>2
          <5> QED
            BY <3>1, <4>1, <4>2, <5>1
        <4>3. CASE ~(k < p)
          <5>1. ~(k <= p - 1) /\ k - (p - 1) \in 1..n - p /\ p + (k - (p - 1)) = k + 1
            BY <1>1, <2>1, <4>3
          <5> QED
            BY <3>2, <4>1, <4>3, <5>1
        <4> QED
          BY <4>2, <4>3
      <3> QED
        BY <3>5, <3>6
    <2> HIDE DEF rest, p
    <2>3. /\ cache' \in Seq(Entry) /\ Len(cache') = n /\ DOMAIN cache' = 1..n
          /\ cache'[1] = e /\ \A k \in 2..n : cache'[k] = rest[k - 1]
      BY <1>1, <1>2, <1>3, <2>2 DEF rest, p
    <2>4. \A k \in 2..n : cache'[k] = IF k - 1 < p THEN cache[k - 1] ELSE cache[k]
      <3> SUFFICES ASSUME NEW k \in 2..n
                   PROVE  cache'[k] = IF k - 1 < p THEN cache[k - 1] ELSE cache[k]
        OBVIOUS
      <3>1. k - 1 \in 1..n - 1 /\ (k - 1) + 1 = k
        BY <1>1
      <3> QED
        BY <2>2, <2>3, <3>1
    <2>5. \A k \in 2..n : \E j \in 1..n : cache'[k] = cache[j] /\ j # p
      BY <1>1, <2>1, <2>4
    <2>6. ASSUME NEW j \in 1..n, j # p
          PROVE  \E k \in 2..n : cache'[k] = cache[j]
      <3>1. CASE j < p
        <4>1. j + 1 \in 2..n /\ (j + 1) - 1 = j
          BY <1>1, <2>1, <3>1
        <4> QED
          BY <2>4, <3>1, <4>1
      <3>2. CASE j > p
        <4>1. j \in 2..n /\ ~(j - 1 < p)
          BY <1>1, <2>1, <3>2
        <4> QED
          BY <2>4, <4>1
      <3> QED
        BY <2>1, <2>6, <3>1, <3>2
    <2>7. ASSUME NEW j \in 2..n, NEW k \in 2..n, cache'[j].word = cache'[k].word
          PROVE  j = k
      <3>1. PICK x \in 1..n : cache'[j] = cache[x] /\ x = IF j - 1 < p THEN j - 1 ELSE j
        BY <1>1, <2>1, <2>4
      <3>2. PICK y \in 1..n : cache'[k] = cache[y] /\ y = IF k - 1 < p THEN k - 1 ELSE k
        BY <1>1, <2>1, <2>4
      <3>3. x = y
        BY <1>b, <2>7, <3>1, <3>2
      <3> QED
        BY <1>1, <2>1, <3>1, <3>2, <3>3
    <2>8. store' = store /\ Len(cache') <= CacheSize
      BY <1>1, <1>3, <2>3
    <2>9. CacheTyped'
      BY <1>c, <1>d, <2>3, <2>8
    <2>10. \A k \in 2..n : \E j \in 1..n : cache'[k] = cache[j] /\ cache[j].word # w
      BY <2>1, <2>5
    <2>11. \A j \in 1..n : cache[j].word = w \/ \E k \in 2..n : cache'[k] = cache[j]
      BY <2>1, <2>6
    <2>12. n >= 1
      BY <1>1, <2>1
    <2> QED
      <3>1. Len(cache') >= 1 /\ cache'[1] = [word |-> w, docs |-> docs]
        BY <2>3, <2>12, <1>1 DEF e
      <3>2. \A k \in 2..Len(cache') : \E j \in DOMAIN cache : cache'[k] = cache[j] /\ cache[j].word # w
        BY <1>1, <2>3, <2>10
      <3>3. \A j \in DOMAIN cache : cache[j].word = w \/ \E k \in 2..Len(cache') : cache'[k] = cache[j]
        BY <1>1, <2>3, <2>11
      <3>4. \A j, k \in 2..Len(cache') : cache'[j].word = cache'[k].word => j = k
        BY <2>3, <2>7
      <3> QED
        BY ONLY <2>8, <2>9, <3>1, <3>2, <3>3, <3>4
  <1>4. CASE /\ ~Cached(w) /\ Full
             /\ cache' = <<e>> \o Front(cache)
             /\ store' = evict(Last(cache).word, Last(cache).docs)
    <2>1. n = CacheSize /\ n >= 1 /\ \A j \in 1..n : cache[j].word # w
      BY <1>1, <1>4, <1>e, <1>f
    <2>2. /\ Front(cache) \in Seq(Entry) /\ Len(Front(cache)) = n - 1
          /\ \A k \in 1..n - 1 : Front(cache)[k] = cache[k]
      <3>1. \A k \in 1..n - 1 : cache[k] \in Entry
        BY <1>1
      <3>2. /\ SubSeq(cache, 1, n - 1) \in Seq(Entry)
            /\ Len(SubSeq(cache, 1, n - 1)) = IF 1 <= n - 1 THEN (n - 1) - 1 + 1 ELSE 0
            /\ \A k \in 1..(n - 1) - 1 + 1 : SubSeq(cache, 1, n - 1)[k] = cache[1 + k - 1]
        BY <1>1, <3>1, SubSeqProperties
      <3> QED
        BY <1>1, <2>1, <3>2 DEF Front, n
    <2>3. /\ cache' \in Seq(Entry) /\ Len(cache') = n /\ DOMAIN cache' = 1..n
          /\ cache'[1] = e /\ \A k \in 2..n : cache'[k] = cache[k - 1]
      BY <1>1, <1>2, <1>4, <2>1, <2>2
    <2>4. store' = [store EXCEPT ![cache[n].word] = cache[n].docs]
      BY <1>4 DEF evict, Last, n
    <2>5. \A k \in 1..n : cache'[k].word # cache[n].word
      BY <1>1, <1>a, <1>b, <2>1, <2>3
    <2>6. \A k \in 2..n : \E j \in 1..n : cache'[k] = cache[j] /\ cache[j].word # w
      BY <1>1, <2>1, <2>3
    <2>7. \A j \in 1..n : (\E k \in 2..n : cache'[k] = cache[j]) \/ j = n
      <3> SUFFICES ASSUME NEW j \in 1..n, j # n
                   PROVE  cache'[j + 1] = cache[j] /\ j + 1 \in 2..n
        OBVIOUS
      <3> QED
        BY <1>1, <2>3
    <2>8. ASSUME NEW j \in 2..n, NEW k \in 2..n, cache'[j].word = cache'[k].word
          PROVE  j = k
      BY <1>1, <1>b, <2>3, <2>8
    <2>9. CacheTyped'
      <3>1. store' \in [Word -> Bitmap]
        BY <1>1, <1>d, <2>1, <2>4
      <3> QED
        BY <1>1, <1>c, <2>1, <2>3, <3>1
    <2>10. n \in 1..n /\ cache[n].word # w /\ Evicted(n)
      BY <1>1, <2>1, <2>3, <2>4, <2>5 DEF Evicted
    <2>11. \A j \in 1..n : (\E k \in 2..n : cache'[k] = cache[j]) \/ Evicted(j)
      BY <2>7, <2>10
    <2>12. \E j \in 1..n : cache[j].word # w /\ Evicted(j)
      BY <2>10
    <2> QED
      BY ONLY <1>1, <2>1, <2>3, <2>6, <2>8, <2>9, <2>11, <2>12 DEF e
  <1>5. CASE ~Cached(w) /\ ~Full /\ cache' = <<e>> \o cache /\ UNCHANGED store
    <2>1. n < CacheSize /\ \A j \in 1..n : cache[j].word # w
      BY <1>1, <1>5, <1>e, <1>f
    <2>2. /\ cache' \in Seq(Entry) /\ Len(cache') = n + 1 /\ DOMAIN cache' = 1..n + 1
          /\ cache'[1] = e /\ \A k \in 2..n + 1 : cache'[k] = cache[k - 1]
      BY <1>1, <1>2, <1>5
    <2>3. CacheTyped'
      BY <1>1, <1>5, <1>c, <1>d, <2>1, <2>2
    <2>4. \A k \in 2..n + 1 : \E j \in 1..n : cache'[k] = cache[j] /\ cache[j].word # w
      BY <1>1, <2>1, <2>2
    <2>5. \A j \in 1..n : \E k \in 2..n + 1 : cache'[k] = cache[j]
      <3> SUFFICES ASSUME NEW j \in 1..n
                   PROVE  cache'[j + 1] = cache[j] /\ j + 1 \in 2..n + 1
        OBVIOUS
      <3> QED
        BY <1>1, <2>2
    <2>6. ASSUME NEW j \in 2..n + 1, NEW k \in 2..n + 1, cache'[j].word = cache'[k].word
          PROVE  j = k
      BY <1>1, <1>b, <2>2, <2>6
    <2> QED
      <3>1. Len(cache') >= 1 /\ cache'[1] = [word |-> w, docs |-> docs]
        BY <1>1, <2>2 DEF e
      <3>2. \A k \in 2..Len(cache') : \E j \in DOMAIN cache : cache'[k] = cache[j] /\ cache[j].word # w
        BY <1>1, <2>2, <2>4
      <3>3. \A j \in DOMAIN cache : \E k \in 2..Len(cache') : cache'[k] = cache[j]
        BY <1>1, <2>2, <2>5
      <3>4. \A j, k \in 2..Len(cache') : cache'[j].word = cache'[k].word => j = k
        BY <2>2, <2>6
      <3>5. store' = store
        BY <1>5
      <3> QED
        BY ONLY <2>3, <3>1, <3>2, <3>3, <3>4, <3>5
  <1> QED
    BY <1>3, <1>4, <1>5 DEF put, e

(* What a put does to the bitmaps a caller sees: it gives the word its new *)
(* one, and every other word keeps the one it had, in the cache or in the  *)
(* store.                                                                  *)
LEMMA PutLookup ==
    ASSUME CacheTyped, Distinct, NEW w \in Word, NEW docs \in Bitmap, put(w, docs)
    PROVE  /\ CacheTyped' /\ Distinct'
           /\ \A v \in Word : getOrCreate(v)' = IF v = w THEN docs ELSE getOrCreate(v)
           /\ \A v \in Word : store'[v] = store[v] \/ (v # w /\ store'[v] = getOrCreate(v))
  <1>1. /\ CacheTyped'
        /\ Len(cache') >= 1 /\ cache'[1] = [word |-> w, docs |-> docs]
        /\ \A k \in 2..Len(cache') : \E j \in DOMAIN cache :
              cache'[k] = cache[j] /\ cache[j].word # w
        /\ \A j, k \in 2..Len(cache') : cache'[j].word = cache'[k].word => j = k
        /\ \A j \in DOMAIN cache :
              \/ cache[j].word = w
              \/ \E k \in 2..Len(cache') : cache'[k] = cache[j]
              \/ Evicted(j)
        /\ store' = store \/ \E j \in DOMAIN cache : cache[j].word # w /\ Evicted(j)
    BY PutEntries
  <1>2. DOMAIN cache' = 1..Len(cache') /\ Len(cache') \in Nat
    BY <1>1, LenProperties DEF CacheTyped
  <1>3. 1 \in DOMAIN cache' /\ cache'[1].word = w /\ cache'[1].docs = docs
    BY <1>1, <1>2
  <1>4. \A k \in DOMAIN cache' : k = 1 \/ k \in 2..Len(cache')
    BY <1>2
  <1>5. \A k \in 2..Len(cache') : cache'[k].word # w
    BY <1>1
  <1>6. Distinct'
    BY <1>1, <1>3, <1>4, <1>5 DEF Distinct
  <1>7. \A v : Cached(v)' => Place(v)' \in DOMAIN cache' /\ cache'[Place(v)'].word = v
    BY DEF Cached, Place
  <1>8. ASSUME NEW v, NEW k \in DOMAIN cache', cache'[k].word = v
        PROVE  Cached(v)' /\ Place(v)' = k
    BY <1>6, <1>7, <1>8 DEF Cached, Distinct
  <1>9. ASSUME NEW v \in Word
        PROVE  getOrCreate(v)' = IF v = w THEN docs ELSE getOrCreate(v)
    <2>1. CASE v = w
      BY <1>3, <1>8, <2>1 DEF getOrCreate
    <2>2. CASE v # w /\ Cached(v)'
      <3>1. PICK k \in 2..Len(cache') : k = Place(v)' /\ cache'[k].word = v
        BY <1>3, <1>4, <1>7, <2>2
      <3>2. PICK j \in DOMAIN cache : cache'[k] = cache[j]
        BY <1>1, <3>1
      <3>3. getOrCreate(v) = cache[j].docs
        BY <3>1, <3>2, Lookup
      <3> QED
        BY <2>2, <3>1, <3>2, <3>3 DEF getOrCreate
    <2>3. CASE v # w /\ ~Cached(v)' /\ Cached(v)
      <3>1. PICK j \in DOMAIN cache : cache[j].word = v /\ getOrCreate(v) = cache[j].docs
        BY <2>3, Lookup DEF getOrCreate
      <3>2. ~\E k \in 2..Len(cache') : cache'[k] = cache[j]
        BY <1>2, <2>3, <3>1 DEF Cached
      <3>3. Evicted(j)
        BY <1>1, <2>3, <3>1, <3>2
      <3>4. store'[v] = cache[j].docs
        BY <3>1, <3>3 DEF Evicted, CacheTyped
      <3> QED
        BY <2>3, <3>1, <3>4 DEF getOrCreate
    <2>4. CASE v # w /\ ~Cached(v)' /\ ~Cached(v)
      <3>1. store'[v] = store[v]
        <4>1. CASE store' = store
          BY <4>1
        <4>2. CASE \E j \in DOMAIN cache : Evicted(j)
          <5>1. PICK j \in DOMAIN cache : Evicted(j)
            BY <4>2
          <5>2. cache[j].word # v
            BY <2>4 DEF Cached
          <5> QED
            BY <5>1, <5>2 DEF Evicted, CacheTyped
        <4> QED
          BY <1>1, <4>1, <4>2
      <3> QED
        BY <2>4, <3>1 DEF getOrCreate
    <2> QED
      BY <2>1, <2>2, <2>3, <2>4
  <1>10. ASSUME NEW v \in Word, store'[v] # store[v]
         PROVE  v # w /\ store'[v] = getOrCreate(v)
    <2>1. PICK j \in DOMAIN cache : cache[j].word # w /\ Evicted(j)
      BY <1>1, <1>10
    <2>2. v = cache[j].word /\ store'[v] = cache[j].docs
      BY <1>10, <2>1 DEF Evicted, CacheTyped
    <2> QED
      BY <2>1, <2>2, Lookup
  <1> QED
    BY <1>1, <1>6, <1>9, <1>10

--------------------------------------------------------------------------------
(* The invariant.  Data is what is said of the postings: Conserved, the    *)
(* bitmap in the store is behind the one in the cache, and the documents   *)
(* are those of the past.  Control says when the consumer has postings in  *)
(* its hands, and that it is gone once the client has joined it.           *)
Kept == \A w \in Word : added[w] = getOrCreate(w) \o consumer[w] \o producer[w]
Older == \A w \in Word : \A k \in DOMAIN added[w] : added[w][k] < nextDocId
StoreBehind == \A w \in Word : IsPrefix(store[w], getOrCreate(w))

DataTyped ==
    /\ producer \in [Word -> Bitmap] /\ consumer \in [Word -> Bitmap]
    /\ CacheTyped
    /\ added \in [Word -> Bitmap]
    /\ nextDocId \in 1..(MaxDocs + 1)

Data ==
    /\ DataTyped /\ Distinct /\ Kept /\ Older /\ StoreBehind
    /\ batchsize = Cardinality(Postings(producer))

Control ==
    /\ maxbatchsize \in Nat /\ localSize \in Nat
    /\ done \in BOOLEAN /\ expired \in BOOLEAN /\ destroying \in BOOLEAN
    /\ consumerPc \in {"loop", "read", "waiting", "test", "exchange", "flush", "exited"}
    /\ clientPc \in {"idle", "flush", "waiting", "stop", "notify", "join", "evictAll", "destroyed"}
    /\ consumerPc # "flush" => consumer = NoPostings
    /\ done /\ clientPc \notin {"notify", "join"} => consumerPc = "exited"
    /\ clientPc \in {"notify", "join", "evictAll", "destroyed"} => done
    /\ clientPc = "destroyed" => \A w \in Word : store[w] = getOrCreate(w)

BufferInv == Data /\ Control

data == <<producer, consumer, batchsize, cache, store, nextDocId, added>>

(* The pairs of a vector are finitely many, and an empty one has none.     *)
LEMMA PostingsFinite ==
    ASSUME NEW v
    PROVE  /\ IsFiniteSet(Postings(v)) /\ Cardinality(Postings(v)) \in Nat
           /\ v = NoPostings => Cardinality(Postings(v)) = 0
  <1>1. IsFiniteSet(Word \X DocId)
    <2>1. MaxWord \in Int /\ MaxDocs \in Int /\ 1 \in Int
      BY BoundsAssumption
    <2>2. IsFiniteSet(1..MaxWord) /\ IsFiniteSet(1..MaxDocs)
      BY <2>1, FS_Interval
    <2>3. IsFiniteSet(Word) /\ IsFiniteSet(DocId)
      BY <2>2 DEF Word, DocId
    <2> QED
      BY <2>3, FS_Product
  <1>2. Postings(v) \subseteq Word \X DocId
    BY DEF Postings
  <1>3. IsFiniteSet(Postings(v))
    BY <1>1, <1>2, FS_Subset
  <1>4. ASSUME v = NoPostings PROVE Postings(v) = {}
    BY <1>4 DEF Postings, NoPostings, ToSet
  <1> QED
    BY <1>3, <1>4, FS_CardinalityType, FS_EmptySet

(* Steps that touch no posting.                                            *)
LEMMA SteadyData ==
    ASSUME Data, UNCHANGED data
    PROVE  Data' /\ \A w : getOrCreate(w)' = getOrCreate(w)
  <1>1. \A w : getOrCreate(w)' = getOrCreate(w)
    BY DEF data, getOrCreate, Cached, Place
  <1>2. DataTyped' /\ Distinct'
    BY DEF data, Data, DataTyped, CacheTyped, Distinct
  <1>3. Kept' /\ Older' /\ StoreBehind'
    BY <1>1 DEF data, Data, Kept, Older, StoreBehind
  <1> QED
    BY <1>1, <1>2, <1>3 DEF data, Data

(* add: the document is the last of its words everywhere.                  *)
LEMMA EnterData ==
    ASSUME Data, NEW ws \in SUBSET Word, NEW notify, Enter(ws, notify)
    PROVE  Data' /\ store' = store
  <1> DEFINE d == nextDocId
  <1> USE DEF Enter, Data
  <1>1. d \in DocId /\ nextDocId' = d + 1 /\ d + 1 \in 1..(MaxDocs + 1)
    BY BoundsAssumption DEF DocId
  <1>2. UNCHANGED <<consumer, cache, store>>
    OBVIOUS
  <1>3. \A w : getOrCreate(w)' = getOrCreate(w)
    BY <1>2 DEF getOrCreate, Cached, Place
  <1>4. CacheTyped' /\ Distinct' /\ StoreBehind'
    BY <1>2, <1>3 DEF CacheTyped, Distinct, StoreBehind, DataTyped
  <1>5. ASSUME NEW w \in Word
        PROVE  /\ producer[w] \in Bitmap /\ consumer[w] \in Bitmap /\ added[w] \in Bitmap
               /\ getOrCreate(w) \in Bitmap
               /\ producer[w] \in Seq(DocId) /\ consumer[w] \in Seq(DocId)
               /\ getOrCreate(w) \in Seq(DocId) /\ getOrCreate(w) \o consumer[w] \in Seq(DocId)
    <2>1. producer[w] \in Bitmap /\ consumer[w] \in Bitmap /\ added[w] \in Bitmap /\ getOrCreate(w) \in Bitmap
      BY LookupTyped DEF DataTyped
    <2> QED
      BY <2>1, ConcatProperties DEF Bitmap
  <1>6. ASSUME NEW w \in ws
        PROVE  /\ added[w] \o <<d>> \in Bitmap
               /\ \A k \in DOMAIN (added[w] \o <<d>>) : (added[w] \o <<d>>)[k] < d + 1
               /\ producer[w] \o <<d>> \in Bitmap
               /\ ToSet(producer[w] \o <<d>>) = ToSet(producer[w]) \cup {d}
               /\ added[w] \o <<d>> = getOrCreate(w) \o consumer[w] \o (producer[w] \o <<d>>)
    <2>1. w \in Word
      OBVIOUS
    <2>2. /\ added[w] \o <<d>> \in Bitmap
          /\ \A k \in DOMAIN (added[w] \o <<d>>) : (added[w] \o <<d>>)[k] < d + 1
      BY <1>1, <1>5, <2>1, ExtendBitmap DEF Older
    <2>3. <<d>> \in Seq(DocId)
      BY <1>1
    <2>4. added[w] \o <<d>> = getOrCreate(w) \o consumer[w] \o (producer[w] \o <<d>>)
      <3>1. added[w] = getOrCreate(w) \o consumer[w] \o producer[w]
        BY DEF Kept
      <3>2. getOrCreate(w) \o consumer[w] \in Seq(DocId) /\ producer[w] \in Seq(DocId)
        BY <1>5
      <3> DEFINE g == getOrCreate(w) \o consumer[w]
                 p == producer[w]
                 u == <<d>>
      <3>3. (g \o p) \o u = g \o (p \o u)
        <4>1. g \in Seq(DocId) /\ p \in Seq(DocId) /\ u \in Seq(DocId)
          BY <2>3, <3>2
        <4> HIDE DEF g, p, u
        <4> QED
          BY <4>1, ConcatAssociative
      <3> QED
        BY ONLY <3>1, <3>3
    <2>5. producer[w] \o <<d>> \in Seq(DocId)
      BY <1>5, <2>1, <2>3, ConcatProperties
    <2>6. producer[w] \o <<d>> \in Bitmap
      BY <1>5, <2>1, <2>2, <2>4, <2>5, PartsOfBitmap
    <2>7. ToSet(producer[w] \o <<d>>) = ToSet(producer[w]) \cup {d}
      <3>1. /\ Len(producer[w] \o <<d>>) = Len(producer[w]) + 1 /\ Len(producer[w]) \in Nat
            /\ DOMAIN producer[w] = 1..Len(producer[w])
            /\ DOMAIN (producer[w] \o <<d>>) = 1..Len(producer[w]) + 1
            /\ \A k \in 1..Len(producer[w]) : (producer[w] \o <<d>>)[k] = producer[w][k]
            /\ (producer[w] \o <<d>>)[Len(producer[w]) + 1] = d
        BY <1>5, <2>1, <2>3, <2>5, ConcatProperties, LenProperties
      <3> DEFINE s == producer[w]
                 t == producer[w] \o <<d>>
                 n == Len(producer[w])
      <3>2. DOMAIN s = 1..n /\ DOMAIN t = 1..n + 1 /\ n \in Nat /\ t[n + 1] = d /\ \A k \in 1..n : t[k] = s[k]
        BY <3>1
      <3> HIDE DEF s, t, n, d
      <3>3. ToSet(t) = ToSet(s) \cup {d}
        <4>1. \A k \in 1..n + 1 : k \in 1..n \/ k = n + 1
          BY <3>2
        <4>2. \A k \in 1..n : k \in 1..n + 1
          BY <3>2
        <4>3. n + 1 \in 1..n + 1
          BY <3>2
        <4> QED
          BY <3>2, <4>1, <4>2, <4>3 DEF ToSet
      <3> QED
        BY <3>3 DEF s, t
    <2> QED
      BY <2>2, <2>4, <2>6, <2>7
  <1>7. DataTyped'
    BY <1>1, <1>2, <1>4, <1>5, <1>6 DEF DataTyped
  <1>8. Kept'
    BY <1>2, <1>3, <1>6 DEF Kept
  <1>9. Older'
    <2> SUFFICES ASSUME NEW w \in Word, NEW k \in DOMAIN added'[w]
                 PROVE  added'[w][k] < d + 1
      BY <1>1 DEF Older
    <2>1. CASE w \in ws
      BY <1>6, <2>1
    <2>2. CASE w \notin ws
      <3>1. added'[w] = added[w] /\ added[w][k] < d
        BY <2>2 DEF Older
      <3>2. added[w][k] \in DocId
        BY <1>5, <3>1, LenProperties, ElementOfSeq DEF Bitmap
      <3> QED
        BY <1>1, <3>1, <3>2 DEF DocId
    <2> QED
      BY <2>1, <2>2
  <1>10. batchsize' = Cardinality(Postings(producer'))
    <2>1. Postings(producer') = Postings(producer) \cup (ws \X {d})
      <3>1. \A w \in Word : ToSet(producer'[w]) = IF w \in ws THEN ToSet(producer[w]) \cup {d} ELSE ToSet(producer[w])
        BY <1>6
      <3> QED
        BY <1>1, <3>1 DEF Postings
    <2>2. Postings(producer) \cap (ws \X {d}) = {}
      <3> SUFFICES ASSUME NEW w \in ws, d \in ToSet(producer[w]) PROVE FALSE
        BY DEF Postings
      <3>1. PICK k \in DOMAIN producer[w] : producer[w][k] = d
        BY DEF ToSet
      <3> DEFINE g == getOrCreate(w) \o consumer[w]
      <3>2. g \in Seq(DocId) /\ producer[w] \in Seq(DocId) /\ added[w] = g \o producer[w]
        BY <1>5 DEF Kept
      <3> HIDE DEF g
      <3>3. /\ Len(g) \in Nat /\ Len(producer[w]) \in Nat /\ k \in 1..Len(producer[w])
            /\ added[w] \in Seq(DocId)
            /\ Len(added[w]) = Len(g) + Len(producer[w])
            /\ \A i \in 1..Len(g) + Len(producer[w]) :
                  added[w][i] = IF i <= Len(g) THEN g[i] ELSE producer[w][i - Len(g)]
        BY <3>2, ConcatProperties, LenProperties
      <3>4. DOMAIN added[w] = 1..Len(g) + Len(producer[w])
        BY <3>3, LenProperties
      <3>5. Len(g) + k \in DOMAIN added[w] /\ added[w][Len(g) + k] = d
        <4>1. Len(g) + k \in 1..Len(g) + Len(producer[w]) /\ ~(Len(g) + k <= Len(g)) /\ Len(g) + k - Len(g) = k
          BY <3>3
        <4>2. PICK m \in 1..Len(g) + Len(producer[w]) : m = Len(g) + k
          BY <4>1
        <4>3. added[w][m] = producer[w][m - Len(g)]
          <5>1. ~(m <= Len(g))
            BY <4>1, <4>2
          <5> QED
            BY ONLY <3>3, <5>1
        <4>4. m - Len(g) = k
          <5>1. Len(g) \in Nat /\ k \in Nat
            BY <3>3
          <5> QED
            BY ONLY <4>2, <5>1
        <4>5. added[w][m] = d
          BY <3>1, <4>3, <4>4
        <4> QED
          BY <3>4, <4>2, <4>5
      <3> QED
        BY <1>1, <3>5 DEF Older, DocId
    <2>3. IsFiniteSet(ws) /\ Cardinality(ws) \in Nat
      <3>1. MaxWord \in Int /\ 1 \in Int
        BY BoundsAssumption
      <3>2. IsFiniteSet(1..MaxWord) /\ ws \subseteq 1..MaxWord
        BY <3>1, FS_Interval DEF Word
      <3>3. IsFiniteSet(ws)
        BY ONLY <3>2, FS_Subset
      <3> QED
        BY <3>3, FS_CardinalityType
    <2>4. IsFiniteSet(ws \X {d}) /\ Cardinality(ws \X {d}) = Cardinality(ws)
      <3>1. IsFiniteSet({d}) /\ Cardinality({d}) = 1
        BY FS_Singleton
      <3>2. IsFiniteSet(ws \X {d}) /\ Cardinality(ws \X {d}) = Cardinality(ws) * 1
        BY <2>3, <3>1, FS_Product
      <3> QED
        BY <2>3, <3>2
    <2>5. Cardinality(Postings(producer')) = Cardinality(Postings(producer)) + Cardinality(ws) - 0
      <3> DEFINE P == Postings(producer)
                 N == ws \X {d}
      <3>1. IsFiniteSet(P) /\ IsFiniteSet(N) /\ P \cap N = {} /\ Postings(producer') = P \cup N
        BY <2>1, <2>2, <2>4, PostingsFinite
      <3> HIDE DEF P, N
      <3>2. Cardinality(P \cup N) = Cardinality(P) + Cardinality(N) - Cardinality(P \cap N)
        BY <3>1, FS_Union
      <3>3. Cardinality(P \cap N) = 0
        BY <3>1, FS_EmptySet
      <3>4. Cardinality(N) = Cardinality(ws)
        BY <2>4 DEF N
      <3> QED
        BY <3>1, <3>2, <3>3, <3>4 DEF P
    <2> QED
      BY <2>3, <2>5, PostingsFinite
  <1> QED
    BY <1>2, <1>4, <1>7, <1>8, <1>9, <1>10

(* exchange: the vectors trade places, and the consumer's was empty.       *)
LEMMA ExchangeData ==
    ASSUME Data, Control, ConsumerExchange
    PROVE  Data' /\ store' = store
  <1> USE DEF ConsumerExchange, Data
  <1>1. producer' = NoPostings /\ consumer' = producer /\ UNCHANGED <<cache, store, added, nextDocId>>
    BY DEF Control, clientVars
  <1>2. \A w : getOrCreate(w)' = getOrCreate(w)
    BY <1>1 DEF getOrCreate, Cached, Place
  <1>3. CacheTyped' /\ Distinct' /\ StoreBehind' /\ Older' /\ DataTyped'
    <2>1. producer' \in [Word -> Bitmap] /\ consumer' \in [Word -> Bitmap]
      BY DEF DataTyped
    <2> QED
      BY <1>1, <1>2, <2>1 DEF CacheTyped, Distinct, StoreBehind, Older, DataTyped
  <1>4. ASSUME NEW w \in Word
        PROVE  added[w] = getOrCreate(w) \o producer[w] \o <<>>
    <2> DEFINE g == getOrCreate(w)
               p == producer[w]
    <2>1. g \in Seq(DocId) /\ p \in Seq(DocId) /\ added[w] = g \o <<>> \o p
      <3>1. consumer[w] = <<>>
        BY DEF Control, NoPostings
      <3> QED
        BY <3>1, LookupTyped DEF DataTyped, Bitmap, Kept
    <2> HIDE DEF g, p
    <2>2. g \o p \in Seq(DocId)
      BY <2>1, ConcatProperties
    <2>3. added[w] = g \o p \o <<>>
      BY <2>1, <2>2, ConcatEmptySeq
    <2> QED
      BY <2>3 DEF g, p
  <1>5. Kept'
    BY <1>1, <1>2, <1>4 DEF Kept, NoPostings
  <1>6. batchsize' = Cardinality(Postings(producer'))
    BY <1>1, PostingsFinite
  <1> QED
    BY <1>1, <1>3, <1>5, <1>6

(* flushInBackground for one word: its documents move to its bitmap.       *)
LEMMA FlushWordData ==
    ASSUME Data, ConsumerFlushWord
    PROVE  Data' /\ \A w \in Word : IsPrefix(store[w], store'[w])
  <1> USE DEF Data
  <1>1. PICK w \in Word : /\ put(w, getOrCreate(w) \o consumer[w])
                          /\ consumer' = [consumer EXCEPT ![w] = <<>>]
                          /\ UNCHANGED <<producer, batchsize, added, nextDocId>>
    BY DEF ConsumerFlushWord, clientVars
  <1>2. ASSUME NEW v \in Word
        PROVE  /\ getOrCreate(v) \in Bitmap /\ consumer[v] \in Bitmap /\ producer[v] \in Bitmap
               /\ getOrCreate(v) \in Seq(DocId) /\ consumer[v] \in Seq(DocId) /\ producer[v] \in Seq(DocId)
               /\ store[v] \in Seq(DocId) /\ added[v] \in Bitmap
               /\ getOrCreate(v) \o consumer[v] \in Seq(DocId)
    <2>1. getOrCreate(v) \in Bitmap /\ consumer[v] \in Bitmap /\ producer[v] \in Bitmap /\ store[v] \in Bitmap
          /\ added[v] \in Bitmap
      BY LookupTyped DEF DataTyped, CacheTyped
    <2> QED
      BY <2>1, ConcatProperties DEF Bitmap
  <1>3. getOrCreate(w) \o consumer[w] \in Bitmap
    BY <1>2, PartsOfBitmap DEF Kept
  <1>4. /\ CacheTyped' /\ Distinct'
        /\ \A v \in Word : getOrCreate(v)' = IF v = w THEN getOrCreate(w) \o consumer[w] ELSE getOrCreate(v)
        /\ \A v \in Word : store'[v] = store[v] \/ (v # w /\ store'[v] = getOrCreate(v))
    BY <1>1, <1>3, PutLookup DEF DataTyped
  <1>5. DataTyped'
    <2>1. <<>> \in Bitmap
      BY DEF Bitmap, Increasing
    <2> QED
      BY <1>1, <1>4, <2>1 DEF DataTyped
  <1>6. Kept'
    <2> SUFFICES ASSUME NEW v \in Word
                 PROVE  added'[v] = getOrCreate(v)' \o consumer'[v] \o producer'[v]
      BY DEF Kept
    <2>1. CASE v # w
      BY <1>1, <1>4, <2>1 DEF Kept, DataTyped
    <2>2. CASE v = w
      <3>1. consumer'[v] = <<>> /\ getOrCreate(v)' = getOrCreate(w) \o consumer[w] /\ added'[v] = added[w]
            /\ producer'[v] = producer[w]
        BY <1>1, <1>4, <2>2 DEF DataTyped
      <3>2. (getOrCreate(w) \o consumer[w]) \o <<>> = getOrCreate(w) \o consumer[w]
        BY <1>2, ConcatEmptySeq
      <3>3. added[w] = getOrCreate(w) \o consumer[w] \o producer[w]
        BY DEF Kept
      <3> QED
        BY <3>1, <3>2, <3>3
    <2> QED
      BY <2>1, <2>2
  <1>7. Older'
    BY <1>1 DEF Older
  <1>8. ASSUME NEW v \in Word
        PROVE  IsPrefix(store[v], store'[v]) /\ IsPrefix(store'[v], getOrCreate(v)')
    <2>1. IsPrefix(store[v], getOrCreate(v)) /\ IsPrefix(store[v], store[v])
          /\ IsPrefix(getOrCreate(v), getOrCreate(v))
      <3>1. IsPrefix(store[v], getOrCreate(v))
        BY DEF StoreBehind
      <3> QED
        BY <1>2, <3>1, PrefixByElement
    <2>2. CASE v = w
      <3>1. IsPrefix(store[w], getOrCreate(w) \o consumer[w])
        BY <1>2, <2>1, <2>2, PrefixOfConcat
      <3> QED
        BY <1>4, <2>1, <2>2, <3>1
    <2>3. CASE v # w
      BY <1>4, <2>1, <2>3
    <2> QED
      BY <2>2, <2>3
  <1> QED
    BY <1>1, <1>4, <1>5, <1>6, <1>7, <1>8 DEF StoreBehind

(* evictAll: the store gets the bitmaps of the cache.                      *)
LEMMA EvictAllData ==
    ASSUME Data, DestroyCache
    PROVE  /\ Data' /\ \A w \in Word : IsPrefix(store[w], store'[w])
           /\ \A w \in Word : store'[w] = getOrCreate(w)'
  <1> USE DEF Data
  <1>1. UNCHANGED <<producer, consumer, batchsize, cache, added, nextDocId>> /\ store' = evictAll
    BY DEF DestroyCache
  <1>2. \A w \in Word : getOrCreate(w) \in Bitmap
    BY LookupTyped DEF DataTyped
  <1>3. ASSUME NEW w \in Word
        PROVE  getOrCreate(w)' = getOrCreate(w) /\ store'[w] = getOrCreate(w)
    BY <1>1 DEF evictAll, getOrCreate, Cached, Place
  <1>4. store' \in [Word -> Bitmap]
    BY <1>1, <1>2 DEF evictAll
  <1>5. DataTyped' /\ Distinct'
    BY <1>1, <1>4 DEF DataTyped, CacheTyped, Distinct
  <1>6. Kept' /\ Older'
    BY <1>1, <1>3 DEF Kept, Older
  <1>7. StoreBehind'
    <2>1. \A w \in Word : IsPrefix(getOrCreate(w), getOrCreate(w))
      BY <1>2, PrefixByElement DEF Bitmap
    <2> QED
      BY <1>3, <2>1 DEF StoreBehind
  <1> QED
    BY <1>1, <1>3, <1>5, <1>6, <1>7 DEF StoreBehind

--------------------------------------------------------------------------------
(* At the start the store has the bitmaps of an earlier run, and nothing   *)
(* is in the vectors or in the cache.                                      *)
LEMMA InitBuffer == Init => BufferInv
  <1> SUFFICES ASSUME Init PROVE BufferInv
    OBVIOUS
  <1> USE DEF Init
  <1>1. nextDocId \in Nat /\ nextDocId \in 1..(MaxDocs + 1) /\ 1..(nextDocId - 1) \subseteq DocId
    BY BoundsAssumption DEF DocId
  <1>2. ASSUME NEW w \in Word
        PROVE  /\ store[w] \in Bitmap
               /\ \A k \in DOMAIN store[w] : store[w][k] < nextDocId
    <2>1. store[w] \in BoundedSeq(1..(nextDocId - 1), MaxOldDocs) /\ Increasing(store[w])
      OBVIOUS
    <2>2. PICK m \in 0..MaxOldDocs : store[w] \in [1..m -> 1..(nextDocId - 1)]
      BY <2>1 DEF BoundedSeq, SeqOf
    <2>3. m \in Nat /\ store[w] \in [1..m -> DocId]
      BY <1>1, <2>2, BoundsAssumption
    <2>4. store[w] \in Seq(DocId)
      BY <2>3, IsASeq
    <2>5. ASSUME NEW k \in DOMAIN store[w] PROVE store[w][k] < nextDocId
      BY <1>1, <2>2
    <2> QED
      BY <2>1, <2>4, <2>5 DEF Bitmap
  <1>3. store \in [Word -> Bitmap]
    BY <1>2
  <1>4. NoPostings \in [Word -> Bitmap]
    BY DEF NoPostings, Bitmap, Increasing
  <1>5. CacheTyped /\ Distinct
    BY <1>3, CacheSizeAssumption DEF CacheTyped, Distinct
  <1>6. DataTyped /\ Older
    BY <1>1, <1>2, <1>3, <1>4, <1>5 DEF DataTyped, Older
  <1>7. ASSUME NEW w \in Word
        PROVE  getOrCreate(w) = store[w] /\ store[w] \in Seq(DocId)
    BY <1>2 DEF getOrCreate, Cached, Bitmap
  <1>8. Kept
    <2> SUFFICES ASSUME NEW w \in Word PROVE store[w] = store[w] \o <<>> \o <<>>
      BY <1>7 DEF Kept, NoPostings
    <2> QED
      BY <1>7, ConcatEmptySeq
  <1>9. StoreBehind
    BY <1>7, PrefixByElement DEF StoreBehind
  <1>10. batchsize = Cardinality(Postings(producer))
    BY PostingsFinite
  <1>11. Control
    BY BatchAssumption DEF Control
  <1> QED
    BY <1>5, <1>6, <1>8, <1>9, <1>10, <1>11 DEF BufferInv, Data

(* Every step keeps the invariant, and only ever extends stored bitmaps.   *)
LEMMA NextBuffer ==
    ASSUME BufferInv, [Next]_vars
    PROVE  BufferInv' /\ \A w \in Word : IsPrefix(store[w], store'[w])
  <1> USE DEF BufferInv
  <1>1. ASSUME store' = store PROVE \A w \in Word : IsPrefix(store[w], store'[w])
    <2>1. \A w \in Word : store[w] \in Seq(DocId)
      BY DEF Data, DataTyped, CacheTyped, Bitmap
    <2> QED
      BY <1>1, <2>1, PrefixByElement
  <1>2. ASSUME UNCHANGED data, Control' PROVE BufferInv' /\ \A w \in Word : IsPrefix(store[w], store'[w])
    BY <1>1, <1>2, SteadyData DEF data
  <1>3. ASSUME UNCHANGED data
        PROVE  (\A w \in Word : store[w] = getOrCreate(w)) => \A w \in Word : store'[w] = getOrCreate(w)'
    BY <1>3, SteadyData DEF data
  <1>4. batchsize \in Nat
    BY PostingsFinite DEF Data
  <1>5. CASE ConsumerLoop
    BY <1>2, <1>3, <1>5 DEF ConsumerLoop, Control, data, clientVars
  <1>6. CASE ConsumerRead
    BY <1>2, <1>3, <1>4, <1>6 DEF ConsumerRead, Leave, Control, data, clientVars
  <1>7. CASE Timeout
    BY <1>2, <1>3, <1>7 DEF Timeout, Control, data, clientVars
  <1>8. CASE ConsumerTest
    BY <1>2, <1>3, <1>8 DEF ConsumerTest, Leave, Control, data, clientVars
  <1>9. CASE ConsumerExchange
    <2>1. Control'
      BY <1>9 DEF ConsumerExchange, Control, clientVars
    <2> QED
      BY <1>1, <1>9, <2>1, ExchangeData
  <1>10. CASE ConsumerFlushWord
    <2>1. Control'
      BY <1>10 DEF ConsumerFlushWord, Control, clientVars
    <2> QED
      BY <1>10, <2>1, FlushWordData
  <1>11. CASE ConsumerNotify
    BY <1>2, <1>3, <1>11 DEF ConsumerNotify, Control, data
  <1>12. CASE SpuriousWakeup
    BY <1>2, <1>3, <1>12 DEF SpuriousWakeup, Control, data
  <1>13. CASE FlushTest
    BY <1>2, <1>3, <1>13 DEF FlushTest, Control, data
  <1>14. CASE StopSet
    BY <1>2, <1>3, <1>14 DEF StopSet, Stopped, Control, data
  <1>15. CASE StopNotify
    BY <1>2, <1>3, <1>15 DEF StopNotify, Notified, Control, data
  <1>16. CASE StopJoin
    BY <1>2, <1>3, <1>16 DEF StopJoin, Stopped, Control, data
  <1>17. CASE DestroyCache
    <2>1. Control'
      BY <1>17, EvictAllData DEF DestroyCache, Control
    <2> QED
      BY <1>17, <2>1, EvictAllData
  <1>18. ASSUME NEW n \in MaxBatches, setMaxBatchSize(n)
         PROVE  BufferInv' /\ \A w \in Word : IsPrefix(store[w], store'[w])
    BY <1>2, <1>3, <1>18, BatchAssumption DEF setMaxBatchSize, Control, data
  <1>19. ASSUME NEW ws \in SUBSET Word, add(ws) \/ addSet(ws)
         PROVE  BufferInv' /\ \A w \in Word : IsPrefix(store[w], store'[w])
    <2>1. PICK notify : Enter(ws, notify)
      BY <1>19 DEF add, addSet
    <2>2. Control'
      BY <1>19, <2>1 DEF add, addSet, Enter, Notified, Control
    <2> QED
      BY <1>1, <2>1, <2>2, EnterData
  <1>20. CASE flushBatch \/ shutDownBatchProcessor \/ Destroy
    BY <1>2, <1>3, <1>20 DEF flushBatch, shutDownBatchProcessor, Destroy, Control, data
  <1>21. CASE UNCHANGED vars
    BY <1>2, <1>3, <1>21 DEF vars, clientVars, Control, data
  <1> QED
    BY <1>5, <1>6, <1>7, <1>8, <1>9, <1>10, <1>11, <1>12, <1>13, <1>14, <1>15, <1>16, <1>17, <1>18,
       <1>19, <1>20, <1>21 DEF Next, ConsumerNext, ClientStep

(* BufferInv holds in every state of the two threads: between a client's   *)
(* add and the consumer's exchange, flush and evictions no posting is      *)
(* lost, doubled or out of order, and the store lags behind the cache.     *)
THEOREM BufferInvariant == Spec => []BufferInv
  BY InitBuffer, NextBuffer, PTL DEF Spec

(* The two vectors, the cached and the stored bitmaps are sorted, and the  *)
(* cache never holds more than its capacity.                               *)
THEOREM BufferTypeCorrect == Spec => []TypeOK
  <1>1. BufferInv => TypeOK
    BY PostingsFinite DEF BufferInv, Data, DataTyped, CacheTyped, Control, TypeOK
  <1> QED
    BY <1>1, BufferInvariant, PTL

(* For every word the bitmap, the consumer's vector and the producer's one *)
(* make up the documents added, in order; batchsize is the size of the     *)
(* vector being filled, and no word is cached twice.                       *)
THEOREM NothingLostBetweenBuffers == Spec => []Conserved
  <1>1. BufferInv => Conserved
    BY DEF BufferInv, Data, Kept, Distinct, Conserved
  <1> QED
    BY <1>1, BufferInvariant, PTL

(* The destructor has written all that the consumer took.                  *)
THEOREM DestructorWritesAll == Spec => []DestructorWrites
  <1>1. BufferInv => DestructorWrites
    <2> SUFFICES ASSUME BufferInv, clientPc = "destroyed"
                 PROVE  consumer = NoPostings /\ \A w \in Word : added[w] = store[w] \o producer[w]
      BY DEF DestructorWrites
    <2>1. consumer = NoPostings /\ \A w \in Word : store[w] = getOrCreate(w)
      BY DEF BufferInv, Control
    <2>2. ASSUME NEW w \in Word
          PROVE  added[w] = store[w] \o producer[w]
      <3>1. added[w] = store[w] \o <<>> \o producer[w]
        BY <2>1 DEF BufferInv, Data, Kept, NoPostings
      <3>2. store[w] \in Seq(DocId)
        BY DEF BufferInv, Data, DataTyped, CacheTyped, Bitmap
      <3>3. store[w] \o <<>> = store[w]
        BY <3>2, ConcatEmptySeq
      <3> QED
        BY <3>1, <3>3
    <2> QED
      BY <2>1, <2>2
  <1> QED
    BY <1>1, BufferInvariant, PTL

(* A reader of the store sees bitmaps that are only ever extended, though  *)
(* cache and store disagree and evictions come in the middle of a batch.   *)
THEOREM StoreOnlyGrows == Spec => StoreGrows
  <1>1. BufferInv /\ [Next]_vars => [\A w \in Word : IsPrefix(store[w], store'[w])]_vars
    BY NextBuffer
  <1> QED
    BY <1>1, BufferInvariant, PTL DEF Spec, StoreGrows
================================================================================
