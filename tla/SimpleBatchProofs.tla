--------------------------- MODULE SimpleBatchProofs ---------------------------
(***************************************************************************)
(* Proofs about InvertedIndexSimpleBatch, for every set of words, every    *)
(* number of documents and every batch size: the types, the inductive      *)
(* invariant StagedWriting of the engine's program, what follows from it,  *)
(* and that the two threads implement PrefixIndex.                         *)
(***************************************************************************)
EXTENDS InvertedIndexSimpleBatch, FiniteSetTheorems, TLAPS

(* A function on some of the words is a map of the program.                *)
LEMMA MapToIntro ==
    ASSUME NEW S, NEW W \in SUBSET Word, NEW F(_), \A w \in W : F(w) \in S
    PROVE  [w \in W |-> F(w)] \in MapTo(S)
  BY DEF MapTo

(* What is known of a map of the program: its words, and their values.     *)
LEMMA MapToElim ==
    ASSUME NEW S, NEW m \in MapTo(S)
    PROVE  /\ DOMAIN m \subseteq Word
           /\ m \in [DOMAIN m -> S]
           /\ m = [w \in DOMAIN m |-> m[w]]
           /\ \A w \in DOMAIN m : m[w] \in S
  BY DEF MapTo

(* A function from some of the words is a map of the program.              *)
LEMMA MapToFun ==
    ASSUME NEW S, NEW W \in SUBSET Word, NEW m \in [W -> S]
    PROVE  m \in MapTo(S)
  BY DEF MapTo

(* The empty map is of every map type and has no postings.                 *)
LEMMA EmptyMap ==
    /\ \A S : Empty \in MapTo(S)
    /\ DOMAIN Empty = {}
    /\ PairsOf(Empty) = {}
  <1>1. DOMAIN Empty = {}
    BY DEF Empty
  <1>2. \A S : Empty \in [{} -> S]
    BY DEF Empty
  <1>3. \A S : Empty \in MapTo(S)
    BY <1>2 DEF MapTo
  <1>4. PairsOf(Empty) = {}
    BY <1>1 DEF PairsOf
  <1> QED BY <1>1, <1>3, <1>4

(* Merging documents into a bitmap gives a bitmap.                         *)
LEMMA MergeType ==
    ASSUME NEW b \in Bitmap, NEW D \in SUBSET DocId
    PROVE  Merge(b, D) \in Bitmap
  BY DEF Merge, Bitmap

(* The documents of a merged bitmap, and when it is sorted.                *)
LEMMA MergeFields ==
    ASSUME NEW b, NEW D
    PROVE  /\ Merge(b, D).docs = b.docs \cup D
           /\ b.sorted /\ (\A d \in D \ b.docs, x \in b.docs : x < d) => Merge(b, D).sorted
  <1>1. Merge(b, D).docs = b.docs \cup D
    BY DEF Merge
  <1>2. Merge(b, D).sorted = (b.sorted /\ \A d \in D \ b.docs, x \in b.docs : x < d)
    BY Zenon DEF Merge
  <1> QED BY <1>1, <1>2, Zenon

(* A bitmap created for a new word is sorted.                              *)
LEMMA MergeNew ==
    ASSUME NEW D
    PROVE  /\ Merge([docs |-> {}, sorted |-> TRUE], D).docs = D
           /\ Merge([docs |-> {}, sorted |-> TRUE], D).sorted = TRUE
  BY DEF Merge

(* get returns a bitmap whether or not the store has the word.             *)
LEMMA GetType ==
    ASSUME TypeOK, NEW w \in Word
    PROVE  get(w) \in Bitmap
  <1>1. store \in MapTo(Bitmap)
    BY DEF TypeOK
  <1>2. CASE w \in DOMAIN store
    BY <1>1, <1>2, MapToElim DEF get
  <1>3. CASE w \notin DOMAIN store
    BY <1>3 DEF get, Bitmap
  <1> QED BY <1>2, <1>3

(* Preparing one word in flush keeps the types.                            *)
LEMMA FlushWordType ==
    ASSUME TypeOK, NEW t \in Thread, FlushWord(t)
    PROVE  writes' \in [Thread -> MapTo(Bitmap)]
  <1>1. PICK w \in DOMAIN batch[t] \ DOMAIN writes[t] :
            writes' = [writes EXCEPT ![t] =
                [v \in DOMAIN writes[t] \cup {w} |->
                    IF v = w THEN Merge(get(w), batch[t][w]) ELSE writes[t][v]]]
    BY DEF FlushWord
  <1>2. /\ batch[t] \in MapTo(SUBSET DocId)
        /\ writes[t] \in MapTo(Bitmap)
        /\ writes \in [Thread -> MapTo(Bitmap)]
    BY DEF TypeOK
  <1>3. w \in Word /\ batch[t][w] \in SUBSET DocId
    BY <1>1, <1>2, MapToElim
  <1>4. DOMAIN writes[t] \subseteq Word /\ \A v \in DOMAIN writes[t] : writes[t][v] \in Bitmap
    BY <1>2, MapToElim
  <1>5. Merge(get(w), batch[t][w]) \in Bitmap
    BY <1>3, GetType, MergeType
  <1> DEFINE m == [v \in DOMAIN writes[t] \cup {w} |->
                      IF v = w THEN Merge(get(w), batch[t][w]) ELSE writes[t][v]]
  <1>6. m \in [DOMAIN writes[t] \cup {w} -> Bitmap]
    BY <1>4, <1>5
  <1>7. m \in MapTo(Bitmap)
    <2>1. DOMAIN writes[t] \cup {w} \in SUBSET Word
      BY <1>3, <1>4
    <2> HIDE DEF m
    <2> QED BY <2>1, <1>6, MapToFun
  <1> QED BY <1>1, <1>2, <1>7

(* The write at the end of flush keeps the types, successful or not.       *)
LEMMA FlushPutType ==
    ASSUME TypeOK, NEW t \in Thread, NEW ok \in BOOLEAN, FlushPut(t, ok)
    PROVE  /\ store' \in MapTo(Bitmap)
           /\ batch' \in [Thread -> MapTo(SUBSET DocId)]
           /\ writes' \in [Thread -> MapTo(Bitmap)]
  <1> DEFINE m == [w \in DOMAIN store \cup DOMAIN writes[t] |->
                      IF w \in DOMAIN writes[t] THEN writes[t][w] ELSE store[w]]
  <1>1. store' = IF ok THEN m ELSE store
    BY DEF FlushPut, Put, Written
  <1>2. /\ store \in MapTo(Bitmap)
        /\ writes[t] \in MapTo(Bitmap)
    BY DEF TypeOK
  <1>3. /\ DOMAIN store \subseteq Word /\ \A w \in DOMAIN store : store[w] \in Bitmap
        /\ DOMAIN writes[t] \subseteq Word /\ \A w \in DOMAIN writes[t] : writes[t][w] \in Bitmap
    BY <1>2, MapToElim
  <1>4. m \in [DOMAIN store \cup DOMAIN writes[t] -> Bitmap]
    BY <1>3
  <1>5. DOMAIN store \cup DOMAIN writes[t] \in SUBSET Word
    BY <1>3
  <1>6. m \in MapTo(Bitmap)
    <2> HIDE DEF m
    <2> QED BY <1>4, <1>5, MapToFun
  <1>7. batch' \in [Thread -> MapTo(SUBSET DocId)] /\ writes' \in [Thread -> MapTo(Bitmap)]
    BY EmptyMap DEF FlushPut, TypeOK
  <1> HIDE DEF m
  <1> QED BY <1>1, <1>2, <1>6, <1>7

(* Entering a document in the batch keeps its type.                        *)
LEMMA EnteredType ==
    ASSUME TypeOK, NEW d \in DocId, NEW ws \in SUBSET Word
    PROVE  Entered(d, ws) \in MapTo(SUBSET DocId)
  <1>1. postings \in MapTo(SUBSET DocId)
    BY DEF TypeOK
  <1>2. DOMAIN postings \subseteq Word /\ \A w \in DOMAIN postings : postings[w] \in SUBSET DocId
    BY <1>1, MapToElim
  <1>3. Entered(d, ws) \in [DOMAIN postings \cup ws -> SUBSET DocId]
    BY <1>2 DEF Entered
  <1>4. DOMAIN postings \cup ws \in SUBSET Word
    BY <1>2
  <1> QED BY <1>3, <1>4, MapToFun

(* The constructor establishes the types.                                  *)
LEMMA InitType == Init => TypeOK
  <1> SUFFICES ASSUME Init PROVE TypeOK
    OBVIOUS
  <1> DEFINE W == {v \in Word : \E d \in DocId : v \in wordsOf[d]}
  <1>1. store \in [W -> Bitmap]
    BY DEF Init, Bitmap
  <1>2. store \in MapTo(Bitmap)
    BY <1>1, W \in SUBSET Word, MapToFun
  <1>3. nextDocId \in 1..(MaxDocs + 1)
    BY BoundAssumption DEF Init
  <1>4. maxBatchSize \in Nat
    BY BatchSizeAssumption DEF Init
  <1>5. wordsOf \in [DocId -> SUBSET Word]
    BY DEF Init
  <1> HIDE DEF W
  <1> QED BY <1>2, <1>3, <1>4, <1>5, EmptyMap DEF Init, TypeOK, Thread, ProcPc, ClientPc

(* A flush that fails drops postings.                                      *)
LEMMA DroppedType ==
    ASSUME TypeOK, NEW t \in Thread, NEW ok \in BOOLEAN, Dropped(t, ok)
    PROVE  lost' \in SUBSET (Word \X DocId)
  BY DEF TypeOK, Dropped, PairsOf

(* Every operation, whichever program calls it and whether writes fail.    *)
AnyNext == DeleteNext \/ LoaderNext \/ FaultyNext

(* Every operation of either thread keeps the types.                       *)
LEMMA TypeStep == TypeOK /\ [AnyNext]_vars => TypeOK'
  <1> SUFFICES ASSUME TypeOK, [AnyNext]_vars PROVE TypeOK'
    OBVIOUS
  <1> USE DEF Thread, ProcPc, ClientPc, shared, history, Collected
  <1>1. ASSUME NEW ok \in BOOLEAN, ProcFlushPut(ok) PROVE TypeOK'
    BY <1>1, FlushPutType, DroppedType DEF ProcFlushPut, TypeOK
  <1>2. ASSUME NEW ok \in BOOLEAN, ClientFlushPut(ok) PROVE TypeOK'
    BY <1>2, FlushPutType, DroppedType, EmptyMap DEF ClientFlushPut, TypeOK
  <1>3. ASSUME NEW ok \in BOOLEAN, DestroyPut(ok) PROVE TypeOK'
    BY <1>3, FlushPutType, DroppedType, EmptyMap DEF DestroyPut, TypeOK
  <1>4. CASE ProcFlushWord \/ ClientFlushWord
    BY <1>4, FlushWordType DEF ProcFlushWord, ClientFlushWord, TypeOK
  <1>5. CASE ProcLoop \/ ProcLock \/ ProcTest \/ ProcWait \/ ProcDecide \/ SpuriousWakeup
    BY <1>5 DEF ProcLoop, ProcLock, ProcTest, ProcWait, ProcDecide, SpuriousWakeup, TypeOK
  <1>6. CASE ProcTake
    BY <1>6, EmptyMap DEF ProcTake, TypeOK
  <1>7. ASSUME NEW n \in BatchSizes, setMaxBatchSize(n) PROVE TypeOK'
    BY <1>7, BatchSizeAssumption DEF setMaxBatchSize, TypeOK
  <1>8. ASSUME NEW ws \in SUBSET Word, add(ws) PROVE TypeOK'
    <2>1. nextDocId \in DocId
      BY <1>8 DEF add
    <2>2. postings' \in MapTo(SUBSET DocId)
      BY <1>8, <2>1, EnteredType DEF add
    <2>3. batchSize' \in Nat
      <3>1. Cardinality(ws) \in Nat
        BY WordAssumption, FS_Subset, FS_CardinalityType
      <3> QED BY <1>8, <3>1 DEF add, TypeOK
    <2>4. nextDocId' \in 1..(MaxDocs + 1)
      BY <1>8, <2>1, BoundAssumption DEF add, DocId
    <2>5. wordsOf' \in [DocId -> SUBSET Word]
      BY <1>8 DEF add, TypeOK
    <2>6. batch' \in [Thread -> MapTo(SUBSET DocId)]
      BY <1>8, <2>2 DEF add, TypeOK
    <2>7. mutex' \in Thread \cup {"free"} /\ procPc' \in ProcPc /\ clientPc' \in ClientPc
      BY <1>8 DEF add, Notified, TypeOK
    <2>8. dataReady' \in BOOLEAN
      BY <1>8 DEF add, TypeOK
    <2>9. /\ store' \in MapTo(Bitmap) /\ maxBatchSize' \in Nat /\ done' \in BOOLEAN
          /\ destroying' \in BOOLEAN /\ writes' \in [Thread -> MapTo(Bitmap)]
          /\ removed' \in SUBSET (Word \X DocId) /\ lost' \in SUBSET (Word \X DocId)
      BY <1>8 DEF add, TypeOK
    <2> QED BY <2>2, <2>3, <2>4, <2>5, <2>6, <2>7, <2>8, <2>9 DEF TypeOK
  <1>9. CASE flushBatch \/ Destroy \/ ShutJoin
    BY <1>9 DEF flushBatch, Destroy, ShutJoin, TypeOK
  <1>10. CASE shutDownBatchProcessor \/ ShutSetReady \/ ShutSetDone \/ ShutNotify
    BY <1>10 DEF shutDownBatchProcessor, ShutSetReady, ShutSetDone, ShutNotify, Notified, TypeOK
  <1>11. ASSUME NEW w \in Word, NEW d \in DocId, remove(w, d) PROVE TypeOK'
    <2>1. postings \in MapTo(SUBSET DocId)
      BY DEF TypeOK
    <2>2. /\ DOMAIN postings \in SUBSET Word
          /\ \A v \in DOMAIN postings : postings[v] \in SUBSET DocId
          /\ postings \in [DOMAIN postings -> SUBSET DocId]
      BY <2>1, MapToElim
    <2>3. postings' \in [DOMAIN postings -> SUBSET DocId]
      BY <1>11, <2>2 DEF remove, Erased
    <2>4. postings' \in MapTo(SUBSET DocId)
      BY <2>2, <2>3, MapToFun
    <2>5. [v \in {w} |-> {d}] \in MapTo(SUBSET DocId)
      <3>1. [v \in {w} |-> {d}] \in [{w} -> SUBSET DocId] /\ {w} \in SUBSET Word
        OBVIOUS
      <3> QED BY <3>1, MapToFun
    <2>6. batch' \in [Thread -> MapTo(SUBSET DocId)]
      BY <1>11, <2>5 DEF remove, TypeOK
    <2>7. removed' \in SUBSET (Word \X DocId)
      BY <1>11 DEF remove, TypeOK
    <2> QED BY <1>11, <2>4, <2>6, <2>7 DEF remove, TypeOK
  <1>12. CASE RemoveMissing \/ RemoveThrows
    BY <1>12, EmptyMap DEF RemoveMissing, RemoveThrows, TypeOK, PairsOf
  <1>13. CASE RemoveGet
    <2> DEFINE m == [w \in DOMAIN batch["client"] |->
                        removeDocIds(store[w], batch["client"][w])]
    <2>1. batch["client"] \in MapTo(SUBSET DocId) /\ store \in MapTo(Bitmap)
      BY DEF TypeOK
    <2>2. DOMAIN batch["client"] \in SUBSET Word
      BY <2>1, MapToElim
    <2>3. \A w \in DOMAIN batch["client"] : store[w] \in Bitmap
      BY <1>13, <2>1, MapToElim DEF RemoveGet
    <2>4. m \in [DOMAIN batch["client"] -> Bitmap]
      BY <2>3, <2>1, MapToElim DEF Bitmap, removeDocIds
    <2>5. m \in MapTo(Bitmap)
      <3> HIDE DEF m
      <3> QED BY <2>2, <2>4, MapToFun
    <2> HIDE DEF m
    <2>6. writes' = [writes EXCEPT !["client"] = m]
      BY <1>13 DEF RemoveGet, m
    <2>7. writes' \in [Thread -> MapTo(Bitmap)]
      BY <2>5, <2>6 DEF TypeOK
    <2> QED BY <1>13, <2>7 DEF RemoveGet, TypeOK
  <1>14. ASSUME NEW ok \in BOOLEAN, RemovePut(ok) PROVE TypeOK'
    BY <1>14, FlushPutType DEF RemovePut, TypeOK, PairsOf
  <1>15. CASE UNCHANGED vars
    BY <1>15 DEF vars, TypeOK
  <1> QED
    BY <1>1, <1>2, <1>3, <1>4, <1>5, <1>6, <1>7, <1>8, <1>9, <1>10, <1>11, <1>12, <1>13,
       <1>14, <1>15
    DEF AnyNext, DeleteNext, LoaderNext, FaultyNext, WriteFails, LibraryNext, Next, ProcessorNext,
        ClientStep, Erase

(* Every program keeps the types, even one that deletes documents or       *)
(* flushes while the processor runs, and on a store that fails.            *)
THEOREM TypeCorrect == Init /\ [][AnyNext]_vars => []TypeOK
  BY InitType, TypeStep, PTL

(* A flush's read of one word prepares the bitmap that extends the store.  *)
LEMMA FlushWordPrepares ==
    ASSUME TypeOK, FlushInv, NEW t \in Thread, FlushWord(t),
           UNCHANGED <<store, batch, postings, procPc, clientPc>>
    PROVE  FlushInv'
  <1>1. PICK w \in DOMAIN batch[t] \ DOMAIN writes[t] :
            writes' = [writes EXCEPT ![t] =
                [v \in DOMAIN writes[t] \cup {w} |->
                    IF v = w THEN Merge(get(w), batch[t][w]) ELSE writes[t][v]]]
    BY DEF FlushWord
  <1>2. writes \in [Thread -> MapTo(Bitmap)]
    BY DEF TypeOK
  <1>3. ASSUME NEW u \in Thread
        PROVE  /\ DOMAIN writes'[u] \subseteq DOMAIN batch'[u]
               /\ \A v \in DOMAIN writes'[u] : writes'[u][v] = Merge(get(v), batch'[u][v])
    <2>1. CASE u = t
      BY <1>1, <1>2, <2>1 DEF FlushInv, Prepared
    <2>2. CASE u # t
      BY <1>1, <1>2, <2>2 DEF FlushInv, Prepared
    <2> QED BY <2>1, <2>2
  <1>4. \A v : get(v)' = get(v)
    BY DEF get
  <1> QED BY <1>3, <1>4 DEF FlushInv, Prepared, ClientFlushing

(* The write batch of a flush adds exactly its postings to the store, and  *)
(* keeps the bitmaps sorted when they are newer than what the store has.   *)
LEMMA FlushPutExtends ==
    ASSUME TypeOK, NEW t \in Thread, Prepared(t), SortedBitmaps, FlushPut(t, TRUE),
           Precedes(StoredPairs, PairsOf(batch[t]))
    PROVE  /\ StoredPairs' = StoredPairs \cup PairsOf(batch[t])
           /\ SortedBitmaps'
  <1>1. /\ store \in MapTo(Bitmap)
        /\ batch[t] \in MapTo(SUBSET DocId)
    BY DEF TypeOK
  <1>2. /\ DOMAIN store \subseteq Word
        /\ \A w \in DOMAIN store : store[w] \in Bitmap
        /\ DOMAIN batch[t] \subseteq Word
        /\ \A w \in DOMAIN batch[t] : batch[t][w] \in SUBSET DocId
    BY <1>1, MapToElim
  <1>3. /\ DOMAIN writes[t] = DOMAIN batch[t]
        /\ store' = [w \in DOMAIN store \cup DOMAIN batch[t] |->
                        IF w \in DOMAIN batch[t] THEN writes[t][w] ELSE store[w]]
        /\ \A w \in DOMAIN batch[t] : writes[t][w] = Merge(get(w), batch[t][w])
    BY DEF FlushPut, Put, Written, FlushInv, Prepared
  <1>4. DOMAIN store' = DOMAIN store \cup DOMAIN batch[t]
    BY <1>3
  <1>5. ASSUME NEW w \in Word, w \in DOMAIN batch[t]
        PROVE  /\ store'[w].docs = batch[t][w] \cup
                      (IF w \in DOMAIN store THEN store[w].docs ELSE {})
               /\ store'[w].sorted
    <2>1. store'[w] = Merge(get(w), batch[t][w])
      BY <1>3, <1>5
    <2>2. CASE w \in DOMAIN store
      <3>1. store'[w] = Merge(store[w], batch[t][w])
        BY <2>1, <2>2 DEF get
      <3>2. store[w].sorted
        BY <2>2 DEF SortedBitmaps
      <3>3. \A d \in batch[t][w], x \in store[w].docs : x < d
        <4> SUFFICES ASSUME NEW d \in batch[t][w], NEW x \in store[w].docs PROVE x < d
          OBVIOUS
        <4>1. d \in DocId /\ x \in DocId
          BY <1>2, <1>5, <2>2 DEF Bitmap
        <4>2. <<w, x>> \in StoredPairs
          BY <4>1, <2>2 DEF StoredPairs
        <4>3. <<w, d>> \in PairsOf(batch[t])
          BY <4>1, <1>5 DEF PairsOf
        <4>4. <<w, x>>[2] < <<w, d>>[2]
          BY <4>2, <4>3 DEF Precedes
        <4> QED BY <4>4
      <3>4. store'[w].docs = batch[t][w] \cup store[w].docs
        BY <3>1, MergeFields
      <3>5. store'[w].sorted
        <4>1. store[w].sorted /\ (\A d \in batch[t][w] \ store[w].docs, x \in store[w].docs : x < d)
              => Merge(store[w], batch[t][w]).sorted
          BY MergeFields, Zenon
        <4>2. \A d \in batch[t][w] \ store[w].docs, x \in store[w].docs : x < d
          BY <3>3
        <4>3. Merge(store[w], batch[t][w]).sorted
          BY <3>2, <4>1, <4>2, Zenon
        <4> QED BY <3>1, <4>3, Zenon
      <3> QED BY <2>2, <3>4, <3>5, Zenon
    <2>3. CASE w \notin DOMAIN store
      <3>2. store'[w] = Merge([docs |-> {}, sorted |-> TRUE], batch[t][w])
        BY <2>1, <2>3 DEF get
      <3>3. store'[w].docs = batch[t][w] /\ store'[w].sorted = TRUE
        BY <3>2, MergeNew, Zenon
      <3>5. store'[w].sorted
        BY <3>3, Zenon
      <3>6. store'[w].docs = batch[t][w] \cup (IF w \in DOMAIN store THEN store[w].docs ELSE {})
        BY <2>3, <3>3
      <3> QED BY <3>5, <3>6, Zenon
    <2> QED BY <2>2, <2>3
  <1>6. ASSUME NEW w \in DOMAIN store, w \notin DOMAIN batch[t]
        PROVE  store'[w] = store[w]
    BY <1>3, <1>6
  <1>7. StoredPairs' = StoredPairs \cup PairsOf(batch[t])
    <2>1. ASSUME NEW p \in Word \X DocId
          PROVE  p \in StoredPairs' <=> p \in StoredPairs \/ p \in PairsOf(batch[t])
      <3>1. p[1] \in Word /\ p[2] \in DocId
        OBVIOUS
      <3>2. CASE p[1] \in DOMAIN batch[t]
        BY <3>1, <3>2, <1>4, <1>5 DEF StoredPairs, PairsOf
      <3>3. CASE p[1] \notin DOMAIN batch[t]
        BY <3>1, <3>3, <1>4, <1>6 DEF StoredPairs, PairsOf
      <3> QED BY <3>2, <3>3
    <2> QED BY <2>1 DEF StoredPairs, PairsOf
  <1>8. SortedBitmaps'
    BY <1>2, <1>4, <1>5, <1>6 DEF SortedBitmaps
  <1> QED BY <1>7, <1>8

(* After a flush of t has written, t has nothing in flight, and a thread   *)
(* that had nothing in flight still has nothing.                           *)
LEMMA FlushPutEnds ==
    ASSUME TypeOK, FlushInv, NEW t \in Thread, NEW u \in Thread, t # u, FlushPut(t, TRUE),
           batch[u] = Empty
    PROVE  /\ batch'[t] = Empty /\ batch'[u] = Empty
           /\ DOMAIN writes'[t] = {} /\ DOMAIN writes'[u] = {}
  BY EmptyMap DEF FlushPut, FlushInv, Prepared, TypeOK

(* The constructor establishes the inductive invariant: everything is in   *)
(* the first stage, the store.                                             *)
LEMMA StagedInit == Init => StagedWriting
  <1> SUFFICES ASSUME Init PROVE StagedWriting
    OBVIOUS
  <1> USE DEF Thread
  <1>1. TypeOK
    BY InitType
  <1>2. NothingRemoved /\ MutexInv /\ OneFlusher
    BY DEF Init, NothingRemoved, MutexInv, OneFlusher, ClientFlushing
  <1>3. FlushInv
    BY EmptyMap DEF Init, FlushInv, Prepared, ClientFlushing
  <1>4. SortedBitmaps
    BY DEF Init, SortedBitmaps
  <1>5. PairsOf(batch["processor"]) = {} /\ PairsOf(postings) = {}
    BY EmptyMap DEF Init
  <1>6. AllPostings = StoredPairs
    <2>1. \A w \in Word : w \in DOMAIN store <=> \E d \in DocId : w \in wordsOf[d]
      BY DEF Init
    <2>2. \A w \in DOMAIN store : store[w].docs = {d \in DocId : w \in wordsOf[d]}
      BY DEF Init
    <2>3. \A d \in DocId : d >= nextDocId => wordsOf[d] = {}
      BY DEF Init
    <2>4. \A d \in DocId : ~(d >= nextDocId) => d < nextDocId
      BY BoundAssumption DEF Init, DocId
    <2>5. ASSUME NEW p \in Word \X DocId
          PROVE  p \in AllPostings <=> p \in StoredPairs
      BY <2>1, <2>2, <2>3, <2>4 DEF AllPostings, StoredPairs
    <2> QED BY <2>5 DEF AllPostings, StoredPairs
  <1>7. StagesInv
    BY <1>5, <1>6 DEF Init, StagesInv, Precedes
  <1> QED BY <1>1, <1>2, <1>3, <1>4, <1>7 DEF StagedWriting

(* Steps that move no posting.                                             *)
LEMMA ControlStep ==
    ASSUME StagedWriting, UNCHANGED <<store, postings, batch, writes, nextDocId, wordsOf>>,
           procPc = "flush" => procPc' = "flush",
           ClientFlushing' <=> ClientFlushing,
           clientPc' = "destroyed" => clientPc = "destroyed"
    PROVE  FlushInv' /\ StagesInv' /\ SortedBitmaps'
  <1>1. /\ StoredPairs' = StoredPairs /\ AllPostings' = AllPostings
        /\ \A w : get(w)' = get(w)
    BY DEF StoredPairs, AllPostings, get
  <1>2. FlushInv'
    BY <1>1 DEF StagedWriting, FlushInv, Prepared
  <1>3. PairsOf(postings)' = PairsOf(postings) /\ PairsOf(batch["processor"])' = PairsOf(batch["processor"])
    BY DEF PairsOf
  <1>4. StagesInv'
    BY <1>1, <1>3 DEF StagedWriting, StagesInv
  <1>5. SortedBitmaps'
    BY DEF StagedWriting, SortedBitmaps
  <1> QED BY <1>2, <1>4, <1>5

(* The mutex, the flags and the program counters.                          *)
LEMMA ControlInv ==
    ASSUME StagedWriting, [Next]_vars
    PROVE  NothingRemoved' /\ MutexInv' /\ OneFlusher'
  <1>0. /\ done \in BOOLEAN /\ mutex \in Thread \cup {"free"}
        /\ procPc \in ProcPc /\ clientPc \in ClientPc
        /\ NothingRemoved /\ MutexInv /\ OneFlusher
    BY DEF StagedWriting, TypeOK
  <1> USE <1>0 DEF Thread, ProcPc, ClientPc, NothingRemoved, MutexInv, OneFlusher, ClientFlushing,
                   shared, history
  <1>1. CASE ProcLoop
    BY <1>1 DEF ProcLoop
  <1>2. CASE ProcLock
    BY <1>2 DEF ProcLock
  <1>3. CASE ProcTest \/ ProcWait \/ SpuriousWakeup
    BY <1>3 DEF ProcTest, ProcWait, SpuriousWakeup
  <1>4. CASE ProcDecide
    BY <1>4 DEF ProcDecide
  <1>5. CASE ProcTake
    BY <1>5 DEF ProcTake
  <1>13. CASE ProcFlushWord
    BY <1>13 DEF ProcFlushWord
  <1>14. CASE ProcFlushPut(TRUE)
    <2>1. /\ procPc = "flush" /\ procPc' = "loop"
          /\ UNCHANGED <<done, mutex, clientPc, removed, lost>>
      BY <1>14 DEF ProcFlushPut, Dropped
    <2>2. NothingRemoved' /\ MutexInv'
      BY <2>1
    <2> QED BY <2>1, <2>2
  <1>6. CASE ClientFlushWord \/ ClientFlushPut(TRUE) \/ DestroyPut(TRUE)
    BY <1>6 DEF ClientFlushWord, ClientFlushPut, DestroyPut, Dropped
  <1>7. CASE ShutSetReady \/ ShutSetDone
    BY <1>7 DEF ShutSetReady, ShutSetDone
  <1>8. CASE ShutNotify \/ ShutJoin
    BY <1>8 DEF ShutNotify, ShutJoin, Joined, Notified
  <1>9. CASE \E n \in BatchSizes : setMaxBatchSize(n)
    BY <1>9 DEF setMaxBatchSize
  <1>10. CASE \E ws \in SUBSET Word : add(ws)
    BY <1>10 DEF add, Notified
  <1>11. CASE shutDownBatchProcessor \/ Destroy
    BY <1>11 DEF shutDownBatchProcessor, Destroy
  <1>12. CASE UNCHANGED vars
    BY <1>12 DEF vars
  <1> QED
    BY <1>1, <1>2, <1>3, <1>4, <1>5, <1>6, <1>7, <1>8, <1>9, <1>10, <1>11, <1>12, <1>13, <1>14
    DEF Next, ProcessorNext, ClientStep

(* The processor takes the batch: the collected postings become the taken  *)
(* ones, newer than the store and older than all to come.                  *)
LEMMA TakeStep ==
    ASSUME StagedWriting, ProcTake
    PROVE  FlushInv' /\ StagesInv' /\ SortedBitmaps'
  <1> USE DEF Thread
  <1>1. /\ batch["processor"] = Empty /\ batch["client"] = Empty /\ ~ClientFlushing
        /\ clientPc # "destroyed"
    BY DEF StagedWriting, FlushInv, Prepared, OneFlusher, ProcTake, ClientFlushing
  <1>2. /\ batch'["processor"] = postings /\ batch'["client"] = Empty
        /\ postings' = Empty /\ UNCHANGED <<store, writes, clientPc, nextDocId, wordsOf>>
    BY <1>1 DEF ProcTake, StagedWriting, TypeOK, history
  <1>3. DOMAIN writes["processor"] = {} /\ DOMAIN writes["client"] = {}
    BY <1>1, EmptyMap DEF StagedWriting, FlushInv, Prepared
  <1>4. FlushInv'
    BY <1>1, <1>2, <1>3 DEF FlushInv, Prepared, ClientFlushing, ProcTake
  <1>5. /\ PairsOf(batch["processor"])' = PairsOf(postings)
        /\ PairsOf(postings)' = {} /\ PairsOf(batch["processor"]) = {}
        /\ StoredPairs' = StoredPairs /\ AllPostings' = AllPostings
    BY <1>1, <1>2, EmptyMap DEF PairsOf, StoredPairs, AllPostings
  <1>6. StagesInv'
    BY <1>1, <1>2, <1>5 DEF StagedWriting, StagesInv, Precedes
  <1>7. SortedBitmaps'
    BY <1>2 DEF StagedWriting, SortedBitmaps
  <1> QED BY <1>4, <1>6, <1>7

(* The processor writes its batch: the taken postings join the store.      *)
LEMMA ProcPutStep ==
    ASSUME StagedWriting, ProcFlushPut(TRUE)
    PROVE  FlushInv' /\ StagesInv' /\ SortedBitmaps'
  <1> USE DEF Thread
  <1>1. procPc = "flush" /\ FlushPut("processor", TRUE) /\ procPc' = "loop"
        /\ UNCHANGED <<postings, clientPc, nextDocId, wordsOf>>
    BY DEF ProcFlushPut, history
  <1>2. ~ClientFlushing /\ batch["client"] = Empty
    BY <1>1 DEF StagedWriting, FlushInv, Prepared, OneFlusher, ClientFlushing
  <1>3. Precedes(StoredPairs, PairsOf(batch["processor"]))
    BY DEF StagedWriting, StagesInv
  <1>4. StoredPairs' = StoredPairs \cup PairsOf(batch["processor"]) /\ SortedBitmaps'
    BY <1>1, <1>3, FlushPutExtends DEF StagedWriting, FlushInv
  <1>5. /\ batch'["processor"] = Empty /\ batch'["client"] = Empty
        /\ DOMAIN writes'["processor"] = {} /\ DOMAIN writes'["client"] = {}
    BY <1>1, <1>2, FlushPutEnds DEF StagedWriting
  <1>6. FlushInv'
    BY <1>1, <1>2, <1>5 DEF FlushInv, Prepared, ClientFlushing
  <1>7. /\ PairsOf(batch["processor"])' = {} /\ PairsOf(postings)' = PairsOf(postings)
        /\ AllPostings' = AllPostings
    BY <1>1, <1>5, EmptyMap DEF PairsOf, AllPostings
  <1>8. StagesInv'
    BY <1>1, <1>4, <1>7 DEF StagedWriting, StagesInv, Precedes
  <1> QED BY <1>4, <1>6, <1>8

(* The client writes the batch it flushes, when the processor is gone: the *)
(* collected postings join the store.                                      *)
LEMMA ClientPutStep ==
    ASSUME StagedWriting, ClientFlushPut(TRUE) \/ DestroyPut(TRUE)
    PROVE  FlushInv' /\ StagesInv' /\ SortedBitmaps'
  <1> USE DEF Thread
  <1>1. /\ ClientFlushing /\ ~ClientFlushing' /\ FlushPut("client", TRUE) /\ postings' = Empty
        /\ UNCHANGED <<procPc, nextDocId, wordsOf>>
    BY DEF ClientFlushPut, DestroyPut, ClientFlushing, history
  <1>2. procPc = "exited" /\ batch["processor"] = Empty /\ batch["client"] = postings
    BY <1>1 DEF StagedWriting, FlushInv, Prepared, OneFlusher, ClientFlushing
  <1>3. Precedes(StoredPairs, PairsOf(batch["client"]))
    BY <1>2 DEF StagedWriting, StagesInv
  <1>4. StoredPairs' = StoredPairs \cup PairsOf(postings) /\ SortedBitmaps'
    BY <1>1, <1>2, <1>3, FlushPutExtends DEF StagedWriting, FlushInv
  <1>5. /\ batch'["processor"] = Empty /\ batch'["client"] = Empty
        /\ DOMAIN writes'["processor"] = {} /\ DOMAIN writes'["client"] = {}
    BY <1>1, <1>2, FlushPutEnds DEF StagedWriting
  <1>6. FlushInv'
    BY <1>1, <1>2, <1>5 DEF FlushInv, Prepared
  <1>7. /\ PairsOf(batch["processor"])' = {} /\ PairsOf(postings)' = {}
        /\ PairsOf(batch["processor"]) = {} /\ AllPostings' = AllPostings
    BY <1>1, <1>2, <1>5, EmptyMap DEF PairsOf, AllPostings
  <1>8. StagesInv'
    BY <1>1, <1>4, <1>7 DEF StagedWriting, StagesInv, Precedes
  <1> QED BY <1>4, <1>6, <1>8

(* The client starts a flush of what has been collected.                   *)
LEMMA FinalFlushStep ==
    ASSUME StagedWriting, UNCHANGED <<store, postings, writes, procPc, nextDocId, wordsOf>>,
           ~ClientFlushing, clientPc' = "flushFinal",
           batch' = [batch EXCEPT !["client"] = postings]
    PROVE  FlushInv' /\ StagesInv' /\ SortedBitmaps'
  <1> USE DEF Thread
  <1>1. batch'["client"] = postings /\ batch'["processor"] = batch["processor"]
    BY DEF StagedWriting, TypeOK
  <1>2. DOMAIN writes["client"] = {}
    BY EmptyMap DEF StagedWriting, FlushInv, Prepared
  <1>3. /\ StoredPairs' = StoredPairs /\ AllPostings' = AllPostings
        /\ \A w : get(w)' = get(w)
        /\ PairsOf(postings)' = PairsOf(postings)
        /\ PairsOf(batch["processor"])' = PairsOf(batch["processor"])
    BY <1>1 DEF StoredPairs, AllPostings, get, PairsOf
  <1>4. FlushInv'
    BY <1>1, <1>2, <1>3 DEF StagedWriting, FlushInv, Prepared, ClientFlushing
  <1>5. StagesInv'
    BY <1>3 DEF StagedWriting, StagesInv
  <1>6. SortedBitmaps'
    BY DEF StagedWriting, SortedBitmaps
  <1> QED BY <1>4, <1>5, <1>6

(* The postings that add(ws) enters.                                       *)
NewPairs(ws) == {p \in Word \X DocId : p[1] \in ws /\ p[2] = nextDocId}

(* A document enters the batch: it is newer than every other.              *)
LEMMA AddPairs ==
    ASSUME TypeOK, NEW ws \in SUBSET Word, add(ws)
    PROVE  /\ PairsOf(postings') = PairsOf(postings) \cup NewPairs(ws)
           /\ AllPostings' = AllPostings \cup NewPairs(ws)
           /\ Precedes(AllPostings, NewPairs(ws))
  <1> DEFINE new == NewPairs(ws)
  <1> USE DEF NewPairs
  <1>1. /\ nextDocId \in DocId /\ nextDocId' = nextDocId + 1
        /\ wordsOf' = [wordsOf EXCEPT ![nextDocId] = ws]
        /\ postings' = Entered(nextDocId, ws)
    BY DEF add
  <1>2. PairsOf(postings') = PairsOf(postings) \cup new
    BY <1>1 DEF PairsOf, Entered
  <1>3. AllPostings' = AllPostings \cup new
    <2>1. DocId \subseteq Nat /\ nextDocId \in Nat
      BY <1>1, BoundAssumption DEF DocId
    <2>2. \A d \in DocId : wordsOf'[d] = IF d = nextDocId THEN ws ELSE wordsOf[d]
      BY <1>1 DEF TypeOK
    <2>3. \A d \in DocId : d < nextDocId' <=> d < nextDocId \/ d = nextDocId
      BY <1>1, <2>1
    <2>4. ASSUME NEW p \in Word \X DocId
          PROVE  p \in AllPostings' <=> p \in AllPostings \/ p \in new
      <3>1. p[1] \in Word /\ p[2] \in DocId
        OBVIOUS
      <3>2. p[2] < nextDocId => p[2] # nextDocId
        BY <2>1, <3>1
      <3> QED BY <2>2, <2>3, <3>1, <3>2 DEF AllPostings
    <2> QED BY <2>4 DEF AllPostings
  <1>4. Precedes(AllPostings, new)
    BY DEF Precedes, AllPostings
  <1> QED BY <1>2, <1>3, <1>4

(* The new postings join the last stage.                                   *)
LEMMA AddStep ==
    ASSUME StagedWriting, NEW ws \in SUBSET Word, add(ws)
    PROVE  FlushInv' /\ StagesInv' /\ SortedBitmaps'
  <1> USE DEF Thread
  <1>1. /\ clientPc = "idle" /\ nextDocId \in DocId /\ nextDocId' = nextDocId + 1
        /\ wordsOf' = [wordsOf EXCEPT ![nextDocId] = ws]
        /\ postings' = Entered(nextDocId, ws)
        /\ UNCHANGED <<store, writes>>
    BY DEF add
  <1>2. /\ ~ClientFlushing /\ batch["client"] = Empty /\ clientPc' # "destroyed"
    BY <1>1 DEF add, StagedWriting, FlushInv, Prepared, ClientFlushing
  <1>3. /\ batch'["processor"] = batch["processor"]
        /\ batch'["client"] = IF ClientFlushing' THEN postings' ELSE Empty
        /\ procPc = "flush" => procPc' = "flush"
    BY <1>1, <1>2 DEF add, StagedWriting, TypeOK, ClientFlushing, Notified
  <1>4. DOMAIN writes["client"] = {}
    BY <1>2, EmptyMap DEF StagedWriting, FlushInv, Prepared
  <1>5. /\ StoredPairs' = StoredPairs
        /\ \A w : get(w)' = get(w)
        /\ PairsOf(batch["processor"])' = PairsOf(batch["processor"])
    BY <1>1, <1>3 DEF StoredPairs, get, PairsOf
  <1>6. FlushInv'
    BY <1>1, <1>3, <1>4, <1>5 DEF StagedWriting, FlushInv, Prepared
  <1>7. SortedBitmaps'
    BY <1>1 DEF StagedWriting, SortedBitmaps
  <1>8. StagesInv'
    BY <1>2, <1>5, AddPairs DEF StagedWriting, StagesInv, Precedes
  <1> QED BY <1>6, <1>7, <1>8

(* Every step of the engine's program keeps the inductive invariant.       *)
LEMMA StagedStep == StagedWriting /\ [Next]_vars => StagedWriting'
  <1> SUFFICES ASSUME StagedWriting, [Next]_vars PROVE StagedWriting'
    OBVIOUS
  <1>1. TypeOK'
    BY TypeStep DEF StagedWriting, AnyNext, DeleteNext
  <1>2. NothingRemoved' /\ MutexInv' /\ OneFlusher'
    BY ControlInv
  <1>3. FlushInv' /\ StagesInv' /\ SortedBitmaps'
    <2> USE DEF shared, history
    <2>1. CASE ProcLoop \/ ProcLock \/ ProcTest \/ ProcWait \/ SpuriousWakeup \/ ProcDecide
      <3>1. /\ UNCHANGED <<store, postings, batch, writes, nextDocId, wordsOf, clientPc>>
            /\ procPc # "flush"
        BY <2>1 DEF ProcLoop, ProcLock, ProcTest, ProcWait, SpuriousWakeup, ProcDecide
      <3> QED BY <3>1, ControlStep DEF ClientFlushing
    <2>2. CASE ProcTake
      BY <2>2, TakeStep
    <2>3. CASE ProcFlushWord \/ ClientFlushWord
      <3>1. /\ FlushWord("processor") \/ FlushWord("client")
            /\ UNCHANGED <<store, postings, procPc, clientPc, batch, nextDocId, wordsOf>>
        BY <2>3 DEF ProcFlushWord, ClientFlushWord
      <3>2. FlushInv'
        BY <3>1, FlushWordPrepares DEF StagedWriting, Thread
      <3>3. StagesInv' /\ SortedBitmaps'
        BY <3>1 DEF StagedWriting, StagesInv, SortedBitmaps, StoredPairs, AllPostings, PairsOf
      <3> QED BY <3>2, <3>3
    <2>4. CASE ProcFlushPut(TRUE)
      BY <2>4, ProcPutStep
    <2>5. CASE ClientFlushPut(TRUE) \/ DestroyPut(TRUE)
      BY <2>5, ClientPutStep
    <2>6. CASE ShutSetReady \/ ShutSetDone \/ ShutNotify \/ shutDownBatchProcessor
      <3>1. /\ UNCHANGED <<store, postings, batch, writes, nextDocId, wordsOf>>
            /\ procPc = "flush" => procPc' = "flush"
            /\ ~ClientFlushing /\ ~ClientFlushing' /\ clientPc' # "destroyed"
        BY <2>6 DEF ShutSetReady, ShutSetDone, ShutNotify, shutDownBatchProcessor, Notified,
                    ClientFlushing
      <3> QED BY <3>1, ControlStep
    <2>7. CASE ShutJoin \/ Destroy
      <3>1. /\ UNCHANGED <<store, postings, writes, procPc, nextDocId, wordsOf>>
            /\ ~ClientFlushing
            /\ \/ /\ clientPc' \in {"idle", "setReady"}
                  /\ UNCHANGED batch
               \/ /\ clientPc' = "flushFinal"
                  /\ batch' = [batch EXCEPT !["client"] = postings]
        BY <2>7 DEF ShutJoin, Destroy, ClientFlushing, Collected
      <3>2. CASE clientPc' \in {"idle", "setReady"} /\ UNCHANGED batch
        BY <3>1, <3>2, ControlStep DEF ClientFlushing
      <3>3. CASE clientPc' = "flushFinal" /\ batch' = [batch EXCEPT !["client"] = postings]
        BY <3>1, <3>3, FinalFlushStep
      <3> QED BY <3>1, <3>2, <3>3
    <2>8. ASSUME NEW n \in BatchSizes, setMaxBatchSize(n)
          PROVE  FlushInv' /\ StagesInv' /\ SortedBitmaps'
      BY <2>8, ControlStep DEF setMaxBatchSize, ClientFlushing
    <2>9. ASSUME NEW ws \in SUBSET Word, add(ws)
          PROVE  FlushInv' /\ StagesInv' /\ SortedBitmaps'
      BY <2>9, AddStep
    <2>10. CASE UNCHANGED vars
      BY <2>10, ControlStep DEF vars, ClientFlushing
    <2> QED BY <2>1, <2>2, <2>3, <2>4, <2>5, <2>6, <2>7, <2>8, <2>9, <2>10
            DEF Next, ProcessorNext, ClientStep
  <1> QED BY <1>1, <1>2, <1>3 DEF StagedWriting

(* The engine's program keeps the staged-writing invariant.                *)
THEOREM StagedWritingInvariant == Spec => []StagedWriting
  BY StagedInit, StagedStep, PTL DEF Spec

(* No posting is ever lost between the client and the batch processor.     *)
THEOREM NeverLost == Spec => []NoPostingLost
  <1>1. StagedWriting => NoPostingLost
    BY DEF StagedWriting, StagesInv, NoPostingLost, Kept, InFlight
  <1> QED BY <1>1, StagedWritingInvariant, PTL

(* CompressedSet::addDoc is only called in increasing order of documents.  *)
THEOREM AlwaysSorted == Spec => []SortedBitmaps
  <1>1. StagedWriting => SortedBitmaps
    BY DEF StagedWriting
  <1> QED BY <1>1, StagedWritingInvariant, PTL

(* What was added is exactly what the store has when the destructor ends.  *)
THEOREM Durable == Spec => []DurableOnceDestroyed
  <1>1. StagedWriting => DurableOnceDestroyed
    <2> SUFFICES ASSUME StagedWriting, clientPc = "destroyed"
                 PROVE  StoredPairs = Kept
      BY DEF DurableOnceDestroyed
    <2>1. postings = Empty /\ procPc = "exited" /\ removed = {} /\ lost = {}
      BY DEF StagedWriting, StagesInv, OneFlusher, NothingRemoved
    <2>2. batch["processor"] = Empty
      BY <2>1 DEF StagedWriting, FlushInv, Prepared
    <2>3. PairsOf(postings) = {} /\ PairsOf(batch["processor"]) = {}
      BY <2>1, <2>2, EmptyMap
    <2> QED BY <2>1, <2>3 DEF StagedWriting, StagesInv, Kept
  <1> QED BY <1>1, StagedWritingInvariant, PTL

(* A write of the store that adds the postings B, older than all others    *)
(* that are not stored, is a Publish step of the abstract index.           *)
LEMMA PublishStep ==
    ASSUME NEW B, NEW C, AllPostings = StoredPairs \cup B \cup C,
           Precedes(StoredPairs, C), Precedes(B, C),
           StoredPairs' = StoredPairs \cup B, UNCHANGED <<nextDocId, wordsOf>>
    PROVE  Prefix!Publish
  <1>1. Prefix!AllPostings = AllPostings
    BY DEF Prefix!AllPostings, AllPostings, Prefix!DocId, DocId
  <1>2. ASSUME NEW p \in StoredPairs', NEW q \in AllPostings, q[2] <= p[2]
        PROVE  q \in StoredPairs'
    <2>1. p[2] \in Nat /\ q[2] \in Nat
      <3>1. DocId \subseteq Nat
        BY BoundAssumption DEF DocId
      <3>2. p \in AllPostings
        OBVIOUS
      <3> QED BY <3>1, <3>2 DEF AllPostings
    <2>2. q \in C => p[2] < q[2]
      BY DEF Precedes
    <2>3. q \notin C
      BY <1>2, <2>1, <2>2
    <2> QED BY <2>3
  <1> QED BY <1>1, <1>2 DEF Prefix!Publish

(* Every step of the threads is an Add, a Publish or a stutter of the      *)
(* abstract index.                                                         *)
LEMMA PrefixStep ==
    ASSUME StagedWriting, StagedWriting', [Next]_vars
    PROVE  [Prefix!Next]_(Prefix!vars)
  <1> USE DEF shared, history, Thread
  <1>1. ASSUME UNCHANGED <<store, nextDocId, wordsOf>>
        PROVE  UNCHANGED Prefix!vars
    BY <1>1 DEF Prefix!vars, StoredPairs
  <1>2. CASE ProcFlushPut(TRUE)
    <2> DEFINE B == PairsOf(batch["processor"])
    <2> DEFINE C == PairsOf(postings)
    <2>1. FlushPut("processor", TRUE) /\ UNCHANGED <<nextDocId, wordsOf>>
      BY <1>2 DEF ProcFlushPut
    <2>2. /\ AllPostings = StoredPairs \cup B \cup C
          /\ Precedes(StoredPairs, B) /\ Precedes(StoredPairs, C) /\ Precedes(B, C)
      BY DEF StagedWriting, StagesInv
    <2>3. StoredPairs' = StoredPairs \cup B
      BY <2>1, <2>2, FlushPutExtends DEF StagedWriting, FlushInv
    <2> HIDE DEF B, C
    <2> QED BY <2>1, <2>2, <2>3, PublishStep DEF Prefix!Next
  <1>3. CASE ClientFlushPut(TRUE) \/ DestroyPut(TRUE)
    <2> DEFINE B == PairsOf(batch["client"])
    <2>1. FlushPut("client", TRUE) /\ UNCHANGED <<nextDocId, wordsOf>> /\ ClientFlushing
      BY <1>3 DEF ClientFlushPut, DestroyPut, ClientFlushing
    <2>2. procPc = "exited" /\ batch["processor"] = Empty /\ batch["client"] = postings
      BY <2>1 DEF StagedWriting, FlushInv, Prepared, OneFlusher, ClientFlushing
    <2>3. PairsOf(batch["processor"]) = {}
      BY <2>2, EmptyMap
    <2>4. AllPostings = StoredPairs \cup B \cup {} /\ Precedes(StoredPairs, B)
      BY <2>2, <2>3 DEF StagedWriting, StagesInv
    <2>5. StoredPairs' = StoredPairs \cup B
      BY <2>1, <2>4, FlushPutExtends DEF StagedWriting, FlushInv
    <2>6. Precedes(StoredPairs, {}) /\ Precedes(B, {})
      BY DEF Precedes
    <2> HIDE DEF B
    <2> QED BY <2>1, <2>4, <2>5, <2>6, PublishStep DEF Prefix!Next
  <1>4. ASSUME NEW ws \in SUBSET Word, add(ws)
        PROVE  Prefix!Add(ws)
    BY <1>4 DEF add, Prefix!Add, StoredPairs, Prefix!DocId, DocId
  <1>5. CASE ProcLoop \/ ProcLock \/ ProcTest \/ ProcWait \/ SpuriousWakeup \/ ProcDecide \/ ProcTake
    BY <1>1, <1>5 DEF ProcLoop, ProcLock, ProcTest, ProcWait, SpuriousWakeup, ProcDecide, ProcTake
  <1>6. CASE ProcFlushWord \/ ClientFlushWord
    BY <1>1, <1>6 DEF ProcFlushWord, ClientFlushWord
  <1>7. CASE ShutSetReady \/ ShutSetDone \/ ShutNotify \/ ShutJoin \/ shutDownBatchProcessor \/ Destroy
    BY <1>1, <1>7 DEF ShutSetReady, ShutSetDone, ShutNotify, ShutJoin, shutDownBatchProcessor, Destroy
  <1>8. CASE \E n \in BatchSizes : setMaxBatchSize(n)
    BY <1>1, <1>8 DEF setMaxBatchSize
  <1>9. CASE UNCHANGED vars
    BY <1>1, <1>9 DEF vars
  <1> QED BY <1>2, <1>3, <1>4, <1>5, <1>6, <1>7, <1>8, <1>9
          DEF Next, ProcessorNext, ClientStep, Prefix!Next

(* The batched index implements the abstract one: its readers always see   *)
(* complete documents, a growing prefix of those added.                    *)
THEOREM Refinement == Spec => ImplementsPrefixIndex
  <1>1. Init => Prefix!Init
    <2> SUFFICES ASSUME Init PROVE Prefix!Init
      OBVIOUS
    <2>1. PairsOf(batch["processor"]) = {} /\ PairsOf(postings) = {}
      BY EmptyMap DEF Init, Thread
    <2>2. StoredPairs = AllPostings
      BY <2>1, StagedInit DEF StagedWriting, StagesInv
    <2>3. Prefix!AllPostings = AllPostings
      BY DEF Prefix!AllPostings, AllPostings, Prefix!DocId, DocId
    <2>4. nextDocId \in 1..(MaxDocs + 1) /\ wordsOf \in [DocId -> SUBSET Word]
      BY InitType DEF TypeOK
    <2> QED BY <2>2, <2>3, <2>4 DEF Prefix!Init, Prefix!DocId, DocId
  <1>2. StagedWriting /\ StagedWriting' /\ [Next]_vars => [Prefix!Next]_(Prefix!vars)
    BY PrefixStep
  <1> QED BY <1>1, <1>2, StagedWritingInvariant, PTL DEF Spec, ImplementsPrefixIndex, Prefix!Spec
================================================================================
