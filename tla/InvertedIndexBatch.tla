--------------------------- MODULE InvertedIndexBatch ---------------------------
(***************************************************************************)
(* The double-buffered inverted index (src/InvertedIndexBatch.hpp) and its *)
(* write-back cache of bitmaps (src/LRUCache.hpp).                         *)
(*                                                                         *)
(* The client appends postings to one vector; the consumer thread waits    *)
(* until enough of them have come or a tenth of a second has passed, takes *)
(* the vector in exchange for its own empty one, and adds its postings to  *)
(* cached bitmaps, which reach the store when they are evicted.  Every     *)
(* critical section of either thread is one step, so the mutex is free     *)
(* between steps and needs no variable.                                    *)
(*                                                                         *)
(* A vector of postings is kept by word, its documents in the order in     *)
(* which they were appended: this is what the stable sort by word makes of *)
(* it.  A bitmap is the sequence of its documents.                         *)
(***************************************************************************)
EXTENDS Naturals, Sequences, FiniteSets, SequencesExt

CONSTANTS
    MaxWord,     \* bound: word ids are 1..MaxWord
    MaxDocs,     \* bound: the largest document id
    MaxOldDocs,  \* bound: the number of documents indexed by an earlier run
    MinBatch,    \* minbatchsize
    MaxBatches,  \* the values setMaxBatchSize is called with
    CacheSize    \* the capacity of the cache

ASSUME CacheSizeAssumption == CacheSize \in Nat \ {0}
ASSUME BatchAssumption == MinBatch \in Nat \ {0} /\ MaxBatches \subseteq Nat
ASSUME BoundsAssumption == MaxWord \in Nat /\ MaxDocs \in Nat /\ MaxOldDocs \in 0..MaxDocs

Word == 1..MaxWord
DocId == 1..MaxDocs

VARIABLES
    producer,      \* *producerVec: word -> documents
    consumer,      \* *consumerVec
    batchsize, maxbatchsize,
    done,
    cache,         \* wordSetCache: bitmaps, the one used last first
    store,         \* word -> the bitmap the store has, empty if it has none
    consumerPc,    \* where the consumer is in consumer_main
    localSize,     \* getBatchFromQueue: localbatchSize
    expired,       \* getBatchFromQueue: now has passed firstTime
    clientPc,      \* where the client is in the operation it called
    destroying,    \* the operation is the destructor
    nextDocId,
    added          \* history: word -> documents added

clientVars == <<maxbatchsize, done, clientPc, destroying, nextDocId, added>>
vars == <<producer, consumer, batchsize, cache, store, consumerPc, localSize, expired, clientVars>>

NoPostings == [w \in Word |-> <<>>]

(* The documents of a bitmap are in increasing order.                      *)
Increasing(s) == \A j, k \in DOMAIN s : j < k => s[j] < s[k]

Init ==
    /\ nextDocId \in 1..(MaxOldDocs + 1)
    /\ store \in [Word -> {s \in BoundedSeq(1..(nextDocId - 1), MaxOldDocs) : Increasing(s)}]
    /\ added = store
    /\ producer = NoPostings /\ consumer = NoPostings
    /\ batchsize = 0
    /\ maxbatchsize \in MaxBatches
    /\ done = FALSE
    /\ cache = <<>>
    /\ consumerPc = "loop" /\ localSize = 0 /\ expired = FALSE
    /\ clientPc = "idle" /\ destroying = FALSE

--------------------------------------------------------------------------------
(* LRUCache.  put is always called with asDirty = true.                    *)

Cached(w) == \E k \in DOMAIN cache : cache[k].word = w
Place(w) == CHOOSE k \in DOMAIN cache : cache[k].word = w

(* Mutant: one entry more than there are.                                  *)
Full_OffByOne == Len(cache) > CacheSize

(* _freeEntries is empty.                                                  *)
Full == Len(cache) = CacheSize

(* Mutant: a bitmap that is not cached is taken to be a new one.           *)
getOrCreate_NotStored(w) == IF Cached(w) THEN cache[Place(w)].docs ELSE <<>>

getOrCreate(w) == IF Cached(w) THEN cache[Place(w)].docs ELSE store[w]

evict(w, docs) == [store EXCEPT ![w] = docs]

put(w, docs) ==
    LET new == <<[word |-> w, docs |-> docs]>>
    IN \/ /\ Cached(w)
          /\ cache' = new \o RemoveAt(cache, Place(w))
          /\ UNCHANGED store
       \/ /\ ~Cached(w) /\ Full
          /\ cache' = new \o Front(cache)
          /\ store' = evict(Last(cache).word, Last(cache).docs)
       \/ /\ ~Cached(w) /\ ~Full
          /\ cache' = new \o cache
          /\ UNCHANGED store

(* Mutant: the walk stops before the entry at the head.                    *)
evictAll_NotHead ==
    [w \in Word |-> IF Cached(w) /\ Head(cache).word # w THEN getOrCreate(w) ELSE store[w]]

evictAll == [w \in Word |-> getOrCreate(w)]

--------------------------------------------------------------------------------
(* consumer_main                                                           *)

ConsumerLoop ==
    /\ consumerPc = "loop"
    /\ consumerPc' = IF done THEN "exited" ELSE "read"
    /\ expired' = FALSE
    /\ UNCHANGED <<producer, consumer, batchsize, cache, store, localSize, clientVars>>

(* getBatchFromQueue ends with the size it read last.                      *)
Leave(size) == IF size > 0 THEN "exchange" ELSE "loop"

(* One round of its loop, up to the wait.                                  *)
ConsumerRead ==
    /\ consumerPc = "read"
    /\ localSize' = batchsize
    /\ consumerPc' = IF batchsize >= MinBatch THEN "test"
                     ELSE IF expired THEN Leave(batchsize) ELSE "waiting"
    /\ UNCHANGED <<producer, consumer, batchsize, cache, store, expired, clientVars>>

(* Mutant: wait in place of wait_for.                                      *)
Timeout_Never == FALSE /\ UNCHANGED vars

(* wait_for returns because its time is over, and firstTime has passed.    *)
Timeout ==
    /\ consumerPc = "waiting"
    /\ consumerPc' = "test"
    /\ expired' = TRUE
    /\ UNCHANGED <<producer, consumer, batchsize, cache, store, localSize, clientVars>>

(* It was notified, or woke up by itself.                                  *)
Notified(pc) == IF pc = "waiting" THEN "test" ELSE pc

SpuriousWakeup ==
    /\ \/ consumerPc = "waiting" /\ consumerPc' = "test" /\ UNCHANGED clientPc
       \/ clientPc = "waiting" /\ clientPc' = "flush" /\ UNCHANGED consumerPc
    /\ UNCHANGED <<producer, consumer, batchsize, cache, store, localSize, expired,
                   maxbatchsize, done, destroying, nextDocId, added>>

(* The clock is read, then the condition of the loop.  The size is the one *)
(* of the last round, however much was added since.                        *)
ConsumerTest ==
    /\ consumerPc = "test"
    /\ expired' \in {expired, TRUE}
    /\ consumerPc' = IF localSize < MinBatch /\ ~done THEN "read" ELSE Leave(localSize)
    /\ UNCHANGED <<producer, consumer, batchsize, cache, store, localSize, clientVars>>

(* Mutant: batchsize is not set back.                                      *)
ConsumerExchange_KeepsSize ==
    /\ consumerPc = "exchange"
    /\ producer' = consumer
    /\ consumer' = producer
    /\ consumerPc' = "flush"
    /\ UNCHANGED <<batchsize, cache, store, localSize, expired, clientVars>>

ConsumerExchange ==
    /\ consumerPc = "exchange"
    /\ producer' = consumer
    /\ consumer' = producer
    /\ batchsize' = 0
    /\ consumerPc' = "flush"
    /\ UNCHANGED <<cache, store, localSize, expired, clientVars>>

(* flushInBackground, one word after the other.                            *)
ConsumerFlushWord ==
    /\ consumerPc = "flush"
    /\ \E w \in Word :
          /\ consumer[w] # <<>>
          /\ \A v \in 1..(w - 1) : consumer[v] = <<>>
          /\ put(w, getOrCreate(w) \o consumer[w])
          /\ consumer' = [consumer EXCEPT ![w] = <<>>]
    /\ UNCHANGED <<producer, batchsize, consumerPc, localSize, expired, clientVars>>

ConsumerNotify ==
    /\ consumerPc = "flush"
    /\ consumer = NoPostings
    /\ consumerPc' = "loop"
    /\ clientPc' = IF clientPc = "waiting" THEN "flush" ELSE clientPc
    /\ UNCHANGED <<producer, consumer, batchsize, cache, store, localSize, expired,
                   maxbatchsize, done, destroying, nextDocId, added>>

ConsumerNext ==
    \/ ConsumerLoop \/ ConsumerRead \/ Timeout \/ ConsumerTest
    \/ ConsumerExchange \/ ConsumerFlushWord \/ ConsumerNotify

--------------------------------------------------------------------------------
(* The client.                                                             *)

setMaxBatchSize(n) ==
    /\ clientPc = "idle"
    /\ maxbatchsize' = n
    /\ UNCHANGED <<producer, consumer, batchsize, cache, store, consumerPc, localSize, expired,
                   done, clientPc, destroying, nextDocId, added>>

(* What the three overloads of add do under the mutex.                     *)
Enter(ws, notify) ==
    /\ clientPc = "idle"
    /\ nextDocId \in DocId
    /\ producer' = [w \in Word |-> IF w \in ws THEN producer[w] \o <<nextDocId>> ELSE producer[w]]
    /\ added' = [w \in Word |-> IF w \in ws THEN added[w] \o <<nextDocId>> ELSE added[w]]
    /\ batchsize' = batchsize + Cardinality(ws)
    /\ nextDocId' = nextDocId + 1
    /\ consumerPc' = IF notify THEN Notified(consumerPc) ELSE consumerPc
    /\ UNCHANGED <<consumer, cache, store, localSize, expired, maxbatchsize, done, destroying>>

(* add(docid, SparseSet), and add(wordId, docid) with one word.            *)
add(ws) ==
    /\ Enter(ws, TRUE)
    /\ clientPc' = IF batchsize' > maxbatchsize THEN "flush" ELSE "idle"

(* add(docid, set) notifies only of a batch that is large enough, and      *)
(* never waits for it.                                                     *)
addSet(ws) ==
    /\ Enter(ws, batchsize + Cardinality(ws) > MinBatch)
    /\ UNCHANGED clientPc

flushBatch ==
    /\ clientPc = "idle"
    /\ clientPc' = "flush"
    /\ UNCHANGED <<producer, consumer, batchsize, cache, store, consumerPc, localSize, expired,
                   maxbatchsize, done, destroying, nextDocId, added>>

Destroy ==
    /\ clientPc = "idle"
    /\ destroying' = TRUE
    /\ clientPc' = "flush"
    /\ UNCHANGED <<producer, consumer, batchsize, cache, store, consumerPc, localSize, expired,
                   maxbatchsize, done, nextDocId, added>>

(* while (batchsize > maxbatchsize) cond_var.wait                          *)
FlushTest ==
    /\ clientPc = "flush"
    /\ clientPc' = IF batchsize > maxbatchsize THEN "waiting"
                   ELSE IF destroying THEN "stop" ELSE "idle"
    /\ UNCHANGED <<producer, consumer, batchsize, cache, store, consumerPc, localSize, expired,
                   maxbatchsize, done, destroying, nextDocId, added>>

shutDownBatchProcessor ==
    /\ clientPc = "idle"
    /\ clientPc' = "stop"
    /\ UNCHANGED <<producer, consumer, batchsize, cache, store, consumerPc, localSize, expired,
                   maxbatchsize, done, destroying, nextDocId, added>>

Stopped == IF destroying THEN "evictAll" ELSE "idle"

(* stopConsumerThread, up to the notification.                             *)
StopSet ==
    /\ clientPc = "stop"
    /\ done' = TRUE
    /\ clientPc' = IF done THEN Stopped ELSE "notify"
    /\ UNCHANGED <<producer, consumer, batchsize, cache, store, consumerPc, localSize, expired,
                   maxbatchsize, destroying, nextDocId, added>>

StopNotify ==
    /\ clientPc = "notify"
    /\ consumerPc' = Notified(consumerPc)
    /\ clientPc' = "join"
    /\ UNCHANGED <<producer, consumer, batchsize, cache, store, localSize, expired,
                   maxbatchsize, done, destroying, nextDocId, added>>

StopJoin ==
    /\ clientPc = "join"
    /\ consumerPc = "exited"
    /\ clientPc' = Stopped
    /\ UNCHANGED <<producer, consumer, batchsize, cache, store, consumerPc, localSize, expired,
                   maxbatchsize, done, destroying, nextDocId, added>>

DestroyCache ==
    /\ clientPc = "evictAll"
    /\ store' = evictAll
    /\ clientPc' = "destroyed"
    /\ UNCHANGED <<producer, consumer, batchsize, cache, consumerPc, localSize, expired,
                   maxbatchsize, done, destroying, nextDocId, added>>

ClientStep == FlushTest \/ StopSet \/ StopNotify \/ StopJoin \/ DestroyCache

Next ==
    \/ ConsumerNext
    \/ SpuriousWakeup
    \/ ClientStep
    \/ \E n \in MaxBatches : setMaxBatchSize(n)
    \/ \E ws \in SUBSET Word : add(ws) \/ addSet(ws)
    \/ flushBatch \/ shutDownBatchProcessor \/ Destroy

Spec == Init /\ [][Next]_vars

(* The threads are scheduled, waits end in time, and the clock goes on: a  *)
(* consumer that goes round its loop again and again finds firstTime       *)
(* passed.  Nothing has to be called, and nothing to wake up by itself.    *)
Fairness ==
    /\ WF_vars(ConsumerNext)
    /\ WF_vars(ClientStep)
    /\ SF_vars(ConsumerTest /\ expired')
FairSpec == Spec /\ Fairness

--------------------------------------------------------------------------------
(* Type invariant of the two buffers, the cache and the threads.           *)
Bitmap == {s \in Seq(DocId) : Increasing(s)}
TypeOK ==
    /\ producer \in [Word -> Bitmap] /\ consumer \in [Word -> Bitmap]
    /\ batchsize \in Nat /\ maxbatchsize \in Nat /\ localSize \in Nat
    /\ done \in BOOLEAN /\ expired \in BOOLEAN /\ destroying \in BOOLEAN
    /\ cache \in Seq([word : Word, docs : Bitmap]) /\ Len(cache) <= CacheSize
    /\ store \in [Word -> Bitmap] /\ added \in [Word -> Bitmap]
    /\ nextDocId \in 1..(MaxDocs + 1)
    /\ consumerPc \in {"loop", "read", "waiting", "test", "exchange", "flush", "exited"}
    /\ clientPc \in {"idle", "flush", "waiting", "stop", "notify", "join", "evictAll", "destroyed"}

(* The pairs of a vector of postings.                                      *)
Postings(v) == {p \in Word \X DocId : p[2] \in ToSet(v[p[1]])}

(* Every document is once, and in the order of addition, in the word's     *)
(* bitmap (the cached one if there is one), the vector the consumer works  *)
(* on or the one being filled, whose size is batchsize: exchange, stale    *)
(* sizes and evictions lose nothing, repeat nothing and reorder nothing.   *)
Conserved ==
    /\ \A w \in Word : added[w] = getOrCreate(w) \o consumer[w] \o producer[w]
    /\ \A j, k \in DOMAIN cache : cache[j].word = cache[k].word => j = k
    /\ batchsize = Cardinality(Postings(producer))

(* A bitmap in the store is only ever extended: a reader of get never sees *)
(* a document go, although cached and stored bitmaps of a word differ.     *)
StoreGrows == [][\A w \in Word : IsPrefix(store[w], store'[w])]_vars

(* After the destructor the store has all that the consumer took; what is  *)
(* missing is the batch it never took.                                     *)
DestructorWrites ==
    clientPc = "destroyed" =>
        consumer = NoPostings /\ \A w \in Word : added[w] = store[w] \o producer[w]

(* A client that waits for a full batch to be taken does not wait for      *)
(* ever, unless the consumer has been stopped, even if a batch that is     *)
(* full for the client is too small for the consumer.                      *)
FlushReturns == (clientPc \in {"flush", "waiting"} /\ ~done) ~> (clientPc \notin {"flush", "waiting"})

(* stopConsumerThread returns, whatever the consumer is waiting for.       *)
StopReturns == (clientPc = "notify") ~> (consumerPc = "exited" /\ clientPc # "join")
================================================================================
