------------------------ MODULE InvertedIndexSimpleBatch ------------------------
(***************************************************************************)
(* The inverted index of the engine (src/InvertedIndexSimpleBatch.hpp).    *)
(*                                                                         *)
(* The client thread collects postings in memory; when a batch is full it  *)
(* signals the batch processor thread, which takes the batch under the     *)
(* mutex and merges it into the store outside of it.  The two threads      *)
(* share a mutex, a condition variable, two atomic flags and the store,    *)
(* and every access of one that the other can observe is a step here.      *)
(*                                                                         *)
(* A stored bitmap is abstracted to the documents in it and to whether     *)
(* they were appended in increasing order, which CompressedSet::addDoc     *)
(* requires of its callers.                                                *)
(***************************************************************************)
EXTENDS Naturals, FiniteSets

CONSTANTS
    Word,        \* the word ids
    MaxDocs,     \* bound: the largest document id
    MaxOldDocs,  \* bound: the number of documents indexed by an earlier run
    BatchSizes,  \* the values setMaxBatchSize is called with
    SetKinds     \* "Compressed", "Basic": what the set factories a program uses create

ASSUME WordAssumption == IsFiniteSet(Word)
ASSUME BoundAssumption == MaxDocs \in Nat /\ MaxOldDocs \in 0..MaxDocs
ASSUME BatchSizeAssumption == BatchSizes \subseteq Nat
ASSUME SetKindsAssumption == SetKinds \subseteq {"Compressed", "Basic"}

DocId == 1..MaxDocs
Bitmap == [docs : SUBSET DocId, sorted : BOOLEAN]
Thread == {"client", "processor"}

(* A map of the program holds some of the words: a function on a subset.   *)
MapTo(S) == UNION {[W -> S] : W \in SUBSET Word}
Empty == [w \in {} |-> {}]

VARIABLES
    store,         \* the words the store has, and their bitmaps
    postings,      \* word -> documents, the batch being collected
    batchSize,     \* postings counted since the last batch
    maxBatchSize,  \* atomic
    done,          \* atomic: shutDownBatchProcessor was called
    dataReady,     \* atomic: a batch waits for the processor
    mutex,         \* the thread that holds m, or "free"
    procPc,        \* where the batch processor is in processBatch
    clientPc,      \* where the client is in the operation it called
    destroying,    \* the operation is the destructor
    batch,         \* the postings a thread's flush works on
    writes,        \* the bitmaps a thread's flush has prepared
    nextDocId,     \* the id of the next document (EngineDataKVStore's docId)
    wordsOf,       \* history: the words each document was added with
    removed,       \* history: the postings erased by remove, or gone when it returned
    lost           \* history: the postings of a flush whose write failed

shared == <<batchSize, maxBatchSize, done, dataReady, mutex>>
history == <<nextDocId, wordsOf, removed, lost>>
vars == <<store, postings, shared, procPc, clientPc, destroying, batch, writes, history>>

--------------------------------------------------------------------------------
(* Postings as pairs: the view the properties take of the maps.            *)

PairsOf(m) == {p \in Word \X DocId : p[1] \in DOMAIN m /\ p[2] \in m[p[1]]}
StoredPairs == {p \in Word \X DocId : p[1] \in DOMAIN store /\ p[2] \in store[p[1]].docs}
InFlight == PairsOf(batch["client"]) \cup PairsOf(batch["processor"])
AllPostings == {p \in Word \X DocId : p[2] < nextDocId /\ p[1] \in wordsOf[p[2]]}

--------------------------------------------------------------------------------
(* The bitmap a flush prepares for one word: get (or create) the set, then *)
(* addDoc the documents it does not find, in increasing order.             *)

get(w) == IF w \in DOMAIN store THEN store[w] ELSE [docs |-> {}, sorted |-> TRUE]

(* Mutant: the stored documents of a word that exists are forgotten.       *)
Merge_Overwrites(b, D) == [docs |-> D, sorted |-> b.sorted]

Merge(b, D) ==
    [docs   |-> b.docs \cup D,
     sorted |-> b.sorted /\ \A d \in D \ b.docs, x \in b.docs : x < d]

(* flush(postings), one word at a time and in any order: the map is        *)
(* unordered.  Nothing in it takes the mutex.                              *)
FlushWord(t) == \E w \in DOMAIN batch[t] \ DOMAIN writes[t] :
    writes' = [writes EXCEPT ![t] =
                  [v \in DOMAIN writes[t] \cup {w} |->
                      IF v = w THEN Merge(get(w), batch[t][w]) ELSE writes[t][v]]]

(* store->Put(writes) at the end of flush: one atomic write batch.  When   *)
(* it fails flush returns 0, which no caller looks at.                     *)
Written(m, W) == [w \in DOMAIN store \cup W |-> IF w \in W THEN m[w] ELSE store[w]]

(* Mutant: one Put per word, and the first one succeeds.                   *)
Put_WordByWord(m, ok) ==
    Written(m, IF ok \/ DOMAIN m = {} THEN DOMAIN m ELSE {CHOOSE w \in DOMAIN m : TRUE})

Put(m, ok) == IF ok THEN Written(m, DOMAIN m) ELSE store

FlushPut(t, ok) ==
    /\ DOMAIN writes[t] = DOMAIN batch[t]
    /\ store' = Put(writes[t], ok)
    /\ batch' = [batch EXCEPT ![t] = Empty]
    /\ writes' = [writes EXCEPT ![t] = Empty]

(* Nobody has the postings of a flush that failed.                         *)
Dropped(t, ok) == lost' = IF ok THEN lost ELSE lost \cup PairsOf(batch[t])

(* notify_one: the processor, if it waits, is moved to the mutex queue.    *)
(* Mutant: the notification is forgotten.                                  *)
Notified_Never(pc) == pc

Notified(pc) == IF pc = "waiting" THEN "woken" ELSE pc

--------------------------------------------------------------------------------
(* processBatch, the batch processor thread.                               *)

(* while (!done): the processor leaves the loop or goes for the mutex.     *)
ProcLoop ==
    /\ procPc = "loop"
    /\ procPc' = IF done THEN "exited" ELSE "lock"
    /\ UNCHANGED <<store, postings, shared, clientPc, destroying, batch, writes, history>>

(* Mutant: the mutex is not taken again after a wait.                      *)
ProcLock_NotAfterWait ==
    /\ procPc \in {"lock", "woken"}
    /\ mutex = "free"
    /\ mutex' = IF procPc = "lock" THEN "processor" ELSE mutex
    /\ procPc' = "test"
    /\ UNCHANGED <<store, postings, batchSize, maxBatchSize, done, dataReady,
                   clientPc, destroying, batch, writes, history>>

(* unique_lock, and the mutex taken again inside cond.wait.                *)
ProcLock ==
    /\ procPc \in {"lock", "woken"}
    /\ mutex = "free"
    /\ mutex' = "processor"
    /\ procPc' = "test"
    /\ UNCHANGED <<store, postings, batchSize, maxBatchSize, done, dataReady,
                   clientPc, destroying, batch, writes, history>>

(* while (!dataReady)                                                      *)
ProcTest ==
    /\ procPc = "test"
    /\ procPc' = IF dataReady THEN "decide" ELSE "sleep"
    /\ UNCHANGED <<store, postings, shared, clientPc, destroying, batch, writes, history>>

(* cond.wait(lock): releases the mutex and joins the wait set at once.     *)
ProcWait ==
    /\ procPc = "sleep"
    /\ mutex' = "free"
    /\ procPc' = "waiting"
    /\ UNCHANGED <<store, postings, batchSize, maxBatchSize, done, dataReady,
                   clientPc, destroying, batch, writes, history>>

(* A condition variable may wake up with no notification.                  *)
SpuriousWakeup ==
    /\ procPc = "waiting"
    /\ procPc' = "woken"
    /\ UNCHANGED <<store, postings, shared, clientPc, destroying, batch, writes, history>>

(* if (!done), else the empty branch: the lock goes out of scope.          *)
ProcDecide ==
    /\ procPc = "decide"
    /\ procPc' = IF done THEN "loop" ELSE "take"
    /\ mutex' = IF done THEN "free" ELSE mutex
    /\ UNCHANGED <<store, postings, batchSize, maxBatchSize, done, dataReady,
                   clientPc, destroying, batch, writes, history>>

(* The batch is copied, the original cleared, and the mutex released.      *)
ProcTake ==
    /\ procPc = "take"
    /\ batch' = [batch EXCEPT !["processor"] = postings]
    /\ postings' = Empty
    /\ batchSize' = 0
    /\ dataReady' = FALSE
    /\ mutex' = "free"
    /\ procPc' = "flush"
    /\ UNCHANGED <<store, maxBatchSize, done, clientPc, destroying, writes, history>>

ProcFlushWord ==
    /\ procPc = "flush"
    /\ FlushWord("processor")
    /\ UNCHANGED <<store, postings, shared, procPc, clientPc, destroying, batch, history>>

ProcFlushPut(ok) ==
    /\ procPc = "flush"
    /\ FlushPut("processor", ok)
    /\ Dropped("processor", ok)
    /\ procPc' = "loop"
    /\ UNCHANGED <<postings, shared, clientPc, destroying, nextDocId, wordsOf, removed>>

ProcessorNext ==
    \/ ProcLoop \/ ProcLock \/ ProcTest \/ ProcWait \/ ProcDecide \/ ProcTake
    \/ ProcFlushWord \/ ProcFlushPut(TRUE)

--------------------------------------------------------------------------------
(* The client thread's operations.                                         *)

setMaxBatchSize(n) ==
    /\ clientPc = "idle"
    /\ maxBatchSize' = n
    /\ UNCHANGED <<store, postings, batchSize, done, dataReady, mutex, procPc,
                   clientPc, destroying, batch, writes, history>>

(* Mutant: word and document change places, as they do between the adds.   *)
Entered_Swapped(d, ws) ==
    [w \in DOMAIN postings \cup ws |->
        (IF w \in DOMAIN postings THEN postings[w] ELSE {})
            \cup (IF w \in ws THEN {w} ELSE {})]

(* The postings of document d are entered in the batch.                    *)
Entered(d, ws) ==
    [w \in DOMAIN postings \cup ws |->
        (IF w \in DOMAIN postings THEN postings[w] ELSE {})
            \cup (IF w \in ws THEN {d} ELSE {})]

(* add(docid, documentWordId); add(wordId, docid) does the same with one   *)
(* word.  The mutex is held throughout, so it is one step, up to the flush *)
(* it does itself once the processor is shut down.                         *)
add(ws) ==
    /\ clientPc = "idle"
    /\ mutex = "free"
    /\ nextDocId \in DocId
    /\ wordsOf' = [wordsOf EXCEPT ![nextDocId] = ws]
    /\ nextDocId' = nextDocId + 1
    /\ postings' = Entered(nextDocId, ws)
    /\ batchSize' = batchSize + Cardinality(ws)
    /\ \/ /\ batchSize' < maxBatchSize
          /\ UNCHANGED <<dataReady, mutex, procPc, clientPc, batch>>
       \/ /\ batchSize' >= maxBatchSize
          /\ ~done
          /\ dataReady' = TRUE
          /\ procPc' = Notified(procPc)
          /\ UNCHANGED <<mutex, clientPc, batch>>
       \/ /\ batchSize' >= maxBatchSize
          /\ done
          /\ mutex' = "client"
          /\ batch' = [batch EXCEPT !["client"] = postings']
          /\ clientPc' = "flushLocked"
          /\ UNCHANGED <<dataReady, procPc>>
    /\ UNCHANGED <<store, maxBatchSize, done, destroying, writes, removed, lost>>

(* Mutant: the batch is cleared and never written.                         *)
Collected_Cleared == Empty

(* What flushBatch and the destructor flush.                               *)
Collected == postings

(* flushBatch(): flush under the mutex.                                    *)
flushBatch ==
    /\ clientPc = "idle"
    /\ mutex = "free"
    /\ mutex' = "client"
    /\ batch' = [batch EXCEPT !["client"] = Collected]
    /\ clientPc' = "flushLocked"
    /\ UNCHANGED <<store, postings, batchSize, maxBatchSize, done, dataReady, procPc,
                   destroying, writes, history>>

ClientFlushWord ==
    /\ clientPc \in {"flushLocked", "flushFinal"}
    /\ FlushWord("client")
    /\ UNCHANGED <<store, postings, shared, procPc, clientPc, destroying, batch, history>>

(* The end of a flush under the mutex: the batch is cleared, m released.   *)
ClientFlushPut(ok) ==
    /\ clientPc = "flushLocked"
    /\ FlushPut("client", ok)
    /\ Dropped("client", ok)
    /\ postings' = Empty
    /\ batchSize' = 0
    /\ mutex' = "free"
    /\ clientPc' = "idle"
    /\ UNCHANGED <<maxBatchSize, done, dataReady, procPc, destroying, nextDocId, wordsOf, removed>>

(* shutDownBatchProcessor(), called by itself and by the destructor.  None *)
(* of its steps holds the mutex.  Only the client writes done, so the test *)
(* of done is one step with the call.                                      *)
shutDownBatchProcessor ==
    /\ clientPc = "idle"
    /\ ~done
    /\ clientPc' = "setReady"
    /\ UNCHANGED <<store, postings, shared, procPc, destroying, batch, writes, history>>

(* ~InvertedIndexSimpleBatch(): shut the processor down, then flush what   *)
(* is left without the mutex.                                              *)
Destroy ==
    /\ clientPc = "idle"
    /\ destroying' = TRUE
    /\ \/ /\ ~done
          /\ clientPc' = "setReady"
          /\ UNCHANGED batch
       \/ /\ done
          /\ clientPc' = "flushFinal"
          /\ batch' = [batch EXCEPT !["client"] = Collected]
    /\ UNCHANGED <<store, postings, shared, procPc, writes, history>>

ShutSetReady ==
    /\ clientPc = "setReady"
    /\ dataReady' = TRUE
    /\ clientPc' = "setDone"
    /\ UNCHANGED <<store, postings, batchSize, maxBatchSize, done, mutex, procPc,
                   destroying, batch, writes, history>>

ShutSetDone ==
    /\ clientPc = "setDone"
    /\ done' = TRUE
    /\ clientPc' = "notify"
    /\ UNCHANGED <<store, postings, batchSize, maxBatchSize, dataReady, mutex, procPc,
                   destroying, batch, writes, history>>

ShutNotify ==
    /\ clientPc = "notify"
    /\ procPc' = Notified(procPc)
    /\ clientPc' = "join"
    /\ UNCHANGED <<store, postings, shared, destroying, batch, writes, history>>

(* Mutant: the thread is detached.                                         *)
Joined_Detached == TRUE

Joined == procPc = "exited"

(* batchProcessor.join(), after which the destructor goes on to its flush. *)
ShutJoin ==
    /\ clientPc = "join"
    /\ Joined
    /\ \/ ~destroying /\ clientPc' = "idle" /\ UNCHANGED batch
       \/ destroying /\ clientPc' = "flushFinal"
                     /\ batch' = [batch EXCEPT !["client"] = Collected]
    /\ UNCHANGED <<store, postings, shared, procPc, destroying, writes, history>>

(* The destructor's flush ends: the postings go with the object.           *)
DestroyPut(ok) ==
    /\ clientPc = "flushFinal"
    /\ FlushPut("client", ok)
    /\ Dropped("client", ok)
    /\ postings' = Empty
    /\ clientPc' = "destroyed"
    /\ UNCHANGED <<shared, procPc, destroying, nextDocId, wordsOf, removed>>

Erased(w, d) ==
    IF w \in DOMAIN postings THEN [postings EXCEPT ![w] = @ \ {d}] ELSE postings

(* Mutant: removeDocId leaves the set as it is.                            *)
RemoveDocIds_Nothing(b, D) == b

removeDocIds(b, D) == [b EXCEPT !.docs = @ \ D]

(* remove(wordId, docId): the pending posting goes under the mutex, the    *)
(* stored one in a read and a write of the store that hold no lock.        *)
(* Engine::deleteDocument calls it with the words of an added document.    *)
remove(w, d) ==
    /\ clientPc = "idle"
    /\ mutex = "free"
    /\ <<w, d>> \in AllPostings
    /\ postings' = Erased(w, d)
    /\ removed' = removed \cup ({<<w, d>>} \cap PairsOf(postings))
    /\ batch' = [batch EXCEPT !["client"] = [v \in {w} |-> {d}]]
    /\ clientPc' = "removeGet"
    /\ UNCHANGED <<store, shared, procPc, destroying, writes, nextDocId, wordsOf, lost>>

(* get finds no bitmap, and remove returns.                                *)
RemoveMissing ==
    /\ clientPc = "removeGet"
    /\ DOMAIN batch["client"] \cap DOMAIN store = {}
    /\ removed' = removed \cup PairsOf(batch["client"])
    /\ batch' = [batch EXCEPT !["client"] = Empty]
    /\ clientPc' = "idle"
    /\ UNCHANGED <<store, postings, shared, procPc, destroying, writes, nextDocId, wordsOf, lost>>

(* get, and removeDocId on the set that was read.                          *)
RemoveGet ==
    /\ clientPc = "removeGet"
    /\ "Basic" \in SetKinds
    /\ DOMAIN batch["client"] \subseteq DOMAIN store
    /\ writes' = [writes EXCEPT !["client"] =
          [w \in DOMAIN batch["client"] |-> removeDocIds(store[w], batch["client"][w])]]
    /\ clientPc' = "removePut"
    /\ UNCHANGED <<store, postings, shared, procPc, destroying, batch, history>>

(* CompressedSet::removeDocId always throws: the exception leaves remove.  *)
RemoveThrows ==
    /\ clientPc = "removeGet"
    /\ "Compressed" \in SetKinds
    /\ DOMAIN batch["client"] \subseteq DOMAIN store
    /\ batch' = [batch EXCEPT !["client"] = Empty]
    /\ clientPc' = "idle"
    /\ UNCHANGED <<store, postings, shared, procPc, destroying, writes, history>>

(* put of the reduced set: the word's bitmap is overwritten.  When the     *)
(* write fails remove returns 0, and the posting stays.                    *)
RemovePut(ok) ==
    /\ clientPc = "removePut"
    /\ FlushPut("client", ok)
    /\ removed' = removed \cup (IF ok THEN PairsOf(batch["client"]) ELSE {})
    /\ clientPc' = "idle"
    /\ UNCHANGED <<postings, shared, procPc, destroying, nextDocId, wordsOf, lost>>

--------------------------------------------------------------------------------
(* The programs.  The constructor opens a store that an earlier run wrote  *)
(* completely, or an empty one, and starts the processor.                  *)

Init ==
    /\ nextDocId \in 1..(MaxOldDocs + 1)
    /\ wordsOf \in {f \in [DocId -> SUBSET Word] : \A d \in DocId : d >= nextDocId => f[d] = {}}
    /\ store = [w \in {v \in Word : \E d \in DocId : v \in wordsOf[d]} |->
                   [docs |-> {d \in DocId : w \in wordsOf[d]}, sorted |-> TRUE]]
    /\ removed = {}
    /\ lost = {}
    /\ postings = Empty
    /\ batchSize = 0
    /\ maxBatchSize \in BatchSizes
    /\ done = FALSE
    /\ dataReady = FALSE
    /\ mutex = "free"
    /\ procPc = "loop"
    /\ clientPc = "idle"
    /\ destroying = FALSE
    /\ batch = [t \in Thread |-> Empty]
    /\ writes = [t \in Thread |-> Empty]

(* Steps of an operation the client is in.                                 *)
ClientStep ==
    \/ ClientFlushWord \/ ClientFlushPut(TRUE) \/ DestroyPut(TRUE)
    \/ ShutSetReady \/ ShutSetDone \/ ShutNotify \/ ShutJoin

(* The engine of the server: documents are added, batching is configured   *)
(* or disabled, the engine is deleted.                                     *)
Next ==
    \/ ProcessorNext
    \/ SpuriousWakeup
    \/ ClientStep
    \/ \E n \in BatchSizes : setMaxBatchSize(n)
    \/ \E ws \in SUBSET Word : add(ws)
    \/ shutDownBatchProcessor
    \/ Destroy

Spec == Init /\ [][Next]_vars

(* The threads are scheduled: the processor takes its steps, and the       *)
(* client finishes the operation it is in.  Neither has to be called, and  *)
(* nothing makes a condition variable wake up spuriously.                  *)
Fairness == WF_vars(ProcessorNext) /\ WF_vars(ClientStep)
FairSpec == Spec /\ Fairness

(* engine_simple_main: flushBatch while the processor is running.          *)
LoaderNext == Next \/ flushBatch
LoaderSpec == Init /\ [][LoaderNext]_vars

(* The use the unit tests make: flushBatch and remove once the processor   *)
(* has been shut down.                                                     *)
Erase ==
    \/ \E w \in Word, d \in DocId : remove(w, d)
    \/ RemoveMissing \/ RemoveGet \/ RemoveThrows \/ RemovePut(TRUE)
LibraryNext == Next \/ (procPc = "exited" /\ (flushBatch \/ Erase))
LibrarySpec == Init /\ [][LibraryNext]_vars

(* Engine::deleteDocument while the processor is running.                  *)
DeleteNext == Next \/ Erase
DeleteSpec == Init /\ [][DeleteNext]_vars

(* The program of the unit tests with a store whose writes may fail.       *)
WriteFails == ProcFlushPut(FALSE) \/ ClientFlushPut(FALSE) \/ DestroyPut(FALSE) \/ RemovePut(FALSE)
FaultyNext == LibraryNext \/ WriteFails
FaultySpec == Init /\ [][FaultyNext]_vars

--------------------------------------------------------------------------------
(* Properties.                                                             *)

ProcPc == {"loop", "lock", "test", "sleep", "waiting", "woken", "decide", "take",
           "flush", "exited"}
ClientPc == {"idle", "flushLocked", "setReady", "setDone", "notify", "join",
             "flushFinal", "destroyed", "removeGet", "removePut"}

(* Type invariant of the index's fields, its two threads and their maps.   *)
TypeOK ==
    /\ store \in MapTo(Bitmap)
    /\ postings \in MapTo(SUBSET DocId)
    /\ batchSize \in Nat
    /\ maxBatchSize \in Nat
    /\ done \in BOOLEAN
    /\ dataReady \in BOOLEAN
    /\ mutex \in Thread \cup {"free"}
    /\ procPc \in ProcPc
    /\ clientPc \in ClientPc
    /\ destroying \in BOOLEAN
    /\ batch \in [Thread -> MapTo(SUBSET DocId)]
    /\ writes \in [Thread -> MapTo(Bitmap)]
    /\ nextDocId \in 1..(MaxDocs + 1)
    /\ wordsOf \in [DocId -> SUBSET Word]
    /\ removed \in SUBSET (Word \X DocId)
    /\ lost \in SUBSET (Word \X DocId)

(* The postings that were added, not removed, and not in a write the store *)
(* refused.                                                                *)
Kept == AllPostings \ (removed \cup lost)

(* No posting is lost between the threads: every posting added (and not    *)
(* removed, or in a failed write) is in the batch being collected, in a    *)
(* batch a flush is working on, or in the store.                           *)
NoPostingLost == Kept \subseteq StoredPairs \cup InFlight \cup PairsOf(postings)

(* Every stored bitmap was built by appending documents in increasing      *)
(* order, although batches and threads reach the store by different ways:  *)
(* CompressedSet::addDoc relies on it.                                     *)
SortedBitmaps == \A w \in DOMAIN store : store[w].sorted

(* Once the destructor has returned, exactly the postings added and not    *)
(* removed are in the store, but for those of the very flushes whose write *)
(* failed, whatever the processor was doing.                               *)
DurableOnceDestroyed == clientPc = "destroyed" => StoredPairs = Kept

(* The inductive invariant behind the three, for the engine's program:     *)
(*   who holds the mutex, and when the processor is known to be gone;      *)
(*   what a flush works on, and that the bitmaps it prepared still extend  *)
(*   what the store has, because no other flush runs;                      *)
(*   every posting is in exactly one of three stages (store, batch taken   *)
(*   by the processor, batch being collected), and all the documents of an *)
(*   earlier stage are older than those of a later one.                    *)
ClientFlushing == clientPc \in {"flushLocked", "flushFinal"}

MutexInv ==
    /\ mutex = "processor" <=> procPc \in {"test", "sleep", "decide", "take"}
    /\ mutex = "client" <=> clientPc = "flushLocked"

OneFlusher ==
    /\ clientPc \in {"setReady", "setDone"} => ~done
    /\ done /\ clientPc \notin {"notify", "join"} => procPc = "exited"
    /\ ClientFlushing \/ clientPc = "destroyed" => done
    /\ procPc = "exited" => done

Prepared(t) ==
    /\ DOMAIN writes[t] \subseteq DOMAIN batch[t]
    /\ \A w \in DOMAIN writes[t] : writes[t][w] = Merge(get(w), batch[t][w])

FlushInv ==
    /\ procPc # "flush" => batch["processor"] = Empty
    /\ batch["client"] = IF ClientFlushing THEN postings ELSE Empty
    /\ \A t \in Thread : Prepared(t)

Precedes(P, Q) == \A p \in P, q \in Q : p[2] < q[2]

StagesInv ==
    LET taken == PairsOf(batch["processor"])
        collected == PairsOf(postings)
    IN /\ AllPostings = StoredPairs \cup taken \cup collected
       /\ Precedes(StoredPairs, taken)
       /\ Precedes(StoredPairs, collected)
       /\ Precedes(taken, collected)
       /\ clientPc = "destroyed" => postings = Empty

NothingRemoved == removed = {} /\ lost = {} /\ clientPc \notin {"removeGet", "removePut"}

StagedWriting ==
    TypeOK /\ NothingRemoved /\ MutexInv /\ OneFlusher /\ FlushInv /\ StagesInv /\ SortedBitmaps

(* A posting whose removal has returned does not come back.                *)
RemovedStaysRemoved ==
    clientPc = "idle" => removed \cap (StoredPairs \cup PairsOf(postings)) = {}

(* A document is in the store with all of its words (those not removed) or *)
(* with none, even when a write of a batch fails.                          *)
WholeDocuments ==
    \A p \in StoredPairs, q \in AllPostings \ removed : q[2] = p[2] => q \in StoredPairs

(* A reader of the store sees a prefix of the added documents, complete    *)
(* and growing, whichever of the threads writes it.                        *)
Prefix == INSTANCE PrefixIndex WITH visible <- StoredPairs
ImplementsPrefixIndex == Prefix!Spec

(* A posting in a batch that add asked the processor to write is           *)
(* eventually in the store, unless batching was disabled meanwhile: the    *)
(* signal is not lost, and the destructor, even if it is called at once,   *)
(* writes what the processor left.                                         *)
ReadyBatchIsWritten ==
    \A p \in Word \X DocId :
        (clientPc = "idle" /\ dataReady /\ p \in PairsOf(postings)) ~> (p \in StoredPairs \/ (done /\ ~destroying))

(* shutDownBatchProcessor wakes the processor up and kills it, so the call *)
(* returns.                                                                *)
ShutdownReturns == (clientPc = "setReady") ~> (procPc = "exited")
================================================================================
