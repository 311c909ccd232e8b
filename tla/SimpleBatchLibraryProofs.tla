------------------------ MODULE SimpleBatchLibraryProofs ------------------------
(***************************************************************************)
(* Proofs about InvertedIndexSimpleBatch used as a library: flushBatch and *)
(* remove are called once the batch processor is shut down, and any write  *)
(* of the store may fail.  Postings then leave the index in two ways that  *)
(* StagedWriting does not know: remove takes them away, and a failed write *)
(* drops a whole batch.                                                    *)
(***************************************************************************)
EXTENDS SimpleBatchProofs

Removing == clientPc \in {"removeGet", "removePut"}
Taken == PairsOf(batch["processor"])
Waiting == PairsOf(postings)
Removal == PairsOf(batch["client"])
Live == StoredPairs \cup Taken \cup Waiting

(* remove runs only when the processor is gone.                            *)
ControlPart == MutexInv /\ OneFlusher /\ (Removing => done)

(* What each thread's flush works on, and what it has prepared.            *)
FlushPart ==
    /\ procPc # "flush" => batch["processor"] = Empty
    /\ ClientFlushing => batch["client"] = postings
    /\ ~ClientFlushing /\ ~Removing => batch["client"] = Empty
    /\ Prepared("processor")
    /\ clientPc # "removePut" => Prepared("client")

(* What remove works on: the posting is no longer in the batch, and the    *)
(* set it prepared is the stored one without it.                           *)
RemovePart ==
    /\ Removing => Removal \cap Waiting = {} /\ Removal \subseteq AllPostings
    /\ clientPc = "removeGet" => DOMAIN writes["client"] = {}
    /\ clientPc = "removePut" =>
          /\ DOMAIN batch["client"] \subseteq DOMAIN store
          /\ DOMAIN writes["client"] = DOMAIN batch["client"]
          /\ \A w \in DOMAIN batch["client"] :
                writes["client"][w] = removeDocIds(store[w], batch["client"][w])

(* The postings that were added, and neither removed nor lost, are exactly *)
(* those in the three stages; the stages are in document order, and a      *)
(* document that lost a posting has none left.                             *)
StagesPart ==
    /\ Kept = Live
    /\ removed \subseteq AllPostings /\ lost \subseteq AllPostings
    /\ Precedes(StoredPairs, Taken)
    /\ Precedes(StoredPairs, Waiting)
    /\ Precedes(Taken, Waiting)
    /\ \A p \in lost, q \in Live : p[2] # q[2]
    /\ clientPc = "destroyed" => postings = Empty

(* The inductive invariant of the library's program on a faulty store.     *)
LibraryInv == TypeOK /\ ControlPart /\ FlushPart /\ RemovePart /\ StagesPart /\ SortedBitmaps
Rest == FlushPart /\ RemovePart /\ StagesPart /\ SortedBitmaps

(* The constructor establishes it: all postings are in the store.          *)
LEMMA LibraryInit == Init => LibraryInv
  <1> SUFFICES ASSUME Init PROVE LibraryInv
    OBVIOUS
  <1>1. StagedWriting
    BY StagedInit
  <1>2. clientPc = "idle" /\ removed = {} /\ lost = {}
    BY DEF Init
  <1>3. ControlPart /\ FlushPart /\ RemovePart
    BY <1>1, <1>2 DEF StagedWriting, FlushInv, ControlPart, FlushPart, RemovePart, Removing,
                      ClientFlushing, Thread
  <1>4. StagesPart
    BY <1>1, <1>2 DEF StagedWriting, StagesInv, StagesPart, Kept, Live, Taken, Waiting
  <1> QED BY <1>1, <1>3, <1>4 DEF StagedWriting, LibraryInv

(* The mutex, the flags and the program counters of every program that     *)
(* flushes and removes only once the processor has exited.                 *)
LEMMA LibraryControl ==
    ASSUME LibraryInv, [FaultyNext]_vars
    PROVE  ControlPart'
  <1>0. /\ done \in BOOLEAN /\ mutex \in Thread \cup {"free"}
        /\ procPc \in ProcPc /\ clientPc \in ClientPc /\ ControlPart
    BY DEF LibraryInv, TypeOK
  <1> USE <1>0 DEF Thread, ProcPc, ClientPc, ControlPart, MutexInv, OneFlusher, ClientFlushing,
                   Removing, shared, history
  <1>1. CASE ProcLoop \/ ProcLock
    BY <1>1 DEF ProcLoop, ProcLock
  <1>2. CASE ProcTest \/ ProcWait \/ SpuriousWakeup
    BY <1>2 DEF ProcTest, ProcWait, SpuriousWakeup
  <1>3. CASE ProcDecide \/ ProcTake
    BY <1>3 DEF ProcDecide, ProcTake
  <1>4. CASE ProcFlushWord \/ ClientFlushWord
    BY <1>4 DEF ProcFlushWord, ClientFlushWord
  <1>5. ASSUME NEW ok \in BOOLEAN, ProcFlushPut(ok) PROVE ControlPart'
    <2>1. /\ procPc = "flush" /\ procPc' = "loop"
          /\ UNCHANGED <<done, mutex, clientPc>>
      BY <1>5 DEF ProcFlushPut
    <2> QED BY <2>1
  <1>6. ASSUME NEW ok \in BOOLEAN, ClientFlushPut(ok) \/ DestroyPut(ok) PROVE ControlPart'
    BY <1>6 DEF ClientFlushPut, DestroyPut
  <1>7. CASE ShutSetReady \/ ShutSetDone
    BY <1>7 DEF ShutSetReady, ShutSetDone
  <1>8. CASE ShutNotify \/ ShutJoin
    BY <1>8 DEF ShutNotify, ShutJoin, Joined, Notified
  <1>9. CASE \E n \in BatchSizes : setMaxBatchSize(n)
    BY <1>9 DEF setMaxBatchSize
  <1>10. CASE \E ws \in SUBSET Word : add(ws)
    BY <1>10 DEF add, Notified
  <1>11. CASE shutDownBatchProcessor \/ Destroy
    BY <1>11 DEF shutDownBatchProcessor, Destroy
  <1>12. CASE procPc = "exited" /\ flushBatch
    BY <1>12 DEF flushBatch
  <1>13. CASE \E w \in Word, d \in DocId : procPc = "exited" /\ remove(w, d)
    BY <1>13 DEF remove
  <1>14. CASE RemoveMissing \/ RemoveGet \/ RemoveThrows
    BY <1>14 DEF RemoveMissing, RemoveGet, RemoveThrows
  <1>15. ASSUME NEW ok \in BOOLEAN, RemovePut(ok) PROVE ControlPart'
    BY <1>15 DEF RemovePut
  <1>16. CASE UNCHANGED vars
    BY <1>16 DEF vars
  <1> QED
    BY <1>1, <1>2, <1>3, <1>4, <1>5, <1>6, <1>7, <1>8, <1>9, <1>10, <1>11, <1>12, <1>13, <1>14,
       <1>15, <1>16
    DEF FaultyNext, WriteFails, LibraryNext, Erase, Next, ProcessorNext, ClientStep

(* A posting is in one stage only, and so is every document.               *)
LEMMA StagesApart ==
    ASSUME StagesPart
    PROVE  /\ \A p \in StoredPairs, q \in Taken \cup Waiting : p[2] # q[2]
           /\ \A p \in Taken, q \in Waiting : p[2] # q[2]
           /\ StoredPairs \cap (Taken \cup Waiting) = {}
           /\ Taken \cap Waiting = {}
  <1>1. \A p \in Live : p[2] \in Nat
    BY BoundAssumption DEF Live, StoredPairs, Taken, Waiting, PairsOf, DocId
  <1> QED BY <1>1 DEF StagesPart, Precedes, Live

(* Steps that move no posting.                                             *)
LEMMA LibraryIdleStep ==
    ASSUME LibraryInv,
           UNCHANGED <<store, postings, batch, writes, nextDocId, wordsOf, removed, lost>>,
           procPc = "flush" => procPc' = "flush",
           ClientFlushing' <=> ClientFlushing,
           clientPc' = "removeGet" <=> clientPc = "removeGet",
           clientPc' = "removePut" <=> clientPc = "removePut",
           clientPc' = "destroyed" => clientPc = "destroyed"
    PROVE  Rest'
  <1>1. /\ StoredPairs' = StoredPairs /\ AllPostings' = AllPostings /\ Taken' = Taken
        /\ Waiting' = Waiting /\ Removal' = Removal /\ Live' = Live /\ Kept' = Kept
        /\ Prepared("processor")' = Prepared("processor")
        /\ Prepared("client")' = Prepared("client")
    BY DEF StoredPairs, AllPostings, Taken, Waiting, Removal, Live, Kept, PairsOf, Prepared, get
  <1>2. FlushPart'
    BY <1>1 DEF LibraryInv, FlushPart, Removing
  <1>3. RemovePart'
    BY <1>1 DEF LibraryInv, RemovePart, Removing
  <1>4. StagesPart'
    BY <1>1 DEF LibraryInv, StagesPart
  <1>5. SortedBitmaps'
    BY DEF LibraryInv, SortedBitmaps
  <1> QED BY <1>2, <1>3, <1>4, <1>5 DEF Rest

(* While the processor has something to write, the client neither flushes  *)
(* nor removes; while the client does, the processor is gone.              *)
LEMMA OneAtATime ==
    ASSUME LibraryInv
    PROVE  /\ procPc # "exited" => /\ ~ClientFlushing /\ ~Removing /\ clientPc # "destroyed"
                                   /\ batch["client"] = Empty /\ DOMAIN writes["client"] = {}
           /\ ClientFlushing \/ Removing => procPc = "exited"
           /\ procPc # "flush" => batch["processor"] = Empty /\ DOMAIN writes["processor"] = {}
                                  /\ Taken = {}
  BY EmptyMap DEF LibraryInv, ControlPart, OneFlusher, FlushPart, Prepared, ClientFlushing,
                  Removing, Taken

(* The processor takes the batch.                                          *)
LEMMA LibraryTakeStep ==
    ASSUME LibraryInv, ProcTake
    PROVE  Rest'
  <1> USE DEF Thread
  <1>1. /\ batch["processor"] = Empty /\ batch["client"] = Empty /\ ~ClientFlushing /\ ~Removing
        /\ clientPc # "destroyed" /\ Taken = {}
        /\ DOMAIN writes["processor"] = {} /\ DOMAIN writes["client"] = {}
    BY OneAtATime DEF ProcTake
  <1>2. /\ batch'["processor"] = postings /\ batch'["client"] = Empty
        /\ postings' = Empty /\ procPc' = "flush"
        /\ UNCHANGED <<store, writes, clientPc, nextDocId, wordsOf, removed, lost>>
    BY <1>1 DEF ProcTake, LibraryInv, TypeOK, history
  <1>3. FlushPart'
    BY <1>1, <1>2 DEF FlushPart, Prepared, ClientFlushing, Removing
  <1>4. RemovePart'
    BY <1>1, <1>2 DEF RemovePart, Removing
  <1>5. /\ Taken' = Waiting /\ Waiting' = {} /\ StoredPairs' = StoredPairs
        /\ AllPostings' = AllPostings /\ Kept' = Kept
    BY <1>2, EmptyMap DEF Taken, Waiting, PairsOf, StoredPairs, AllPostings, Kept
  <1>6. Live' = Live
    BY <1>1, <1>5 DEF Live
  <1>7. StagesPart'
    BY <1>1, <1>2, <1>5, <1>6 DEF LibraryInv, StagesPart, Precedes
  <1>8. SortedBitmaps'
    BY <1>2 DEF LibraryInv, SortedBitmaps
  <1> QED BY <1>3, <1>4, <1>7, <1>8 DEF Rest

(* A flush prepares one more word.                                         *)
LEMMA LibraryWordStep ==
    ASSUME LibraryInv, ProcFlushWord \/ ClientFlushWord
    PROVE  Rest'
  <1> USE DEF Thread
  <1>1. PICK t \in Thread : FlushWord(t) /\ (t = "client" => ClientFlushing)
    BY DEF ProcFlushWord, ClientFlushWord, ClientFlushing
  <1>2. UNCHANGED <<store, postings, procPc, clientPc, batch, nextDocId, wordsOf, removed, lost>>
    BY DEF ProcFlushWord, ClientFlushWord, history
  <1>3. PICK w \in DOMAIN batch[t] \ DOMAIN writes[t] :
            writes' = [writes EXCEPT ![t] =
                [v \in DOMAIN writes[t] \cup {w} |->
                    IF v = w THEN Merge(get(w), batch[t][w]) ELSE writes[t][v]]]
    BY <1>1 DEF FlushWord
  <1>4. writes \in [Thread -> MapTo(Bitmap)]
    BY DEF LibraryInv, TypeOK
  <1>5. \A v : get(v)' = get(v)
    BY <1>2 DEF get
  <1>6. ASSUME NEW u \in Thread, Prepared(u)
        PROVE  Prepared(u)'
    <2>1. CASE u = t
      BY <1>2, <1>3, <1>4, <1>5, <1>6, <2>1 DEF Prepared
    <2>2. CASE u # t
      BY <1>2, <1>3, <1>4, <1>5, <1>6, <2>2 DEF Prepared
    <2> QED BY <2>1, <2>2
  <1>7. FlushPart'
    BY <1>2, <1>6 DEF LibraryInv, FlushPart, ClientFlushing, Removing
  <1>8. Removing => UNCHANGED <<writes["client"]>>
    BY <1>1, <1>3, <1>4 DEF Removing, ClientFlushing
  <1>9. Removal' = Removal /\ Waiting' = Waiting /\ AllPostings' = AllPostings
    BY <1>2 DEF Removal, Waiting, PairsOf, AllPostings
  <1>10. RemovePart'
    BY <1>2, <1>8, <1>9 DEF LibraryInv, RemovePart, Removing
  <1>11. /\ StoredPairs' = StoredPairs /\ Taken' = Taken /\ Kept' = Kept /\ Live' = Live
    BY <1>2 DEF StoredPairs, Taken, Waiting, Kept, Live, PairsOf, AllPostings
  <1>12. StagesPart'
    BY <1>2, <1>9, <1>11 DEF LibraryInv, StagesPart
  <1>13. SortedBitmaps'
    BY <1>2 DEF LibraryInv, SortedBitmaps
  <1> QED BY <1>7, <1>10, <1>12, <1>13 DEF Rest

(* The end of a flush of t whose postings are one of the two later stages: *)
(* they join the store, all of them, or are lost, all of them.             *)
LEMMA LibraryPut ==
    ASSUME LibraryInv, NEW t \in Thread, NEW ok \in BOOLEAN, Prepared(t), FlushPut(t, ok),
           Dropped(t, ok), Precedes(StoredPairs, PairsOf(batch[t])),
           UNCHANGED <<nextDocId, wordsOf, removed>>
    PROVE  /\ StoredPairs' = StoredPairs \cup (IF ok THEN PairsOf(batch[t]) ELSE {})
           /\ lost' = lost \cup (IF ok THEN {} ELSE PairsOf(batch[t]))
           /\ Kept' = Kept \ (IF ok THEN {} ELSE PairsOf(batch[t]))
           /\ AllPostings' = AllPostings
           /\ SortedBitmaps'
           /\ batch'[t] = Empty /\ DOMAIN writes'[t] = {}
           /\ \A u \in Thread \ {t} : batch'[u] = batch[u] /\ writes'[u] = writes[u]
  <1>1. lost' = lost \cup (IF ok THEN {} ELSE PairsOf(batch[t]))
    BY DEF Dropped
  <1>2. AllPostings' = AllPostings
    BY DEF AllPostings
  <1>3. Kept' = Kept \ (IF ok THEN {} ELSE PairsOf(batch[t]))
    BY <1>1, <1>2 DEF Kept
  <1>4. /\ batch'[t] = Empty /\ DOMAIN writes'[t] = {}
        /\ \A u \in Thread \ {t} : batch'[u] = batch[u] /\ writes'[u] = writes[u]
    BY EmptyMap DEF FlushPut, LibraryInv, TypeOK
  <1>5. CASE ok
    <2>1. FlushPut(t, TRUE)
      BY <1>5
    <2>2. StoredPairs' = StoredPairs \cup PairsOf(batch[t]) /\ SortedBitmaps'
      BY <2>1, FlushPutExtends DEF LibraryInv
    <2> QED BY <1>1, <1>2, <1>3, <1>4, <1>5, <2>2
  <1>6. CASE ~ok
    <2>1. store' = store
      BY <1>6 DEF FlushPut, Put
    <2>2. StoredPairs' = StoredPairs /\ SortedBitmaps'
      BY <2>1 DEF StoredPairs, SortedBitmaps, LibraryInv
    <2> QED BY <1>1, <1>2, <1>3, <1>4, <1>6, <2>2
  <1> QED BY <1>5, <1>6

(* The processor's flush ends.                                             *)
LEMMA LibraryProcPutStep ==
    ASSUME LibraryInv, NEW ok \in BOOLEAN, ProcFlushPut(ok)
    PROVE  Rest'
  <1> USE DEF Thread
  <1> DEFINE gone == IF ok THEN {} ELSE Taken
  <1>1. /\ procPc = "flush" /\ FlushPut("processor", ok) /\ Dropped("processor", ok)
        /\ procPc' = "loop" /\ UNCHANGED <<postings, clientPc, nextDocId, wordsOf, removed>>
    BY DEF ProcFlushPut
  <1>2. /\ ~ClientFlushing /\ ~Removing /\ batch["client"] = Empty
        /\ DOMAIN writes["client"] = {} /\ clientPc # "destroyed"
    BY <1>1, OneAtATime
  <1>3. Precedes(StoredPairs, PairsOf(batch["processor"])) /\ Prepared("processor")
    BY DEF LibraryInv, StagesPart, FlushPart, Taken
  <1>4. /\ StoredPairs' = StoredPairs \cup (IF ok THEN Taken ELSE {})
        /\ lost' = lost \cup gone /\ Kept' = Kept \ gone
        /\ AllPostings' = AllPostings /\ SortedBitmaps'
        /\ batch'["processor"] = Empty /\ DOMAIN writes'["processor"] = {}
        /\ batch'["client"] = Empty /\ DOMAIN writes'["client"] = {}
    BY <1>1, <1>2, <1>3, LibraryPut DEF Taken
  <1>5. FlushPart'
    BY <1>1, <1>2, <1>4 DEF FlushPart, Prepared, ClientFlushing, Removing
  <1>6. RemovePart'
    BY <1>1, <1>2 DEF RemovePart, Removing
  <1>7. Taken' = {} /\ Waiting' = Waiting
    BY <1>1, <1>4, EmptyMap DEF Taken, Waiting, PairsOf
  <1>8. Live' = Live \ gone /\ gone \subseteq Live
    BY <1>4, <1>7, StagesApart DEF Live, LibraryInv
  <1>9. Precedes(StoredPairs', Waiting)
    BY <1>4 DEF LibraryInv, StagesPart, Precedes
  <1>10. \A p \in lost', q \in Live' : p[2] # q[2]
    <2>1. \A p \in lost, q \in Live' : p[2] # q[2]
      BY <1>8 DEF LibraryInv, StagesPart
    <2>2. CASE ok
      BY <1>4, <2>1, <2>2
    <2>3. CASE ~ok
      <3>1. \A p \in Taken, q \in StoredPairs \cup Waiting : p[2] # q[2]
        BY StagesApart DEF LibraryInv
      <3> QED BY <1>4, <1>7, <2>1, <2>3, <3>1 DEF Live
    <2> QED BY <2>2, <2>3
  <1>11. Kept' = Live'
    BY <1>4, <1>8 DEF LibraryInv, StagesPart
  <1>12. removed' \subseteq AllPostings' /\ lost' \subseteq AllPostings'
    BY <1>1, <1>4, <1>8 DEF LibraryInv, StagesPart, Kept
  <1>13. Precedes(StoredPairs', {}) /\ Precedes({}, Waiting)
    BY DEF Precedes
  <1>14. StagesPart'
    BY <1>1, <1>2, <1>7, <1>9, <1>10, <1>11, <1>12, <1>13 DEF StagesPart
  <1> QED BY <1>4, <1>5, <1>6, <1>14 DEF Rest

(* The client's flush ends, under the mutex or in the destructor.          *)
LEMMA LibraryClientPutStep ==
    ASSUME LibraryInv, NEW ok \in BOOLEAN, ClientFlushPut(ok) \/ DestroyPut(ok)
    PROVE  Rest'
  <1> USE DEF Thread
  <1> DEFINE gone == IF ok THEN {} ELSE Waiting
  <1>1. /\ ClientFlushing /\ FlushPut("client", ok) /\ Dropped("client", ok)
        /\ postings' = Empty /\ clientPc' \in {"idle", "destroyed"}
        /\ UNCHANGED <<procPc, nextDocId, wordsOf, removed>>
    BY DEF ClientFlushPut, DestroyPut, ClientFlushing
  <1>2. /\ procPc = "exited" /\ batch["processor"] = Empty /\ DOMAIN writes["processor"] = {}
        /\ Taken = {}
    BY <1>1, OneAtATime
  <1>3. batch["client"] = postings /\ Prepared("client")
    BY <1>1 DEF LibraryInv, FlushPart, ClientFlushing
  <1>4. Precedes(StoredPairs, PairsOf(batch["client"])) /\ PairsOf(batch["client"]) = Waiting
    BY <1>3 DEF LibraryInv, StagesPart, Waiting
  <1>5. /\ StoredPairs' = StoredPairs \cup (IF ok THEN Waiting ELSE {})
        /\ lost' = lost \cup gone /\ Kept' = Kept \ gone
        /\ AllPostings' = AllPostings /\ SortedBitmaps'
        /\ batch'["client"] = Empty /\ DOMAIN writes'["client"] = {}
        /\ batch'["processor"] = Empty /\ DOMAIN writes'["processor"] = {}
    BY <1>1, <1>2, <1>3, <1>4, LibraryPut
  <1>6. FlushPart'
    BY <1>1, <1>5 DEF FlushPart, Prepared, ClientFlushing, Removing
  <1>7. RemovePart'
    BY <1>1 DEF RemovePart, Removing
  <1>8. Taken' = {} /\ Waiting' = {}
    BY <1>1, <1>5, EmptyMap DEF Taken, Waiting
  <1>9. Live' = Live \ gone /\ gone \subseteq Live
    BY <1>2, <1>5, <1>8, StagesApart DEF Live, LibraryInv
  <1>10. \A p \in lost', q \in Live' : p[2] # q[2]
    <2>1. \A p \in lost, q \in Live' : p[2] # q[2]
      BY <1>9 DEF LibraryInv, StagesPart
    <2>2. CASE ok
      BY <1>5, <2>1, <2>2
    <2>3. CASE ~ok
      <3>1. \A p \in Waiting, q \in StoredPairs : p[2] # q[2]
        BY StagesApart DEF LibraryInv
      <3> QED BY <1>5, <1>8, <2>1, <2>3, <3>1 DEF Live
    <2> QED BY <2>2, <2>3
  <1>11. Kept' = Live'
    BY <1>5, <1>9 DEF LibraryInv, StagesPart
  <1>12. removed' \subseteq AllPostings' /\ lost' \subseteq AllPostings'
    BY <1>1, <1>5, <1>9 DEF LibraryInv, StagesPart, Kept
  <1>13. StagesPart'
    BY <1>1, <1>8, <1>10, <1>11, <1>12 DEF StagesPart, Precedes
  <1> QED BY <1>5, <1>6, <1>7, <1>13 DEF Rest

(* The client starts a flush of what has been collected.                   *)
LEMMA LibraryFlushStep ==
    ASSUME LibraryInv,
           UNCHANGED <<store, postings, writes, procPc, nextDocId, wordsOf, removed, lost>>,
           ~ClientFlushing, ~Removing, clientPc' \in {"flushLocked", "flushFinal"},
           batch' = [batch EXCEPT !["client"] = postings]
    PROVE  Rest'
  <1> USE DEF Thread
  <1>1. batch'["client"] = postings /\ batch'["processor"] = batch["processor"]
    BY DEF LibraryInv, TypeOK
  <1>2. DOMAIN writes["client"] = {}
    BY EmptyMap DEF LibraryInv, FlushPart, Prepared, Removing
  <1>3. /\ StoredPairs' = StoredPairs /\ AllPostings' = AllPostings /\ \A w : get(w)' = get(w)
        /\ Waiting' = Waiting /\ Taken' = Taken /\ Kept' = Kept /\ Live' = Live
    BY <1>1 DEF StoredPairs, AllPostings, get, PairsOf, Waiting, Taken, Kept, Live
  <1>4. FlushPart'
    BY <1>1, <1>2, <1>3 DEF LibraryInv, FlushPart, Prepared, ClientFlushing, Removing
  <1>5. RemovePart'
    BY DEF RemovePart, Removing
  <1>6. StagesPart'
    BY <1>3 DEF LibraryInv, StagesPart
  <1>7. SortedBitmaps'
    BY DEF LibraryInv, SortedBitmaps
  <1> QED BY <1>4, <1>5, <1>6, <1>7 DEF Rest

(* A document enters the batch; add may start a flush of its own.          *)
LEMMA LibraryAddStep ==
    ASSUME LibraryInv, NEW ws \in SUBSET Word, add(ws)
    PROVE  Rest'
  <1> USE DEF Thread
  <1>1. clientPc = "idle" /\ UNCHANGED <<store, writes, removed, lost>>
    BY DEF add
  <1>2. /\ ~ClientFlushing /\ ~Removing /\ batch["client"] = Empty
        /\ clientPc' \in {"idle", "flushLocked"}
    BY <1>1 DEF add, LibraryInv, FlushPart, ClientFlushing, Removing
  <1>3. /\ batch'["processor"] = batch["processor"]
        /\ batch'["client"] = IF ClientFlushing' THEN postings' ELSE Empty
        /\ procPc = "flush" => procPc' = "flush"
    BY <1>1, <1>2 DEF add, LibraryInv, TypeOK, ClientFlushing, Notified
  <1>4. DOMAIN writes["client"] = {}
    BY <1>1, <1>2, EmptyMap DEF LibraryInv, FlushPart, Prepared
  <1>5. /\ StoredPairs' = StoredPairs /\ \A w : get(w)' = get(w) /\ Taken' = Taken
    BY <1>1, <1>3 DEF StoredPairs, get, PairsOf, Taken
  <1>6. FlushPart'
    BY <1>1, <1>2, <1>3, <1>4, <1>5 DEF LibraryInv, FlushPart, Prepared, Removing
  <1>7. RemovePart'
    BY <1>2 DEF RemovePart, Removing
  <1>8. SortedBitmaps'
    BY <1>1 DEF LibraryInv, SortedBitmaps
  <1>9. /\ Waiting' = Waiting \cup NewPairs(ws) /\ AllPostings' = AllPostings \cup NewPairs(ws)
        /\ Precedes(AllPostings, NewPairs(ws))
    BY AddPairs DEF LibraryInv, Waiting, PairsOf
  <1>10. \A p \in AllPostings, q \in NewPairs(ws) : p[2] # q[2]
    BY <1>9, BoundAssumption DEF Precedes, AllPostings, NewPairs, DocId
  <1>11. Live' = Live \cup NewPairs(ws) /\ Kept' = Kept \cup NewPairs(ws)
    BY <1>1, <1>5, <1>9, <1>10 DEF LibraryInv, StagesPart, Live, Kept
  <1>12. Live \subseteq AllPostings
    BY DEF LibraryInv, StagesPart, Kept
  <1>13. \A p \in lost, q \in Live' : p[2] # q[2]
    BY <1>10, <1>11 DEF LibraryInv, StagesPart
  <1>14. Precedes(StoredPairs, Waiting') /\ Precedes(Taken, Waiting')
    BY <1>9, <1>12 DEF LibraryInv, StagesPart, Precedes, Live
  <1>15. StagesPart'
    BY <1>1, <1>2, <1>5, <1>9, <1>11, <1>13, <1>14 DEF LibraryInv, StagesPart
  <1> QED BY <1>6, <1>7, <1>8, <1>15 DEF Rest

(* remove takes the posting out of the batch; if it was there, it is in no *)
(* other stage.                                                            *)
LEMMA LibraryRemoveStep ==
    ASSUME LibraryInv, procPc = "exited", NEW w \in Word, NEW d \in DocId, remove(w, d)
    PROVE  Rest'
  <1> USE DEF Thread
  <1> DEFINE p == <<w, d>>
  <1>1. /\ clientPc = "idle" /\ clientPc' = "removeGet" /\ p \in AllPostings
        /\ postings' = Erased(w, d) /\ removed' = removed \cup ({p} \cap Waiting)
        /\ batch' = [batch EXCEPT !["client"] = [v \in {w} |-> {d}]]
        /\ UNCHANGED <<store, procPc, writes, nextDocId, wordsOf, lost>>
    BY DEF remove, Waiting
  <1>2. /\ batch'["client"] = [v \in {w} |-> {d}] /\ batch'["processor"] = batch["processor"]
        /\ DOMAIN writes["client"] = {}
    BY <1>1, EmptyMap DEF LibraryInv, TypeOK, FlushPart, Prepared, ClientFlushing, Removing
  <1>3. Removal' = {p}
    <2>1. ASSUME NEW q \in Word \X DocId
          PROVE  q \in PairsOf(batch'["client"]) <=> q = p
      BY <1>2 DEF PairsOf
    <2> QED BY <2>1 DEF Removal, PairsOf
  <1>4. Waiting' = Waiting \ {p}
    <2>1. postings \in MapTo(SUBSET DocId)
      BY DEF LibraryInv, TypeOK
    <2>2. ASSUME NEW q \in Word \X DocId
          PROVE  q \in PairsOf(postings') <=> q \in PairsOf(postings) /\ q # p
      <3>1. CASE w \in DOMAIN postings
        <4>1. DOMAIN postings' = DOMAIN postings
          BY <1>1, <3>1 DEF Erased
        <4>2. postings'[w] = postings[w] \ {d}
          BY <1>1, <3>1 DEF Erased
        <4>3. \A v \in DOMAIN postings : v # w => postings'[v] = postings[v]
          BY <1>1, <3>1 DEF Erased
        <4> QED BY <3>1, <4>1, <4>2, <4>3 DEF PairsOf
      <3>2. CASE w \notin DOMAIN postings
        BY <1>1, <3>2 DEF Erased, PairsOf
      <3> QED BY <3>1, <3>2
    <2> QED BY <2>2 DEF Waiting, PairsOf
  <1>5. /\ StoredPairs' = StoredPairs /\ Taken' = Taken /\ AllPostings' = AllPostings
        /\ \A v : get(v)' = get(v)
    BY <1>1, <1>2 DEF StoredPairs, Taken, PairsOf, AllPostings, get
  <1>6. FlushPart'
    BY <1>1, <1>2, <1>5 DEF LibraryInv, FlushPart, Prepared, ClientFlushing, Removing
  <1>7. RemovePart'
    BY <1>1, <1>2, <1>3, <1>4, <1>5 DEF RemovePart, Removing
  <1>8. Live' = Live \ ({p} \cap Waiting)
    BY <1>4, <1>5, StagesApart DEF Live, LibraryInv
  <1>9. Kept' = Kept \ ({p} \cap Waiting)
    BY <1>1, <1>5 DEF Kept
  <1>10. StagesPart'
    BY <1>1, <1>4, <1>5, <1>8, <1>9 DEF LibraryInv, StagesPart, Precedes
  <1>11. SortedBitmaps'
    BY <1>1 DEF LibraryInv, SortedBitmaps
  <1> QED BY <1>6, <1>7, <1>10, <1>11 DEF Rest

(* remove gives up: the store has no bitmap for the word, or it is one     *)
(* that cannot be reduced.                                                 *)
LEMMA LibraryRemoveEnds ==
    ASSUME LibraryInv, RemoveMissing \/ RemoveThrows
    PROVE  Rest'
  <1> USE DEF Thread
  <1>1. /\ clientPc = "removeGet" /\ clientPc' = "idle"
        /\ batch' = [batch EXCEPT !["client"] = Empty]
        /\ UNCHANGED <<store, postings, procPc, writes, nextDocId, wordsOf, lost>>
        /\ removed' = removed \/ (removed' = removed \cup Removal /\ RemoveMissing)
    BY DEF RemoveMissing, RemoveThrows, Removal, history
  <1>2. /\ batch'["client"] = Empty /\ batch'["processor"] = batch["processor"]
        /\ DOMAIN writes["client"] = {} /\ Taken = {}
    BY <1>1, OneAtATime DEF LibraryInv, TypeOK, RemovePart, Removing
  <1>3. /\ StoredPairs' = StoredPairs /\ Taken' = Taken /\ AllPostings' = AllPostings
        /\ Waiting' = Waiting /\ Live' = Live /\ \A v : get(v)' = get(v)
    BY <1>1, <1>2 DEF StoredPairs, Taken, Waiting, Live, PairsOf, AllPostings, get
  <1>4. FlushPart'
    BY <1>1, <1>2, <1>3 DEF LibraryInv, FlushPart, Prepared, ClientFlushing, Removing
  <1>5. RemovePart'
    BY <1>1 DEF RemovePart, Removing
  <1>6. RemoveMissing => Removal \cap Live = {}
    <2>1. RemoveMissing => Removal \cap StoredPairs = {}
      BY DEF RemoveMissing, Removal, PairsOf, StoredPairs
    <2> QED BY <1>1, <1>2, <2>1 DEF LibraryInv, RemovePart, Removing, Live
  <1>7. Kept' = Live
    BY <1>1, <1>3, <1>6 DEF LibraryInv, StagesPart, Kept
  <1>8. removed' \subseteq AllPostings
    BY <1>1 DEF LibraryInv, StagesPart, RemovePart, Removing
  <1>9. StagesPart'
    BY <1>1, <1>3, <1>7, <1>8 DEF LibraryInv, StagesPart
  <1>10. SortedBitmaps'
    BY <1>1 DEF LibraryInv, SortedBitmaps
  <1> QED BY <1>4, <1>5, <1>9, <1>10 DEF Rest

(* remove reads the bitmap and takes the document out of it.               *)
LEMMA LibraryRemoveGetStep ==
    ASSUME LibraryInv, RemoveGet
    PROVE  Rest'
  <1> USE DEF Thread
  <1>1. /\ clientPc = "removeGet" /\ clientPc' = "removePut"
        /\ DOMAIN batch["client"] \subseteq DOMAIN store
        /\ writes' = [writes EXCEPT !["client"] =
              [w \in DOMAIN batch["client"] |-> removeDocIds(store[w], batch["client"][w])]]
        /\ UNCHANGED <<store, postings, procPc, batch, nextDocId, wordsOf, removed, lost>>
    BY DEF RemoveGet, history
  <1>2. /\ writes'["client"] =
              [w \in DOMAIN batch["client"] |-> removeDocIds(store[w], batch["client"][w])]
        /\ writes'["processor"] = writes["processor"]
    BY <1>1 DEF LibraryInv, TypeOK
  <1>3. /\ StoredPairs' = StoredPairs /\ Taken' = Taken /\ AllPostings' = AllPostings
        /\ Waiting' = Waiting /\ Live' = Live /\ Kept' = Kept /\ Removal' = Removal
        /\ \A v : get(v)' = get(v)
    BY <1>1 DEF StoredPairs, Taken, Waiting, Live, Kept, Removal, PairsOf, AllPostings, get
  <1>4. FlushPart'
    BY <1>1, <1>2, <1>3 DEF LibraryInv, FlushPart, Prepared, ClientFlushing, Removing
  <1>5. RemovePart'
    BY <1>1, <1>2, <1>3 DEF LibraryInv, RemovePart, Removing
  <1>6. StagesPart'
    BY <1>1, <1>3 DEF LibraryInv, StagesPart
  <1>7. SortedBitmaps'
    BY <1>1 DEF LibraryInv, SortedBitmaps
  <1> QED BY <1>4, <1>5, <1>6, <1>7 DEF Rest

(* remove writes the reduced bitmap: the posting leaves the store, if the  *)
(* write succeeds, and nothing else does.                                  *)
LEMMA LibraryRemovePutStep ==
    ASSUME LibraryInv, NEW ok \in BOOLEAN, RemovePut(ok)
    PROVE  Rest'
  <1> USE DEF Thread
  <1> DEFINE gone == IF ok THEN Removal ELSE {}
  <1>1. /\ clientPc = "removePut" /\ clientPc' = "idle" /\ FlushPut("client", ok)
        /\ removed' = removed \cup gone
        /\ UNCHANGED <<postings, procPc, nextDocId, wordsOf, lost>>
    BY DEF RemovePut, Removal
  <1>2. /\ batch'["client"] = Empty /\ batch'["processor"] = batch["processor"]
        /\ DOMAIN writes'["client"] = {} /\ writes'["processor"] = writes["processor"]
        /\ batch["processor"] = Empty /\ DOMAIN writes["processor"] = {} /\ Taken = {}
    BY <1>1, OneAtATime, EmptyMap DEF FlushPut, LibraryInv, TypeOK, Removing
  <1>3. /\ DOMAIN store' = DOMAIN store
        /\ \A w \in DOMAIN store : store'[w] =
              IF ok /\ w \in DOMAIN batch["client"]
              THEN removeDocIds(store[w], batch["client"][w]) ELSE store[w]
    BY <1>1 DEF FlushPut, Put, Written, LibraryInv, RemovePart
  <1>4. /\ \A w \in DOMAIN store : store[w] \in Bitmap
    BY MapToElim DEF LibraryInv, TypeOK
  <1>5. ASSUME NEW w \in DOMAIN store
        PROVE  /\ store'[w].docs = store[w].docs \
                      (IF ok /\ w \in DOMAIN batch["client"] THEN batch["client"][w] ELSE {})
               /\ store'[w].sorted = store[w].sorted
    BY <1>3, <1>4, <1>5 DEF removeDocIds, Bitmap
  <1>6. StoredPairs' = StoredPairs \ gone
    <2>1. ASSUME NEW q \in Word \X DocId
          PROVE  q \in StoredPairs' <=> q \in StoredPairs /\ q \notin gone
      BY <1>3, <1>5 DEF StoredPairs, Removal, PairsOf
    <2> QED BY <2>1 DEF StoredPairs
  <1>7. SortedBitmaps'
    <2>1. \A w \in DOMAIN store : store[w].sorted
      BY DEF LibraryInv, SortedBitmaps
    <2> QED BY <1>3, <1>5, <2>1, Zenon DEF SortedBitmaps
  <1>8. /\ Waiting' = Waiting /\ AllPostings' = AllPostings /\ Taken' = {}
    BY <1>1, <1>2, EmptyMap DEF Waiting, PairsOf, AllPostings, Taken
  <1>9. Live' = Live \ gone /\ Kept' = Kept \ gone
    BY <1>1, <1>2, <1>6, <1>8 DEF Live, Kept, LibraryInv, RemovePart, Removing
  <1>10. FlushPart'
    BY <1>1, <1>2 DEF FlushPart, Prepared, ClientFlushing, Removing
  <1>11. RemovePart'
    BY <1>1 DEF RemovePart, Removing
  <1>12. removed' \subseteq AllPostings
    BY <1>1 DEF LibraryInv, StagesPart, RemovePart, Removing
  <1>13. StagesPart'
    BY <1>1, <1>6, <1>8, <1>9, <1>12 DEF LibraryInv, StagesPart, Precedes
  <1> QED BY <1>7, <1>10, <1>11, <1>13 DEF Rest

(* Every step of the library's program, on a store that may fail, keeps    *)
(* the inductive invariant.                                                *)
LEMMA LibraryStep == LibraryInv /\ [FaultyNext]_vars => LibraryInv'
  <1> SUFFICES ASSUME LibraryInv, [FaultyNext]_vars PROVE LibraryInv'
    OBVIOUS
  <1>1. TypeOK'
    BY TypeStep DEF LibraryInv, AnyNext
  <1>2. ControlPart'
    BY LibraryControl
  <1>3. Rest'
    <2> USE DEF shared, history
    <2>1. CASE ProcLoop \/ ProcLock \/ ProcTest \/ ProcWait \/ SpuriousWakeup \/ ProcDecide
      <3>1. /\ UNCHANGED <<store, postings, batch, writes, nextDocId, wordsOf, removed, lost,
                           clientPc>>
            /\ procPc # "flush"
        BY <2>1 DEF ProcLoop, ProcLock, ProcTest, ProcWait, SpuriousWakeup, ProcDecide
      <3> QED BY <3>1, LibraryIdleStep DEF ClientFlushing
    <2>2. CASE ProcTake
      BY <2>2, LibraryTakeStep
    <2>3. CASE ProcFlushWord \/ ClientFlushWord
      BY <2>3, LibraryWordStep
    <2>4. ASSUME NEW ok \in BOOLEAN, ProcFlushPut(ok) PROVE Rest'
      BY <2>4, LibraryProcPutStep
    <2>5. ASSUME NEW ok \in BOOLEAN, ClientFlushPut(ok) \/ DestroyPut(ok) PROVE Rest'
      BY <2>5, LibraryClientPutStep
    <2>6. CASE ShutSetReady \/ ShutSetDone \/ ShutNotify \/ shutDownBatchProcessor
      <3>1. /\ UNCHANGED <<store, postings, batch, writes, nextDocId, wordsOf, removed, lost>>
            /\ procPc = "flush" => procPc' = "flush"
            /\ ~ClientFlushing /\ ~ClientFlushing' /\ clientPc' # "destroyed"
            /\ ~Removing /\ ~Removing'
        BY <2>6 DEF ShutSetReady, ShutSetDone, ShutNotify, shutDownBatchProcessor, Notified,
                    ClientFlushing, Removing
      <3> QED BY <3>1, LibraryIdleStep DEF Removing
    <2>7. CASE ShutJoin \/ Destroy \/ flushBatch
      <3>1. /\ UNCHANGED <<store, postings, writes, procPc, nextDocId, wordsOf, removed, lost>>
            /\ ~ClientFlushing /\ ~Removing
            /\ \/ /\ clientPc' \in {"idle", "setReady"}
                  /\ UNCHANGED batch
               \/ /\ clientPc' \in {"flushLocked", "flushFinal"}
                  /\ batch' = [batch EXCEPT !["client"] = postings]
        BY <2>7 DEF ShutJoin, Destroy, flushBatch, ClientFlushing, Removing, Collected
      <3>2. CASE clientPc' \in {"idle", "setReady"} /\ UNCHANGED batch
        BY <3>1, <3>2, LibraryIdleStep DEF ClientFlushing, Removing
      <3>3. CASE clientPc' \in {"flushLocked", "flushFinal"}
                 /\ batch' = [batch EXCEPT !["client"] = postings]
        BY <3>1, <3>3, LibraryFlushStep
      <3> QED BY <3>1, <3>2, <3>3
    <2>8. ASSUME NEW n \in BatchSizes, setMaxBatchSize(n) PROVE Rest'
      BY <2>8, LibraryIdleStep DEF setMaxBatchSize, ClientFlushing
    <2>9. ASSUME NEW ws \in SUBSET Word, add(ws) PROVE Rest'
      BY <2>9, LibraryAddStep
    <2>10. ASSUME NEW w \in Word, NEW d \in DocId, procPc = "exited", remove(w, d) PROVE Rest'
      BY <2>10, LibraryRemoveStep
    <2>11. CASE RemoveMissing \/ RemoveThrows
      BY <2>11, LibraryRemoveEnds
    <2>12. CASE RemoveGet
      BY <2>12, LibraryRemoveGetStep
    <2>13. ASSUME NEW ok \in BOOLEAN, RemovePut(ok) PROVE Rest'
      BY <2>13, LibraryRemovePutStep
    <2>14. CASE UNCHANGED vars
      BY <2>14, LibraryIdleStep DEF vars, ClientFlushing
    <2> QED BY <2>1, <2>2, <2>3, <2>4, <2>5, <2>6, <2>7, <2>8, <2>9, <2>10, <2>11, <2>12, <2>13,
               <2>14
            DEF FaultyNext, WriteFails, LibraryNext, Erase, Next, ProcessorNext, ClientStep
  <1> QED BY <1>1, <1>2, <1>3 DEF LibraryInv, Rest

(* The library's program keeps the invariant, whichever writes fail.       *)
THEOREM LibraryInvariant == FaultySpec => []LibraryInv
  BY LibraryInit, LibraryStep, PTL DEF FaultySpec

(* A posting that remove has taken out of the batch or of the store is in  *)
(* neither afterwards: no batch prepared earlier brings it back.           *)
THEOREM RemovedForGood == FaultySpec => []RemovedStaysRemoved
  <1>1. LibraryInv => RemovedStaysRemoved
    BY DEF LibraryInv, StagesPart, Kept, Live, Waiting, RemovedStaysRemoved
  <1> QED BY <1>1, LibraryInvariant, PTL

(* A document is in the store with all of the words it still has or with   *)
(* none: a write that fails takes whole documents, never a part of one.    *)
THEOREM DocumentsWhole == FaultySpec => []WholeDocuments
  <1>1. ASSUME LibraryInv, NEW p \in StoredPairs, NEW q \in AllPostings \ removed, q[2] = p[2]
        PROVE  q \in StoredPairs
    <2>1. q \notin lost
      BY <1>1 DEF LibraryInv, StagesPart, Live
    <2>2. q \in StoredPairs \cup Taken \cup Waiting
      BY <1>1, <2>1 DEF LibraryInv, StagesPart, Kept, Live
    <2> QED BY <1>1, <2>2, StagesApart DEF LibraryInv
  <1>2. LibraryInv => WholeDocuments
    BY <1>1 DEF WholeDocuments
  <1> QED BY <1>2, LibraryInvariant, PTL

(* When the destructor has returned the store has exactly what was added,  *)
(* not removed, and not in a write that failed: no failure takes more than *)
(* the batch it hit, and no removal more than its posting.                 *)
THEOREM DurableDespiteFaults == FaultySpec => []DurableOnceDestroyed
  <1>1. ASSUME LibraryInv, clientPc = "destroyed"
        PROVE  StoredPairs = Kept
    <2>1. postings = Empty /\ procPc = "exited"
      BY <1>1 DEF LibraryInv, StagesPart, ControlPart, OneFlusher
    <2>2. Waiting = {} /\ Taken = {}
      BY <1>1, <2>1, OneAtATime, EmptyMap DEF Waiting
    <2> QED BY <1>1, <2>2 DEF LibraryInv, StagesPart, Live
  <1>2. LibraryInv => DurableOnceDestroyed
    BY <1>1 DEF DurableOnceDestroyed
  <1> QED BY <1>2, LibraryInvariant, PTL

(* Removals and failed writes never leave a bitmap out of order.           *)
THEOREM SortedDespiteFaults == FaultySpec => []SortedBitmaps
  <1>1. LibraryInv => SortedBitmaps
    BY DEF LibraryInv
  <1> QED BY <1>1, LibraryInvariant, PTL

(* Nor do they let a posting slip between the threads.                     *)
THEOREM NeverLostDespiteFaults == FaultySpec => []NoPostingLost
  <1>1. LibraryInv => NoPostingLost
    BY DEF LibraryInv, StagesPart, Live, Taken, Waiting, NoPostingLost, InFlight
  <1> QED BY <1>1, LibraryInvariant, PTL

================================================================================
