------------------------------ MODULE EngineProofs ------------------------------
(***************************************************************************)
(* Proofs about Engine, for any fields, tokens, bounds and number of runs  *)
(* of the process.  Whatever goes wrong (the process is killed at any      *)
(* step, the database is destroyed, a counter reads back as any number),   *)
(* ids keep their ranges and a posting has its document unless the         *)
(* deletion of it was asked for.  As long as nothing has gone wrong, the   *)
(* trie, the counters and what is persisted of them agree in every phase   *)
(* of the process, and from that search is sound and complete, word ids    *)
(* are distinct, documents are kept and only a database without words is   *)
(* refused.  The one thing search may return that it should not is a       *)
(* deleted document, for postings that were in the batch the processor had *)
(* taken while they were being removed.                                    *)
(***************************************************************************)
EXTENDS Engine, FiniteSetTheorems, TLAPS

(* The type invariant, and what addDocument checked before it stored the   *)
(* document: its id and the ids of its new words are within the bounds.    *)
Typed ==
    /\ TypeOK
    /\ phase = "indexing" =>
          /\ docId \in DocId \cap DOMAIN docs
          /\ wordId + Cardinality(WordsOf(docs[docId]) \ DOMAIN tree) <= MaxWordId + 1

(* The words of a document that the trie does not have can be counted.     *)
LEMMA NewWords ==
    ASSUME NEW doc \in Document, NEW S
    PROVE  Cardinality(WordsOf(doc) \ S) \in Nat
  BY FiniteAssumption, FS_CardinalityType, FS_Subset

(* The trie after a document was indexed: every word of the document is in *)
(* it, the words it had keep their ids, and the new ones have ids of their *)
(* own between the old counter and the new one.                            *)
LEMMA IndexedTrie ==
    ASSUME Typed, IndexDocument
    PROVE  /\ docs[docId] \in Document /\ docId \in DocId /\ docId \in DOMAIN docs
           /\ wordId \in Nat /\ wordId' \in wordId..(MaxWordId + 1)
           /\ DOMAIN tree' = DOMAIN tree \cup WordsOf(docs[docId])
           /\ tree' = [w \in DOMAIN tree' |-> tree'[w]]
           /\ \A w \in DOMAIN tree : tree'[w] = tree[w]
           /\ \A w \in DOMAIN tree' \ DOMAIN tree : tree'[w] \in wordId..(wordId' - 1)
           /\ \A v, w \in DOMAIN tree' \ DOMAIN tree : tree'[v] = tree'[w] => v = w
           /\ wordId' = wordId => DOMAIN tree' = DOMAIN tree
           /\ pending' = pending \cup {<<tree'[w], docId>> : w \in WordsOf(docs[docId])}
           /\ batched' = batched \cup {tree'[w] : w \in WordsOf(docs[docId])}
  <1> DEFINE words == WordsOf(docs[docId])
             new == words \ DOMAIN tree
             n == Cardinality(new)
  <1>1. /\ docs[docId] \in Document /\ docId \in DocId /\ docId \in DOMAIN docs
        /\ wordId \in Nat /\ wordId + n <= MaxWordId + 1
    BY DEF IndexDocument, Typed, TypeOK
  <1>2. n \in Nat /\ IsFiniteSet(new)
    BY <1>1, FiniteAssumption, FS_CardinalityType, FS_Subset
  <1>3. PICK f \in [new -> wordId..(wordId + n - 1)] :
           /\ \A v, w \in new : f[v] = f[w] => v = w
           /\ tree' = [w \in DOMAIN tree \cup new |-> IF w \in new THEN f[w] ELSE tree[w]]
    BY DEF IndexDocument
  <1>4. wordId' = wordId + n
    BY DEF IndexDocument, NextWordId
  <1>5. /\ pending' = pending \cup {<<tree'[w], docId>> : w \in words}
        /\ batched' = batched \cup {tree'[w] : w \in words}
    BY DEF IndexDocument
  <1>6. /\ DOMAIN tree' = DOMAIN tree \cup words /\ DOMAIN tree' \ DOMAIN tree = new
        /\ tree' = [w \in DOMAIN tree' |-> tree'[w]]
    BY <1>3
  <1>7. \A w \in DOMAIN tree : tree'[w] = tree[w]
    BY <1>3
  <1>8. \A w \in new : tree'[w] = f[w] /\ f[w] \in wordId..(wordId + n - 1)
    BY <1>3
  <1>9. wordId' \in wordId..(MaxWordId + 1)
    BY <1>1, <1>2, <1>4, BoundsAssumption
  <1>10. \A v, w \in new : tree'[v] = tree'[w] => v = w
    BY <1>3, <1>8
  <1>11. wordId' = wordId => new = {}
    BY <1>1, <1>2, <1>4, FS_EmptySet
  <1>12. \A w \in DOMAIN tree' \ DOMAIN tree : tree'[w] \in wordId..(wordId' - 1)
    <2> HIDE DEF n, new
    <2>1. wordId..(wordId + n - 1) = wordId..(wordId' - 1)
      BY <1>1, <1>2, <1>4
    <2> QED BY <1>6, <1>8, <2>1
  <1>13. \A v, w \in DOMAIN tree' \ DOMAIN tree : tree'[v] = tree'[w] => v = w
    BY <1>6, <1>10
  <1>14. wordId' = wordId => DOMAIN tree' = DOMAIN tree
    BY <1>6, <1>11
  <1> QED BY <1>1, <1>5, <1>6, <1>7, <1>9, <1>12, <1>13, <1>14

(* Nothing is stored and the counters are at 1.                            *)
LEMMA TypedInit == Init => Typed
  BY BoundsAssumption
  DEF Init, Typed, TypeOK, Running, NoWords, NoDocuments, NoId, WordId, DocId

(* A counter is read as 1, as it was written, or as any number in range.   *)
LEMMA StartTyped ==
    ASSUME NEW destroy \in BOOLEAN, Typed, Start(destroy)
    PROVE  Typed'
  <1> USE BoundsAssumption
  <1>1. /\ DOMAIN docs' \subseteq DocId /\ docs' \in [DOMAIN docs' -> Document]
        /\ index' \subseteq WordId \X DocId /\ bitmaps' \subseteq WordId
        /\ fieldsKey' \subseteq Field
        /\ docIdKey' \in 0..(MaxDocId + 1) \cup {NoId}
        /\ wordIdKey' \in 0..(MaxWordId + 1) \cup {NoId}
    BY DEF Start, Wiped, db, postings, keys, Typed, TypeOK, NoDocuments
  <1>2. /\ phase' \in {"refused", "up"} /\ starts' \in 0..MaxStarts
        /\ wordFile' = wordFile /\ deleted' = deleted /\ escaped' = escaped
        /\ clean' \in BOOLEAN /\ UNCHANGED <<batches, removal>>
    BY DEF Start, memory, Typed, TypeOK
  <1>3. PICK d \in ReadId(docIdKey', DocId), w \in ReadId(wordIdKey', WordId) :
           \/ UNCHANGED memory
           \/ /\ docId' = d /\ wordId' = w /\ fields' = fieldsKey' /\ tree' = wordFile
    BY DEF Start, load
  <1>4. d \in 0..(MaxDocId + 1) /\ w \in 0..(MaxWordId + 1)
    BY <1>1 DEF ReadId, DocId, WordId, NoId
  <1> QED BY <1>1, <1>2, <1>3, <1>4 DEF memory, batches, removal, Running, Typed, TypeOK

(* The guard of addDocument is what Typed asks of the phase that follows.  *)
LEMMA StoreDocumentTyped ==
    ASSUME NEW doc \in Document, Typed, StoreDocument(doc)
    PROVE  Typed'
  <1>1. /\ DOMAIN docs' = DOMAIN docs \cup {docId} /\ docs'[docId] = doc
        /\ docs' \in [DOMAIN docs' -> Document]
    BY DEF StoreDocument, Typed, TypeOK
  <1>2. /\ docId \in DocId /\ docId' = docId /\ wordId' = wordId /\ tree' = tree
        /\ wordId + Cardinality(WordsOf(doc) \ DOMAIN tree) \in 0..(MaxWordId + 1)
        /\ phase' = "indexing"
        /\ UNCHANGED <<fields, batches, removal, postings, keys, wordFile, starts, history>>
    BY DEF StoreDocument, memory
  <1>3. wordId + Cardinality(WordsOf(doc) \ DOMAIN tree) <= MaxWordId + 1
    BY <1>2, BoundsAssumption
  <1>4. TypeOK'
    BY <1>1, <1>2 DEF batches, removal, postings, keys, history, Running, Typed, TypeOK
  <1> QED BY <1>1, <1>2, <1>3, <1>4 DEF Typed

(* The new word ids and the next document id stay within the bounds.       *)
LEMMA IndexDocumentTyped ==
    ASSUME Typed, IndexDocument
    PROVE  Typed'
  <1> USE BoundsAssumption
  <1>1. /\ docId' = docId + 1 /\ phase' = "up" /\ fields' = fields \cup DOMAIN docs[docId]
        /\ UNCHANGED <<taken, takenWords, removal, docs, postings, keys, wordFile, starts, history>>
    BY DEF IndexDocument, db
  <1>2. /\ docId' \in 0..(MaxDocId + 1) /\ wordId' \in 0..(MaxWordId + 1)
    BY <1>1, IndexedTrie DEF DocId
  <1>3. DOMAIN docs[docId] \subseteq Field
    BY IndexedTrie, DocumentAssumption
  <1>4. DOMAIN tree' \subseteq Word
    BY IndexedTrie DEF WordsOf, Typed, TypeOK
  <1>5. tree' \in [DOMAIN tree' -> WordId]
    BY IndexedTrie DEF WordId, Typed, TypeOK
  <1>6. pending' \subseteq WordId \X DocId /\ batched' \subseteq WordId
    BY <1>5, IndexedTrie DEF Typed, TypeOK
  <1> QED BY <1>1, <1>2, <1>3, <1>4, <1>5, <1>6
          DEF removal, postings, keys, history, Running, Typed, TypeOK

(* The processor moves postings.                                           *)
LEMMA ProcessorTyped ==
    ASSUME Typed, Take \/ Write
    PROVE  Typed'
  <1> USE DEF Typed, TypeOK, removal, postings, keys, history
  <1>1. CASE Take
    BY <1>1 DEF Take, db
  <1>2. CASE Write
    BY <1>2 DEF Write
  <1> QED BY <1>1, <1>2

(* deleteDocument only takes away postings and a document.                 *)
LEMMA DeleteDocumentTyped ==
    ASSUME NEW d \in DocId, Typed, DeleteDocument(d)
    PROVE  Typed'
  BY DEF DeleteDocument, batches, db, postings, keys, Running, Typed, TypeOK

(* Each of its steps keeps the types.                                       *)
LEMMA RemoveTyped ==
    ASSUME Typed, RemovePending \/ RemoveStored \/ RemoveDocument
    PROVE  Typed'
  <1> USE DEF Typed, TypeOK, Running, db, postings, keys
  <1>1. CASE RemovePending
    BY <1>1 DEF RemovePending, Erased, removal, history
  <1>2. CASE RemoveStored
    BY <1>2 DEF RemoveStored, batches
  <1>3. CASE RemoveDocument
    BY <1>3 DEF RemoveDocument, batches, history
  <1> QED BY <1>1, <1>2, <1>3

(* Destructors and crashes.                                                *)
LEMMA EndTyped ==
    ASSUME Typed,
           \/ Terminate \/ Crash
           \/ DestroyIndex \/ DestroyWordIndex \/ DestroyFields \/ DestroyDocId \/ DestroyWordId
    PROVE  Typed'
  <1> USE BoundsAssumption DEF Typed, TypeOK, Running, memory, batches, removal, db, postings, keys,
                               history
  <1>0. ASSUME Gone
        PROVE  /\ docId' \in 0..(MaxDocId + 1) /\ wordId' \in 0..(MaxWordId + 1)
               /\ fields' \subseteq Field
               /\ DOMAIN tree' \subseteq Word /\ tree' \in [DOMAIN tree' -> WordId]
               /\ pending' \subseteq WordId \X DocId /\ taken' \subseteq WordId \X DocId
               /\ batched' \subseteq WordId /\ takenWords' \subseteq WordId
               /\ victim' \in DocId \cup {NoId} /\ removing' \subseteq WordId
    BY <1>0 DEF Gone, NoWords
  <1>1. CASE Terminate
    BY <1>1 DEF Terminate
  <1>2. CASE Crash
    BY <1>0, <1>2 DEF Crash
  <1>3. CASE DestroyIndex
    BY <1>3 DEF DestroyIndex
  <1>4. CASE DestroyWordIndex
    BY <1>4 DEF DestroyWordIndex
  <1>5. CASE DestroyFields
    BY <1>5 DEF DestroyFields
  <1>6. CASE DestroyDocId
    BY <1>6 DEF DestroyDocId
  <1>7. CASE DestroyWordId
    BY <1>0, <1>7 DEF DestroyWordId
  <1> QED BY <1>1, <1>2, <1>3, <1>4, <1>5, <1>6, <1>7

(* Every step keeps the types.                                             *)
LEMMA TypedStep == Typed /\ [Next]_vars => Typed'
  <1> SUFFICES ASSUME Typed, [Next]_vars
               PROVE  Typed'
    OBVIOUS
  <1>1. CASE UNCHANGED vars
    BY <1>1 DEF vars, memory, batches, removal, db, postings, keys, history, Typed, TypeOK
  <1>2. CASE \E destroy \in {FALSE, MayDestroy} : Start(destroy)
    BY <1>2, StartTyped, FlagsAssumption
  <1>3. CASE \E doc \in Document : StoreDocument(doc)
    BY <1>3, StoreDocumentTyped
  <1>4. CASE IndexDocument
    BY <1>4, IndexDocumentTyped
  <1>5. CASE Take \/ Write
    BY <1>5, ProcessorTyped
  <1>6. CASE \E d \in DocId : DeleteDocument(d)
    BY <1>6, DeleteDocumentTyped
  <1>7. CASE RemovePending \/ RemoveStored \/ RemoveDocument
    BY <1>7, RemoveTyped
  <1> QED BY <1>1, <1>2, <1>3, <1>4, <1>5, <1>6, <1>7, EndTyped DEF Next

(* The engine's counters, trie, fields, postings and keys keep their types *)
(* over any number of starts, crashes and destroyed databases: no document *)
(* or word id leaves its range, whatever the counters are read back as.    *)
THEOREM EngineTypeCorrect == Spec => []TypeOK
  <1>1. Typed => TypeOK
    BY DEF Typed
  <1> QED BY <1>1, TypedInit, TypedStep, PTL DEF Spec

--------------------------------------------------------------------------------
(* A word with a posting is in its batch, or has its bitmap.               *)
Covered ==
    /\ \A p \in pending : p[1] \in batched
    /\ \A p \in taken : p[1] \in takenWords
    /\ \A p \in index : p[1] \in bitmaps

(* The document being indexed is stored already, the one being deleted is  *)
(* known as such, and the batches are empty when no engine holds them.     *)
Backed ==
    /\ PostingsHaveDocuments
    /\ Covered
    /\ phase = "indexing" => docId \in DOMAIN docs
    /\ phase \in {"removing", "reading"} => victim \in deleted
    /\ phase \notin Running => pending = {} /\ taken = {}

(* Nothing is stored before the first start.                               *)
LEMMA BackedInit == Init => Backed
  BY DEF Init, Backed, Covered, PostingsHaveDocuments

(* Start reads what an earlier run left, or an empty database.             *)
LEMMA StartBacked ==
    ASSUME NEW destroy \in BOOLEAN, Backed, Start(destroy)
    PROVE  Backed'
  <1>1. pending = {} /\ taken = {} /\ UNCHANGED <<pending, batched, taken, takenWords>>
    BY DEF Backed, Running, Start, memory, batches
  <1>2. phase' \in {"up", "refused"}
    BY DEF Start
  <1>3. CASE destroy
    <2>1. index' = {}
      BY <1>3 DEF Start, Wiped
    <2> QED BY <1>1, <1>2, <2>1 DEF Backed, Covered, PostingsHaveDocuments, Running
  <1>4. CASE ~destroy
    <2>1. docs' = docs /\ index' = index /\ bitmaps' = bitmaps /\ deleted' = deleted
      BY <1>4 DEF Start, db, postings
    <2> QED BY <1>1, <1>2, <2>1 DEF Backed, Covered, PostingsHaveDocuments, Running
  <1> QED BY <1>3, <1>4

(* addDocument: the document first, then its postings.                     *)
LEMMA StoreDocumentBacked ==
    ASSUME NEW doc, Backed, StoreDocument(doc)
    PROVE  Backed'
  <1>1. /\ phase' = "indexing" /\ docId' = docId /\ DOMAIN docs' = DOMAIN docs \cup {docId}
        /\ UNCHANGED <<batches, postings, deleted>>
    BY DEF StoreDocument, memory, history
  <1> QED BY <1>1 DEF Backed, Covered, PostingsHaveDocuments, Running, batches, postings

(* Its postings refer to the document just stored.                         *)
LEMMA IndexDocumentBacked ==
    ASSUME Backed, IndexDocument
    PROVE  Backed'
  <1>1. /\ phase = "indexing" /\ phase' = "up"
        /\ UNCHANGED <<taken, takenWords, docs, postings, deleted>>
    BY DEF IndexDocument, db, history
  <1>2. /\ pending' = pending \cup {<<tree'[w], docId>> : w \in WordsOf(docs[docId])}
        /\ batched' = batched \cup {tree'[w] : w \in WordsOf(docs[docId])}
    BY DEF IndexDocument
  <1>3. \A p \in pending' : p \in pending \/ (p[2] = docId /\ p[1] \in batched')
    BY <1>2
  <1> QED BY <1>1, <1>2, <1>3 DEF Backed, Covered, PostingsHaveDocuments, Running, postings

(* The processor moves postings, and their words with them.                *)
LEMMA ProcessorBacked ==
    ASSUME Backed, Take \/ Write
    PROVE  Backed'
  <1> USE DEF Backed, Covered, PostingsHaveDocuments, removal, history
  <1>1. CASE Take
    BY <1>1 DEF Take, db, postings
  <1>2. CASE Write
    BY <1>2 DEF Write
  <1> QED BY <1>1, <1>2

(* deleteDocument removes postings; the one document it may remove is the  *)
(* one it was called for.                                                  *)
LEMMA RemoveBacked ==
    ASSUME Backed,
           \/ \E d \in DocId : DeleteDocument(d)
           \/ RemovePending \/ RemoveStored \/ RemoveDocument
    PROVE  Backed'
  <1> USE DEF Backed, Covered, PostingsHaveDocuments, Running, postings, removal, history
  <1>1. CASE \E d \in DocId : DeleteDocument(d)
    BY <1>1 DEF DeleteDocument, batches, db
  <1>2. CASE RemovePending
    BY <1>2 DEF RemovePending, Erased, db
  <1>3. CASE RemoveStored
    BY <1>3 DEF RemoveStored, batches, db
  <1>4. CASE RemoveDocument
    BY <1>4 DEF RemoveDocument, batches
  <1> QED BY <1>1, <1>2, <1>3, <1>4

(* Destructors and crashes: documents and postings stay or go together,    *)
(* and the index is destroyed when the processor has nothing left.         *)
LEMMA EndBacked ==
    ASSUME Backed,
           \/ Terminate \/ Crash
           \/ DestroyIndex \/ DestroyWordIndex \/ DestroyFields \/ DestroyDocId \/ DestroyWordId
    PROVE  Backed'
  <1> USE DEF Backed, Covered, PostingsHaveDocuments, Running, memory, batches, db, postings,
              history
  <1>1. CASE Terminate
    BY <1>1 DEF Terminate
  <1>2. CASE Crash
    BY <1>2 DEF Crash, Gone
  <1>3. CASE DestroyIndex
    BY <1>3 DEF DestroyIndex
  <1>4. CASE DestroyWordIndex
    BY <1>4 DEF DestroyWordIndex
  <1>5. CASE DestroyFields
    BY <1>5 DEF DestroyFields
  <1>6. CASE DestroyDocId
    BY <1>6 DEF DestroyDocId
  <1>7. CASE DestroyWordId
    BY <1>7 DEF DestroyWordId, Gone
  <1> QED BY <1>1, <1>2, <1>3, <1>4, <1>5, <1>6, <1>7

(* Every step keeps the invariant.                                         *)
LEMMA BackedStep == Backed /\ [Next]_vars => Backed'
  <1> SUFFICES ASSUME Backed, [Next]_vars
               PROVE  Backed'
    OBVIOUS
  <1>1. CASE UNCHANGED vars
    BY <1>1 DEF vars, memory, batches, removal, db, postings, history, Backed, Covered,
                PostingsHaveDocuments
  <1>2. CASE \E destroy \in {FALSE, MayDestroy} : Start(destroy)
    BY <1>2, StartBacked, FlagsAssumption
  <1>3. CASE \E doc \in Document : StoreDocument(doc)
    BY <1>3, StoreDocumentBacked
  <1>4. CASE IndexDocument
    BY <1>4, IndexDocumentBacked
  <1>5. CASE Take \/ Write
    BY <1>5, ProcessorBacked
  <1> QED BY <1>1, <1>2, <1>3, <1>4, <1>5, RemoveBacked, EndBacked DEF Next

(* Engine::addDocument stores a document before it indexes it, and no      *)
(* crash, destroyed database or misread counter leaves a posting without   *)
(* its document, unless deleteDocument was called for it.                  *)
THEOREM PostingsBacked == Spec => []PostingsHaveDocuments
  <1>1. Backed => PostingsHaveDocuments
    BY DEF Backed
  <1> QED BY <1>1, BackedInit, BackedStep, PTL DEF Spec
--------------------------------------------------------------------------------
(* What holds as long as every run of the process was closed and the next  *)
(* one read its counters as they were written.  The invariant is about the *)
(* engine's state wherever it is: in memory while the process runs, on     *)
(* disk while it does not.                                                 *)

Off == {"down", "refused"}
NextDoc == IF phase \in Off THEN Written(docIdKey) ELSE docId
NextWord == IF phase \in Off THEN Written(wordIdKey) ELSE wordId
Fields == IF phase \in Off THEN fieldsKey ELSE fields
Trie == IF phase \in Off THEN wordFile ELSE tree
Indexed == DOMAIN docs \ (IF phase = "indexing" THEN {docId} ELSE {})
Postings == index \cup taken \cup pending

(* Every id given out is below its counter, and no word without a document *)
(* has moved the word counter.                                             *)
Counters ==
    /\ NextDoc >= 1 /\ NextWord >= 1
    /\ NextWord > 1 => NextDoc > 1
    /\ \A d \in Indexed : d < NextDoc
    /\ \A p \in Postings : p[2] < NextDoc

(* The ids in the trie are below the counter and differ from each other.   *)
Words ==
    /\ \A w \in DOMAIN Trie : Trie[w] >= 1 /\ Trie[w] < NextWord
    /\ \A v, w \in DOMAIN Trie : Trie[v] = Trie[w] => v = w

(* The trie and the list of fields know the indexed documents.             *)
Known ==
    \A d \in Indexed : WordsOf(docs[d]) \subseteq DOMAIN Trie /\ DOMAIN docs[d] \subseteq Fields

(* A posting is that of a word of an indexed document, or one that its     *)
(* document's deletion did not see,                                        *)
Sound ==
    \A p \in Postings :
        IF p[2] \in Indexed THEN \E w \in WordsOf(docs[p[2]]) \cap DOMAIN Trie : Trie[w] = p[1]
                            ELSE p \in escaped

(* and every word of one has its posting, if its deletion was not tried.   *)
Complete ==
    \A d \in Indexed \ deleted : \A w \in WordsOf(docs[d]) : <<Trie[w], d>> \in Postings

Agreement == Counters /\ Words /\ Known /\ Sound /\ Complete

(* What the destructors have written so far.                               *)
Closing ==
    /\ phase \in {"destroyFields", "destroyDocId", "destroyWordId"} => wordFile = tree
    /\ phase \in {"destroyDocId", "destroyWordId"} => fieldsKey = fields
    /\ phase = "destroyWordId" => docIdKey = docId

(* How far deleteDocument has come: a posting of the document is that of a *)
(* word still to be removed, or was not seen.  Between the two steps of a  *)
(* removal it is not in the batch being collected any more.                *)
Deleting ==
    /\ phase \in {"removing", "reading"} =>
          /\ victim \in DOMAIN docs
          /\ \A p \in Postings : p[2] = victim => p[1] \in removing \/ p \in escaped
    /\ phase = "reading" =>
          \A i \in removing : (\A j \in removing : i <= j) => <<i, victim>> \notin pending

(* The inductive invariant of the runs that nothing went wrong with.       *)
CleanInv == (phase \in Off => tree = NoWords) /\ (clean => Agreement /\ Closing /\ Deleting)

(* Before the first start.                                                 *)
LEMMA CleanInit == Init => CleanInv
  BY BoundsAssumption
  DEF Init, CleanInv, Agreement, Closing, Deleting, Counters, Words, Known, Sound, Complete,
      NextDoc, NextWord, Fields, Trie, Indexed, Postings, Off, Written, NoWords, NoDocuments

(* A step that moves the state from memory to disk or back, or removes     *)
(* postings of a document that is being deleted, keeps the agreement.      *)
LEMMA Moved ==
    ASSUME Agreement, NextDoc' = NextDoc, NextWord' = NextWord, Fields' = Fields, Trie' = Trie,
           Indexed' = Indexed, \A d \in Indexed : docs'[d] = docs[d], Postings' \subseteq Postings,
           \A p \in Postings \ Postings' : p[2] \in deleted',
           deleted \subseteq deleted', escaped \subseteq escaped'
    PROVE  Agreement'
  <1>1. Counters'
    BY DEF Agreement, Counters
  <1>2. Words'
    BY DEF Agreement, Words
  <1>3. Known'
    BY DEF Agreement, Known
  <1>4. Sound'
    BY DEF Agreement, Sound
  <1>5. Complete'
    <2> SUFFICES ASSUME NEW d \in Indexed \ deleted', NEW w \in WordsOf(docs[d])
                 PROVE  <<Trie[w], d>> \in Postings'
      BY DEF Complete
    <2>1. <<Trie[w], d>> \in Postings
      BY DEF Agreement, Complete
    <2> QED BY <2>1
  <1> QED BY <1>1, <1>2, <1>3, <1>4, <1>5 DEF Agreement

(* A start that is clean finds in memory what the last run had there.      *)
LEMMA StartClean ==
    ASSUME NEW destroy \in BOOLEAN, Typed, Backed, CleanInv, Start(destroy)
    PROVE  CleanInv'
  <1>1. PICK d \in ReadId(docIdKey', DocId), w \in ReadId(wordIdKey', WordId) :
           /\ \/ phase' = "refused" /\ UNCHANGED memory
              \/ /\ phase' = "up" /\ docId' = d /\ wordId' = w /\ fields' = fieldsKey'
                 /\ tree' = wordFile
           /\ clean' = (clean /\ ~destroy /\ d = Written(docIdKey) /\ w = Written(wordIdKey))
    BY DEF Start, load
  <1>2. /\ phase = "down" /\ UNCHANGED <<wordFile, deleted, escaped, pending, taken>>
    BY DEF Start, memory, batches
  <1>3. tree = NoWords
    BY <1>2 DEF CleanInv, Off
  <1>4. phase' \in Off => tree' = NoWords
    BY <1>1, <1>3 DEF memory, Off
  <1>5. ASSUME clean'
        PROVE  Agreement' /\ Closing' /\ Deleting'
    <2>1. clean /\ ~destroy /\ d = Written(docIdKey) /\ w = Written(wordIdKey)
      BY <1>1, <1>5
    <2>2. UNCHANGED db
      BY <2>1 DEF Start
    <2>3. NextDoc' = NextDoc /\ NextWord' = NextWord /\ Fields' = Fields /\ Trie' = Trie
      BY <1>1, <1>2, <2>1, <2>2 DEF NextDoc, NextWord, Fields, Trie, Off, Written, db, keys
    <2>4. Indexed' = Indexed /\ docs' = docs /\ Postings' = Postings
      BY <1>1, <1>2, <2>2 DEF Indexed, Postings, db, postings
    <2>5. Agreement'
      BY <1>2, <2>1, <2>3, <2>4, Moved DEF CleanInv
    <2> QED BY <1>1, <2>5 DEF Closing, Deleting
  <1> QED BY <1>4, <1>5 DEF CleanInv

(* The next document id is free, so no document is overwritten, and no     *)
(* posting waits for the new one yet.                                      *)
LEMMA StoreDocumentClean ==
    ASSUME NEW doc, Typed, CleanInv, StoreDocument(doc)
    PROVE  CleanInv'
  <1>1. /\ phase = "up" /\ phase' = "indexing"
        /\ docs' = [d \in DOMAIN docs \cup {docId} |-> IF d = docId THEN doc ELSE docs[d]]
        /\ UNCHANGED <<docId, wordId, fields, tree, pending, taken, index, deleted, escaped, clean>>
    BY DEF StoreDocument, memory, batches, postings, history
  <1>2. ASSUME clean
        PROVE  Agreement'
    <2>1. docId \notin DOMAIN docs
      BY <1>1, <1>2 DEF CleanInv, Agreement, Counters, Indexed, NextDoc, Off, Typed, TypeOK
    <2>2. Indexed = DOMAIN docs /\ Indexed' = DOMAIN docs
      BY <1>1, <2>1 DEF Indexed
    <2>3. NextDoc' = NextDoc /\ NextWord' = NextWord /\ Fields' = Fields /\ Trie' = Trie
      BY <1>1 DEF NextDoc, NextWord, Fields, Trie, Off
    <2> QED BY <1>1, <1>2, <2>1, <2>2, <2>3, Moved DEF CleanInv, Postings
  <1> QED BY <1>1, <1>2 DEF CleanInv, Closing, Deleting, Off

(* The document that was stored becomes one whose words and fields are     *)
(* known and have their postings.                                          *)
LEMMA IndexDocumentClean ==
    ASSUME Typed, CleanInv, IndexDocument
    PROVE  CleanInv'
  <1>1. /\ phase = "indexing" /\ phase' = "up" /\ docId' = docId + 1
        /\ fields' = fields \cup DOMAIN docs[docId]
        /\ UNCHANGED <<taken, docs, index, deleted, escaped, clean>>
    BY DEF IndexDocument, db, postings, history
  <1>2. /\ NextDoc = docId /\ NextWord = wordId /\ Fields = fields /\ Trie = tree
        /\ NextDoc' = docId + 1 /\ NextWord' = wordId' /\ Fields' = fields' /\ Trie' = tree'
    BY <1>1 DEF NextDoc, NextWord, Fields, Trie, Off
  <1>3. Indexed = DOMAIN docs \ {docId} /\ Indexed' = DOMAIN docs
    BY <1>1 DEF Indexed
  <1>4. Postings' = Postings \cup {<<tree'[w], docId>> : w \in WordsOf(docs[docId])}
    BY <1>1, IndexedTrie DEF Postings
  <1>5. ASSUME clean
        PROVE  Agreement'
    <2>1. Agreement
      BY <1>5 DEF CleanInv
    <2>2. Counters'
      <3>1. docId \in Nat /\ \A p \in Postings : p[2] \in Nat
        BY BoundsAssumption DEF Typed, TypeOK, DocId, Postings
      <3>2. \A p \in Postings' : p[2] < docId + 1
        BY <1>2, <1>4, <2>1, <3>1 DEF Agreement, Counters
      <3> QED
        BY <1>2, <1>3, <2>1, <3>2, IndexedTrie DEF Agreement, Counters, Typed, TypeOK, DocId
    <2>3. Words'
      <3>1. \A w \in DOMAIN tree' : \/ w \in DOMAIN tree /\ tree'[w] = tree[w]
                                    \/ w \notin DOMAIN tree /\ tree'[w] \in wordId..(wordId' - 1)
        BY IndexedTrie
      <3>2. \A w \in DOMAIN tree : tree[w] \in Nat /\ tree[w] >= 1 /\ tree[w] < wordId
        BY <1>2, <2>1 DEF Agreement, Words, Typed, TypeOK, WordId
      <3>3. wordId \in Nat /\ wordId' \in Nat /\ wordId >= 1 /\ wordId' >= wordId
        BY <1>2, <2>1, IndexedTrie, BoundsAssumption DEF Agreement, Counters
      <3>4. \A w \in DOMAIN tree' : tree'[w] >= 1 /\ tree'[w] < wordId'
        BY <3>1, <3>2, <3>3
      <3>5. ASSUME NEW v \in DOMAIN tree', NEW w \in DOMAIN tree', tree'[v] = tree'[w]
            PROVE  v = w
        <4>1. CASE v \in DOMAIN tree /\ w \in DOMAIN tree
          BY <1>2, <2>1, <3>1, <3>5, <4>1 DEF Agreement, Words
        <4>2. CASE v \notin DOMAIN tree /\ w \notin DOMAIN tree
          BY <3>5, <4>2, IndexedTrie
        <4>3. CASE (v \in DOMAIN tree) # (w \in DOMAIN tree)
          BY <3>1, <3>2, <3>3, <3>5, <4>3
        <4> QED BY <4>1, <4>2, <4>3
      <3> QED BY <1>2, <3>4, <3>5 DEF Words
    <2>4. Known'
      BY <1>1, <1>2, <1>3, <2>1, IndexedTrie DEF Agreement, Known
    <2>5. Sound'
      <3> SUFFICES ASSUME NEW p \in Postings'
                   PROVE  IF p[2] \in DOMAIN docs
                          THEN \E w \in WordsOf(docs[p[2]]) \cap DOMAIN tree' : tree'[w] = p[1]
                          ELSE p \in escaped
        BY <1>1, <1>2, <1>3 DEF Sound
      <3>1. CASE p \in Postings
        <4>1. p[2] # docId
          BY <1>2, <2>1, <3>1, BoundsAssumption DEF Agreement, Counters, Typed, TypeOK, DocId
        <4> QED BY <1>2, <1>3, <2>1, <3>1, <4>1, IndexedTrie DEF Agreement, Sound
      <3>2. CASE p \notin Postings
        <4>1. PICK w \in WordsOf(docs[docId]) : p = <<tree'[w], docId>>
          BY <1>4, <3>2
        <4> QED BY <4>1, IndexedTrie
      <3> QED BY <3>1, <3>2
    <2>6. Complete'
      <3> SUFFICES ASSUME NEW d \in DOMAIN docs \ deleted, NEW w \in WordsOf(docs[d])
                   PROVE  <<tree'[w], d>> \in Postings'
        BY <1>1, <1>2, <1>3 DEF Complete
      <3>1. CASE d = docId
        BY <1>4, <3>1
      <3>2. CASE d # docId
        <4>1. d \in Indexed \ deleted /\ w \in DOMAIN tree
          BY <1>2, <1>3, <2>1, <3>2 DEF Agreement, Known
        <4>2. <<tree[w], d>> \in Postings
          BY <1>2, <2>1, <4>1 DEF Agreement, Complete
        <4> QED BY <1>4, <4>1, <4>2, IndexedTrie
      <3> QED BY <3>1, <3>2
    <2> QED BY <2>2, <2>3, <2>4, <2>5, <2>6 DEF Agreement
  <1> QED BY <1>1, <1>5 DEF CleanInv, Closing, Deleting, Off

(* The processor moves postings and adds none.                             *)
LEMMA ProcessorClean ==
    ASSUME Typed, Backed, CleanInv, Take \/ Write
    PROVE  CleanInv'
  <1>1. /\ phase \in Running /\ pending' \subseteq pending
        /\ UNCHANGED <<phase, docId, wordId, fields, tree, victim, removing, docs, deleted, escaped,
                       clean>>
    BY DEF Take, Write, db, removal, history
  <1>2. Postings' = Postings
    <2>1. CASE Take
      <3>1. taken = {}
        BY <2>1 DEF Take, Backed, Covered
      <3>2. index' = index /\ taken' = pending /\ pending' = {}
        BY <2>1 DEF Take, db, postings
      <3> QED BY <3>1, <3>2 DEF Postings
    <2>2. CASE Write
      BY <2>2 DEF Write, Postings
    <2> QED BY <2>1, <2>2
  <1>3. /\ NextDoc' = NextDoc /\ NextWord' = NextWord /\ Fields' = Fields /\ Trie' = Trie
        /\ Indexed' = Indexed
    BY <1>1 DEF NextDoc, NextWord, Fields, Trie, Indexed, Off, Running
  <1>4. Deleting => Deleting'
    BY <1>1, <1>2 DEF Deleting
  <1>5. phase \notin Off /\ Closing'
    BY <1>1 DEF Closing, Running, Off
  <1> QED BY <1>1, <1>2, <1>3, <1>4, <1>5, Moved DEF CleanInv

(* deleteDocument finds all the words the document has postings for.       *)
LEMMA DeleteDocumentClean ==
    ASSUME NEW d \in DocId, Typed, CleanInv, DeleteDocument(d)
    PROVE  CleanInv'
  <1>1. /\ phase = "up" /\ phase' = "removing" /\ d \in DOMAIN docs
        /\ deleted' = deleted \cup {d} /\ victim' = d
        /\ removing' = {tree[w] : w \in WordsOf(docs[d]) \cap DOMAIN tree}
        /\ UNCHANGED <<docId, wordId, fields, tree, docs, escaped, clean>>
    BY DEF DeleteDocument, db
  <1>2. Postings' = Postings
    BY DEF DeleteDocument, batches, db, postings, Postings
  <1>3. /\ NextDoc' = NextDoc /\ NextWord' = NextWord /\ Fields' = Fields /\ Trie' = Trie
        /\ Trie = tree /\ Indexed' = Indexed /\ Indexed = DOMAIN docs
    BY <1>1 DEF NextDoc, NextWord, Fields, Trie, Indexed, Off
  <1>4. Agreement => Deleting'
    BY <1>1, <1>2, <1>3 DEF Agreement, Sound, Deleting
  <1>5. Agreement => Agreement'
    BY <1>1, <1>2, <1>3, Moved
  <1> QED BY <1>1, <1>4, <1>5 DEF CleanInv, Closing, Off

(* The first step of a removal: the posting leaves the batch being         *)
(* collected.                                                              *)
LEMMA RemovePendingClean ==
    ASSUME Typed, Backed, CleanInv, RemovePending
    PROVE  CleanInv'
  <1>1. /\ phase = "removing" /\ phase' = "reading"
        /\ UNCHANGED <<docId, wordId, fields, tree, victim, removing, docs, index, taken, deleted,
                       escaped, clean>>
    BY DEF RemovePending, removal, db, postings, history
  <1>2. PICK i \in removing : (\A j \in removing : i <= j) /\ pending' = pending \ {<<i, victim>>}
    BY DEF RemovePending, Erased
  <1>3. Postings' \subseteq Postings /\ \A p \in Postings \ Postings' : p[2] = victim
    BY <1>1, <1>2 DEF Postings
  <1>4. /\ NextDoc' = NextDoc /\ NextWord' = NextWord /\ Fields' = Fields /\ Trie' = Trie
        /\ Indexed' = Indexed
    BY <1>1 DEF NextDoc, NextWord, Fields, Trie, Indexed, Off
  <1>5. victim \in deleted
    BY <1>1 DEF Backed
  <1>6. Agreement => Agreement'
    BY <1>1, <1>3, <1>4, <1>5, Moved
  <1>7. \A k \in removing : (\A j \in removing : k <= j) => k = i
    BY <1>2, BoundsAssumption DEF Typed, TypeOK, WordId
  <1>8. Deleting => Deleting'
    BY <1>1, <1>2, <1>3, <1>7 DEF Deleting
  <1> QED BY <1>1, <1>6, <1>8 DEF CleanInv, Closing, Off

(* The second: a word without a bitmap has no posting in the store, so a   *)
(* posting that is left is in the batch taken; it escapes.                 *)
LEMMA RemoveStoredClean ==
    ASSUME Typed, Backed, CleanInv, RemoveStored
    PROVE  CleanInv'
  <1>1. /\ phase = "reading" /\ phase' \in {"up", "removing"}
        /\ UNCHANGED <<docId, wordId, fields, tree, docs, index, taken, pending, deleted, clean>>
    BY DEF RemoveStored, batches, db, postings
  <1>2. PICK i \in removing :
           /\ \A j \in removing : i <= j
           /\ \/ phase' = "up" /\ escaped' = escaped
              \/ /\ i \notin bitmaps /\ removing' = removing \ {i} /\ victim' = victim
                 /\ escaped' = escaped \cup (taken \cap {<<i, victim>>})
    BY DEF RemoveStored
  <1>3. Postings' = Postings /\ escaped \subseteq escaped'
    BY <1>1, <1>2 DEF Postings
  <1>4. /\ NextDoc' = NextDoc /\ NextWord' = NextWord /\ Fields' = Fields /\ Trie' = Trie
        /\ Indexed' = Indexed
    BY <1>1 DEF NextDoc, NextWord, Fields, Trie, Indexed, Off
  <1>5. Agreement => Agreement'
    BY <1>1, <1>3, <1>4, Moved
  <1>6. ASSUME Deleting
        PROVE  Deleting'
    <2>1. CASE phase' = "up"
      BY <2>1 DEF Deleting
    <2>2. CASE phase' # "up"
      <3>1. /\ phase' = "removing" /\ i \notin bitmaps /\ removing' = removing \ {i}
            /\ victim' = victim /\ escaped' = escaped \cup (taken \cap {<<i, victim>>})
        BY <1>1, <1>2, <2>2
      <3>2. <<i, victim>> \notin pending /\ <<i, victim>> \notin index
        BY <1>1, <1>2, <1>6, <3>1 DEF Deleting, Backed, Covered
      <3>3. ASSUME NEW p \in Postings, p[2] = victim
            PROVE  p[1] \in removing' \/ p \in escaped'
        <4>1. p[1] \in removing \/ p \in escaped
          BY <1>1, <1>6, <3>3 DEF Deleting
        <4>2. p = <<p[1], p[2]>>
          BY <3>3 DEF Typed, TypeOK, Postings
        <4>3. p[1] = i => p \in taken
          BY <3>2, <3>3, <4>2 DEF Postings
        <4> QED BY <3>1, <3>3, <4>1, <4>2, <4>3
      <3> QED BY <1>1, <1>3, <1>6, <3>1, <3>3 DEF Deleting
    <2> QED BY <2>1, <2>2
  <1> QED BY <1>1, <1>5, <1>6 DEF CleanInv, Closing, Off

(* When the document goes, no word is left to be removed: every posting it *)
(* still has escaped.                                                      *)
LEMMA RemoveDocumentClean ==
    ASSUME Typed, CleanInv, RemoveDocument
    PROVE  CleanInv'
  <1>1. /\ phase = "removing" /\ phase' = "up" /\ removing = {}
        /\ docs' = [d \in DOMAIN docs \ {victim} |-> docs[d]]
        /\ UNCHANGED <<docId, wordId, fields, tree, index, taken, pending, deleted, escaped, clean>>
    BY DEF RemoveDocument, batches, postings, history
  <1>2. /\ NextDoc' = NextDoc /\ NextWord' = NextWord /\ Fields' = Fields /\ Trie' = Trie
        /\ Indexed' = Indexed \ {victim} /\ Postings' = Postings
        /\ \A d \in Indexed' : docs'[d] = docs[d]
    BY <1>1 DEF NextDoc, NextWord, Fields, Trie, Indexed, Off, Postings
  <1>3. ASSUME clean
        PROVE  Agreement'
    <2>1. Agreement /\ \A p \in Postings : p[2] = victim => p \in escaped
      BY <1>1, <1>3 DEF CleanInv, Deleting
    <2>2. Counters' /\ Words' /\ Known'
      BY <1>2, <2>1 DEF Agreement, Counters, Words, Known
    <2>3. Sound'
      BY <1>1, <1>2, <2>1 DEF Agreement, Sound
    <2>4. Complete'
      BY <1>1, <1>2, <2>1 DEF Agreement, Complete
    <2> QED BY <2>2, <2>3, <2>4 DEF Agreement
  <1> QED BY <1>1, <1>3 DEF CleanInv, Closing, Deleting, Off

(* The destructors leave on disk, when the last of them is done, what the  *)
(* engine had in memory; a crash may not, and ends the clean runs.         *)
LEMMA EndClean ==
    ASSUME Typed, Backed, CleanInv,
           \/ Terminate \/ Crash
           \/ DestroyIndex \/ DestroyWordIndex \/ DestroyFields \/ DestroyDocId \/ DestroyWordId
    PROVE  CleanInv'
  <1>1. CASE Crash
    BY <1>1 DEF Crash, Gone, CleanInv
  <1>2. CASE Terminate
    <2>1. /\ NextDoc' = NextDoc /\ NextWord' = NextWord /\ Fields' = Fields /\ Trie' = Trie
          /\ Indexed' = Indexed /\ Postings' = Postings /\ docs' = docs
      BY <1>2 DEF Terminate, memory, batches, db, postings, keys, NextDoc, NextWord, Fields, Trie,
                  Indexed, Postings, Off, Written
    <2> QED BY <1>2, <2>1, Moved DEF Terminate, memory, history, CleanInv, Closing, Deleting, Off
  <1>3. CASE DestroyIndex \/ DestroyWordIndex \/ DestroyFields \/ DestroyDocId
    <2>1. /\ phase \notin Off \cup {"indexing"}
          /\ phase' \notin Off \cup {"indexing", "removing", "reading"}
          /\ UNCHANGED <<docId, wordId, fields, tree, docs, deleted, escaped, clean>>
      BY <1>3 DEF DestroyIndex, DestroyWordIndex, DestroyFields, DestroyDocId, memory, db,
                  history, Off
    <2>2. Postings' = Postings
      <3>1. CASE DestroyIndex
        <4>1. taken = {}
          BY <3>1 DEF DestroyIndex, Backed, Covered
        <4> QED BY <3>1, <4>1 DEF DestroyIndex, Postings
      <3>2. CASE ~DestroyIndex
        BY <1>3, <3>2 DEF DestroyWordIndex, DestroyFields, DestroyDocId, memory, batches, db,
                          postings, Postings
      <3> QED BY <3>1, <3>2
    <2>3. /\ NextDoc' = NextDoc /\ NextWord' = NextWord /\ Fields' = Fields /\ Trie' = Trie
          /\ Indexed' = Indexed
      BY <2>1 DEF NextDoc, NextWord, Fields, Trie, Indexed
    <2>4. clean => Closing'
      BY <1>3 DEF DestroyIndex, DestroyWordIndex, DestroyFields, DestroyDocId, memory, db, keys,
                  history, CleanInv, Closing
    <2>5. Deleting'
      BY <2>1 DEF Deleting
    <2> QED BY <2>1, <2>2, <2>3, <2>4, <2>5, Moved DEF CleanInv
  <1>4. CASE DestroyWordId
    <2>1. /\ phase = "destroyWordId" /\ phase' = "down" /\ wordIdKey' = wordId
          /\ UNCHANGED <<docs, index, docIdKey, fieldsKey, wordFile, deleted, escaped, clean>>
      BY <1>4 DEF DestroyWordId, postings, history
    <2>2. /\ tree' = NoWords /\ pending' = {} /\ pending = {} /\ taken' = {} /\ taken = {}
      BY <1>4, <2>1 DEF DestroyWordId, Gone, Backed, Running
    <2>3. ASSUME clean
          PROVE  Agreement'
      <3>1. wordFile = tree /\ fieldsKey = fields /\ docIdKey = docId
        BY <2>1, <2>3 DEF CleanInv, Closing
      <3>2. docId # NoId /\ wordId # NoId
        BY BoundsAssumption DEF NoId, Typed, TypeOK
      <3>3. NextDoc' = NextDoc /\ NextWord' = NextWord /\ Fields' = Fields /\ Trie' = Trie
        BY <2>1, <3>1, <3>2 DEF NextDoc, NextWord, Fields, Trie, Off, Written, NoId
      <3>4. Indexed' = Indexed /\ Postings' = Postings
        BY <2>1, <2>2 DEF Indexed, Postings
      <3> QED BY <2>1, <2>3, <3>3, <3>4, Moved DEF CleanInv
    <2> QED BY <2>1, <2>2, <2>3 DEF CleanInv, Closing, Deleting
  <1> QED BY <1>1, <1>2, <1>3, <1>4

(* Every step keeps the invariant of the clean runs.                       *)
LEMMA CleanStep == Typed /\ Backed /\ CleanInv /\ [Next]_vars => CleanInv'
  <1> SUFFICES ASSUME Typed, Backed, CleanInv, [Next]_vars
               PROVE  CleanInv'
    OBVIOUS
  <1>1. CASE UNCHANGED vars
    <2>1. /\ NextDoc' = NextDoc /\ NextWord' = NextWord /\ Fields' = Fields /\ Trie' = Trie
          /\ Indexed' = Indexed /\ Postings' = Postings
      BY <1>1 DEF vars, memory, batches, db, postings, keys, NextDoc, NextWord, Fields, Trie,
                  Indexed, Postings, Off, Written
    <2> QED BY <1>1, <2>1, Moved DEF vars, memory, batches, removal, db, keys, history, CleanInv,
                                     Closing, Deleting, Off
  <1>2. CASE \E destroy \in {FALSE, MayDestroy} : Start(destroy)
    BY <1>2, StartClean, FlagsAssumption
  <1>3. CASE \E doc \in Document : StoreDocument(doc)
    BY <1>3, StoreDocumentClean
  <1>4. CASE IndexDocument
    BY <1>4, IndexDocumentClean
  <1>5. CASE Take \/ Write
    BY <1>5, ProcessorClean
  <1>6. CASE \E d \in DocId : DeleteDocument(d)
    BY <1>6, DeleteDocumentClean
  <1>7. CASE RemovePending \/ RemoveStored \/ RemoveDocument
    BY <1>7, RemovePendingClean, RemoveStoredClean, RemoveDocumentClean
  <1> QED BY <1>1, <1>2, <1>3, <1>4, <1>5, <1>6, <1>7, EndClean DEF Next

(* The three invariants together hold in every state.                      *)
THEOREM CleanInvariant == Spec => [](Typed /\ Backed /\ CleanInv)
  BY TypedInit, TypedStep, BackedInit, BackedStep, CleanInit, CleanStep, PTL DEF Spec

--------------------------------------------------------------------------------
(* What the invariant says of the engine.                                  *)

(* What a search for one token goes through: the fields that have a word   *)
(* for it, and the bitmaps of these words.                                 *)
LEMMA Hit ==
    ASSUME NEW q \in Queries, NEW d \in DocId
    PROVE  d \in search(q) <=>
             \A t \in q : \E f \in fields : /\ <<f, t>> \in DOMAIN tree
                                            /\ \E p \in index : p[1] = tree[<<f, t>>] /\ p[2] = d
  <1> DEFINE bitmap(f, t) == {p[2] : p \in {r \in index : r[1] = tree[<<f, t>>]}}
             hits(t) == UNION {bitmap(f, t) : f \in {g \in fields : <<g, t>> \in DOMAIN tree}}
  <1>1. d \in search(q) <=> \A t \in q : d \in hits(t)
    BY DEF search
  <1>2. ASSUME NEW t
        PROVE  d \in hits(t) <=> \E f \in fields : <<f, t>> \in DOMAIN tree /\ d \in bitmap(f, t)
    OBVIOUS
  <1>3. ASSUME NEW f, NEW t
        PROVE  d \in bitmap(f, t) <=> \E p \in index : p[1] = tree[<<f, t>>] /\ p[2] = d
    OBVIOUS
  <1> HIDE DEF hits, bitmap
  <1> QED BY <1>1, <1>2, <1>3

(* The words of a document are the tokens of its fields.                   *)
LEMMA TokenWord ==
    ASSUME NEW doc \in Document, NEW f, NEW t
    PROVE  <<f, t>> \in WordsOf(doc) <=> f \in DOMAIN doc /\ t \in doc[f]
  BY DocumentAssumption DEF WordsOf, Word

(* Engine::search returns, in every run on a database that was closed, no  *)
(* document but those that contain the words, and deleted ones for         *)
(* postings that were in the batch taken when they should have been        *)
(* removed: word ids are never reused, so a bitmap found through the trie  *)
(* is that of the word asked for.                                          *)
THEOREM SearchSoundWhenClean == Spec => []CleanSearchSound
  <1>1. ASSUME Typed, Backed, CleanInv, clean, Serving, NEW q \in Queries, NEW d \in search(q)
        PROVE  \/ d \in DOMAIN docs /\ Contains(docs[d], q)
               \/ /\ d \in deleted \ DOMAIN docs
                  /\ \A t \in q : \E f \in fields : /\ <<f, t>> \in DOMAIN tree
                                                   /\ <<tree[<<f, t>>], d>> \in escaped
    <2>1. /\ Trie = tree /\ Indexed = DOMAIN docs /\ d \in DocId
          /\ Words /\ Sound
      BY <1>1 DEF Serving, Trie, Indexed, Off, CleanInv, Agreement, search
    <2>2. ASSUME NEW t \in q
          PROVE  \E f \in fields : /\ <<f, t>> \in DOMAIN tree
                                   /\ <<tree[<<f, t>>], d>> \in index
      <3>1. PICK f \in fields, p \in index :
               <<f, t>> \in DOMAIN tree /\ p[1] = tree[<<f, t>>] /\ p[2] = d
        BY <1>1, <2>1, Hit
      <3>2. p = <<p[1], p[2]>>
        BY <1>1, <3>1 DEF Typed, TypeOK
      <3> QED BY <3>1, <3>2
    <2>3. CASE d \in DOMAIN docs
      <3>1. ASSUME NEW t \in q
            PROVE  \E f \in DOMAIN docs[d] : t \in docs[d][f]
        <4>1. PICK f \in fields : <<f, t>> \in DOMAIN tree /\ <<tree[<<f, t>>], d>> \in index
          BY <2>2, <3>1
        <4>2. <<f, t>> \in WordsOf(docs[d])
          BY <2>1, <2>3, <4>1 DEF Words, Sound, Postings
        <4> QED BY <1>1, <2>3, <4>2, TokenWord DEF Typed, TypeOK
      <3> QED BY <2>3, <3>1 DEF Contains
    <2>4. CASE d \notin DOMAIN docs
      <3>1. \A i : <<i, d>> \in index => <<i, d>> \in escaped /\ d \in deleted
        BY <1>1, <2>1, <2>4 DEF Sound, Postings, Backed, PostingsHaveDocuments
      <3>2. q # {}
        BY <1>1 DEF Queries
      <3> QED BY <2>2, <2>4, <3>1, <3>2
    <2> QED BY <2>3, <2>4
  <1>2. Typed /\ Backed /\ CleanInv => CleanSearchSound
    BY <1>1 DEF CleanSearchSound
  <1> QED BY <1>2, CleanInvariant, PTL

(* Once the index has caught up, search returns every document that was    *)
(* added in this run or an earlier one and holds the words: its fields are *)
(* in the list, its words in the trie, and its postings in the store.      *)
THEOREM SearchCompleteWhenClean == Spec => []SearchComplete
  <1>1. ASSUME Typed, CleanInv, clean, Serving, pending = {}, taken = {}, NEW q \in Queries,
               NEW d \in DOMAIN docs \ deleted, Contains(docs[d], q)
        PROVE  d \in search(q)
    <2>1. /\ Trie = tree /\ Fields = fields /\ Indexed = DOMAIN docs /\ Postings = index
          /\ Known /\ Complete
      BY <1>1 DEF Serving, Trie, Fields, Indexed, Postings, Off, CleanInv, Agreement
    <2>2. d \in DocId /\ docs[d] \in Document
      BY <1>1 DEF Typed, TypeOK
    <2>3. ASSUME NEW t \in q
          PROVE  \E f \in fields : /\ <<f, t>> \in DOMAIN tree
                                   /\ \E p \in index : p[1] = tree[<<f, t>>] /\ p[2] = d
      <3>1. PICK f \in DOMAIN docs[d] : t \in docs[d][f]
        BY <1>1 DEF Contains
      <3>2. <<f, t>> \in WordsOf(docs[d])
        BY <2>2, <3>1, TokenWord
      <3>3. f \in fields /\ <<f, t>> \in DOMAIN tree
        BY <2>1, <3>1, <3>2 DEF Known
      <3>4. <<tree[<<f, t>>], d>> \in index
        BY <2>1, <3>2 DEF Complete
      <3> QED BY <3>3, <3>4
    <2> QED BY <2>2, <2>3, Hit
  <1>2. Typed /\ Backed /\ CleanInv => SearchComplete
    BY <1>1 DEF SearchComplete
  <1> QED BY <1>2, CleanInvariant, PTL

(* Two words never share an id: the counter that the next run reads is     *)
(* above every id in the trie it loads.                                    *)
THEOREM WordIdsStayDistinct == Spec => []WordIdsDistinct
  <1>1. Typed /\ Backed /\ CleanInv => WordIdsDistinct
    BY DEF CleanInv, Agreement, Words, Trie, WordIdsDistinct, NoWords
  <1> QED BY <1>1, CleanInvariant, PTL

(* A process that was refused read counters of which one says that the     *)
(* database is empty and the other that it is not.                         *)
Refused == clean /\ phase = "refused" => Mismatched(Written(docIdKey), Written(wordIdKey))

(* Only Start refuses, and nothing is written until the process is gone.   *)
LEMMA RefusedStep == Typed /\ Refused /\ [Next]_vars => Refused'
  <1> SUFFICES ASSUME Refused, [Next]_vars, clean', phase' = "refused"
               PROVE  Mismatched(Written(docIdKey), Written(wordIdKey))'
    BY DEF Refused
  <1>1. CASE UNCHANGED vars
    BY <1>1 DEF vars, db, keys, history, Refused, Written, NoId
  <1>2. CASE \E destroy \in {FALSE, MayDestroy} : Start(destroy)
    <2>1. PICK destroy \in {FALSE, MayDestroy} : Start(destroy)
      BY <1>2
    <2>2. PICK d \in ReadId(docIdKey', DocId), w \in ReadId(wordIdKey', WordId) :
             /\ Mismatched(d, w)
             /\ clean' = (clean /\ ~destroy /\ d = Written(docIdKey) /\ w = Written(wordIdKey))
      BY <2>1 DEF Start
    <2>3. ~destroy /\ d = Written(docIdKey) /\ w = Written(wordIdKey)
      BY <2>2
    <2>4. docIdKey' = docIdKey /\ wordIdKey' = wordIdKey
      BY <2>1, <2>3 DEF Start, db, keys
    <2> QED BY <2>2, <2>3, <2>4 DEF Written
  <1>3. CASE ~(UNCHANGED vars) /\ ~(\E destroy \in {FALSE, MayDestroy} : Start(destroy))
    BY <1>3 DEF Next, Terminate, StoreDocument, IndexDocument, Take, Write, Running, DeleteDocument,
                RemovePending, RemoveStored, RemoveDocument, DestroyIndex, DestroyWordIndex,
                DestroyFields, DestroyDocId, DestroyWordId, Crash
  <1> QED BY <1>1, <1>2, <1>3

(* The check of the counters at start refuses a closed database only when  *)
(* no document of it has a word.                                           *)
THEOREM RefusedOnlyWithoutWords == Spec => []RefusedWithoutWords
  <1>1. Init => Refused
    BY DEF Init, Refused
  <1>2. ASSUME Typed, CleanInv, Refused, clean, phase = "refused"
        PROVE  wordFile = NoWords /\ \A d \in DOMAIN docs : WordsOf(docs[d]) = {}
    <2>1. /\ NextDoc = Written(docIdKey) /\ NextWord = Written(wordIdKey) /\ Trie = wordFile
          /\ Indexed = DOMAIN docs
      BY <1>2 DEF NextDoc, NextWord, Trie, Indexed, Off
    <2>2. Counters /\ Words /\ Known
      BY <1>2 DEF CleanInv, Agreement
    <2>3. Written(docIdKey) \in Nat /\ Written(wordIdKey) \in Nat
      BY <1>2, BoundsAssumption DEF Written, NoId, Typed, TypeOK
    <2>4. Written(wordIdKey) = 1
      BY <1>2, <2>1, <2>2, <2>3 DEF Refused, Mismatched, Counters
    <2>5. DOMAIN wordFile = {}
      <3> SUFFICES ASSUME NEW w \in DOMAIN wordFile
                   PROVE  FALSE
        OBVIOUS
      <3>1. wordFile[w] \in Nat
        BY <1>2, BoundsAssumption DEF Typed, TypeOK, WordId
      <3>2. wordFile[w] >= 1 /\ wordFile[w] < 1
        BY <2>1, <2>2, <2>4 DEF Words
      <3> QED BY <3>1, <3>2
    <2>6. wordFile = NoWords
      BY <1>2, <2>5 DEF NoWords, Typed, TypeOK
    <2> QED BY <2>1, <2>2, <2>5, <2>6 DEF Known
  <1>3. Typed /\ CleanInv /\ Refused => RefusedWithoutWords
    BY <1>2 DEF RefusedWithoutWords
  <1> QED BY <1>1, <1>3, RefusedStep, CleanInvariant, PTL DEF Spec

(* No document is ever overwritten by a later one: the id it is stored     *)
(* under is above every id in the store.                                   *)
THEOREM DocumentsNeverOverwritten == Spec => DocumentsKept
  <1> DEFINE Kept == clean' => \A d \in DOMAIN docs \cap DOMAIN docs' : docs'[d] = docs[d]
  <1>1. ASSUME Typed, CleanInv, [Next]_vars, clean'
        PROVE  \A d \in DOMAIN docs \cap DOMAIN docs' : docs'[d] = docs[d]
    <2>1. CASE UNCHANGED vars
      BY <2>1 DEF vars, db
    <2>2. CASE \E destroy \in {FALSE, MayDestroy} : Start(destroy)
      BY <1>1, <2>2 DEF Start, db
    <2>3. CASE \E doc \in Document : StoreDocument(doc)
      <3>1. phase = "up" /\ clean
        BY <1>1, <2>3 DEF StoreDocument, history
      <3>2. docId \notin DOMAIN docs
        BY <1>1, <3>1 DEF CleanInv, Agreement, Counters, Indexed, NextDoc, Off, Typed, TypeOK
      <3> QED BY <2>3, <3>2 DEF StoreDocument
    <2>4. CASE RemoveDocument
      BY <2>4 DEF RemoveDocument
    <2>5. CASE \/ IndexDocument \/ Terminate \/ Crash \/ Take \/ Write
               \/ (\E d \in DocId : DeleteDocument(d)) \/ RemovePending \/ RemoveStored
               \/ DestroyIndex \/ DestroyWordIndex \/ DestroyFields \/ DestroyDocId
               \/ DestroyWordId
      BY <2>5 DEF IndexDocument, Terminate, Crash, Take, Write, DeleteDocument, RemovePending,
                  RemoveStored, DestroyIndex, DestroyWordIndex, DestroyFields, DestroyDocId,
                  DestroyWordId, db
    <2> QED BY <1>1, <2>1, <2>2, <2>3, <2>4, <2>5 DEF Next
  <1>2. Typed /\ CleanInv /\ [Next]_vars => [Kept]_vars
    BY <1>1
  <1> QED BY <1>2, CleanInvariant, PTL DEF Spec, DocumentsKept
================================================================================
