--------------------------------- MODULE Engine ---------------------------------
(***************************************************************************)
(* The engine and its stores over several runs of the process              *)
(* (src/Engine.hpp, EngineDataKVStore, FieldKVStore, DocumentKVStore,      *)
(* WordIndexKVStore): what is in memory, what is on disk, in which order   *)
(* the destructors write it, and what the next start makes of it.          *)
(*                                                                         *)
(* A document maps its fields to the tokens of their values; a word is a   *)
(* <<field, token>>.  Field names are the names of XML elements, so they   *)
(* hold no blanks and no slash: the list of fields and the key of a word   *)
(* are read back as they were written.  Of the inverted index the model    *)
(* keeps what deleteDocument can tell apart: the batch being collected,    *)
(* the batch the processor has taken, and the store.  A posting is a       *)
(* <<word id, document id>>.  Threads in detail, and flushBatch while the  *)
(* processor is writing, are in InvertedIndexSimpleBatch.                  *)
(***************************************************************************)
EXTENDS Naturals, FiniteSets

CONSTANTS
    Field, Token,
    Document,    \* the documents that may be added: maps from fields to sets of tokens
    MaxDocId,    \* bound: document ids stay at or below it
    MaxWordId,   \* bound: and word ids
    MaxStarts,   \* bound: the number of times the process is started
    Misread,     \* what ZUtil::atoi may make of a persisted id, besides the id itself
    MayCrash,    \* the process may be killed
    MayDestroy,  \* the process may be started with destroyDb = 1
    MayDelete    \* deleteDocument may be called

ASSUME MisreadAssumption == Misread \subseteq Nat
ASSUME FlagsAssumption == {MayCrash, MayDestroy, MayDelete} \subseteq BOOLEAN

ASSUME DocumentAssumption == Document \subseteq UNION {[F -> SUBSET Token] : F \in SUBSET Field}

Word == Field \X Token
WordsOf(doc) == {w \in Word : w[1] \in DOMAIN doc /\ w[2] \in doc[w[1]]}

ASSUME FiniteAssumption == \A doc \in Document : IsFiniteSet(WordsOf(doc))
ASSUME BoundsAssumption == {MaxDocId, MaxWordId, MaxStarts} \subseteq Nat

DocId == 0..MaxDocId
WordId == 0..MaxWordId
NoId == MaxDocId + MaxWordId + 2   \* the key is not in the store

VARIABLES
    phase,                                \* where the process is
    docId, wordId, fields, tree,          \* memory of the engine
    pending, batched,    \* the batch being collected: its postings, and the words it has
    taken, takenWords,   \* the same of the batch the processor has taken and not yet written
    victim, removing,    \* the document being deleted, the words it is still to be removed from
    docs, docIdKey, wordIdKey, fieldsKey,  \* the LevelDB store,
    index, bitmaps,      \* in it the postings, and the words that have a bitmap
    wordFile,                             \* the file "wordindex"
    starts,
    deleted,  \* history: the documents deleteDocument was called for
    escaped,  \* history: the postings deleteDocument did not see, being in the batch taken
    clean     \* history: so far no crash, no destroyed database, and no counter misread

batches == <<pending, batched, taken, takenWords>>
removal == <<victim, removing>>
memory == <<docId, wordId, fields, tree, batches, removal>>
postings == <<index, bitmaps>>
keys == <<docIdKey, wordIdKey, fieldsKey>>
db == <<docs, postings, keys>>
history == <<deleted, escaped, clean>>
vars == <<phase, memory, db, wordFile, starts, history>>

NoWords == [w \in {} |-> 0]
NoDocuments == [d \in {} |-> [f \in {} |-> {}]]

Init ==
    /\ phase = "down"
    /\ docId = 1 /\ wordId = 1 /\ fields = {} /\ tree = NoWords
    /\ pending = {} /\ batched = {} /\ taken = {} /\ takenWords = {}
    /\ victim = NoId /\ removing = {}
    /\ docs = NoDocuments /\ index = {} /\ bitmaps = {}
    /\ docIdKey = NoId /\ wordIdKey = NoId /\ fieldsKey = {}
    /\ wordFile = NoWords
    /\ starts = 0
    /\ deleted = {} /\ escaped = {}
    /\ clean = TRUE

(* The process ends, and its memory with it.                               *)
Gone ==
    /\ docId' = 1 /\ wordId' = 1 /\ fields' = {} /\ tree' = NoWords
    /\ pending' = {} /\ batched' = {} /\ taken' = {} /\ takenWords' = {}
    /\ victim' = NoId /\ removing' = {}

--------------------------------------------------------------------------------
(* Start: main opens or destroys the database, then the engine's members   *)
(* are constructed.                                                        *)

(* Mutant: an absent key leaves the id uninitialised.                      *)
ReadId_NoDefault(key, ids) == {key}

(* The value a counter has when it is read: 1 if the key is absent.        *)
(* PutUint64 appends bytes of its buffer that it never wrote, so what it   *)
(* persists and atoi reads back can be another number.                     *)
ReadId(key, ids) == IF key = NoId THEN {1} ELSE {key} \cup (Misread \cap ids)

(* What the counter was when it was persisted.                             *)
Written(key) == IF key = NoId THEN 1 ELSE key

(* Mutant: a database with a single word is refused too.                   *)
Mismatched_OneWord(d, w) == (d <= 1 /\ w > 1) \/ (d > 1 /\ w <= 2)

Mismatched(d, w) == (d <= 1 /\ w > 1) \/ (d > 1 /\ w <= 1)

(* Mutant: the postings survive the documents.                             *)
Wiped_KeepsIndex ==
    /\ docs' = NoDocuments /\ UNCHANGED postings
    /\ docIdKey' = NoId /\ wordIdKey' = NoId /\ fieldsKey' = {}

(* DestroyDB removes the database, and no other file.                      *)
Wiped ==
    /\ docs' = NoDocuments /\ index' = {} /\ bitmaps' = {}
    /\ docIdKey' = NoId /\ wordIdKey' = NoId /\ fieldsKey' = {}

(* Mutant: the trie starts empty.                                          *)
load_Nothing == NoWords

load == wordFile

Start(destroy) ==
    /\ phase = "down"
    /\ starts < MaxStarts
    /\ starts' = starts + 1
    /\ IF destroy THEN Wiped ELSE UNCHANGED db
    /\ \E d \in ReadId(docIdKey', DocId), w \in ReadId(wordIdKey', WordId) :
          /\ \/ /\ Mismatched(d, w)       \* ZException, nobody catches it
                /\ phase' = "refused"
                /\ UNCHANGED memory
             \/ /\ ~Mismatched(d, w)
                /\ phase' = "up"
                /\ docId' = d
                /\ wordId' = w
                /\ fields' = fieldsKey'
                /\ tree' = load
                /\ UNCHANGED <<batches, removal>>   \* empty since the last process was gone
          /\ clean' = (clean /\ ~destroy /\ d = Written(docIdKey) /\ w = Written(wordIdKey))
    /\ UNCHANGED <<wordFile, deleted, escaped>>

(* The refused process is gone; it may be started again.                   *)
Terminate ==
    /\ phase = "refused"
    /\ phase' = "down"
    /\ UNCHANGED <<memory, db, wordFile, starts, history>>

--------------------------------------------------------------------------------
(* Engine::addDocument.  The document is stored first; a crash may come    *)
(* before the rest.                                                        *)

StoreDocument(doc) ==
    /\ phase = "up"
    /\ docId \in DocId
    /\ wordId + Cardinality(WordsOf(doc) \ DOMAIN tree) \in 0..(MaxWordId + 1)
    /\ docs' = [d \in DOMAIN docs \cup {docId} |-> IF d = docId THEN doc ELSE docs[d]]
    /\ phase' = "indexing"
    /\ UNCHANGED <<memory, postings, keys, wordFile, starts, history>>

(* Mutant: the counter is not advanced past the ids given out.             *)
NextWordId_Once(new) == wordId + (IF new = {} THEN 0 ELSE 1)

NextWordId(new) == wordId + Cardinality(new)

(* Every word the trie does not have gets the next word id, in the order   *)
(* of the tokens; the postings of the document go to the inverted index.   *)
IndexDocument ==
    /\ phase = "indexing"
    /\ LET words == WordsOf(docs[docId])
           new == words \ DOMAIN tree
           ids == wordId..(wordId + Cardinality(new) - 1)
       IN /\ \E f \in [new -> ids] :
                /\ \A v, w \in new : f[v] = f[w] => v = w
                /\ tree' = [w \in DOMAIN tree \cup new |-> IF w \in new THEN f[w] ELSE tree[w]]
          /\ wordId' = NextWordId(new)
          /\ fields' = fields \cup DOMAIN docs[docId]
          /\ pending' = pending \cup {<<tree'[w], docId>> : w \in words}
          /\ batched' = batched \cup {tree'[w] : w \in words}
    /\ docId' = docId + 1
    /\ phase' = "up"
    /\ UNCHANGED <<taken, takenWords, removal, db, wordFile, starts, history>>

--------------------------------------------------------------------------------
(* The batch processor, which runs beside the engine's operations.         *)

Running == {"up", "indexing", "removing", "reading"}

(* processBatch copies and clears the batch under the mutex.               *)
Take ==
    /\ phase \in Running
    /\ takenWords = {} /\ batched # {}
    /\ taken' = pending /\ takenWords' = batched
    /\ pending' = {} /\ batched' = {}
    /\ UNCHANGED <<phase, docId, wordId, fields, tree, removal, db, wordFile, starts, history>>

(* flush, outside the mutex: one batch write.  Every word of the batch has *)
(* a bitmap then, be it an empty one.                                      *)
Write ==
    /\ phase \in Running
    /\ takenWords # {}
    /\ index' = index \cup taken /\ bitmaps' = bitmaps \cup takenWords
    /\ taken' = {} /\ takenWords' = {}
    /\ UNCHANGED <<phase, docId, wordId, fields, tree, pending, batched, removal, docs, keys,
                   wordFile, starts, history>>

--------------------------------------------------------------------------------
(* Engine::deleteDocument: the document is read and cut into words, its    *)
(* postings are removed one after the other in the order of the word ids,  *)
(* and the document goes last.  The processor goes on in between.          *)

DeleteDocument(d) ==
    /\ MayDelete
    /\ phase = "up"
    /\ d \in DOMAIN docs
    /\ victim' = d
    /\ removing' = {tree[w] : w \in WordsOf(docs[d]) \cap DOMAIN tree}
    /\ deleted' = deleted \cup {d}
    /\ phase' = "removing"
    /\ UNCHANGED <<docId, wordId, fields, tree, batches, db, wordFile, starts, escaped, clean>>

(* Mutant: remove looks at the store alone.                                *)
Erased_Nothing(i) == pending

(* The posting goes; its word stays in the batch, with what else it has.   *)
Erased(i) == pending \ {<<i, victim>>}

(* InvertedIndexSimpleBatch::remove, under the mutex.                      *)
RemovePending ==
    /\ phase = "removing"
    /\ \E i \in removing : /\ \A j \in removing : i <= j
                            /\ pending' = Erased(i)
    /\ phase' = "reading"
    /\ UNCHANGED <<docId, wordId, fields, tree, batched, taken, takenWords, removal, db, wordFile,
                   starts, history>>

(* And after it: if the word has a bitmap in the store by now, removeDocId *)
(* of CompressedSet throws, and the exception ends deleteDocument.  If it  *)
(* has none, the next word follows; a posting in the batch that has been   *)
(* taken was not seen, and will be written.                                *)
RemoveStored ==
    /\ phase = "reading"
    /\ \E i \in removing :
          /\ \A j \in removing : i <= j
          /\ \/ /\ i \in bitmaps
                /\ victim' = NoId /\ removing' = {}
                /\ phase' = "up"
                /\ UNCHANGED escaped
             \/ /\ i \notin bitmaps
                /\ removing' = removing \ {i}
                /\ escaped' = escaped \cup (taken \cap {<<i, victim>>})
                /\ phase' = "removing"
                /\ UNCHANGED victim
    /\ UNCHANGED <<docId, wordId, fields, tree, batches, db, wordFile, starts, deleted, clean>>

(* documents.removeDoc, after every remove has returned.                   *)
RemoveDocument ==
    /\ phase = "removing"
    /\ removing = {}
    /\ docs' = [d \in DOMAIN docs \ {victim} |-> docs[d]]
    /\ victim' = NoId
    /\ phase' = "up"
    /\ UNCHANGED <<docId, wordId, fields, tree, batches, removing, postings, keys, wordFile, starts,
                   history>>

--------------------------------------------------------------------------------
(* delete engine: the members are destroyed in the reverse of the order in *)
(* which Engine declares them, and each writes what it keeps.              *)

(* ~InvertedIndexSimpleBatch: join waits for the processor to finish its   *)
(* write, then the last batch is flushed.                                  *)
DestroyIndex ==
    /\ phase = "up"
    /\ takenWords = {}
    /\ index' = index \cup pending /\ bitmaps' = bitmaps \cup batched
    /\ pending' = {} /\ batched' = {}
    /\ phase' = "destroyWords"
    /\ UNCHANGED <<docId, wordId, fields, tree, taken, takenWords, removal, docs, keys, wordFile,
                   starts, history>>

(* ~WordIndexKVStore: tree.save("wordindex")                               *)
DestroyWordIndex ==
    /\ phase = "destroyWords"
    /\ wordFile' = tree
    /\ phase' = "destroyFields"
    /\ UNCHANGED <<memory, db, starts, history>>

(* ~DocumentKVStore keeps nothing; ~FieldKVStore                           *)
DestroyFields ==
    /\ phase = "destroyFields"
    /\ fieldsKey' = fields
    /\ phase' = "destroyDocId"
    /\ UNCHANGED <<memory, docs, postings, docIdKey, wordIdKey, wordFile, starts, history>>

(* Mutant: the last id given out is persisted, not the next one.           *)
DestroyDocId_Last ==
    /\ phase = "destroyDocId"
    /\ docIdKey' = IF docId > 1 THEN docId - 1 ELSE docId
    /\ phase' = "destroyWordId"
    /\ UNCHANGED <<memory, docs, postings, wordIdKey, fieldsKey, wordFile, starts, history>>

(* ~EngineDataKVStore writes one key after the other.                      *)
DestroyDocId ==
    /\ phase = "destroyDocId"
    /\ docIdKey' = docId
    /\ phase' = "destroyWordId"
    /\ UNCHANGED <<memory, docs, postings, wordIdKey, fieldsKey, wordFile, starts, history>>

DestroyWordId ==
    /\ phase = "destroyWordId"
    /\ wordIdKey' = wordId
    /\ phase' = "down"
    /\ Gone
    /\ UNCHANGED <<docs, postings, docIdKey, fieldsKey, wordFile, starts, history>>

(* The process is killed.                                                  *)
Crash ==
    /\ MayCrash
    /\ phase \notin {"down", "refused"}
    /\ phase' = "down"
    /\ Gone
    /\ clean' = FALSE
    /\ UNCHANGED <<db, wordFile, starts, deleted, escaped>>

Next ==
    \/ \E destroy \in {FALSE, MayDestroy} : Start(destroy)
    \/ Terminate
    \/ \E doc \in Document : StoreDocument(doc)
    \/ IndexDocument
    \/ Take \/ Write
    \/ \E d \in DocId : DeleteDocument(d)
    \/ RemovePending \/ RemoveStored \/ RemoveDocument
    \/ DestroyIndex \/ DestroyWordIndex \/ DestroyFields \/ DestroyDocId \/ DestroyWordId
    \/ Crash

Spec == Init /\ [][Next]_vars

--------------------------------------------------------------------------------
(* Engine::search over the store, without the paging: for each token the   *)
(* union over the fields, and the intersection of these.                   *)

search(q) ==
    LET hits(t) == UNION {{p[2] : p \in {r \in index : r[1] = tree[<<f, t>>]}} :
                            f \in {g \in fields : <<g, t>> \in DOMAIN tree}}
    IN {d \in DocId : \A t \in q : d \in hits(t)}

Queries == (SUBSET Token) \ {{}}
Contains(doc, q) == \A t \in q : \E f \in DOMAIN doc : t \in doc[f]
Serving == phase = "up"

(* Type invariant of the memory, the database and the file.                *)
TypeOK ==
    /\ phase \in Running \cup {"down", "refused", "destroyWords", "destroyFields", "destroyDocId",
                               "destroyWordId"}
    /\ docId \in 0..(MaxDocId + 1) /\ wordId \in 0..(MaxWordId + 1)
    /\ fields \subseteq Field /\ fieldsKey \subseteq Field
    /\ DOMAIN tree \subseteq Word /\ tree \in [DOMAIN tree -> WordId]
    /\ DOMAIN wordFile \subseteq Word /\ wordFile \in [DOMAIN wordFile -> WordId]
    /\ pending \subseteq WordId \X DocId /\ taken \subseteq WordId \X DocId
    /\ index \subseteq WordId \X DocId
    /\ batched \subseteq WordId /\ takenWords \subseteq WordId /\ bitmaps \subseteq WordId
    /\ victim \in DocId \cup {NoId} /\ removing \subseteq WordId
    /\ DOMAIN docs \subseteq DocId /\ docs \in [DOMAIN docs -> Document]
    /\ docIdKey \in 0..(MaxDocId + 1) \cup {NoId} /\ wordIdKey \in 0..(MaxWordId + 1) \cup {NoId}
    /\ starts \in 0..MaxStarts
    /\ deleted \subseteq DocId /\ escaped \subseteq WordId \X DocId
    /\ clean \in BOOLEAN

(* search returns documents that contain all the words of the query.       *)
SearchSound ==
    Serving => \A q \in Queries : \A d \in search(q) : d \in DOMAIN docs /\ Contains(docs[d], q)

(* In every run of the process, as long as each one was closed, on the     *)
(* database of the one before, with the counters read as they were, search *)
(* does so with one exception: it may return a document that has been      *)
(* deleted for words whose postings were in the batch the processor had    *)
(* taken when deleteDocument removed them.                                 *)
CleanSearchSound ==
    clean /\ Serving => \A q \in Queries : \A d \in search(q) :
        \/ d \in DOMAIN docs /\ Contains(docs[d], q)
        \/ /\ d \in deleted \ DOMAIN docs
           /\ \A t \in q : \E f \in fields : /\ <<f, t>> \in DOMAIN tree
                                            /\ <<tree[<<f, t>>], d>> \in escaped

(* Once the index has caught up, search returns every document that was    *)
(* added, in this run or an earlier one, and contains the words; deleting  *)
(* other documents, or failing to, does not hide it.                       *)
SearchComplete ==
    clean /\ Serving /\ pending = {} /\ taken = {} =>
        \A q \in Queries : \A d \in DOMAIN docs \ deleted : Contains(docs[d], q) => d \in search(q)

(* Two words never share a word id.                                        *)
WordIdsDistinct == clean => \A v, w \in DOMAIN tree : tree[v] = tree[w] => v = w

(* A stored document is never overwritten by a later one.                  *)
DocumentsKept ==
    [][clean' => \A d \in DOMAIN docs \cap DOMAIN docs' : docs'[d] = docs[d]]_vars

(* A database that was closed is refused at the next start only if none of *)
(* its documents ever had a word: the check of the counters for corruption *)
(* takes a database of such documents for a corrupt one, and no other.     *)
RefusedWithoutWords ==
    clean /\ phase = "refused" => wordFile = NoWords /\ \A d \in DOMAIN docs : WordsOf(docs[d]) = {}

(* A posting never refers to a document that is not stored, except one     *)
(* whose deletion was asked for, wherever the process is killed and        *)
(* whatever the ids it reads at its next start: a document is stored       *)
(* before it is indexed.  (deleteDocument finds the postings through the   *)
(* trie, which a crash may have lost.)                                     *)
PostingsHaveDocuments ==
    \A p \in index \cup taken \cup pending : p[2] \in DOMAIN docs \cup deleted
================================================================================
