# A verification project for zsearch

zsearch is a search engine: an HTTP server (or a loader) hands documents to an
`Engine`, which stores them, cuts them into words, gives the words ids and
records in an inverted index which word occurs in which document. Queries are
answered by intersecting and uniting posting lists. Everything persistent is in
one LevelDB database, except the word index, a trie that is saved to a file.

This directory holds TLA+ models of the parts of zsearch that carry its own
logic, TLC configurations that check them on small instances, and TLAPS proofs
of the most important facts for all instances. Paths below are relative to the
repository's root.

## Inventory of the system

| Part | State | Operations | What is hard about it |
|---|---|---|---|
| `InvertedIndexSimpleBatch` (`src/InvertedIndexSimpleBatch.hpp`) | postings collected in memory, the batch being written, two atomic flags, a mutex, a condition variable, the stored bitmaps | `add` (three overloads), `remove`, `get`, `flushBatch`, `setMaxBatchSize`, `shutDownBatchProcessor`, destructor; the thread `processBatch` | two threads read, merge and overwrite the same bitmaps; some steps hold the mutex, others do not; lost notifications; `CompressedSet::addDoc` must be called in increasing order; failing writes nobody notices |
| `Engine` and its stores (`src/Engine.hpp`, `EngineDataKVStore`, `FieldKVStore`, `DocumentKVStore`, `WordIndexKVStore`) | document and word counters, field names, the trie; documents, postings, counters and fields in LevelDB; the file `wordindex` | `addDocument`, `deleteDocument`, `search`, construction, destruction | part of the state is written at once, part only by destructors, part to another file: a crash, a destroyed database or a badly read counter leaves them disagreeing |
| Query iterators (`varint/LazyAndSet.cpp`, `varint/LazyOrSet.cpp`) | a heap of iterators per token, a current document and a target | `nextDoc`, `Advance` | iterators move at different speeds; an iterator must not be asked twice for one target nor past its end |
| `CompressedSet` (`varint/CompressedSet.cpp`) | compressed blocks, the last document of each, an uncompressed last block; per iterator a cursor and an uncompressed block | `addDoc`, `addDocs`, `write`, `read`, `find`, `nextDoc`, `Advance` | block boundaries, a set of exactly one block, reuse of an already uncompressed block |
| `SparseSet` (`src/SparseSet.hpp`) | two arrays that point into each other | `insert`, `remove`, `clear`, iteration | stale entries after `clear` and `remove`, growth |
| Key-value store (`src/KVStoreLevelDb.hpp`, `src/NameSpaceKVStore.hpp`) | LevelDB | `Put`, `Get`, `Delete`, batch `Put` | a batch write is atomic or fails as a whole |
| Server and loader (`src/server.cpp`, `src/engine_simple_main.cpp`) | the engine | the HTTP handlers, the load loop, `destroyDb` | which engine operations may run while the batch processor does |
| `InvertedIndexBatch`, `LRUCache` | two buffers exchanged by pointer, a write-back cache | `add`, `flushBatch`, consumer thread | a second threaded index; included by no program |
| `InvertedIndexImpl`, `KVStoreInMemory`, `BasicSet`, `LazyAndNotSet` | maps and sets | simple variants used by tests | edge cases of `BasicSet`'s iterator |
| `DocumentImpl`, `TokenizerImpl`, `ZUtil` | the entries of a document, the text being cut and the token | parsing, the compact form, tokenizing, number formats | a document is cut twice, as posted and as read back; loops at the end of a buffer; short words |
| LevelDB, RapidXML, cedar trie, bloom filter, bit packing, EWAH, unicode tables | | | third-party |

The calls go from the server to the engine, from the engine to its stores and
to the inverted index, and from the index and the query iterators to the sets.
The server runs its handlers on one thread (a libevent loop); the only other
thread is the batch processor inside the inverted index. Nothing is passed by
messages: the two threads share memory and the store.

What makes each part correct:

* the index loses no posting, keeps every bitmap sorted, shows readers only
  complete documents, writes a full batch eventually, and has written
  everything when its destructor returns;
* the engine's search returns exactly the documents with the words of the
  query, over several runs of the process;
* a query iterator returns each matching document once, in order, and stops;
* a posting list is the set of the documents added, whatever mixture of
  operations filled it and however it is walked;
* the sparse set is a set.

`PROJECT.json` lists the hazards, each at its line with the properties aimed
at it.

## Modules

| Module | Models | Notes |
|---|---|---|
| `PrefixIndex` | abstract | what a batched index promises its readers |
| `InvertedIndexSimpleBatch` | `src/InvertedIndexSimpleBatch.hpp` | both threads; several programs that use it |
| `InvertedIndexBatch` | `src/InvertedIndexBatch.hpp`, `src/LRUCache.hpp` | both threads and the write-back cache |
| `Engine` | `src/Engine.hpp` and the four stores | several runs of the process |
| `Tokenizer` | `src/TokenizerImpl.hpp` | byte by byte, with its definition without the loop |
| `Documents` | `src/DocumentImpl.hpp`, `src/ZUtil.hpp`, `src/DocumentKVStore.hpp`, `src/NameSpaceKVStore.hpp`, the document handlers of `src/server.cpp` | extends `Tokenizer`: a document from its posting to its deletion |
| `DocIterator` | abstract | what `Set::Iterator` (`varint/Set.h`) promises |
| `LazySets` | `varint/LazyAndSet.cpp` over `varint/LazyOrSet.cpp` | implements `DocIterator` |
| `EngineSearch` | the loop of `Engine::search` | extends `LazySets` |
| `CompressedSet` | `varint/CompressedSet.cpp`, `CollectionHelper.h`, `Codec.h` | implements `DocIterator` |
| `FiniteIntSet` | abstract | a set of integers |
| `SparseSet` | `src/SparseSet.hpp` | implements `FiniteIntSet` |
| `MC...` | | instances for TLC |
| `SimpleBatchProofs`, `SimpleBatchLibraryProofs`, `EngineProofs`, `LazySetsProofs`, `InvertedIndexBatchProofs`, `SparseSetProofs`, `CompressedSetProofs`, `DocumentsProofs` | | theorems |

The modules meet at abstractions rather than in one large product. `Engine`
keeps of the inverted index its three stages (the batch being collected, the
batch the processor has taken, the store) and the steps between them;
`InvertedIndexSimpleBatch` has the threads in detail, proves that nothing is lost
or reordered between these stages (`StagedWriting`) and that it implements
`PrefixIndex`, and shows what goes wrong with `flushBatch` while the processor
writes, which `Engine` leaves out. `LazySets` uses posting
lists as `DocIterator` describes them, is proved to be such an iterator itself,
and `CompressedSet` is proved to be one; its one restriction (`nextDoc` is not called again after the
end) is what `LazySets` is proved to guarantee as `NeverPastEnd`. `CompressedSet` is filled
in increasing order, which is what `SortedBitmaps` guarantees. `Engine` takes the
words of a document as given and the same whenever it is cut, which is what
`Documents` is proved to guarantee as `LongWordsIndexed` and `DeletionFindsWords`.

### InvertedIndexSimpleBatch

The client thread and the batch processor each have a program counter
(`clientPc`, `procPc`), and every access that the other thread can observe is a
step. The processor's steps are those of `processBatch`: test `done`, lock, test
`dataReady`, wait (releasing the mutex and joining the wait set at once), wake
up (notified or spuriously), decide, take the batch, then for each word read and
merge its bitmap, and write all of them in one batch. `flush` takes no mutex, so
its reads and its write are separate steps. The steps of
`shutDownBatchProcessor` (two stores, a notification, `join`) are separate
because none holds the mutex. `add` holds the mutex throughout and is one step;
so is the removal of a pending posting in `remove`, whose read and write of the
store are two more.

A bitmap is its documents and whether they were appended in increasing order.
Four programs use these operations:

* `Spec`: the server's engine, which adds, sets the batch size, disables
  batching and is deleted;
* `LoaderSpec`: `engine_simple_main`, which also calls `flushBatch` while the
  processor runs;
* `LibrarySpec`: what the unit tests do, `flushBatch` and `remove` after the
  processor has been shut down; `FaultySpec` adds writes that fail. The history
  variable `lost` holds the postings of failed flushes, so that the properties
  say what may be missing and nothing more;
* `DeleteSpec`: `Engine::deleteDocument` while the processor runs.

### InvertedIndexBatch

The other threaded index keeps two vectors, one the client fills and one the
consumer works on, and exchanges them by pointer. Each critical section is one
action, so no step leaves the mutex held. The consumer's wait has a timeout;
`expired` says whether the clock has passed the end of its waiting time. The
bitmaps go through an LRU cache and reach the store when they are evicted or
when the index is destroyed, so a reader of `get`, which looks at the store
only, sees less than what has been merged.

### Engine

A document is a function from its fields to the tokens of their values, a word
a `<<field, token>>`. The variables separate what is in memory, what is in the
database and what is in the file. The actions are the start of the process
(which reads the counters, refuses a database whose counters contradict each
other, and loads the trie), the two halves of `addDocument` between which a
crash may come, the steps of `deleteDocument`, the two steps of the batch
processor, the destructors in the reverse order of the members' declarations,
and a crash. `Misread` is what a persisted counter may read as besides what was
written, because `ZUtil::PutUint64` appends bytes of its buffer it has not
written.

`deleteDocument` removes posting after posting, and `remove` has two steps: under
the mutex it erases the posting from the batch being collected
(`RemovePending`), and after that it looks for the word's bitmap in the store
(`RemoveStored`), where `CompressedSet::removeDocId` throws if there is one. The
processor takes the batch under the mutex (`Take`) and writes it outside
(`Write`); it may do either between any two steps. Nobody looks at the batch that
has been taken: the posting of a new word that is in it is neither found nor
removed, the document goes, the posting is written, and `search` returns the
deleted document. The history variable `escaped` holds these postings, and
`CleanSearchSound` says that a deleted document is returned for them and for no
others. A word whose postings were all erased stays in the batch and gets an
empty bitmap, at which a later `remove` throws; hence `batched`, `takenWords` and
`bitmaps` beside the postings.

One run has all the faults. The history variable `clean` is true as long as
none has happened (no crash, no destroyed database, no counter misread); what
needs a clean history says so (`CleanSearchSound`, `SearchComplete`,
`WordIdsDistinct`, `RefusedWithoutWords`, `DocumentsKept`), and what does not is
checked and proved without it (`PostingsHaveDocuments`).

### Tokenizer and Documents

`Tokenizer` takes one step for each character that `nextToken` looks at. A word
of more than two letters is a token, but the count of letters is not reset when
a short word is dropped: after `a`, the word `bc` is a token too, and `bc` at the
start of a text is none. `TokensOf` says the same of whole words: it goes from one
longest run of letters to the next (`FirstRun`) and carries the letters of the
words dropped since the last token. `TokensExact` compares the two.

`Documents` follows one document. It is posted (a request is what RapidXML makes
of the text: a root and named values), refused if its root is another or a value
is empty, written in its compact form under a key of its name space and its id,
cut into words, served any number of times, and read back and cut again to be
deleted. Numbers are varints: `Base` is 128 in the code. `readMini` reads one
entry more than there is; at the end of the slice both reads fail and leave an
entry of two empty strings, which is cut into no words, so `deleteDocument` finds
the right ones, and which `GET /doc` sends to the client.

### LazySets and CompressedSet

`LazySets` follows the two iterators call by call: a heap per token, its
repair, the loop of the intersection with its target and the iterator it skips.
The leaves are posting lists that answer as `DocIterator` does. `CompressedSet`
keeps the layout (blocks, base list, last block) and the three ways `Advance`
finds its target. The SIMD compression below `Codec` is third-party; a block is
stored as the differences of its documents. `EngineSearch` adds the loop of
`Engine::search`, which skips `start * offset` documents (an unsigned product) and
takes `offset` of them, or all if `offset` is 0.

### SparseSet

The two arrays with every stale entry they hold. `growBuffers` keeps the old
entries and adds zeros.

## Runs

| Run | Checks | Bounds |
|---|---|---|
| `server` | `Spec` with fairness: types, the inductive invariant, no posting lost, sorted bitmaps, refinement of `PrefixIndex`, a signalled batch is written | 2 words, 3 documents of which up to 1 from an earlier run, batch sizes 1 and 2 |
| `library` | `flushBatch` and `remove` after shutdown on both kinds of set (`CompressedSet::removeDocId` throws), with writes that fail: whole documents are lost or none, removed postings stay removed, and the destructor leaves exactly the rest in the store | the same |
| `shutdown` | violation: `shutDownBatchProcessor` may never return | 1 document |
| `loaderLost` | violation: `flushBatch` and the processor overwrite each other's bitmaps | 3 documents |
| `buffered` | the double-buffered index with fairness: nothing lost, repeated or reordered between vectors, cache and store; stored bitmaps grow; `flushBatch` and the stop return; what the destructor leaves | 2 words, 3 documents of which up to 1 from an earlier run, a cache of 1 bitmap, consumer's batch size 2, client's 0 and 2 |
| `sparse` | membership, bounds, iteration, refinement of a set | elements to 3, initial sizes 1, 2, 4 |
| `engine` | with crashes at every step, a destroyed database, misread counters and deletions while batches are taken and written: postings have documents; while none of the faults has happened, search is complete, and sound but for escaped postings of deleted documents, word ids are distinct, documents are kept, and only a database without words is refused | 2 fields, 2 tokens, 4 documents to choose from, document ids to 2, word ids to 3, 2 starts, counters misread as 1 or 2 |
| `destroy` | violation: a destroyed database and a surviving word index make search wrong | the same |
| `documents` | tokens are those of the definition, long words are indexed with their field, the compact form reads back, deletion finds the indexed words, other keys are untouched | bytes of 3 bits, varints of 2 bits to a byte, texts to 7 bytes, up to 2 entries, ids 1, 4 and 17 |
| `retrieve` | violation: a document is not served as it was posted | the same |
| `query` | heap order, no call past the end, refinement of `DocIterator`, exact pages, every call and every search returns | up to three tokens, up to four fields for one token, a token the index does not have, no token; documents to 3; four pages, one of them with a product that wraps at 4 |
| `compressed` | canonical layout, exact `find`, fresh block, refinement of `DocIterator` | blocks of 2, up to 8 documents |

Why the bounds are enough. In the index three documents put one posting in each
of the three stages (store, taken batch, collected batch) at the same time, with
a word that is in the store and one that is not; batch sizes 1 and 2 make a
batch ready at once or after another document. For the engine two runs of the
process are what it takes to write and read back the persisted state, two
tokens in two fields make the ids of words collide if they can, and a document
of two words can be half deleted when a batch is taken or written; a counter
misread as 1 or 2 gives out old ids again, all of them or some. A posting list
of eight documents in blocks of two has three compressed blocks and a last one,
so `Advance` can stay in its block, go to the next, skip one, or go to the last
one. A heap of four iterators has three levels, and an intersection of three
has an iterator to skip and one to go on with. A cache of one bitmap for two words evicts at every
change of word, and a batch size of the client below the consumer's makes each
wait for the other. In the sparse set an
element can lie below, at and beyond the arrays' length. With four values to a
varint's byte the lengths and ids take one, two and three bytes, and texts of
seven letters and blanks hold three words of any lengths that matter to the
count. The pages are one without an offset, one in the middle, one at the end
and one whose start wraps.

Fairness. `server` and `shutdown` assume that the processor thread is scheduled
(`WF` of its steps) and that the client finishes the operation it is in (`WF` of
these steps, not of calls). The operating system gives both; a mutex is free
again after finitely many steps here, so strong fairness is not needed. No
fairness is assumed of calls nor of spurious wake-ups. `buffered` assumes in addition that the clock goes on: a
consumer that goes round its waiting loop again and again finds its time over
(`SF`), which `wait_for` and `clock_gettime` give. `query` assumes that the
iterators and the loop of `search` take their steps. The liveness properties are `ReadyBatchIsWritten`,
`FlushReturns`, `StopReturns`, `SearchReturns` and the violated `ShutdownReturns`.

Deadlock is checked for `sparse` and `compressed`. The others may stop: an index
that has been destroyed, a process that is not started again, a search that has
returned, a document that was refused.

### What the violated runs show

* `shutdown`. `shutDownBatchProcessor` stores `dataReady` and `done` and
  notifies without the mutex. A processor that has just tested `dataReady`
  (false) and not yet gone to wait misses the notification; one that takes a
  batch between the two stores resets `dataReady`. Either way it waits for ever
  and `join` does not return, nor does the destructor of the engine.
* `loaderLost`. `flushBatch` runs under the mutex and the processor's flush
  outside it. Both read a word's bitmap; the second write loses the documents of
  the first.
* `destroy`. `destroyDb` removes the database and leaves `wordindex`. The next
  run gives the old ids of old words to new words.
* `retrieve`. `readMini` loops while `i <= numelem`. A document that is served has
  an element without a name after those that were posted, which no XML parser
  accepts; the Python client parses it.

The following fail as well and can be reproduced by changing a configuration:
`SortedBitmaps` under `LoaderSpec`; `RemovedStaysRemoved` under `DeleteSpec`
with `SetKinds = {"Basic"}` (a removed posting is in the batch the processor has
taken); `SearchSound` with `MayCrash = TRUE` or `Misread = {1}`, which is why
`CleanSearchSound` has its condition, and in a clean history with
`MayDelete = TRUE`, which is why it has its exception (start, add a document,
`DeleteDocument`, `Take`, `RemovePending`, `RemoveStored`, `Write`,
`RemoveDocument`, search); `PostingsHaveDocuments` without the
deleted documents (after a crash has lost the trie, `deleteDocument` finds no
postings to remove and removes the document); `PageExact` without its condition
on the product;
`FlushReturns` without its condition on `done`. `DestructorWrites` says what the
destructor of `InvertedIndexBatch` writes, and with it that the batch the
consumer has not taken is lost. The
corruption check of `EngineDataKVStore` refuses a database that was closed
cleanly after only documents without a token had been added; `RefusedWithoutWords`
says that it refuses no other. `Engine::search` promises "documentIds that contain
all the words in the query"; words of one or two letters are cut from a query by
the rule above and are mostly not looked for.

## Proofs

`SimpleBatchProofs` proves for every finite set of words, every number of
documents, every set of batch sizes and any kinds of set:

* `TypeCorrect`: the types, for every program, failing writes and deletions
  included;
* `StagedWritingInvariant`: `StagedWriting` is an invariant of the server's
  program;
* `NeverLost`, `AlwaysSorted`, `Durable`: no posting is lost, bitmaps are
  sorted, and the destructor leaves exactly what was added in the store;
* `Refinement`: the threads implement `PrefixIndex`.

None of the three safety properties is inductive. `SortedBitmaps` needs to know
that what a flush writes is newer than what is stored, and that what it read is
still there when it writes. `StagedWriting` says so. Every posting is in one of
three stages, the store, the batch the processor has taken, or the batch being
collected, and the documents of an earlier stage are all older than those of a
later one (`StagesInv`). The bitmaps a flush has prepared are still what merging
its batch into the store gives (`FlushInv`), because only one thread flushes at
a time (`OneFlusher`): the client flushes only when `done` is set and the
processor, once `done` is set and the client is past `join`, has exited. Who
holds the mutex follows from the program counters (`MutexInv`). In the server's
program nothing is removed and no write fails (`NothingRemoved`). `flushBatch` by the loader breaks
`OneFlusher`, and that is what `loaderLost` shows.

The assumptions are `WordAssumption` (finitely many words), `BoundAssumption`,
`BatchSizeAssumption` and `SetKindsAssumption`.

`SparseSetProofs` proves `MembershipCorrect`, `InsertSafe`, `IterationCorrect`
and `SetRefinement` for every element bound and initial sizes (`MaxElemAssumption`,
`SizeAssumption`). The invariant is that the first `n` entries of one array and
the entries of the other they point to point back (`Linked`). That a new element
always finds room is the pigeonhole principle: a set without room has every
index as a member.

`SimpleBatchLibraryProofs` proves for `FaultySpec`, the programs that flush and
remove after the processor has been shut down on a store whose writes may fail:
`RemovedForGood`, `DocumentsWhole`, `DurableDespiteFaults`, `SortedDespiteFaults`
and `NeverLostDespiteFaults`. `StagedWriting` does not hold there, because
postings leave the stages. `LibraryInv` says instead that the postings added,
neither removed nor in a write that failed, are exactly those in the stages, and
that a document one of whose postings was in a failed write has none left
(`StagesPart`). A removal reads a bitmap and writes it in two steps; the invariant
has to say that the bitmap it read is still the stored one (`RemovePart`), which is
so because nobody else writes once the processor has exited.

`EngineProofs` proves, with crashes at every step, destroyed databases and
counters that read back as anything (`Misread` is any set), `EngineTypeCorrect`
(ids stay in their ranges) and `PostingsBacked`: a posting in memory or in the
store has its document, unless `deleteDocument` was called for it. The invariant
`Backed` adds that the document being indexed is stored already, that a word with
a posting is in its batch or has its bitmap (`Covered`), and that both batches are
empty when the engine is not running.

For histories in which nothing has gone wrong it proves `SearchSoundWhenClean`,
`SearchCompleteWhenClean`, `WordIdsStayDistinct`, `RefusedOnlyWithoutWords` and
`DocumentsNeverOverwritten`. None of them is inductive, since a search looks at the
trie, the field list and the bitmaps, and a restart replaces all three by what
the destructors wrote. `CleanInv` is about the engine's state wherever it is, in
memory while the process runs and on disk while it does not. There, ids are
below their counters and words have different ones, the trie and the field list
know every indexed document, every posting in the batches and the store is that
of a word of one or has escaped, and every word of one that nobody tried to
delete has its posting (`Agreement`); while the destructors run, what they have
written so far is what is in memory (`Closing`). At each step of a deletion a
posting of the document is that of a word still to be removed or has escaped,
and between the two steps of a removal it is not in the batch being collected
(`Deleting`): together with `Covered`, this is why a posting that is left when the
store has no bitmap can only be in the batch taken, and `SearchSoundWhenClean`
has no other exception.
The assumptions are those named in `Engine`: what a document is
(`DocumentAssumption`), that it has finitely many words (`FiniteAssumption`) and that
the bounds are natural numbers (`BoundsAssumption`).

`LazySetsProofs` proves for queries with any number of tokens, fields and
documents `HeapStaysOrdered`, `IteratorsNeverPastEnd` and the refinement
`LazySetsImplementDocIterator`, and for `Engine::search` above them
`SearchReturnsPage`. Its invariant, `QueryInv`, has three layers:

* of the heap of one token, that it is one, that each field is in it once or has
  come to its end, and that an entry's document is where its iterator stands
  (`HeapPart`); that `heapAdjust` restores the order of a heap of any depth is proved
  along the path the root sinks (`AdjustOrders`, `AdjustPermutes`), and that the root
  is then the least document by descending from a least counterexample
  (`RootIsLeast`);
* of one `LazyOrSetIterator`, that no document that may still answer its call has
  been passed by the iterator of any field (`NotPassed`);
* of the `LazyAndSetIterator`, that no document of the query that may still answer
  has been passed by any token (`NoneMissed`), and at each place of its loop which
  tokens are at the target and which behind it (`Lead`, `Loop`, `Advanced`). That
  the iterator which set the target may be skipped rests on this.

`PageInv` says that `search` has listed, of the documents it is done with, those
not before the page. `SearchUsesIterators` carries the results about `Spec` over to
`SearchSpec`.

`InvertedIndexBatchProofs` proves `BufferTypeCorrect`, `NothingLostBetweenBuffers`,
`DestructorWritesAll` and `StoreOnlyGrows` for any words, documents, batch sizes and
capacity of the cache. `BufferInv` says that for every word what is stored is a
prefix of what is cached, and that the bitmap, the consumer's vector and the
producer's vector are in this order the documents added; that a word is cached
once; that the consumer's vector is empty outside its flush; and that the
consumer has exited once the client has joined it.

`CompressedSetProofs` proves for blocks of any size and any documents
(`BlockSizeAssumption`, `MaxDocAssumption`) `CanonicalHolds`, `FindIsExact`,
`DecompIsFresh` and `IteratorRefinement`, that `nextDoc` and `Advance` implement
`DocIterator`. The invariant is that one increasing list of documents exists which
the three parts of the set are cut from: block by block the compressed blocks,
the last document of each in the base list, and the rest, never empty once there
is a document, in the last block (`Layout`); and that the iterator stands on the
document of that list at its cursor, with the block of that document
uncompressed if it is a compressed one (`Iterating`). None of the properties is
inductive without the list: `find` and `Advance` search the base list first and
a block after it, and that the block is the right one follows only from the
order across blocks. The lemmas below are about the code's algorithms: the sums
of the differences of a block are the block (`CodecRoundTrip`), the binary search
returns the first document that reaches its target, or says that there is none
(`BinarySearchExact`, over the interval that is left), and a set that is written
and read is the same set (`StoreKeeps`, which folds over the chunks).

`DocumentsProofs` proves for every document of any bytes `TokensAreExact`,
`LongWordsAreIndexed`, `ReadBackHolds`, `DeletionFinds` and `OthersAreKept`. The
assumptions are those of `Tokenizer` and `Documents`: a byte is twice `Base`
values, letters are bytes, and strings and the number of nodes are shorter than
`VarintLimit`, what five bytes of a varint hold (`RequestAssumption`). For a
`Base` of 128 that is 2^35; the code converts sizes to `uint32_t` before it writes
them, so the result is about texts below 2^32 bytes, and how a longer one would
be truncated is not modelled. The argument has four parts:

* Varints. `EncodeVarint` is a recursive function over all numbers; a varint of a
  number below the limit has at most five bytes, its last one is the first below
  `Base` (`VarintShape`, `VarintLength`), and decoding gives the number back whatever
  follows it (`VarintRoundTrip`). Different numbers have different varints, so
  different name spaces or ids have different keys (`KeyInjective`).
* The compact form. `writeMini` and `readMini` are folds. `MiniRoundTrip` says that
  reading what was written gives the entries and an empty one: after `i` reads
  the first `i` entries were read and what is left is the compact form of the
  others, and the read after the last finds an empty slice.
* The tokenizer. Where it stands, `At` says that its token is the letters just
  before its offset, from where a word starts, that it has counted them and at
  most two letters more, and that the tokens returned and the tokens of the rest
  of the text, given that count, are together the tokens of the text. The last
  part is what makes it inductive, and the reason why the count is an argument
  of `TokensFrom`: a dropped word changes what the next one needs to be a token.
* The loops. `Progress` says that the words found are those of the entries before
  the one that is being cut and of its returned tokens, and `IInv` that the loops of
  `addDocument` and `deleteDocument` go over the posted nodes and over what
  `readMini` makes of them, whose one entry more has no words (`CutWordsAdded`).

The library's induction theorems have an operator as a parameter, which the
provers cannot instantiate. Induction over numbers is done with sets instead:
a set of naturals that is not empty has a least element (`Least`), and so the
property holds of all or has a least counterexample. That a recursive function
or a fold satisfies its equation is proved the same way: `Recursion` builds a
solution of an equation that gives the value at an argument from values at
smaller ones, where the equation's right side is itself a function, which a
lemma can be given as a parameter.

Only model-checked: the liveness properties (`ReadyBatchIsWritten`,
`FlushReturns`, `StopReturns`, `SearchReturns`), which are out of reach of the proof
system. Every other property of a passing run is a theorem.

## Not modelled

* `Engine::getDocs`, which only reads and which nobody calls.
* Document ids of 2^31 and more: `LazyOrSet.cpp` keeps the documents of its heap
  in `int`s, which would order them differently; the ids of `LazySets` are numbers
  without a width. A `SparseSet` made with size 0, which no caller does and
  `SizeAssumption` excludes.
* The digits of `ZUtil`'s decimal format: `Misread` stands for what they lose.
  The other tokenizer (`src/TokenizerImpl.cpp`), which only tests use.
* The iterator of `BasicSet`, and `LazyAndNotSet`: used by tests alone, and
  neither implements `DocIterator`. `BasicSet`'s `Advance` returns the element
  after the one it looks for. `LazyAndNotSet`'s moves the iterator of the excluded
  documents beyond one it stands at, so that `find` may answer yes for the first
  excluded document. `unorderedAdd` and `removeDoc` of `CompressedSet`, called by
  no component.
* `InvertedIndexImpl`, `KVStoreInMemory`, `Statistics`: simple sequential code
  for tests and benchmarks.
* HTTP parsing and formatting in `src/server.cpp`: input and output.
* LevelDB, RapidXML, cedar, bit packing, EWAH, the bloom filter and the unicode
  tables: third-party; modelled by how zsearch uses them. A LevelDB batch write
  is atomic and what was written survives the process. These are some 84000 of
  the repository's 90000 lines of code (the bit packing and the unicode tables
  alone are 52000), so the share of all lines that the models cover stays small
  whatever is modelled of zsearch itself.
* The memory model below the atomics: they are sequentially consistent, which
  is what `std::atomic` gives by default.

## Order of the work, and what is left

The index came first because that is where threads, order and loss meet:
`PrefixIndex` and `InvertedIndexSimpleBatch` with their proofs, `SparseSet`, `Engine`
with its first theorem, `DocIterator` with `LazySets` and `CompressedSet`,
`InvertedIndexBatch`; then faults and clean runs of the engine in one model,
failing writes with an exact account of what they lose, `Tokenizer` and
`Documents`, and the pages of `search`; then the proofs about clean runs of the
engine, the library's program, the double-buffered index, the query iterators
and `search`; then those about `CompressedSet` and `Documents`.

What could follow is the iterator of `BasicSet` with `LazyAndNotSet`, once a
component uses them, and the decimal format of ids in `ZUtil`, which `Misread`
of `Engine` stands for.
