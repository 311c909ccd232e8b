----------------------------- MODULE CompressedSet -----------------------------
(***************************************************************************)
(* The posting list of a word (varint/CompressedSet.cpp): documents in     *)
(* increasing order, in compressed blocks of BlockSize and one last block  *)
(* that is not compressed, with the last document of each compressed block *)
(* kept beside them to find the block of a document.                       *)
(*                                                                         *)
(* A set is filled, written to the store and read back in any order, and   *)
(* then iterated.  Indices count from 0, as in the code.                   *)
(***************************************************************************)
EXTENDS Integers, Sequences, FiniteSets

CONSTANTS
    BlockSize,  \* DEFAULT_BATCH_SIZE
    MaxDoc      \* bound: the largest document id

ASSUME BlockSizeAssumption == BlockSize \in Nat \ {0}
ASSUME MaxDocAssumption == MaxDoc \in Nat

Doc == 1..MaxDoc
NO_MORE_DOCS == MaxDoc + 1

VARIABLES
    current,   \* currentNoCompBlock, sizeOfCurrentNoCompBlock entries of it
    base,      \* baseListForOnlyCompBlocks
    chunks,    \* sequenceOfCompBlocks
    total,     \* totalDocIdNum
    reading,   \* an iterator has been created
    cursor, last, decomp,  \* Iterator: cursor, lastAccessedDocId, iterDecompBlock
    request,   \* the call the iterator is in
    added      \* history: the documents added

bitmap == <<current, base, chunks, total>>
iter == <<cursor, last, decomp>>
vars == <<bitmap, reading, iter, request, added>>

At(s, k) == s[k + 1]
LastOf(s) == s[Len(s)]

(* The codec keeps the differences of the documents of a block.            *)
Compress(b) == [k \in 1..Len(b) |-> IF k = 1 THEN b[1] ELSE b[k] - b[k - 1]]
Uncompress(c) ==
    LET sum[k \in 1..Len(c)] == IF k = 1 THEN c[1] ELSE sum[k - 1] + c[k]
    IN sum

(* Mutant: the upper half starts after the middle even if it fits.         *)
binarySearch_Skips(s, start, end, t) ==
    LET search[r \in (start..end) \X (start..end)] ==
            LET lo == r[1]
                hi == r[2]
                mid == (lo + hi) \div 2
            IN IF lo >= hi THEN (IF At(s, lo) >= t THEN lo ELSE -1)
               ELSE IF At(s, mid) <= t THEN search[<<mid + 1, hi>>] ELSE search[<<lo, mid>>]
    IN search[<<start, end>>]

(* The index of the first entry from start to end that is not less than t, *)
(* or -1.                                                                  *)
binarySearch(s, start, end, t) ==
    LET search[r \in (start..end) \X (start..end)] ==
            LET lo == r[1]
                hi == r[2]
                mid == (lo + hi) \div 2
            IN IF lo >= hi THEN (IF At(s, lo) >= t THEN lo ELSE -1)
               ELSE IF At(s, mid) < t THEN search[<<mid + 1, hi>>]
               ELSE IF At(s, mid) = t THEN mid ELSE search[<<lo, mid>>]
    IN search[<<start, end>>]

Init ==
    /\ current = <<>> /\ base = <<>> /\ chunks = <<>> /\ total = 0
    /\ reading = FALSE
    /\ cursor = -1
    /\ last = NO_MORE_DOCS   \* (unsigned) -1
    /\ decomp = [k \in 1..BlockSize |-> 0]
    /\ request = [op |-> "none", target |-> 0]
    /\ added = {}

--------------------------------------------------------------------------------
(* Filling.  The callers add in increasing order: SortedBitmaps.           *)

Filling(D) ==
    /\ ~reading
    /\ \A d \in D, e \in added : e < d
    /\ added' = added \cup D
    /\ UNCHANGED <<reading, iter, request>>

addDoc(d) ==
    /\ Filling({d})
    /\ \/ /\ Len(current) # BlockSize
          /\ current' = Append(current, d)
          /\ UNCHANGED <<base, chunks>>
       \/ /\ Len(current) = BlockSize
          /\ base' = Append(base, LastOf(current))
          /\ chunks' = Append(chunks, Compress(current))
          /\ current' = <<d>>
    /\ total' = total + 1

(* The blocks that fill up when s, longer than a block, is cut; the last   *)
(* block is left over, even if it is full.                                 *)
FullBlocks(s) == (Len(s) - 1) \div BlockSize
Block(s, k) == SubSeq(s, k * BlockSize + 1, (k + 1) * BlockSize)
LeftOver(s) == SubSeq(s, FullBlocks(s) * BlockSize + 1, Len(s))

Sorted(D) == [k \in 1..Cardinality(D) |-> CHOOSE d \in D : Cardinality({e \in D : e <= d}) = k]

(* addDocs(docids): the block being filled is completed, whole blocks are  *)
(* compressed from the array, the rest is the new block.                   *)
addDocs(D) ==
    LET s == current \o Sorted(D)
        full == [k \in 1..FullBlocks(s) |-> Block(s, k - 1)]
    IN /\ Filling(D)
       /\ base' = base \o [k \in DOMAIN full |-> LastOf(full[k])]
       /\ chunks' = chunks \o [k \in DOMAIN full |-> Compress(full[k])]
       /\ current' = LeftOver(s)
       /\ total' = total + Cardinality(D)

(* write: a small set has no header but its size, one of at most a block   *)
(* has no list of compressed blocks.                                       *)
write ==
    <<total>>
    \o (IF total >= BlockSize THEN <<Len(current)>> ELSE <<>>)
    \o current
    \o (IF total > BlockSize THEN <<Len(base)>> \o base \o <<Len(chunks)>> \o chunks ELSE <<>>)

(* Mutant: a set of exactly one block is read as a small one.              *)
SizeAt_OffByOne(n) == IF n <= BlockSize THEN 1 ELSE 2

(* Where read finds sizeOfCurrentNoCompBlock: totalDocIdNum itself, or the *)
(* entry after it.                                                         *)
SizeAt(n) == IF n < BlockSize THEN 1 ELSE 2

(* read, into the set that createSparseSet has just made: the entries of   *)
(* the stream in the order in which write put them.                        *)
read(in) ==
    LET n == in[1]
        at == SizeAt(n)
        baseAt == at + in[at] + 1        \* the size of the base list
        chunksAt == baseAt + in[baseAt] + 1
    IN /\ total' = n
       /\ current' = IF n = 0 THEN <<>> ELSE SubSeq(in, at + 1, at + in[at])
       /\ base' = IF n <= BlockSize THEN <<>> ELSE SubSeq(in, baseAt + 1, baseAt + in[baseAt])
       /\ chunks' = IF n <= BlockSize THEN <<>>
                    ELSE SubSeq(in, chunksAt + 1, chunksAt + in[chunksAt])

Store ==
    /\ ~reading
    /\ read(write)
    /\ UNCHANGED <<reading, iter, request, added>>

--------------------------------------------------------------------------------
(* find(target)                                                            *)
find(t) ==
    /\ total > 0
    /\ LET inCurrent == base = <<>> \/ t > LastOf(base)
           b == binarySearch(base, 0, Len(base) - 1, t)
       IN IF current # <<>> /\ t > LastOf(current) THEN FALSE
          ELSE IF current # <<>> /\ inCurrent THEN \E k \in 1..Len(current) : current[k] = t
          ELSE /\ base # <<>> /\ b >= 0
               /\ \E k \in 1..BlockSize : Uncompress(At(chunks, b))[k] = t

--------------------------------------------------------------------------------
(* The iterator.                                                           *)

iterator ==
    /\ ~reading
    /\ reading' = TRUE
    /\ UNCHANGED <<bitmap, iter, request, added>>

Iter == INSTANCE DocIterator WITH docs <- added, 
            doc <- IF cursor = -1 /\ ~(reading /\ total = 0) THEN 0 ELSE last
NoRequest == Iter!NoRequest

(* nextDoc is not called past the end (LazySets!NeverPastEnd).             *)
Call(op, t) ==
    /\ reading
    /\ request = NoRequest
    /\ op = "nextDoc" => cursor # total
    /\ request' = [op |-> op, target |-> t]
    /\ UNCHANGED <<bitmap, reading, iter, added>>

Called(op) == request.op = op
BlockIndex(c) == c \div BlockSize
Offset(c) == c % BlockSize

Return(c, d) ==
    /\ cursor' = c
    /\ last' = d
    /\ request' = NoRequest
    /\ UNCHANGED <<bitmap, reading, added>>

(* Both: the cursor is at the last document, or (Advance) past it.  Over   *)
(* nothing Advance leaves the cursor where it is.                          *)
AtEnd ==
    /\ \/ Called("nextDoc") /\ cursor + 1 = total
       \/ Called("Advance") /\ cursor + 1 \in {total, total + 1}
    /\ Return(IF Called("Advance") /\ total = 0 THEN cursor ELSE total, NO_MORE_DOCS)
    /\ UNCHANGED decomp

nextDocInCurrent ==
    /\ Called("nextDoc")
    /\ cursor + 1 < total
    /\ BlockIndex(cursor + 1) = Len(chunks)
    /\ Return(cursor + 1, At(current, Offset(cursor + 1)))
    /\ UNCHANGED decomp

(* Mutant: the iterator is taken to start with its first block at hand.    *)
Entered_NotFirst(c) == c # 0 /\ Offset(c) = 0

(* A block is uncompressed when its first document is reached.             *)
Entered(c) == Offset(c) = 0

nextDocInChunk ==
    /\ Called("nextDoc")
    /\ cursor + 1 < total
    /\ BlockIndex(cursor + 1) # Len(chunks)
    /\ decomp' = IF Entered(cursor + 1)
                 THEN Uncompress(At(chunks, BlockIndex(cursor + 1))) ELSE decomp
    /\ Return(cursor + 1, At(decomp', Offset(cursor + 1)))

(* Mutant: Advance may stay where it is.                                   *)
Target_Stays == request.target

(* Advance looks beyond the current document.                              *)
Target == IF cursor # -1 /\ request.target <= last THEN last + 1 ELSE request.target

Advancing == Called("Advance") /\ cursor + 1 < total

InCurrent ==
    current # <<>> /\ (BlockIndex(cursor + 1) = Len(chunks) \/ (base # <<>> /\ Target > LastOf(base)))

AdvanceInCurrent ==
    /\ Advancing
    /\ InCurrent
    /\ LET k == binarySearch(current, 0, Len(current) - 1, Target)
       IN IF k >= 0 THEN Return(Len(chunks) * BlockSize + k, At(current, k))
          ELSE Return(total, NO_MORE_DOCS)
    /\ UNCHANGED decomp

(* The target is in the compressed block of the next document, which has   *)
(* been uncompressed already.                                              *)
InChunk == Offset(cursor + 1) # 0 /\ Target <= At(base, BlockIndex(cursor + 1))

AdvanceInChunk ==
    /\ Advancing
    /\ ~InCurrent
    /\ InChunk
    /\ \E k \in Offset(cursor + 1)..(BlockSize - 1) :
          /\ At(decomp, k) >= Target
          /\ \A j \in Offset(cursor + 1)..(k - 1) : At(decomp, j) < Target
          /\ Return(BlockIndex(cursor + 1) * BlockSize + k, At(decomp, k))
    /\ UNCHANGED decomp

IsUncompressed(b) == b = BlockIndex(cursor + 1) /\ Offset(cursor + 1) # 0

(* advanceToTargetInTheFollowingCompBlocks.  There is always a last block  *)
(* that is not compressed, so one of the three cases applies.              *)
AdvanceToChunk ==
    /\ Advancing
    /\ ~InCurrent
    /\ ~InChunk
    /\ LET b == binarySearch(base, BlockIndex(cursor + 1), Len(base) - 1, Target)
           k == binarySearch(decomp', 0, BlockSize - 1, Target)
       IN /\ decomp' = IF IsUncompressed(b) THEN decomp ELSE Uncompress(At(chunks, b))
          /\ Return(b * BlockSize + k, At(decomp', k))

Next ==
    \/ \E d \in Doc : addDoc(d)
    \/ \E D \in (SUBSET Doc) \ {{}} : addDocs(D)
    \/ Store
    \/ iterator
    \/ Call("nextDoc", 0) \/ (\E t \in Doc : Call("Advance", t))
    \/ AtEnd \/ nextDocInCurrent \/ nextDocInChunk
    \/ AdvanceInCurrent \/ AdvanceInChunk \/ AdvanceToChunk

Spec == Init /\ [][Next]_vars

--------------------------------------------------------------------------------
(* The documents added are the documents of the blocks, whatever mixture   *)
(* of addDoc, addDocs and the store they went through: full blocks, each   *)
(* with its last document in the base list, then the last block, which is  *)
(* never empty when there are others (Advance relies on it).               *)
Canonical ==
    /\ Len(base) = Len(chunks)
    /\ total = Cardinality(added)
    /\ total = BlockSize * Len(chunks) + Len(current)
    /\ Len(current) <= BlockSize
    /\ chunks # <<>> => current # <<>>
    /\ \A k \in 0..(Len(chunks) - 1) :
          At(base, k) = LastOf(Uncompress(At(chunks, k))) /\ Len(At(chunks, k)) = BlockSize
    /\ LET doc(k) == IF BlockIndex(k) = Len(chunks) THEN At(current, Offset(k))
                     ELSE At(Uncompress(At(chunks, BlockIndex(k))), Offset(k))
       IN /\ added = {doc(k) : k \in 0..(total - 1)}
          /\ \A k \in 1..(total - 1) : doc(k - 1) < doc(k)

(* find tells the members: flush must not add a document twice.            *)
FindExact == \A t \in Doc : find(t) <=> t \in added

(* The block an iterator stands in is the one it has uncompressed, however *)
(* nextDoc and Advance brought it there.                                   *)
DecompFresh ==
    cursor >= 0 /\ BlockIndex(cursor) < Len(chunks) =>
        decomp = Uncompress(At(chunks, BlockIndex(cursor)))

(* nextDoc and Advance return the documents added, in order, across block  *)
(* boundaries and to the end.                                              *)
ImplementsDocIterator == Iter!Spec
================================================================================
