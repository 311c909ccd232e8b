-------------------------------- MODULE LazySets --------------------------------
(***************************************************************************)
(* The iterators Engine::search runs a query with: a LazyAndSet over the   *)
(* tokens of a LazyOrSet over the fields (varint/LazyAndSet.cpp,           *)
(* LazyOrSet.cpp).  The sets of the postings below them are given by what  *)
(* their iterators promise (DocIterator), except that nextDoc of a         *)
(* CompressedSet past its end reads beyond its block and may answer        *)
(* anything.                                                               *)
(*                                                                         *)
(* One step is one call of a postings iterator, with the heap work after   *)
(* it, or one round of the loop over the tokens.                           *)
(***************************************************************************)
EXTENDS Integers, Sequences, FiniteSets

CONSTANTS
    MaxDoc,   \* bound: the largest document id
    Queries   \* for each token of a query, the sets of documents the fields have for it

NO_MORE_DOCS == MaxDoc + 1
Doc == 1..MaxDoc
Answers == Doc \cup {NO_MORE_DOCS}

ASSUME MaxDocAssumption == MaxDoc \in Nat
ASSUME QueriesAssumption == Queries \subseteq Seq(Seq(SUBSET Doc))

VARIABLES
    sets,        \* the query
    pos,         \* where the iterator of each of them stands
    heap,        \* LazyOrSetIterator::_heap: the unfinished ones
    itemDoc,     \* Item::doc
    curDoc,      \* LazyOrSetIterator::_curDoc
    orRequest,   \* the call each LazyOrSetIterator is in
    lastReturn,  \* LazyAndSetIterator::lastReturn
    request,     \* the call the LazyAndSetIterator is in
    pc,          \* where it is in it
    target, i, skip

leaves == <<sets, pos>>
orVars == <<heap, itemDoc, curDoc, orRequest>>
andVars == <<lastReturn, request, pc, target, i, skip>>
vars == <<leaves, orVars, andVars>>

Tokens == 1..Len(sets)
Fields(t) == 1..Len(sets[t])

(* What the query means: the intersection over its tokens of the union     *)
(* over the fields.  A query without tokens has no documents.              *)
Query == {d \in Doc : Tokens # {} /\ \A t \in Tokens : \E f \in Fields(t) : d \in sets[t][f]}

Search == INSTANCE DocIterator WITH docs <- Query, doc <- lastReturn
NoRequest == Search!NoRequest

(* The constructors.                                                       *)
Init ==
    /\ sets \in Queries
    /\ pos = [t \in Tokens |-> [f \in Fields(t) |-> 0]]
    /\ heap = [t \in Tokens |-> [f \in Fields(t) |-> f]]
    /\ itemDoc = [t \in Tokens |-> [f \in Fields(t) |-> 0]]
    /\ curDoc = [t \in Tokens |-> IF Fields(t) = {} THEN NO_MORE_DOCS ELSE 0]
    /\ orRequest = [t \in Tokens |-> NoRequest]
    /\ lastReturn = IF Tokens = {} THEN NO_MORE_DOCS ELSE 0
    /\ request = NoRequest
    /\ pc = "idle"
    /\ target = 0 /\ i = 1 /\ skip = 1

--------------------------------------------------------------------------------
(* LazyOrSetIterator.  The heap holds the fields of the token t, those     *)
(* with smaller documents above: the children of h[k] are h[2k], h[2k+1].  *)

(* heapAdjust: the child that moves up to place k while the root sinks.    *)
Rising(h, d, k) ==
    LET l == 2 * k
        r == l + 1
        c == IF r <= Len(h) /\ d[h[r]] <= d[h[l]] THEN r ELSE l
    IN IF l > Len(h) \/ d[h[1]] <= d[h[c]] THEN 0 ELSE c

(* Mutant: only the children of the root are looked at.                    *)
heapAdjust_OneLevel(h, d) ==
    LET c == Rising(h, d, 1)
    IN IF c = 0 THEN h ELSE [h EXCEPT ![1] = h[c], ![c] = h[1]]

(* The places the root passes through.                                     *)
SinkingPath(h, d) ==
    CHOOSE P \in SUBSET (1..Len(h)) : \A k \in 1..Len(h) :
        k \in P <=> k = 1 \/ (k \div 2 \in P /\ Rising(h, d, k \div 2) = k)

heapAdjust(h, d) ==
    LET path == SinkingPath(h, d)
    IN [k \in 1..Len(h) |->
           IF k \notin path THEN h[k]
           ELSE IF Rising(h, d, k) = 0 THEN h[1] ELSE h[Rising(h, d, k)]]

(* Mutant: the finished iterator stays.                                    *)
heapRemoveRoot_Keeps(h, d) == IF Len(h) = 1 THEN <<>> ELSE heapAdjust([h EXCEPT ![1] = h[Len(h)], ![Len(h)] = h[1]], d)

(* heapRemoveRoot: the last item becomes the root.                         *)
heapRemoveRoot(h, d) ==
    IF Len(h) = 1 THEN <<>>
    ELSE heapAdjust([k \in 1..(Len(h) - 1) |-> IF k = 1 THEN h[Len(h)] ELSE h[k]], d)

(* What a postings iterator may answer.                                    *)
Leaf(S, d, r) ==
    IF d = NO_MORE_DOCS /\ r.op = "nextDoc" THEN Answers ELSE {Search!Answer(S, d, r)}

(* The loop goes on until the root is beyond the current document, or at   *)
(* the target.                                                             *)
Reached(t, top) ==
    IF orRequest[t].op = "nextDoc" THEN top > curDoc[t] ELSE top >= orRequest[t].target

(* One round of the loop of nextDoc or Advance.                            *)
OrRound(t) ==
    /\ orRequest[t] # NoRequest
    /\ curDoc[t] # NO_MORE_DOCS
    /\ LET f == Head(heap[t])
       IN \E d \in Leaf(sets[t][f], pos[t][f], orRequest[t]) :
          \E docs \in {[itemDoc[t] EXCEPT ![f] = IF d = NO_MORE_DOCS THEN @ ELSE d]} :
          \E h \in {IF d = NO_MORE_DOCS THEN heapRemoveRoot(heap[t], docs)
                   ELSE heapAdjust(heap[t], docs)} :
               /\ pos' = [pos EXCEPT ![t][f] = d]
               /\ itemDoc' = [itemDoc EXCEPT ![t] = docs]
               /\ heap' = [heap EXCEPT ![t] = h]
               /\ \/ /\ h = <<>>
                     /\ curDoc' = [curDoc EXCEPT ![t] = NO_MORE_DOCS]
                     /\ orRequest' = [orRequest EXCEPT ![t] = NoRequest]
                  \/ /\ h # <<>>
                     /\ Reached(t, docs[Head(h)])
                     /\ curDoc' = [curDoc EXCEPT ![t] = docs[Head(h)]]
                     /\ orRequest' = [orRequest EXCEPT ![t] = NoRequest]
                  \/ /\ h # <<>>
                     /\ ~Reached(t, docs[Head(h)])
                     /\ UNCHANGED <<curDoc, orRequest>>
    /\ UNCHANGED <<sets, andVars>>

(* The early return at the end.                                            *)
OrFinished(t) ==
    /\ orRequest[t] # NoRequest
    /\ curDoc[t] = NO_MORE_DOCS
    /\ orRequest' = [orRequest EXCEPT ![t] = NoRequest]
    /\ UNCHANGED <<leaves, heap, itemDoc, curDoc, andVars>>

(* Advance looks beyond the current document even if the target does not.  *)
CallOr(t, op, d) ==
    orRequest' = [orRequest EXCEPT ![t] =
        [op |-> op,
         target |-> IF op = "Advance" /\ d <= curDoc[t] THEN curDoc[t] + 1 ELSE d]]

--------------------------------------------------------------------------------
(* LazyAndSetIterator.                                                     *)

(* nextDoc or Advance(d) is called: the first token leads.                 *)
AndCall(op, d) ==
    /\ request = NoRequest
    /\ request' = [op |-> op, target |-> d]
    /\ IF lastReturn = NO_MORE_DOCS
       THEN pc' = "finished" /\ UNCHANGED orRequest
       ELSE pc' = "lead" /\ CallOr(1, op, d)
    /\ UNCHANGED <<leaves, heap, itemDoc, curDoc, lastReturn, target, i, skip>>

AndReturn(d) ==
    /\ lastReturn' = d
    /\ request' = NoRequest
    /\ pc' = "idle"

AndFinished ==
    /\ pc = "finished"
    /\ AndReturn(NO_MORE_DOCS)
    /\ UNCHANGED <<leaves, orVars, target, i, skip>>

(* The first iterator has answered.                                        *)
AndLead ==
    /\ pc = "lead"
    /\ orRequest[1] = NoRequest
    /\ target' = curDoc[1]
    /\ i' = 2 /\ skip' = 1
    /\ IF curDoc[1] = NO_MORE_DOCS
       THEN AndReturn(NO_MORE_DOCS)
       ELSE pc' = "loop" /\ UNCHANGED <<lastReturn, request>>
    /\ UNCHANGED <<leaves, orVars>>

(* while (i < size)                                                        *)
AndLoop ==
    /\ pc = "loop"
    /\ \/ /\ i > Len(sets)
          /\ AndReturn(target)
          /\ UNCHANGED <<orRequest, i>>
       \/ /\ i <= Len(sets) /\ i = skip
          /\ i' = i + 1
          /\ UNCHANGED <<orRequest, lastReturn, request, pc>>
       \/ /\ i <= Len(sets) /\ i # skip
          /\ CallOr(i, "Advance", target)
          /\ pc' = "advanced"
          /\ UNCHANGED <<lastReturn, request, i>>
    /\ UNCHANGED <<leaves, heap, itemDoc, curDoc, target, skip>>

(* Mutant: the iterator that overshot is asked again for the same target.  *)
SkipAfter_None(k) == 0

(* The iterator that set the new target is not asked again for it.         *)
SkipAfter(k) == k

(* The iterator of token i has answered.                                   *)
AndAdvanced ==
    /\ pc = "advanced"
    /\ orRequest[i] = NoRequest
    /\ LET d == curDoc[i]
       IN \/ /\ d = NO_MORE_DOCS
             /\ AndReturn(NO_MORE_DOCS)
             /\ UNCHANGED <<target, i, skip>>
          \/ /\ d # NO_MORE_DOCS /\ d > target
             /\ target' = d
             /\ skip' = SkipAfter(i)
             /\ i' = IF i = 1 THEN 2 ELSE 1
             /\ pc' = "loop"
             /\ UNCHANGED <<lastReturn, request>>
          \/ /\ d <= target
             /\ i' = i + 1
             /\ pc' = "loop"
             /\ UNCHANGED <<lastReturn, request, target, skip>>
    /\ UNCHANGED <<leaves, orVars>>

IteratorStep ==
    \/ \E t \in Tokens : OrRound(t) \/ OrFinished(t)
    \/ AndFinished \/ AndLead \/ AndLoop \/ AndAdvanced

Next == AndCall("nextDoc", 0) \/ (\E d \in Doc : AndCall("Advance", d)) \/ IteratorStep

Spec == Init /\ [][Next]_vars

--------------------------------------------------------------------------------
(* The documents search gets are those of the intersection over the tokens *)
(* of the union over the fields: each once, in increasing order, none left *)
(* out, whether it goes on with nextDoc or with Advance.                   *)
ImplementsDocIterator == Search!Spec

(* Between calls the heap of a LazyOrSet is a heap, and its root is at the *)
(* document last returned: the next round may always move the root.        *)
HeapOrdered ==
    \A t \in Tokens :
        /\ \A k \in 2..Len(heap[t]) : itemDoc[t][heap[t][k \div 2]] <= itemDoc[t][heap[t][k]]
        /\ orRequest[t] = NoRequest /\ heap[t] # <<>> => itemDoc[t][Head(heap[t])] = curDoc[t]

(* An iterator of the postings that has come to its end is not called      *)
(* again, for CompressedSet's nextDoc would read past its block: it is in  *)
(* no heap.                                                                *)
NeverPastEnd ==
    \A t \in Tokens : \A k \in 1..Len(heap[t]) : pos[t][heap[t][k]] # NO_MORE_DOCS
================================================================================
