------------------------------ MODULE PrefixIndex ------------------------------
(***************************************************************************)
(* What an inverted index that is written in batches promises its readers: *)
(* the visible postings are always those of a prefix of the documents that *)
(* were added, each of them with all of its words, and the prefix only     *)
(* grows.  InvertedIndexSimpleBatch implements this specification.         *)
(***************************************************************************)
EXTENDS Naturals

CONSTANTS
    Word,      \* the word ids
    MaxDocs    \* bound: the number of documents a behaviour adds

DocId == 1..MaxDocs

VARIABLES
    nextDocId,  \* the document id the next added document gets
    wordsOf,    \* the words of each added document
    visible     \* the postings <<word, document>> a reader finds

vars == <<nextDocId, wordsOf, visible>>

AllPostings == {p \in Word \X DocId : p[2] < nextDocId /\ p[1] \in wordsOf[p[2]]}

(* An index opened on what an earlier run left: all of it is visible.      *)
Init ==
    /\ nextDocId \in 1..(MaxDocs + 1)
    /\ wordsOf \in [DocId -> SUBSET Word]
    /\ visible = AllPostings

Add(ws) ==
    /\ nextDocId \in DocId
    /\ wordsOf' = [wordsOf EXCEPT ![nextDocId] = ws]
    /\ nextDocId' = nextDocId + 1
    /\ UNCHANGED visible

(* More of the added postings become visible, and with a posting every     *)
(* posting of the same and of all earlier documents.                       *)
Publish ==
    /\ visible \subseteq visible'
    /\ visible' \subseteq AllPostings
    /\ \A p \in visible', q \in AllPostings : q[2] <= p[2] => q \in visible'
    /\ UNCHANGED <<nextDocId, wordsOf>>

Next == (\E ws \in SUBSET Word : Add(ws)) \/ Publish

Spec == Init /\ [][Next]_vars
================================================================================
