------------------------------ MODULE EngineSearch ------------------------------
(***************************************************************************)
(* Engine::search above the iterators of LazySets: it takes the documents  *)
(* of the query one by one with nextDoc, skips those of the pages before   *)
(* the one asked for, and stops at its end.                                *)
(*                                                                         *)
(* With NoPage nobody searches, and the iterator is called in any order,   *)
(* as LazyAndSet's other callers may.                                      *)
(***************************************************************************)
EXTENDS LazySets

CONSTANTS
    Pages,        \* the pages asked for: records of a start and an offset
    Unsigned      \* the number of values of unsigned int: its arithmetic wraps

ASSUME UnsignedAssumption == Unsigned \in Nat \ {0}
ASSUME PagesAssumption == \A p \in Pages : {p.start, p.offset} \subseteq 0..(Unsigned - 1)

NoPage == [start |-> 0, offset |-> 0, none |-> TRUE]

VARIABLES
    page,            \* the parameters of search, or NoPage
    passed,          \* the i of search: the documents it skipped or counted
    documentIdList,  \* what it returns
    searchPc         \* where it is in its loop

searching == <<page, passed, documentIdList, searchPc>>
searchVars == <<vars, searching>>

SearchInit ==
    /\ Init
    /\ page \in Pages \cup {NoPage}
    /\ passed = 0
    /\ documentIdList = <<>>
    /\ searchPc = IF page = NoPage THEN "none" ELSE "next"

skipped == (page.start * page.offset) % Unsigned

(* while (it->nextDoc() != NO_MORE_DOCS)                                   *)
Fetch ==
    /\ searchPc = "next"
    /\ AndCall("nextDoc", 0)
    /\ searchPc' = "fetched"
    /\ UNCHANGED <<page, passed, documentIdList>>

(* Mutant: the page is one document too long.                              *)
OnPage_OneMore == passed - skipped <= page.offset

OnPage == passed - skipped < page.offset

(* nextDoc has returned.  A document before the page is counted; one on    *)
(* the page is taken; the first one after it ends the search.  Without an  *)
(* offset every document is taken.                                         *)
Fetched ==
    /\ searchPc = "fetched"
    /\ request = NoRequest
    /\ \/ /\ lastReturn = NO_MORE_DOCS
          /\ searchPc' = "returned"
          /\ UNCHANGED <<passed, documentIdList>>
       \/ /\ lastReturn # NO_MORE_DOCS /\ passed < skipped
          /\ passed' = passed + 1
          /\ searchPc' = "next"
          /\ UNCHANGED documentIdList
       \/ /\ lastReturn # NO_MORE_DOCS /\ passed >= skipped
          /\ page.offset > 0 /\ OnPage
          /\ passed' = passed + 1
          /\ documentIdList' = Append(documentIdList, lastReturn)
          /\ searchPc' = "next"
       \/ /\ lastReturn # NO_MORE_DOCS /\ passed >= skipped
          /\ page.offset > 0 /\ ~OnPage
          /\ searchPc' = "returned"
          /\ UNCHANGED <<passed, documentIdList>>
       \/ /\ lastReturn # NO_MORE_DOCS /\ passed >= skipped
          /\ page.offset = 0
          /\ documentIdList' = Append(documentIdList, lastReturn)
          /\ searchPc' = "next"
          /\ UNCHANGED passed
    /\ UNCHANGED <<vars, page>>

SearchNext ==
    \/ searchPc = "none" /\ Next /\ UNCHANGED searching
    \/ Fetch
    \/ searchPc = "fetched" /\ IteratorStep /\ UNCHANGED searching
    \/ Fetched

(* A call of an iterator runs until it returns, and so does search; nobody *)
(* has to call.                                                            *)
SearchSpec ==
    /\ SearchInit /\ [][SearchNext]_searchVars
    /\ WF_searchVars(IteratorStep /\ UNCHANGED searching)
    /\ WF_searchVars(Fetch \/ Fetched)

--------------------------------------------------------------------------------
(* search returns the documents of the query whose place in the order of   *)
(* the ids is on the page, in that order and each once; with offset 0 all  *)
(* of them.  It does so as long as start * offset is an unsigned int:      *)
(* a larger product wraps, and an earlier page is returned.                *)
PageExact ==
    searchPc = "returned" /\ page.start * page.offset < Unsigned =>
        LET before(d) == Cardinality({e \in Query : e < d})
            first == page.start * page.offset
        IN /\ \A k \in 2..Len(documentIdList) : documentIdList[k - 1] < documentIdList[k]
           /\ {documentIdList[k] : k \in 1..Len(documentIdList)} =
                  {d \in Query : page.offset = 0 \/ before(d) \in first..(first + page.offset - 1)}

(* Every search comes to an end: its loop stops after the last document or *)
(* behind the page, and so does every call of an iterator below it.        *)
SearchReturns ==
    /\ searchPc = "next" ~> searchPc = "returned"
    /\ request # NoRequest ~> request = NoRequest
================================================================================
