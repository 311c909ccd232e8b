------------------------------ MODULE DocIterator ------------------------------
(***************************************************************************)
(* What Set::Iterator promises (varint/Set.h): nextDoc moves to the next   *)
(* document of the set, Advance to the first one beyond the current that   *)
(* is at least the target, and past the last document both answer          *)
(* NO_MORE_DOCS for ever.  Document ids start at 1; 0 is before the first. *)
(***************************************************************************)
EXTENDS Integers

CONSTANT NO_MORE_DOCS

VARIABLES
    docs,     \* the documents of the set
    doc,      \* where the iterator stands
    request   \* the call it has not answered yet

vars == <<docs, doc, request>>

NoRequest == [op |-> "none", target |-> 0]
Request == [op : {"nextDoc", "Advance"}, target : Nat]

First(S) == CHOOSE d \in S \cup {NO_MORE_DOCS} : \A e \in S \cup {NO_MORE_DOCS} : d <= e

Beyond(S, d) == First({e \in S : e > d})
BeyondFrom(S, d, target) == First({e \in S : e > d /\ e >= target})

Answer(S, d, r) == IF r.op = "nextDoc" THEN Beyond(S, d) ELSE BeyondFrom(S, d, r.target)

(* An iterator over nothing may stand at the end from the start.           *)
Init ==
    /\ doc = 0 \/ (docs = {} /\ doc = NO_MORE_DOCS)
    /\ request = NoRequest

(* The set is filled before its first document is asked for.               *)
Fill ==
    /\ doc = 0 /\ request = NoRequest
    /\ docs \subseteq docs'
    /\ doc' = 0 \/ (docs' = {} /\ doc' = NO_MORE_DOCS)
    /\ UNCHANGED request

Call ==
    /\ request = NoRequest
    /\ request' \in Request
    /\ UNCHANGED <<docs, doc>>

Return ==
    /\ request # NoRequest
    /\ doc' = Answer(docs, doc, request)
    /\ request' = NoRequest
    /\ UNCHANGED docs

Spec == Init /\ [][Fill \/ Call \/ Return]_vars
================================================================================
