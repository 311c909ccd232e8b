------------------------------- MODULE SparseSet -------------------------------
(***************************************************************************)
(* The set of word ids of a document (src/SparseSet.hpp): two arrays that  *)
(* point at each other, of which only the first n entries of dense count.  *)
(* clear and remove leave stale entries in both arrays.                    *)
(***************************************************************************)
EXTENDS Naturals, FiniteSets

CONSTANTS
    MaxElem,      \* bound: the largest word id
    InitialSizes  \* the sizes a set is constructed with

ASSUME MaxElemAssumption == MaxElem \in Nat
ASSUME SizeAssumption == InitialSizes \subseteq Nat \ {0}

Elem == 0..MaxElem

VARIABLES n, currentSize, dense, sparse

vars == <<n, currentSize, dense, sparse>>

Index == 0..(currentSize - 1)
Members == {dense[k] : k \in 0..(n - 1)}

Init ==
    /\ n = 0
    /\ currentSize \in InitialSizes
    /\ dense = [k \in Index |-> 0]
    /\ sparse = [k \in Index |-> 0]

--------------------------------------------------------------------------------

(* Mutant: sparse is believed without a look at dense.                     *)
ismember_NoCrossCheck(i) == i < currentSize /\ sparse[i] < n

ismember(i) == i < currentSize /\ sparse[i] < n /\ dense[sparse[i]] = i

(* Mutant: the old size is doubled, however large the element is.          *)
growBuffers_OldSize(i) == currentSize * 2

(* The new length, for an element the buffers have no place for.           *)
growBuffers(i) == (IF currentSize >= i THEN currentSize ELSE i) * 2

(* Mutant: the buffers are allocated anew.                                 *)
resize_Discards(v, len) == [k \in 0..(len - 1) |-> 0]

(* vector::resize keeps the entries and value-initialises the new ones.    *)
resize(v, len) == [k \in 0..(len - 1) |-> IF k < currentSize THEN v[k] ELSE 0]

NewSize(i) == IF i >= currentSize THEN growBuffers(i) ELSE currentSize

(* insert(i) of an element that is not a member: insert_new.               *)
insert(i) ==
    /\ ~ismember(i)
    /\ currentSize' = NewSize(i)
    /\ dense' = [resize(dense, NewSize(i)) EXCEPT ![n] = i]
    /\ sparse' = [resize(sparse, NewSize(i)) EXCEPT ![i] = n]
    /\ n' = n + 1

(* Mutant: the element that moves into the gap keeps its old index.        *)
Relinked_Stale(i) == sparse

(* The last element of dense takes the place of the removed one.           *)
Relinked(i) == [sparse EXCEPT ![dense[n - 1]] = sparse[i]]

remove(i) ==
    /\ ismember(i)
    /\ dense' = [dense EXCEPT ![sparse[i]] = dense[n - 1]]
    /\ sparse' = Relinked(i)
    /\ n' = n - 1
    /\ UNCHANGED currentSize

clear ==
    /\ n' = 0
    /\ UNCHANGED <<currentSize, dense, sparse>>

Next == (\E i \in Elem : insert(i) \/ remove(i)) \/ clear

Spec == Init /\ [][Next]_vars

--------------------------------------------------------------------------------
(* Type invariant: the arrays have currentSize entries, and n of them are  *)
(* in use.                                                                 *)
TypeOK ==
    /\ currentSize \in Nat \ {0}
    /\ n \in 0..currentSize
    /\ dense \in [Index -> Nat]
    /\ sparse \in [Index -> Nat]

(* The two arrays point at each other on the entries in use, whatever the  *)
(* stale ones hold: so each member is there once.                          *)
Linked == \A k \in 0..(n - 1) : dense[k] \in Index /\ sparse[dense[k]] = k

(* ismember tells exactly the members from the stale entries that clear,   *)
(* remove and growing leave behind.                                        *)
MembershipExact == \A i \in Elem : ismember(i) <=> i \in Members

(* An element that is inserted always finds a free entry in dense and its  *)
(* own entry in sparse: neither write is out of bounds.                    *)
InsertInBounds == \A i \in Elem : ~ismember(i) => n < NewSize(i) /\ i < NewSize(i)

(* The iterator, begin() to end(), visits every member once.               *)
IteratesOnce == Cardinality(Members) = n

(* It is a set: insert, remove and clear do to the members what they say.  *)
Set == INSTANCE FiniteIntSet WITH content <- Members
ImplementsSet == Set!Spec
================================================================================
