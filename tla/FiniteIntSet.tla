------------------------------ MODULE FiniteIntSet ------------------------------
(***************************************************************************)
(* What a set of integers promises: the abstract specification of the      *)
(* program's set implementations.                                          *)
(***************************************************************************)
CONSTANT Elem

VARIABLE content

Init == content = {}

Insert(i) == content' = content \cup {i}
Remove(i) == content' = content \ {i}
Clear == content' = {}

Next == (\E i \in Elem : Insert(i) \/ Remove(i)) \/ Clear

Spec == Init /\ [][Next]_content
================================================================================
