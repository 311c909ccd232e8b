----------------------------- MODULE MCSimpleBatch -----------------------------
(***************************************************************************)
(* InvertedIndexSimpleBatch on small instances.  The words are only        *)
(* compared for equality, so they are interchangeable.                     *)
(***************************************************************************)
EXTENDS InvertedIndexSimpleBatch, TLC

Symmetry == Permutations(Word)
================================================================================
