------------------------------ MODULE MCSparseSet ------------------------------
(* SparseSet on small instances. *)
EXTENDS SparseSet
================================================================================
