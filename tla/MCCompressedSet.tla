---------------------------- MODULE MCCompressedSet ----------------------------
(* CompressedSet with blocks of two documents. *)
EXTENDS CompressedSet
================================================================================
