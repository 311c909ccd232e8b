-------------------------- MODULE MCInvertedIndexBatch --------------------------
(***************************************************************************)
(* InvertedIndexBatch on a small instance: a cache of one bitmap for two   *)
(* words, so that every change of word evicts, and a batch size of the     *)
(* client below and above that of the consumer.                            *)
(***************************************************************************)
EXTENDS InvertedIndexBatch
================================================================================
