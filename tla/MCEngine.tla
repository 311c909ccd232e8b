------------------------------- MODULE MCEngine --------------------------------
(***************************************************************************)
(* Engine on small instances.                                              *)
(***************************************************************************)
EXTENDS Engine, TLC

CONSTANTS f1, f2, t1, t2

(* A field without tokens, a token, two tokens in two fields, and the one  *)
(* token in the other field.                                               *)
MCDocument == {f1 :> {}, f1 :> {t1}, f1 :> {t1} @@ f2 :> {t2}, f2 :> {t1}}
================================================================================
