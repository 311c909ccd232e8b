------------------------------- MODULE MCLazySets -------------------------------
(***************************************************************************)
(* LazySets on small queries: three tokens in one field each (the loop     *)
(* that skips), two tokens of which one is in two fields, one token in     *)
(* three and in four fields (a heap of three levels), a token the index    *)
(* does not have, and no token.  With four fields the sets are small.      *)
(* An unsigned int has 4 values, so that for the last page 2 * 2 wraps.    *)
(***************************************************************************)
EXTENDS EngineSearch

Sets(n) == [1..n -> SUBSET Doc]
SmallSets == {D \in SUBSET Doc : Cardinality(D) <= 1} \cup {{1, MaxDoc}}

MCQueries ==
    {<<>>} \cup {<<a>> : a \in Sets(3) \cup [1..4 -> SmallSets]}
    \cup {<<a, b>> : a \in Sets(0), b \in Sets(1)}
    \cup {<<a, b>> : a \in Sets(2), b \in Sets(1)}
    \cup {<<a, b>> : a \in Sets(1), b \in Sets(2)}
    \cup {<<a, b, c>> : a \in Sets(1), b \in Sets(1), c \in Sets(1)}

MCPages == {[start |-> p[1], offset |-> p[2]] : p \in {<<1, 0>>, <<1, 1>>, <<1, 2>>, <<2, 2>>}}
================================================================================
