------------------------------ MODULE MCDocuments ------------------------------
(***************************************************************************)
(* Documents with bytes of 3 bits: a varint's byte has 2, odd bytes are    *)
(* letters, and the second bit tells their case.                           *)
(***************************************************************************)
EXTENDS Documents

MCByte == 0..7
MCAlnum == {3, 7}

Texts(S, n) == UNION {[1..m -> S] : m \in 0..n}
Nodes(F, T) == F \X T

(* Long texts in one node, several nodes with short texts, the same field  *)
(* twice, an empty value, a root with another name or none.                *)
MCRequest ==
    [root : {"document"},
     nodes : {<<n>> : n \in Nodes({<<3>>}, Texts({0, 3}, 7) \cup Texts({0, 1, 7}, 4))}
             \cup {<<>>}
             \cup [1..2 -> Nodes({<<3>>, <<7, 3>>}, {<<>>, <<3, 7, 1>>, <<3, 0, 5, 7>>, <<2, 3>>})]]
    \cup [root : {"none", "other"}, nodes : {<<>>}]
================================================================================
