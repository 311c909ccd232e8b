------------------------------- MODULE Tokenizer -------------------------------
(***************************************************************************)
(* TokenizerImpl (src/TokenizerImpl.hpp), which cuts the value of a field  *)
(* and the text of a query into tokens, one byte at a time.                *)
(*                                                                         *)
(* nextToken looks for words of more than two letters, but counts letters  *)
(* in tokensize, which lives as long as the call: dropping a short word    *)
(* empties m_token and leaves the count.  A call that returns TRUE is      *)
(* followed by the next one, which starts with no token and no count.      *)
(***************************************************************************)
EXTENDS Naturals, Sequences

CONSTANTS
    Byte,      \* the values of a character
    CaseBit,   \* 0x20: the bit that tells a lower case letter from the other
    Alnum      \* the bytes isalnum accepts

ASSUME CaseBitAssumption == CaseBit \in Nat \ {0}
ASSUME AlnumAssumption == Alnum \subseteq Byte /\ Byte \subseteq Nat

VARIABLES
    m_string, m_offset, m_token, tokensize,
    taken      \* history: the tokens of m_string returned so far

tokenizer == <<m_string, m_offset, m_token, tokensize, taken>>

(* c | 0x20                                                                *)
Lower(c) == IF (c \div CaseBit) % 2 = 1 THEN c ELSE c + CaseBit

IsLetter(c) == Lower(c) \in Alnum

(* m_string[m_offset]                                                      *)
Char == m_string[m_offset + 1]

setString(str) ==
    /\ m_string' = str
    /\ m_offset' = 0
    /\ m_token' = <<>>
    /\ tokensize' = 0
    /\ taken' = <<>>

Letter ==
    /\ m_offset < Len(m_string)
    /\ IsLetter(Char)
    /\ m_offset' = m_offset + 1
    /\ m_token' = Append(m_token, Lower(Char))
    /\ tokensize' = tokensize + 1
    /\ UNCHANGED <<m_string, taken>>

(* Mutant: the word is dropped and its letters stay.                       *)
ShortWord_KeepsToken ==
    /\ m_offset < Len(m_string)
    /\ ~IsLetter(Char)
    /\ tokensize <= 2
    /\ m_offset' = m_offset + 1
    /\ UNCHANGED <<m_string, m_token, tokensize, taken>>

(* A separator, and not enough letters before it.                          *)
ShortWord ==
    /\ m_offset < Len(m_string)
    /\ ~IsLetter(Char)
    /\ tokensize <= 2
    /\ m_offset' = m_offset + 1
    /\ m_token' = <<>>
    /\ UNCHANGED <<m_string, tokensize, taken>>

(* nextToken returns TRUE, at a separator or at the end; the caller takes  *)
(* the token and calls it again.                                           *)
TokenReady ==
    /\ tokensize > 2
    /\ m_offset < Len(m_string) => ~IsLetter(Char)

ReturnToken ==
    /\ TokenReady
    /\ m_offset' = IF m_offset = Len(m_string) THEN m_offset ELSE m_offset + 1
    /\ taken' = Append(taken, m_token)
    /\ m_token' = <<>>
    /\ tokensize' = 0
    /\ UNCHANGED m_string

(* nextToken returns FALSE.                                                *)
Exhausted == m_offset = Len(m_string) /\ tokensize <= 2

--------------------------------------------------------------------------------
(* What the tokens of a text are, without the loop.                        *)

(* The words of a text: the longest runs of letters, by first and last     *)
(* position, in their order.                                               *)
Runs(str) ==
    {r \in (DOMAIN str) \X (DOMAIN str) :
        /\ r[1] <= r[2]
        /\ \A i \in r[1]..r[2] : IsLetter(str[i])
        /\ r[1] = 1 \/ ~IsLetter(str[r[1] - 1])
        /\ r[2] = Len(str) \/ ~IsLetter(str[r[2] + 1])}

WordAt(str, r) == [i \in 1..(r[2] - r[1] + 1) |-> Lower(str[r[1] + i - 1])]
WordsOfText(str) == {WordAt(str, r) : r \in Runs(str)}
LongWords(str) == {w \in WordsOfText(str) : Len(w) > 2}

(* The first run at or after a position.                                   *)
RunsFrom(str, p) == {r \in Runs(str) : r[1] >= p}
FirstRun(str, p) == CHOOSE r \in RunsFrom(str, p) : \A s \in RunsFrom(str, p) : r[1] <= s[1]

(* The tokens of the words from a position on, given the letters of the    *)
(* words dropped since the last token: a word is a token when it and those *)
(* have more than two letters together.                                    *)
TokensFrom(str) ==
    LET from[q \in (1..(Len(str) + 1)) \X (0..2)] ==
            LET r == FirstRun(str, q[1])
                letters == q[2] + (r[2] - r[1] + 1)
            IN IF RunsFrom(str, q[1]) = {} THEN <<>>
               ELSE IF letters > 2 THEN <<WordAt(str, r)>> \o from[<<r[2] + 1, 0>>]
               ELSE from[<<r[2] + 1, letters>>]
    IN from

TokensOf(str) == TokensFrom(str)[<<1, 0>>]
================================================================================
