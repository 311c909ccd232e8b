------------------------------- MODULE Documents -------------------------------
(***************************************************************************)
(* The life of a document: it is posted as XML and parsed (DocumentImpl),  *)
(* stored in its compact form under a key of its own (DocumentKVStore,     *)
(* NameSpaceKVStore, ZUtil), cut into words (TokenizerImpl), served, and   *)
(* read and cut again when it is deleted (src/Engine.hpp).                 *)
(*                                                                         *)
(* Strings are sequences of bytes.  A varint has 7 bits to a byte in the   *)
(* code and a factor of Base here.  RapidXML is external: a request is     *)
(* what it makes of the posted text.                                       *)
(***************************************************************************)
EXTENDS Tokenizer, SequencesExt

CONSTANTS
    Base,      \* 128: the values of a varint's byte, without its top bit
    Request,   \* what is posted
    Id         \* document and word ids that are in use

ASSUME BaseAssumption == Base \in Nat \ {0, 1} /\ Byte = 0..(2 * Base - 1)

(* What the five bytes of a 32 bit varint can hold, and more than a size   *)
(* is in the code.                                                         *)
VarintLimit == Base * Base * Base * Base * Base
Text == {s \in Seq(Byte) : Len(s) < VarintLimit}

ASSUME RequestAssumption ==
    \A r \in Request :
        /\ r.root \in {"none", "other", "document"}
        /\ r.nodes \in Seq(Text \X Text) /\ Len(r.nodes) < VarintLimit
ASSUME IdAssumption == Id \subseteq Nat

VARIABLES
    pc,
    request,   \* the posted document: its root and its nodes
    entries,   \* DocumentImpl: pairs of a field and a value
    k,         \* the entry that is being cut into tokens
    words,     \* the words found in the entries so far
    docId,
    store,     \* the LevelDB store, from keys to values
    reply,     \* what the client is sent: nodes, "error" or "not found"
    indexed    \* history: the words the document was indexed with

vars == <<pc, request, entries, k, words, docId, store, reply, indexed, tokenizer>>

--------------------------------------------------------------------------------
(* ZUtil: variable length numbers, least significant part first.           *)

(* Mutant: a value of exactly Base is taken for a small one.               *)
EncodeVarint_OffByOne(v) ==
    LET enc[n \in Nat] ==
            IF n <= Base THEN <<n>> ELSE <<(n % Base) + Base>> \o enc[n \div Base]
    IN enc[v]

EncodeVarint(v) ==
    LET enc[n \in Nat] ==
            IF n < Base THEN <<n>> ELSE <<(n % Base) + Base>> \o enc[n \div Base]
    IN enc[v]

PutLengthPrefixedSlice(s) == EncodeVarint(Len(s)) \o s

(* The number of bytes of the varint a string starts with, at most 5; 0 if *)
(* there is none.                                                          *)
VarintSize(s) == SelectInSeq(SubSeq(s, 1, Min({5, Len(s)})), LAMBDA b : b < Base)

VarintValue(s) ==
    LET value[i \in 1..(VarintSize(s) + 1)] ==
            IF i > VarintSize(s) THEN 0 ELSE (s[i] % Base) + Base * value[i + 1]
    IN value[1]

(* What GetLengthPrefixedSlice(&s, &slice) leaves in a slice that was      *)
(* empty, and in s.                                                        *)
Sliced(s) ==
    LET n == VarintSize(s)
        rest == SubSeq(s, n + 1, Len(s))
        len == VarintValue(s)
    IN IF n = 0 THEN [slice |-> <<>>, rest |-> s]
       ELSE IF Len(rest) < len THEN [slice |-> <<>>, rest |-> rest]
       ELSE [slice |-> SubSeq(rest, 1, len), rest |-> SubSeq(rest, len + 1, Len(rest))]

--------------------------------------------------------------------------------
(* DocumentImpl.                                                           *)

writeMini(es) ==
    FoldLeft(LAMBDA s, e : s \o PutLengthPrefixedSlice(e[1]) \o PutLengthPrefixedSlice(e[2]),
             EncodeVarint(Len(es)), es)

ReadEntry(acc, i) ==
    LET key == Sliced(acc.rest)
        value == Sliced(key.rest)
    IN [entries |-> Append(acc.entries, <<key.slice, value.slice>>), rest |-> value.rest]

(* Mutant: the loop ends one entry early.                                  *)
readMini_Short(src) ==
    FoldLeft(ReadEntry,
             [entries |-> <<>>, rest |-> SubSeq(src, VarintSize(src) + 1, Len(src))],
             [i \in 1..(VarintValue(src) - 1) |-> i]).entries

(* The loop goes from 0 to the number of entries, both included.           *)
readMini(src) ==
    FoldLeft(ReadEntry,
             [entries |-> <<>>, rest |-> SubSeq(src, VarintSize(src) + 1, Len(src))],
             [i \in 1..(VarintValue(src) + 1) |-> i]).entries

(* construct accepts a root named document whose nodes all have a value,   *)
(* and throws otherwise.                                                   *)
Valid(r) == r.root = "document" /\ \A i \in DOMAIN r.nodes : r.nodes[i][2] # <<>>

--------------------------------------------------------------------------------
(* NameSpaceKVStore over the store: the name space is the first byte of    *)
(* the key.                                                                *)

DocumentSpace == 1   \* 'd'
IndexSpace == 2      \* 'i'

(* Mutant: the key is the number.                                          *)
Key_NoNameSpace(ns, n) == EncodeVarint(n)

Key(ns, n) == <<ns>> \o EncodeVarint(n)

Get(ns, n) == IF Key(ns, n) \in DOMAIN store THEN {store[Key(ns, n)]} ELSE {}

Put(key, value) ==
    store' = [x \in DOMAIN store \cup {key} |-> IF x = key THEN value ELSE store[x]]

Delete(key) == store' = [x \in DOMAIN store \ {key} |-> store[x]]

(* DocumentKVStore.  What Get reads is there or not.                       *)
addDoc(n, es) == Put(Key(DocumentSpace, n), writeMini(es))
removeDoc(n) == Delete(Key(DocumentSpace, n))
getDoc(n) == {readMini(d) : d \in Get(DocumentSpace, n)}

--------------------------------------------------------------------------------
(* The store holds the bitmaps of some words and the documents before this *)
(* one.                                                                    *)
Init ==
    /\ pc = "post"
    /\ request \in Request
    /\ docId \in Id
    /\ store = [key \in {Key(IndexSpace, n) : n \in Id} \cup {Key(DocumentSpace, n) : n \in Id \cap 0..(docId - 1)}
                   |-> key]
    /\ entries = <<>> /\ k = 0 /\ words = {} /\ reply = <<>> /\ indexed = {}
    /\ m_string = <<>> /\ m_offset = 0 /\ m_token = <<>> /\ tokensize = 0 /\ taken = <<>>

(* post_request_cb: DocumentImpl(value) throws, and the client is told.    *)
Reject ==
    /\ pc = "post"
    /\ ~Valid(request)
    /\ reply' = "error"
    /\ pc' = "rejected"
    /\ UNCHANGED <<request, entries, k, words, docId, store, indexed, tokenizer>>

(* The callers' loop over the entries: the tokenizer is given the next     *)
(* value.                                                                  *)
Cut(es, n) ==
    /\ k' = n
    /\ IF n <= Len(es) THEN setString(es[n][2]) ELSE UNCHANGED tokenizer

(* Engine::addDocument: the document is stored, then cut into words.       *)
AddDocument ==
    /\ pc = "post"
    /\ Valid(request)
    /\ entries' = request.nodes
    /\ addDoc(docId, request.nodes)
    /\ words' = {}
    /\ Cut(entries', 1)
    /\ pc' = "adding"
    /\ UNCHANGED <<request, docId, reply, indexed>>

Cutting == pc \in {"adding", "deleting"} /\ k <= Len(entries)

Scan ==
    /\ Cutting
    /\ Letter \/ ShortWord
    /\ UNCHANGED <<pc, request, entries, k, words, docId, store, reply, indexed>>

(* Mutant: the word is the token, whatever its field.                      *)
TakeToken_NoField ==
    /\ Cutting
    /\ ReturnToken
    /\ words' = words \cup {<<<<>>, m_token>>}
    /\ UNCHANGED <<pc, request, entries, k, docId, store, reply, indexed>>

TakeToken ==
    /\ Cutting
    /\ ReturnToken
    /\ words' = words \cup {<<entries[k][1], m_token>>}
    /\ UNCHANGED <<pc, request, entries, k, docId, store, reply, indexed>>

NextValue ==
    /\ Cutting
    /\ Exhausted
    /\ Cut(entries, k + 1)
    /\ UNCHANGED <<pc, request, entries, words, docId, store, reply, indexed>>

(* invertedIndex.add, and the id is the reply.                             *)
Added ==
    /\ pc = "adding"
    /\ k > Len(entries)
    /\ indexed' = words
    /\ pc' = "stored"
    /\ UNCHANGED <<request, entries, k, words, docId, store, reply, tokenizer>>

(* doc_request_cb: a new DocumentImpl is read from the store and written,  *)
(* or the client is told that there is none.                               *)
GetDoc ==
    /\ pc \in {"stored", "deleted"}
    /\ reply' \in IF getDoc(docId) = {} THEN {"not found"} ELSE getDoc(docId)
    /\ UNCHANGED <<pc, request, entries, k, words, docId, store, indexed, tokenizer>>

(* Engine::deleteDocument: the stored document is read and cut into words. *)
DeleteDocument ==
    /\ pc = "stored"
    /\ entries' \in getDoc(docId)
    /\ words' = {}
    /\ Cut(entries', 1)
    /\ pc' = "deleting"
    /\ UNCHANGED <<request, docId, store, reply, indexed>>

(* The postings of these words are removed, and the document at last.      *)
Deleted ==
    /\ pc = "deleting"
    /\ k > Len(entries)
    /\ removeDoc(docId)
    /\ pc' = "deleted"
    /\ UNCHANGED <<request, entries, k, words, docId, reply, indexed, tokenizer>>

Next ==
    \/ Reject \/ AddDocument
    \/ Scan \/ TakeToken \/ NextValue
    \/ Added \/ GetDoc \/ DeleteDocument \/ Deleted

Spec == Init /\ [][Next]_vars

--------------------------------------------------------------------------------
(* The tokens of a value are its words in their order, where a word and    *)
(* the short ones dropped before it have more than two letters.            *)
TokensExact == Cutting /\ Exhausted => taken = TokensOf(m_string)

(* A document is indexed under every word of more than two letters it has, *)
(* in lower case and with its field, and under no word it does not have.   *)
LongWordsIndexed ==
    pc = "stored" =>
        LET in(f, W(_)) == UNION {W(request.nodes[i][2]) : i \in {j \in DOMAIN request.nodes : request.nodes[j][1] = f}}
            names == {request.nodes[i][1] : i \in DOMAIN request.nodes}
        IN /\ \A f \in names : \A w \in in(f, LongWords) : <<f, w>> \in indexed
           /\ \A w \in indexed : w[1] \in names /\ w[2] \in in(w[1], WordsOfText)

(* What readMini makes of a stored document: the entries that were posted, *)
(* and an empty one.                                                       *)
ReadBack == pc = "stored" => getDoc(docId) = {Append(request.nodes, <<<<>>, <<>>>>)}

(* deleteDocument finds the words addDocument indexed, although it cuts    *)
(* what it read back from the store.                                       *)
DeletionFindsWords == pc = "deleted" => words = indexed

(* Storing or deleting a document changes no other document and no bitmap. *)
OthersKept ==
    [][\A ns \in {DocumentSpace, IndexSpace}, n \in Id :
          <<ns, n>> # <<DocumentSpace, docId>> => Get(ns, n)' = Get(ns, n)]_vars

(* getDocument returns the field : value pairs that were posted            *)
(* (api/python/zsearch.py).                                                *)
RetrievedAsPosted == pc = "stored" /\ reply # <<>> => reply = request.nodes
================================================================================
