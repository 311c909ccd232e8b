SPECIFICATION Spec
CONSTANTS
    Byte <- MCByte
    CaseBit = 2
    Alnum <- MCAlnum
    Base = 4
    Request <- MCRequest
    Id = {1, 4, 17}
CHECK_DEADLOCK FALSE
INVARIANT TokensExact
INVARIANT LongWordsIndexed
INVARIANT ReadBack
INVARIANT DeletionFindsWords
PROPERTY OthersKept
