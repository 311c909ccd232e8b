SPECIFICATION FairSpec
CONSTANTS
    Word = {w1, w2}
    MaxDocs = 3
    MaxOldDocs = 1
    BatchSizes = {1, 2}
    SetKinds = {"Compressed"}
CHECK_DEADLOCK FALSE
INVARIANT TypeOK
INVARIANT StagedWriting
INVARIANT NoPostingLost
INVARIANT SortedBitmaps
PROPERTY ImplementsPrefixIndex
PROPERTY ReadyBatchIsWritten
