SPECIFICATION FairSpec
CONSTANTS
    Word = {w1, w2}
    MaxDocs = 1
    MaxOldDocs = 0
    BatchSizes = {1, 2}
    SetKinds = {"Compressed"}
CHECK_DEADLOCK FALSE
PROPERTY ShutdownReturns
