SPECIFICATION LoaderSpec
CONSTANTS
    Word = {w1, w2}
    MaxDocs = 3
    MaxOldDocs = 0
    BatchSizes = {1, 2}
    SetKinds = {"Compressed"}
SYMMETRY Symmetry
CHECK_DEADLOCK FALSE
INVARIANT NoPostingLost
