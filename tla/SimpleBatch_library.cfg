SPECIFICATION FaultySpec
CONSTANTS
    Word = {w1, w2}
    MaxDocs = 3
    MaxOldDocs = 1
    BatchSizes = {1, 2}
    SetKinds = {"Basic", "Compressed"}
SYMMETRY Symmetry
CHECK_DEADLOCK FALSE
INVARIANT WholeDocuments
INVARIANT RemovedStaysRemoved
INVARIANT DurableOnceDestroyed
