SPECIFICATION FairSpec
CONSTANTS
    MaxWord = 2
    MaxDocs = 3
    MaxOldDocs = 1
    MinBatch = 2
    MaxBatches = {0, 2}
    CacheSize = 1
CHECK_DEADLOCK FALSE
INVARIANT TypeOK
INVARIANT Conserved
INVARIANT DestructorWrites
PROPERTY StoreGrows
PROPERTY FlushReturns
PROPERTY StopReturns
