SPECIFICATION Spec
CONSTANTS
    f1 = f1
    f2 = f2
    t1 = t1
    t2 = t2
    Document <- MCDocument
    Field = {f1, f2}
    Token = {t1, t2}
    MaxDocId = 2
    MaxWordId = 3
    MaxStarts = 2
    Misread = {1, 2}
    MayCrash = TRUE
    MayDestroy = TRUE
    MayDelete = TRUE
CHECK_DEADLOCK FALSE
INVARIANT TypeOK
INVARIANT CleanSearchSound
 
INVARIANT WordIdsDistinct
INVARIANT RefusedWithoutWords
INVARIANT PostingsHaveDocuments
PROPERTY DocumentsKept
