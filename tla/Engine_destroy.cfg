SPECIFICATION Spec
CONSTANTS
    f1 = f1
    f2 = f2
    t1 = t1
    t2 = t2
    Document <- MCDocument
    Field = {f1, f2}
    Token = {t1, t2}
    MaxDocId = 2
    MaxWordId = 3
    MaxStarts = 2
    Misread = {}
    MayCrash = FALSE
    MayDestroy = TRUE
    MayDelete = FALSE
CHECK_DEADLOCK FALSE
INVARIANT SearchSound
