SPECIFICATION Spec
CONSTANTS
    PageSize = 4
    Block = 4
    InitSize = 8
    MaxSize = 16
    Areas <- MCAreas
    Limits = {0, 8}
    SizeMax = 999
    MaxFails = 1
INVARIANTS RightBytes CachedSizeRight SyncCovers
PROPERTIES PagesEnough AccessReturns
CHECK_DEADLOCK FALSE
