SPECIFICATION Spec
CONSTANTS
    BlockSize = 8
    BucketElems = 2
    BucketAvail = 3
    IgnoreSize = 0
    ElemBytes = 1
    AvailHead = 2
    StdSize = 8
    ExtSize = 6
    MaxDirHalf = 16
    InitDirBits = 0
    AreaSizes = {1, 3, 9}
    InitSizes = {8}
    Ages = {10}
    FromWithStack = FALSE
    MaxCalls = 4
INVARIANTS OwnHeaderAccepted
