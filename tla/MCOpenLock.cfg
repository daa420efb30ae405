SPECIFICATION Spec
CONSTANTS
    Proc = {p1, p2}
    Inode = {1, 2, 3}
    None = None
    Works <- MCWorks
    Calls <- MCCalls
    OldFiles <- MCOldFiles
    Recovers = TRUE
    MaxCalls = 3
INVARIANTS WriterAlone HeaderFresh NoStrayLock
PROPERTY OpenReturns
CHECK_DEADLOCK FALSE
