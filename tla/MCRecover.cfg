SPECIFICATION Spec
CONSTANTS
    Key = {"k1", "k2", "k3", "junk"}
    Bucket = {"b1", "b2", "b3"}
    Bad = Bad
    None = None
    Home <- MCHome
    Dir <- MCDir
    OldFiles <- MCOldFiles
    Stored = {"k1", "k3"}
    Requests <- MCRequests
    Backups <- MCBackups
    Nine = 2
    MaxCalls = 2
CHECK_DEADLOCK FALSE
INVARIANTS LimitsHold OneCopy
PROPERTIES RecoverKeeps RecoverReturns
