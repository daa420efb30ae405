SPECIFICATION Spec
CONSTANTS
    Dbs <- MCDbs
    Targets <- MCTargets
    Versions = {"1.2", "1.1", "1.18", "binary", "bdb"}
    LineLen = 4
    None = None
INVARIANT RoundTrip
PROPERTY LoadReturns
CHECK_DEADLOCK FALSE
