SPECIFICATION Spec
CONSTANTS
    MaxCopies = 5
    UintMod = 4
INVARIANTS TypeOK WholeIfReadable LatestRecovers
