SPECIFICATION Spec
CONSTANTS
    Adr = {1, 2, 3, 4, 5}
    AdrHash <- MCAdrHash
    HashBits = 3
    CacheBits = {2, 3}
    MaxDirBits = 3
    InitLive = {{1}, {1, 2, 3, 4, 5}}
    Modes <- MCModes
INVARIANTS TypeOK ChangedFirst CacheFresh AllWritten ListIsTable NeverCorrupted
