SPECIFICATION Spec
CONSTANTS
    k1 = k1  k2 = k2  k3 = k3  k4 = k4  k5 = k5
    Key <- MCKey
    Hash <- MCHash
    Value = {v1, v2}
    None = None
    HashBits = 4
    BucketElems = 2
    InitDirBits = 1
    MaxDirBits = 3
    Adr = {1, 2, 3, 4, 5, 6, 7, 8, 9, 10}
INVARIANTS TypeOK DirRegular EveryKeyFound
PROPERTIES IsKVStore
