SPECIFICATION Spec
CONSTANTS
    k1 = k1  k2 = k2  k3 = k3  k4 = k4
    v1 = v1  v3 = v3
    Key <- MCKey
    Value <- MCValue
    Size <- MCSize
    Hash <- MCHash
    Stub <- MCStub
    StubSet = {"s", "t"}
    BucketElems = 3
    Adr = {1, 2, 3}
    NoElem = NoElem
INVARIANTS TypeOK ChainsClosed SearchRight CacheCoherent OneAreaPerKey CountRight
PROPERTY CallsReturn
