\* A lossy line; blobs that fill the ring, and blobs longer than it and the limit.
SPECIFICATION Spec
CONSTANTS
    MaxBlob = 5
    RingCapacity = 4
    PutSizes = {3, 7}
    WriteSizes = {0, 2}
    ReadSizes = {3}
    MaxCalls = 4
    Lossy = TRUE
INVARIANTS
    TypeOK
    InOrder
    NothingLost
    PutsArrive
    NoLostWakeup
