\* Fifos smaller than a burst, a driver that takes less than it is offered.
SPECIFICATION FairSpec
CONSTANTS
    RxCapacity = 2
    TxCapacity = 3
    HwRx = 3
    HwTx = 2
    TxChunk = 2
    WriteSizes = {1, 4}
    ReadSizes = {1, 3}
    MaxBytes = 4
    MaxEnables = 2
    Faults = TRUE
INVARIANTS
    TypeOK
    RxInOrder
    TxAccounted
    NoLostWakeup
PROPERTY
    TxDrains
\* The system stops when the bound on bytes and enables is reached.
CHECK_DEADLOCK FALSE
