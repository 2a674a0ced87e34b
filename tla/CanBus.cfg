\* Frames that fit the ring and that do not, writes that end with a short frame.
SPECIFICATION Spec
CONSTANTS
    RxCapacity = 2
    FrameSizes = {1, 3}
    ReadSizes = {1, 3}
    Chunk = 2
    WriteSizes = {3}
    Retries = 2
    Mailboxes = 1
    MaxBytes = 4
    MaxWrites = 2
    MaxCalls = 3
\* The system stops when the bound on calls is reached.
CHECK_DEADLOCK FALSE
INVARIANTS
    TypeOK
    OverflowTold
    WholeWrites
