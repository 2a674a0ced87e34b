\* The receive side only: what enable() does to an overflow.
SPECIFICATION Spec
CONSTANTS
    RxCapacity = 2
    FrameSizes = {1, 3}
    ReadSizes = {1, 3}
    Chunk = 2
    WriteSizes = {1}
    Retries = 1
    Mailboxes = 1
    MaxBytes = 5
    MaxWrites = 0
    MaxCalls = 2
\* As in CanBus.cfg.
CHECK_DEADLOCK FALSE
INVARIANT
    OverflowLatched
