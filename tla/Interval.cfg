\* Both backends, two threads that pause, a counter of 9 values.
SPECIFICATION FairSpec
CONSTANTS
    Kinds = {"counter", "ktimer"}
    Pausers = {p1, p2}
    Modulus = 9
    Period = 2
    MaxLate = 3
INVARIANTS
    TypeOK
    NoDrift
    StoppedOnReturn
PROPERTY
    PauseSeen
\* A disposed interval does nothing.
CHECK_DEADLOCK FALSE
