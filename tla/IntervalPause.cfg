\* A pause that comes while the callback runs.
SPECIFICATION FairSpec
CONSTANTS
    Kinds = {"counter"}
    Pausers = {p1}
    Modulus = 9
    Period = 2
    MaxLate = 3
PROPERTY
    PauseEnds
CHECK_DEADLOCK FALSE
