SPECIFICATION Spec
CONSTANTS
    Objects = {a, b}
    NoOne = NoOne
    Pins = {0, 1}
    Modes = {"INPUT", "INOUT"}
    Careless = FALSE
    a = a
    b = b
INVARIANTS
    TypeOK
    OwnerTrue
    EnabledHeard
    LevelKnown
