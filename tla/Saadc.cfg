\* Three cycles of activate() and deactivate(), and a thread that asks for status.
SPECIFICATION FairSpec
CONSTANTS
    MaxCycles = 3
    Polls = 2
    Prompt = TRUE
    InfoFails = TRUE
    Rejects = FALSE
INVARIANTS
    TypeOK
    ScanSafe
    AtRest
PROPERTY
    CallsReturn
\* The viewer waits for ever when deactivate() has kept the lock, and activate() when
\* its reader fails before it is ready.
CHECK_DEADLOCK FALSE
