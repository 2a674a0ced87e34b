\* One cycle: what deactivate() leaves of the lock.
SPECIFICATION FairSpec
CONSTANTS
    MaxCycles = 1
    Polls = 2
    Prompt = TRUE
    InfoFails = FALSE
    Rejects = FALSE
PROPERTY
    StatusReturns
CHECK_DEADLOCK FALSE
