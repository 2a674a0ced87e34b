\* One owner, three runs of the task, stops from any other thread.
SPECIFICATION FairSpec
CONSTANTS
    MaxRuns = 3
    JoinsFirst = TRUE
    Outcomes = {"ready", "fails"}
INVARIANTS
    TypeOK
    StorageSafe
    FreshEvents
PROPERTIES
    CallsReturn
    StopEnds
    KeepsContract
\* The system stops once the tasker is disposed and its threads are gone.
CHECK_DEADLOCK FALSE
