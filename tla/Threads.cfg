SPECIFICATION FairSpec
CONSTANTS
    MaxProcs = 4
    MaxPid = 4
\* With a single READY program nothing but errors may be left to do.
CHECK_DEADLOCK FALSE
INVARIANTS
    OneRunning
    OwnContext
    ExitedNeverRuns
PROPERTIES
    ReadyRuns
