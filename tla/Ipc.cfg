SPECIFICATION IpcSpec
CONSTANTS
    MaxProcs = 3
    WaitTargets = {2}
    KillTargets = {1}
    ReadyMin = 1
    ReadyMax = 1
    RecvSources <- MCAnyOrOne
\* All processes may be blocked, and a halted CPU stays halted.
CHECK_DEADLOCK FALSE
INVARIANTS
    OneRunning
    UnreadKept
PROPERTIES
    OnlyPartnerWakes
