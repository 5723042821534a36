SPECIFICATION Spec
CONSTANTS
    MaxProcs = 4
    WaitTargets <- MCWaitTargets
    KillTargets = {1}
    ReadyMin <- MCReadyMin
    ReadyMax = 4
\* exit_process and an idle waitpid really can stop the machine.
CHECK_DEADLOCK FALSE
INVARIANTS
    TypeOK
    RunningIsCurrent
    NoLostWakeup
    WaitPidIsCurrent
    HaltOnlyWhenIdle
PROPERTIES
    ExitIsFinal
    BoundedBypass
    ReadyCountFollows
