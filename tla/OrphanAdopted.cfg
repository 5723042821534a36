SPECIFICATION LineageSpec
CONSTANTS
    MaxProcs = 3
    WaitTargets <- MCWaitTargets
    KillTargets = {}
    ReadyMin = 1
    ReadyMax = 1
\* exit_process and an idle waitpid really can stop the machine.
CHECK_DEADLOCK FALSE
PROPERTIES
    CollectsOwnChildren
