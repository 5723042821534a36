SPECIFICATION FairSpec
CONSTANTS
    MaxProcs = 3
    WaitTargets <- MCWaitTargets
    KillTargets = {1, 2}
    ReadyMin <- MCReadyMin
    ReadyMax = 3
\* exit_process and an idle waitpid really can stop the machine.
CHECK_DEADLOCK FALSE
PROPERTIES
    ReadyRuns
    WaitpidReturns
    ImplementsLifecycle
