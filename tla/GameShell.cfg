\* Two terminals, root and one user.
CONSTANTS
    MaxWalk = 6
    Perms <- MCPerms
    BootFs <- MCBootFs
    MaxIno = 8
    MaxPid = 3
    MaxFds = 1
    MaxData = 2
    Sessions = {s1, s2}
    Lines <- MCLines
    Paths <- MCPaths
    Texts <- MCTexts
    Modes <- MCModes
    MaxDepth = 2
    MaxCalls = 4
SYMMETRY Terminals
SPECIFICATION Spec
INVARIANTS TreeIsSound EffectiveIsInnermost
PROPERTIES GoneStaysGone
CHECK_DEADLOCK FALSE
