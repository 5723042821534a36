SPECIFICATION Spec
CONSTANTS
    a = a
    short = short
    long = long
    Names = {a, short, long}
    Cut <- MCCut
    Blocks = 16
    EntriesPerBlock = 2
    Extents <- MCExtents
    Starts <- MCStarts
    MaxCalls = 3
\* The calls are bounded.
CHECK_DEADLOCK FALSE
INVARIANTS
    FsTypeOK
    NamesAreBacked
    ContentIsOwn
    
    

    
