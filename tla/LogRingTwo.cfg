SPECIFICATION FairSpec
CONSTANTS
    t1 = t1
    t2 = t2
    NONE = NONE
    Threads <- MCTwo
    MaxThreads = 2
    Capacity = 2
    MaxLines = 3
    Machines <- MCBoth
CHECK_DEADLOCK FALSE
INVARIANTS
    RingIsTrue
PROPERTIES
    WaitersGoOn
    LinesGetWritten
