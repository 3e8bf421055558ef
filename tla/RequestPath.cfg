SPECIFICATION MCSpec
CONSTANTS
    r1 = r1
    r2 = r2
    u1 = u1
    u2 = u2
    c1 = c1
    c2 = c2
    NULL = NULL
    NONE = NONE
    Loops = {1, 2}
    Shapes <- MCShapes
    Requests <- MCRequests
    Units <- MCUnits
    Conns = {c1, c2}
    REQ_BUF = 9
    MAX_HEAD = 2
    MAX_BODY = 2
    DRAIN_MAX = 1
    DEFER_MAX = 1
CHECK_DEADLOCK FALSE
INVARIANTS
    TableIsTrue
    AnswersArriveOnce
    PortableIsTrue
PROPERTY
    PathEnds
