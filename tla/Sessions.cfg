SPECIFICATION MCSpec
CONSTANTS
    u1 = u1
    u2 = u2
    k1 = k1
    k2 = k2
    k3 = k3
    e1 = e1
    e2 = e2
    e3 = e3
    e4 = e4
    ann = ann
    bob = bob
    NULL = NULL
    NONE = NONE
    Users <- MCUsers
    MaxSessions = 2
    HardTimeout = 2
    ReissueAfter = 1
    CompactThreshold = 1
    MaxTime = 2
    MaxTokens = 4
SYMMETRY MCSymmetry
INVARIANTS
    TableIsTrue
    StoreIsTrue
    TokensVerify
PROPERTIES
    KeepsContents
    
