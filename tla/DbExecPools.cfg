CONSTANTS
    u1 = u1  u2 = u2  u3 = u3  w1 = w1  w2 = w2  w3 = w3  l1 = l1  l2 = l2
    Units = {u1, u2}
    Workers = {w1, w2, w3}
    Loops = {l1, l2}
    GroupCount = 2
    GroupOf <- TwoGroups
    LoopGroup <- TwoLoopGroups
    Kind = "postgresql"
    Reads = {}
    PerWorker = 1
    WaitLimit = 1
    MaxTime = 3
SPECIFICATION StuckSpec
INVARIANTS
    HandedOverOnce
    Bookkeeping
    NoBacklogBehindSleepers
    CloseIsOrderly
PROPERTIES
    WaitingTimeIsKept
    NobodyWaitsForEver
