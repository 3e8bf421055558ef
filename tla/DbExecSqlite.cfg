CONSTANTS
    u1 = u1  u2 = u2  u3 = u3  w1 = w1  w2 = w2  w3 = w3  l1 = l1  l2 = l2
    Units = {u1, u2, u3}
    Workers = {w1}
    Loops = {l1, l2}
    GroupCount = 1
    GroupOf <- OneWriter
    LoopGroup <- SqliteLoops
    Kind = "sqlite"
    Reads = {u3}
    PerWorker = 2
    WaitLimit = 1
    MaxTime = 3
SPECIFICATION FairSpec
PROPERTY
    EverythingComesBack
