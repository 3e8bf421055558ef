SPECIFICATION FairSpec
CONSTANTS
    m1 = m1
    m2 = m2
    m3 = m3
    NONE = NONE
    Mails <- MCThree
    QueueMax = 2
    WorkerMax = 2
    Modes <- MCModes
    SpawnBacklog = 1
CHECK_DEADLOCK FALSE
INVARIANTS
    MailsAreAccounted
    WorkersAreTrue
PROPERTY
    ComesToRest
