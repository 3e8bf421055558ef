SPECIFICATION MCSpec
CONSTANTS
    NONE = NONE
    EMPTY_TARGET = "0"
    Procs <- MCProcs
    Databases = {"file", "server"}
    Sqlite = "file"
    Builds <- MCBuilds
    Answers <- MCAnswers
    PublicUrls = {"public"}
    Deployments <- MCDeployments
    Confirmations <- MCConfirmations
    Fresh <- MCFresh
    Attempts = 2
    MaxLaunches = 3
    MaxTroubles = 1
INVARIANTS
    SchemaIsWhatRowsSay
    DelegationNamesTheSeed
    
    
PROPERTIES
    StartsReady
    SetupEndsWhole
    DownIsConfirmed
    EveryCommandEnds
CHECK_DEADLOCK FALSE
