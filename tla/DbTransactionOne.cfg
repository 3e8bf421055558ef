SPECIFICATION FairSpec
CONSTANTS
    Accesses = {"read", "write"}
    Losses = {"link", "names"}
    Databases = {"postgresql", "wal", "journal"}
    w1 = w1
    w2 = w2
    ann = ann
    bob = bob
    Workers <- MCOneWorker
    Emails <- MCEmails
    Draws <- MCDraws
    AgainMax = 3
    RerunMax = 2
    RegisterMax = 2
INVARIANTS
    RegistrationIsTrue
    StaysUsable
PROPERTY
    EveryUnitEnds
