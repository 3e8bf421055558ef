SPECIFICATION Spec
CONSTANTS
    Accesses = {"read", "write"}
    Losses = {"link", "names"}
    Databases = {"wal", "journal"}
    w1 = w1
    w2 = w2
    ann = ann
    bob = bob
    Workers <- MCOneWorker
    Emails <- MCEmail
    Draws <- MCDraws
    AgainMax = 2
    RerunMax = 2
    RegisterMax = 3
INVARIANT NothingLeftOpenAnywhere
