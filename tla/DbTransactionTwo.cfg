SPECIFICATION Spec
CONSTANTS
    Accesses = {"write"}
    Losses = {"link"}
    Databases = {"postgresql"}
    w1 = w1
    w2 = w2
    ann = ann
    bob = bob
    Workers <- MCTwoWorkers
    Emails <- MCEmail
    Draws <- MCDraws
    AgainMax = 3
    RerunMax = 2
    RegisterMax = 2
SYMMETRY MCWorkerSymmetry
INVARIANT
    RegistrationIsTrue
