SPECIFICATION Spec
CONSTANTS
    NONE = NONE
    Sites <- MCSites
    FieldRule <- MCFieldRule
INVARIANTS
    NodeOutlivesItsReaders
    ExitIsTrue
    PlacesAreKept
    RegistrationIsWhole
    
PROPERTY
    ProcessEnds
