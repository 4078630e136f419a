CONSTANTS
    BigEndian = FALSE
    Objects <- MCObjects
    RawObjects <- MCRawObjects
    Updates <- MCUpdates
    Switches <- MCSwitches
    Events <- MCEvents
    InitialSize = 24
    Rooms = {0, 2, 6, 32, 300}
    Fillers = {0, 147}
    MaxCut = 2
SPECIFICATION Spec
INVARIANTS
    NoOverrun
    RoundTrip
    TruncatedIsRefused
    AccessorsExact
    ReadsInBounds
    MessagesUnderstood
