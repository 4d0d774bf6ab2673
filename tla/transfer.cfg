SPECIFICATION FairSpec
CONSTANTS
    c1 = c1
    c2 = c2
    Nobody = Nobody
    Client = {c1}
    Full <- OneFile
    Binary = {}
    Window = 3
    Drops = TRUE
    MaxInFlight = 2
INVARIANTS TypeOK SlotsHold BufferSound AcksTrue
PROPERTIES CopiesFiles AllServed
CHECK_DEADLOCK FALSE
