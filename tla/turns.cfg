SPECIFICATION Spec
CONSTANTS
    c1 = c1
    c2 = c2
    Nobody = Nobody
    Client = {c1, c2}
    Full <- FourAndTwo
    Binary = {}
    Window = 2
    Drops = FALSE
    MaxInFlight = 1
CONSTRAINT FirstTurns
INVARIANTS FirstTurnSound WaitersKnown
PROPERTY FirstTurnCopies
CHECK_DEADLOCK FALSE
