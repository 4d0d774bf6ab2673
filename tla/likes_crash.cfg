SPECIFICATION Spec
CONSTANTS
    amy = amy
    bob = bob
    joe = joe
    User = {amy, bob, joe}
    Server = {1, 2}
    Home <- TwoAndOne
    Author = amy
    Nobody = Nobody
    MaxLikes <- LikesTwoAndOne
    MaxSeconds = 1
    MaxInFlight = 1
    MaxBreaks = 1
INVARIANTS LikesFindPlace
CHECK_DEADLOCK FALSE
