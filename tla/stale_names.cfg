SPECIFICATION Spec
CONSTANTS
    Client = {c1, c2}
    Name = {amy, bob}
    NoName = NoName
    Group = {g1, g2}
    NoGroup = NoGroup
    MaxOps = 3
INVARIANTS SameStampSameList
CHECK_DEADLOCK FALSE
