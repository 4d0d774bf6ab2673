SPECIFICATION SplitSpec
CONSTANTS
    c1 = c1
    c2 = c2
    c3 = c3
    Latest = 2
    Server = {1, 2, 3}
    Client = {c1}
    Home <- OnlyOne
    MaxMsgs = 2
    MaxInFlight = 1
    MaxBreaks = 0
PROPERTY PathPropagation
