SPECIFICATION ReadySpec
CONSTANTS
    c1 = c1
    c2 = c2
    c3 = c3
    Latest = 2
    Server = {1, 2}
    Client = {c1, c2, c3}
    Home <- OneAndTwo
    MaxMsgs = 3
    MaxInFlight = 1
    MaxBreaks = 0
INVARIANTS AckNotAhead OwnMessagesKept ListWellFormed Identity
PROPERTIES Causality FiledForGood OrderKept
