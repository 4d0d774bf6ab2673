SPECIFICATION FairSpec
CONSTANTS
    s1 = s1
    s2 = s2
    g1 = g1
    Server = {s1, s2}
    Name = {ann}
    NoName = NoName
    Bystander = Bystander
    FirstId <- Ids
    Group = {g1, g2}
    NoGroup = NoGroup
    NoServer = NoServer
    Screen = 1
    Busy <- FirstGroup
    MaxConns = 2
    MaxCommands = 4
    MaxMsgs = 2
INVARIANTS TypeOK InStep OthersStay ServersUp 
PROPERTY QuitEnds
CHECK_DEADLOCK FALSE
