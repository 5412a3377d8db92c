CONSTANTS
    Client = {k1, k2}
    Server = {s1, s2}
    NoServer = NoServer
    NoConnection = NoConnection
    Free = Free
    Killers = {k2}
    MaxTries <- MCTries
    Timeout = "some"
    MayFail = TRUE
SPECIFICATION FairSpec
\* Everybody has left, and no server runs.
CHECK_DEADLOCK FALSE
INVARIANTS
    TypeOK
    OneServer
    TellsOwner
    OneCommand
PROPERTIES
    WaitsEnd
    QuitEnds
