SPECIFICATION FairSpec
CONSTANTS
    Window = 45
    FetchTimeout = 10
    InitialBackoff = 1
    MaxBackoff = 8
    Ups <- MCUps
    Requests = {r1, r2}
    DrainLimit = 1
    WriteTimeout = 3
    MaxAge = 4
INVARIANTS
    ReadyBoots
    UsersCloseFirst
    GraceServes
PROPERTIES
    SigtermEnds
CHECK_DEADLOCK FALSE
