\* The serial list and the ONU list of a PON, read, refreshed and cleared.
SPECIFICATION FairSpec
CONSTANTS
    Ids = {1}
    Callers = {c1, c2}
    Refreshers = {r1}
    Calls = {"info", "serial"}
    MaxChanges = 1
    MaxClears = 1
    MaxFails = 1
INVARIANTS LedNoCacheIsLive EmptyIsLive SerialInOrder
PROPERTIES CallReturns
CHECK_DEADLOCK FALSE
