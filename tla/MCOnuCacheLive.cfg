\* Every call returns, also those for the unused ids.
SPECIFICATION FairSpec
CONSTANTS
    Ids = {1, 2}
    Callers = {c1, c2}
    Refreshers = {r1}
    Calls = {"info", "serial", "empty", "update"}
    MaxChanges = 1
    MaxClears = 0
    MaxFails = 1
PROPERTIES CallReturns
CHECK_DEADLOCK FALSE
