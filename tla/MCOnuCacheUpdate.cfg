\* A walk of a read is saved after that of a forced update.
SPECIFICATION Spec
CONSTANTS
    Ids = {1, 2}
    Callers = {c1, c2, c3}
    Refreshers = {}
    Calls = {"empty", "update"}
    MaxChanges = 1
    MaxClears = 0
    MaxFails = 0
INVARIANTS UpdateIsSeen
SYMMETRY Symmetric
CHECK_DEADLOCK FALSE
