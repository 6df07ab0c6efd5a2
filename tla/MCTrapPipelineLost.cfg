\* An alert queued while a flush verifies is deleted by it.
SPECIFICATION RunSpec
CONSTANTS
    Onus = {o1}
    Conditions <- OnOff
    Healthy <- Up
    Flushed = {"Critical"}
    Repeating = {"Critical"}
    Scanners = {}
    MaxChanges = 3
    MaxDups = 0
    MaxGets = 0
    MaxFails = 0
    MaxScans = 0
INVARIANTS NothingLost
CHECK_DEADLOCK FALSE
