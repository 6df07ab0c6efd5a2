\* The process ends while entries are queued.
SPECIFICATION Spec
CONSTANTS
    Onus = {o1}
    Conditions <- OnOff
    Healthy <- Up
    Flushed = {"Critical"}
    Repeating = {"Critical"}
    Scanners = {}
    MaxChanges = 1
    MaxDups = 0
    MaxGets = 0
    MaxFails = 0
    MaxScans = 0
INVARIANTS CloseFlushes
CHECK_DEADLOCK FALSE
