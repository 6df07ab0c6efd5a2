\* A flush joins a lookup that read the OLT before the ONU recovered.
SPECIFICATION RunSpec
CONSTANTS
    Onus = {o1}
    Conditions <- OnOff
    Healthy <- Up
    Flushed = {"Critical"}
    Repeating = {"Critical"}
    Scanners = {}
    MaxChanges = 3
    MaxDups = 0
    MaxGets = 1
    MaxFails = 0
    MaxScans = 0
INVARIANTS NoFalseAlarm
CHECK_DEADLOCK FALSE
