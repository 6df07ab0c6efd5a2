\* Without a repeat interval, a repeated trap is a second notification.
SPECIFICATION RunSpec
CONSTANTS
    Onus = {o1}
    Conditions <- OnOff
    Healthy <- Up
    Flushed = {"Critical"}
    Repeating = {}
    Scanners = {}
    MaxChanges = 1
    MaxDups = 1
    MaxGets = 0
    MaxFails = 0
    MaxScans = 0
INVARIANTS NotifiedOnce
CHECK_DEADLOCK FALSE
