\* Events of a severity without an interval are queued.
SPECIFICATION RunSpec
CONSTANTS
    Onus = {o1}
    Conditions <- Outages
    Healthy <- Up
    Flushed = {"Critical"}
    Repeating = {"Critical"}
    Scanners = {}
    MaxChanges = 1
    MaxDups = 0
    MaxGets = 0
    MaxFails = 0
    MaxScans = 0
INVARIANTS UnbatchedNotQueued
CHECK_DEADLOCK FALSE
