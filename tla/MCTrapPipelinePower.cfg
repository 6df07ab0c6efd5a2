\* Power scans against traps and flushes, with overlapping scans, and the shutdown.
SPECIFICATION Spec
CONSTANTS
    Onus = {o1}
    Conditions <- Powers
    Healthy <- Up
    Flushed = {"Critical", "Medium"}
    Repeating = {"Critical"}
    Scanners = {"ticker", "cron"}
    MaxChanges = 2
    MaxDups = 1
    MaxGets = 0
    MaxFails = 0
    MaxScans = 2
INVARIANTS RightQueue OneQueue LostOnlyByRace
CHECK_DEADLOCK FALSE
