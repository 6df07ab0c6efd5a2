\* Traps, flushes and failing lookups of one ONU whose outage changes severity.
SPECIFICATION FairSpec
CONSTANTS
    Onus = {o1}
    Conditions <- Outages
    Healthy <- Up
    Flushed = {"Critical", "High"}
    Repeating = {"Critical"}
    Scanners = {}
    MaxChanges = 3
    MaxDups = 0
    MaxGets = 1
    MaxFails = 1
    MaxScans = 0
INVARIANTS VerifiedNotOlder
PROPERTIES EntriesResolved
CHECK_DEADLOCK FALSE
