\* Edits, failed fetches and payloads under way.
SPECIFICATION FairSpec
CONSTANTS
    Settings <- Hooks
    Disabled <- Off
    Env = "off"
    Retries <- HookRetries
    MaxEdits = 3
    MaxFails = 2
    MaxSends = 2
INVARIANTS ComparesWithActive GivenUpLast
PROPERTIES ReloadConverges
CHECK_DEADLOCK FALSE
