\* Settings with no retries.
SPECIFICATION Spec
CONSTANTS
    Settings <- Hooks
    Disabled <- Off
    Env = "chat"
    Retries <- NoRetries
    MaxEdits = 0
    MaxFails = 0
    MaxSends = 1
INVARIANTS ZeroMeansOnce
CHECK_DEADLOCK FALSE
