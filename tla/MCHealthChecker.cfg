\* Two requests, two dependencies that go down or come back.
SPECIFICATION Spec
CONSTANTS
    c1 = c1
    c2 = c2
    Callers <- TwoCallers
    NumDeps = 2
    Critical = {1}
    ttl <- Ttls
    failureTTL = 2
    timeout = 1
    MaxTime = 4
    MaxFlips = 1
SYMMETRY Perms
INVARIANTS UpWasUp DownHasCause
PROPERTIES NoProbeStorm
CHECK_DEADLOCK FALSE
