\* One dependency, whose mutex the requests wait for.
SPECIFICATION FairSpec
CONSTANTS
    c1 = c1
    c2 = c2
    Callers <- TwoCallers
    NumDeps = 1
    Critical = {1}
    ttl <- OneTtl
    failureTTL = 1
    timeout = 1
    MaxTime = 3
    MaxFlips = 1
PROPERTIES CheckReturns
CHECK_DEADLOCK FALSE
