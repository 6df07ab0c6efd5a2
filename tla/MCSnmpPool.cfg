\* Three goroutines, two tokens, and two connections or one.
SPECIFICATION FairSpec
CONSTANTS
    Ops = {p1, p2, p3}
    Conns = {c1, c2}
    Seed = c1
    PoolSize = 2
    MaxConcurrent = 2
    NoConn = nil
INVARIANTS NoLeak
PROPERTIES ImplementsLease OpReturns
