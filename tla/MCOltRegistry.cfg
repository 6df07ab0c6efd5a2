\* Two OLTs, two connection settings; a pre-warm, one edit, and failed connects.
SPECIFICATION FairSpec
CONSTANTS
    Ids = {1, 2}
    Default = 1
    Conns = {"a", "b"}
    Metas = {0}
    MaxGen = 3
    MaxEdits = 1
    MaxSweeps = 1
    NoOlt = 0
INVARIANTS WorkerPoolOpen NoPoolLost
PROPERTIES RetiredIsClosed Converges
CHECK_DEADLOCK FALSE
