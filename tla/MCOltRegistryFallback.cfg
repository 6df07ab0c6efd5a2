\* GetDefault's fallback: TLC finds an execution in which it is not the first entry.
SPECIFICATION Spec
CONSTANTS
    Ids = {1, 2, 3}
    Default = 1
    Conns = {"a"}
    Metas = {0}
    MaxGen = 2
    MaxEdits = 0
    MaxSweeps = 0
    NoOlt = 0
PROPERTIES FallbackIsFirst
CHECK_DEADLOCK FALSE
