\* Two OLTs, requests for the default and for a named one, from one tenant.
SPECIFICATION MCSpec
CONSTANTS
    Ids = {1, 2}
    Default = 1
    Conns = {"a", "b"}
    Metas = {0, 1}
    MaxGen = 3
    MaxEdits = 1
    MaxSweeps = 0
    NoOlt = 0
    Requests = {r1}
    Bare = bare
    Admin = admin
    Targets = {2, bare}
    Callers = {0}
    NoData = nodata
INVARIANTS OnlyRebuildsDisturb RebuildIsInvisible HealthySawAll
PROPERTIES RequestsReturn StaleExpires
CHECK_DEADLOCK FALSE
