\* The inductive invariant, and what Reconcile keeps, with two owners as well.
SPECIFICATION Spec
CONSTANTS
    Ids = {1, 2}
    Default = 1
    Conns = {"a", "b"}
    Metas = {0, 1}
    MaxGen = 3
    MaxEdits = 1
    MaxSweeps = 1
    NoOlt = 0
INVARIANTS RegistryInv TypeOK MappedUsable FollowsList
PROPERTIES UnchangedKeepsStack
CHECK_DEADLOCK FALSE
