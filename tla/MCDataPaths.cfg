SPECIFICATION MCSpec
CONSTANTS
    Parts <- EdgeParts
    MaxParts = 3
    Defaults <- EdgeDefaults
    OnuIDs <- EdgeOnus
    Indexes <- EdgeIndexes
    Variables <- PacketVariables
    MaxVars = 3
    Lists <- MCLists
    Envs <- MCEnvs
    MaxEdits = 2
    Hardware <- MCHardware
    MaxSwaps = 2
    DefaultPageSize = 2
    MaxPageSize = 4
    MaxInt = 31
    Params <- MCParams
    Totals <- MCTotals
    Addresses = {proxy1, proxy2, host1, host2}
    TrustedProxies = {proxy1, proxy2}
    Malformed = malformed
    MaxHops = 3
INVARIANTS
    ValidIsServed
    TrapsFindTheirPort
    NoMixture
    OneOnuIsHandled
    OutageIsAlerted
    UplinkExact
    PagesPartition
    ClientIsVouched
PROPERTIES
    PollKeepsStacks
CHECK_DEADLOCK FALSE
