\* A 16-port card among 8-port ones.
SPECIFICATION Spec
CONSTANTS
    Parts <- CardParts
    MaxParts = 2
    Defaults <- CardDefaults
    OnuIDs <- EdgeOnus
    Indexes <- EdgeIndexes
INVARIANTS ScanCoversLayout
CHECK_DEADLOCK FALSE
