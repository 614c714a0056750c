CONSTANTS
    Clients = {c1, c2}
    Collecting = TRUE
    MaxChanges = 2
    MaxLost = 1
SPECIFICATION FairSpec
INVARIANTS NoLostWakeup
PROPERTY VersionsCatchUp
CHECK_DEADLOCK FALSE
