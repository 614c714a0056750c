CONSTANTS
    Clients = {c1}
    Collecting = FALSE
    MaxChanges = 2
    MaxLost = 0
SPECIFICATION Spec
INVARIANTS VersionNamesState
CHECK_DEADLOCK FALSE
