CONSTANTS
    Conns = {c1, c2}
    Kinds <- OneKind
    SendCap = 1
    BroadcastCap = 1
    WireCap = 1
    MaxFaults = 1
SPECIFICATION FairSpec
PROPERTIES DeadLeaves Reconnects
CHECK_DEADLOCK FALSE
INVARIANTS ClosedOnce OneConnection
