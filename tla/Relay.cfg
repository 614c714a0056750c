CONSTANTS
    c1 = c1
    c2 = c2
    c3 = c3
    k1 = k1
    k2 = k2
    NoConn = NoConn
    Conns = {c1, c2, c3}
    KeyOf <- MCKeyOf
    MaxClients = 1
    SendCap = 1
SPECIFICATION FairSpec
INVARIANTS RegisteredOpen NoGhost CutOffOnlyByOverlap LimitOnlyByRace
PROPERTY WritersEnd
CHECK_DEADLOCK FALSE
