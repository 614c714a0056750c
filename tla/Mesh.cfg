CONSTANTS
    Keys = {k1, k2}
    VIPs = {v1, v2}
    Peers = {p1, p2, p3}
    NoPeer = NoPeer
    Collecting = TRUE
SPECIFICATION Spec
SYMMETRY Symmetry
INVARIANTS IndexSound IndexComplete UnlistedExpired
CHECK_DEADLOCK FALSE
