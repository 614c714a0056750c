CONSTANTS
    WordBits = 2
    Words = 2
    Senders = {s1}
    Receivers = {r1}
    MaxPackets = 7
    MaxRotations = 0
SPECIFICATION Spec
SYMMETRY Symmetry
INVARIANTS NoReplay
CHECK_DEADLOCK FALSE
