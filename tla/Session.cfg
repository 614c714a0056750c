CONSTANTS
    WordBits = 2
    Words = 2
    Senders = {s1}
    Receivers = {r1, r2}
    MaxPackets = 5
    MaxRotations = 1
SPECIFICATION Spec
SYMMETRY Symmetry
INVARIANTS NoReplayBeforeSlide CurrentKeyNonceUnique FirstWindowExact
CHECK_DEADLOCK FALSE
