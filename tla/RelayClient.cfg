CONSTANTS
    Senders = {s1}
    ClientCap = 1
    MaxConnects = 2
    MaxFaults = 1
SPECIFICATION ClientFairSpec
INVARIANTS PanicOnlyByRace StolenOnce
PROPERTIES MuteIsLeft ShutdownEnds
CHECK_DEADLOCK FALSE
