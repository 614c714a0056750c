CONSTANTS
    Nodes = {a, b}
    MaxIds = 2
    MaxStarting = 2
    Crashing = {a, b}
    MaxRestarts = 1
    MaxAgings = 2
    MaxDatas = 1
    Paths = {TRUE, FALSE}
SPECIFICATION MCSpec
SYMMETRY Symmetry
INVARIANTS KeysUsedOnce IdsDisjoint StuckOnlyByRace OpensOnlyAtOtherEnd HandshakeAgreement SendSessionReceivable
PROPERTY ChannelsKept
CHECK_DEADLOCK FALSE
