CONSTANTS
    PubKeys = {k1, k2}
    AuthKeys = {a, e}
    Ephemeral = {e}
    Expiring = {e}
    Handlers = {h1, h2}
    PoolSize = 2
    StaleAge = 0
    ExpireAge = 1
    Manual = TRUE
    Retrying = TRUE
    MaxIds = 3
    MaxVersion = 3
    MaxTime = 2
    MaxFails = 1
    MaxCrashes = 1
SPECIFICATION MCSpec
SYMMETRY Symmetry
INVARIANTS UniqueVIP AckDurable ActiveOnlyIfApproved VIPStableAlone EphemeralOnceAlone
CHECK_DEADLOCK FALSE
