CONSTANTS
    PubKeys = {k1, k2}
    AuthKeys = {e}
    Ephemeral = {e}
    Expiring = {}
    Handlers = {h1, h2}
    PoolSize = 2
    StaleAge = 0
    ExpireAge = 1
    Manual = FALSE
    Retrying = FALSE
    MaxIds = 2
    MaxVersion = 2
    MaxTime = 0
    MaxFails = 0
    MaxCrashes = 0
SPECIFICATION Spec
INVARIANT EphemeralOnce
CHECK_DEADLOCK FALSE
