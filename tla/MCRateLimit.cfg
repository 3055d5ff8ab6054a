\* Two addresses, two requests at once, one token a second and bursts of two,
\* in a build that checks arithmetic, where the cleanup task may die.
CONSTANTS
    Ip = {a1, a2}
    Handler = {h1, h2}
    RequestsPerSecond = 1
    Burst = 2
    TicksPerMs = 2
    MsPerSecond = 2
    OverflowChecks = TRUE
    NoIp = NoIp
SPECIFICATION FairSpec
INVARIANTS
    TypeOK
    RetryAfterSuffices
    RetryAfterIsTight
PROPERTIES
    ImplementsTokenBucket
    StaleEntriesPruned
