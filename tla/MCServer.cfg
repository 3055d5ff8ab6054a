\* Three TLS clients for two connection slots, two streams each, one permit.
CONSTANTS
    Conn = {c1, c2, c3}
    Stream = {1, 2}
    MaxConnections = 2
    MaxRequests = 1
    Tls = TRUE
SPECIFICATION FairSpec
INVARIANTS
    TypeOK
    SlotsConserved
    PermitsConserved
PROPERTIES
    DrainCutsNone
    ShutdownCompletes
CHECK_DEADLOCK FALSE
