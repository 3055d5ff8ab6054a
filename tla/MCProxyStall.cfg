\* One request whose response is masked.
CONSTANTS
    Slot = {q1}
    Backend = {b1, b2}
    Schemeless = {b2}
    NoBackend = NoBackend
    Limiter = TRUE
    Param = {p1, p2}
    Ceiling = 2
    MaxRules = 2
SPECIFICATION FairSpec
PROPERTY
    RoundTripEnds
