\* A request at a time (requests share no state of this module), responses
\* of up to seven bytes (two fields with a value) masked by up to two rules,
\* one backend without a scheme.
CONSTANTS
    Slot = {q1}
    Backend = {b1, b2}
    Schemeless = {b2}
    NoBackend = NoBackend
    Limiter = TRUE
    Param = {p1, p2}
    Ceiling = 7
    MaxRules = 2

SPECIFICATION FairSpec

INVARIANTS
    TypeOK
    RefusedBeforeSelection
    BlameMatchesOutcome
    MaskedWhole

PROPERTY
    HeadWaitEnds
