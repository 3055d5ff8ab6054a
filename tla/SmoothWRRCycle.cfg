CONSTANTS
    NumBackends = 4
    MaxWeight = 3

SPECIFICATION CycleSpec

INVARIANTS
    GroupBounded
    WithinBound
    Proportional
    Smooth
