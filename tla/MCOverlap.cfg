\* Two handlers over backends of weights 2 and 1.
CONSTANTS
    NumBackends = 2
    NumThreads = 2
    FailureThreshold = 1
    HealthyThreshold = 1
    Cooldown = 1
    U32Max = 1
    MaxTime = 1
    ActiveChecks = FALSE
    Weight <- MCWeight
SPECIFICATION OverlapSpec
INVARIANTS
    TypeOK
    WeightConserved
    NoDrift
    SelectedWasEligible
    HoldOutBounded
    EjectedIsArmed
PROPERTY
    ImplementsSelection
