CONSTANTS
    NumBackends = 1
    NumThreads = 2
    FailureThreshold = 1
    HealthyThreshold = 1
    Cooldown = 1
    U32Max = 1
    MaxTime = 2
    ActiveChecks = FALSE
    Weight <- MCWeight
SPECIFICATION UnavailableSpec
PROPERTY
    UnavailableOnlyIfNoneEligible
