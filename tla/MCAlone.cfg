\* One handler and the health checker over backends of weights 1 and 3.
CONSTANTS
    NumBackends = 2
    NumThreads = 2
    FailureThreshold = 1
    HealthyThreshold = 1
    Cooldown = 1
    U32Max = 1
    MaxTime = 1
    ActiveChecks = TRUE
    Weight <- MCWeight
SPECIFICATION RefinementSpec
PROPERTY
    ImplementsSmoothWRR
