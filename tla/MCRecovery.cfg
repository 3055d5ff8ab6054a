\* Two requests at a time and the checker over two backends, one of which
\* goes down and comes back.
CONSTANTS
    NumBackends = 2
    Handler = {h1, h2}
    FailureThreshold = 1
    HealthyThreshold = 2
    Cooldown = 1
    Flaky = {1}
    SlowUploads = 1
SPECIFICATION FairSpec
PROPERTIES
    Recovers
    DownIsEjected
    ReadinessSettles
