CONSTANTS
    Profiles <- BothLanes
    Baseline = 2
    Ceiling = 1
    CleanPolls = 2
    RotThreshold = 2
    BackoffBase = 1
    BackoffCap = 1
    SourceBurst = 1
    DomainBurst = 2
    Window = 1
    MaxFails = 2
SPECIFICATION Spec

PROPERTY RestartKeepsBuckets
CHECK_DEADLOCK FALSE
