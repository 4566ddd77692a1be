CONSTANTS
    Profiles <- AllProfiles
    Baseline = 2
    Ceiling = 1
    CleanPolls = 1
    RotThreshold = 2
    BackoffBase = 1
    BackoffCap = 1
    SourceBurst = 1
    DomainBurst = 2
    Window = 1
    MaxFails = 2
SPECIFICATION FairSpec
INVARIANT BlockedNeverRuns
PROPERTIES PauseHolds MonitorGoesQuiet RestartKeepsDomain
CHECK_DEADLOCK FALSE
