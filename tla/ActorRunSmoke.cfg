\* Two invocations of apify_smoke start a run of one scope.
SPECIFICATION Spec
CONSTANTS
    r1 = r1  r2 = r2  poller = poller  smoke = smoke  smoke2 = smoke2
    Runs <- TwoRuns
    Processes <- TwoSmokes
    ProcOf <- SmokeStarts
    ScopeOf <- OneScope
    OwnStarter <- TwoRuns
    MaxRunPolls = 1
    MaxDatasetReads = 1
    MaxDeleteAttempts = 2
    Trust404 = FALSE
    Masking = FALSE
    Excess = FALSE
    MaxFaults = 0
INVARIANT OneOutstandingFull
CHECK_DEADLOCK FALSE
