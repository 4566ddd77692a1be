\* Two attempts of one scope in one poller process.
SPECIFICATION Spec
CONSTANTS
    r1 = r1  r2 = r2  poller = poller  smoke = smoke  smoke2 = smoke2
    Runs <- TwoRuns
    Processes <- OnePoller
    ProcOf <- PollerStarts
    ScopeOf <- OneScope
    OwnStarter <- NoRun
    MaxRunPolls = 0
    MaxDatasetReads = 1
    MaxDeleteAttempts = 1
    Trust404 = FALSE
    Masking = FALSE
    Excess = FALSE
    MaxFaults = 1
INVARIANTS
    OneOutstandingFull
PROPERTIES
    RefusalStopsAdmission
\* With both attempts settled nothing is left to do: the system may stop.
CHECK_DEADLOCK FALSE
