\* A crash between recording a mismatch and tripping the latch.
SPECIFICATION Spec
CONSTANTS
    r1 = r1  r2 = r2  poller = poller  smoke = smoke  smoke2 = smoke2
    Runs <- OneRun
    Processes <- OnePoller
    ProcOf <- PollerStarts
    ScopeOf <- OneScope
    OwnStarter <- NoRun
    MaxRunPolls = 1
    MaxDatasetReads = 1
    MaxDeleteAttempts = 2
    Trust404 = FALSE
    Masking = FALSE
    Excess = FALSE
    MaxFaults = 1
INVARIANT MismatchLatched
CHECK_DEADLOCK FALSE
