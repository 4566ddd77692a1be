\* Two executors of the tick: the stage-1 rejection is not a compare-and-set.
SPECIFICATION Spec
CONSTANTS
    r1 = r1  r2 = r2  poller = poller  smoke = smoke  smoke2 = smoke2
    Runs <- OneRun
    Processes <- WithSmoke
    ProcOf <- PollerStarts
    ScopeOf <- OneScope
    OwnStarter <- NoRun
    MaxRunPolls = 1
    MaxDatasetReads = 1
    MaxDeleteAttempts = 2
    Trust404 = FALSE
    Masking = FALSE
    Excess = FALSE
    MaxFaults = 0
PROPERTY RejectsOnlyUncommitted
CHECK_DEADLOCK FALSE
