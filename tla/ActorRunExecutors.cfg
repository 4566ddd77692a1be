\* One attempt, two executors of the tick, a token that masks storage as 404.
SPECIFICATION Spec
CONSTANTS
    r1 = r1  r2 = r2  poller = poller  smoke = smoke  smoke2 = smoke2
    Runs <- OneRun
    Processes <- WithSmoke
    ProcOf <- PollerStarts
    ScopeOf <- OneScope
    OwnStarter <- NoRun
    MaxRunPolls = 1
    MaxDatasetReads = 2
    MaxDeleteAttempts = 2
    Trust404 = FALSE
    Masking = TRUE
    Excess = FALSE
    MaxFaults = 1
INVARIANTS
    TrackedSpend
    SettledMeansQuiet
    LatchCommitted
\* A settled run has nothing left to do: the system may stop.
CHECK_DEADLOCK FALSE
