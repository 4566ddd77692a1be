\* One attempt, one poller, every fault: the whole life of a run.
SPECIFICATION FairSpec
CONSTANTS
    r1 = r1  r2 = r2  poller = poller  smoke = smoke  smoke2 = smoke2
    Runs <- OneRun
    Processes <- OnePoller
    ProcOf <- PollerStarts
    ScopeOf <- OneScope
    OwnStarter <- NoRun
    MaxRunPolls = 2
    MaxDatasetReads = 2
    MaxDeleteAttempts = 2
    Trust404 = TRUE
    Masking = FALSE
    Excess = TRUE
    MaxFaults = 1
INVARIANTS
    TypeOK
    AnchorExact
    OutcomeOnce
PROPERTIES
    NoDeleteUnderWork
    OwnerResetFinal
    RejectsOnlyUncommitted
    EveryRunResolved
\* A settled run has nothing left to do: the system may stop.
CHECK_DEADLOCK FALSE
