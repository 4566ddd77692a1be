\* Two reservations competing for one allocation.
SPECIFICATION Spec
CONSTANTS
    v1 = v1  v2 = v2  v3 = v3  poller = poller  smoke = smoke
    Resv <- Two
    Classes <- AllClasses
    Pollers <- OnePoller
    Smokes <- NoProcess
    Anchors = {0}
    CycleLen = 2
    Guard = 1
    Exec = 2  Post = 0  Call = 1  Margin = 0
    MaxRunPolls = 1
    MaxCorrReads = 1
    ClosingReserve = 0
    SettleDelay = 0
    StableReads = 1
    StableInterval = 1
    FinalizeAfter = 1
    CorrWindow = 1
    StableMode = TRUE
    CountedMode = FALSE
    Target = 8  Allowance = 3  WatchReserve = 1  External = 1  Usable = 7
    Figures = {0, 2}
    Excess = FALSE
    MaxTime = 3
    MaxFaults = 0
INVARIANTS
    CapsOrLatch
SYMMETRY Alike
VIEW Unbilled
CHECK_DEADLOCK FALSE
