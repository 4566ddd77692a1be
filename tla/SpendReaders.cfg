\* Two processes that both selected a row before either read it.
SPECIFICATION Spec
CONSTANTS
    v1 = v1  v2 = v2  v3 = v3  poller = poller  smoke = smoke
    Resv <- One
    Classes <- RuntimeOnly
    Pollers <- OnePoller
    Smokes <- OneSmoke
    Anchors = {0}
    CycleLen = 3
    Guard = 1
    Exec = 2  Post = 1  Call = 1  Margin = 0
    MaxRunPolls = 0
    MaxCorrReads = 4
    ClosingReserve = 1
    SettleDelay = 0
    StableReads = 1
    StableInterval = 1
    FinalizeAfter = 0
    CorrWindow = 3
    StableMode = FALSE
    CountedMode = TRUE
    Target = 20  Allowance = 5  WatchReserve = 1  External = 1  Usable = 22
    Figures = {1}
    Excess = FALSE
    MaxTime = 2
    MaxFaults = 0
INVARIANTS
    ClosingReadKept
CHECK_DEADLOCK FALSE
