\* A poller restarts while apify_smoke's selector-4 read is in flight.
SPECIFICATION Spec
CONSTANTS
    v1 = v1  v2 = v2  v3 = v3  poller = poller  smoke = smoke
    Resv <- One
    Classes <- RuntimeOnly
    Pollers <- OnePoller
    Smokes <- OneSmoke
    Anchors = {0}
    CycleLen = 3
    Guard = 1
    Exec = 2  Post = 1  Call = 1  Margin = 0
    MaxRunPolls = 0
    MaxCorrReads = 1
    ClosingReserve = 0
    SettleDelay = 0
    StableReads = 1
    StableInterval = 1
    FinalizeAfter = 0
    CorrWindow = 1
    StableMode = FALSE
    CountedMode = TRUE
    Target = 10  Allowance = 5  WatchReserve = 1  External = 1  Usable = 12
    Figures = {1}
    Excess = FALSE
    MaxTime = 6
    MaxFaults = 1
INVARIANTS
    MonitoringChargesCounted
CHECK_DEADLOCK FALSE
