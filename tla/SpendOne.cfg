\* One reservation, its settlement and its monitoring across a cycle boundary.
SPECIFICATION Spec
CONSTANTS
    v1 = v1  v2 = v2  v3 = v3  poller = poller  smoke = smoke
    Resv <- One
    Classes <- RuntimeOnly
    Pollers <- OnePoller
    Smokes <- NoProcess
    Anchors = {0, 1}
    CycleLen = 3
    Guard = 1
    Exec = 2  Post = 1  Call = 1  Margin = 1
    MaxRunPolls = 1
    MaxCorrReads = 2
    ClosingReserve = 1
    SettleDelay = 0
    StableReads = 1
    StableInterval = 1
    FinalizeAfter = 2
    CorrWindow = 3
    StableMode = FALSE
    CountedMode = TRUE
    Target = 11  Allowance = 5  WatchReserve = 1  External = 1  Usable = 12
    Figures = {1, 3}
    Excess = FALSE
    MaxTime = 5
    MaxFaults = 1
INVARIANTS
    ChargesCounted
    NeverBelowEvidence
    CyclesDisjoint
    ClosingReadKept
PROPERTIES
    SettledOnlyRises
CHECK_DEADLOCK FALSE
