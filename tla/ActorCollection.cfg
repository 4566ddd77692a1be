CONSTANTS
    Sources <- SmallSources
    CapSets <- SmallCaps
    FaultModes <- AllFaults
    Conducts <- AllConducts
    ReadSize = 2
    MaxErrors = 2
    PageLimit = 2
    Undeclared = Undeclared
    None = None
SPECIFICATION Spec
INVARIANTS CompleteMeansWhole HonestReportStands
PROPERTIES EveryRunIsJudged
