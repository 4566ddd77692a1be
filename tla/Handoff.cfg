\* Three environments, two cycles, two operations of which the cap holds one
\* and a half: a second environment must count what the first one spent.
CONSTANTS
    Env = {a, b, c}
    Nobody = nobody
    Ops = {o1, o2}
    MaxCycle = 1
    Cap = 4
    Est = 2
    Mon = 1
    Actuals = {1}
    Extra = 1
SPECIFICATION Spec
INVARIANTS
    OneAuthority
    ExportIsFinal
PROPERTY PoolSpec
SYMMETRY Symmetry
CHECK_DEADLOCK FALSE
