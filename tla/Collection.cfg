CONSTANTS
    Keys = {k1}
    MaxRuns = 3
    s1 = s1
    Scopes = {s1}
    Null = Null
    Sources <- AllSources
    Ttl = 2
    Grace = 1
    Tolerance = 1
    MaxTime = 4
SPECIFICATION Spec
INVARIANTS ActiveOutlivesSweeps OrderDoesNotMatter EndedContentRetired
PROPERTIES OwnSightingKept StaleAbsenceProven
CHECK_DEADLOCK FALSE
