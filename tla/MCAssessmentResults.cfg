CONSTANTS
    Workers = {w1, w2}
    Stages = {"HAZARD", "RISK"}
    MaxRows = 3
    PageLimit = 2
    MaxSamples = 4
    MaxValue = 2
    KendallLimit = 4
    Attempts = {a1, a2, a3, a4}
    Processes = {p1, p2}
    Quota = 1
    Window = 2
    MaxTime = 3
SYMMETRY MCSymmetry
SPECIFICATION MCSpec
INVARIANTS
    ResultsAreSound
    VersionsFollowRequests
    ReportsAreFresh
    MetricsAreRight
    ModelsAreRight
    IndicesAreSound
    LimitIsExact
PROPERTIES
    ImplementsLog
CHECK_DEADLOCK FALSE
