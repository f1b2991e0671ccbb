CONSTANTS
    Workers = {w1, w2}
    Stages = {"HAZARD", "RISK"}
    MaxRows = 3
    PageLimit = 2
SPECIFICATION Spec
INVARIANT VersionsUnique
CHECK_DEADLOCK FALSE
