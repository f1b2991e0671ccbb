CONSTANTS
    Workers = {w1, w2}
    Stages = {"HAZARD", "RISK"}
    MaxRows = 3
    PageLimit = 2
SPECIFICATION Spec
PROPERTY FinalizedIsFinal
CHECK_DEADLOCK FALSE
