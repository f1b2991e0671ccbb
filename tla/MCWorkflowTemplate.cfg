SPECIFICATION FairSpec
CONSTANTS
    StageType = {A, B, C}
    MaxDefinitions = 4
INVARIANTS
    AcceptedNeverStuck
    VerdictIsExact
PROPERTIES
    ValidationEnds
CHECK_DEADLOCK FALSE
