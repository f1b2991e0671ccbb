CONSTANTS
    j1 = j1
    j2 = j2
    Jobs = {j1, j2}
    Executors = {e1, e2}
    Editors = {d1}
    Requests <- MCRequests
    MaxCatalogued = 1
SPECIFICATION Spec
INVARIANTS
    CatalogueIsSound
    JobsMatchDatasets
PROPERTIES
    RowsMoveForward
    StartedJobsSettle
CHECK_DEADLOCK FALSE
