SPECIFICATION FairSpec
CONSTANTS
    A = A
    B = B
    C = C
    X = X
    Diamond = Diamond
    Gated = Gated
    Unpublished = Unpublished
    NoTemplate = NoTemplate
    StageType <- MCTwoStages
    TemplateId <- MCStartable
    Template <- MCTemplate
    Attempts = 2
    Request = {r1}
    StartRequest = {r1}
    ManualRequest = {}
    User = {u1}
    MaxInFlight = 1
    UserCommand <- MCSetup
PROPERTIES
    RunningStagesSettle
CHECK_DEADLOCK FALSE
