SPECIFICATION MCSpec
CONSTANTS
    A = A
    B = B
    C = C
    X = X
    Diamond = Diamond
    Gated = Gated
    Unpublished = Unpublished
    NoTemplate = NoTemplate
    StageType <- MCStageType
    TemplateId <- MCTemplateId
    Template <- MCTemplate
    Attempts = 2
    Request = {r1, r2}
    StartRequest = {r1}
    ManualRequest = {r2}
    User = {u1}
    MaxInFlight = 2
    UserCommand <- MCUserCommand
INVARIANTS
    OneExecutorPerStage
    DispatchRespectsDag
    AttemptsBounded
    NothingForgotten
CHECK_DEADLOCK FALSE
