SPECIFICATION MCSpec
CONSTANTS
    A = A
    B = B
    X = X
    T1 = T1
    T2 = T2
    NoTemplate = NoTemplate
    AttemptCap = 2
    StageType <- MCStageType
    TemplateId <- MCTemplateId
    Template <- MCTemplate
INVARIANTS
    Inv
PROPERTIES
    BindingIsPermanent
    WorkIsNeverUndone
CHECK_DEADLOCK FALSE
