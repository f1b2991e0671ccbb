SPECIFICATION FairSpec
CONSTANTS
    A = A
    T1 = T1
    NoTemplate = NoTemplate
    StageType <- MCStageType
    TemplateId <- MCTemplateId
    Template <- MCTemplate
    Tx = {t1, t2}
    NoTx = NoTx
    MaxEvents = 6
INVARIANTS
    OutboxSequence
PROPERTIES
    TransactionsEnd
    ImplementsLifecycle
CHECK_DEADLOCK FALSE
