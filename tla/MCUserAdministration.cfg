SPECIFICATION Spec
CONSTANTS
    User = {u1, u2}
    OtherRole = {ADMIN}
    Tx = {t1, t2}
    MaxVersion = 2
INVARIANTS
    OwnerRemains
    UsedMeansAccepted
PROPERTIES
    CommittedStatusLegal
SYMMETRY HandlerSymmetry
CHECK_DEADLOCK FALSE
