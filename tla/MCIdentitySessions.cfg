SPECIFICATION Spec
CONSTANTS
    Request = {r1, r2}
    Reset = {k1}
    MaxTokens = 3
    MaxRevocations = 2
SYMMETRY RequestSymmetry
VIEW SearchView
CONSTRAINT SearchBound
INVARIANTS
    OldSessionsEnd
    AccessEnds
    TokenFamilies
    RolesFitRoutes
CHECK_DEADLOCK FALSE
