SPECIFICATION Spec
CONSTANTS
    Request = {r1, r2}
    Reset = {k1}
    MaxTokens = 3
    MaxRevocations = 2
SYMMETRY RequestSymmetry
INVARIANT
    AccessAlwaysEnds
CHECK_DEADLOCK FALSE
