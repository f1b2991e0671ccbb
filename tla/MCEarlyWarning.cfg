CONSTANTS
    Rules = {r1, r2}
    Subs = {s1}
    Clerks = {w1, w2}
    RuleConfigs <- MCRuleConfigs
    SubConfigs <- MCSubConfigs
    Subjects = {"STAGE_RESULT", "PREDICTION"}
    HazardType = "FLOOD"
    Values = {0, 1}
    NoValue = NoValue
    MaxWrites = 2
    MaxEvaluations = 1
SYMMETRY ClerkSymmetry
SPECIFICATION AlertSpec
INVARIANTS
    AlertsAreSound
    NoAlertMissed
PROPERTIES
    EditsAreIndependent
CHECK_DEADLOCK FALSE
