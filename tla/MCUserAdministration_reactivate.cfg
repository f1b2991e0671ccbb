SPECIFICATION Spec
CONSTANTS
    User = {u1, u2}
    OtherRole = {ADMIN}
    Tx = {t1}
    MaxVersion = 2
INVARIANTS
    PasswordOnceInvited
CHECK_DEADLOCK FALSE
