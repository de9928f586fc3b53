SPECIFICATION SignSpec
CONSTANTS
    Parties = {a, b, c}
    Selves = {}
    MaxOrder = 2
    MaxEdits = 0
    MaxCharges = 0
    TokenReqs = {r1, r2}
    OwnerReqs = {}
INVARIANTS NobodyForgotten
PROPERTIES Sealed NextInvited
CHECK_DEADLOCK FALSE
