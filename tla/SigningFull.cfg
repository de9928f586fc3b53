SPECIFICATION Spec
CONSTANTS
    Parties = {a}
    Selves = {}
    MaxOrder = 2
    MaxEdits = 0
    MaxCharges = 1
    TokenReqs = {r1}
    OwnerReqs = {o1}
INVARIANTS TypeOK
PROPERTIES NoRevival
CHECK_DEADLOCK FALSE
