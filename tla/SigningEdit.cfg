SPECIFICATION EditSpec
CONSTANTS
    Parties = {a}
    Selves = {}
    MaxOrder = 1
    MaxEdits = 2
    MaxCharges = 1
    TokenReqs = {r1}
    OwnerReqs = {o1, o2}
INVARIANTS TextAccounted
PROPERTIES LinkDelivered
CHECK_DEADLOCK FALSE
