SPECIFICATION Spec
CONSTANTS
    Parties = {a, b}
    Selves = {}
    MaxOrder = 2
    MaxEdits = 0
    MaxCharges = 0
    TokenReqs = {r1, r2}
    OwnerReqs = {}
INVARIANTS SignatureStands
CHECK_DEADLOCK FALSE
