SPECIFICATION JoinSpec
CONSTANTS
    Parties = {a}
    Selves = {me, me2}
    MaxOrder = 3
    MaxEdits = 0
    MaxCharges = 0
    TokenReqs = {r1, r2}
    OwnerReqs = {o1, o2}
SYMMETRY Slots
INVARIANTS OrderKept SignedOnce SignedVerified FinalPdfSound TextAccounted
PROPERTIES CeremonyKept
CHECK_DEADLOCK FALSE
