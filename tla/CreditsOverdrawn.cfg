SPECIFICATION CreditSpec
CONSTANTS
    CreditReqs = {r1, r2}
    Amounts <- SomeAmounts
    MonthlyAmounts = {1, 2}
    Bonus = 1
    MaxEver = 3
SYMMETRY CreditSlots
INVARIANTS SendsCovered
CHECK_DEADLOCK FALSE
