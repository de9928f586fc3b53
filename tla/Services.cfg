SPECIFICATION ServicesSpec
CONSTANTS
    Plans = {starter, pro}
    StripeReqs = {h1, h2}
    MaxEvents = 3
    MakeReqs = {m1, m2}
    Limit <- Table
    MaxRows = 4
    Users = {u1, u2, u3}
    PromoReqs = {p1, p2}
    MaxUses = {0, 1, 2}
    Loggers = {l1, l2}
    MaxClock = 2
    MaxEntries = 3
    Guards = {g1, g2}
    Ttl = 2
    MaxTime = 5
    Urls = {job1, job2}
    Scans = {night, user}
    Nightly = night
    OtpReqs = {r1, r2}
    MaxAttempts = 2
    MaxCodes = 2
    CreditReqs = {q1, q2}
    Amounts <- SomeAmounts
    MonthlyAmounts = {1, 2}
    Bonus = 1
    MaxEver = 2
INVARIANTS ServicesTypeOK TierEarned MonthlyLimitHeld UsesCounted UsesLimited LinksGoBack ForksExplained StatusIsRecent NotifiedWasMailed MissesCounted GuessesBounded CreditsBacked
CHECK_DEADLOCK FALSE
