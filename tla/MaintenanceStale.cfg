SPECIFICATION PromptSpec
CONSTANTS
    Guards = {g1}
    Ttl = 2
    MaxTime = 3
INVARIANTS PickedUpImmediately
CHECK_DEADLOCK FALSE
