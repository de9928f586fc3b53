SPECIFICATION HookSpec
CONSTANTS
    Deliveries = {d1, d2}
    Keys = {k1, k2}
    MaxRetries = 1
    Threshold = 2
    MaxEvents = 4
INVARIANTS HookTypeOK HonestCounter NotSwitchedOffEarly
PROPERTIES DeliverySettles
CHECK_DEADLOCK FALSE
