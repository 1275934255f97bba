SPECIFICATION Spec
CONSTANTS
    p1 = p1
    NoKey = NoKey
    Keys <- OneProduct
    Faults = {"watchdog"}
    MaxQueue = 2
    MaxCharges = 2
PROPERTY AutoRetryBlocked
CHECK_DEADLOCK FALSE
