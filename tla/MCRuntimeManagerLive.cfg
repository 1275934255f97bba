SPECIFICATION FairSpec
CONSTANTS
    c1 = c1
    c2 = c2
    Callers <- OneCaller
    MaxRuntimes = 2
    Events = {"borrow"}
PROPERTIES
    CancelledEnds
    CallsReturn
CHECK_DEADLOCK FALSE
