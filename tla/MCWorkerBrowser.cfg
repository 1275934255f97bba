SPECIFICATION FairSpec
CONSTANTS
    j1 = j1
    j2 = j2
    p1 = p1
    None = None
    Jobs = {j1, j2}
    Products = {p1}
    TargetOf <- MCTargetOf
    Sessions = {1, 2, 3, 4, 5}
    Events = {"crash", "kill_fails", "start_fails", "half_start", "stop", "challenge"}
    MaxEvents = 1
INVARIANTS
    TypeOK
    JobKeepsBrowser
    NoOrphanBrowser
PROPERTIES
    JobEnds
CHECK_DEADLOCK FALSE
