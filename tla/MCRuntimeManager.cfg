SPECIFICATION Spec
CONSTANTS
    c1 = c1
    c2 = c2
    Callers <- TwoCallers
    MaxRuntimes = 2
    Events = {"worker_dies", "boot_raises", "log_raises"}
SYMMETRY Symmetry
INVARIANTS
    TypeOK
    WantedIsCurrent
    ContextIsCurrent
    OneWorker
    ClosedIsQuiet
    ShutdownIsFinal
CHECK_DEADLOCK FALSE
