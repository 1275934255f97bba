SPECIFICATION FairSpec
CONSTANTS
    p1 = p1
    NoKey = NoKey
    Keys <- OneProduct
    Faults = {"watchdog", "raise", "click_lost", "write_lost", "crash", "clear", "watchlist",
              "misread"}
    MaxQueue = 2
    MaxCharges = 3
INVARIANTS
    TypeOK
    ChargedOnce
    PaymentRemembered
    QueuedIsBacked
PROPERTIES
    SettledIsFinal
    KeepsLedger
    QueuedResolves
