SPECIFICATION FairSpec
CONSTANTS
    p1 = p1
    p2 = p2
    NoProduct = NoProduct
    Products = {p1}
    Shops = {"mediamarkt", "dreamland", "bol", "pocketgames"}
    Modes = {"selenium"}
    MaxFlips = 2
    MaxEvents = 1
INVARIANTS
    TypeOK
    AlertsOnce
    NoSilentRestock
    BuysOncePerWindow
PROPERTY
    RestockTold
