SPECIFICATION Spec
CONSTANTS
    p1 = p1
    p2 = p2
    NoProduct = NoProduct
    Products = {p1}
    Shops = {"mediamarkt"}
    Modes = {"selenium"}
    MaxFlips = 0
    MaxEvents = 0
INVARIANT
    SoldOutIsSilent
