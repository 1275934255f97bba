SPECIFICATION Spec
CONSTANTS
    p1 = p1
    p2 = p2
    NoProduct = NoProduct
    Products = {p1}
    Shops = {"pocketgames"}
    Modes = {"selenium"}
    MaxFlips = 2
    MaxEvents = 0
PROPERTY
    UnchangedIsQuiet
