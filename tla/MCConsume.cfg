SPECIFICATION Spec
CONSTANTS
    None = None
    Lots <- MCLots
    Quantity <- MCQuantity
    Cost <- MCCost
    Orders <- MCOrders
    Methods = {"fifo", "hifo", "lifo"}
    AcquiredOn <- MCAcquired
    Dates = {6, 7, 10}
    Year = 3
INVARIANTS
    FormsAgree
    LossesDisallowed
    BasisDriftBounded
PROPERTIES
    LoopMeetsSelection
