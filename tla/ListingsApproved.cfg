CONSTANTS
    Product = {p1}
    TopPayment = {y1}
    NoProduct = NoProduct
    TopSlots = 1
    StrikeLimit = 2
    MaxAdminPins = 1
    MaxEdits = 2
SPECIFICATION ListingSpec
INVARIANTS PublishedIsApproved
CHECK_DEADLOCK FALSE
