CONSTANTS
    Product = {p1, p2}
    TopPayment = {y1, y2, y3}
    NoProduct = NoProduct
    TopSlots = 1
    StrikeLimit = 2
    MaxAdminPins = 1
    MaxEdits = 2
    Account = {a1, a2}
    Conn = {k1, k2}
    MaxOther = 1
    NoAcct = NoAcct
    NoConn = NoConn
SPECIFICATION Spec

    
PROPERTIES
    
    
    Reconnects
    PresenceFollows
CHECK_DEADLOCK FALSE
