SPECIFICATION PartSpec
CONSTANTS
    Payment = {p1, p2}
    User = {u1}
    Offer = {o1}
    Trans = {t1}
    Session = {s1, s2}
    PendingPolicy = "return_existing"
    Admin = {a1}
    Account = {c1, c2}
    AccReq = {h1, h2}
    MaxCode = 2
    MaxAccOps = 3
    NoAcc = NoAcc
    Turn = {v1, v2, v3, v4, v5, v6}
    MaxUser = 3
    NoTurn = NoTurn
    MaxHold = 3
    MaxTouch = 3
    Author = {s1, s2}
    ReviewCall = {h1, h2}
    Stars = {5}
    MaxText = 2
    MaxModerated = 2
INVARIANTS
    DeskKeepsFaith
    ReviewsStand
    MicAccounted
    NoOrphanTurn
    
PROPERTIES
    PurgedForGood
SYMMETRY Symmetry
CHECK_DEADLOCK FALSE
