CONSTANTS
    NumberUser = {u1, u2}
    NumberSet = {n1, n2, n3}
    FreeNumber = {n1, n2}
    NumberPayment = {y1}
    NumberReq = {h1, h2}
    MaxNumberOps = 4
    NoOne = NoOne
    StripePay = {u1, u2}
    PaddlePay = {d1}
    McPay = {m1}
    PlanTx = {h1, h2}
    NoPay = NoPay
    PromoLimit = 1
    MaxBought = 2
    MaxLeft = 2
    MaxCalls = 3
    SesDevice = {u1, u2}
    RefTok = {1, 2, 3}
    SesReq = {h1, h2}
    NoTok = NoTok
    NoSes = NoSes
    GroupUser = {g1, g2, g3}
    GroupReq = {h1, h2}
    GroupLimit = 2
    MaxGroupOps = 5
    NoMember = NoMember
    Friend = {u1, u2}
    FriendReq = {h1, h2}
    DailyLimit = 2
    NoFriend = NoFriend
    DocType = {t1, t2}
    RequiredDoc = {t1}
    Doc = {1, 2, 3}
    Reviewer = {h1, h2}
    MaxReviews = 2
    Owner = Owner
    NoDocType = NoDocType
SPECIFICATION Spec
SYMMETRY Symmetry
INVARIANTS
    
    PromoWithinLimit
    PaidIsApplied
    OneLiveToken
    SignedOutForCause
    OneOwner
    FriendsConsented
    BadgeIsReviewed
CHECK_DEADLOCK FALSE
