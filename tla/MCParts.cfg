SPECIFICATION PartsSpec
CONSTANTS
    Payment = {p1, p2}
    User = {u1}
    Offer = {o1}
    Trans = {t1, t2}
    Session = {s1, s2}
    PendingPolicy = "return_existing"
    InboxChat = {c1, c2}
    GroupChat = {c2}
    InboxFilter = {"all", "groups"}
    NoInboxChat = NoInboxChat
    MaxSent = 1
    MaxLoads = 2
    MaxCards = 2
    MaxTexts = 1
    MaxUploads = 1
    Email = {e1, e2}
    App = {a1, a2}
    AppCall = {h1, h2}
    NoApp = NoApp
    Moderator = {h1, h2}
    ReviewChat = {n1, n2}
    Case = {1, 2}
    NoCase = NoCase
    AccessTtl = 2
    MaxStaffCalls = 3
INVARIANTS
    
    FormKeeps
    ApprovedIsOpened
    ReadForACase
PROPERTIES
    ChargeAnswered
CHECK_DEADLOCK FALSE
