CONSTANTS
    Message = {m1, m2}
    Request = {r1, r2}
    MaxOutbox = 1
    MaxRollback = 0
    MaxKill = 1
    LifeMsg = {n1}
    LifeJob = {j1, j2}
    MaxText = 2
    MaxOpen = 2
    NoMsg = NoMsg
    Buy = {y1, y2}
    MaxTries = 2
    MaxTaps = 1
    NoBuy = NoBuy
    Text = {1, 2}
    SmartText = {2}
    Task = {k1, k2}
    MaxActs = 3
SPECIFICATION ChatLifeSpec
INVARIANTS
    TextsAgree
PROPERTIES
    TriggerHonoured
    ShimmerEnds
    PaymentTold
    ProgressEnds
CHECK_DEADLOCK FALSE
