SPECIFICATION Spec
CONSTANTS
    Message = {m1, m2, m3}
    Request = {r1, r2}
    MaxOutbox = 2
    MaxRollback = 1
    MaxKill = 1
INVARIANTS
    SentOnce
    NothingLost
    OldestFirst
PROPERTIES
    ImplementsDelivery
SYMMETRY Symmetry
CHECK_DEADLOCK FALSE
