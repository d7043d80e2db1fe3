SPECIFICATION Spec
CONSTANTS
    Payment = {p1, p2, p3}
    User = {u1}
    Offer = {o1, o2}
    Trans = {t1, t2}
    Session = {s1}
    PendingPolicy = "cancel_and_recreate"
INVARIANTS
    PaidIsBacked
    GrantedAtMostOnce
    SettledTogether
    ConfirmedIsPaid
    RefusalJustified
    PrepareKept
PROPERTIES
    ImplementsContract
SYMMETRY Symmetry
CHECK_DEADLOCK FALSE
