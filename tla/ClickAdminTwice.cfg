SPECIFICATION DeskSpec
CONSTANTS
    Payment = {p1, p2}
    User = {u1}
    Offer = {o1}
    Trans = {t1, t2}
    Session = {s1}
    PendingPolicy = "return_existing"
    Admin = {a1}
INVARIANTS
    GrantedAtMostOnce
SYMMETRY Symmetry
CHECK_DEADLOCK FALSE
