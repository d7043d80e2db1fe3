SPECIFICATION BubbleSpec
CONSTANTS
    Message = {m1}
    Request = {r1}
    MaxOutbox = 2
    MaxRollback = 0
    MaxKill = 0
INVARIANTS
    NoDuplicateBubble
CHECK_DEADLOCK FALSE
