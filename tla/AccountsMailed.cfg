SPECIFICATION AccountsSpec
CONSTANTS
    Account = {c1, c2}
    AccReq = {h1, h2}
    MaxCode = 3
    MaxAccOps = 3
    NoAcc = NoAcc
INVARIANTS
    MailedCodeWorks
CHECK_DEADLOCK FALSE
