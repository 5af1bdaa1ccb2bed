CONSTANTS
    a1 = a1
    a2 = a2
    a3 = a3
    p1 = p1
    p2 = p2
    pl = pl
    m1 = m1
    m2 = m2
    None = None
    Requests = {1, 2, 3, 4}
    Names = {a1, a2, a3}
    Passwords = {p1, p2, pl}
    Mails = {m1, m2}
    TooLong = {pl}
    EarlyRows <- MCEarlyRows
    Levels = {1, 2}
    EarlyAdmins <- MCEarlyAdmins
    Timeout = 1
    OperateLimit = 1
    Workloads <- MCWorkloads
SPECIFICATION Spec
CHECK_DEADLOCK FALSE
INVARIANTS
    TypeOK
    AnswersExplained
    AdminOnce
    CleanupRegular
PROPERTIES
    RowsNeverStolen
    RevokedActsBriefly
    CleanupKeepsLive
