CONSTANTS
    u1 = u1
    s1 = s1
    Uids = {u1}
    ServerIds = {s1}
    None = None
    EarlyUids = {}
    DbFaults = FALSE
    MaxLid = 1
    MaxServerConn = 1
SPECIFICATION Spec
INVARIANT UserMapComplete
