CONSTANTS
    u1 = u1
    s1 = s1
    s2 = s2
    Uids = {u1}
    ServerIds = {s1, s2}
    None = None
    EarlyUids = {u1}
    DbFaults = TRUE
    MaxLid = 2
    MaxServerConn = 2
SPECIFICATION Spec
INVARIANT OneServerPerPlayer
