CONSTANTS
    ServerIds = {s1, s2}
    CacheSec = 3
    SendSec = 3
    TickSec = 2
    MaxDelay = 1
    MaxNow = 12
    Pages = {w1}
    None = None
    Garbage = Garbage
SPECIFICATION Spec
SYMMETRY Symmetry
CHECK_DEADLOCK FALSE
INVARIANTS
    TypeOK
    RankLagBounded
    PageShowsTruth
