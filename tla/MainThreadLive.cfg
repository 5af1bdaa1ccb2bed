CONSTANTS
    Handlers = {h1, h2, h3}
    Addresses = {a1}
    Passwords = {p1}
    MaxId = 1
    ChanCap = 1
    DbFaults = FALSE
    None = None
SPECIFICATION FairSpec
PROPERTY EveryRequestServed
