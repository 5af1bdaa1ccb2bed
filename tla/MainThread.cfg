CONSTANTS
    Handlers = {h1, h2, h3, h4}
    Addresses = {a1, a2}
    Passwords = {p1}
    MaxId = 2
    ChanCap = 2
    DbFaults = TRUE
    None = None
SPECIFICATION Spec
SYMMETRY Symmetry
CHECK_DEADLOCK FALSE
INVARIANTS
    TypeOK
    PasswordGuards
    RoomIdKept
    RepliesTrue
    OnlyFailedUpdateBlocks
