CONSTANTS
    u1 = u1
    u2 = u2
    s1 = s1
    s2 = s2
    Uids = {u1, u2}
    ServerIds = {s1, s2}
    None = None
    EarlyUids = {}
    DbFaults = FALSE
    MaxLid = 2
    MaxServerConn = 3
SPECIFICATION Spec
SYMMETRY Symmetry
INVARIANTS
    TypeOK
    OneServerPerPlayer
    OnlineServerRegistered
    RowMatchesClient
    RegistryConsistent
    LidsFresh
    UserMapSound
    LoginNtfJustified
PROPERTIES
    BindingFixed
    RowRemovalIsNarrow
    ImplementsPresence
