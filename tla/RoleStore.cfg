CONSTANTS
    Uids = {u1, u2}
    Names = {n1, n2, n3}
    Slots = {0, 1}
    None = None
    DbFaults = TRUE
    Played = {n1}
    MaxPlaying = 2
SPECIFICATION Spec
SYMMETRY Symmetry
INVARIANTS
    TypeOK
    ColumnsMatchFile
    RankOwned
PROPERTIES
    ImplementsNameRegistry
CHECK_DEADLOCK FALSE
