CONSTANTS
    Uids = {u1, u2}
    Orders = {o1, o2}
    Amounts = {1, 2}
    Costs = {1, 2}
    Requests = {r1, r2, r3, r4, r5}
    Modes <- MCModes
    None = None
SPECIFICATION Spec
SYMMETRY Symmetry
INVARIANTS
    TypeOK
    NoMoneyInvented
    OrderRowsBounded
    AcceptedIsCredited
    OverspendBounded
