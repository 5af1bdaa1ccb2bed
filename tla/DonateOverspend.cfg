CONSTANTS
    Uids = {u1}
    Orders = {o1, o2}
    Amounts = {1, 2}
    Costs = {1, 2}
    Requests = {r1, r2, r3}
    Modes <- MCShopModes
    None = None
SPECIFICATION Spec
SYMMETRY Symmetry
INVARIANT
    NeverOverspent
