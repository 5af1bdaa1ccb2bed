------------------------------ MODULE MCDonate ------------------------------
(* Values for the model checker: players, orders and requests are symmetric, *)
(* and so are the modes.                                                     *)
EXTENDS Donate, TLC

Mode(uids, requests, orders, readFaults) ==
    [uids |-> uids, requests |-> requests, orders |-> orders, purchases |-> 2,
     readFaults |-> readFaults]

\* One operator, one player, and queries that do not fail.
OneOperator(requests) == {Mode({u}, requests, 1, FALSE) : u \in Uids}

MCModes == {Mode(Uids, 4, 2, TRUE)} \union OneOperator(5)

MCShopModes == OneOperator(3)

Symmetry ==
    Permutations(Uids) \union Permutations(Orders) \union Permutations(Requests)
=============================================================================
