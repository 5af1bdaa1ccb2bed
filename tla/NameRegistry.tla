---------------------------- MODULE NameRegistry ----------------------------
(***************************************************************************)
(* What players may expect of role names: a name has one holder at most,   *)
(* who got it while nobody had it, and keeps it until his role is deleted  *)
(* or the server loses track of his names altogether.                      *)
(***************************************************************************)
CONSTANTS Uids, Names

VARIABLE holders   \* holders[n]: the players who hold n

Init == holders = [n \in Names |-> {}]

Claim(n, u) ==
    /\ holders[n] = {}
    /\ holders' = [holders EXCEPT ![n] = {u}]

Release(n) ==
    /\ holders[n] # {}
    /\ holders' = [holders EXCEPT ![n] = {}]

\* All names of a player go at once.
Forget(u) ==
    holders' = [n \in Names |-> holders[n] \ {u}]

Next ==
    \/ \E n \in Names : Release(n)
    \/ \E n \in Names, u \in Uids : Claim(n, u)
    \/ \E u \in Uids : Forget(u)

Spec == Init /\ [][Next]_holders
=============================================================================
