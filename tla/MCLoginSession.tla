--------------------------- MODULE MCLoginSession ---------------------------
(* LoginSession for TLC: players and game servers are interchangeable. *)
EXTENDS LoginSession, TLC

Symmetry == Permutations(Uids) \union Permutations(ServerIds)
=============================================================================
