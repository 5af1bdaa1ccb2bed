---------------------------- MODULE MCRoleSaves ----------------------------
(* RoleSaves for TLC: players and game servers are symmetric. *)
EXTENDS RoleSaves, TLC

Symmetry == Permutations(Uids) \union Permutations(ServerIds)
=============================================================================
