-------------------------- MODULE MCServerListPage --------------------------
(* ServerListPage for TLC: game servers are interchangeable. *)
EXTENDS ServerListPage, TLC

Symmetry == Permutations(ServerIds) \union Permutations(Pages)
=============================================================================
