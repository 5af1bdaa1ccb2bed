----------------------------- MODULE MCRoleStore -----------------------------
(* RoleStore for TLC: players are interchangeable, and so are the names that *)
(* are played and those that are not.                                        *)
EXTENDS RoleStore, TLC

Symmetry ==
    Permutations(Uids) \union Permutations(Played)
        \union Permutations(Names \ Played)
=============================================================================
