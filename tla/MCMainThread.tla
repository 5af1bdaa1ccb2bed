---------------------------- MODULE MCMainThread ----------------------------
(* Values for the model checker: requests, rooms and passwords are symmetric. *)
EXTENDS MainThread, TLC

Symmetry ==
    Permutations(Handlers) \union Permutations(Addresses)
    \union Permutations(Passwords)
=============================================================================
