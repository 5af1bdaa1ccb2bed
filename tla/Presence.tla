------------------------------ MODULE Presence ------------------------------
(***************************************************************************)
(* What the login server promises about who is playing where, with no      *)
(* connections, no database rows and no handlers: a set of game servers    *)
(* that are up, and for each player the one game server it plays on, if    *)
(* any.  A player enters one server at a time, only a server that is up,   *)
(* and a server that goes down takes all of its players out at once.       *)
(*                                                                         *)
(* LoginSession implements this specification (see Implements there).      *)
(***************************************************************************)
CONSTANTS
    Uids,       \* the players (useraccount.uid)
    ServerIds,  \* the game servers (RegisterServerReq.ServerID)
    None        \* plays nowhere; the code's zero value

VARIABLES
    up,         \* the game servers that are up
    home        \* home[u]: where u plays, or None

vars == <<up, home>>

Init ==
    /\ up = {}
    /\ home = [u \in Uids |-> None]

ServerUp(s) ==
    /\ s \notin up
    /\ up' = up \union {s}
    /\ UNCHANGED home

\* All the players of a server that goes down leave it in the same step.
ServerDown(s) ==
    /\ s \in up
    /\ up' = up \ {s}
    /\ home' = [u \in Uids |-> IF home[u] = s THEN None ELSE home[u]]

Enter(u, s) ==
    /\ s \in up
    /\ home[u] = None
    /\ home' = [home EXCEPT ![u] = s]
    /\ UNCHANGED up

Leave(u) ==
    /\ home[u] # None
    /\ home' = [home EXCEPT ![u] = None]
    /\ UNCHANGED up

\* The login server restarts and forgets everything.
Reset ==
    /\ up' = {}
    /\ home' = [u \in Uids |-> None]

Next ==
    \/ \E s \in ServerIds : ServerUp(s) \/ ServerDown(s)
    \/ \E u \in Uids, s \in ServerIds : Enter(u, s)
    \/ \E u \in Uids : Leave(u)
    \/ Reset

Spec == Init /\ [][Next]_vars
=============================================================================
