------------------------------ MODULE RoleSaves ------------------------------
(***************************************************************************)
(* Roles that are played: a game server is given the data of a role when   *)
(* its player logs in (onLoginGame), keeps it in memory, and sends it back *)
(* to be saved from time to time (SavePlayerData, SavePlayerExtData).  A   *)
(* part of the file that cannot be read does not stop the login: the game  *)
(* server is given none, as if there were none yet.                        *)
(*                                                                         *)
(* A save is carried out for any game server that is registered: whether   *)
(* the player is on it is not asked.  What keeps one game server from      *)
(* writing over the saves of another is only that a player is on one at a  *)
(* time, which is what Presence promises and LoginSession implements as    *)
(* long as no statement on online_player fails.  Its steps are used here,  *)
(* each with what it does to the copies of the data.  A player has one     *)
(* role; RoleStore is about creating and deleting roles.                   *)
(*                                                                         *)
(* A definition marked "Bug:" is the one after it with a plausible mistake *)
(* in it.  No specification uses it; it shows what the properties catch.   *)
(***************************************************************************)
EXTENDS Naturals

CONSTANTS
    Uids,        \* the players
    ServerIds,   \* the game servers
    None,        \* nowhere; no copy
    Unread,      \* the version of a part that was not read
    MaxSaves     \* bound: saves of a player's role

ASSUME SavesAssumption ==
    /\ None \notin ServerIds
    /\ MaxSaves \in Nat

VARIABLES
    up,        \* the game servers that are registered
    home,      \* home[u]: where u plays, by the rows of online_player
    file,      \* file[u]: the save file: the version of each of its parts
    copy,      \* copy[s][u]: the versions the data in s's memory are based on,
               \* or None
    saves,     \* saves[u]: how often u's role was saved; numbers the versions
    severed    \* history: players whose role a game server had in memory when
               \* it lost its connection, until no such copy is left

vars == <<up, home, file, copy, saves, severed>>

Presence == INSTANCE Presence

\* The level in the head of the file, the data, and the extended data.
Parts == {"info", "data", "ext"}

Versions == [Parts -> Nat]

Bases == [Parts -> Nat \union {Unread}]

\* Another version of some of the parts.
Written(versions, parts, n) ==
    [p \in Parts |-> IF p \in parts THEN n ELSE versions[p]]

Holders(u) == {s \in ServerIds : copy[s][u] # None}

\* What is left in severed when s no longer has the copy of u it had.
WithoutCopy(s, u) == IF Holders(u) \subseteq {s} THEN severed \ {u} ELSE severed

-----------------------------------------------------------------------------
(* Game servers come and go (handle_eventfromserver.go) *)

onRegisterServerReq(s) ==
    /\ Presence!ServerUp(s)
    /\ UNCHANGED <<file, copy, saves, severed>>

\* The game server may go on with the roles in its memory.
onEventFromServerDisconnected(s) ==
    /\ Presence!ServerDown(s)
    /\ severed' = severed \union {u \in Uids : s \in Holders(u)}
    /\ UNCHANGED <<file, copy, saves>>

\* Bug: a player may log in wherever he likes.
onLoginGame_anywhere(u, s) ==
    /\ s \in up
    /\ home' = [home EXCEPT ![u] = s]
    /\ copy' = [copy EXCEPT ![s][u] = file[u]]
    /\ severed' = WithoutCopy(s, u)
    /\ UNCHANGED <<up, file, saves>>

\* The game server replaces what it has of the role by what is in the file.  The
\* result of GetGameRoleInfo_Value is not looked at; a size of 0 of the data or
\* the extended data is that of a role that has none yet, also if the size could
\* not be read; and when ReadExtendData fails the player is told and let in all
\* the same.  Only when ReadGameRoleData fails the login is refused.
onLoginGame(u, s) ==
    /\ \/ Presence!Enter(u, s)
       \/ home[u] = s /\ UNCHANGED <<up, home>>
    /\ \E unread \in SUBSET Parts :
          copy' = [copy EXCEPT ![s][u] = Written(file[u], unread, Unread)]
    /\ severed' = WithoutCopy(s, u)
    /\ UNCHANGED <<file, saves>>

Discard(s, u) ==
    /\ copy[s][u] # None
    /\ copy' = [copy EXCEPT ![s][u] = None]
    /\ severed' = WithoutCopy(s, u)
    /\ UNCHANGED <<file, saves>>

\* A game server reports that a player left when it has saved his role for the
\* last time.  The row of the session goes; another session of the player may
\* have one, too, and a game server the player is no longer on removes nothing.
onPlayerDisconnectedNtf(s, u) ==
    /\ s \in up
    /\ Discard(s, u)
    /\ \/ Presence!Leave(u) /\ home[u] = s
       \/ UNCHANGED <<up, home>>

\* Without a connection it reports nothing.
LeaveUnreported(s, u) ==
    /\ s \notin up
    /\ Discard(s, u)
    /\ UNCHANGED <<up, home>>

-----------------------------------------------------------------------------
(* Saves (handle_eventfromserver.go) *)

\* Each part is written by a call that may fail, or the file cannot be opened;
\* no answer is sent.
Save(s, u, parts) ==
    /\ s \in up
    /\ copy[s][u] # None
    /\ saves[u] < MaxSaves
    /\ saves' = [saves EXCEPT ![u] = @ + 1]
    /\ \E written \in SUBSET parts :
          /\ file' = [file EXCEPT ![u] = Written(@, written, saves[u] + 1)]
          /\ copy' = [copy EXCEPT ![s][u] = Written(@, written, saves[u] + 1)]
    /\ UNCHANGED <<up, home, severed>>

SavePlayerData(s, u) == Save(s, u, {"info", "data"})

SavePlayerExtData(s, u) == Save(s, u, {"ext"})

-----------------------------------------------------------------------------

\* This program dies and starts again; game servers go on.
Restart ==
    /\ Presence!Reset
    /\ severed' = severed \union {u \in Uids : Holders(u) # {}}
    /\ UNCHANGED <<file, copy, saves>>

\* A file is made when it is opened first (getSaveFileHandle).
Init ==
    /\ Presence!Init
    /\ file = [u \in Uids |-> [p \in Parts |-> 0]]
    /\ copy = [s \in ServerIds |-> [u \in Uids |-> None]]
    /\ saves = [u \in Uids |-> 0]
    /\ severed = {}

Next ==
    \/ \E s \in ServerIds :
          \/ onRegisterServerReq(s)
          \/ onEventFromServerDisconnected(s)
    \/ \E s \in ServerIds, u \in Uids :
          \/ onLoginGame(u, s)
          \/ onPlayerDisconnectedNtf(s, u)
          \/ LeaveUnreported(s, u)
          \/ SavePlayerData(s, u)
          \/ SavePlayerExtData(s, u)
    \/ Restart

Spec == Init /\ [][Next]_vars

-----------------------------------------------------------------------------
(* Properties *)

\* No save is lost to an older one: whichever part of a file is written, its
\* writer has loaded or written what it writes over, although nobody asks
\* whether the player is on the game server that saves (SavePlayerData).  There
\* are two exceptions.  A role that a game server kept in memory while it was cut
\* off or this program restarted: meanwhile the player may have played elsewhere.
\* And a part that could not be read at the login and was not saved since, which
\* the first save writes over unseen; the parts that were read are safe then, too.
NoSaveOverwritten ==
    [][\A u \in Uids, p \in Parts : file'[u][p] # file[u][p] =>
          \/ u \in severed
          \/ \E s \in Holders(u) : /\ copy[s][u][p] \in {file[u][p], Unread}
                                  /\ copy'[s][u][p] = file'[u][p]
                                  /\ home[u] = s
      ]_vars
=============================================================================
