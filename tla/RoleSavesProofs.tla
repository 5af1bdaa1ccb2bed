--------------------------- MODULE RoleSavesProofs ---------------------------
(***************************************************************************)
(* RoleSaves for any players, game servers and number of saves: no save is *)
(* lost to an older one unless the role was on a game server that was cut  *)
(* off, or the very part that is saved could not be read at the login.     *)
(*                                                                         *)
(* The invariant says where the copies of a role are: unless the player is *)
(* in severed, only the game server he plays on has one, and each part of  *)
(* it is what is in the file or was not read.  Presence makes it           *)
(* inductive: a player enters a game server only while he is on none.      *)
(***************************************************************************)
EXTENDS RoleSaves, TLAPS

\* What the proof needs to know of the types of the variables.
SavesTyped ==
    /\ home \in [Uids -> ServerIds \union {None}]
    /\ file \in [Uids -> Versions]
    /\ copy \in [ServerIds -> [Uids -> Bases \union {None}]]
    /\ saves \in [Uids -> Nat]
    /\ severed \in SUBSET Uids

\* The copy is what is in the file, but for parts that were not read.
TrueTo(bases, versions) ==
    \A p \in Parts : bases[p] \in {versions[p], Unread}

\* Only the game server a player is on has a copy of his role, and what was read
\* of it is what is in the file.
OneTrueCopy ==
    \A u \in Uids, s \in ServerIds :
        u \notin severed /\ copy[s][u] # None =>
            home[u] = s /\ TrueTo(copy[s][u], file[u])

SavesInv == SavesTyped /\ OneTrueCopy

LEMMA WrittenTyped ==
    ASSUME NEW versions \in Versions, NEW parts, NEW n \in Nat
    PROVE  Written(versions, parts, n) \in Versions
BY DEF Versions, Written

LEMMA WrittenBases ==
    ASSUME NEW bases \in Bases, NEW parts, NEW n \in Nat
    PROVE  Written(bases, parts, n) \in Bases
BY DEF Bases, Written

\* What a login reads.
LEMMA ReadTrue ==
    ASSUME NEW versions \in Versions, NEW unread
    PROVE  /\ Written(versions, unread, Unread) \in Bases
           /\ TrueTo(Written(versions, unread, Unread), versions)
BY DEF Versions, Bases, Written, TrueTo

\* A save makes the copy true to the file where it writes.
LEMMA SaveTrue ==
    ASSUME NEW bases, NEW versions, NEW parts, NEW n, TrueTo(bases, versions)
    PROVE  TrueTo(Written(bases, parts, n), Written(versions, parts, n))
BY DEF Written, TrueTo

LEMMA InitSavesInv == Init => SavesInv
BY DEF Init, Presence!Init, SavesInv, SavesTyped, OneTrueCopy, Versions

\* A player leaves severed only with the last copy but the one that is
\* replaced or dropped.
LEMMA WithoutCopyLeaves ==
    ASSUME NEW s \in ServerIds, NEW u \in Uids, SavesTyped
    PROVE  /\ WithoutCopy(s, u) \in SUBSET Uids
           /\ \A v \in Uids : v # u => (v \in WithoutCopy(s, u) <=> v \in severed)
           /\ u \notin WithoutCopy(s, u) =>
                \/ u \notin severed
                \/ \A t \in ServerIds \ {s} : copy[t][u] = None
BY DEF WithoutCopy, Holders, SavesTyped

LEMMA NextSavesInv == SavesInv /\ [Next]_vars => SavesInv'
<1> SUFFICES ASSUME SavesInv, [Next]_vars PROVE SavesInv'
    OBVIOUS
<1>0. SavesTyped /\ OneTrueCopy
  BY DEF SavesInv
<1> USE SavesAssumption DEF SavesAssumption
<1>1. ASSUME NEW s \in ServerIds, onRegisterServerReq(s) PROVE SavesInv'
  BY <1>0, <1>1
     DEF onRegisterServerReq, Presence!ServerUp, SavesInv, SavesTyped,
         OneTrueCopy
<1>2. ASSUME NEW s \in ServerIds, onEventFromServerDisconnected(s)
      PROVE  SavesInv'
  <2> USE <1>2 DEF onEventFromServerDisconnected, Presence!ServerDown
  <2>1. SavesTyped'
    BY <1>0 DEF SavesTyped
  <2>2. OneTrueCopy'
    <3> SUFFICES ASSUME NEW u \in Uids, NEW t \in ServerIds,
                        u \notin severed', copy'[t][u] # None
                 PROVE  home'[u] = t /\ TrueTo(copy'[t][u], file'[u])
        BY DEF OneTrueCopy
    <3>1. u \notin severed /\ t # s
      BY <1>0 DEF Holders
    <3>2. home[u] = t /\ TrueTo(copy[t][u], file[u])
      BY <1>0, <3>1 DEF OneTrueCopy
    <3> QED BY <3>1, <3>2
  <2> QED BY <2>1, <2>2 DEF SavesInv
<1>3. ASSUME NEW u \in Uids, NEW s \in ServerIds, onLoginGame(u, s)
      PROVE  SavesInv'
  <2>1. /\ home' \in [Uids -> ServerIds \union {None}]
        /\ home[u] \in {None, s} /\ home'[u] = s
        /\ \A v \in Uids : v # u => home'[v] = home[v]
    BY <1>0, <1>3 DEF onLoginGame, Presence!Enter, SavesTyped
  <2>2. /\ copy' \in [ServerIds -> [Uids -> Bases \union {None}]]
        /\ TrueTo(copy'[s][u], file[u])
        /\ \A t \in ServerIds, v \in Uids :
              t # s \/ v # u => copy'[t][v] = copy[t][v]
    <3>1. PICK unread \in SUBSET Parts :
             copy' = [copy EXCEPT ![s][u] = Written(file[u], unread, Unread)]
      BY <1>3 DEF onLoginGame
    <3>2. /\ Written(file[u], unread, Unread) \in Bases
          /\ TrueTo(Written(file[u], unread, Unread), file[u])
      BY <1>0, ReadTrue DEF SavesTyped
    <3> QED BY <1>0, <3>1, <3>2 DEF SavesTyped
  <2>3. /\ severed' = WithoutCopy(s, u)
        /\ file' = file /\ saves' = saves
    BY <1>3 DEF onLoginGame
  <2>4. SavesTyped'
    BY <1>0, <2>1, <2>2, <2>3, WithoutCopyLeaves DEF SavesTyped
  <2>5. OneTrueCopy'
    <3> SUFFICES ASSUME NEW v \in Uids, NEW t \in ServerIds,
                        v \notin severed', copy'[t][v] # None
                 PROVE  home'[v] = t /\ TrueTo(copy'[t][v], file'[v])
        BY DEF OneTrueCopy
    <3>1. CASE v # u
      <4>1. v \notin severed /\ copy[t][v] # None
        BY <1>0, <2>2, <2>3, <3>1, WithoutCopyLeaves
      <4> QED BY <1>0, <2>1, <2>2, <2>3, <3>1, <4>1 DEF OneTrueCopy
    <3>2. CASE v = u /\ t = s
      BY <2>1, <2>2, <2>3, <3>2
    <3>3. CASE v = u /\ t # s
      <4>1. copy[t][u] # None
        BY <2>2, <3>3
      <4>2. u \notin severed
        BY <1>0, <2>3, <3>3, <4>1, WithoutCopyLeaves
      <4>3. home[u] = t
        BY <1>0, <4>1, <4>2 DEF OneTrueCopy
      <4> QED BY <2>1, <3>3, <4>3
    <3> QED BY <3>1, <3>2, <3>3
  <2> QED BY <2>4, <2>5 DEF SavesInv
<1>4. ASSUME NEW s \in ServerIds, NEW u \in Uids, Discard(s, u),
             \A v \in Uids : v # u => home'[v] = home[v],
             home' \in [Uids -> ServerIds \union {None}],
             home'[u] = home[u] \/ home[u] = s
      PROVE  SavesInv'
  <2>1. /\ copy' \in [ServerIds -> [Uids -> Bases \union {None}]]
        /\ copy'[s][u] = None
        /\ \A t \in ServerIds, v \in Uids :
              t # s \/ v # u => copy'[t][v] = copy[t][v]
    BY <1>0, <1>4 DEF Discard, SavesTyped
  <2>2. /\ severed' = WithoutCopy(s, u)
        /\ file' = file /\ saves' = saves
    BY <1>4 DEF Discard
  <2>3. SavesTyped'
    BY <1>0, <1>4, <2>1, <2>2, WithoutCopyLeaves DEF SavesTyped
  <2>4. OneTrueCopy'
    <3> SUFFICES ASSUME NEW v \in Uids, NEW t \in ServerIds,
                        v \notin severed', copy'[t][v] # None
                 PROVE  home'[v] = t /\ TrueTo(copy'[t][v], file'[v])
        BY DEF OneTrueCopy
    <3>1. copy[t][v] # None /\ copy'[t][v] = copy[t][v] /\ (v = u => t # s)
      BY <2>1
    <3>2. v \notin severed
      BY <1>0, <2>2, <3>1, WithoutCopyLeaves
    <3>3. home[v] = t /\ TrueTo(copy[t][v], file[v])
      BY <1>0, <3>1, <3>2 DEF OneTrueCopy
    <3> QED BY <1>4, <2>2, <3>1, <3>3
  <2> QED BY <2>3, <2>4 DEF SavesInv
<1>5. ASSUME NEW s \in ServerIds, NEW u \in Uids, onPlayerDisconnectedNtf(s, u)
      PROVE  SavesInv'
  <2>1. /\ Discard(s, u)
        /\ \/ home' = [home EXCEPT ![u] = None] /\ home[u] = s
           \/ home' = home
    BY <1>5 DEF onPlayerDisconnectedNtf, Presence!Leave
  <2> QED BY <1>0, <1>4, <2>1 DEF SavesTyped
<1>6. ASSUME NEW s \in ServerIds, NEW u \in Uids, LeaveUnreported(s, u)
      PROVE  SavesInv'
  BY <1>0, <1>4, <1>6 DEF LeaveUnreported, SavesTyped
<1>7. ASSUME NEW s \in ServerIds, NEW u \in Uids, NEW parts, Save(s, u, parts)
      PROVE  SavesInv'
  <2>1. PICK written \in SUBSET parts :
          /\ file' = [file EXCEPT ![u] = Written(@, written, saves[u] + 1)]
          /\ copy' = [copy EXCEPT ![s][u] = Written(@, written, saves[u] + 1)]
    BY <1>7 DEF Save
  <2>2. copy[s][u] \in Bases /\ saves[u] + 1 \in Nat
    BY <1>0, <1>7 DEF Save, SavesTyped
  <2>3. SavesTyped'
    <3>1. /\ Written(file[u], written, saves[u] + 1) \in Versions
          /\ Written(copy[s][u], written, saves[u] + 1) \in Bases
      BY <1>0, <2>2, WrittenTyped, WrittenBases DEF SavesTyped
    <3> QED BY <1>0, <1>7, <2>1, <2>2, <3>1 DEF Save, SavesTyped
  <2>4. OneTrueCopy'
    <3> SUFFICES ASSUME NEW v \in Uids, NEW t \in ServerIds,
                        v \notin severed, copy'[t][v] # None
                 PROVE  home[v] = t /\ TrueTo(copy'[t][v], file'[v])
        BY <1>7 DEF OneTrueCopy, Save
    <3>1. copy[t][v] # None
      BY <1>0, <1>7, <2>1 DEF SavesTyped, Save
    <3>2. home[v] = t /\ TrueTo(copy[t][v], file[v])
      BY <1>0, <3>1 DEF OneTrueCopy
    <3>3. u \notin severed => home[u] = s /\ TrueTo(copy[s][u], file[u])
      BY <1>0, <1>7 DEF OneTrueCopy, Save
    <3>4. u \notin severed =>
             TrueTo(Written(copy[s][u], written, saves[u] + 1),
                    Written(file[u], written, saves[u] + 1))
      BY <3>3, SaveTrue
    <3> QED BY <1>0, <2>1, <3>2, <3>3, <3>4 DEF SavesTyped
  <2> QED BY <2>3, <2>4 DEF SavesInv
<1>8. CASE Restart
  <2>1. SavesTyped'
    BY <1>0, <1>8 DEF Restart, Presence!Reset, SavesTyped
  <2>2. OneTrueCopy'
    BY <1>8 DEF Restart, Holders, OneTrueCopy
  <2> QED BY <2>1, <2>2 DEF SavesInv
<1>9. CASE UNCHANGED vars
  BY <1>0, <1>9 DEF vars, SavesInv, SavesTyped, OneTrueCopy
<1> QED
  BY <1>1, <1>2, <1>3, <1>5, <1>6, <1>7, <1>8, <1>9
     DEF Next, SavePlayerData, SavePlayerExtData

LEMMA SavesInvariant == Spec => []SavesInv
<1>1. Init => SavesInv
  BY InitSavesInv
<1>2. SavesInv /\ [Next]_vars => SavesInv'
  BY NextSavesInv
<1> QED BY <1>1, <1>2, PTL DEF Spec

\* Unless a player's role was on a game server that was cut off, only the game
\* server he plays on has a copy of it, and whatever part of it was read or saved
\* is what the next login finds.
THEOREM CopiesTrue == Spec => []OneTrueCopy
<1>1. SavesInv => OneTrueCopy
  BY DEF SavesInv
<1> QED BY <1>1, SavesInvariant, PTL

\* Whoever writes a part of a save file has loaded or written what he writes
\* over, or could not read this part, although no save asks where the player is.
THEOREM SavesSafe == Spec => NoSaveOverwritten
<1> DEFINE Based(u, p) ==
      file'[u][p] # file[u][p] =>
          \/ u \in severed
          \/ \E s \in Holders(u) : /\ copy[s][u][p] \in {file[u][p], Unread}
                                  /\ copy'[s][u][p] = file'[u][p]
                                  /\ home[u] = s
<1>1. SavesInv /\ [Next]_vars => [\A u \in Uids, p \in Parts : Based(u, p)]_vars
  <2> SUFFICES ASSUME SavesInv, Next, NEW v \in Uids, NEW p \in Parts,
                      file'[v][p] # file[v][p], v \notin severed
               PROVE  \E s \in Holders(v) :
                         /\ copy[s][v][p] \in {file[v][p], Unread}
                         /\ copy'[s][v][p] = file'[v][p]
                         /\ home[v] = s
      OBVIOUS
  <2>1. SavesTyped /\ OneTrueCopy
    BY DEF SavesInv
  <2>2. PICK s \in ServerIds, u \in Uids, parts \in SUBSET Parts : Save(s, u, parts)
    BY DEF Next, onRegisterServerReq, onEventFromServerDisconnected,
           onLoginGame, Discard, onPlayerDisconnectedNtf, LeaveUnreported,
           SavePlayerData, SavePlayerExtData, Restart, Parts
  <2>3. PICK written \in SUBSET parts :
          /\ file' = [file EXCEPT ![u] = Written(@, written, saves[u] + 1)]
          /\ copy' = [copy EXCEPT ![s][u] = Written(@, written, saves[u] + 1)]
    BY <2>2 DEF Save
  <2>4. u = v
    BY <2>1, <2>3 DEF SavesTyped
  <2>5. s \in Holders(u) /\ home[u] = s /\ TrueTo(copy[s][u], file[u])
    BY <2>1, <2>2, <2>4 DEF Save, Holders, OneTrueCopy
  <2>6. /\ file'[u][p] = IF p \in written THEN saves[u] + 1 ELSE file[u][p]
        /\ copy'[s][u][p] = IF p \in written THEN saves[u] + 1 ELSE copy[s][u][p]
    BY <2>1, <2>3 DEF SavesTyped, Written
  <2> QED BY <2>4, <2>5, <2>6 DEF TrueTo
<1> QED BY <1>1, SavesInvariant, PTL DEF Spec, NoSaveOverwritten
=============================================================================
