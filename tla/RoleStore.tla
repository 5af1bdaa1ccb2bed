------------------------------ MODULE RoleStore ------------------------------
(***************************************************************************)
(* The roles of a player are kept in three places that no transaction ties *)
(* together: the save file of the player (written by a DLL), the columns   *)
(* name0..name2 of his row in useraccount, which are what keeps a name     *)
(* from being taken twice, and a row of player_rank for each role.         *)
(*                                                                         *)
(* Clients create and delete roles (handle_eventfromclient.go), game       *)
(* servers report ranks of the roles they have in memory                   *)
(* (handle_eventfromserver.go), also after the role was deleted.  All of   *)
(* it happens on the goroutine of main(), so a handler is one action; but  *)
(* each statement in it may fail and the handler goes on with the rest.    *)
(* A process that dies in a handler leaves the last statements undone,     *)
(* as if they had failed.                                                  *)
(*                                                                         *)
(* A definition marked "Bug:" is the one after it with a plausible mistake *)
(* in it.  No specification uses it; it shows what the properties catch.   *)
(***************************************************************************)
EXTENDS Naturals, FiniteSets

CONSTANTS
    Uids,         \* players who verified an account
    Names,        \* names of roles
    Slots,        \* the name columns: 0..2 in the code
    None,         \* an empty column, or nobody
    DbFaults,     \* may a statement on the database fail?
    Played,       \* bound: the names of roles that are played
    MaxPlaying    \* bound: roles that game servers have in memory

ASSUME ConstantsAssumption ==
    /\ None \notin Names
    /\ None \notin Uids
    /\ Slots \subseteq Nat
    /\ IsFiniteSet(Slots)
    /\ Played \subseteq Names
    /\ DbFaults \in BOOLEAN
    /\ MaxPlaying \in Nat

VARIABLES
    hum,       \* hum[u]: the roles in u's save file
    name,      \* name[u][i]: column name<i> of u's row in useraccount
    rank,      \* rows of player_rank
    playing,   \* roles game servers have in memory
    faulted,   \* history: players with a name statement that failed
    orphaned,  \* history: names whose rank row outlived its role
    doubled    \* history: names that had a rank row when one was inserted

vars == <<hum, name, rank, playing, faulted, orphaned, doubled>>

-----------------------------------------------------------------------------
(* Values *)

Role == [uid : Uids, name : Names]

\* "by" is the player whose level and power were written last; uid and job
\* stay what they were when the row was inserted.  Rows that are equal count as
\* one.
RankRow == [uid : Uids, name : Names, by : Uids]

DbOk == IF DbFaults THEN BOOLEAN ELSE {TRUE}

ColumnNames(u) == {name[u][i] : i \in Slots} \ {None}

-----------------------------------------------------------------------------
(* Statements on useraccount and player_rank (sql.go, sqlv2.go) *)

Taken(n) == \E u \in Uids : n \in ColumnNames(u)

\* A query that is refused reads as "exists", one whose first step fails as "does
\* not exist" (rows.Next).
dbUserNameExist(n) == IF DbFaults THEN BOOLEAN ELSE {Taken(n)}

FreeSlots(u) == {i \in Slots : name[u][i] = None}

FirstOf(S) == CHOOSE i \in S : \A j \in S : i <= j

\* The columns after the UPDATE.
WithName(u, n) ==
    [name EXCEPT ![u][FirstOf(FreeSlots(u))] = n]

\* Bug: the first column is used whether it is empty or not.
dbAddUserNameByUid_firstColumn(u, n) ==
    /\ name' = [name EXCEPT ![u][FirstOf(Slots)] = n]
    /\ UNCHANGED faulted

\* One of the three statements fails, or all work.  With all columns in use
\* nothing is written, and the function reports success all the same.  It looks
\* for the name a second time: of a name that is taken it only gets to the UPDATE
\* if that look-up fails like the first.
dbAddUserNameByUid(u, n) ==
    \/ /\ DbFaults
       /\ faulted' = faulted \union {u}
       /\ UNCHANGED name
    \/ /\ Taken(n) => DbFaults
       /\ name' = IF FreeSlots(u) = {} THEN name ELSE WithName(u, n)
       /\ faulted' = IF Taken(n) THEN faulted \union {u} ELSE faulted

WithoutName(u, n) ==
    [name EXCEPT ![u] = [i \in Slots |-> IF name[u][i] = n
                                         THEN None ELSE name[u][i]]]

\* Bug: the column behind the one found is emptied.
dbRemoveUserNameByUid_offByOne(u, n) ==
    /\ name' = [name EXCEPT ![u] =
                  [i \in Slots |-> IF i > 0 /\ i - 1 \in Slots
                                      /\ name[u][i - 1] = n
                                   THEN None ELSE name[u][i]]]
    /\ UNCHANGED faulted

\* The error, if any, is logged; a name is in one column at most.
dbRemoveUserNameByUid(u, n) ==
    \/ /\ DbFaults
       /\ faulted' = faulted \union {u}
       /\ UNCHANGED name
    \/ /\ name' = WithoutName(u, n)
       /\ UNCHANGED faulted

RankRowsOf(n) == {r \in rank : r.name = n}

\* All rows of the name go, unless the look-up fails and reads as "no row", or
\* the DELETE fails.
dbRemoveUserRankInfo(u, n) ==
    \/ /\ DbFaults
       /\ RankRowsOf(n) # {}
       /\ orphaned' = orphaned \union {n}
       /\ UNCHANGED <<rank, doubled>>
    \/ /\ rank' = rank \ RankRowsOf(n)
       /\ orphaned' = orphaned \ {n}
       /\ doubled' = doubled \ {n}

\* Bug: uid and name in the wrong order.
dbUpdateUserRankInfoV2_swapped(u, n) ==
    /\ rank' = rank \union {[uid |-> n, name |-> u, by |-> u]}
    /\ UNCHANGED doubled

\* Bug: a row is inserted whether there is one or not.
dbUpdateUserRankInfoV2_insert(u, n) ==
    /\ rank' = rank \union {[uid |-> u, name |-> n, by |-> u]}
    /\ UNCHANGED doubled

\* A failing look-up reads as "no row" and makes a row more, or reads as "exists"
\* and leads to an UPDATE of no row; with level and power 0 there is no UPDATE.
dbUpdateUserRankInfoV2(u, n) ==
    \/ /\ RankRowsOf(n) = {} \/ DbFaults
       /\ rank' = rank \union {[uid |-> u, name |-> n, by |-> u]}
       /\ doubled' = IF RankRowsOf(n) = {} THEN doubled ELSE doubled \union {n}
    \/ /\ RankRowsOf(n) # {}
       /\ rank' = (rank \ RankRowsOf(n))
                    \union {[r EXCEPT !.by = u] : r \in RankRowsOf(n)}
       /\ UNCHANGED doubled
    \/ /\ RankRowsOf(n) # {} \/ DbFaults
       /\ UNCHANGED <<rank, doubled>>

-----------------------------------------------------------------------------
(* Clients (handle_eventfromclient.go) *)

\* The DLL refuses a name that is in the file, and a role too many.
AddGameRole(u, n) ==
    /\ n \notin hum[u]
    /\ Cardinality(hum[u]) < Cardinality(Slots)
    /\ hum' = [hum EXCEPT ![u] = @ \union {n}]

\* The role is in the file, and the client knows, before the name is in its
\* column.  Requests that are refused change nothing.  A player who gets a name
\* that is taken, as a failed look-up lets him, counts as faulted.
onCreateHumReq(u, n) ==
    /\ FALSE \in dbUserNameExist(n)
    /\ AddGameRole(u, n)
    /\ dbAddUserNameByUid(u, n)
    /\ UNCHANGED <<rank, playing, orphaned, doubled>>

\* A deleted role may still be in the memory of a game server.
onDelHumReq(u, n) ==
    /\ n \in hum[u]
    /\ hum' = [hum EXCEPT ![u] = @ \ {n}]
    /\ dbRemoveUserNameByUid(u, n)
    /\ dbRemoveUserRankInfo(u, n)
    /\ UNCHANGED playing

\* A role of the file is handed to a game server; when and which one is the
\* subject of LoginSession.
onLoginGame(u, n) ==
    /\ n \in hum[u] \intersect Played
    /\ Cardinality(playing) < MaxPlaying
    /\ playing' = playing \union {[uid |-> u, name |-> n]}
    /\ UNCHANGED <<hum, name, rank, faulted, orphaned, doubled>>

-----------------------------------------------------------------------------
(* Game servers (handle_eventfromserver.go) *)

\* The game server drops the role and sends nothing more about it.
LeaveGame(p) ==
    /\ p \in playing
    /\ playing' = playing \ {p}
    /\ UNCHANGED <<hum, name, rank, faulted, orphaned, doubled>>

UpdatePlayerRankReq(p) ==
    /\ p \in playing
    /\ dbUpdateUserRankInfoV2(p.uid, p.name)
    /\ orphaned' = IF p.name \in hum[p.uid] THEN orphaned
                   ELSE orphaned \union {p.name}
    /\ UNCHANGED <<hum, name, playing, faulted>>

-----------------------------------------------------------------------------

Init ==
    /\ hum = [u \in Uids |-> {}]
    /\ name = [u \in Uids |-> [i \in Slots |-> None]]
    /\ rank = {}
    /\ playing = {}
    /\ faulted = {}
    /\ orphaned = {}
    /\ doubled = {}

Next ==
    \/ \E u \in Uids, n \in Names :
          \/ onCreateHumReq(u, n)
          \/ onDelHumReq(u, n)
          \/ onLoginGame(u, n)
    \/ \E p \in playing : LeaveGame(p) \/ UpdatePlayerRankReq(p)

Spec == Init /\ [][Next]_vars

-----------------------------------------------------------------------------
(* Properties *)

\* Every variable has the shape its declaration says.
TypeOK ==
    /\ hum \in [Uids -> SUBSET Names]
    /\ name \in [Uids -> [Slots -> Names \union {None}]]
    /\ rank \in SUBSET RankRow
    /\ playing \in SUBSET Role
    /\ faulted \in SUBSET Uids
    /\ orphaned \in SUBSET Names
    /\ doubled \in SUBSET Names

\* However roles come and go, the columns of a player hold the names of the
\* roles in his save file, each once, as long as no statement on them failed
\* (onCreateHumReq and onDelHumReq change the file first).
ColumnsMatchFile ==
    \A u \in Uids \ faulted :
        /\ ColumnNames(u) = hum[u]
        /\ \A i, j \in Slots : name[u][i] = name[u][j] /\ i # j
                               => name[u][i] = None

Disputed(n) == \E u, v \in Uids : u # v /\ n \in hum[u] \intersect hum[v]

\* A name has one row in player_rank, unless one was inserted although there was
\* one, which only a failed look-up makes happen; all rows go when the role is
\* deleted.  Unless a rank came in after the role was gone or its rows could not
\* be deleted, a row belongs to the player who has the role, and so do the level
\* and power in it.
RankOwned ==
    /\ \A r1, r2 \in rank : r1.name = r2.name => r1 = r2 \/ r1.name \in doubled
    /\ doubled # {} => DbFaults
    /\ \A r \in rank :
          \/ r.name \in orphaned
          \/ Disputed(r.name)
          \/ r.name \in hum[r.uid] /\ r.by = r.uid

\* The holders of a name among the players no statement failed for.
Holders(n) == {u \in Uids \ faulted : n \in hum[u]}

Registry == INSTANCE NameRegistry WITH holders <- [n \in Names |-> Holders(n)]

\* Save files, columns and handlers together implement the name registry: a
\* name has one holder ("role name exists ?", onCreateHumReq), who keeps it until
\* he deletes his role.  A player for whom a statement failed is forgotten by it;
\* a failed deletion counts, too, because it leaves a column in use that a later
\* role has to miss.
ImplementsNameRegistry == Registry!Spec
=============================================================================
