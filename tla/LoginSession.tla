---------------------------- MODULE LoginSession ----------------------------
(***************************************************************************)
(* The TCP side of the login server (handle_eventfromclient.go,            *)
(* handle_eventfromserver.go): client connections that verify an account,  *)
(* game server connections that register a server id, the binding of a     *)
(* verified client to a game server, and the online_player table that is   *)
(* to keep a player on one game server at a time.                          *)
(*                                                                         *)
(* All handlers run on the goroutine of main(), one event at a time, so a  *)
(* handler is one action.  The exception is verifyAccount, which reads the *)
(* account table twice while the goroutines of the web server insert into  *)
(* it: it is two actions, and verifying # Idle stops all other handlers.   *)
(*                                                                         *)
(* Events of one connection are Connected, Data..., Disconnected in this   *)
(* order; Close() only asks the network library to disconnect.  Events of  *)
(* different connections come in any order, so the event queues need no    *)
(* variable.  A client connection is named by its clientConnId (LID), a    *)
(* game server connection by its serverConnId.                             *)
(*                                                                         *)
(* A definition marked "Bug:" is the one after it with a plausible mistake *)
(* in it.  No specification uses it; it shows what the properties catch.   *)
(***************************************************************************)
EXTENDS Naturals, FiniteSets

CONSTANTS
    Uids,           \* the accounts that may exist; one uid per account name
    ServerIds,      \* the ids game servers register with, all # 0
    None,           \* the zero value of a uid or a server id
    EarlyUids,      \* accounts that exist when the database is first opened
    DbFaults,       \* may a statement on the database fail?
    MaxLid,         \* bound: client connections between two restarts
    MaxServerConn   \* bound: game server connections between two restarts

ASSUME ConstantsAssumption ==
    /\ None \notin Uids
    /\ None \notin ServerIds
    /\ EarlyUids \subseteq Uids
    /\ DbFaults \in BOOLEAN
    /\ MaxLid \in Nat
    /\ MaxServerConn \in Nat

VARIABLES
    clientNodeSeed,   \* next clientConnId
    clientNodeMap,    \* keys of clientNodeMap: the connected clients
    node,             \* node[lid]: the ClientNode, NewNode when not connected
    clientUserMap,    \* clientUserMap[uid]: lids of the nodes in its list
    verifying,        \* verifyAccount between its two reads, or Idle
    serverNodeSeed,   \* next serverConnId
    serverOpen,       \* game server connections whose userdata is set
    serverId,         \* serverId[c]: ServerNode.serverId of connection c
    serverNodeMap,    \* serverNodeMap[s]: connection registered as s, or NoConn
    online,           \* rows of the table online_player
    accounts,         \* rows of the table useraccount
    sent,             \* what the last event sent, and the Close() it called
    reported          \* history: the session whose end the last event, a
                      \* report of a game server, was about, as a set

clientVars == <<clientNodeSeed, clientNodeMap, node, clientUserMap, verifying>>
serverVars == <<serverNodeSeed, serverOpen, serverId, serverNodeMap>>
vars == <<clientNodeSeed, clientNodeMap, node, clientUserMap, verifying,
          serverNodeSeed, serverOpen, serverId, serverNodeMap,
          online, accounts, sent, reported>>

-----------------------------------------------------------------------------
(* Values *)

Lids == 1..MaxLid
ServerConns == 1..MaxServerConn
NoConn == 0

\* gid stands for gsConnId and connCode, two numbers the game server chose
\* for its own connection of this client: all that matters of them is which
\* game server connection they came from.
ClientNode == [uid : Uids \union {None},
               gsServerId : ServerIds \union {None},
               gid : ServerConns \union {NoConn}]

NewNode == [uid |-> None, gsServerId |-> None, gid |-> NoConn]

Row == [uid : Uids, server_id : ServerIds, lid : Lids]

Idle == [lid |-> 0, uid |-> None, existed |-> FALSE]

VerifyState == {Idle} \union [lid : Lids, uid : Uids, existed : BOOLEAN]

\* Messages: "to" is a lid or a serverConnId, told apart by op.  The lists of
\* characters and of servers that go with a good VerifyAccountRsp, and the
\* quick message that goes with a bad one, are left out.
Plain(op, to) == [op |-> op, to |-> to]

\* VerifyAccountRsp.Result 0, 1 and 2.
VerifyAccountRsp(ret) ==
    IF ret = 0 THEN "VerifyOk"
    ELSE IF ret = 1 THEN "VerifyNoAccount" ELSE "VerifyBadPassword"

SaveQMs == {"QMNoSave", "QMNoRole", "QMSaveNotValid"}

ClientOps == {"LSAccessNtf", "VerifyOk", "VerifyNoAccount",
              "VerifyBadPassword", "QMNoServer", "QMRelogin", "CloseClient"}
             \union SaveQMs

ServerOps == {"ProtoTypeNtf", "SyncPlayerRankNtf", "PlayerHumBaseDataNtf",
              "CloseServer"}

LoginHumDataNtf(c, l, n) ==
    [op |-> "PlayerLoginHumDataNtf", to |-> c,
     GID |-> n.gid, LID |-> l, UID |-> n.uid]

Message ==
    [op : ClientOps, to : Lids]
    \union [op : ServerOps, to : ServerConns]
    \union [op : {"PlayerLoginHumDataNtf"}, to : ServerConns,
            GID : ServerConns \union {NoConn}, LID : Lids, UID : Uids]

\* Whether a statement on the database succeeds; when it fails the code goes on.
DbOk == IF DbFaults THEN BOOLEAN ELSE {TRUE}

-----------------------------------------------------------------------------
(* The table online_player (sqlv2.go) *)

RowsOf(u) == {r \in online : r.uid = u}

\* Bug: the query never finds a row.
dbGetPlayerOnlineServerId_noRow(u) == {None}

\* SELECT server_id ... WHERE uid = ?: the first row; any error reads as 0.
dbGetPlayerOnlineServerId(u) ==
    IF RowsOf(u) = {} THEN {None}
    ELSE {r.server_id : r \in RowsOf(u)}
         \union (IF DbFaults THEN {None} ELSE {})

\* Bug: the columns server_id and lid in the wrong order.
dbAddOnlinePlayer_swapped(u, s, l) ==
    online' = online \union {[uid |-> u, server_id |-> l, lid |-> s]}

dbAddOnlinePlayer(u, s, l) ==
    \E ok \in DbOk :
        online' = IF ok
                  THEN online \union {[uid |-> u, server_id |-> s, lid |-> l]}
                  ELSE online

\* Bug: "AND lid = ?" left out of the DELETE.
dbRemoveOnlinePlayerByUID_anyLid(u, s, l) ==
    online' = {r \in online : ~(r.uid = u /\ r.server_id = s)}

dbRemoveOnlinePlayerByUID(u, s, l) ==
    \E ok \in DbOk :
        online' = IF ok
                  THEN {r \in online :
                          ~(r.uid = u /\ r.server_id = s /\ r.lid = l)}
                  ELSE online

\* Bug: the rows of a server that disconnects are kept.
dbRemoveOnlinePlayerByServerId_kept(s) == UNCHANGED online

dbRemoveOnlinePlayerByServerId(s) ==
    \E ok \in DbOk :
        online' = IF ok THEN {r \in online : r.server_id # s} ELSE online

-----------------------------------------------------------------------------
(* Clients (handle_eventfromclient.go) *)

MainIdle == verifying = Idle

\* The list of a uid keeps the nodes in the order in which they came; nothing
\* depends on it.
addClientToClientUserMap(l, u) ==
    clientUserMap' = [clientUserMap EXCEPT ![u] = @ \union {l}]

\* The node is looked for under its own uid only.
removeClientFromClientUserMap(l) ==
    clientUserMap' = [u \in Uids |-> IF u = node[l].uid
                                     THEN clientUserMap[u] \ {l}
                                     ELSE clientUserMap[u]]

onEventFromClientConnected ==
    /\ MainIdle
    /\ clientNodeSeed \in Lids
    /\ clientNodeMap' = clientNodeMap \union {clientNodeSeed}
    /\ node' = [node EXCEPT ![clientNodeSeed] = NewNode]
    /\ clientNodeSeed' = clientNodeSeed + 1
    /\ sent' = {Plain("LSAccessNtf", clientNodeSeed)}
    /\ reported' = {}
    /\ UNCHANGED <<clientUserMap, verifying, serverVars, online, accounts>>

\* Bug: the node is not taken out of clientUserMap.
onEventFromClientDisconnected_userMapKept(l) ==
    /\ MainIdle
    /\ l \in clientNodeMap
    /\ clientNodeMap' = clientNodeMap \ {l}
    /\ node' = [node EXCEPT ![l] = NewNode]
    /\ sent' = {}
    /\ reported' = {}
    /\ UNCHANGED <<clientNodeSeed, clientUserMap, verifying, serverVars, online,
                   accounts>>

\* The online row of the client, if any, stays until its game server reports.
onEventFromClientDisconnected(l) ==
    /\ MainIdle
    /\ l \in clientNodeMap
    /\ clientNodeMap' = clientNodeMap \ {l}
    /\ removeClientFromClientUserMap(l)
    /\ node' = [node EXCEPT ![l] = NewNode]
    /\ sent' = {}
    /\ reported' = {}
    /\ UNCHANGED <<clientNodeSeed, verifying, serverVars, online, accounts>>

\* Packets that change nothing: one that cannot be decoded closes the
\* connection, one that is not allowed yet and a heartbeat are dropped.
onEventFromClientBadData(l) ==
    /\ MainIdle
    /\ l \in 1..(clientNodeSeed - 1)
    /\ sent' \in {{Plain("CloseClient", l)}, {}}
    /\ l \notin clientNodeMap => sent' # {}
    /\ reported' = {}
    /\ UNCHANGED <<clientVars, serverVars, online, accounts>>

\* Bug: a client that has a uid may verify again.
verifyAccountBegin_again(l, u) ==
    /\ MainIdle
    /\ l \in clientNodeMap
    /\ verifying' = [lid |-> l, uid |-> u, existed |-> u \in accounts]
    /\ sent' = {}
    /\ reported' = {}
    /\ UNCHANGED <<clientNodeSeed, clientNodeMap, node, clientUserMap,
                   serverVars, online, accounts>>

\* verifyAccount up to its first read, dbUserAccountExist: a query that is
\* refused reads as "exists", one that fails at its first row as "does not".
verifyAccountBegin(l, u) ==
    /\ MainIdle
    /\ l \in clientNodeMap
    /\ node[l].uid = None
    /\ \E existed \in IF DbFaults THEN BOOLEAN ELSE {u \in accounts} :
          verifying' = [lid |-> l, uid |-> u, existed |-> existed]
    /\ sent' = {}
    /\ reported' = {}
    /\ UNCHANGED <<clientNodeSeed, clientNodeMap, node, clientUserMap,
                   serverVars, online, accounts>>

\* From the second read, dbGetUserAccountInfo, on: the uid is stored in the
\* node whenever that read finds the account with the right password, while
\* the answer, and with it clientUserMap, also depends on the first read.
verifyAccountEnd ==
    LET l == verifying.lid
        u == verifying.uid
    IN  /\ ~MainIdle
        /\ \E found \in {(u \in accounts) /\ readOk : readOk \in DbOk},
              passwordOk \in BOOLEAN :
             LET ret == IF ~found THEN 1
                        ELSE IF ~passwordOk THEN 2
                        ELSE IF verifying.existed THEN 0 ELSE 1
             IN  /\ node' = IF found /\ passwordOk
                            THEN [node EXCEPT ![l].uid = u] ELSE node
                 /\ IF ret = 0 THEN addClientToClientUserMap(l, u)
                    ELSE UNCHANGED clientUserMap
                 /\ sent' = {Plain(VerifyAccountRsp(ret), l)}
        /\ verifying' = Idle
        /\ reported' = {}
        /\ UNCHANGED <<clientNodeSeed, clientNodeMap, serverVars, online,
                       accounts>>

\* The account row is inserted by a goroutine of the web server, at any time.
SignUp(u) ==
    /\ u \notin accounts
    /\ accounts' = accounts \union {u}
    /\ reported' = {}
    /\ UNCHANGED <<clientVars, serverVars, online, sent>>

\* Bug: no return after the quick message about an invalid save.
enterGame_noReturn(l) ==
    LET n == node[l]
    IN  /\ sent' = {Plain("QMSaveNotValid", l),
                    LoginHumDataNtf(serverNodeMap[n.gsServerId], l, n)}
        /\ UNCHANGED online

\* The end of onLoginGame, once the target server is known to be registered.
\* The role data, the extended data and the donate information are sent to
\* the game server before the row is written.  A save without a valid head
\* ends it; when only the extended data cannot be read, the client is told
\* of an invalid save and the player is handed over all the same.
enterGame(l) ==
    LET n == node[l]
        data == LoginHumDataNtf(serverNodeMap[n.gsServerId], l, n)
    IN  \/ /\ \E qm \in SaveQMs : sent' = {Plain(qm, l)}
           /\ UNCHANGED online
        \/ /\ sent' \in {{data}, {Plain("QMSaveNotValid", l), data}}
           /\ dbAddOnlinePlayer(n.uid, n.gsServerId, l)

\* Bug: whether the server is still registered is not asked.
onLoginGame_unregistered(l) ==
    LET n == node[l]
    IN  /\ MainIdle
        /\ l \in clientNodeMap
        /\ n.uid # None
        /\ n.gsServerId # None
        /\ dbGetPlayerOnlineServerId(n.uid) \subseteq {None, n.gsServerId}
        /\ enterGame(l)
        /\ reported' = {}
        /\ UNCHANGED <<clientVars, serverVars, accounts>>

onLoginGame(l) ==
    LET n == node[l]
    IN  /\ MainIdle
        /\ l \in clientNodeMap
        /\ n.uid # None
        /\ \/ /\ n.gsServerId = None
              /\ sent' = {Plain("QMNoServer", l)}
              /\ UNCHANGED online
           \/ /\ n.gsServerId # None
              /\ \E prevServerId \in dbGetPlayerOnlineServerId(n.uid) :
                   \/ /\ prevServerId \notin {None, n.gsServerId}
                      /\ sent' = {Plain("QMRelogin", l)}
                      /\ UNCHANGED online
                   \/ /\ prevServerId \in {None, n.gsServerId}
                      /\ serverNodeMap[n.gsServerId] = NoConn
                      /\ sent' = {Plain("QMNoServer", l)}
                      /\ UNCHANGED online
                   \/ /\ prevServerId \in {None, n.gsServerId}
                      /\ serverNodeMap[n.gsServerId] # NoConn
                      /\ enterGame(l)
        /\ reported' = {}
        /\ UNCHANGED <<clientVars, serverVars, accounts>>

-----------------------------------------------------------------------------
(* Game servers (handle_eventfromserver.go) *)

onEventFromServerConnected ==
    /\ MainIdle
    /\ serverNodeSeed \in ServerConns
    /\ serverOpen' = serverOpen \union {serverNodeSeed}
    /\ serverId' = [serverId EXCEPT ![serverNodeSeed] = None]
    /\ serverNodeSeed' = serverNodeSeed + 1
    /\ sent' = {}
    /\ reported' = {}
    /\ UNCHANGED <<serverNodeMap, clientVars, online, accounts>>

\* The entry of the map is deleted by server id, not by connection.
onEventFromServerDisconnected(c) ==
    LET s == serverId[c]
    IN  /\ MainIdle
        /\ c \in serverOpen
        /\ serverOpen' = serverOpen \ {c}
        /\ serverId' = [serverId EXCEPT ![c] = None]
        /\ IF s = None
           THEN UNCHANGED <<serverNodeMap, online>>
           ELSE /\ serverNodeMap' = [serverNodeMap EXCEPT ![s] = NoConn]
                /\ dbRemoveOnlinePlayerByServerId(s)
        /\ sent' = {}
        /\ reported' = {}
        /\ UNCHANGED <<serverNodeSeed, clientVars, accounts>>

\* Packets that change nothing: data on a connection without userdata, a
\* packet that cannot be decoded, a registration with id 0, a first packet
\* that is not a registration all close the connection; the probe of the old
\* protocol is answered; an unknown opcode is dropped.
onEventFromServerBadData(c) ==
    /\ MainIdle
    /\ c \in 1..(serverNodeSeed - 1)
    /\ \/ sent' = {Plain("CloseServer", c)}
       \/ /\ c \in serverOpen /\ serverId[c] = None
          /\ sent' = {Plain("ProtoTypeNtf", c)}
       \/ /\ c \in serverOpen /\ serverId[c] # None
          /\ sent' = {}
    /\ reported' = {}
    /\ UNCHANGED <<clientVars, serverVars, online, accounts>>

\* Bug: a server id that is registered already is taken over.
onRegisterServerReq_takeOver(c, s) ==
    /\ MainIdle
    /\ c \in serverOpen
    /\ serverId[c] = None
    /\ serverId' = [serverId EXCEPT ![c] = s]
    /\ serverNodeMap' = [serverNodeMap EXCEPT ![s] = c]
    /\ sent' = {Plain("SyncPlayerRankNtf", c)}
    /\ reported' = {}
    /\ UNCHANGED <<serverNodeSeed, serverOpen, clientVars, online, accounts>>

onRegisterServerReq(c, s) ==
    /\ MainIdle
    /\ c \in serverOpen
    /\ serverId[c] = None
    /\ IF serverNodeMap[s] # NoConn
       THEN /\ sent' = {Plain("CloseServer", c)}
            /\ UNCHANGED <<serverId, serverNodeMap>>
       ELSE /\ serverId' = [serverId EXCEPT ![c] = s]
            /\ serverNodeMap' = [serverNodeMap EXCEPT ![s] = c]
            /\ sent' = {Plain("SyncPlayerRankNtf", c)}
    /\ reported' = {}
    /\ UNCHANGED <<serverNodeSeed, serverOpen, clientVars, online, accounts>>

\* Bug: a client that is bound already is bound again.
onUserInternalVerifyReq_rebind(c, l, tokenOk) ==
    /\ MainIdle
    /\ c \in serverOpen
    /\ serverId[c] # None
    /\ l \in clientNodeMap
    /\ node[l].uid # None
    /\ tokenOk
    /\ node' = [node EXCEPT ![l].gsServerId = serverId[c], ![l].gid = c]
    /\ sent' = {Plain("PlayerHumBaseDataNtf", c)}
    /\ reported' = {}
    /\ UNCHANGED <<clientNodeSeed, clientNodeMap, clientUserMap, verifying,
                   serverVars, online, accounts>>

\* The game server shows the access token a client presented to it.  With a
\* wrong token the heads of the characters are sent all the same, unless the
\* save file cannot be opened.
onUserInternalVerifyReq(c, l, tokenOk) ==
    LET s == serverId[c]
        n == node[l]
    IN  /\ MainIdle
        /\ c \in serverOpen
        /\ s # None
        /\ IF /\ l \in clientNodeMap
              /\ n.uid # None
              /\ tokenOk => n.gsServerId = None
           THEN /\ node' = IF tokenOk
                           THEN [node EXCEPT ![l].gsServerId = s, ![l].gid = c]
                           ELSE node
                /\ sent' \in {{Plain("PlayerHumBaseDataNtf", c)}, {}}
           ELSE /\ sent' = {}
                /\ UNCHANGED node
        /\ reported' = {}
        /\ UNCHANGED <<clientNodeSeed, clientNodeMap, clientUserMap, verifying,
                       serverVars, online, accounts>>

\* uid and lid are what the game server says they are.
onPlayerDisconnectedNtf(c, u, l) ==
    /\ MainIdle
    /\ c \in serverOpen
    /\ serverId[c] # None
    /\ dbRemoveOnlinePlayerByUID(u, serverId[c], l)
    /\ reported' = {[uid |-> u, server_id |-> serverId[c], lid |-> l]}
    /\ sent' = {}
    /\ UNCHANGED <<clientVars, serverVars, accounts>>

-----------------------------------------------------------------------------
(* The program (main.go) *)

Init ==
    /\ clientNodeSeed = 1
    /\ clientNodeMap = {}
    /\ node = [l \in Lids |-> NewNode]
    /\ clientUserMap = [u \in Uids |-> {}]
    /\ verifying = Idle
    /\ serverNodeSeed = 1
    /\ serverOpen = {}
    /\ serverId = [c \in ServerConns |-> None]
    /\ serverNodeMap = [s \in ServerIds |-> NoConn]
    /\ online = {}
    /\ accounts = EarlyUids
    /\ sent = {}
    /\ reported = {}

\* Bug: the rows of the previous run of the program are kept.
Restart_rowsKept ==
    /\ clientNodeSeed' = 1
    /\ clientNodeMap' = {}
    /\ node' = [l \in Lids |-> NewNode]
    /\ clientUserMap' = [u \in Uids |-> {}]
    /\ verifying' = Idle
    /\ serverNodeSeed' = 1
    /\ serverOpen' = {}
    /\ serverId' = [c \in ServerConns |-> None]
    /\ serverNodeMap' = [s \in ServerIds |-> NoConn]
    /\ sent' = {}
    /\ reported' = {}
    /\ UNCHANGED <<online, accounts>>

\* A crash and the next start: memory and the seeds begin anew, main() empties
\* online_player before it listens (and ends if it cannot), accounts persist.
Restart ==
    /\ clientNodeSeed' = 1
    /\ clientNodeMap' = {}
    /\ node' = [l \in Lids |-> NewNode]
    /\ clientUserMap' = [u \in Uids |-> {}]
    /\ verifying' = Idle
    /\ serverNodeSeed' = 1
    /\ serverOpen' = {}
    /\ serverId' = [c \in ServerConns |-> None]
    /\ serverNodeMap' = [s \in ServerIds |-> NoConn]
    /\ online' = {}
    /\ sent' = {}
    /\ reported' = {}
    /\ UNCHANGED accounts

Next ==
    \/ onEventFromClientConnected
    \/ \E l \in Lids : \/ onEventFromClientDisconnected(l)
                      \/ onEventFromClientBadData(l)
                      \/ \E u \in Uids : verifyAccountBegin(l, u)
                      \/ onLoginGame(l)
    \/ verifyAccountEnd
    \/ \E u \in Uids : SignUp(u)
    \/ onEventFromServerConnected
    \/ \E c \in ServerConns :
          \/ onEventFromServerDisconnected(c)
          \/ onEventFromServerBadData(c)
          \/ \E s \in ServerIds : onRegisterServerReq(c, s)
          \/ \E l \in Lids, ok \in BOOLEAN : onUserInternalVerifyReq(c, l, ok)
          \/ \E l \in Lids, u \in Uids : onPlayerDisconnectedNtf(c, u, l)
    \/ Restart

Spec == Init /\ [][Next]_vars

-----------------------------------------------------------------------------
(* Properties *)

\* Every variable has the shape its declaration says.
TypeOK ==
    /\ clientNodeSeed \in 1..(MaxLid + 1)
    /\ clientNodeMap \in SUBSET Lids
    /\ node \in [Lids -> ClientNode]
    /\ clientUserMap \in [Uids -> SUBSET Lids]
    /\ verifying \in VerifyState
    /\ serverNodeSeed \in 1..(MaxServerConn + 1)
    /\ serverOpen \in SUBSET ServerConns
    /\ serverId \in [ServerConns -> ServerIds \union {None}]
    /\ serverNodeMap \in [ServerIds -> ServerConns \union {NoConn}]
    /\ online \in SUBSET Row
    /\ accounts \in SUBSET Uids
    /\ sent \in SUBSET Message
    /\ reported \in SUBSET Row

\* A player has online rows at one game server at most, however many clients
\* it has logged in ("already in other servers", onLoginGame).
OneServerPerPlayer ==
    \A r1, r2 \in online : r1.uid = r2.uid => r1.server_id = r2.server_id

\* Every online row names a game server that is registered now: the rows of a
\* server that disconnects go with it ("remove all online players").
OnlineServerRegistered ==
    \A r \in online : serverNodeMap[r.server_id] # NoConn

\* An online row whose client is still connected is about that client: the
\* uid it verified as and the server that claimed it.
RowMatchesClient ==
    \A r \in online : r.lid \in clientNodeMap =>
        /\ node[r.lid].uid = r.uid
        /\ node[r.lid].gsServerId = r.server_id

\* serverNodeMap and the nodes of the connections agree: a server id leads to
\* the one open connection that registered it, and every registered open
\* connection is found there.  Deletion by id, not by connection, rests on it.
RegistryConsistent ==
    \A s \in ServerIds, c \in ServerConns :
        serverNodeMap[s] = c <=> c \in serverOpen /\ serverId[c] = s

\* A LID names one session at a time: none that a connected client or an online
\* row carries will be handed out again.  After a restart, which begins at 1
\* anew, this is so only because the rows are deleted before anyone connects.
LidsFresh ==
    /\ \A l \in clientNodeMap : l < clientNodeSeed
    /\ \A r \in online : r.lid < clientNodeSeed

\* The list of a uid holds only connected clients that verified as this uid,
\* so no node outlives its connection there.
UserMapSound ==
    \A u \in Uids : \A l \in clientUserMap[u] :
        l \in clientNodeMap /\ node[l].uid = u

\* "key : uid , for all verified user": every connected client that has a uid
\* is in the list of that uid.
UserMapComplete ==
    \A l \in clientNodeMap, u \in Uids :
        node[l].uid = u => l \in clientUserMap[u]

\* When a game server is handed a player's data, it is registered, the player
\* has a row at that server, and none at another.
LoginNtfJustified ==
    \A m \in sent : m.op = "PlayerLoginHumDataNtf" =>
        \E s \in ServerIds :
            /\ serverNodeMap[s] = m.to
            /\ [uid |-> m.UID, server_id |-> s, lid |-> m.LID] \in online
            /\ \A r \in online : r.uid = m.UID => r.server_id = s

\* While a client stays connected its uid, its game server and the game
\* server's handle for it are set once and never change: neither a second
\* verification nor a second game server can take the session over.
BindingFixed ==
    [][\A l \in clientNodeMap \intersect clientNodeMap' :
         /\ node[l].uid # None => node'[l].uid = node[l].uid
         /\ node[l].gsServerId # None =>
              /\ node'[l].gsServerId = node[l].gsServerId
              /\ node'[l].gid = node[l].gid]_vars

\* While its game server stays registered, an online row disappears only when
\* that very server reports the end of that very client's session: a report
\* ends neither the session of another client of the same player, nor the
\* session that the same client, or another one, has at another server.
RowRemovalIsNarrow ==
    [][\A r \in online \ online' :
         reported' = {r} \/ serverNodeMap'[r.server_id] = NoConn]_vars

\* What the properties above rest on besides each other: the connection being
\* verified is still there without a uid, and serverConnIds are fresh as well.
VerifyingLive ==
    verifying # Idle =>
        /\ verifying.lid \in clientNodeMap
        /\ node[verifying.lid].uid = None

ServerConnsFresh == \A c \in serverOpen : c < serverNodeSeed

\* An inductive invariant, whether statements on the database fail or not.
SessionInv ==
    /\ TypeOK
    /\ LidsFresh
    /\ ServerConnsFresh
    /\ VerifyingLive
    /\ RegistryConsistent
    /\ RowMatchesClient
    /\ UserMapSound

\* With a database that does not fail, an inductive invariant on top of it.
PresenceInv ==
    /\ OneServerPerPlayer
    /\ OnlineServerRegistered
    /\ LoginNtfJustified

\* The game server a player is on, by the rows; None without a row.
TheOne(S) == IF S = {} THEN None ELSE CHOOSE s \in S : TRUE

HomeServers(u) == {r.server_id : r \in RowsOf(u)}

Registered == {s \in ServerIds : serverNodeMap[s] # NoConn}

P == INSTANCE Presence WITH
        up   <- Registered,
        home <- [u \in Uids |-> TheOne(HomeServers(u))]

\* The rows and the registry implement the presence service.
ImplementsPresence == P!Spec
=============================================================================
