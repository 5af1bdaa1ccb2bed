------------------------- MODULE LoginSessionProofs -------------------------
(***************************************************************************)
(* Proofs about LoginSession, for every set of players and game servers    *)
(* and every bound.  SessionInv is inductive whatever the database does;   *)
(* PresenceInv needs a database whose statements do not fail, and with it  *)
(* LoginSession implements Presence.                                       *)
(***************************************************************************)
EXTENDS LoginSession, TLAPS

-----------------------------------------------------------------------------
(* Type correctness *)

LEMMA InitTypeOK == Init => TypeOK
BY ConstantsAssumption
   DEF Init, TypeOK, ConstantsAssumption, Lids, ServerConns, ClientNode,
       NewNode, NoConn, VerifyState, Row, Message

\* The row operations keep the table a set of well-formed rows.
LEMMA RowsTyped ==
    ASSUME online \in SUBSET Row,
           NEW u \in Uids, NEW s \in ServerIds, NEW l \in Lids
    PROVE  /\ dbAddOnlinePlayer(u, s, l) => online' \in SUBSET Row
           /\ dbRemoveOnlinePlayerByUID(u, s, l) => online' \in SUBSET Row
           /\ dbRemoveOnlinePlayerByServerId(s) => online' \in SUBSET Row
BY DEF Row, dbAddOnlinePlayer, dbRemoveOnlinePlayerByUID,
       dbRemoveOnlinePlayerByServerId

\* The two updates of a node keep all nodes well formed.
LEMMA NodeTyped ==
    ASSUME node \in [Lids -> ClientNode], NEW l \in Lids
    PROVE  /\ \A u \in Uids :
                [node EXCEPT ![l].uid = u] \in [Lids -> ClientNode]
           /\ \A s \in ServerIds \union {None}, c \in ServerConns :
                [node EXCEPT ![l].gsServerId = s, ![l].gid = c]
                  \in [Lids -> ClientNode]
<1>1. \A u \in Uids : [node[l] EXCEPT !.uid = u] \in ClientNode
  BY DEF ClientNode
<1>2. \A s \in ServerIds \union {None}, c \in ServerConns :
        [node[l] EXCEPT !.gsServerId = s, !.gid = c] \in ClientNode
  BY DEF ClientNode
<1>3. \A s, c :
        [node EXCEPT ![l].gsServerId = s, ![l].gid = c]
          = [node EXCEPT ![l] = [node[l] EXCEPT !.gsServerId = s, !.gid = c]]
  OBVIOUS
<1> QED BY <1>1, <1>2, <1>3

\* Every step keeps every variable in its type.
LEMMA NextTypeOK == TypeOK /\ [Next]_vars => TypeOK'
<1> SUFFICES ASSUME TypeOK, [Next]_vars PROVE TypeOK'
    OBVIOUS
<1> USE ConstantsAssumption DEF ConstantsAssumption, Lids, ServerConns, NoConn
<1>1. CASE onEventFromClientConnected
  BY <1>1 DEF TypeOK, onEventFromClientConnected, serverVars, ClientNode,
              NewNode, Message, ClientOps, Plain
<1>2. ASSUME NEW l \in Lids, onEventFromClientDisconnected(l) PROVE TypeOK'
  BY <1>2 DEF TypeOK, onEventFromClientDisconnected,
              removeClientFromClientUserMap, serverVars, ClientNode, NewNode
<1>3. ASSUME NEW l \in Lids, onEventFromClientBadData(l) PROVE TypeOK'
  BY <1>3 DEF TypeOK, onEventFromClientBadData, clientVars, serverVars,
              Message, ClientOps, Plain
<1>4. ASSUME NEW l \in Lids, NEW u \in Uids, verifyAccountBegin(l, u)
      PROVE  TypeOK'
  BY <1>4 DEF TypeOK, verifyAccountBegin, serverVars, VerifyState, DbOk
<1>5. CASE verifyAccountEnd
  <2>1. verifying.lid \in Lids /\ verifying.uid \in Uids
    BY <1>5 DEF TypeOK, verifyAccountEnd, MainIdle, VerifyState
  <2>2. node' \in [Lids -> ClientNode]
    <3>1. [node EXCEPT ![verifying.lid].uid = verifying.uid]
            \in [Lids -> ClientNode]
      BY <2>1, NodeTyped DEF TypeOK
    <3> QED BY <1>5, <3>1 DEF TypeOK, verifyAccountEnd
  <2>3. clientUserMap' \in [Uids -> SUBSET Lids]
    BY <1>5, <2>1 DEF TypeOK, verifyAccountEnd, addClientToClientUserMap
  <2>4. sent' \in SUBSET Message
    BY <1>5, <2>1 DEF verifyAccountEnd, Message, ClientOps, Plain,
                      VerifyAccountRsp
  <2> QED BY <1>5, <2>2, <2>3, <2>4
          DEF TypeOK, verifyAccountEnd, serverVars, VerifyState
<1>6. ASSUME NEW l \in Lids, onLoginGame(l) PROVE TypeOK'
  <2>1. node[l].uid \in Uids /\ node[l].gid \in ServerConns \union {NoConn}
    BY <1>6 DEF TypeOK, onLoginGame, ClientNode
  <2>2. online' \in SUBSET Row
    BY <1>6, <2>1, RowsTyped DEF TypeOK, onLoginGame, enterGame, ClientNode
  <2>3. sent' \in SUBSET Message
    BY <1>6, <2>1 DEF TypeOK, onLoginGame, enterGame, ClientNode, Message,
                      ClientOps, SaveQMs, Plain, LoginHumDataNtf
  <2> QED BY <1>6, <2>2, <2>3 DEF TypeOK, onLoginGame, clientVars, serverVars
<1>7. ASSUME NEW u \in Uids, SignUp(u) PROVE TypeOK'
  BY <1>7 DEF TypeOK, SignUp, clientVars, serverVars
<1>8. CASE onEventFromServerConnected
  BY <1>8 DEF TypeOK, onEventFromServerConnected, clientVars
<1>9. ASSUME NEW c \in ServerConns, onEventFromServerDisconnected(c)
      PROVE  TypeOK'
  <2>1. online' \in SUBSET Row
    BY <1>9, RowsTyped DEF TypeOK, onEventFromServerDisconnected,
                           dbRemoveOnlinePlayerByServerId
  <2> QED BY <1>9, <2>1
          DEF TypeOK, onEventFromServerDisconnected, clientVars
<1>10. ASSUME NEW c \in ServerConns, onEventFromServerBadData(c) PROVE TypeOK'
  BY <1>10 DEF TypeOK, onEventFromServerBadData, clientVars, serverVars,
               Message, ServerOps, Plain
<1>11. ASSUME NEW c \in ServerConns, NEW s \in ServerIds,
              onRegisterServerReq(c, s)
       PROVE  TypeOK'
  <2>1. sent' \in SUBSET Message
    BY <1>11 DEF onRegisterServerReq, Message, ServerOps, Plain
  <2>2. /\ serverId' \in [ServerConns -> ServerIds \union {None}]
        /\ serverNodeMap' \in [ServerIds -> ServerConns \union {NoConn}]
    BY <1>11 DEF TypeOK, onRegisterServerReq
  <2> QED BY <1>11, <2>1, <2>2 DEF TypeOK, onRegisterServerReq, clientVars
<1>12. ASSUME NEW c \in ServerConns, NEW l \in Lids, NEW ok \in BOOLEAN,
              onUserInternalVerifyReq(c, l, ok)
       PROVE  TypeOK'
  <2>1. sent' \in SUBSET Message
    BY <1>12 DEF onUserInternalVerifyReq, Message, ServerOps, Plain
  <2>2. node' \in [Lids -> ClientNode]
    <3>1. [node EXCEPT ![l].gsServerId = serverId[c], ![l].gid = c]
            \in [Lids -> ClientNode]
      BY NodeTyped DEF TypeOK
    <3> QED BY <1>12, <3>1 DEF TypeOK, onUserInternalVerifyReq
  <2> QED BY <1>12, <2>1, <2>2 DEF TypeOK, onUserInternalVerifyReq, serverVars
<1>13. ASSUME NEW c \in ServerConns, NEW l \in Lids, NEW u \in Uids,
              onPlayerDisconnectedNtf(c, u, l)
       PROVE  TypeOK'
  <2>1. [uid |-> u, server_id |-> serverId[c], lid |-> l] \in Row
    BY <1>13 DEF TypeOK, onPlayerDisconnectedNtf, Row
  <2> QED BY <1>13, <2>1 DEF TypeOK, onPlayerDisconnectedNtf,
                  dbRemoveOnlinePlayerByUID, clientVars, serverVars
<1>14. CASE Restart
  BY <1>14 DEF TypeOK, Restart, ClientNode, NewNode, VerifyState
<1>15. CASE UNCHANGED vars
  BY <1>15 DEF TypeOK, vars
<1> QED
  BY <1>1, <1>2, <1>3, <1>4, <1>5, <1>6, <1>7, <1>8, <1>9, <1>10, <1>11,
     <1>12, <1>13, <1>14, <1>15 DEF Next

\* In every reachable state every variable has the shape its declaration says.
THEOREM TypeCorrect == Spec => []TypeOK
<1>1. Init => TypeOK
  BY InitTypeOK
<1>2. TypeOK /\ [Next]_vars => TypeOK'
  BY NextTypeOK
<1> QED BY <1>1, <1>2, PTL DEF Spec

-----------------------------------------------------------------------------
(* Sessions, whatever the database does *)

LEMMA InitSessionInv == Init => SessionInv
<1> SUFFICES ASSUME Init PROVE SessionInv
    OBVIOUS
<1>1. TypeOK
  BY InitTypeOK
<1>2. RegistryConsistent
  BY ConstantsAssumption
     DEF Init, RegistryConsistent, ConstantsAssumption, ServerConns, NoConn
<1>3. LidsFresh /\ ServerConnsFresh /\ VerifyingLive /\ RowMatchesClient
        /\ UserMapSound
  BY DEF Init, LidsFresh, ServerConnsFresh, VerifyingLive, RowMatchesClient,
         UserMapSound
<1> QED BY <1>1, <1>2, <1>3 DEF SessionInv

\* An operation on online_player adds no row but the one it is given, and
\* the two deletions none at all.
LEMMA RowsGrow ==
    ASSUME NEW u, NEW s, NEW l
    PROVE  /\ dbAddOnlinePlayer(u, s, l) =>
                online' \subseteq online
                  \union {[uid |-> u, server_id |-> s, lid |-> l]}
           /\ dbRemoveOnlinePlayerByUID(u, s, l) => online' \subseteq online
           /\ dbRemoveOnlinePlayerByServerId(s) => online' \subseteq online
BY DEF dbAddOnlinePlayer, dbRemoveOnlinePlayerByUID,
       dbRemoveOnlinePlayerByServerId

\* A step that changes no connection and adds no row keeps SessionInv.
LEMMA QuietSessionInv ==
    ASSUME SessionInv, TypeOK', UNCHANGED <<clientVars, serverVars>>,
           online' \subseteq online
    PROVE  SessionInv'
BY DEF SessionInv, LidsFresh, ServerConnsFresh, VerifyingLive,
       RegistryConsistent, RowMatchesClient, UserMapSound, clientVars,
       serverVars

\* SessionInv is inductive.
LEMMA NextSessionInv == SessionInv /\ [Next]_vars => SessionInv'
<1> SUFFICES ASSUME SessionInv, [Next]_vars PROVE SessionInv'
    OBVIOUS
<1> USE ConstantsAssumption DEF ConstantsAssumption
<1>0. TypeOK /\ TypeOK'
  BY NextTypeOK DEF SessionInv
<1> DEFINE Unregistered == UNCHANGED <<serverOpen, serverId, serverNodeMap,
                                       serverNodeSeed>>
<1>a. Unregistered => RegistryConsistent' /\ ServerConnsFresh'
  BY DEF SessionInv, RegistryConsistent, ServerConnsFresh
<1>1. CASE onEventFromClientConnected
  <2> USE <1>1 DEF onEventFromClientConnected
  <2>1. clientNodeSeed \in Nat /\ clientNodeSeed \notin clientNodeMap
        /\ \A r \in online : r.lid # clientNodeSeed
    BY <1>0 DEF SessionInv, LidsFresh, TypeOK, Lids
  <2>2. LidsFresh'
    BY <1>0, <2>1 DEF SessionInv, LidsFresh, TypeOK, Lids, Row
  <2>3. VerifyingLive'
    BY DEF VerifyingLive, MainIdle
  <2>4. RowMatchesClient'
    BY <1>0, <2>1 DEF SessionInv, RowMatchesClient, TypeOK
  <2>5. UserMapSound'
    BY <1>0, <2>1 DEF SessionInv, UserMapSound, TypeOK
  <2> QED BY <1>0, <1>a, <2>2, <2>3, <2>4, <2>5 DEF SessionInv, serverVars
<1>2. ASSUME NEW l \in Lids, onEventFromClientDisconnected(l)
      PROVE  SessionInv'
  <2> USE <1>2 DEF onEventFromClientDisconnected, removeClientFromClientUserMap
  <2>1. LidsFresh' /\ VerifyingLive'
    BY DEF SessionInv, LidsFresh, VerifyingLive, MainIdle
  <2>2. RowMatchesClient'
    BY <1>0 DEF SessionInv, RowMatchesClient, TypeOK
  <2>3. UserMapSound'
    BY <1>0 DEF SessionInv, UserMapSound, TypeOK
  <2> QED BY <1>0, <1>a, <2>1, <2>2, <2>3 DEF SessionInv, serverVars
<1>3. ASSUME NEW l \in Lids, onEventFromClientBadData(l) PROVE SessionInv'
  BY <1>0, <1>3, QuietSessionInv DEF onEventFromClientBadData
<1>4. ASSUME NEW l \in Lids, NEW u \in Uids, verifyAccountBegin(l, u)
      PROVE  SessionInv'
  <2> USE <1>4 DEF verifyAccountBegin
  <2>1. verifying'.lid = l
    OBVIOUS
  <2>2. LidsFresh' /\ VerifyingLive' /\ RowMatchesClient' /\ UserMapSound'
    BY <2>1 DEF SessionInv, LidsFresh, VerifyingLive, RowMatchesClient,
                UserMapSound
  <2> QED BY <1>0, <1>a, <2>2 DEF SessionInv, serverVars
<1>5. CASE verifyAccountEnd
  <2> DEFINE l == verifying.lid
             u == verifying.uid
  <2>1. /\ l \in clientNodeMap /\ l \in Lids /\ u \in Uids
        /\ node[l].uid = None
    BY <1>0, <1>5 DEF SessionInv, VerifyingLive, verifyAccountEnd, MainIdle,
                      TypeOK, VerifyState
  <2>2. \/ UNCHANGED <<node, clientUserMap>>
        \/ /\ node' = [node EXCEPT ![l].uid = u]
           /\ clientUserMap' \in {clientUserMap,
                                  [clientUserMap EXCEPT ![u] = @ \union {l}]}
    BY <1>5 DEF verifyAccountEnd, addClientToClientUserMap
  <2>3. LidsFresh' /\ VerifyingLive'
    BY <1>5 DEF SessionInv, LidsFresh, VerifyingLive, verifyAccountEnd
  <2>4. RowMatchesClient'
    <3>1. \A r \in online : r.lid # l
      BY <1>0, <2>1 DEF SessionInv, RowMatchesClient, TypeOK, Row
    <3> QED BY <1>0, <1>5, <2>1, <2>2, <3>1
            DEF SessionInv, RowMatchesClient, verifyAccountEnd, TypeOK
  <2>5. UserMapSound'
    <3>1. \A v \in Uids : l \notin clientUserMap[v]
      BY <1>0, <2>1 DEF SessionInv, UserMapSound, TypeOK
    <3> QED BY <1>0, <1>5, <2>1, <2>2, <3>1
            DEF SessionInv, UserMapSound, verifyAccountEnd, TypeOK, ClientNode
  <2> QED BY <1>0, <1>5, <1>a, <2>3, <2>4, <2>5
          DEF SessionInv, serverVars, verifyAccountEnd
<1>6. ASSUME NEW l \in Lids, onLoginGame(l) PROVE SessionInv'
  <2> DEFINE row == [uid |-> node[l].uid, server_id |-> node[l].gsServerId,
                     lid |-> l]
  <2>1. online' \subseteq online \union {row}
    BY <1>6, RowsGrow DEF onLoginGame, enterGame
  <2>2. LidsFresh' /\ VerifyingLive' /\ RowMatchesClient' /\ UserMapSound'
    BY <1>6, <2>1 DEF onLoginGame, clientVars, SessionInv, LidsFresh,
                      VerifyingLive, RowMatchesClient, UserMapSound
  <2> QED BY <1>0, <1>6, <1>a, <2>2 DEF SessionInv, serverVars, onLoginGame
<1>7. ASSUME NEW u \in Uids, SignUp(u) PROVE SessionInv'
  BY <1>0, <1>7, QuietSessionInv DEF SignUp
<1>8. CASE onEventFromServerConnected
  <2> USE <1>8 DEF onEventFromServerConnected
  <2>1. LidsFresh' /\ VerifyingLive' /\ RowMatchesClient' /\ UserMapSound'
    BY DEF clientVars, SessionInv, LidsFresh, VerifyingLive,
           RowMatchesClient, UserMapSound
  <2>2. ServerConnsFresh'
    BY <1>0 DEF SessionInv, ServerConnsFresh, TypeOK, ServerConns
  <2>3. RegistryConsistent'
    BY <1>0 DEF SessionInv, RegistryConsistent, ServerConnsFresh, TypeOK,
                ServerConns
  <2> QED BY <1>0, <2>1, <2>2, <2>3 DEF SessionInv
<1>9. ASSUME NEW c \in ServerConns, onEventFromServerDisconnected(c)
      PROVE  SessionInv'
  <2> USE <1>9 DEF onEventFromServerDisconnected
  <2>0. online' \subseteq online
    BY RowsGrow
  <2>1. LidsFresh' /\ VerifyingLive' /\ RowMatchesClient' /\ UserMapSound'
    BY <2>0 DEF clientVars, SessionInv, LidsFresh, VerifyingLive,
                RowMatchesClient, UserMapSound
  <2>2. ServerConnsFresh'
    BY DEF SessionInv, ServerConnsFresh
  <2>3. RegistryConsistent'
    BY <1>0 DEF SessionInv, RegistryConsistent, TypeOK, ServerConns, NoConn
  <2> QED BY <1>0, <2>1, <2>2, <2>3 DEF SessionInv
<1>10. ASSUME NEW c \in ServerConns, onEventFromServerBadData(c)
       PROVE  SessionInv'
  BY <1>0, <1>10, QuietSessionInv DEF onEventFromServerBadData
<1>11. ASSUME NEW c \in ServerConns, NEW s \in ServerIds,
              onRegisterServerReq(c, s)
       PROVE  SessionInv'
  <2> USE <1>11 DEF onRegisterServerReq
  <2>1. LidsFresh' /\ VerifyingLive' /\ RowMatchesClient' /\ UserMapSound'
        /\ ServerConnsFresh'
    BY DEF clientVars, SessionInv, LidsFresh, VerifyingLive,
           RowMatchesClient, UserMapSound, ServerConnsFresh
  <2>2. RegistryConsistent'
    BY <1>0 DEF SessionInv, RegistryConsistent, TypeOK, ServerConns, NoConn
  <2> QED BY <1>0, <2>1, <2>2 DEF SessionInv
<1>12. ASSUME NEW c \in ServerConns, NEW l \in Lids, NEW ok \in BOOLEAN,
              onUserInternalVerifyReq(c, l, ok)
       PROVE  SessionInv'
  <2> USE <1>12 DEF onUserInternalVerifyReq
  <2>1. \/ UNCHANGED node
        \/ /\ l \in clientNodeMap /\ node[l].gsServerId = None
           /\ node' = [node EXCEPT ![l].gsServerId = serverId[c],
                                   ![l].gid = c]
    OBVIOUS
  <2>2. \A m \in Lids : node'[m].uid = node[m].uid
    BY <1>0, <2>1 DEF TypeOK, ClientNode
  <2>3. LidsFresh' /\ VerifyingLive' /\ UserMapSound'
    BY <1>0, <2>2 DEF SessionInv, LidsFresh, VerifyingLive, UserMapSound,
                      TypeOK
  <2>4. RowMatchesClient'
    BY <1>0, <2>1, <2>2 DEF SessionInv, RowMatchesClient, TypeOK, Row
  <2> QED BY <1>0, <1>a, <2>3, <2>4 DEF SessionInv, serverVars
<1>13. ASSUME NEW c \in ServerConns, NEW l \in Lids, NEW u \in Uids,
              onPlayerDisconnectedNtf(c, u, l)
       PROVE  SessionInv'
  BY <1>0, <1>13, RowsGrow, QuietSessionInv DEF onPlayerDisconnectedNtf
<1>14. CASE Restart
  <2>1. RegistryConsistent'
    BY <1>14 DEF Restart, RegistryConsistent, ServerConns, NoConn
  <2>2. LidsFresh' /\ ServerConnsFresh' /\ VerifyingLive'
          /\ RowMatchesClient' /\ UserMapSound'
    BY <1>14 DEF Restart, LidsFresh, ServerConnsFresh, VerifyingLive,
                 RowMatchesClient, UserMapSound
  <2> QED BY <1>0, <2>1, <2>2 DEF SessionInv
<1>15. CASE UNCHANGED vars
  BY <1>0, <1>15, QuietSessionInv DEF vars, clientVars, serverVars
<1> QED
  BY <1>1, <1>2, <1>3, <1>4, <1>5, <1>6, <1>7, <1>8, <1>9, <1>10, <1>11,
     <1>12, <1>13, <1>14, <1>15 DEF Next

LEMMA SessionInvariant == Spec => []SessionInv
<1>1. Init => SessionInv
  BY InitSessionInv
<1>2. SessionInv /\ [Next]_vars => SessionInv'
  BY NextSessionInv
<1> QED BY <1>1, <1>2, PTL DEF Spec

\* An online row whose client is still connected is about that client, a
\* server id leads to the one open connection that registered it, the lists of
\* clientUserMap hold only live clients of their uid, and LIDs stay fresh: all
\* of it also when statements on the database fail.
THEOREM SessionsSound ==
    Spec => [](RowMatchesClient /\ RegistryConsistent /\ UserMapSound
               /\ LidsFresh)
<1>1. SessionInv => RowMatchesClient /\ RegistryConsistent /\ UserMapSound
                    /\ LidsFresh
  BY DEF SessionInv
<1> QED BY <1>1, SessionInvariant, PTL

\* No step changes the uid, the game server or the game server's handle of a
\* client that stays connected, once they are set.
THEOREM BindingIsFixed == Spec => BindingFixed
<1> DEFINE Fixed(l) ==
      /\ node[l].uid # None => node'[l].uid = node[l].uid
      /\ node[l].gsServerId # None =>
           /\ node'[l].gsServerId = node[l].gsServerId
           /\ node'[l].gid = node[l].gid
    Step == \A l \in clientNodeMap \intersect clientNodeMap' : Fixed(l)
<1>1. SessionInv /\ [Next]_vars => [Step]_vars
  <2> SUFFICES ASSUME SessionInv, Next,
                      NEW m \in clientNodeMap \intersect clientNodeMap'
               PROVE  Fixed(m)
      OBVIOUS
  <2>0. TypeOK
    BY DEF SessionInv
  <2>1. CASE onEventFromClientConnected
    BY <2>0, <2>1 DEF SessionInv, LidsFresh, onEventFromClientConnected,
                      TypeOK, Lids
  <2>2. ASSUME NEW l \in Lids, onEventFromClientDisconnected(l)
        PROVE  Fixed(m)
    BY <2>0, <2>2 DEF onEventFromClientDisconnected, TypeOK
  <2>3. CASE verifyAccountEnd
    <3>1. node[verifying.lid].uid = None
      BY <2>3 DEF SessionInv, VerifyingLive, verifyAccountEnd, MainIdle
    <3>2. node' = node
          \/ node' = [node EXCEPT ![verifying.lid].uid = verifying.uid]
      BY <2>3 DEF verifyAccountEnd
    <3> QED BY <2>0, <3>1, <3>2 DEF TypeOK, ClientNode
  <2>4. ASSUME NEW c \in ServerConns, NEW l \in Lids, NEW ok \in BOOLEAN,
               onUserInternalVerifyReq(c, l, ok)
        PROVE  Fixed(m)
    <3>1. \/ UNCHANGED node
          \/ /\ node[l].gsServerId = None
             /\ node' = [node EXCEPT ![l].gsServerId = serverId[c],
                                     ![l].gid = c]
      BY <2>4 DEF onUserInternalVerifyReq
    <3> QED BY <2>0, <3>1 DEF TypeOK, ClientNode
  <2>5. CASE Restart
    BY <2>5 DEF Restart
  <2>6. CASE UNCHANGED node
    BY <2>6
  <2> QED
    BY <2>1, <2>2, <2>3, <2>4, <2>5, <2>6
       DEF Next, onEventFromClientBadData, verifyAccountBegin, SignUp,
           onLoginGame, onEventFromServerConnected,
           onEventFromServerDisconnected, onEventFromServerBadData,
           onRegisterServerReq, onPlayerDisconnectedNtf, clientVars
<1>2. Spec => [][Step]_vars
  BY <1>1, SessionInvariant, PTL DEF Spec
<1> QED BY <1>2 DEF BindingFixed

-----------------------------------------------------------------------------
(* One game server per player, when statements on the database do not fail *)

LEMMA InitPresenceInv == Init => PresenceInv
BY DEF Init, PresenceInv, OneServerPerPlayer, OnlineServerRegistered,
       LoginNtfJustified

\* What the operations on online_player do when they do not fail.
LEMMA RowsExact ==
    ASSUME ~DbFaults, NEW u, NEW s, NEW l
    PROVE  /\ dbAddOnlinePlayer(u, s, l) =>
                online' = online
                  \union {[uid |-> u, server_id |-> s, lid |-> l]}
           /\ dbRemoveOnlinePlayerByUID(u, s, l) =>
                online' = {r \in online :
                             ~(r.uid = u /\ r.server_id = s /\ r.lid = l)}
           /\ dbRemoveOnlinePlayerByServerId(s) =>
                online' = {r \in online : r.server_id # s}
           /\ dbGetPlayerOnlineServerId(u) =
                IF RowsOf(u) = {} THEN {None}
                ELSE {r.server_id : r \in RowsOf(u)}
BY DEF dbAddOnlinePlayer, dbRemoveOnlinePlayerByUID, DbOk,
       dbRemoveOnlinePlayerByServerId, dbGetPlayerOnlineServerId

\* What a login that reaches the game server does: the row is written where
\* all rows of the player already are.
LEMMA LoginGameStep ==
    ASSUME ~DbFaults, SessionInv, PresenceInv, NEW l \in Lids, onLoginGame(l)
    PROVE  \/ /\ UNCHANGED online
              /\ \A m \in sent' : m.op # "PlayerLoginHumDataNtf"
           \/ /\ node[l].uid \in Uids
              /\ node[l].gsServerId \in ServerIds
              /\ serverNodeMap[node[l].gsServerId] # NoConn
              /\ \A r \in RowsOf(node[l].uid) :
                    r.server_id = node[l].gsServerId
              /\ \A m \in sent' : m.op = "PlayerLoginHumDataNtf" =>
                   m = LoginHumDataNtf(serverNodeMap[node[l].gsServerId],
                                       l, node[l])
              /\ online' = online \union {[uid |-> node[l].uid,
                                           server_id |-> node[l].gsServerId,
                                           lid |-> l]}
<1> DEFINE n == node[l]
           data == LoginHumDataNtf(serverNodeMap[n.gsServerId], l, n)
<1>1. n.uid \in Uids
  BY DEF onLoginGame, SessionInv, TypeOK, ClientNode
<1>2. n.gsServerId \in ServerIds \union {None}
  BY DEF SessionInv, TypeOK, ClientNode
<1>3. CASE /\ UNCHANGED online
           /\ \E op \in {"QMNoServer", "QMRelogin"} \union SaveQMs :
                sent' = {Plain(op, l)}
  BY <1>3 DEF SaveQMs, Plain
<1>4. CASE /\ n.gsServerId # None
           /\ serverNodeMap[n.gsServerId] # NoConn
           /\ \E prev \in dbGetPlayerOnlineServerId(n.uid) :
                prev \in {None, n.gsServerId}
           /\ sent' \in {{data}, {Plain("QMSaveNotValid", l), data}}
           /\ dbAddOnlinePlayer(n.uid, n.gsServerId, l)
  <2>0. \A m \in sent' : m.op = "PlayerLoginHumDataNtf" => m = data
    <3>1. Plain("QMSaveNotValid", l).op # "PlayerLoginHumDataNtf"
      BY DEF Plain
    <3> QED BY <1>4, <3>1
  <2>1. online' = online \union {[uid |-> n.uid, server_id |-> n.gsServerId,
                                  lid |-> l]}
    BY <1>4, RowsExact
  <2>2. \A r \in RowsOf(n.uid) : r.server_id = n.gsServerId
    <3> SUFFICES ASSUME NEW r \in RowsOf(n.uid)
                 PROVE  r.server_id = n.gsServerId
        OBVIOUS
    <3>1. PICK prev \in dbGetPlayerOnlineServerId(n.uid) :
            prev \in {None, n.gsServerId}
      BY <1>4
    <3>2. PICK q \in RowsOf(n.uid) : prev = q.server_id
      BY <3>1, RowsExact
    <3>3. q.server_id # None
      BY ConstantsAssumption
         DEF ConstantsAssumption, RowsOf, SessionInv, TypeOK, Row
    <3>4. r.server_id = q.server_id
      BY DEF RowsOf, PresenceInv, OneServerPerPlayer
    <3> QED BY <3>1, <3>2, <3>3, <3>4
  <2> QED BY <1>1, <1>2, <1>4, <2>0, <2>1, <2>2
<1> QED BY <1>3, <1>4 DEF onLoginGame, enterGame

\* A step that removes rows at most, unregisters no server that keeps a row,
\* and hands no data to a game server, keeps PresenceInv.
LEMMA QuietPresenceInv ==
    ASSUME PresenceInv, online' \subseteq online,
           \A r \in online' :
              serverNodeMap'[r.server_id] = serverNodeMap[r.server_id],
           \A m \in sent' : m.op # "PlayerLoginHumDataNtf"
    PROVE  PresenceInv'
BY DEF PresenceInv, OneServerPerPlayer, OnlineServerRegistered,
       LoginNtfJustified

\* With a database that does not fail PresenceInv is inductive as well.
LEMMA NextPresenceInv ==
    ASSUME ~DbFaults
    PROVE  SessionInv /\ PresenceInv /\ [Next]_vars => PresenceInv'
<1> SUFFICES ASSUME SessionInv, PresenceInv, [Next]_vars PROVE PresenceInv'
    OBVIOUS
<1> USE ConstantsAssumption DEF ConstantsAssumption, Plain
<1>0. TypeOK
  BY DEF SessionInv
<1>1. CASE onEventFromClientConnected
  BY <1>1, QuietPresenceInv DEF onEventFromClientConnected, serverVars
<1>2. ASSUME NEW l \in Lids, onEventFromClientDisconnected(l)
      PROVE  PresenceInv'
  BY <1>2, QuietPresenceInv DEF onEventFromClientDisconnected, serverVars
<1>3. ASSUME NEW l \in Lids, onEventFromClientBadData(l) PROVE PresenceInv'
  BY <1>3, QuietPresenceInv DEF onEventFromClientBadData, serverVars
<1>4. ASSUME NEW l \in Lids, NEW u \in Uids, verifyAccountBegin(l, u)
      PROVE  PresenceInv'
  BY <1>4, QuietPresenceInv DEF verifyAccountBegin, serverVars
<1>5. CASE verifyAccountEnd
  BY <1>5, QuietPresenceInv
     DEF verifyAccountEnd, serverVars, VerifyAccountRsp
<1>6. ASSUME NEW l \in Lids, onLoginGame(l) PROVE PresenceInv'
  <2>1. UNCHANGED serverNodeMap
    BY <1>6 DEF onLoginGame, serverVars
  <2>2. CASE /\ UNCHANGED online
             /\ \A m \in sent' : m.op # "PlayerLoginHumDataNtf"
    BY <2>1, <2>2, QuietPresenceInv
  <2>3. CASE /\ node[l].uid \in Uids
             /\ node[l].gsServerId \in ServerIds
             /\ serverNodeMap[node[l].gsServerId] # NoConn
             /\ \A r \in RowsOf(node[l].uid) :
                   r.server_id = node[l].gsServerId
             /\ \A m \in sent' : m.op = "PlayerLoginHumDataNtf" =>
                  m = LoginHumDataNtf(serverNodeMap[node[l].gsServerId],
                                      l, node[l])
             /\ online' = online \union {[uid |-> node[l].uid,
                                          server_id |-> node[l].gsServerId,
                                          lid |-> l]}
    <3>1. OneServerPerPlayer'
      BY <2>3 DEF PresenceInv, OneServerPerPlayer, RowsOf
    <3>2. OnlineServerRegistered'
      BY <2>1, <2>3 DEF PresenceInv, OnlineServerRegistered
    <3>3. \A r \in online' :
             r.uid = node[l].uid => r.server_id = node[l].gsServerId
      BY <2>3 DEF RowsOf
    <3>4. LoginNtfJustified'
      BY <2>1, <2>3, <3>3 DEF LoginNtfJustified, LoginHumDataNtf
    <3> QED BY <3>1, <3>2, <3>4 DEF PresenceInv
  <2> QED BY <1>6, <2>2, <2>3, LoginGameStep
<1>7. ASSUME NEW u \in Uids, SignUp(u) PROVE PresenceInv'
  BY <1>7 DEF SignUp, serverVars, PresenceInv, OneServerPerPlayer,
              OnlineServerRegistered, LoginNtfJustified
<1>8. CASE onEventFromServerConnected
  BY <1>8, QuietPresenceInv DEF onEventFromServerConnected
<1>9. ASSUME NEW c \in ServerConns, onEventFromServerDisconnected(c)
      PROVE  PresenceInv'
  <2>1. CASE serverId[c] = None
    BY <1>9, <2>1, QuietPresenceInv DEF onEventFromServerDisconnected
  <2>2. CASE serverId[c] # None
    <3>1. online' = {r \in online : r.server_id # serverId[c]}
      BY <1>9, <2>2, RowsExact DEF onEventFromServerDisconnected
    <3>2. serverNodeMap' = [serverNodeMap EXCEPT ![serverId[c]] = NoConn]
      BY <1>9, <2>2 DEF onEventFromServerDisconnected
    <3>3. \A r \in online' :
             serverNodeMap'[r.server_id] = serverNodeMap[r.server_id]
      BY <1>0, <3>1, <3>2 DEF TypeOK, Row
    <3> QED BY <1>9, <3>1, <3>3, QuietPresenceInv
            DEF onEventFromServerDisconnected
  <2> QED BY <2>1, <2>2
<1>10. ASSUME NEW c \in ServerConns, onEventFromServerBadData(c)
       PROVE  PresenceInv'
  BY <1>10, QuietPresenceInv DEF onEventFromServerBadData, serverVars
<1>11. ASSUME NEW c \in ServerConns, NEW s \in ServerIds,
              onRegisterServerReq(c, s)
       PROVE  PresenceInv'
  <2>1. \A r \in online :
           serverNodeMap'[r.server_id] = serverNodeMap[r.server_id]
    BY <1>0, <1>11 DEF TypeOK, Row, onRegisterServerReq, PresenceInv,
                       OnlineServerRegistered
  <2> QED BY <1>11, <2>1, QuietPresenceInv DEF onRegisterServerReq
<1>12. ASSUME NEW c \in ServerConns, NEW l \in Lids, NEW ok \in BOOLEAN,
              onUserInternalVerifyReq(c, l, ok)
       PROVE  PresenceInv'
  BY <1>12, QuietPresenceInv DEF onUserInternalVerifyReq, serverVars
<1>13. ASSUME NEW c \in ServerConns, NEW l \in Lids, NEW u \in Uids,
              onPlayerDisconnectedNtf(c, u, l)
       PROVE  PresenceInv'
  BY <1>13, RowsGrow, QuietPresenceInv
     DEF onPlayerDisconnectedNtf, serverVars
<1>14. CASE Restart
  BY <1>14, QuietPresenceInv DEF Restart
<1>15. CASE UNCHANGED vars
  BY <1>15 DEF vars, PresenceInv, OneServerPerPlayer,
               OnlineServerRegistered, LoginNtfJustified
<1> QED
  BY <1>1, <1>2, <1>3, <1>4, <1>5, <1>6, <1>7, <1>8, <1>9, <1>10, <1>11,
     <1>12, <1>13, <1>14, <1>15 DEF Next

LEMMA PresenceInvariant == ~DbFaults => (Spec => []PresenceInv)
<1> SUFFICES ASSUME ~DbFaults PROVE Spec => []PresenceInv
    OBVIOUS
<1>1. Init => PresenceInv
  BY InitPresenceInv
<1>2. SessionInv /\ PresenceInv /\ [Next]_vars => PresenceInv'
  BY NextPresenceInv
<1> QED BY <1>1, <1>2, SessionInvariant, PTL DEF Spec

\* When statements on the database do not fail, a player is on one game server
\* at a time, that server is registered, and a game server is handed a
\* player's data only together with the player's one row.
THEOREM OneServerAtATime ==
    ~DbFaults => (Spec => [](OneServerPerPlayer /\ OnlineServerRegistered
                             /\ LoginNtfJustified))
<1>1. PresenceInv => OneServerPerPlayer /\ OnlineServerRegistered
                     /\ LoginNtfJustified
  BY DEF PresenceInv
<1> QED BY <1>1, PresenceInvariant, PTL

-----------------------------------------------------------------------------
(* Rows disappear for a reason *)

\* Whatever the database does, a row whose game server stays registered
\* disappears only when this server reports the end of this very session.
THEOREM RowsRemovedNarrowly == Spec => RowRemovalIsNarrow
<1> DEFINE Narrow == \A r \in online \ online' :
                       reported' = {r} \/ serverNodeMap'[r.server_id] = NoConn
<1>1. SessionInv /\ [Next]_vars => [Narrow]_vars
  <2> SUFFICES ASSUME SessionInv, Next, NEW r \in online, r \notin online'
               PROVE  reported' = {r} \/ serverNodeMap'[r.server_id] = NoConn
      OBVIOUS
  <2>0. TypeOK /\ r \in Row
    BY DEF SessionInv, TypeOK
  <2>1. ASSUME NEW l \in Lids, onLoginGame(l) PROVE FALSE
    BY <2>1 DEF onLoginGame, enterGame, dbAddOnlinePlayer
  <2>2. ASSUME NEW c \in ServerConns, onEventFromServerDisconnected(c)
        PROVE  serverNodeMap'[r.server_id] = NoConn
    BY <2>0, <2>2 DEF onEventFromServerDisconnected, TypeOK, Row,
                      dbRemoveOnlinePlayerByServerId
  <2>3. ASSUME NEW c \in ServerConns, NEW l \in Lids, NEW u \in Uids,
               onPlayerDisconnectedNtf(c, u, l)
        PROVE  reported' = {r}
    <3>1. r.uid = u /\ r.server_id = serverId[c] /\ r.lid = l
      BY <2>3 DEF onPlayerDisconnectedNtf, dbRemoveOnlinePlayerByUID
    <3>2. r = [uid |-> u, server_id |-> serverId[c], lid |-> l]
      BY <2>0, <3>1 DEF Row
    <3> QED BY <2>3, <3>2 DEF onPlayerDisconnectedNtf
  <2>4. CASE Restart
    BY <2>0, <2>4 DEF Restart, Row
  <2>5. CASE UNCHANGED online
    BY <2>5
  <2> QED
    BY <2>1, <2>2, <2>3, <2>4, <2>5
       DEF Next, onEventFromClientConnected, onEventFromClientDisconnected,
           onEventFromClientBadData, verifyAccountBegin, verifyAccountEnd,
           SignUp, onEventFromServerConnected, onEventFromServerBadData,
           onRegisterServerReq, onUserInternalVerifyReq
<1>2. Spec => [][Narrow]_vars
  BY <1>1, SessionInvariant, PTL DEF Spec
<1> QED BY <1>2 DEF RowRemovalIsNarrow

-----------------------------------------------------------------------------
(* LoginSession implements Presence *)

LEMMA TheOneOfSingleton == \A s : TheOne({s}) = s
BY DEF TheOne

\* With at most one server per player the server is the one of any row.
LEMMA HomeOfRow ==
    ASSUME OneServerPerPlayer, NEW u, NEW r \in online, r.uid = u
    PROVE  HomeServers(u) = {r.server_id} /\ TheOne(HomeServers(u)) = r.server_id
<1>1. HomeServers(u) = {r.server_id}
  BY DEF HomeServers, RowsOf, OneServerPerPlayer
<1> QED BY <1>1, TheOneOfSingleton

LEMMA HomeOfNone ==
    ASSUME NEW u, \A r \in online : r.uid # u
    PROVE  TheOne(HomeServers(u)) = None
BY DEF HomeServers, RowsOf, TheOne

\* The same two facts in the next state.
LEMMA NextHomeOfRow ==
    ASSUME OneServerPerPlayer', NEW u, NEW r \in online', r.uid = u
    PROVE  TheOne(HomeServers(u)') = r.server_id
<1>1. HomeServers(u)' = {r.server_id}
  BY DEF HomeServers, RowsOf, OneServerPerPlayer
<1> QED BY <1>1, TheOneOfSingleton

LEMMA NextHomeOfNone ==
    ASSUME NEW u, \A r \in online' : r.uid # u
    PROVE  TheOne(HomeServers(u)') = None
BY DEF HomeServers, RowsOf, TheOne

LEMMA InitPresence == Init => P!Init
BY HomeOfNone DEF Init, P!Init, Registered

\* A step that changes neither the rows nor who is registered is a stutter.
LEMMA StutterPresence ==
    ASSUME UNCHANGED <<online, serverNodeMap>> PROVE UNCHANGED P!vars
BY DEF P!vars, Registered, HomeServers, RowsOf

\* Every step of LoginSession is a step of Presence or a stutter.
LEMMA NextPresence ==
    ASSUME SessionInv, PresenceInv, PresenceInv', Next, ~DbFaults
    PROVE  [P!Next]_(P!vars)
<1> USE ConstantsAssumption DEF ConstantsAssumption
<1>0. TypeOK /\ OneServerPerPlayer /\ OneServerPerPlayer'
      /\ OnlineServerRegistered
  BY DEF SessionInv, PresenceInv
<1> DEFINE Home(u) == TheOne(HomeServers(u))
<1>1. ASSUME NEW l \in Lids, onLoginGame(l) PROVE [P!Next]_(P!vars)
  <2> DEFINE n == node[l]
             row == [uid |-> n.uid, server_id |-> n.gsServerId, lid |-> l]
  <2>0. UNCHANGED serverNodeMap
    BY <1>1 DEF onLoginGame, serverVars
  <2>1. CASE UNCHANGED online
    BY <2>0, <2>1, StutterPresence
  <2>2. ASSUME NEW u \in Uids, NEW s \in ServerIds,
               u = n.uid, s = n.gsServerId, s \in Registered,
               \A r \in RowsOf(u) : r.server_id = s,
               online' = online \union {row}
        PROVE  [P!Next]_(P!vars)
    <3>1. \A v \in Uids : v # u => HomeServers(v)' = HomeServers(v)
      BY <2>2 DEF HomeServers, RowsOf
    <3>2. TheOne(HomeServers(u)') = s
      <4>0. row \in online' /\ row.uid = u /\ row.server_id = s
        BY <2>2
      <4>1. PICK r \in online' : r.uid = u /\ r.server_id = s
        BY <4>0
      <4> QED BY <1>0, <4>1, NextHomeOfRow
    <3>3. UNCHANGED Registered
      BY <2>0 DEF Registered
    <3>4. CASE RowsOf(u) = {}
      <4>1. Home(u) = None
        BY <3>4, HomeOfNone DEF RowsOf
      <4>2. P!Enter(u, s)
        BY <2>2, <3>1, <3>2, <3>3, <4>1 DEF P!Enter
      <4> QED BY <4>2 DEF P!Next
    <3>5. CASE RowsOf(u) # {}
      <4>1. Home(u) = s
        <5>1. PICK r \in online : r.uid = u /\ r.server_id = s
          BY <2>2, <3>5 DEF RowsOf
        <5> QED BY <1>0, <5>1, HomeOfRow
      <4>2. \A v \in Uids : TheOne(HomeServers(v)') = Home(v)
        BY <3>1, <3>2, <4>1
      <4> QED BY <3>3, <4>2 DEF P!vars
    <3> QED BY <3>4, <3>5
  <2> QED BY <1>1, <2>1, <2>2, LoginGameStep DEF Registered
<1>2. ASSUME NEW c \in ServerConns, onEventFromServerDisconnected(c)
      PROVE  [P!Next]_(P!vars)
  <2> DEFINE s == serverId[c]
  <2>1. CASE s = None
    BY <1>2, <2>1, StutterPresence DEF onEventFromServerDisconnected
  <2>2. CASE s # None
    <3>1. s \in ServerIds /\ s \in Registered
      BY <1>0, <1>2, <2>2 DEF onEventFromServerDisconnected, TypeOK,
         SessionInv, RegistryConsistent, Registered, ServerConns, NoConn
    <3>2. online' = {r \in online : r.server_id # s}
      BY <1>2, <2>2, RowsExact DEF onEventFromServerDisconnected
    <3>3. Registered' = Registered \ {s}
      BY <1>0, <1>2, <2>2, <3>1
         DEF onEventFromServerDisconnected, TypeOK, Registered
    <3>4. \A u \in Uids : TheOne(HomeServers(u)') =
                            IF Home(u) = s THEN None ELSE Home(u)
      <4> SUFFICES ASSUME NEW u \in Uids
                   PROVE  TheOne(HomeServers(u)') =
                            IF Home(u) = s THEN None ELSE Home(u)
          OBVIOUS
      <4>1. CASE RowsOf(u) = {}
        BY <3>2, <4>1, HomeOfNone, NextHomeOfNone DEF RowsOf
      <4>2. ASSUME NEW r \in online, r.uid = u, r.server_id = s
            PROVE  TheOne(HomeServers(u)') = None /\ Home(u) = s
        <5>1. \A q \in online' : q.uid # u
          BY <1>0, <3>2, <4>2 DEF OneServerPerPlayer
        <5> QED BY <1>0, <4>2, <5>1, HomeOfRow, NextHomeOfNone
      <4>3. ASSUME NEW r \in online, r.uid = u, r.server_id # s
            PROVE  TheOne(HomeServers(u)') = Home(u) /\ Home(u) # s
        BY <1>0, <3>2, <4>3, HomeOfRow, NextHomeOfRow
      <4> QED BY <4>1, <4>2, <4>3 DEF RowsOf
    <3> QED BY <3>1, <3>3, <3>4 DEF P!Next, P!ServerDown
  <2> QED BY <2>1, <2>2
<1>3. ASSUME NEW c \in ServerConns, NEW s \in ServerIds,
             onRegisterServerReq(c, s)
      PROVE  [P!Next]_(P!vars)
  <2>1. CASE serverNodeMap[s] # NoConn
    BY <1>3, <2>1, StutterPresence DEF onRegisterServerReq
  <2>2. CASE serverNodeMap[s] = NoConn
    <3>1. Registered' = Registered \union {s} /\ s \notin Registered
      BY <1>0, <1>3, <2>2
         DEF onRegisterServerReq, Registered, TypeOK, ServerConns, NoConn
    <3>2. \A u \in Uids : HomeServers(u)' = HomeServers(u)
      BY <1>3 DEF onRegisterServerReq, HomeServers, RowsOf
    <3> QED BY <3>1, <3>2 DEF P!Next, P!ServerUp
  <2> QED BY <2>1, <2>2
<1>4. ASSUME NEW c \in ServerConns, NEW l \in Lids, NEW u \in Uids,
             onPlayerDisconnectedNtf(c, u, l)
      PROVE  [P!Next]_(P!vars)
  <2>1. online' = {r \in online :
                     ~(r.uid = u /\ r.server_id = serverId[c] /\ r.lid = l)}
    BY <1>4, RowsExact DEF onPlayerDisconnectedNtf
  <2>2. UNCHANGED Registered
    BY <1>4 DEF onPlayerDisconnectedNtf, serverVars, Registered
  <2>3. \A v \in Uids : v # u => HomeServers(v)' = HomeServers(v)
    BY <2>1 DEF HomeServers, RowsOf
  <2>4. CASE \E r \in online' : r.uid = u
    <3>1. TheOne(HomeServers(u)') = Home(u)
      BY <1>0, <2>1, <2>4, HomeOfRow, NextHomeOfRow
    <3> QED BY <2>2, <2>3, <3>1 DEF P!vars
  <2>5. CASE (\A r \in online' : r.uid # u) /\ (\E r \in online : r.uid = u)
    <3>1. TheOne(HomeServers(u)') = None
      BY <2>5, NextHomeOfNone
    <3>2. Home(u) \in ServerIds
      BY <1>0, <2>5, HomeOfRow DEF TypeOK, Row
    <3> QED BY <2>2, <2>3, <3>1, <3>2 DEF P!Next, P!Leave
  <2>6. CASE \A r \in online : r.uid # u
    <3>1. UNCHANGED online
      BY <2>1, <2>6
    <3> QED BY <1>4, <3>1, StutterPresence
            DEF onPlayerDisconnectedNtf, serverVars
  <2> QED BY <2>4, <2>5, <2>6
<1>5. CASE Restart
  <2>1. Registered' = {} /\ \A u \in Uids : TheOne(HomeServers(u)') = None
    BY <1>5, NextHomeOfNone DEF Restart, Registered
  <2> QED BY <2>1 DEF P!Next, P!Reset
<1>6. CASE UNCHANGED <<online, serverNodeMap>>
  BY <1>6, StutterPresence
<1> QED
  BY <1>1, <1>2, <1>3, <1>4, <1>5, <1>6
     DEF Next, onEventFromClientConnected, onEventFromClientDisconnected,
         onEventFromClientBadData, verifyAccountBegin, verifyAccountEnd,
         SignUp, onEventFromServerConnected, onEventFromServerBadData,
         onUserInternalVerifyReq, serverVars

\* When statements on the database do not fail, the online rows and the
\* registry of game servers implement the presence service.
THEOREM Implementation == ~DbFaults => (Spec => ImplementsPresence)
<1> SUFFICES ASSUME ~DbFaults PROVE Spec => ImplementsPresence
    OBVIOUS
<1>1. Init => P!Init
  BY InitPresence
<1>2. SessionInv /\ PresenceInv /\ PresenceInv' /\ [Next]_vars
        => [P!Next]_(P!vars)
  <2> SUFFICES ASSUME SessionInv, PresenceInv, PresenceInv', [Next]_vars
               PROVE  [P!Next]_(P!vars)
      OBVIOUS
  <2>1. CASE Next
    BY <2>1, NextPresence
  <2>2. CASE UNCHANGED vars
    BY <2>2, StutterPresence DEF vars
  <2> QED BY <2>1, <2>2
<1> QED BY <1>1, <1>2, SessionInvariant, PresenceInvariant, PTL
        DEF Spec, P!Spec, ImplementsPresence
=============================================================================
