--------------------------- MODULE RoleStoreProofs ---------------------------
(***************************************************************************)
(* RoleStore for any players, names and number of name columns, whether    *)
(* statements fail or not: the columns agree with the save files, ranks    *)
(* belong to the players who have the roles, and both together implement   *)
(* the name registry.                                                      *)
(*                                                                         *)
(* That a role is refused when it is one too many is what leaves a column  *)
(* for its name: columns and roles are counted with the theorems about     *)
(* finite sets of the library.                                             *)
(***************************************************************************)
EXTENDS RoleStore, TLAPS, FiniteSetTheorems, WellFoundedInduction

-----------------------------------------------------------------------------
(* The column that is used *)

\* A set of columns has a first one: of the sets of columns below one of it, a
\* smallest one is empty.
LEMMA FirstOfExists ==
    ASSUME NEW S \in SUBSET Nat, IsFiniteSet(S), S # {}
    PROVE  FirstOf(S) \in S
<1> DEFINE Below(i) == {j \in S : j < i}
           Belows == {Below(i) : i \in S}
<1>1. IsWellFoundedOn(StrictSubsetOrdering(S), SUBSET S)
  BY FS_StrictSubsetOrderingWellFounded, FS_FiniteSubsetsOfFinite
<1>2. Belows \subseteq SUBSET S /\ Belows # {}
  OBVIOUS
<1>3. \E X \in Belows : \A Y \in Belows : <<Y, X>> \notin StrictSubsetOrdering(S)
  <2> HIDE DEF Belows
  <2> QED BY <1>1, <1>2, WFMin
<1>4. PICK i \in S : \A j \in S :
             <<Below(j), Below(i)>> \notin StrictSubsetOrdering(S)
  BY <1>3
<1>5. ASSUME NEW j \in S, ~(i <= j) PROVE FALSE
  <2>1. j < i /\ i \in Nat /\ j \in Nat /\ \A k \in S : k \in Nat
    BY <1>5
  <2>2. Below(j) \subseteq Below(i)
    <3> SUFFICES ASSUME NEW k \in S, k < j PROVE k < i
        OBVIOUS
    <3> QED BY <2>1
  <2>3. j \in Below(i)
    BY <2>1
  <2>4. j \notin Below(j)
    BY <2>1
  <2>5. <<Below(j), Below(i)>> \in StrictSubsetOrdering(S)
    <3> HIDE DEF Below
    <3>1. Below(i) \in SUBSET S /\ Below(j) \in SUBSET S
      BY DEF Below
    <3> QED BY <2>2, <2>3, <2>4, <3>1 DEF StrictSubsetOrdering
  <2> QED BY <1>4, <2>5
<1>6. \A j \in S : i <= j
  BY <1>5
<1> QED BY <1>6 DEF FirstOf

\* A player with fewer roles than columns has a column left.
LEMMA ColumnLeft ==
    ASSUME TypeOK, ColumnsMatchFile, NEW u \in Uids, u \notin faulted,
           Cardinality(hum[u]) < Cardinality(Slots)
    PROVE  FreeSlots(u) # {}
<1> SUFFICES ASSUME FreeSlots(u) = {} PROVE FALSE
    OBVIOUS
<1>1. name[u] \in Bijection(Slots, hum[u])
  <2>1. hum[u] = {name[u][i] : i \in Slots} \ {None}
    BY DEF ColumnsMatchFile, ColumnNames
  <2>2. \A i \in Slots : name[u][i] # None
    BY DEF FreeSlots
  <2>3. name[u] \in Surjection(Slots, hum[u])
    BY <2>1, <2>2 DEF TypeOK, Surjection
  <2>4. name[u] \in Injection(Slots, hum[u])
    BY <2>2, <2>3 DEF ColumnsMatchFile, Injection, IsInjective, Surjection
  <2> QED BY <2>3, <2>4 DEF Bijection
<1>2. Cardinality(hum[u]) = Cardinality(Slots)
  BY <1>1, ConstantsAssumption, FS_Bijection
     DEF ConstantsAssumption, ExistsBijection
<1>3. Cardinality(Slots) \in Nat
  BY ConstantsAssumption, FS_CardinalityType DEF ConstantsAssumption
<1> QED BY <1>2, <1>3

-----------------------------------------------------------------------------
(* Types *)

LEMMA InitTypeOK == Init => TypeOK
BY DEF Init, TypeOK, RankRow, Role

LEMMA NextTypeOK == ASSUME TypeOK, [Next]_vars PROVE TypeOK'
<1>1. ASSUME NEW u \in Uids, NEW n \in Names, onCreateHumReq(u, n)
      PROVE  TypeOK'
  <2>1. WithName(u, n) \in [Uids -> [Slots -> Names \union {None}]]
    BY DEF WithName, TypeOK
  <2>2. hum' \in [Uids -> SUBSET Names]
    BY <1>1 DEF onCreateHumReq, AddGameRole, TypeOK
  <2> QED BY <1>1, <2>1, <2>2
          DEF onCreateHumReq, dbAddUserNameByUid, TypeOK
<1>2. ASSUME NEW u \in Uids, NEW n \in Names, onDelHumReq(u, n)
      PROVE  TypeOK'
  <2>1. WithoutName(u, n) \in [Uids -> [Slots -> Names \union {None}]]
    BY DEF WithoutName, TypeOK
  <2>2. /\ name' \in [Uids -> [Slots -> Names \union {None}]]
        /\ faulted' \in SUBSET Uids
    BY <1>2, <2>1 DEF onDelHumReq, dbRemoveUserNameByUid, TypeOK
  <2>3. /\ rank' \in SUBSET RankRow /\ orphaned' \in SUBSET Names
        /\ doubled' \in SUBSET Names
    BY <1>2 DEF onDelHumReq, dbRemoveUserRankInfo, TypeOK
  <2> QED BY <1>2, <2>2, <2>3 DEF onDelHumReq, TypeOK
<1>3. ASSUME NEW u \in Uids, NEW n \in Names, onLoginGame(u, n)
      PROVE  TypeOK'
  BY <1>3 DEF onLoginGame, TypeOK, Role
<1>4. ASSUME NEW p \in playing, LeaveGame(p) PROVE TypeOK'
  BY <1>4 DEF LeaveGame, TypeOK
<1>5. ASSUME NEW p \in playing, UpdatePlayerRankReq(p) PROVE TypeOK'
  <2>1. p.uid \in Uids /\ p.name \in Names
    BY DEF TypeOK, Role
  <2>2. \A r \in RankRowsOf(p.name) : [r EXCEPT !.by = p.uid] \in RankRow
    BY <2>1 DEF RankRowsOf, TypeOK, RankRow
  <2>3. rank' \in SUBSET RankRow /\ doubled' \in SUBSET Names
    BY <1>5, <2>1, <2>2
       DEF UpdatePlayerRankReq, dbUpdateUserRankInfoV2, TypeOK, RankRow
  <2> QED BY <1>5, <2>1, <2>3 DEF UpdatePlayerRankReq, TypeOK
<1>6. CASE UNCHANGED vars
  BY <1>6 DEF vars, TypeOK
<1> QED BY <1>1, <1>2, <1>3, <1>4, <1>5, <1>6 DEF Next

\* The variables keep their types, whatever the constants are.
THEOREM StoreTypesCorrect == Spec => []TypeOK
<1>1. Init => TypeOK
  BY InitTypeOK
<1>2. TypeOK /\ [Next]_vars => TypeOK'
  BY NextTypeOK
<1> QED BY <1>1, <1>2, PTL DEF Spec

-----------------------------------------------------------------------------
(* Columns and save files *)

\* What onCreateHumReq does to the columns of a player without a failed
\* statement.
LEMMA NameAdded ==
    ASSUME TypeOK, ColumnsMatchFile, NEW u \in Uids, NEW n \in Names,
           onCreateHumReq(u, n), u \notin faulted'
    PROVE  \E i \in Slots :
             /\ name[u][i] = None
             /\ name' = [name EXCEPT ![u][i] = n]
<1>1. u \notin faulted /\ Cardinality(hum[u]) < Cardinality(Slots)
  BY DEF onCreateHumReq, AddGameRole, dbAddUserNameByUid, TypeOK
<1>2. /\ FreeSlots(u) # {} /\ FreeSlots(u) \in SUBSET Nat
      /\ IsFiniteSet(FreeSlots(u))
  BY <1>1, ColumnLeft, ConstantsAssumption, FS_Subset
     DEF ConstantsAssumption, FreeSlots
<1>3. name' = WithName(u, n)
  BY <1>2 DEF onCreateHumReq, dbAddUserNameByUid
<1>4. FirstOf(FreeSlots(u)) \in FreeSlots(u)
  BY <1>2, FirstOfExists
<1> QED BY <1>3, <1>4 DEF WithName, FreeSlots

LEMMA NextColumnsMatchFile ==
    ASSUME TypeOK, ColumnsMatchFile, [Next]_vars PROVE ColumnsMatchFile'
<1> USE ConstantsAssumption DEF ConstantsAssumption
<1>1. ASSUME NEW u \in Uids, NEW n \in Names, onCreateHumReq(u, n)
      PROVE  ColumnsMatchFile'
  <2>1. faulted \subseteq faulted' /\ hum' = [hum EXCEPT ![u] = @ \union {n}]
        /\ n \notin hum[u]
    BY <1>1 DEF onCreateHumReq, AddGameRole, dbAddUserNameByUid, TypeOK
  <2>2. \A v \in Uids \ {u} : name'[v] = name[v] /\ hum'[v] = hum[v]
    BY <1>1, <2>1 DEF onCreateHumReq, dbAddUserNameByUid, WithName, TypeOK
  <2>3. ASSUME u \notin faulted'
        PROVE  /\ ColumnNames(u)' = hum'[u]
               /\ \A i, j \in Slots : name'[u][i] = name'[u][j] /\ i # j
                                        => name'[u][i] = None
    <3>1. PICK k \in Slots : /\ name[u][k] = None
                             /\ name' = [name EXCEPT ![u][k] = n]
      BY <1>1, <2>3, NameAdded
    <3>2. /\ name'[u][k] = n
          /\ \A i \in Slots \ {k} : name'[u][i] = name[u][i]
      BY <3>1 DEF TypeOK
    <3>3. /\ {name[u][i] : i \in Slots} \ {None} = hum[u]
          /\ \A i, j \in Slots : name[u][i] = name[u][j] /\ i # j
                                   => name[u][i] = None
      BY <2>1, <2>3 DEF ColumnsMatchFile, ColumnNames
    <3>4. hum'[u] = hum[u] \union {n}
      BY <2>1 DEF TypeOK
    <3>5. {name'[u][i] : i \in Slots} \ {None} = hum[u] \union {n}
      BY <3>1, <3>2, <3>3
    <3>6. \A i \in Slots : name[u][i] # n
      BY <2>1, <3>3
    <3> QED BY <3>2, <3>3, <3>4, <3>5, <3>6 DEF ColumnNames
  <2>4. ASSUME NEW v \in Uids \ {u}, v \notin faulted'
        PROVE  /\ ColumnNames(v)' = hum'[v]
               /\ \A i, j \in Slots : name'[v][i] = name'[v][j] /\ i # j
                                        => name'[v][i] = None
    <3>1. name'[v] = name[v] /\ hum'[v] = hum[v]
      BY <2>2
    <3>2. /\ ColumnNames(v) = hum[v]
          /\ \A i, j \in Slots : name[v][i] = name[v][j] /\ i # j
                                   => name[v][i] = None
      BY <2>1, <2>4 DEF ColumnsMatchFile
    <3>3. ColumnNames(v)' = ColumnNames(v)
      BY <3>1 DEF ColumnNames
    <3> QED BY <3>1, <3>2, <3>3
  <2> QED BY <2>3, <2>4 DEF ColumnsMatchFile
<1>2. ASSUME NEW u \in Uids, NEW n \in Names, onDelHumReq(u, n)
      PROVE  ColumnsMatchFile'
  <2>1. faulted \subseteq faulted' /\ hum' = [hum EXCEPT ![u] = @ \ {n}]
    BY <1>2 DEF onDelHumReq, dbRemoveUserNameByUid
  <2>2. \A v \in Uids \ {u} : name'[v] = name[v] /\ hum'[v] = hum[v]
    BY <1>2, <2>1 DEF onDelHumReq, dbRemoveUserNameByUid, WithoutName, TypeOK
  <2>3. ASSUME u \notin faulted'
        PROVE  /\ ColumnNames(u)' = hum'[u]
               /\ \A i, j \in Slots : name'[u][i] = name'[u][j] /\ i # j
                                        => name'[u][i] = None
    <3>1. name' = WithoutName(u, n)
      BY <1>2, <2>3 DEF onDelHumReq, dbRemoveUserNameByUid
    <3>2. \A i \in Slots :
             name'[u][i] = IF name[u][i] = n THEN None ELSE name[u][i]
      BY <3>1 DEF WithoutName, TypeOK
    <3>3. /\ {name[u][i] : i \in Slots} \ {None} = hum[u]
          /\ \A i, j \in Slots : name[u][i] = name[u][j] /\ i # j
                                   => name[u][i] = None
      BY <2>1, <2>3 DEF ColumnsMatchFile, ColumnNames
    <3>4. hum'[u] = hum[u] \ {n}
      BY <2>1 DEF TypeOK
    <3>5. {name'[u][i] : i \in Slots} \ {None} = hum[u] \ {n}
      BY <3>2, <3>3
    <3> QED BY <3>2, <3>3, <3>4, <3>5 DEF ColumnNames
  <2>4. ASSUME NEW v \in Uids \ {u}, v \notin faulted'
        PROVE  /\ ColumnNames(v)' = hum'[v]
               /\ \A i, j \in Slots : name'[v][i] = name'[v][j] /\ i # j
                                        => name'[v][i] = None
    BY <2>1, <2>2, <2>4 DEF ColumnsMatchFile, ColumnNames
  <2> QED BY <2>3, <2>4 DEF ColumnsMatchFile
<1>3. CASE UNCHANGED <<hum, name, faulted>>
  BY <1>3 DEF ColumnsMatchFile, ColumnNames
<1> QED BY <1>1, <1>2, <1>3
        DEF Next, vars, onLoginGame, LeaveGame, UpdatePlayerRankReq

LEMMA ColumnsInvariant == Spec => []ColumnsMatchFile
<1>1. Init => ColumnsMatchFile
  BY DEF Init, ColumnsMatchFile, ColumnNames
<1>2. TypeOK /\ ColumnsMatchFile /\ [Next]_vars => ColumnsMatchFile'
  BY NextColumnsMatchFile
<1> QED BY <1>1, <1>2, StoreTypesCorrect, PTL DEF Spec

\* Unless a statement failed for a player, his columns hold the names of the
\* roles in his save file, each once, for any number of columns.
THEOREM ColumnsTrue == Spec => []ColumnsMatchFile
BY ColumnsInvariant

-----------------------------------------------------------------------------
(* Ranks *)

LEMMA NextRankOwned == ASSUME TypeOK, RankOwned, [Next]_vars PROVE RankOwned'
<1>1. ASSUME NEW u \in Uids, NEW n \in Names, onCreateHumReq(u, n)
      PROVE  RankOwned'
  <2>1. /\ rank' = rank /\ orphaned' = orphaned /\ doubled' = doubled
        /\ \A v \in Uids : hum[v] \subseteq hum'[v]
    BY <1>1 DEF onCreateHumReq, AddGameRole, TypeOK
  <2> QED BY <2>1 DEF RankOwned, Disputed, TypeOK, RankRow
<1>2. ASSUME NEW u \in Uids, NEW n \in Names, onDelHumReq(u, n)
      PROVE  RankOwned'
  <2>1. /\ rank' \subseteq rank
        /\ \A r \in rank' : r.name = n => n \in orphaned'
        /\ orphaned \ {n} \subseteq orphaned'
        /\ \/ doubled' = doubled
           \/ doubled' = doubled \ {n} /\ \A r \in rank' : r.name # n
    BY <1>2 DEF onDelHumReq, dbRemoveUserRankInfo, RankRowsOf
  <2>2. \A v \in Uids, m \in Names \ {n} : m \in hum'[v] <=> m \in hum[v]
    BY <1>2 DEF onDelHumReq, TypeOK
  <2> QED BY <2>1, <2>2 DEF RankOwned, Disputed, TypeOK, RankRow
<1>3. ASSUME NEW p \in playing, UpdatePlayerRankReq(p) PROVE RankOwned'
  <2>1. /\ hum' = hum /\ orphaned \subseteq orphaned'
        /\ p.name \in hum[p.uid] \/ p.name \in orphaned'
        /\ p.uid \in Uids
    BY <1>3 DEF UpdatePlayerRankReq, TypeOK, Role
  <2>2. CASE rank' = rank /\ doubled' = doubled
    BY <2>1, <2>2 DEF RankOwned, Disputed
  <2>3. CASE /\ RankRowsOf(p.name) = {} \/ DbFaults
             /\ rank' = rank \union
                          {[uid |-> p.uid, name |-> p.name, by |-> p.uid]}
             /\ doubled' = IF RankRowsOf(p.name) = {} THEN doubled
                           ELSE doubled \union {p.name}
    <3>1. doubled' # {} => DbFaults
      BY <2>3 DEF RankOwned
    <3>2. \A r1, r2 \in rank' :
             r1.name = r2.name => r1 = r2 \/ r1.name \in doubled'
      BY <2>3 DEF RankOwned, RankRowsOf
    <3> QED BY <2>1, <2>3, <3>1, <3>2 DEF RankOwned, Disputed
  <2>4. CASE /\ rank' = (rank \ RankRowsOf(p.name)) \union
                           {[r EXCEPT !.by = p.uid] : r \in RankRowsOf(p.name)}
             /\ doubled' = doubled
    <3>1. ASSUME NEW q \in rank'
          PROVE  \/ q \in rank /\ q.name # p.name
                 \/ \E r \in rank : /\ r.name = p.name
                                    /\ q = [r EXCEPT !.by = p.uid]
                                    /\ q.name = p.name /\ q.uid = r.uid
                                    /\ q.by = p.uid
      BY <2>4 DEF RankRowsOf, TypeOK, RankRow
    <3>2. \A r1, r2 \in rank' :
             r1.name = r2.name => r1 = r2 \/ r1.name \in doubled'
      BY <2>4, <3>1 DEF RankOwned
    <3>3. ASSUME NEW q \in rank'
          PROVE  \/ q.name \in orphaned'
                 \/ Disputed(q.name)'
                 \/ q.name \in hum'[q.uid] /\ q.by = q.uid
      <4>1. CASE q \in rank
        BY <2>1, <3>1, <4>1 DEF RankOwned, Disputed, TypeOK, RankRow
      <4>2. CASE q \notin rank
        <5>1. PICK r \in rank : /\ r.name = p.name /\ q.uid = r.uid
                                /\ q.name = p.name /\ q.by = p.uid
          BY <3>1, <4>2
        <5>2. r.uid \in Uids
          BY DEF TypeOK, RankRow
        <5> QED BY <2>1, <5>1, <5>2 DEF RankOwned, Disputed
      <4> QED BY <4>1, <4>2
    <3> QED BY <2>4, <3>2, <3>3 DEF RankOwned
  <2> QED BY <1>3, <2>2, <2>3, <2>4
          DEF UpdatePlayerRankReq, dbUpdateUserRankInfoV2
<1>4. CASE UNCHANGED <<hum, rank, orphaned, doubled>>
  BY <1>4 DEF RankOwned, Disputed
<1> QED BY <1>1, <1>2, <1>3, <1>4 DEF Next, vars, onLoginGame, LeaveGame

\* Whatever the order of reports, deletions and failed statements, a name has one
\* row in player_rank, which belongs to the player who has the role, but for the
\* cases RankOwned names; a second row needs a failed look-up.
THEOREM RanksOwned == Spec => []RankOwned
<1>1. Init => RankOwned
  BY DEF Init, RankOwned
<1>2. TypeOK /\ RankOwned /\ [Next]_vars => RankOwned'
  BY NextRankOwned
<1> QED BY <1>1, <1>2, StoreTypesCorrect, PTL DEF Spec

-----------------------------------------------------------------------------
(* The name registry *)

\* A name has one holder among the players without a failed statement.
OneHolder == \A n \in Names : \A u, v \in Holders(n) : u = v

\* A name that the query does not find is in no save file that the columns
\* stand for.
LEMMA NameFree ==
    ASSUME TypeOK, ColumnsMatchFile, NEW n \in Names, ~Taken(n)
    PROVE  Holders(n) = {}
<1>1. \A u \in Uids : n \notin ColumnNames(u)
  BY DEF Taken
<1> QED BY <1>1 DEF ColumnsMatchFile, Holders

\* What a step does to the holders.
LEMMA HoldersStep ==
    ASSUME TypeOK, ColumnsMatchFile, [Next]_vars
    PROVE  \/ \A m \in Names : Holders(m)' = Holders(m)
           \/ \E u \in Uids : \A m \in Names : Holders(m)' = Holders(m) \ {u}
           \/ \E u \in Uids, n \in Names :
                 /\ \A m \in Names \ {n} : Holders(m)' = Holders(m)
                 /\ \/ Holders(n) = {} /\ Holders(n)' = {u}
                    \/ u \in Holders(n) /\ Holders(n)' = Holders(n) \ {u}
<1>1. ASSUME NEW u \in Uids, faulted' = faulted \union {u},
             \A v \in Uids \ {u} : hum'[v] = hum[v]
      PROVE  \A m \in Names : Holders(m)' = Holders(m) \ {u}
  BY <1>1 DEF Holders
<1>2. ASSUME NEW u \in faulted, u \in Uids, faulted' = faulted,
             \A v \in Uids \ {u} : hum'[v] = hum[v]
      PROVE  \A m \in Names : Holders(m)' = Holders(m)
  BY <1>2 DEF Holders
<1>3. ASSUME NEW u \in Uids, NEW n \in Names, onCreateHumReq(u, n),
             faulted' = faulted, u \notin faulted
      PROVE  /\ \A m \in Names \ {n} : Holders(m)' = Holders(m)
             /\ Holders(n) = {} /\ Holders(n)' = {u}
  <2>1. hum' = [hum EXCEPT ![u] = @ \union {n}]
    BY <1>3 DEF onCreateHumReq, AddGameRole
  <2>2. ~Taken(n)
    BY <1>3 DEF onCreateHumReq, dbAddUserNameByUid
  <2>3. Holders(n) = {}
    BY <2>2, NameFree
  <2> QED BY <1>3, <2>1, <2>3 DEF Holders, TypeOK
<1>4. ASSUME NEW u \in Uids, NEW n \in Names, onDelHumReq(u, n),
             faulted' = faulted, u \notin faulted
      PROVE  /\ \A m \in Names \ {n} : Holders(m)' = Holders(m)
             /\ u \in Holders(n) /\ Holders(n)' = Holders(n) \ {u}
  BY <1>4 DEF onDelHumReq, Holders, TypeOK
<1>5. ASSUME NEW u \in Uids, NEW n \in Names,
             onCreateHumReq(u, n) \/ onDelHumReq(u, n)
      PROVE  /\ faulted' \in {faulted, faulted \union {u}}
             /\ \A v \in Uids \ {u} : hum'[v] = hum[v]
  BY <1>5 DEF onCreateHumReq, AddGameRole, dbAddUserNameByUid, onDelHumReq,
              dbRemoveUserNameByUid, TypeOK
<1>6. ASSUME NEW u \in Uids, NEW n \in Names,
             onCreateHumReq(u, n) \/ onDelHumReq(u, n)
      PROVE  \/ \A m \in Names : Holders(m)' = Holders(m)
             \/ \E v \in Uids : \A m \in Names : Holders(m)' = Holders(m) \ {v}
             \/ \E v \in Uids, l \in Names :
                   /\ \A m \in Names \ {l} : Holders(m)' = Holders(m)
                   /\ \/ Holders(l) = {} /\ Holders(l)' = {v}
                      \/ v \in Holders(l) /\ Holders(l)' = Holders(l) \ {v}
  <2>1. CASE faulted' = faulted \union {u}
    BY <1>1, <1>5, <1>6, <2>1
  <2>2. CASE faulted' = faulted /\ u \in faulted
    BY <1>2, <1>5, <1>6, <2>2
  <2>3. CASE faulted' = faulted /\ u \notin faulted
    BY <1>3, <1>4, <1>6, <2>3
  <2> QED BY <1>5, <1>6, <2>1, <2>2, <2>3
<1>7. CASE UNCHANGED <<hum, faulted>>
  BY <1>7 DEF Holders
<1> QED BY <1>6, <1>7
        DEF Next, vars, onLoginGame, LeaveGame, UpdatePlayerRankReq

LEMMA NextOneHolder ==
    ASSUME TypeOK, ColumnsMatchFile, OneHolder, [Next]_vars PROVE OneHolder'
BY HoldersStep DEF OneHolder

\* No two players without a failed statement have a role of the same name.
LEMMA OneHolderInvariant == Spec => []OneHolder
<1>1. Init => OneHolder
  BY DEF Init, OneHolder, Holders
<1>2. TypeOK /\ ColumnsMatchFile /\ OneHolder /\ [Next]_vars => OneHolder'
  BY NextOneHolder
<1> QED BY <1>1, <1>2, StoreTypesCorrect, ColumnsInvariant, PTL DEF Spec

LEMMA RegistryStep ==
    ASSUME TypeOK, ColumnsMatchFile, OneHolder, [Next]_vars
    PROVE  [Registry!Next]_([n \in Names |-> Holders(n)])
<1>1. CASE \A m \in Names : Holders(m)' = Holders(m)
  BY <1>1
<1>2. ASSUME NEW u \in Uids, \A m \in Names : Holders(m)' = Holders(m) \ {u}
      PROVE  Registry!Next
  BY <1>2 DEF Registry!Next, Registry!Forget
<1>3. ASSUME NEW u \in Uids, NEW n \in Names,
             \A m \in Names \ {n} : Holders(m)' = Holders(m),
             Holders(n) = {}, Holders(n)' = {u}
      PROVE  Registry!Next
  BY <1>3 DEF Registry!Next, Registry!Claim
<1>4. ASSUME NEW u \in Uids, NEW n \in Names,
             \A m \in Names \ {n} : Holders(m)' = Holders(m),
             u \in Holders(n), Holders(n)' = Holders(n) \ {u}
      PROVE  Registry!Next
  <2>1. Holders(n)' = {}
    BY <1>4 DEF OneHolder
  <2> QED BY <1>4, <2>1 DEF Registry!Next, Registry!Release
<1> QED BY <1>1, <1>2, <1>3, <1>4, HoldersStep

\* Save files, columns and handlers implement the abstract registry of names,
\* also when statements fail.
THEOREM StoreImplementsRegistry == Spec => ImplementsNameRegistry
<1>1. Init => Registry!Init
  BY DEF Init, Registry!Init, Holders
<1>2. TypeOK /\ ColumnsMatchFile /\ OneHolder /\ [Next]_vars
        => [Registry!Next]_([n \in Names |-> Holders(n)])
  BY RegistryStep
<1> QED BY <1>1, <1>2, StoreTypesCorrect, ColumnsInvariant, OneHolderInvariant,
           PTL DEF Spec, Registry!Spec, ImplementsNameRegistry
=============================================================================
