---------------------------- MODULE AdminSession ----------------------------
(***************************************************************************)
(* The sessions of /admin (http_admin_handler.go) and the administrators   *)
(* they make and remove (table admin_account), together with the accounts  *)
(* whose passwords they verify (Accounts).                                 *)
(*                                                                         *)
(* A verification reads three tables' rows one after the other and makes a *)
(* session, which holds the level it read and is good for a while,         *)
(* whatever becomes of the administrator meanwhile.  Sessions live in      *)
(* memory behind a lock; the counter that triggers their removal is        *)
(* changed outside of it.  The address a session is bound to is left out.  *)
(***************************************************************************)
EXTENDS Accounts, Sequences, FiniteSets, FiniteSetsExt

CONSTANTS
    Levels,         \* levels of administrators
    EarlyAdmins,    \* rows of admin_account put in by hand
    Timeout,        \* g_adminHandlerSessionTimeoutSec
    OperateLimit,   \* verifications between two removals of old sessions
    Workloads       \* bound: what the requests say, which may fail, and how
                    \* long all this takes

kAccess_SuperAdmin == 2

ASSUME AdminAssumption ==
    /\ Levels \subseteq Nat \ {0}
    /\ None \notin Nat
    /\ EarlyAdmins \in Seq([account : Names, level : Levels])
    /\ Timeout \in Nat
    /\ OperateLimit \in Nat

VARIABLES
    admin_account,   \* its rows
    sessions,        \* g_adminHandlerSessions
    operateTimes,    \* g_adminHandlerSessionOperateTimes
    verification,    \* what a verification has read so far
    now,             \* time.Now().Unix()
    until,           \* bound: the last second of the behaviour
    lastSuper,       \* history: when an account last was a super administrator
    sinceCleanup,    \* history: sessions added since old ones were removed
    overlaps         \* history: of these, and of those still being made, how
                     \* many began, or saw the removal, while another was made

adminVars == <<admin_account, sessions, operateTimes, verification, now, until,
               lastSuper, sinceCleanup, overlaps>>
vars == <<accountVars, adminVars>>

-----------------------------------------------------------------------------
(* Values *)

AdminMsg ==
    [kind : {"Verify"}, account : Names, password : Passwords]
    \union [kind : {"AddAdmin"}, cookie : Requests, account : Names,
            level : Levels]
    \union [kind : {"DelAdmin"}, cookie : Requests, account : Names]

ASSUME WorkloadsAssumption ==
    \A w \in Workloads :
        /\ w.until \in Nat
        /\ w.mayFail \subseteq Requests
        /\ w.msg \in [Requests -> WebMsg \union RsMsg \union AdminMsg]

Steps == AccountSteps \union
         {"level", "password", "session", "counting", "storing",
          "exists", "account", "insert", "delete", "remove"}

\* A session is named by the verification that made it.  readAt is history.
Session == [guid : Requests, account : Names, level : Levels,
            VerifyTime : Nat, readAt : Nat]

\* "by" is history: the request that inserted the row.
AdminRow == [id : Nat \ {0}, account : Names, level : Levels,
             by : Requests \union {None}]

Verification == [level : Levels \union {0}, readAt : Nat, VerifyTime : Nat,
                 times : Nat]

NotRead == [level |-> 0, readAt |-> 0, VerifyTime |-> 0, times |-> 0]

AdminRowsOf(rows, a) == {row \in rows : row.account = a}

IsAdmin(a) == AdminRowsOf(admin_account, a) # {}

\* Rows come in the order of their ids; the first is read.
FirstOf(rows) == CHOOSE row \in rows : \A other \in rows : row.id <= other.id

LevelIn(rows, a) ==
    IF AdminRowsOf(rows, a) = {} THEN 0 ELSE FirstOf(AdminRowsOf(rows, a)).level

LevelOf(a) == LevelIn(admin_account, a)

\* Who is a super administrator by these rows is known to have been one then.
NoteSuper(rows, time) ==
    lastSuper' = [a \in Names |->
        IF LevelIn(rows, a) >= kAccess_SuperAdmin THEN time ELSE lastSuper[a]]

-----------------------------------------------------------------------------
(* Verification (adminHandler, dbAdminAccountVerify) *)

\* What the look-up may answer: a query that is refused reads as "exists", one
\* that fails at its first row as "does not exist".
dbAdminAccountExists(r, ok) ==
    IF ok THEN {IsAdmin(msg[r].account)} ELSE BOOLEAN

dbAdminAccountVerify_exists(r) ==
    \E ok \in DbOk(r) : \E exists \in dbAdminAccountExists(r, ok) :
        /\ Begins(r, "Verify")
        /\ GoTo(r, IF exists THEN "level" ELSE "refused", ok)
        /\ UNCHANGED <<useraccount, adminVars>>

\* Bug: whether there still is a row is not asked.
dbGetAdminAccountInfo_unfetched(r) ==
    /\ Continues(r, "level")
    /\ GoTo(r, "password", TRUE)
    /\ verification' = [verification EXCEPT ![r].level = LevelOf(msg[r].account),
                                            ![r].readAt = now]
    /\ UNCHANGED <<useraccount, admin_account, sessions, operateTimes, now,
                   until, lastSuper, overlaps, sinceCleanup>>

dbGetAdminAccountInfo(r) ==
    \E ok \in DbOk(r) :
        /\ Continues(r, "level")
        /\ IF ok /\ IsAdmin(msg[r].account)
           THEN /\ GoTo(r, "password", ok)
                /\ verification' = [verification EXCEPT
                      ![r].level = LevelOf(msg[r].account), ![r].readAt = now]
           ELSE /\ GoTo(r, "refused", ok)
                /\ UNCHANGED verification
        /\ UNCHANGED <<useraccount, admin_account, sessions, operateTimes, now,
                       until, lastSuper, overlaps, sinceCleanup>>

dbAdminAccountVerify_password(r) ==
    \E ok \in DbOk(r) :
        /\ Continues(r, "password")
        /\ GoTo(r, IF ok /\ Exists(msg[r].account)
                        /\ useraccount[msg[r].account].password = msg[r].password
                   THEN "session" ELSE "refused", ok)
        /\ UNCHANGED <<useraccount, adminVars>>

\* Verifications between the read of the counter and the lock.
InTheMaking == {q \in Requests : pc[q] \in {"counting", "storing"}}

\* nowTime, and the read of g_adminHandlerSessionOperateTimes++.
NewAdminHandlerSession_read(r) ==
    /\ Continues(r, "session")
    /\ GoTo(r, "counting", TRUE)
    /\ verification' = [verification EXCEPT ![r].VerifyTime = now,
                                            ![r].times = operateTimes]
    /\ overlaps' = IF InTheMaking # {} THEN overlaps + 1 ELSE overlaps
    /\ UNCHANGED <<useraccount, admin_account, sessions, operateTimes, now,
                   until, lastSuper, sinceCleanup>>

\* The write of g_adminHandlerSessionOperateTimes++.
NewAdminHandlerSession_count(r) ==
    /\ Continues(r, "counting")
    /\ GoTo(r, "storing", TRUE)
    /\ operateTimes' = verification[r].times + 1
    /\ UNCHANGED <<useraccount, admin_account, sessions, verification, now,
                   until, lastSuper, overlaps, sinceCleanup>>

NewSession(r) ==
    [guid |-> r, account |-> msg[r].account, level |-> verification[r].level,
     VerifyTime |-> verification[r].VerifyTime,
     readAt |-> verification[r].readAt]

\* Bug: whatever was verified before this session is old.
TimedOut_all(s, time) == s.VerifyTime < time

TimedOut(s, time) ==
    /\ time > s.VerifyTime
    /\ time - s.VerifyTime > Timeout

\* Bug: the limit has to be passed twice.
CleanupDue_late == operateTimes > OperateLimit + 1

CleanupDue == operateTimes > OperateLimit

\* Under the lock.  What is old is told by the time the session was made with,
\* not by that of its removal.
NewAdminHandlerSession_store(r) ==
    LET all == sessions \union {NewSession(r)}
    IN  /\ Continues(r, "storing")
        /\ GoTo(r, "ok", TRUE)
        /\ IF CleanupDue
           THEN /\ operateTimes' = 0
                /\ sinceCleanup' = 0
                /\ overlaps' = Cardinality(InTheMaking \ {r})
                /\ sessions' =
                     {s \in all : ~TimedOut(s, verification[r].VerifyTime)}
           ELSE /\ sessions' = all
                /\ sinceCleanup' = sinceCleanup + 1
                /\ UNCHANGED <<operateTimes, overlaps>>
        /\ verification' = [verification EXCEPT ![r] = NotRead]
        /\ UNCHANGED <<useraccount, admin_account, now, until, lastSuper>>

-----------------------------------------------------------------------------
(* Requests of a session (adminHandler) *)

\* Bug: a session lasts until it is removed.
CheckAdminHandlerSession_forever(r) ==
    \E s \in sessions : s.guid = msg[r].cookie /\ s.level >= kAccess_SuperAdmin

\* The session of the cookie is there, not too old, and a super administrator's.
CheckAdminHandlerSession(r) ==
    \E s \in sessions :
        /\ s.guid = msg[r].cookie
        /\ ~TimedOut(s, now)
        /\ s.level >= kAccess_SuperAdmin

\* An operation that passes the check goes on at "to".
adminHandler(r, kind, to) ==
    /\ Begins(r, kind)
    /\ GoTo(r, IF CheckAdminHandlerSession(r) THEN to ELSE "refused", TRUE)
    /\ UNCHANGED <<useraccount, adminVars>>

\* Bug: whether the account is an administrator already is not asked.
dbInsertAdminAccount_exists_skipped(r) ==
    /\ Continues(r, "exists")
    /\ GoTo(r, "account", TRUE)
    /\ UNCHANGED <<useraccount, adminVars>>

\* An account that is an administrator already is success.
dbInsertAdminAccount_exists(r) ==
    \E ok \in DbOk(r) : \E exists \in dbAdminAccountExists(r, ok) :
        /\ Continues(r, "exists")
        /\ GoTo(r, IF exists THEN "ok" ELSE "account", ok)
        /\ UNCHANGED <<useraccount, adminVars>>

dbInsertAdminAccount_account(r) ==
    \E ok \in DbOk(r) :
        /\ Continues(r, "account")
        /\ GoTo(r, IF ok /\ Exists(msg[r].account)
                   THEN "insert" ELSE "refused", ok)
        /\ UNCHANGED <<useraccount, adminVars>>

\* The primary key of a new row, which the database chooses.
NextId(rows) == 1 + Max({0} \union {row.id : row \in rows})

dbInsertAdminAccount(r) ==
    \E ok \in DbOk(r) :
        /\ Continues(r, "insert")
        /\ GoTo(r, IF ok THEN "ok" ELSE "refused", ok)
        /\ admin_account' =
             IF ok THEN admin_account \union
                          {[id |-> NextId(admin_account),
                            account |-> msg[r].account, level |-> msg[r].level,
                            by |-> r]}
             ELSE admin_account
        /\ NoteSuper(admin_account', now)
        /\ UNCHANGED <<useraccount, sessions, operateTimes, verification, now,
                       until, overlaps, sinceCleanup>>

dbRemoveAdminAccount_exists(r) ==
    \E ok \in DbOk(r) : \E exists \in dbAdminAccountExists(r, ok) :
        /\ Continues(r, "delete")
        /\ GoTo(r, IF exists THEN "remove" ELSE "ok", ok)
        /\ UNCHANGED <<useraccount, adminVars>>

\* All rows of the account.
dbRemoveAdminAccount(r) ==
    \E ok \in DbOk(r) :
        /\ Continues(r, "remove")
        /\ GoTo(r, IF ok THEN "ok" ELSE "refused", ok)
        /\ admin_account' =
             IF ok THEN admin_account \ AdminRowsOf(admin_account, msg[r].account)
             ELSE admin_account
        /\ NoteSuper(admin_account', now)
        /\ UNCHANGED <<useraccount, sessions, operateTimes, verification, now,
                       until, overlaps, sinceCleanup>>

-----------------------------------------------------------------------------

Tick ==
    /\ now < until
    /\ now' = now + 1
    /\ NoteSuper(admin_account, now')
    /\ UNCHANGED <<accountVars, admin_account, sessions, operateTimes,
                   verification, until, overlaps, sinceCleanup>>

\* The program ends and starts again: sessions and their counter were in memory.
Restart ==
    /\ LoseRequests
    /\ sessions' = {}
    /\ operateTimes' = 0
    /\ sinceCleanup' = 0
    /\ overlaps' = 0
    /\ verification' = [r \in Requests |-> NotRead]
    /\ UNCHANGED <<admin_account, now, until, lastSuper>>

Init ==
    /\ AccountsInit
    /\ \E w \in Workloads :
          msg = w.msg /\ mayFail = w.mayFail /\ until = w.until
    /\ admin_account = {[id |-> i, account |-> EarlyAdmins[i].account,
                         level |-> EarlyAdmins[i].level, by |-> None] :
                           i \in DOMAIN EarlyAdmins}
    /\ sessions = {}
    /\ operateTimes = 0
    /\ verification = [r \in Requests |-> NotRead]
    /\ now = 0
    /\ lastSuper = [a \in Names |->
          IF LevelOf(a) >= kAccess_SuperAdmin THEN 0 ELSE None]
    /\ overlaps = 0
    /\ sinceCleanup = 0

Next ==
    \/ \E r \in Requests :
          \/ AccountsStep(r) /\ UNCHANGED adminVars
          \/ dbAdminAccountVerify_exists(r)
          \/ dbGetAdminAccountInfo(r)
          \/ dbAdminAccountVerify_password(r)
          \/ NewAdminHandlerSession_read(r)
          \/ NewAdminHandlerSession_count(r)
          \/ NewAdminHandlerSession_store(r)
          \/ adminHandler(r, "AddAdmin", "exists")
          \/ adminHandler(r, "DelAdmin", "delete")
          \/ dbInsertAdminAccount_exists(r)
          \/ dbInsertAdminAccount_account(r)
          \/ dbInsertAdminAccount(r)
          \/ dbRemoveAdminAccount_exists(r)
          \/ dbRemoveAdminAccount(r)
    \/ Tick
    \/ Restart

Spec == Init /\ [][Next]_vars

-----------------------------------------------------------------------------
(* Properties *)

\* Every variable has the shape its declaration says, and a session is held by
\* one administrator who verified; id is the primary key of admin_account.
TypeOK ==
    /\ AccountsTypeOK
    /\ \A r \in Requests :
          /\ pc[r] \in Steps
          /\ verification[r] \in Verification
    /\ admin_account \subseteq AdminRow
    /\ \A x, y \in admin_account : x.id = y.id => x = y
    /\ sessions \subseteq Session
    /\ \A s, t \in sessions : s.guid = t.guid => s = t
    /\ {operateTimes, sinceCleanup, overlaps} \subseteq Nat
    /\ now \in 0..until
    /\ \A a \in Names : lastSuper[a] \in 0..now \union {None}

\* An account has two rows in admin_account, which has no constraint that would
\* prevent it, only when the requests that inserted them overlapped, when the
\* look-up of the later one failed and read "does not exist"
\* (dbAdminAccountExists), or when somebody put them in by hand.  A request
\* that inserts although a statement of its own failed is one of the second kind.
AdminOnce ==
    \A x, y \in admin_account :
        x.account = y.account /\ x.id < y.id /\ y.by # None =>
            x.by \notin before[y.by] \/ y.by \in faulted

SessionOf(r) == CHOOSE s \in sessions : s.guid = msg[r].cookie

PassesCheck(r) ==
    /\ pc[r] = "new" /\ pc'[r] \in {"exists", "delete"}
    /\ msg[r].kind \in {"AddAdmin", "DelAdmin"}

\* An administrator who was removed, or lost a level, makes and removes others
\* for as long as a session lasts, and no longer: a session holds a level its
\* account had while it was verified, and neither time that passes during the
\* verification nor operations of other sessions extend it.
RevokedActsBriefly ==
    [][\A r \in Requests : PassesCheck(r) =>
          LET s == SessionOf(r)
          IN  /\ lastSuper[s.account] # None
              /\ now - lastSuper[s.account]
                   <= Timeout + (s.VerifyTime - s.readAt)
      ]_vars

\* The removal of old sessions removes no session that is still good, although
\* the time it tells them by was taken before the lock (NewAdminHandlerSession).
CleanupKeepsLive ==
    [][\A r \in Requests : pc[r] = "storing" /\ pc'[r] = "ok" =>
          \A s \in sessions \ sessions' : now - s.VerifyTime > Timeout
      ]_vars

\* Old sessions are removed after OperateLimit new ones, later only by as many
\* as were made, since the last removal, while another was being made: no lock
\* protects the counter, and a session may be stored after it was counted and
\* the counter reset.  What went wrong before a removal does no harm after it.
CleanupRegular ==
    sinceCleanup <= OperateLimit + overlaps
=============================================================================
