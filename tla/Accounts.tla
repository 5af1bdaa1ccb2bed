------------------------------ MODULE Accounts ------------------------------
(***************************************************************************)
(* The accounts of players: the columns account, password and mail of the  *)
(* table useraccount, and the requests that write them.                    *)
(*                                                                         *)
(* The web site registers accounts and changes passwords                   *)
(* (web_handler.go), each request on a goroutine of its own; /rs does the  *)
(* same on the goroutine of main(), one request at a time                  *)
(* (main_thread_process.go).  A request is a few statements, one action    *)
(* each, and nothing is locked between them: of all the checks only the    *)
(* constraint UNIQUE of the column account is made with the insertion.     *)
(*                                                                         *)
(* What a request says is fixed when a behaviour begins, whether it comes, *)
(* and when, is not.  A form that is not well formed is refused before the *)
(* database is looked at and left out.                                     *)
(*                                                                         *)
(* A definition marked "Bug:" is the one after it with a plausible mistake *)
(* in it.  No specification uses it; it shows what the properties catch.   *)
(***************************************************************************)
EXTENDS Naturals

CONSTANTS
    Requests,    \* bound: the requests of a behaviour
    Names,       \* names of accounts
    Passwords,   \* passwords
    Mails,       \* mail addresses that are well formed
    None,        \* no row, no mail address, nobody
    TooLong,     \* names and passwords of 20 characters, which the forms accept
    EarlyRows    \* EarlyRows[a]: the password and mail of account a, or None

ASSUME AccountsAssumption ==
    /\ None \notin Requests \union Mails
    /\ TooLong \subseteq Names \union Passwords

VARIABLES
    useraccount,   \* useraccount[a]: the row of the account, or None
    msg,           \* msg[r]: what the request says
    mayFail,       \* bound: the requests whose statements may fail
    pc,            \* pc[r]: how far it has come
    before,        \* history: what was answered when it began
    faulted        \* history: requests with a statement that failed

accountVars == <<useraccount, msg, mayFail, pc, before, faulted>>

-----------------------------------------------------------------------------
(* Values *)

\* "by" and "setBy" are history: the request that inserted the row and the one
\* that set the password, None for rows that were there from the start.
Row == [password : Passwords, mail : Mails \union {None},
        by : Requests \union {None}, setBy : Requests \union {None}]

\* In EarlyRows by and setBy are left out.
EarlyRow == [password : Passwords, mail : Mails \union {None}]

ASSUME EarlyRowsAssumption ==
    /\ EarlyRows \in [Names -> EarlyRow \union {None}]
    /\ None \notin Row \union EarlyRow

WebMsg == [kind : {"SignUp", "Modify"}, account : Names, password : Passwords,
           mail : Mails]

\* /rs accepts names and passwords of up to 15 characters.
RsMsg == [kind : {"RsRegister", "RsModify"}, account : Names \ TooLong,
          password : Passwords \ TooLong]

AccountSteps == {"new", "checked", "unique", "matched", "ok", "refused", "lost"}

Answered(r) == pc[r] \in {"ok", "refused"}

DbOk(r) == IF r \in mayFail THEN BOOLEAN ELSE {TRUE}

AccountsTypeOK ==
    /\ useraccount \in [Names -> Row \union {None}]
    /\ faulted \subseteq mayFail
    /\ \A r \in Requests : before[r] \subseteq Requests \union {None}

-----------------------------------------------------------------------------
(* Steps of a request *)

\* The first step of a request that says kind.
Begins(r, kind) ==
    /\ pc[r] = "new"
    /\ msg[r].kind = kind
    /\ before' = [before EXCEPT ![r] = {None} \union {q \in Requests : Answered(q)}]

Continues(r, step) ==
    /\ pc[r] = step
    /\ UNCHANGED before

\* The request goes on at "to", or is answered if that is "ok" or "refused".
GoTo(r, to, ok) ==
    /\ pc' = [pc EXCEPT ![r] = to]
    /\ faulted' = IF ok THEN faulted ELSE faulted \union {r}
    /\ UNCHANGED <<msg, mayFail>>

\* /rs is served by main(): one request at a time.
MainIdle ==
    \A r \in Requests : msg[r].kind = "RsRegister" =>
        pc[r] \notin {"checked", "unique"}

-----------------------------------------------------------------------------
(* Statements on useraccount (sql.go) *)

Exists(a) == useraccount[a] # None

\* What the look-up may answer: a query that is refused reads as "exists", one
\* that fails at its first row as "does not exist".
dbUserAccountExist(a, ok) == IF ok THEN {Exists(a)} ELSE BOOLEAN

Fits(r) == {msg[r].account, msg[r].password} \intersect TooLong = {}

\* What goes into the new row; /rs has no mail address.
NewRow(r) ==
    [password |-> msg[r].password,
     mail |-> IF msg[r].kind = "SignUp" THEN msg[r].mail ELSE None,
     by |-> r, setBy |-> r]

\* Bug: INSERT OR REPLACE.
dbInsertUserAccountInfo_replace(r) ==
    \/ /\ Continues(r, "checked")
       /\ GoTo(r, "unique", TRUE)
       /\ UNCHANGED useraccount
    \/ /\ Continues(r, "unique")
       /\ useraccount' = [useraccount EXCEPT ![msg[r].account] = NewRow(r)]
       /\ GoTo(r, "ok", TRUE)

\* The function looks for the name itself, skips the insertion if it finds it,
\* or if name or password are too long, and reports success then, too.
dbInsertUserAccountInfo(r) ==
    \E ok \in DbOk(r) :
        \/ /\ Continues(r, "checked")
           /\ \E exists \in dbUserAccountExist(msg[r].account, ok) :
                 GoTo(r, IF exists \/ ~Fits(r) THEN "ok" ELSE "unique", ok)
           /\ UNCHANGED useraccount
        \/ /\ Continues(r, "unique")
           /\ IF Exists(msg[r].account) \/ ~ok
              THEN /\ GoTo(r, "refused", ok)
                   /\ UNCHANGED useraccount
              ELSE /\ GoTo(r, "ok", ok)
                   /\ useraccount' =
                        [useraccount EXCEPT ![msg[r].account] = NewRow(r)]

\* UPDATE ... WHERE account = ?: a name that does not exist is no error.
dbUpdateUserAccountPassword(r, ok) ==
    useraccount' =
        IF ok /\ Exists(msg[r].account)
        THEN [useraccount EXCEPT ![msg[r].account].password = msg[r].password,
                                 ![msg[r].account].setBy = r]
        ELSE useraccount

-----------------------------------------------------------------------------
(* The web site (web_handler.go) *)

\* Bug: left to the check in dbInsertUserAccountInfo.
webRegAccountHandler_unchecked(r) ==
    /\ Begins(r, "SignUp")
    /\ GoTo(r, "checked", TRUE)
    /\ UNCHANGED useraccount

webRegAccountHandler(r) ==
    \E ok \in DbOk(r) :
        /\ Begins(r, "SignUp")
        /\ \E exists \in dbUserAccountExist(msg[r].account, ok) :
              GoTo(r, IF exists THEN "refused" ELSE "checked", ok)
        /\ UNCHANGED useraccount

\* Whoever knows the mail address of an account may set its password.
webModifyPasswordHandler(r) ==
    \E ok \in DbOk(r) :
        \/ /\ Begins(r, "Modify")
           /\ GoTo(r, IF ok /\ Exists(msg[r].account)
                           /\ useraccount[msg[r].account].mail = msg[r].mail
                      THEN "matched" ELSE "refused", ok)
           /\ UNCHANGED useraccount
        \/ /\ Continues(r, "matched")
           /\ GoTo(r, IF ok THEN "ok" ELSE "refused", ok)
           /\ dbUpdateUserAccountPassword(r, ok)

-----------------------------------------------------------------------------
(* /rs (main_thread_process.go) *)

LsRegisterAccount(r) ==
    \E ok \in DbOk(r) :
        /\ MainIdle
        /\ Begins(r, "RsRegister")
        /\ \E exists \in dbUserAccountExist(msg[r].account, ok) :
              GoTo(r, IF exists THEN "refused" ELSE "checked", ok)
        /\ UNCHANGED useraccount

\* Of the two answers when the statement fails the first counts here;
\* MainThread is about the second.
LsModifyPassword(r) ==
    \E ok \in DbOk(r) :
        /\ MainIdle
        /\ Begins(r, "RsModify")
        /\ GoTo(r, IF ok THEN "ok" ELSE "refused", ok)
        /\ dbUpdateUserAccountPassword(r, ok)

-----------------------------------------------------------------------------

\* A process that starts again goes on with the tables; requests that were not
\* answered get no answer.
LoseRequests ==
    /\ pc' = [r \in Requests |->
                 IF pc[r] = "new" \/ Answered(r) THEN pc[r] ELSE "lost"]
    /\ UNCHANGED <<useraccount, msg, mayFail, before, faulted>>

AccountsInit ==
    /\ useraccount = [a \in Names |->
          IF EarlyRows[a] = None THEN None
          ELSE [password |-> EarlyRows[a].password, mail |-> EarlyRows[a].mail,
                by |-> None, setBy |-> None]]
    /\ pc = [r \in Requests |-> "new"]
    /\ before = [r \in Requests |-> {}]
    /\ faulted = {}

AccountsStep(r) ==
    \/ webRegAccountHandler(r)
    \/ dbInsertUserAccountInfo(r)
    \/ webModifyPasswordHandler(r)
    \/ LsRegisterAccount(r)
    \/ LsModifyPassword(r)

-----------------------------------------------------------------------------
(* Properties *)

\* The request may change the password of a: it came from /rs, or knows the
\* mail address.
MayModify(r, a) ==
    /\ msg[r].account = a
    /\ \/ msg[r].kind = "RsModify"
       \/ msg[r].kind = "Modify" /\ msg[r].mail = useraccount[a].mail

\* An account is never lost to another registration, however many register its
\* name at a time: its row stays, with the mail address and the creator it had,
\* and its password only becomes what a request says that may change it and is
\* just being answered with success.
RowsNeverStolen ==
    [][\A a \in Names : Exists(a) =>
          /\ Exists(a)'
          /\ useraccount'[a].mail = useraccount[a].mail
          /\ useraccount'[a].by = useraccount[a].by
          /\ useraccount'[a] # useraccount[a] =>
                \E r \in Requests :
                    /\ MayModify(r, a)
                    /\ pc[r] # "ok" /\ pc'[r] = "ok"
                    /\ useraccount'[a].password = msg[r].password
                    /\ useraccount'[a].setBy = r
      ]_accountVars

Registers(r) == msg[r].kind \in {"SignUp", "RsRegister"}

\* A registration that was refused has left nothing behind.  One that was told
\* "success", whose statements all worked and whose name and password fit, finds
\* the account there; it made it itself or a request did that was not finished
\* when it began: nobody is welcomed to an account that was taken before he
\* asked (webRegAccountHandler and dbInsertUserAccountInfo look three times).
AnswersExplained ==
    \A r \in Requests : Registers(r) =>
        /\ pc[r] = "refused" =>
              \A a \in Names : Exists(a) => useraccount[a].by # r
        /\ pc[r] = "ok" /\ r \notin faulted /\ Fits(r) =>
              /\ Exists(msg[r].account)
              /\ useraccount[msg[r].account].by \notin before[r]
=============================================================================
