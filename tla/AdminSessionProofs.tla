------------------------- MODULE AdminSessionProofs -------------------------
(***************************************************************************)
(* AdminSession, and Accounts within it, for any requests, accounts,       *)
(* workloads and failures: accounts are not taken over, success is worth   *)
(* what it says, a session acts no longer than it lasts, the removal of    *)
(* old sessions spares the others and comes in time, and an account is     *)
(* made an administrator twice only by requests that overlap.              *)
(***************************************************************************)
EXTENDS AdminSession, FiniteSetTheorems, WellFoundedInduction, TLAPS

Msgs == WebMsg \union RsMsg \union AdminMsg

AccountTypes ==
    /\ msg \in [Requests -> Msgs]
    /\ pc \in [Requests -> Steps]
    /\ useraccount \in [Names -> Row \union {None}]
    /\ before \in [Requests -> SUBSET (Requests \union {None})]

\* The requests that come to a step.
KindAt(kind, step) ==
    /\ step \in {"checked", "unique"} => kind \in {"SignUp", "RsRegister"}
    /\ step = "matched" => kind = "Modify"
    /\ step \in {"level", "password", "session", "counting", "storing"} =>
          kind = "Verify"
    /\ step \in {"exists", "account", "insert"} => kind = "AddAdmin"
    /\ step \in {"delete", "remove"} => kind = "DelAdmin"

KindsKept == \A r \in Requests : KindAt(msg[r].kind, pc[r])

\* A request that made an account was told so.
MakersTold ==
    \A a \in Names : Exists(a) =>
        useraccount[a].by = None \/ pc[useraccount[a].by] = "ok"

\* What a password change compared is still so when it changes the password.
MatchedKept ==
    \A r \in Requests : pc[r] = "matched" =>
        /\ Exists(msg[r].account)
        /\ useraccount[msg[r].account].mail = msg[r].mail

BeforeAnswered ==
    \A r \in Requests : \A q \in before[r] \ {None} : Answered(q)

\* Made by somebody who had not finished when r began.
MadeSince(r) == useraccount[msg[r].account].by \notin before[r]

\* The name was free when the request looked.
FreeWhenChecked ==
    \A r \in Requests :
        /\ pc[r] \in {"checked", "unique"}
        /\ r \notin faulted
        /\ Exists(msg[r].account)
        => MadeSince(r)

SuccessWorth ==
    \A r \in Requests :
        /\ Registers(r)
        /\ pc[r] = "ok" /\ r \notin faulted /\ Fits(r)
        => Exists(msg[r].account) /\ MadeSince(r)

AccountInv ==
    /\ AccountTypes
    /\ KindsKept
    /\ MakersTold
    /\ MatchedKept
    /\ BeforeAnswered
    /\ FreeWhenChecked
    /\ SuccessWorth

-----------------------------------------------------------------------------
(* Steps of a request on the accounts *)

\* What a step of r may do to the rows.
RowsStep(r) ==
    /\ useraccount' \in [Names -> Row \union {None}]
    /\ \A a \in Names : Exists(a) =>
          /\ Exists(a)'
          /\ useraccount'[a].mail = useraccount[a].mail
          /\ useraccount'[a].by = useraccount[a].by
    /\ \A a \in Names : ~Exists(a) /\ Exists(a)' =>
          useraccount'[a].by = r /\ pc[r] = "unique" /\ pc'[r] = "ok"

BeforeStep(r) ==
    \/ UNCHANGED before
    \/ /\ pc[r] = "new"
       /\ before' = [before EXCEPT ![r] =
                        {None} \union {q \in Requests : Answered(q)}]

LEMMA MsgFacts ==
    ASSUME AccountTypes, NEW r \in Requests
    PROVE  /\ msg[r].kind \in {"SignUp", "Modify", "RsRegister", "RsModify",
                               "Verify", "AddAdmin", "DelAdmin"}
           /\ msg[r].account \in Names
           /\ msg[r].kind \in {"SignUp", "Modify", "RsRegister", "RsModify"} =>
                 msg[r].password \in Passwords
           /\ msg[r].kind \in {"SignUp", "Modify"} => msg[r].mail \in Mails
  <1>1. msg[r] \in Msgs
    BY DEF AccountTypes
  <1> QED
    BY <1>1 DEF Msgs, WebMsg, RsMsg, AdminMsg

LEMMA RowFacts ==
    ASSUME AccountTypes, NEW a \in Names
    PROVE  Exists(a) => useraccount[a] \in Row
  BY DEF AccountTypes, Exists

LEMMA NewRowTyped ==
    ASSUME AccountTypes, NEW r \in Requests, Registers(r)
    PROVE  NewRow(r) \in Row /\ NewRow(r).by = r /\ NewRow(r) # None
  <1>1. NewRow(r) \in Row
    BY MsgFacts DEF NewRow, Row, Registers
  <1>2. NewRow(r).by = r
    BY DEF NewRow
  <1> QED
    BY <1>1, <1>2, EarlyRowsAssumption DEF EarlyRowsAssumption

LEMMA GoToFacts ==
    ASSUME AccountTypes, NEW r \in Requests, NEW to \in Steps, NEW ok,
           GoTo(r, to, ok)
    PROVE  /\ pc' \in [Requests -> Steps]
           /\ pc'[r] = to
           /\ \A q \in Requests \ {r} : pc'[q] = pc[q]
           /\ UNCHANGED msg
           /\ faulted \subseteq faulted'
           /\ \A q \in Requests \ {r} : q \in faulted' <=> q \in faulted
  BY DEF AccountTypes, GoTo

\* One step of r, whose own part in the invariant is a hypothesis.
LEMMA RequestStep ==
    ASSUME AccountInv, NEW r \in Requests, NEW to \in Steps, NEW ok,
           GoTo(r, to, ok), pc[r] \notin {"ok", "refused"},
           RowsStep(r), BeforeStep(r),
           KindAt(msg[r].kind, to),
           to = "matched" =>
              /\ Exists(msg[r].account)
              /\ useraccount[msg[r].account].mail = msg[r].mail,
           to \in {"checked", "unique"} /\ r \notin faulted'
              /\ Exists(msg[r].account)' => MadeSince(r)',
           Registers(r) /\ to = "ok" /\ r \notin faulted' /\ Fits(r) =>
              Exists(msg[r].account)' /\ MadeSince(r)'
    PROVE  AccountInv'
  <1> USE DEF AccountInv
  <1>1. /\ pc' \in [Requests -> Steps]
        /\ pc'[r] = to
        /\ \A q \in Requests \ {r} : pc'[q] = pc[q]
        /\ UNCHANGED msg
        /\ \A q \in Requests \ {r} : q \in faulted' <=> q \in faulted
    BY GoToFacts
  <1>2. /\ before' \in [Requests -> SUBSET (Requests \union {None})]
        /\ \A q \in Requests \ {r} : before'[q] = before[q]
        /\ before'[r] = before[r]
           \/ before'[r] = {None} \union {q \in Requests : Answered(q)}
    BY DEF BeforeStep, AccountTypes
  <1>3. AccountTypes'
    BY <1>1, <1>2 DEF AccountTypes, RowsStep
  <1>4. KindsKept'
    BY <1>1 DEF KindsKept
  <1>5. \A q \in Requests : Answered(q) => Answered(q)'
    BY <1>1 DEF Answered
  <1>6. MakersTold'
    <2> SUFFICES ASSUME NEW a \in Names, Exists(a)'
                 PROVE  useraccount'[a].by = None \/ pc'[useraccount'[a].by] = "ok"
      BY DEF MakersTold
    <2>1. CASE Exists(a)
      <3>1. useraccount'[a].by = useraccount[a].by
        BY <2>1 DEF RowsStep
      <3>2. useraccount[a].by \in Requests \union {None}
        BY <2>1, RowFacts DEF Row
      <3> QED
        BY <1>1, <2>1, <3>1, <3>2 DEF MakersTold
    <2>2. CASE ~Exists(a)
      BY <2>2 DEF RowsStep
    <2> QED
      BY <2>1, <2>2
  <1>7. MatchedKept'
    BY <1>1, MsgFacts DEF MatchedKept, RowsStep
  <1>8. BeforeAnswered'
    BY <1>1, <1>2, <1>5 DEF BeforeAnswered
  <1>9. ASSUME NEW q \in Requests \ {r}, Exists(msg[q].account)',
               Exists(msg[q].account) => MadeSince(q)
        PROVE  MadeSince(q)'
    <2> DEFINE a == msg[q].account
    <2>1. a \in Names
      BY MsgFacts
    <2>2. CASE Exists(a)
      BY <1>1, <1>2, <1>9, <2>1, <2>2 DEF MadeSince, RowsStep
    <2>3. CASE ~Exists(a)
      <3>1. useraccount'[a].by = r /\ pc[r] = "unique"
        BY <1>1, <1>9, <2>1, <2>3 DEF RowsStep, Exists
      <3>2. r \notin before[q]
        BY <3>1, AccountsAssumption DEF BeforeAnswered, Answered
      <3> QED
        BY <1>1, <1>2, <3>1, <3>2 DEF MadeSince
    <2> QED
      BY <2>2, <2>3
  <1>10. FreeWhenChecked'
    <2> SUFFICES ASSUME NEW q \in Requests, pc'[q] \in {"checked", "unique"},
                        q \notin faulted', Exists(msg[q].account)'
                 PROVE  MadeSince(q)'
      BY <1>1 DEF FreeWhenChecked
    <2> QED
      BY <1>1, <1>9 DEF FreeWhenChecked
  <1>11. SuccessWorth'
    <2> SUFFICES ASSUME NEW q \in Requests, Registers(q)', pc'[q] = "ok",
                        q \notin faulted', Fits(q)'
                 PROVE  Exists(msg[q].account)' /\ MadeSince(q)'
      BY <1>1 DEF SuccessWorth
    <2>1. Registers(q) /\ Fits(q)
      BY <1>1 DEF Registers, Fits
    <2>2. CASE q = r
      BY <1>1, <2>1, <2>2
    <2>3. CASE q # r
      <3>1. Exists(msg[q].account) /\ MadeSince(q)
        BY <1>1, <2>1, <2>3 DEF SuccessWorth
      <3>2. Exists(msg[q].account)'
        BY <1>1, <3>1, MsgFacts DEF RowsStep, Exists
      <3> QED
        BY <1>9, <2>3, <3>1, <3>2
    <2> QED
      BY <2>2, <2>3
  <1> QED
    BY <1>3, <1>4, <1>6, <1>7, <1>8, <1>10, <1>11

-----------------------------------------------------------------------------
(* The statements on the accounts *)

\* What RowsNeverStolen says of a step.
RowsGuarded ==
    \A a \in Names : Exists(a) =>
        /\ Exists(a)'
        /\ useraccount'[a].mail = useraccount[a].mail
        /\ useraccount'[a].by = useraccount[a].by
        /\ useraccount'[a] # useraccount[a] =>
              \E r \in Requests :
                  /\ MayModify(r, a)
                  /\ pc[r] # "ok" /\ pc'[r] = "ok"
                  /\ useraccount'[a].password = msg[r].password
                  /\ useraccount'[a].setBy = r

LEMMA BeginsFacts ==
    ASSUME NEW r \in Requests, NEW kind, Begins(r, kind)
    PROVE  pc[r] = "new" /\ msg[r].kind = kind /\ BeforeStep(r)
  BY DEF Begins, BeforeStep

LEMMA ContinuesFacts ==
    ASSUME NEW r \in Requests, NEW step, Continues(r, step)
    PROVE  pc[r] = step /\ BeforeStep(r)
  BY DEF Continues, BeforeStep

LEMMA RowsLeft ==
    ASSUME AccountTypes, NEW r \in Requests, UNCHANGED useraccount
    PROVE  RowsStep(r) /\ RowsGuarded
  BY DEF RowsStep, RowsGuarded, AccountTypes, Exists

\* A step that reads, and goes on if the account is not there.
LEMMA CheckInv ==
    ASSUME AccountInv, NEW r \in Requests, NEW ok \in BOOLEAN,
           NEW exists \in dbUserAccountExist(msg[r].account, ok),
           NEW kind \in {"SignUp", "RsRegister"}, Begins(r, kind),
           GoTo(r, IF exists THEN "refused" ELSE "checked", ok),
           UNCHANGED useraccount
    PROVE  AccountInv' /\ RowsGuarded
  <1> DEFINE to == IF exists THEN "refused" ELSE "checked"
  <1>1. pc[r] = "new" /\ msg[r].kind = kind /\ BeforeStep(r)
    BY BeginsFacts
  <1>2. RowsStep(r) /\ RowsGuarded
    BY RowsLeft DEF AccountInv
  <1>3. to \in Steps /\ to \in {"refused", "checked"} /\ KindAt(msg[r].kind, to)
    BY <1>1 DEF Steps, AccountSteps, KindAt
  <1>4. UNCHANGED msg
    BY DEF GoTo
  <1>5. to = "checked" /\ r \notin faulted' => ~Exists(msg[r].account)'
    BY <1>4 DEF dbUserAccountExist, Exists, GoTo
  <1> HIDE DEF to
  <1>6. GoTo(r, to, ok)
    BY DEF to
  <1>7. AccountInv'
    BY <1>1, <1>2, <1>3, <1>5, <1>6, RequestStep
  <1> QED
    BY <1>2, <1>7

LEMMA webRegAccountHandlerInv ==
    ASSUME AccountInv, NEW r \in Requests, webRegAccountHandler(r)
    PROVE  AccountInv' /\ RowsGuarded
  BY CheckInv DEF webRegAccountHandler, DbOk

LEMMA LsRegisterAccountInv ==
    ASSUME AccountInv, NEW r \in Requests, LsRegisterAccount(r)
    PROVE  AccountInv' /\ RowsGuarded
  BY CheckInv DEF LsRegisterAccount, DbOk

LEMMA dbInsertUserAccountInfoInv ==
    ASSUME AccountInv, NEW r \in Requests, dbInsertUserAccountInfo(r)
    PROVE  AccountInv' /\ RowsGuarded
  <1> DEFINE a == msg[r].account
  <1>1. AccountTypes /\ KindsKept /\ FreeWhenChecked /\ BeforeAnswered
    BY DEF AccountInv
  <1>2. a \in Names
    BY <1>1, MsgFacts
  <1>3. ASSUME pc[r] \in {"checked", "unique"}
        PROVE  Registers(r)
    BY <1>1, <1>3 DEF KindsKept, KindAt, Registers
  <1>4. PICK ok \in BOOLEAN :
          \/ /\ Continues(r, "checked")
             /\ \E exists \in dbUserAccountExist(a, ok) :
                   GoTo(r, IF exists \/ ~Fits(r) THEN "ok" ELSE "unique", ok)
             /\ UNCHANGED useraccount
          \/ /\ Continues(r, "unique")
             /\ IF Exists(a) \/ ~ok
                THEN GoTo(r, "refused", ok) /\ UNCHANGED useraccount
                ELSE /\ GoTo(r, "ok", ok)
                     /\ useraccount' = [useraccount EXCEPT ![a] = NewRow(r)]
    BY DEF dbInsertUserAccountInfo, DbOk
  <1>5. UNCHANGED <<msg, before>> /\ faulted' = IF ok THEN faulted ELSE faulted \union {r}
    BY <1>4 DEF GoTo, Continues
  <1>6. CASE /\ Continues(r, "checked")
             /\ \E exists \in dbUserAccountExist(a, ok) :
                   GoTo(r, IF exists \/ ~Fits(r) THEN "ok" ELSE "unique", ok)
             /\ UNCHANGED useraccount
    <2>0. PICK exists \in dbUserAccountExist(a, ok) :
             GoTo(r, IF exists \/ ~Fits(r) THEN "ok" ELSE "unique", ok)
      BY <1>6
    <2> DEFINE to == IF exists \/ ~Fits(r) THEN "ok" ELSE "unique"
    <2>1. pc[r] = "checked" /\ BeforeStep(r) /\ Registers(r)
      BY <1>3, <1>6, ContinuesFacts
    <2>2. RowsStep(r) /\ RowsGuarded
      BY <1>1, <1>6, RowsLeft
    <2>3. to \in Steps /\ to \in {"ok", "unique"} /\ KindAt(msg[r].kind, to)
      BY <2>1 DEF Steps, AccountSteps, KindAt, Registers
    <2>4. Exists(a)' <=> Exists(a)
      BY <1>5, <1>6 DEF Exists
    <2>5. MadeSince(r)' <=> MadeSince(r)
      BY <1>5, <1>6 DEF MadeSince
    <2>6. r \notin faulted' /\ Exists(a) => MadeSince(r)
      BY <1>1, <1>5, <2>1 DEF FreeWhenChecked
    <2>7. to = "ok" /\ r \notin faulted' /\ Fits(r) => Exists(a)
      BY <1>5 DEF dbUserAccountExist
    <2>8. GoTo(r, to, ok)
      BY <2>0
    <2> HIDE DEF to
    <2>9. AccountInv'
      BY <1>5, <2>1, <2>2, <2>3, <2>4, <2>5, <2>6, <2>7, <2>8, RequestStep
    <2> QED
      BY <2>2, <2>9
  <1>7. CASE Continues(r, "unique") /\ GoTo(r, "refused", ok) /\ UNCHANGED useraccount
    <2>1. pc[r] = "unique" /\ BeforeStep(r)
      BY <1>7, ContinuesFacts
    <2>2. RowsStep(r) /\ RowsGuarded
      BY <1>1, <1>7, RowsLeft
    <2>3. "refused" \in Steps /\ KindAt(msg[r].kind, "refused")
      BY DEF Steps, AccountSteps, KindAt
    <2>4. AccountInv'
      BY <1>7, <2>1, <2>2, <2>3, RequestStep
    <2> QED
      BY <2>2, <2>4
  <1>8. CASE /\ Continues(r, "unique") /\ GoTo(r, "ok", ok) /\ ~Exists(a)
             /\ useraccount' = [useraccount EXCEPT ![a] = NewRow(r)]
    <2>1. pc[r] = "unique" /\ BeforeStep(r) /\ Registers(r)
      BY <1>3, <1>8, ContinuesFacts
    <2>2. NewRow(r) \in Row /\ NewRow(r).by = r /\ NewRow(r) # None
      BY <1>1, <2>1, NewRowTyped
    <2>3. "ok" \in Steps /\ KindAt(msg[r].kind, "ok")
      BY DEF Steps, AccountSteps, KindAt
    <2>4. pc'[r] = "ok"
      BY <1>1, <1>8, <2>3, GoToFacts
    <2>5. /\ useraccount' \in [Names -> Row \union {None}]
          /\ useraccount'[a] = NewRow(r)
          /\ \A b \in Names \ {a} : useraccount'[b] = useraccount[b]
      BY <1>1, <1>2, <1>8, <2>2 DEF AccountTypes
    <2>6. RowsStep(r) /\ RowsGuarded
      BY <1>8, <2>1, <2>2, <2>4, <2>5 DEF RowsStep, RowsGuarded, Exists
    <2>7. Exists(a)'
      BY <1>2, <1>5, <2>2, <2>5 DEF Exists
    <2>8. r \notin before[r]
      BY <1>1, <2>1, AccountsAssumption
      DEF BeforeAnswered, Answered, AccountsAssumption
    <2>9. MadeSince(r)'
      BY <1>5, <2>2, <2>5, <2>8 DEF MadeSince
    <2>10. AccountInv'
      BY <1>5, <1>8, <2>1, <2>3, <2>6, <2>7, <2>9, RequestStep
    <2> QED
      BY <2>6, <2>10
  <1> QED
    BY <1>4, <1>6, <1>7, <1>8

\* A password is set, or the statement fails.
LEMMA SetPasswordInv ==
    ASSUME AccountInv, NEW r \in Requests, NEW ok \in BOOLEAN,
           pc[r] \in {"new", "matched"}, BeforeStep(r),
           msg[r].kind \in {"Modify", "RsModify"},
           Exists(msg[r].account) => MayModify(r, msg[r].account),
           GoTo(r, IF ok THEN "ok" ELSE "refused", ok),
           dbUpdateUserAccountPassword(r, ok)
    PROVE  AccountInv' /\ RowsGuarded
  <1> DEFINE a == msg[r].account
             to == IF ok THEN "ok" ELSE "refused"
  <1>1. AccountTypes
    BY DEF AccountInv
  <1>2. to \in Steps /\ KindAt(msg[r].kind, to) /\ to \in {"ok", "refused"}
    BY DEF Steps, AccountSteps, KindAt
  <1>3. GoTo(r, to, ok)
    OBVIOUS
  <1>4. pc'[r] = to
    BY <1>1, <1>2, <1>3, GoToFacts
  <1>5. a \in Names
    BY <1>1, MsgFacts
  <1>6. ~Registers(r)
    BY DEF Registers
  <1>7. CASE ok /\ Exists(a)
    <2>1. MayModify(r, a)
      BY <1>7
    <2> DEFINE row == [useraccount[a] EXCEPT !.password = msg[r].password,
                                             !.setBy = r]
    <2>2. useraccount' = [useraccount EXCEPT ![a] = row]
      BY <1>7 DEF dbUpdateUserAccountPassword
    <2>3. useraccount[a] \in Row /\ msg[r].password \in Passwords
      BY <1>1, <1>5, <1>7, <2>1, RowFacts, MsgFacts
    <2>4. /\ row \in Row /\ row.mail = useraccount[a].mail
          /\ row.by = useraccount[a].by
          /\ row.password = msg[r].password /\ row.setBy = r
      BY <2>3 DEF Row
    <2>5. row # None
      BY <2>4, EarlyRowsAssumption DEF EarlyRowsAssumption
    <2> HIDE DEF row
    <2>6. /\ useraccount' \in [Names -> Row \union {None}]
          /\ useraccount'[a] = row
          /\ \A b \in Names \ {a} : useraccount'[b] = useraccount[b]
      BY <1>1, <1>5, <2>2, <2>4 DEF AccountTypes
    <2>7. RowsStep(r)
      BY <1>5, <1>7, <2>4, <2>5, <2>6 DEF RowsStep, Exists
    <2>8. RowsGuarded
      <3> SUFFICES ASSUME NEW b \in Names, Exists(b)
                   PROVE  useraccount'[b] # useraccount[b] =>
                            \E q \in Requests :
                               /\ MayModify(q, b)
                               /\ pc[q] # "ok" /\ pc'[q] = "ok"
                               /\ useraccount'[b].password = msg[q].password
                               /\ useraccount'[b].setBy = q
        BY <2>7 DEF RowsGuarded, RowsStep
      <3> QED
        BY <1>4, <1>7, <2>1, <2>4, <2>6
    <2> HIDE DEF to
    <2>9. AccountInv'
      BY <1>2, <1>3, <1>6, <2>7, RequestStep
    <2> QED
      BY <2>8, <2>9
  <1>8. CASE ~(ok /\ Exists(a))
    <2>1. UNCHANGED useraccount
      BY <1>8 DEF dbUpdateUserAccountPassword
    <2>2. RowsStep(r) /\ RowsGuarded
      BY <1>1, <2>1, RowsLeft
    <2> HIDE DEF to
    <2>3. AccountInv'
      BY <1>2, <1>3, <1>6, <2>2, RequestStep
    <2> QED
      BY <2>2, <2>3
  <1> QED
    BY <1>7, <1>8

LEMMA webModifyPasswordHandlerInv ==
    ASSUME AccountInv, NEW r \in Requests, webModifyPasswordHandler(r)
    PROVE  AccountInv' /\ RowsGuarded
  <1> DEFINE a == msg[r].account
  <1>1. AccountTypes /\ KindsKept /\ MatchedKept
    BY DEF AccountInv
  <1>2. PICK ok \in BOOLEAN :
          \/ /\ Begins(r, "Modify")
             /\ GoTo(r, IF ok /\ Exists(a) /\ useraccount[a].mail = msg[r].mail
                        THEN "matched" ELSE "refused", ok)
             /\ UNCHANGED useraccount
          \/ /\ Continues(r, "matched")
             /\ GoTo(r, IF ok THEN "ok" ELSE "refused", ok)
             /\ dbUpdateUserAccountPassword(r, ok)
    BY DEF webModifyPasswordHandler, DbOk
  <1>3. CASE /\ Begins(r, "Modify")
             /\ GoTo(r, IF ok /\ Exists(a) /\ useraccount[a].mail = msg[r].mail
                        THEN "matched" ELSE "refused", ok)
             /\ UNCHANGED useraccount
    <2> DEFINE to == IF ok /\ Exists(a) /\ useraccount[a].mail = msg[r].mail
                     THEN "matched" ELSE "refused"
    <2>1. pc[r] = "new" /\ msg[r].kind = "Modify" /\ BeforeStep(r)
      BY <1>3, BeginsFacts
    <2>2. RowsStep(r) /\ RowsGuarded
      BY <1>1, <1>3, RowsLeft
    <2>3. to \in Steps /\ to \in {"matched", "refused"} /\ KindAt(msg[r].kind, to)
      BY <2>1 DEF Steps, AccountSteps, KindAt
    <2>4. to = "matched" => Exists(a) /\ useraccount[a].mail = msg[r].mail
      OBVIOUS
    <2>5. GoTo(r, to, ok)
      BY <1>3
    <2> HIDE DEF to
    <2>6. AccountInv'
      BY <2>1, <2>2, <2>3, <2>4, <2>5, RequestStep
    <2> QED
      BY <2>2, <2>6
  <1>4. CASE /\ Continues(r, "matched")
             /\ GoTo(r, IF ok THEN "ok" ELSE "refused", ok)
             /\ dbUpdateUserAccountPassword(r, ok)
    <2>1. pc[r] = "matched" /\ BeforeStep(r)
      BY <1>4, ContinuesFacts
    <2>2. msg[r].kind = "Modify" /\ useraccount[a].mail = msg[r].mail
      BY <1>1, <2>1 DEF KindsKept, KindAt, MatchedKept
    <2>3. MayModify(r, a)
      BY <2>2 DEF MayModify
    <2> QED
      BY <1>4, <2>1, <2>2, <2>3, SetPasswordInv
  <1> QED
    BY <1>2, <1>3, <1>4

LEMMA LsModifyPasswordInv ==
    ASSUME AccountInv, NEW r \in Requests, LsModifyPassword(r)
    PROVE  AccountInv' /\ RowsGuarded
  <1>1. PICK ok \in BOOLEAN :
          /\ Begins(r, "RsModify")
          /\ GoTo(r, IF ok THEN "ok" ELSE "refused", ok)
          /\ dbUpdateUserAccountPassword(r, ok)
    BY DEF LsModifyPassword, DbOk
  <1>2. pc[r] = "new" /\ msg[r].kind = "RsModify" /\ BeforeStep(r)
    BY <1>1, BeginsFacts
  <1>3. MayModify(r, msg[r].account)
    BY <1>2 DEF MayModify
  <1> QED
    BY <1>1, <1>2, <1>3, SetPasswordInv

LEMMA AccountsStepInv ==
    ASSUME AccountInv, NEW r \in Requests, AccountsStep(r)
    PROVE  AccountInv' /\ RowsGuarded
  BY webRegAccountHandlerInv, dbInsertUserAccountInfoInv,
     webModifyPasswordHandlerInv, LsRegisterAccountInv, LsModifyPasswordInv
  DEF AccountsStep

-----------------------------------------------------------------------------
(* Steps that leave the accounts alone *)

\* A step of a request about administrators.
AdminStep(r) ==
    \E to \in Steps, ok \in BOOLEAN :
        /\ GoTo(r, to, ok)
        /\ pc[r] \notin {"ok", "refused"}
        /\ BeforeStep(r)
        /\ msg[r].kind \in {"Verify", "AddAdmin", "DelAdmin"}
        /\ to \notin {"checked", "unique", "matched"}
        /\ KindAt(msg[r].kind, to)
        /\ UNCHANGED useraccount

LEMMA AdminStepInv ==
    ASSUME AccountInv, NEW r \in Requests, AdminStep(r)
    PROVE  AccountInv' /\ RowsGuarded
  <1>1. PICK to \in Steps, ok \in BOOLEAN :
          /\ GoTo(r, to, ok)
          /\ pc[r] \notin {"ok", "refused"}
          /\ BeforeStep(r)
          /\ msg[r].kind \in {"Verify", "AddAdmin", "DelAdmin"}
          /\ to \notin {"checked", "unique", "matched"}
          /\ KindAt(msg[r].kind, to)
          /\ UNCHANGED useraccount
    BY DEF AdminStep
  <1>2. RowsStep(r) /\ RowsGuarded
    BY <1>1, RowsLeft DEF AccountInv
  <1>3. ~Registers(r)
    BY <1>1 DEF Registers
  <1>4. AccountInv'
    BY <1>1, <1>2, <1>3, RequestStep
  <1> QED
    BY <1>2, <1>4

LEMMA LoseRequestsInv ==
    ASSUME AccountInv, LoseRequests
    PROVE  AccountInv' /\ RowsGuarded
  <1> USE DEF AccountInv
  <1>1. /\ pc' = [r \in Requests |->
                     IF pc[r] = "new" \/ Answered(r) THEN pc[r] ELSE "lost"]
        /\ UNCHANGED <<useraccount, msg, before, faulted>>
    BY DEF LoseRequests
  <1>2. \A r \in Requests : pc'[r] = pc[r] \/ (pc'[r] = "lost" /\ ~Answered(r))
    BY <1>1
  <1>3. AccountTypes'
    BY <1>1 DEF AccountTypes, Steps, AccountSteps
  <1>4. KindsKept'
    BY <1>1, <1>2 DEF KindsKept, KindAt
  <1>5. MakersTold'
    <2> SUFFICES ASSUME NEW a \in Names, Exists(a), useraccount[a].by # None
                 PROVE  pc'[useraccount[a].by] = "ok"
      BY <1>1 DEF MakersTold, Exists
    <2>1. useraccount[a].by \in Requests
      BY RowFacts DEF Row
    <2> QED
      BY <1>2, <2>1 DEF MakersTold, Answered
  <1>6. MatchedKept'
    BY <1>1, <1>2 DEF MatchedKept, Exists
  <1>7. BeforeAnswered'
    BY <1>1, <1>2 DEF BeforeAnswered, Answered, AccountTypes
  <1>8. FreeWhenChecked'
    BY <1>1, <1>2 DEF FreeWhenChecked, Exists, MadeSince
  <1>9. SuccessWorth'
    BY <1>1, <1>2 DEF SuccessWorth, Exists, MadeSince, Registers, Fits
  <1>10. RowsGuarded
    BY <1>1 DEF RowsGuarded, Exists
  <1> QED
    BY <1>3, <1>4, <1>5, <1>6, <1>7, <1>8, <1>9, <1>10

LEMMA AccountsLeft ==
    ASSUME AccountInv, UNCHANGED accountVars
    PROVE  AccountInv' /\ RowsGuarded
  <1> USE DEF AccountInv, accountVars
  <1>1. AccountTypes' /\ KindsKept' /\ MakersTold' /\ MatchedKept'
    BY DEF AccountTypes, KindsKept, MakersTold, MatchedKept, Exists
  <1>2. BeforeAnswered' /\ FreeWhenChecked'
    BY DEF BeforeAnswered, Answered, FreeWhenChecked, Exists, MadeSince
  <1>3. SuccessWorth'
    BY DEF SuccessWorth, Exists, MadeSince, Registers, Fits
  <1>4. RowsGuarded
    BY DEF RowsGuarded, Exists
  <1> QED
    BY <1>1, <1>2, <1>3, <1>4

-----------------------------------------------------------------------------
(* Every step *)

LEMMA InitAccountInv ==
    ASSUME Init
    PROVE  AccountInv
  <1> USE DEF Init, AccountsInit
  <1>1. msg \in [Requests -> Msgs]
    BY WorkloadsAssumption DEF WorkloadsAssumption, Msgs
  <1>2. /\ useraccount \in [Names -> Row \union {None}]
        /\ \A a \in Names : Exists(a) => useraccount[a].by = None
    <2>1. \A a \in Names : EarlyRows[a] # None => EarlyRows[a] \in EarlyRow
      BY EarlyRowsAssumption DEF EarlyRowsAssumption
    <2>2. \A a \in Names :
             /\ EarlyRows[a] = None => useraccount[a] = None
             /\ EarlyRows[a] # None =>
                   useraccount[a] \in Row /\ useraccount[a].by = None
      BY <2>1 DEF Row, EarlyRow
    <2>3. \A a \in Names : useraccount[a] \in Row \union {None}
      BY <2>2
    <2> QED
      BY <2>2, <2>3 DEF Exists
  <1>3. AccountTypes
    BY <1>1, <1>2 DEF AccountTypes, Steps, AccountSteps
  <1>4. \A r \in Requests : pc[r] = "new" /\ before[r] = {}
    OBVIOUS
  <1>5. KindsKept /\ MatchedKept /\ BeforeAnswered /\ FreeWhenChecked /\ SuccessWorth
    BY <1>4 DEF KindsKept, KindAt, MatchedKept, BeforeAnswered, FreeWhenChecked,
                SuccessWorth
  <1>6. MakersTold
    BY <1>2 DEF MakersTold
  <1> QED
    BY <1>3, <1>5, <1>6 DEF AccountInv

\* A request about administrators that begins, and one that goes on.
LEMMA AdminBegins ==
    ASSUME NEW r \in Requests, NEW kind \in {"Verify", "AddAdmin", "DelAdmin"},
           NEW to \in Steps, NEW ok \in BOOLEAN,
           Begins(r, kind), GoTo(r, to, ok), UNCHANGED useraccount,
           to \notin {"checked", "unique", "matched"}, KindAt(kind, to)
    PROVE  AdminStep(r)
  BY BeginsFacts DEF AdminStep

LEMMA AdminContinues ==
    ASSUME KindsKept, NEW r \in Requests,
           NEW step \in {"level", "password", "session", "counting", "storing",
                         "exists", "account", "insert", "delete", "remove"},
           NEW to \in Steps, NEW ok \in BOOLEAN,
           Continues(r, step), GoTo(r, to, ok), UNCHANGED useraccount,
           to \notin {"checked", "unique", "matched"},
           KindAt(msg[r].kind, to)
    PROVE  AdminStep(r)
  <1>1. pc[r] = step /\ BeforeStep(r)
    BY ContinuesFacts
  <1>2. msg[r].kind \in {"Verify", "AddAdmin", "DelAdmin"}
    BY <1>1 DEF KindsKept, KindAt
  <1> QED
    BY <1>1, <1>2 DEF AdminStep

LEMMA VerifyStep ==
    ASSUME KindsKept, NEW r \in Requests,
           \/ dbAdminAccountVerify_exists(r)
           \/ dbGetAdminAccountInfo(r)
           \/ dbAdminAccountVerify_password(r)
           \/ NewAdminHandlerSession_read(r)
           \/ NewAdminHandlerSession_count(r)
           \/ NewAdminHandlerSession_store(r)
    PROVE  AdminStep(r)
  <1> USE DEF Steps, AccountSteps, KindAt
  <1>0. ASSUME pc[r] \in {"level", "password", "session", "counting", "storing"}
        PROVE  msg[r].kind = "Verify"
    BY <1>0 DEF KindsKept
  <1>1. CASE dbAdminAccountVerify_exists(r)
    BY <1>1, AdminBegins DEF dbAdminAccountVerify_exists, DbOk
  <1>2. CASE dbGetAdminAccountInfo(r)
    <2>1. PICK ok \in BOOLEAN :
            /\ Continues(r, "level") /\ UNCHANGED useraccount
            /\ GoTo(r, "password", ok) \/ GoTo(r, "refused", ok)
      BY <1>2 DEF dbGetAdminAccountInfo, DbOk
    <2> QED
      BY <1>0, <2>1, ContinuesFacts, AdminContinues
  <1>3. CASE dbAdminAccountVerify_password(r)
    <2>1. PICK ok \in BOOLEAN :
            /\ Continues(r, "password") /\ UNCHANGED useraccount
            /\ GoTo(r, "session", ok) \/ GoTo(r, "refused", ok)
      BY <1>3 DEF dbAdminAccountVerify_password, DbOk
    <2> QED
      BY <1>0, <2>1, ContinuesFacts, AdminContinues
  <1>4. CASE NewAdminHandlerSession_read(r)
    BY <1>0, <1>4, ContinuesFacts, AdminContinues
    DEF NewAdminHandlerSession_read
  <1>5. CASE NewAdminHandlerSession_count(r)
    BY <1>0, <1>5, ContinuesFacts, AdminContinues
    DEF NewAdminHandlerSession_count
  <1>6. CASE NewAdminHandlerSession_store(r)
    BY <1>0, <1>6, ContinuesFacts, AdminContinues
    DEF NewAdminHandlerSession_store
  <1> QED
    BY <1>1, <1>2, <1>3, <1>4, <1>5, <1>6

LEMMA OperationStep ==
    ASSUME KindsKept, NEW r \in Requests,
           \/ adminHandler(r, "AddAdmin", "exists")
           \/ adminHandler(r, "DelAdmin", "delete")
           \/ dbInsertAdminAccount_exists(r)
           \/ dbInsertAdminAccount_account(r)
           \/ dbInsertAdminAccount(r)
           \/ dbRemoveAdminAccount_exists(r)
           \/ dbRemoveAdminAccount(r)
    PROVE  AdminStep(r)
  <1> USE DEF Steps, AccountSteps, KindAt
  <1>0. /\ pc[r] \in {"exists", "account", "insert"} => msg[r].kind = "AddAdmin"
        /\ pc[r] \in {"delete", "remove"} => msg[r].kind = "DelAdmin"
    BY DEF KindsKept
  <1>1. CASE adminHandler(r, "AddAdmin", "exists")
    BY <1>1, AdminBegins DEF adminHandler
  <1>2. CASE adminHandler(r, "DelAdmin", "delete")
    BY <1>2, AdminBegins DEF adminHandler
  <1>3. CASE dbInsertAdminAccount_exists(r)
    <2>1. PICK ok \in BOOLEAN :
            /\ Continues(r, "exists") /\ UNCHANGED useraccount
            /\ GoTo(r, "ok", ok) \/ GoTo(r, "account", ok)
      BY <1>3 DEF dbInsertAdminAccount_exists, DbOk
    <2> QED
      BY <1>0, <2>1, ContinuesFacts, AdminContinues
  <1>4. CASE dbInsertAdminAccount_account(r)
    <2>1. PICK ok \in BOOLEAN :
            /\ Continues(r, "account") /\ UNCHANGED useraccount
            /\ GoTo(r, "insert", ok) \/ GoTo(r, "refused", ok)
      BY <1>4 DEF dbInsertAdminAccount_account, DbOk
    <2> QED
      BY <1>0, <2>1, ContinuesFacts, AdminContinues
  <1>5. CASE dbInsertAdminAccount(r)
    <2>1. PICK ok \in BOOLEAN :
            /\ Continues(r, "insert") /\ UNCHANGED useraccount
            /\ GoTo(r, "ok", ok) \/ GoTo(r, "refused", ok)
      BY <1>5 DEF dbInsertAdminAccount, DbOk
    <2> QED
      BY <1>0, <2>1, ContinuesFacts, AdminContinues
  <1>6. CASE dbRemoveAdminAccount_exists(r)
    <2>1. PICK ok \in BOOLEAN :
            /\ Continues(r, "delete") /\ UNCHANGED useraccount
            /\ GoTo(r, "remove", ok) \/ GoTo(r, "ok", ok)
      BY <1>6 DEF dbRemoveAdminAccount_exists, DbOk
    <2> QED
      BY <1>0, <2>1, ContinuesFacts, AdminContinues
  <1>7. CASE dbRemoveAdminAccount(r)
    <2>1. PICK ok \in BOOLEAN :
            /\ Continues(r, "remove") /\ UNCHANGED useraccount
            /\ GoTo(r, "ok", ok) \/ GoTo(r, "refused", ok)
      BY <1>7 DEF dbRemoveAdminAccount, DbOk
    <2> QED
      BY <1>0, <2>1, ContinuesFacts, AdminContinues
  <1> QED
    BY <1>1, <1>2, <1>3, <1>4, <1>5, <1>6, <1>7

LEMMA NextAccountInv ==
    ASSUME AccountInv, [Next]_vars
    PROVE  AccountInv' /\ RowsGuarded
  <1>0. KindsKept
    BY DEF AccountInv
  <1>1. ASSUME NEW r \in Requests, AccountsStep(r)
        PROVE  AccountInv' /\ RowsGuarded
    BY <1>1, AccountsStepInv
  <1>2. ASSUME NEW r \in Requests, AdminStep(r)
        PROVE  AccountInv' /\ RowsGuarded
    BY <1>2, AdminStepInv
  <1>3. CASE Tick
    BY <1>3, AccountsLeft DEF Tick
  <1>4. CASE Restart
    BY <1>4, LoseRequestsInv DEF Restart
  <1>5. CASE UNCHANGED vars
    BY <1>5, AccountsLeft DEF vars
  <1> QED
    BY <1>0, <1>1, <1>2, <1>3, <1>4, <1>5, VerifyStep, OperationStep DEF Next

LEMMA AlwaysAccountInv == Spec => []AccountInv
  <1>1. AccountInv /\ [Next]_vars => AccountInv'
    BY NextAccountInv
  <1> QED
    BY InitAccountInv, <1>1, PTL DEF Spec

\* No account is lost to another registration, and a password changes only for
\* a request that may change it and is told so (sql.go and web_handler.go).
THEOREM AccountsNotStolen == Spec => RowsNeverStolen
  <1>1. AccountInv /\ [Next]_vars =>
            [\A a \in Names : Exists(a) =>
                /\ Exists(a)'
                /\ useraccount'[a].mail = useraccount[a].mail
                /\ useraccount'[a].by = useraccount[a].by
                /\ useraccount'[a] # useraccount[a] =>
                      \E r \in Requests :
                          /\ MayModify(r, a)
                          /\ pc[r] # "ok" /\ pc'[r] = "ok"
                          /\ useraccount'[a].password = msg[r].password
                          /\ useraccount'[a].setBy = r]_accountVars
    BY NextAccountInv DEF RowsGuarded
  <1> QED
    BY AlwaysAccountInv, <1>1, PTL DEF Spec, RowsNeverStolen

\* A registration that was refused has left nothing behind, and one that was
\* told "success" finds its account, made by itself or by a request that was
\* not finished when it began (webRegAccountHandler, dbInsertUserAccountInfo).
THEOREM SuccessTrue == Spec => []AnswersExplained
  <1>1. AccountInv => AnswersExplained
    <2> SUFFICES ASSUME AccountInv, NEW r \in Requests, Registers(r)
                 PROVE  /\ pc[r] = "refused" =>
                              \A a \in Names : Exists(a) => useraccount[a].by # r
                        /\ pc[r] = "ok" /\ r \notin faulted /\ Fits(r) =>
                              /\ Exists(msg[r].account)
                              /\ useraccount[msg[r].account].by \notin before[r]
      BY DEF AnswersExplained
    <2>1. pc[r] = "refused" =>
             \A a \in Names : Exists(a) => useraccount[a].by # r
      BY AccountsAssumption DEF AccountInv, MakersTold, AccountsAssumption
    <2>2. pc[r] = "ok" /\ r \notin faulted /\ Fits(r) =>
             /\ Exists(msg[r].account)
             /\ useraccount[msg[r].account].by \notin before[r]
      BY DEF AccountInv, SuccessWorth, MadeSince
    <2> QED
      BY <2>1, <2>2
  <1> QED
    BY AlwaysAccountInv, <1>1, PTL

-----------------------------------------------------------------------------
(* Sessions *)

IsSuper(level) == level >= kAccess_SuperAdmin

\* Who holds this level, read then, was a super administrator then or later.
Vouched(level, a, time) ==
    IsSuper(level) => lastSuper[a] # None /\ lastSuper[a] >= time

HasRead == {"password", "session", "counting", "storing"}

HasTime == {"counting", "storing"}

\* Levels, and the count of a verification, are left open.
SessionTypes ==
    /\ now \in Nat
    /\ lastSuper \in [Names -> Nat \union {None}]
    /\ DOMAIN verification = Requests
    /\ \A r \in Requests :
          /\ DOMAIN verification[r] = {"level", "readAt", "VerifyTime", "times"}
          /\ verification[r].readAt \in Nat
          /\ verification[r].VerifyTime \in Nat
    /\ \A s \in sessions :
          /\ s.guid \in Requests
          /\ s.account \in Names
          /\ s.readAt \in Nat
          /\ s.VerifyTime \in Nat

SuperKnown ==
    \A a \in Names :
        /\ lastSuper[a] # None => lastSuper[a] <= now
        /\ IsSuper(LevelOf(a)) => lastSuper[a] = now

VerificationsVouched ==
    \A r \in Requests :
        /\ pc[r] \in HasRead =>
              Vouched(verification[r].level, msg[r].account, verification[r].readAt)
        /\ pc[r] \in HasTime => verification[r].VerifyTime <= now

SessionsVouched ==
    \A s \in sessions :
        /\ pc[s.guid] = "ok"
        /\ s.VerifyTime <= now
        /\ Vouched(s.level, s.account, s.readAt)

SessionsDistinct == \A s, t \in sessions : s.guid = t.guid => s = t

SessionInv ==
    /\ SessionTypes
    /\ SuperKnown
    /\ VerificationsVouched
    /\ SessionsVouched
    /\ SessionsDistinct

\* A step of r that moves neither administrators, sessions nor time.
LEMMA QuietStep ==
    ASSUME SessionInv, AccountTypes, NEW r \in Requests, NEW to \in Steps, NEW ok,
           GoTo(r, to, ok), pc[r] # "ok",
           to \in HasRead => pc[r] \in HasRead,
           to \in HasTime => pc[r] \in HasTime,
           UNCHANGED <<admin_account, sessions, verification, now, lastSuper>>
    PROVE  SessionInv'
  <1> USE DEF SessionInv
  <1>1. /\ pc'[r] = to
        /\ \A q \in Requests \ {r} : pc'[q] = pc[q]
        /\ UNCHANGED msg
    BY GoToFacts
  <1>2. SessionTypes' /\ SessionsDistinct'
    BY DEF SessionTypes, SessionsDistinct
  <1>3. SuperKnown'
    BY DEF SuperKnown, LevelOf
  <1>4. VerificationsVouched'
    BY <1>1 DEF VerificationsVouched, Vouched
  <1>5. SessionsVouched'
    BY <1>1 DEF SessionsVouched, Vouched, SessionTypes
  <1> QED
    BY <1>2, <1>3, <1>4, <1>5

LEMMA dbGetAdminAccountInfoInv ==
    ASSUME SessionInv, AccountInv, NEW r \in Requests, dbGetAdminAccountInfo(r)
    PROVE  SessionInv'
  <1> USE DEF SessionInv
  <1>0. AccountTypes /\ "password" \in Steps /\ "refused" \in Steps
    BY DEF AccountInv, Steps, AccountSteps
  <1>1. PICK ok \in BOOLEAN :
          /\ Continues(r, "level")
          /\ IF ok /\ IsAdmin(msg[r].account)
             THEN /\ GoTo(r, "password", ok)
                  /\ verification' = [verification EXCEPT
                        ![r].level = LevelOf(msg[r].account), ![r].readAt = now]
             ELSE /\ GoTo(r, "refused", ok)
                  /\ UNCHANGED verification
          /\ UNCHANGED <<admin_account, sessions, now, lastSuper>>
    BY DEF dbGetAdminAccountInfo, DbOk
  <1>2. pc[r] = "level"
    BY <1>1, ContinuesFacts
  <1>3. CASE GoTo(r, "refused", ok) /\ UNCHANGED verification
    BY <1>0, <1>1, <1>2, <1>3, QuietStep DEF HasRead, HasTime
  <1>4. CASE /\ GoTo(r, "password", ok)
             /\ verification' = [verification EXCEPT
                   ![r].level = LevelOf(msg[r].account), ![r].readAt = now]
    <2>1. /\ pc'[r] = "password"
          /\ \A q \in Requests \ {r} : pc'[q] = pc[q]
          /\ UNCHANGED msg
      BY <1>0, <1>4, GoToFacts
    <2>2. /\ DOMAIN verification' = Requests
          /\ DOMAIN verification'[r] = DOMAIN verification[r]
          /\ verification'[r].level = LevelOf(msg[r].account)
          /\ verification'[r].readAt = now
          /\ verification'[r].VerifyTime = verification[r].VerifyTime
          /\ \A q \in Requests \ {r} : verification'[q] = verification[q]
      BY <1>4 DEF SessionTypes
    <2>3. SessionTypes' /\ SessionsDistinct'
      BY <1>1, <2>2 DEF SessionTypes, SessionsDistinct
    <2>4. SuperKnown'
      BY <1>1 DEF SuperKnown, LevelOf
    <2>5. Vouched(LevelOf(msg[r].account), msg[r].account, now)
      BY <1>0, MsgFacts, AdminAssumption
      DEF SuperKnown, Vouched, SessionTypes, AdminAssumption
    <2>6. VerificationsVouched'
      BY <1>1, <2>1, <2>2, <2>5 DEF VerificationsVouched, Vouched, HasRead, HasTime
    <2>7. SessionsVouched'
      BY <1>1, <1>2, <2>1 DEF SessionsVouched, Vouched, SessionTypes
    <2> QED
      BY <2>3, <2>4, <2>6, <2>7
  <1> QED
    BY <1>1, <1>3, <1>4

LEMMA NewAdminHandlerSession_readInv ==
    ASSUME SessionInv, AccountInv, NEW r \in Requests, NewAdminHandlerSession_read(r)
    PROVE  SessionInv'
  <1> USE DEF SessionInv
  <1>0. AccountTypes /\ "counting" \in Steps
    BY DEF AccountInv, Steps
  <1>1. /\ Continues(r, "session") /\ GoTo(r, "counting", TRUE)
        /\ verification' = [verification EXCEPT ![r].VerifyTime = now,
                                                ![r].times = operateTimes]
        /\ UNCHANGED <<admin_account, sessions, now, lastSuper>>
    BY DEF NewAdminHandlerSession_read
  <1>2. /\ pc[r] = "session" /\ pc'[r] = "counting"
        /\ \A q \in Requests \ {r} : pc'[q] = pc[q]
        /\ UNCHANGED msg
    BY <1>0, <1>1, ContinuesFacts, GoToFacts
  <1>3. /\ DOMAIN verification' = Requests
        /\ DOMAIN verification'[r] = DOMAIN verification[r]
        /\ verification'[r].level = verification[r].level
        /\ verification'[r].readAt = verification[r].readAt
        /\ verification'[r].VerifyTime = now
        /\ \A q \in Requests \ {r} : verification'[q] = verification[q]
    BY <1>1 DEF SessionTypes
  <1>4. SessionTypes' /\ SessionsDistinct'
    BY <1>1, <1>3 DEF SessionTypes, SessionsDistinct
  <1>5. SuperKnown'
    BY <1>1 DEF SuperKnown, LevelOf
  <1>6. VerificationsVouched'
    BY <1>1, <1>2, <1>3
    DEF VerificationsVouched, Vouched, HasRead, HasTime, SessionTypes
  <1>7. SessionsVouched'
    BY <1>1, <1>2 DEF SessionsVouched, Vouched, SessionTypes
  <1> QED
    BY <1>4, <1>5, <1>6, <1>7

LEMMA NewAdminHandlerSession_storeInv ==
    ASSUME SessionInv, AccountInv, NEW r \in Requests, NewAdminHandlerSession_store(r)
    PROVE  SessionInv' /\ \A s \in sessions \ sessions' : now - s.VerifyTime > Timeout
  <1> USE DEF SessionInv
  <1> DEFINE n == NewSession(r)
  <1>0. AccountTypes /\ "ok" \in Steps
    BY DEF AccountInv, Steps, AccountSteps
  <1>1. /\ Continues(r, "storing") /\ GoTo(r, "ok", TRUE)
        /\ \/ sessions' = {s \in sessions \union {n} :
                              ~TimedOut(s, verification[r].VerifyTime)}
           \/ sessions' = sessions \union {n}
        /\ verification' = [verification EXCEPT ![r] = NotRead]
        /\ UNCHANGED <<admin_account, now, lastSuper>>
    BY DEF NewAdminHandlerSession_store
  <1>2. /\ pc[r] = "storing" /\ pc'[r] = "ok"
        /\ \A q \in Requests \ {r} : pc'[q] = pc[q]
        /\ UNCHANGED msg
    BY <1>0, <1>1, ContinuesFacts, GoToFacts
  <1>3. /\ DOMAIN verification' = Requests
        /\ verification'[r] = NotRead
        /\ \A q \in Requests \ {r} : verification'[q] = verification[q]
    BY <1>1 DEF SessionTypes
  <1>4. /\ n.guid = r /\ n.account = msg[r].account
        /\ n.level = verification[r].level
        /\ n.VerifyTime = verification[r].VerifyTime
        /\ n.readAt = verification[r].readAt
    BY DEF NewSession
  <1>5. sessions' \subseteq sessions \union {n}
    BY <1>1
  <1>6. msg[r].account \in Names
    BY <1>0, MsgFacts
  <1>7. SessionTypes'
    BY <1>1, <1>3, <1>4, <1>5, <1>6 DEF SessionTypes, NotRead
  <1>8. SuperKnown'
    BY <1>1 DEF SuperKnown, LevelOf
  <1>9. VerificationsVouched'
    BY <1>1, <1>2, <1>3 DEF VerificationsVouched, Vouched, HasRead, HasTime
  <1>10. /\ Vouched(n.level, n.account, n.readAt)
         /\ n.VerifyTime <= now
    BY <1>2, <1>4 DEF VerificationsVouched, HasRead, HasTime
  <1>11. SessionsVouched'
    BY <1>1, <1>2, <1>4, <1>5, <1>10 DEF SessionsVouched, Vouched, SessionTypes
  <1>12. SessionsDistinct'
    <2>1. \A s \in sessions : s.guid # r
      BY <1>2 DEF SessionsVouched
    <2> QED
      BY <1>4, <1>5, <2>1 DEF SessionsDistinct
  <1>13. ASSUME NEW s \in sessions \ sessions'
         PROVE  now - s.VerifyTime > Timeout
    <2>1. TimedOut(s, verification[r].VerifyTime)
      BY <1>1, <1>13
    <2>2. /\ verification[r].VerifyTime <= now
          /\ verification[r].VerifyTime \in Nat /\ s.VerifyTime \in Nat /\ now \in Nat
      BY <1>2 DEF VerificationsVouched, HasTime, SessionTypes
    <2> QED
      BY <2>1, <2>2, AdminAssumption DEF TimedOut, AdminAssumption
  <1> QED
    BY <1>7, <1>8, <1>9, <1>11, <1>12, <1>13

\* Who is a super administrator is noted; nobody's note gets older.
LEMMA NoteSuperFacts ==
    ASSUME SessionTypes, SuperKnown, now' \in Nat, now' >= now,
           NoteSuper(admin_account', now')
    PROVE  /\ lastSuper' \in [Names -> Nat \union {None}]
           /\ SuperKnown'
           /\ \A a \in Names : lastSuper[a] # None =>
                 lastSuper'[a] # None /\ lastSuper'[a] >= lastSuper[a]
  <1>1. \A a \in Names :
           lastSuper'[a] = IF IsSuper(LevelOf(a)') THEN now' ELSE lastSuper[a]
    BY DEF NoteSuper, LevelOf, IsSuper
  <1>2. lastSuper' \in [Names -> Nat \union {None}]
    BY DEF NoteSuper, SessionTypes
  <1>3. SuperKnown'
    <2> SUFFICES ASSUME NEW a \in Names
                 PROVE  /\ lastSuper'[a] # None => lastSuper'[a] <= now'
                        /\ IsSuper(LevelOf(a)') => lastSuper'[a] = now'
      BY DEF SuperKnown
    <2> HIDE DEF IsSuper
    <2>1. CASE IsSuper(LevelOf(a)')
      BY <1>1, <2>1
    <2>2. CASE ~IsSuper(LevelOf(a)')
      BY <1>1, <2>2 DEF SuperKnown, SessionTypes
    <2> QED
      BY <2>1, <2>2
  <1>4. ASSUME NEW a \in Names, lastSuper[a] # None
        PROVE  lastSuper'[a] # None /\ lastSuper'[a] >= lastSuper[a]
    <2>1. lastSuper[a] \in Nat /\ lastSuper[a] <= now
      BY <1>4 DEF SuperKnown, SessionTypes
    <2>2. lastSuper'[a] \in {now', lastSuper[a]}
      BY <1>1
    <2> QED
      BY <2>1, <2>2, AdminAssumption DEF AdminAssumption, SessionTypes
  <1> QED
    BY <1>2, <1>3, <1>4

\* What was vouched for stays so when super administrators are noted.
LEMMA StillVouched ==
    ASSUME SessionTypes, NEW a \in Names, NEW level, NEW time \in Nat,
           Vouched(level, a, time),
           lastSuper' \in [Names -> Nat \union {None}],
           lastSuper[a] # None =>
              lastSuper'[a] # None /\ lastSuper'[a] >= lastSuper[a]
    PROVE  IsSuper(level) => lastSuper'[a] # None /\ lastSuper'[a] >= time
  <1>1. /\ lastSuper[a] # None => lastSuper[a] \in Nat
        /\ lastSuper'[a] # None => lastSuper'[a] \in Nat
    BY DEF SessionTypes
  <1> QED
    BY <1>1 DEF Vouched

\* A step that notes super administrators, of a request or of time.
LEMMA NotingStep ==
    ASSUME SessionInv, AccountTypes, now' \in Nat, now' >= now,
           NoteSuper(admin_account', now'),
           UNCHANGED <<msg, sessions, verification>>,
           \A q \in Requests :
              /\ pc[q] = "ok" => pc'[q] = "ok"
              /\ pc'[q] \in HasRead => pc[q] \in HasRead
              /\ pc'[q] \in HasTime => pc[q] \in HasTime
    PROVE  SessionInv'
  <1> USE DEF SessionInv
  <1>1. /\ lastSuper' \in [Names -> Nat \union {None}]
        /\ SuperKnown'
        /\ \A a \in Names : lastSuper[a] # None =>
              lastSuper'[a] # None /\ lastSuper'[a] >= lastSuper[a]
    BY NoteSuperFacts
  <1>2. SessionTypes' /\ SessionsDistinct'
    BY <1>1 DEF SessionTypes, SessionsDistinct
  <1>3. VerificationsVouched'
    <2>1. ASSUME NEW r \in Requests, pc'[r] \in HasRead
          PROVE  Vouched(verification[r].level, msg[r].account,
                         verification[r].readAt)'
      <3>1. /\ Vouched(verification[r].level, msg[r].account,
                       verification[r].readAt)
            /\ msg[r].account \in Names /\ verification[r].readAt \in Nat
        BY <2>1, MsgFacts DEF VerificationsVouched, SessionTypes
      <3>2. IsSuper(verification[r].level) =>
               /\ lastSuper'[msg[r].account] # None
               /\ lastSuper'[msg[r].account] >= verification[r].readAt
        BY <1>1, <3>1, StillVouched
      <3> QED
        BY <3>2 DEF Vouched, IsSuper
    <2>2. ASSUME NEW r \in Requests, pc'[r] \in HasTime
          PROVE  verification'[r].VerifyTime <= now'
      BY <2>2 DEF VerificationsVouched, SessionTypes
    <2> QED
      BY <2>1, <2>2 DEF VerificationsVouched
  <1>4. SessionsVouched'
    <2> SUFFICES ASSUME NEW s \in sessions
                 PROVE  /\ pc'[s.guid] = "ok"
                        /\ s.VerifyTime <= now'
                        /\ Vouched(s.level, s.account, s.readAt)'
      BY DEF SessionsVouched
    <2>1. /\ s.guid \in Requests /\ s.account \in Names
          /\ s.readAt \in Nat /\ s.VerifyTime \in Nat /\ now \in Nat
      BY DEF SessionTypes
    <2>2. pc'[s.guid] = "ok" /\ s.VerifyTime <= now'
      BY <2>1 DEF SessionsVouched
    <2>3. IsSuper(s.level) => lastSuper'[s.account] # None
                              /\ lastSuper'[s.account] >= s.readAt
      BY <1>1, <2>1, StillVouched DEF SessionsVouched
    <2> QED
      BY <2>2, <2>3 DEF Vouched, IsSuper
  <1> QED
    BY <1>1, <1>2, <1>3, <1>4

LEMMA InsertOrRemoveInv ==
    ASSUME SessionInv, AccountTypes, NEW r \in Requests,
           dbInsertAdminAccount(r) \/ dbRemoveAdminAccount(r)
    PROVE  SessionInv'
  <1>1. PICK ok \in BOOLEAN, to \in {"ok", "refused"}, step \in {"insert", "remove"} :
          /\ Continues(r, step) /\ GoTo(r, to, ok)
          /\ NoteSuper(admin_account', now)
          /\ UNCHANGED <<sessions, verification, now>>
    BY DEF dbInsertAdminAccount, dbRemoveAdminAccount, DbOk
  <1>2. pc[r] \in {"insert", "remove"}
    BY <1>1, ContinuesFacts
  <1>3. to \in Steps
    BY DEF Steps, AccountSteps
  <1>4. /\ pc'[r] \in {"ok", "refused"}
        /\ \A q \in Requests \ {r} : pc'[q] = pc[q]
        /\ UNCHANGED msg
    BY <1>1, <1>3, GoToFacts
  <1>5. now' \in Nat /\ now' >= now /\ NoteSuper(admin_account', now')
    BY <1>1 DEF SessionInv, SessionTypes
  <1>6. \A q \in Requests :
           /\ pc[q] = "ok" => pc'[q] = "ok"
           /\ pc'[q] \in HasRead => pc[q] \in HasRead
           /\ pc'[q] \in HasTime => pc[q] \in HasTime
    BY <1>2, <1>4 DEF HasRead, HasTime
  <1> QED
    BY <1>1, <1>4, <1>5, <1>6, NotingStep

LEMMA TickInv ==
    ASSUME SessionInv, AccountTypes, Tick
    PROVE  SessionInv'
  <1>1. /\ now' = now + 1 /\ NoteSuper(admin_account, now')
        /\ UNCHANGED <<accountVars, admin_account, sessions, verification>>
    BY DEF Tick
  <1>2. now' \in Nat /\ now' >= now
    BY <1>1 DEF SessionInv, SessionTypes
  <1>3. NoteSuper(admin_account', now') /\ UNCHANGED <<msg, pc>>
    BY <1>1 DEF accountVars
  <1> QED
    BY <1>1, <1>2, <1>3, NotingStep

LEMMA RestartInv ==
    ASSUME SessionInv, Restart
    PROVE  SessionInv'
  <1> USE DEF SessionInv
  <1>1. /\ sessions' = {}
        /\ verification' = [r \in Requests |-> NotRead]
        /\ UNCHANGED <<admin_account, now, lastSuper>>
        /\ \A q \in Requests : pc'[q] \in {"new", "ok", "refused", "lost"}
    BY DEF Restart, LoseRequests, Answered
  <1>2. SessionTypes' /\ SessionsDistinct' /\ SessionsVouched'
    BY <1>1 DEF SessionTypes, SessionsDistinct, SessionsVouched, NotRead
  <1>3. SuperKnown'
    BY <1>1 DEF SuperKnown, LevelOf
  <1>4. VerificationsVouched'
    BY <1>1 DEF VerificationsVouched, HasRead, HasTime
  <1> QED
    BY <1>2, <1>3, <1>4

\* A request of a player, step by step.
LEMMA AccountsStepGoes ==
    ASSUME NEW r \in Requests, AccountsStep(r)
    PROVE  \E to \in Steps, ok \in BOOLEAN :
              /\ GoTo(r, to, ok)
              /\ to \notin HasRead \union {"exists", "delete"}
              /\ pc[r] \in {"new", "checked", "unique", "matched"}
  <1> USE DEF Steps, AccountSteps, HasRead, Begins, Continues
  <1>1. CASE webRegAccountHandler(r)
    BY <1>1 DEF webRegAccountHandler, DbOk
  <1>2. CASE dbInsertUserAccountInfo(r)
    <2>1. PICK ok \in BOOLEAN :
            /\ pc[r] \in {"checked", "unique"}
            /\ GoTo(r, "ok", ok) \/ GoTo(r, "unique", ok) \/ GoTo(r, "refused", ok)
      BY <1>2 DEF dbInsertUserAccountInfo, DbOk
    <2> QED
      BY <2>1
  <1>3. CASE webModifyPasswordHandler(r)
    <2>1. PICK ok \in BOOLEAN :
            /\ pc[r] \in {"new", "matched"}
            /\ GoTo(r, "ok", ok) \/ GoTo(r, "matched", ok) \/ GoTo(r, "refused", ok)
      BY <1>3 DEF webModifyPasswordHandler, DbOk
    <2> QED
      BY <2>1
  <1>4. CASE LsRegisterAccount(r)
    BY <1>4 DEF LsRegisterAccount, DbOk
  <1>5. CASE LsModifyPassword(r)
    BY <1>5 DEF LsModifyPassword, DbOk
  <1> QED
    BY <1>1, <1>2, <1>3, <1>4, <1>5 DEF AccountsStep

\* The steps about administrators that move neither them, sessions nor time.
LEMMA QuietAdminStep ==
    ASSUME SessionInv, AccountTypes, NEW r \in Requests,
           \/ dbAdminAccountVerify_exists(r)
           \/ dbAdminAccountVerify_password(r)
           \/ NewAdminHandlerSession_count(r)
           \/ adminHandler(r, "AddAdmin", "exists")
           \/ adminHandler(r, "DelAdmin", "delete")
           \/ dbInsertAdminAccount_exists(r)
           \/ dbInsertAdminAccount_account(r)
           \/ dbRemoveAdminAccount_exists(r)
    PROVE  SessionInv'
  <1> USE DEF Steps, AccountSteps, HasRead, HasTime, adminVars
  <1>1. CASE dbAdminAccountVerify_exists(r)
    BY <1>1, BeginsFacts, QuietStep DEF dbAdminAccountVerify_exists, DbOk
  <1>2. CASE dbAdminAccountVerify_password(r)
    BY <1>2, ContinuesFacts, QuietStep DEF dbAdminAccountVerify_password, DbOk
  <1>3. CASE NewAdminHandlerSession_count(r)
    <2>1. /\ pc[r] = "counting" /\ GoTo(r, "storing", TRUE)
          /\ UNCHANGED <<admin_account, sessions, verification, now, lastSuper>>
      BY <1>3, ContinuesFacts DEF NewAdminHandlerSession_count
    <2> QED
      BY <2>1, QuietStep
  <1>4. CASE adminHandler(r, "AddAdmin", "exists")
    BY <1>4, BeginsFacts, QuietStep DEF adminHandler
  <1>5. CASE adminHandler(r, "DelAdmin", "delete")
    BY <1>5, BeginsFacts, QuietStep DEF adminHandler
  <1>6. CASE dbInsertAdminAccount_exists(r)
    BY <1>6, ContinuesFacts, QuietStep DEF dbInsertAdminAccount_exists, DbOk
  <1>7. CASE dbInsertAdminAccount_account(r)
    BY <1>7, ContinuesFacts, QuietStep DEF dbInsertAdminAccount_account, DbOk
  <1>8. CASE dbRemoveAdminAccount_exists(r)
    BY <1>8, ContinuesFacts, QuietStep DEF dbRemoveAdminAccount_exists, DbOk
  <1> QED
    BY <1>1, <1>2, <1>3, <1>4, <1>5, <1>6, <1>7, <1>8

LEMMA InitSessionInv ==
    ASSUME Init
    PROVE  SessionInv
  <1> USE DEF Init, AccountsInit
  <1>1. SessionTypes
    BY DEF SessionTypes, NotRead
  <1>2. SuperKnown
    BY <1>1, AdminAssumption DEF SuperKnown, IsSuper, AdminAssumption
  <1>3. VerificationsVouched /\ SessionsVouched /\ SessionsDistinct
    BY DEF VerificationsVouched, SessionsVouched, SessionsDistinct, HasRead, HasTime
  <1> QED
    BY <1>1, <1>2, <1>3 DEF SessionInv

LEMMA NextSessionInv ==
    ASSUME SessionInv, AccountInv, [Next]_vars
    PROVE  SessionInv'
  <1>0. AccountTypes
    BY DEF AccountInv
  <1>1. ASSUME NEW r \in Requests, AccountsStep(r), UNCHANGED adminVars
        PROVE  SessionInv'
    <2>1. PICK to \in Steps, ok \in BOOLEAN :
            /\ GoTo(r, to, ok)
            /\ to \notin HasRead
            /\ pc[r] \in {"new", "checked", "unique", "matched"}
      BY <1>1, AccountsStepGoes
    <2> QED
      BY <1>0, <1>1, <2>1, QuietStep DEF HasRead, HasTime, adminVars
  <1>2. CASE UNCHANGED vars
    BY <1>2
    DEF vars, adminVars, accountVars, SessionInv, SessionTypes, SuperKnown,
        LevelOf, VerificationsVouched, Vouched, SessionsVouched, SessionsDistinct
  <1> QED
    BY <1>0, <1>1, <1>2, QuietAdminStep, dbGetAdminAccountInfoInv,
       NewAdminHandlerSession_readInv, NewAdminHandlerSession_storeInv,
       InsertOrRemoveInv, TickInv, RestartInv
    DEF Next

LEMMA AlwaysSessionInv == Spec => []SessionInv
  <1>1. SessionInv /\ AccountInv /\ [Next]_vars => SessionInv'
    BY NextSessionInv
  <1> QED
    BY AlwaysAccountInv, InitSessionInv, <1>1, PTL DEF Spec

-----------------------------------------------------------------------------

\* Only its own steps and a restart move a request.
LEMMA MovesItself ==
    ASSUME AccountInv, [Next]_vars, NEW r \in Requests, pc'[r] # pc[r],
           pc'[r] # "lost"
    PROVE  \/ AccountsStep(r)
           \/ dbAdminAccountVerify_exists(r)
           \/ dbGetAdminAccountInfo(r)
           \/ dbAdminAccountVerify_password(r)
           \/ NewAdminHandlerSession_read(r)
           \/ NewAdminHandlerSession_count(r)
           \/ NewAdminHandlerSession_store(r)
           \/ adminHandler(r, "AddAdmin", "exists")
           \/ adminHandler(r, "DelAdmin", "delete")
           \/ dbInsertAdminAccount_exists(r)
           \/ dbInsertAdminAccount_account(r)
           \/ dbInsertAdminAccount(r)
           \/ dbRemoveAdminAccount_exists(r)
           \/ dbRemoveAdminAccount(r)
  <1>0. AccountTypes /\ KindsKept
    BY DEF AccountInv
  <1>1. ASSUME NEW q \in Requests, AccountsStep(q)
        PROVE  q = r
    BY <1>0, <1>1, AccountsStepGoes, GoToFacts
  <1>2. ASSUME NEW q \in Requests, AdminStep(q)
        PROVE  q = r
    BY <1>0, <1>2, GoToFacts DEF AdminStep
  <1>3. ~Tick
    BY DEF Tick, accountVars
  <1>4. ~Restart
    BY DEF Restart, LoseRequests
  <1>5. ~UNCHANGED vars
    BY DEF vars, accountVars
  <1> QED
    BY <1>0, <1>1, <1>2, <1>3, <1>4, <1>5, VerifyStep, OperationStep DEF Next

\* What passes the check has passed CheckAdminHandlerSession.
LEMMA PassingChecked ==
    ASSUME AccountInv, [Next]_vars, NEW r \in Requests, PassesCheck(r)
    PROVE  CheckAdminHandlerSession(r)
  <1>0. AccountTypes /\ KindsKept
    BY DEF AccountInv
  <1>1. /\ pc[r] = "new" /\ pc'[r] \in {"exists", "delete"}
        /\ msg[r].kind \in {"AddAdmin", "DelAdmin"}
    BY DEF PassesCheck
  <1>2. ~AccountsStep(r)
    <2> SUFFICES ASSUME AccountsStep(r) PROVE FALSE
      OBVIOUS
    <2> QED
      BY <1>0, <1>1, AccountsStepGoes, GoToFacts
  <1>3. adminHandler(r, "AddAdmin", "exists") \/ adminHandler(r, "DelAdmin", "delete")
    BY <1>1, <1>2, MovesItself
    DEF Begins, Continues, dbAdminAccountVerify_exists, dbGetAdminAccountInfo,
        dbAdminAccountVerify_password, NewAdminHandlerSession_read,
        NewAdminHandlerSession_count, NewAdminHandlerSession_store,
        dbInsertAdminAccount_exists, dbInsertAdminAccount_account,
        dbInsertAdminAccount, dbRemoveAdminAccount_exists, dbRemoveAdminAccount
  <1>4. ~CheckAdminHandlerSession(r) => GoTo(r, "refused", TRUE)
    BY <1>3 DEF adminHandler
  <1>5. "refused" \in Steps
    BY DEF Steps, AccountSteps
  <1> QED
    BY <1>0, <1>1, <1>4, <1>5, GoToFacts

\* What becomes "ok" from "storing" has stored its session.
LEMMA OkStored ==
    ASSUME AccountInv, [Next]_vars, NEW r \in Requests,
           pc[r] = "storing", pc'[r] = "ok"
    PROVE  NewAdminHandlerSession_store(r)
  <1>1. ~AccountsStep(r)
    BY AccountsStepGoes
  <1> QED
    BY <1>1, MovesItself
    DEF Begins, Continues, dbAdminAccountVerify_exists, dbGetAdminAccountInfo,
        dbAdminAccountVerify_password, NewAdminHandlerSession_read,
        NewAdminHandlerSession_count, adminHandler,
        dbInsertAdminAccount_exists, dbInsertAdminAccount_account,
        dbInsertAdminAccount, dbRemoveAdminAccount_exists, dbRemoveAdminAccount

\* The removal of old sessions spares those that are still good, although the
\* time it tells them by was taken before the lock (NewAdminHandlerSession).
THEOREM CleanupSpares == Spec => CleanupKeepsLive
  <1>1. AccountInv /\ SessionInv /\ [Next]_vars =>
            [\A r \in Requests : pc[r] = "storing" /\ pc'[r] = "ok" =>
                \A s \in sessions \ sessions' : now - s.VerifyTime > Timeout]_vars
    BY OkStored, NewAdminHandlerSession_storeInv
  <1> QED
    BY AlwaysAccountInv, AlwaysSessionInv, <1>1, PTL DEF Spec, CleanupKeepsLive

\* Whoever makes or removes administrators was a super administrator no longer
\* ago than a session lasts, and its verification took (adminHandler).
THEOREM RevocationBounded == Spec => RevokedActsBriefly
  <1>1. ASSUME AccountInv, SessionInv, [Next]_vars, NEW r \in Requests,
               PassesCheck(r)
        PROVE  /\ lastSuper[SessionOf(r).account] # None
               /\ now - lastSuper[SessionOf(r).account]
                    <= Timeout + (SessionOf(r).VerifyTime - SessionOf(r).readAt)
    <2>1. PICK s \in sessions :
             s.guid = msg[r].cookie /\ ~TimedOut(s, now) /\ IsSuper(s.level)
      BY <1>1, PassingChecked DEF CheckAdminHandlerSession, IsSuper
    <2>2. SessionOf(r) = s
      BY <1>1, <2>1 DEF SessionOf, SessionInv, SessionsDistinct
    <2>3. /\ lastSuper[s.account] # None /\ lastSuper[s.account] >= s.readAt
          /\ s.VerifyTime <= now
      BY <1>1, <2>1 DEF SessionInv, SessionsVouched, Vouched
    <2>4. /\ now \in Nat /\ s.VerifyTime \in Nat /\ s.readAt \in Nat
          /\ lastSuper[s.account] \in Nat
      BY <1>1, <2>3 DEF SessionInv, SessionTypes
    <2>5. now - s.VerifyTime <= Timeout
      BY <2>1, <2>3, <2>4, AdminAssumption DEF TimedOut, AdminAssumption
    <2> QED
      BY <2>2, <2>3, <2>4, <2>5, AdminAssumption DEF AdminAssumption
  <1>2. AccountInv /\ SessionInv /\ [Next]_vars =>
            [\A r \in Requests : PassesCheck(r) =>
                LET s == SessionOf(r)
                IN  /\ lastSuper[s.account] # None
                    /\ now - lastSuper[s.account]
                         <= Timeout + (s.VerifyTime - s.readAt)]_vars
    BY <1>1
  <1> QED
    BY AlwaysAccountInv, AlwaysSessionInv, <1>2, PTL DEF Spec, RevokedActsBriefly

-----------------------------------------------------------------------------
(* Numbers: the least of some, the greatest of some with a bound *)

LEMMA LeastExists ==
    ASSUME NEW S, S \subseteq Nat, S # {}
    PROVE  \E m \in S : \A n \in S : m <= n
  <1>1. PICK m \in S : \A n \in S : <<n, m>> \notin OpToRel(<, Nat)
    BY NatLessThanWellFounded, WFMin
  <1>2. \A n \in S : ~(n < m)
    BY <1>1 DEF OpToRel
  <1>3. m \in Nat /\ \A n \in S : n \in Nat
    OBVIOUS
  <1> QED
    BY <1>2, <1>3

LEMMA GreatestExists ==
    ASSUME NEW S, S \subseteq Nat, S # {}, NEW b \in Nat, \A n \in S : n <= b
    PROVE  Max(S) \in S /\ \A n \in S : n <= Max(S)
  <1> DEFINE Bounds == {c \in Nat : \A n \in S : n <= c}
  <1>1. PICK m \in Bounds : \A c \in Bounds : m <= c
    <2>1. Bounds \subseteq Nat /\ b \in Bounds
      OBVIOUS
    <2> HIDE DEF Bounds
    <2> QED
      BY <2>1, LeastExists
  <1>2. m \in S
    <2> SUFFICES ASSUME m \notin S PROVE FALSE
      OBVIOUS
    <2>1. PICK k \in S : TRUE
      OBVIOUS
    <2>2. k \in Nat /\ k <= m /\ k # m /\ m \in Nat
      BY <2>1
    <2>3. m - 1 \in Nat /\ ~(m <= m - 1)
      BY <2>2
    <2>4. \A n \in S : n <= m - 1
      <3> SUFFICES ASSUME NEW n \in S PROVE n <= m - 1
        OBVIOUS
      <3>1. n \in Nat /\ n <= m /\ n # m
        OBVIOUS
      <3> QED
        BY <2>2, <3>1
    <2> QED
      BY <1>1, <2>3, <2>4
  <1>3. \A n \in S : m >= n
    OBVIOUS
  <1>4. Max(S) \in S /\ \A n \in S : Max(S) >= n
    BY <1>2, <1>3 DEF Max
  <1> QED
    BY <1>4

-----------------------------------------------------------------------------
(* Where a request goes, and which of its statements may fail *)

\* What comes after which step, of the steps that matter below.
Leads(from, to) ==
    /\ from \notin {"ok", "refused"}
    /\ to \in Steps
    /\ to = "account" => from = "exists"
    /\ to = "insert" => from = "account"
    /\ to = "password" => from = "level"
    /\ to = "session" => from = "password"
    /\ to = "counting" <=> from = "session"
    /\ to = "storing" <=> from = "counting"
    /\ from = "storing" => to = "ok"

Goes(r, to) ==
    /\ \E ok \in DbOk(r) : GoTo(r, to, ok)
    /\ BeforeStep(r)
    /\ Leads(pc[r], to)

LEMMA AccountsGoes ==
    ASSUME NEW r \in Requests, AccountsStep(r)
    PROVE  \E to \in AccountSteps : Goes(r, to)
  <1> USE DEF Steps, AccountSteps, Leads, Goes
  <1>0. ASSUME NEW to \in AccountSteps, NEW ok \in DbOk(r), GoTo(r, to, ok),
               BeforeStep(r), pc[r] \in {"new", "checked", "unique", "matched"}
        PROVE  Goes(r, to)
    BY <1>0
  <1>1. CASE webRegAccountHandler(r)
    <2>1. PICK ok \in DbOk(r) : GoTo(r, "refused", ok) \/ GoTo(r, "checked", ok)
      BY <1>1 DEF webRegAccountHandler
    <2> QED
      BY <1>0, <1>1, <2>1, BeginsFacts DEF webRegAccountHandler
  <1>2. CASE dbInsertUserAccountInfo(r)
    <2>1. PICK ok \in DbOk(r) :
            /\ Continues(r, "checked") \/ Continues(r, "unique")
            /\ GoTo(r, "ok", ok) \/ GoTo(r, "unique", ok) \/ GoTo(r, "refused", ok)
      BY <1>2 DEF dbInsertUserAccountInfo
    <2> QED
      BY <1>0, <2>1, ContinuesFacts
  <1>3. CASE webModifyPasswordHandler(r)
    <2>1. PICK ok \in DbOk(r) :
            /\ Begins(r, "Modify") \/ Continues(r, "matched")
            /\ GoTo(r, "ok", ok) \/ GoTo(r, "matched", ok) \/ GoTo(r, "refused", ok)
      BY <1>3 DEF webModifyPasswordHandler
    <2> QED
      BY <1>0, <2>1, BeginsFacts, ContinuesFacts
  <1>4. CASE LsRegisterAccount(r)
    <2>1. PICK ok \in DbOk(r) : GoTo(r, "refused", ok) \/ GoTo(r, "checked", ok)
      BY <1>4 DEF LsRegisterAccount
    <2> QED
      BY <1>0, <1>4, <2>1, BeginsFacts DEF LsRegisterAccount
  <1>5. CASE LsModifyPassword(r)
    <2>1. PICK ok \in DbOk(r) : GoTo(r, "refused", ok) \/ GoTo(r, "ok", ok)
      BY <1>5 DEF LsModifyPassword
    <2> QED
      BY <1>0, <1>5, <2>1, BeginsFacts DEF LsModifyPassword
  <1> QED
    BY <1>1, <1>2, <1>3, <1>4, <1>5 DEF AccountsStep

\* A request that goes on to insert an administrator's row has found none, or
\* its look-up has failed.
Looked(r, to) ==
    to = "account" => ~IsAdmin(msg[r].account) \/ r \in faulted'

LEMMA AdminGoes ==
    ASSUME NEW r \in Requests,
           \/ dbAdminAccountVerify_exists(r)
           \/ dbGetAdminAccountInfo(r)
           \/ dbAdminAccountVerify_password(r)
           \/ NewAdminHandlerSession_read(r)
           \/ NewAdminHandlerSession_count(r)
           \/ NewAdminHandlerSession_store(r)
           \/ adminHandler(r, "AddAdmin", "exists")
           \/ adminHandler(r, "DelAdmin", "delete")
           \/ dbInsertAdminAccount_exists(r)
           \/ dbInsertAdminAccount_account(r)
           \/ dbInsertAdminAccount(r)
           \/ dbRemoveAdminAccount_exists(r)
           \/ dbRemoveAdminAccount(r)
    PROVE  \E to : Goes(r, to) /\ Looked(r, to)
  <1> USE DEF Steps, AccountSteps, Leads, Looked
  <1>t. TRUE \in DbOk(r)
    BY DEF DbOk
  <1>0. ASSUME NEW to, NEW ok \in DbOk(r), GoTo(r, to, ok), BeforeStep(r),
               Leads(pc[r], to), Looked(r, to)
        PROVE  \E x : Goes(r, x) /\ Looked(r, x)
    BY <1>0, Zenon DEF Goes
  <1>1. CASE dbAdminAccountVerify_exists(r)
    <2>1. PICK ok \in DbOk(r) : GoTo(r, "level", ok) \/ GoTo(r, "refused", ok)
      BY <1>1 DEF dbAdminAccountVerify_exists
    <2> QED
      BY <1>0, <1>1, <2>1, BeginsFacts DEF dbAdminAccountVerify_exists
  <1>2. CASE dbGetAdminAccountInfo(r)
    <2>1. PICK ok \in DbOk(r) : GoTo(r, "password", ok) \/ GoTo(r, "refused", ok)
      BY <1>2 DEF dbGetAdminAccountInfo
    <2> QED
      BY <1>0, <1>2, <2>1, ContinuesFacts DEF dbGetAdminAccountInfo
  <1>3. CASE dbAdminAccountVerify_password(r)
    <2>1. PICK ok \in DbOk(r) : GoTo(r, "session", ok) \/ GoTo(r, "refused", ok)
      BY <1>3 DEF dbAdminAccountVerify_password
    <2> QED
      BY <1>0, <1>3, <2>1, ContinuesFacts DEF dbAdminAccountVerify_password
  <1>4. CASE NewAdminHandlerSession_read(r)
    <2>1. GoTo(r, "counting", TRUE) /\ Continues(r, "session")
      BY <1>4 DEF NewAdminHandlerSession_read
    <2>2. pc[r] = "session" /\ BeforeStep(r)
      BY <2>1, ContinuesFacts
    <2> QED
      BY <1>t, <1>0, <2>1, <2>2
  <1>5. CASE NewAdminHandlerSession_count(r)
    <2>1. GoTo(r, "storing", TRUE) /\ Continues(r, "counting")
      BY <1>5 DEF NewAdminHandlerSession_count
    <2>2. pc[r] = "counting" /\ BeforeStep(r)
      BY <2>1, ContinuesFacts
    <2> QED
      BY <1>t, <1>0, <2>1, <2>2
  <1>6. CASE NewAdminHandlerSession_store(r)
    <2>1. GoTo(r, "ok", TRUE) /\ Continues(r, "storing")
      BY <1>6 DEF NewAdminHandlerSession_store
    <2>2. pc[r] = "storing" /\ BeforeStep(r)
      BY <2>1, ContinuesFacts
    <2> QED
      BY <1>t, <1>0, <2>1, <2>2
  <1>7. CASE adminHandler(r, "AddAdmin", "exists")
    <2>1. GoTo(r, "exists", TRUE) \/ GoTo(r, "refused", TRUE)
      BY <1>7 DEF adminHandler
    <2> QED
      BY <1>t, <1>0, <1>7, <2>1, BeginsFacts DEF adminHandler
  <1>8. CASE adminHandler(r, "DelAdmin", "delete")
    <2>1. GoTo(r, "delete", TRUE) \/ GoTo(r, "refused", TRUE)
      BY <1>8 DEF adminHandler
    <2> QED
      BY <1>t, <1>0, <1>8, <2>1, BeginsFacts DEF adminHandler
  <1>9. CASE dbInsertAdminAccount_exists(r)
    <2>1. PICK ok \in DbOk(r) :
            \/ GoTo(r, "ok", ok)
            \/ GoTo(r, "account", ok) /\ (~IsAdmin(msg[r].account) \/ ~ok)
      BY <1>9 DEF dbInsertAdminAccount_exists, dbAdminAccountExists
    <2>2. GoTo(r, "account", ok) /\ ~ok => r \in faulted'
      BY DEF GoTo
    <2> QED
      BY <1>0, <1>9, <2>1, <2>2, ContinuesFacts DEF dbInsertAdminAccount_exists
  <1>10. CASE dbInsertAdminAccount_account(r)
    <2>1. PICK ok \in DbOk(r) : GoTo(r, "insert", ok) \/ GoTo(r, "refused", ok)
      BY <1>10 DEF dbInsertAdminAccount_account
    <2> QED
      BY <1>0, <1>10, <2>1, ContinuesFacts DEF dbInsertAdminAccount_account
  <1>11. CASE dbInsertAdminAccount(r)
    <2>1. PICK ok \in DbOk(r) : GoTo(r, "ok", ok) \/ GoTo(r, "refused", ok)
      BY <1>11 DEF dbInsertAdminAccount
    <2> QED
      BY <1>0, <1>11, <2>1, ContinuesFacts DEF dbInsertAdminAccount
  <1>12. CASE dbRemoveAdminAccount_exists(r)
    <2>1. PICK ok \in DbOk(r) : GoTo(r, "remove", ok) \/ GoTo(r, "ok", ok)
      BY <1>12 DEF dbRemoveAdminAccount_exists
    <2> QED
      BY <1>0, <1>12, <2>1, ContinuesFacts DEF dbRemoveAdminAccount_exists
  <1>13. CASE dbRemoveAdminAccount(r)
    <2>1. PICK ok \in DbOk(r) : GoTo(r, "ok", ok) \/ GoTo(r, "refused", ok)
      BY <1>13 DEF dbRemoveAdminAccount
    <2> QED
      BY <1>0, <1>13, <2>1, ContinuesFacts DEF dbRemoveAdminAccount
  <1> QED
    BY <1>1, <1>2, <1>3, <1>4, <1>5, <1>6, <1>7, <1>8, <1>9, <1>10, <1>11, <1>12,
       <1>13

LEMMA GoesFacts ==
    ASSUME AccountTypes, NEW r \in Requests, NEW to, Goes(r, to)
    PROVE  /\ pc'[r] = to
           /\ \A q \in Requests \ {r} : pc'[q] = pc[q]
           /\ UNCHANGED <<msg, mayFail>>
           /\ faulted' = faulted \/ (r \in mayFail /\ faulted' = faulted \union {r})
           /\ \A q \in Requests : pc[q] # "new" => before'[q] = before[q]
  <1>1. PICK ok \in DbOk(r) : GoTo(r, to, ok)
    BY DEF Goes
  <1>2. to \in Steps /\ BeforeStep(r)
    BY DEF Goes, Leads
  <1>3. \A q \in Requests : pc[q] # "new" => before'[q] = before[q]
    BY <1>2 DEF BeforeStep, AccountTypes
  <1>4. faulted' = faulted \/ (r \in mayFail /\ faulted' = faulted \union {r})
    BY <1>1 DEF GoTo, DbOk
  <1> QED
    BY <1>1, <1>2, <1>3, <1>4, GoToFacts DEF GoTo

-----------------------------------------------------------------------------
(* The rows of admin_account *)

AdminsTyped ==
    /\ admin_account \subseteq AdminRow
    /\ \A x, y \in admin_account : x.id = y.id => x = y
    /\ \E n \in Nat : \A x \in admin_account : x.id <= n

\* A request that inserted a row was told so.
RowMakers == \A x \in admin_account : x.by = None \/ pc[x.by] = "ok"

\* Whoever made the account an administrator since the request looked had not
\* finished when the request began, unless its look-up failed.
FreshWhenAdding ==
    \A r \in Requests : pc[r] \in {"account", "insert"} /\ r \notin faulted =>
        \A x \in admin_account :
            x.account = msg[r].account => x.by \notin before[r]

AdminsInv == AdminsTyped /\ RowMakers /\ FreshWhenAdding /\ AdminOnce

\* The id of a new row is greater than those of the others.
LEMMA NextIdFacts ==
    ASSUME AdminsTyped
    PROVE  /\ NextId(admin_account) \in Nat \ {0}
           /\ \A x \in admin_account : x.id < NextId(admin_account)
  <1> DEFINE Ids == {0} \union {row.id : row \in admin_account}
  <1>1. PICK n \in Nat : \A x \in admin_account : x.id <= n
    BY DEF AdminsTyped
  <1>2. \A x \in admin_account : x.id \in Nat /\ x.id \in Ids
    BY DEF AdminsTyped, AdminRow
  <1>3. Ids \subseteq Nat /\ Ids # {} /\ \A i \in Ids : i <= n
    BY <1>1, <1>2
  <1>4. NextId(admin_account) = 1 + Max(Ids)
    BY DEF NextId
  <1> HIDE DEF Ids
  <1>5. Max(Ids) \in Nat /\ \A i \in Ids : i <= Max(Ids)
    BY <1>3, GreatestExists
  <1>6. \A x \in admin_account : x.id <= Max(Ids)
    BY <1>2, <1>5
  <1> QED
    BY <1>2, <1>4, <1>5, <1>6

\* Steps that insert no row.
LEMMA NoRowInserted ==
    ASSUME AccountInv, AdminsInv, NEW r \in Requests, NEW to, Goes(r, to),
           Looked(r, to), admin_account' \subseteq admin_account
    PROVE  AdminsInv'
  <1> USE DEF AdminsInv
  <1>1. /\ pc'[r] = to
        /\ \A q \in Requests \ {r} : pc'[q] = pc[q]
        /\ UNCHANGED msg
        /\ \A q \in Requests : pc[q] # "new" => before'[q] = before[q]
        /\ faulted \subseteq faulted'
    BY GoesFacts DEF AccountInv
  <1>2. /\ pc[r] \notin {"ok", "refused"}
        /\ to = "account" => pc[r] = "exists"
        /\ to = "insert" => pc[r] = "account"
    BY DEF Goes, Leads
  <1>3. \A x \in admin_account : x.by \in Requests \union {None}
    BY DEF AdminsTyped, AdminRow
  <1>4. AdminsTyped'
    BY DEF AdminsTyped
  <1>5. RowMakers'
    BY <1>1, <1>2, <1>3 DEF RowMakers
  <1>6. FreshWhenAdding'
    <2> SUFFICES ASSUME NEW q \in Requests, pc'[q] \in {"account", "insert"},
                        q \notin faulted',
                        NEW x \in admin_account, x.account = msg[q].account
                 PROVE  x.by \notin before'[q]
      BY <1>1 DEF FreshWhenAdding
    <2>1. pc[q] \in {"account", "insert"}
      BY <1>1, <1>2 DEF Looked, IsAdmin, AdminRowsOf
    <2> QED
      BY <1>1, <2>1 DEF FreshWhenAdding
  <1>7. AdminOnce'
    <2> SUFFICES ASSUME NEW x \in admin_account, NEW y \in admin_account,
                        x.account = y.account, x.id < y.id, y.by # None
                 PROVE  x.by \notin before'[y.by] \/ y.by \in faulted'
      BY DEF AdminOnce
    <2>1. y.by \in Requests /\ pc[y.by] = "ok"
      BY <1>3 DEF RowMakers
    <2> QED
      BY <1>1, <2>1 DEF AdminOnce
  <1> QED
    BY <1>4, <1>5, <1>6, <1>7

LEMMA RowInserted ==
    ASSUME AccountInv, AdminsInv, NEW r \in Requests, dbInsertAdminAccount(r)
    PROVE  AdminsInv'
  <1> USE DEF AdminsInv
  <1> DEFINE n == [id |-> NextId(admin_account), account |-> msg[r].account,
                   level |-> msg[r].level, by |-> r]
  <1>0. PICK to : Goes(r, to) /\ Looked(r, to)
    BY AdminGoes
  <1>1. CASE admin_account' = admin_account
    BY <1>0, <1>1, NoRowInserted
  <1>2. CASE admin_account' = admin_account \union {n} /\ GoTo(r, "ok", TRUE)
    <2>1. /\ pc'[r] = to
          /\ \A q \in Requests \ {r} : pc'[q] = pc[q]
          /\ UNCHANGED msg
          /\ \A q \in Requests : pc[q] # "new" => before'[q] = before[q]
          /\ faulted \subseteq faulted'
      BY <1>0, GoesFacts DEF AccountInv
    <2>2. pc[r] = "insert"
      BY ContinuesFacts DEF dbInsertAdminAccount
    <2>3. pc'[r] = "ok"
      BY <1>2, GoToFacts DEF AccountInv, Steps, AccountSteps
    <2>4. /\ NextId(admin_account) \in Nat \ {0}
          /\ \A x \in admin_account : x.id < NextId(admin_account)
      BY NextIdFacts
    <2>5. /\ msg[r].account \in Names
          /\ msg[r].level \in Levels
      <3>1. msg[r].kind = "AddAdmin"
        BY <2>2 DEF AccountInv, KindsKept, KindAt
      <3>2. msg[r] \in Msgs
        BY DEF AccountInv, AccountTypes
      <3> QED
        BY <3>1, <3>2 DEF Msgs, WebMsg, RsMsg, AdminMsg
    <2>6. /\ n \in AdminRow
          /\ n.id = NextId(admin_account) /\ n.account = msg[r].account
          /\ n.by = r
      BY <2>4, <2>5 DEF AdminRow
    <2> HIDE DEF n
    <2>7. \A x \in admin_account : /\ x.id \in Nat /\ x.id < n.id
                                   /\ x.by \in Requests \union {None}
      BY <2>4, <2>6 DEF AdminsTyped, AdminRow
    <2>8. r # None /\ n.id \in Nat
      BY <2>4, <2>6, AccountsAssumption DEF AccountsAssumption
    <2>9. \A q \in Requests : r \notin before[q]
      BY <2>2, <2>8 DEF AccountInv, BeforeAnswered, Answered
    <2>10. AdminsTyped'
      <3>1. admin_account' \subseteq AdminRow
        BY <1>2, <2>6 DEF AdminsTyped
      <3>2. \A x, y \in admin_account' : x.id = y.id => x = y
        BY <1>2, <2>7, <2>8 DEF AdminsTyped
      <3>3. \A x \in admin_account' : x.id <= n.id
        BY <1>2, <2>7, <2>8
      <3> QED
        BY <2>8, <3>1, <3>2, <3>3 DEF AdminsTyped
    <2>11. RowMakers'
      BY <1>2, <2>1, <2>3, <2>6, <2>7 DEF RowMakers
    <2>12. FreshWhenAdding'
      <3> SUFFICES ASSUME NEW q \in Requests, pc'[q] \in {"account", "insert"},
                          q \notin faulted',
                          NEW x \in admin_account', x.account = msg[q].account
                   PROVE  x.by \notin before'[q]
        BY <2>1 DEF FreshWhenAdding
      <3>1. q # r /\ pc[q] \in {"account", "insert"} /\ q \notin faulted
        BY <2>1, <2>3
      <3>2. before'[q] = before[q]
        BY <2>1, <3>1
      <3>3. CASE x \in admin_account
        BY <3>1, <3>2, <3>3 DEF FreshWhenAdding
      <3>4. CASE x = n
        BY <2>6, <2>9, <3>2, <3>4
      <3> QED
        BY <1>2, <3>3, <3>4
    <2>13. AdminOnce'
      <3> SUFFICES ASSUME NEW x \in admin_account', NEW y \in admin_account',
                          x.account = y.account, x.id < y.id, y.by # None
                   PROVE  x.by \notin before'[y.by] \/ y.by \in faulted'
        BY DEF AdminOnce
      <3>1. x \in admin_account
        BY <1>2, <2>7, <2>8
      <3>2. CASE y \in admin_account
        <4>1. y.by \in Requests /\ pc[y.by] = "ok"
          BY <2>7, <3>2 DEF RowMakers
        <4> QED
          BY <2>1, <3>1, <3>2, <4>1 DEF AdminOnce
      <3>3. CASE y = n
        BY <2>1, <2>2, <2>6, <3>1, <3>3 DEF FreshWhenAdding
      <3> QED
        BY <1>2, <3>2, <3>3
    <2> QED
      BY <2>10, <2>11, <2>12, <2>13
  <1> QED
    BY <1>1, <1>2 DEF dbInsertAdminAccount

\* Neither a restart nor time nor a stuttering step insert a row.
LEMMA NobodyMoves ==
    ASSUME AccountInv, AdminsInv,
           UNCHANGED <<admin_account, msg, before, faulted>>,
           \A q \in Requests : pc'[q] = pc[q] \/ (pc'[q] = "lost" /\ pc[q] # "ok")
    PROVE  AdminsInv'
  <1> USE DEF AdminsInv
  <1>1. \A x \in admin_account : x.by \in Requests \union {None}
    BY DEF AdminsTyped, AdminRow
  <1>2. AdminsTyped' /\ AdminOnce'
    BY DEF AdminsTyped, AdminOnce
  <1>3. RowMakers'
    BY <1>1 DEF RowMakers
  <1>4. FreshWhenAdding'
    BY DEF FreshWhenAdding
  <1> QED
    BY <1>2, <1>3, <1>4

LEMMA InitAdminsInv ==
    ASSUME Init
    PROVE  AdminsInv
  <1>1. admin_account = {[id |-> i, account |-> EarlyAdmins[i].account,
                          level |-> EarlyAdmins[i].level, by |-> None] :
                            i \in DOMAIN EarlyAdmins}
    BY DEF Init
  <1>2. /\ DOMAIN EarlyAdmins = 1..Len(EarlyAdmins)
        /\ Len(EarlyAdmins) \in Nat
        /\ \A i \in DOMAIN EarlyAdmins :
              /\ EarlyAdmins[i].account \in Names
              /\ EarlyAdmins[i].level \in Levels
    <2>1. EarlyAdmins \in Seq([account : Names, level : Levels])
      BY AdminAssumption DEF AdminAssumption
    <2>2. /\ DOMAIN EarlyAdmins = 1..Len(EarlyAdmins)
          /\ Len(EarlyAdmins) \in Nat
      BY <2>1
    <2>3. ASSUME NEW S, NEW s \in Seq(S), NEW i \in 1..Len(s)
          PROVE  s[i] \in S
      OBVIOUS
    <2>4. \A i \in 1..Len(EarlyAdmins) :
             EarlyAdmins[i] \in [account : Names, level : Levels]
      BY <2>1, <2>3
    <2> QED
      BY <2>2, <2>4
  <1>3. \A x \in admin_account :
           /\ x \in AdminRow
           /\ x.by = None
           /\ x.id <= Len(EarlyAdmins)
    BY <1>1, <1>2 DEF AdminRow
  <1>4. \A x, y \in admin_account : x.id = y.id => x = y
    BY <1>1
  <1>5. \A r \in Requests : pc[r] = "new"
    BY DEF Init, AccountsInit
  <1>6. AdminsTyped /\ RowMakers /\ AdminOnce
    BY <1>2, <1>3, <1>4 DEF AdminsTyped, RowMakers, AdminOnce
  <1>7. FreshWhenAdding
    BY <1>5 DEF FreshWhenAdding
  <1> QED
    BY <1>6, <1>7 DEF AdminsInv

LEMMA NextAdminsInv ==
    ASSUME AccountInv, AdminsInv, [Next]_vars
    PROVE  AdminsInv'
  <1>1. ASSUME NEW r \in Requests, AccountsStep(r), UNCHANGED adminVars
        PROVE  AdminsInv'
    <2>1. PICK to \in AccountSteps : Goes(r, to)
      BY <1>1, AccountsGoes
    <2>2. Looked(r, to)
      BY DEF AccountSteps, Looked
    <2> QED
      BY <1>1, <2>1, <2>2, NoRowInserted DEF adminVars
  <1>2. ASSUME NEW r \in Requests,
               \/ dbAdminAccountVerify_exists(r)
               \/ dbGetAdminAccountInfo(r)
               \/ dbAdminAccountVerify_password(r)
               \/ NewAdminHandlerSession_read(r)
               \/ NewAdminHandlerSession_count(r)
               \/ NewAdminHandlerSession_store(r)
               \/ adminHandler(r, "AddAdmin", "exists")
               \/ adminHandler(r, "DelAdmin", "delete")
               \/ dbInsertAdminAccount_exists(r)
               \/ dbInsertAdminAccount_account(r)
               \/ dbRemoveAdminAccount_exists(r)
               \/ dbRemoveAdminAccount(r)
        PROVE  AdminsInv'
    <2>1. PICK to : Goes(r, to) /\ Looked(r, to)
      BY <1>2, AdminGoes
    <2>2. admin_account' \subseteq admin_account
      BY <1>2
      DEF adminVars, dbAdminAccountVerify_exists, dbGetAdminAccountInfo,
          dbAdminAccountVerify_password, NewAdminHandlerSession_read,
          NewAdminHandlerSession_count, NewAdminHandlerSession_store,
          adminHandler, dbInsertAdminAccount_exists,
          dbInsertAdminAccount_account, dbRemoveAdminAccount_exists,
          dbRemoveAdminAccount
    <2> QED
      BY <2>1, <2>2, NoRowInserted
  <1>3. CASE Tick
    BY <1>3, NobodyMoves DEF Tick, accountVars
  <1>4. CASE Restart
    <2>1. \A q \in Requests : pc'[q] = pc[q] \/ (pc'[q] = "lost" /\ pc[q] # "ok")
      BY <1>4 DEF Restart, LoseRequests, Answered
    <2> QED
      BY <1>4, <2>1, NobodyMoves DEF Restart, LoseRequests
  <1>5. CASE UNCHANGED vars
    BY <1>5, NobodyMoves DEF vars, accountVars, adminVars
  <1> QED
    BY <1>1, <1>2, <1>3, <1>4, <1>5, RowInserted DEF Next

LEMMA AlwaysAdminsInv == Spec => []AdminsInv
  <1>1. AccountInv /\ AdminsInv /\ [Next]_vars => AdminsInv'
    BY NextAdminsInv
  <1> QED
    BY AlwaysAccountInv, InitAdminsInv, <1>1, PTL DEF Spec

\* An account has two rows in admin_account only when the requests that inserted
\* them overlapped or the look-up of the later one failed, although no constraint of the table and no transaction
\* of dbInsertAdminAccount prevents it.
THEOREM AdminsMadeOnce == Spec => []AdminOnce
  <1>1. AdminsInv => AdminOnce
    BY DEF AdminsInv
  <1> QED
    BY AlwaysAdminsInv, <1>1, PTL

-----------------------------------------------------------------------------
(* The counter of NewAdminHandlerSession *)

At(step) == {r \in Requests : pc[r] = step}

\* Verifications that have read the counter and not written it, and those that
\* have and not stored their session.
Readers == Cardinality(At("counting"))
Writers == Cardinality(At("storing"))

CounterTypes ==
    /\ operateTimes \in Nat
    /\ sinceCleanup \in Nat
    /\ overlaps \in Nat
    /\ \A r \in Requests : verification[r].times \in Nat
    /\ IsFiniteSet(At("counting"))
    /\ IsFiniteSet(At("storing"))

\* The sessions since the last removal, with those about to come, are counted
\* but for one for each overlap, and one that is being counted.
Counted ==
    sinceCleanup + Writers + Readers
      <= operateTimes + overlaps + (IF Readers = 0 THEN 0 ELSE 1)

\* So they are in what each reader is about to write.
CountedByReaders ==
    \A r \in At("counting") :
        sinceCleanup + Writers + Readers <= verification[r].times + 1 + overlaps

OverlapsNoted == Readers + Writers <= overlaps + 1

CounterInv ==
    /\ CounterTypes
    /\ Counted
    /\ CountedByReaders
    /\ OverlapsNoted
    /\ CleanupRegular

LEMMA NumbersOf ==
    ASSUME CounterTypes
    PROVE  /\ Readers \in Nat /\ Writers \in Nat
           /\ Readers = 0 <=> \A q \in Requests : pc[q] # "counting"
           /\ Writers = 0 <=> \A q \in Requests : pc[q] # "storing"
           /\ IsFiniteSet(InTheMaking)
           /\ Cardinality(InTheMaking) = Readers + Writers
  <1>1. IsFiniteSet(At("counting")) /\ IsFiniteSet(At("storing"))
    BY DEF CounterTypes
  <1>2. Readers \in Nat /\ Writers \in Nat
    BY <1>1, FS_CardinalityType DEF Readers, Writers
  <1>3. /\ Readers = 0 <=> At("counting") = {}
        /\ Writers = 0 <=> At("storing") = {}
    BY <1>1, FS_EmptySet DEF Readers, Writers
  <1>4. /\ InTheMaking = At("counting") \union At("storing")
        /\ At("counting") \intersect At("storing") = {}
    BY DEF InTheMaking, At
  <1>5. /\ IsFiniteSet(InTheMaking)
        /\ Cardinality(InTheMaking) = Readers + Writers
    <2>1. /\ IsFiniteSet(At("counting") \union At("storing"))
          /\ Cardinality(At("counting") \union At("storing")) =
               Cardinality(At("counting")) + Cardinality(At("storing"))
               - Cardinality(At("counting") \intersect At("storing"))
      BY <1>1, FS_Union
    <2>2. Cardinality(At("counting") \intersect At("storing")) = 0
      BY <1>4, FS_EmptySet
    <2>3. Cardinality(At("counting") \union At("storing")) = Readers + Writers
      BY <1>2, <2>1, <2>2 DEF Readers, Writers
    <2> QED
      BY <1>4, <2>1, <2>3, Zenon
  <1> QED
    BY <1>2, <1>3, <1>5 DEF At

\* How the numbers change when a request takes a step.
LEMMA NumbersChange ==
    ASSUME AccountInv, CounterTypes, NEW r \in Requests, NEW to, Goes(r, to)
    PROVE  /\ IsFiniteSet(At("counting"))' /\ IsFiniteSet(At("storing"))'
           /\ pc[r] = "session" =>
                 Readers' = Readers + 1 /\ Writers' = Writers
           /\ pc[r] = "counting" =>
                 Readers' = Readers - 1 /\ Writers' = Writers + 1
           /\ pc[r] = "storing" =>
                 Readers' = Readers /\ Writers' = Writers - 1
           /\ pc[r] \notin {"session", "counting", "storing"} =>
                 Readers' = Readers /\ Writers' = Writers
  <1>1. pc'[r] = to /\ \A q \in Requests \ {r} : pc'[q] = pc[q]
    BY GoesFacts DEF AccountInv
  <1>2. /\ to = "counting" <=> pc[r] = "session"
        /\ to = "storing" <=> pc[r] = "counting"
        /\ pc[r] = "storing" => to = "ok"
    BY DEF Goes, Leads
  <1>3. IsFiniteSet(At("counting")) /\ IsFiniteSet(At("storing"))
    BY DEF CounterTypes
  <1>4. CASE pc[r] = "session"
    <2>1. At("counting")' = At("counting") \union {r} /\ r \notin At("counting")
          /\ At("storing")' = At("storing")
      BY <1>1, <1>2, <1>4 DEF At
    <2>2. IsFiniteSet(At("counting")')
          /\ Cardinality(At("counting")') = Cardinality(At("counting")) + 1
      BY <1>3, <2>1, FS_AddElement
    <2> QED
      BY <1>3, <1>4, <2>1, <2>2 DEF Readers, Writers
  <1>5. CASE pc[r] = "counting"
    <2>1. /\ At("counting")' = At("counting") \ {r} /\ r \in At("counting")
          /\ At("storing")' = At("storing") \union {r} /\ r \notin At("storing")
      BY <1>1, <1>2, <1>5 DEF At
    <2>2. IsFiniteSet(At("counting")')
          /\ Cardinality(At("counting")') = Cardinality(At("counting")) - 1
      BY <1>3, <2>1, FS_RemoveElement
    <2>3. IsFiniteSet(At("storing")')
          /\ Cardinality(At("storing")') = Cardinality(At("storing")) + 1
      BY <1>3, <2>1, FS_AddElement
    <2> QED
      BY <1>5, <2>2, <2>3 DEF Readers, Writers
  <1>6. CASE pc[r] = "storing"
    <2>1. /\ At("counting")' = At("counting")
          /\ At("storing")' = At("storing") \ {r} /\ r \in At("storing")
      BY <1>1, <1>2, <1>6 DEF At
    <2>2. IsFiniteSet(At("storing")')
          /\ Cardinality(At("storing")') = Cardinality(At("storing")) - 1
      BY <1>3, <2>1, FS_RemoveElement
    <2> QED
      BY <1>3, <1>6, <2>1, <2>2 DEF Readers, Writers
  <1>7. CASE pc[r] \notin {"session", "counting", "storing"}
    <2>1. At("counting")' = At("counting") /\ At("storing")' = At("storing")
      BY <1>1, <1>2, <1>7 DEF At
    <2> QED
      BY <1>3, <1>7, <2>1 DEF Readers, Writers
  <1> QED
    BY <1>4, <1>5, <1>6, <1>7

\* Steps that leave the counter alone.
LEMMA CounterLeft ==
    ASSUME CounterInv,
           UNCHANGED <<operateTimes, sinceCleanup, overlaps>>,
           \A q \in Requests : verification'[q].times = verification[q].times,
           At("counting")' = At("counting"), At("storing")' = At("storing")
    PROVE  CounterInv'
  <1> USE DEF CounterInv
  <1>1. Readers' = Readers /\ Writers' = Writers
    BY DEF Readers, Writers
  <1>2. CounterTypes'
    BY DEF CounterTypes
  <1>3. Counted' /\ OverlapsNoted' /\ CleanupRegular'
    BY <1>1 DEF Counted, OverlapsNoted, CleanupRegular
  <1>4. CountedByReaders'
    BY <1>1 DEF CountedByReaders, At
  <1> QED
    BY <1>2, <1>3, <1>4

LEMMA CounterRead ==
    ASSUME AccountInv, SessionInv, CounterInv, NEW r \in Requests,
           NewAdminHandlerSession_read(r)
    PROVE  CounterInv'
  <1> USE DEF CounterInv
  <1>1. PICK to : Goes(r, to)
    BY AdminGoes
  <1>2. /\ Continues(r, "session")
        /\ verification' = [verification EXCEPT ![r].VerifyTime = now,
                                                ![r].times = operateTimes]
        /\ overlaps' = IF InTheMaking # {} THEN overlaps + 1 ELSE overlaps
        /\ UNCHANGED <<operateTimes, sinceCleanup>>
    BY DEF NewAdminHandlerSession_read
  <1>3. pc[r] = "session"
    BY <1>2, ContinuesFacts
  <1>4. /\ verification'[r].times = operateTimes
        /\ \A q \in Requests \ {r} : verification'[q] = verification[q]
    BY <1>2 DEF SessionInv, SessionTypes
  <1>5. /\ Readers' = Readers + 1 /\ Writers' = Writers
        /\ IsFiniteSet(At("counting"))' /\ IsFiniteSet(At("storing"))'
    BY <1>1, <1>3, NumbersChange
  <1>6. /\ Readers \in Nat /\ Writers \in Nat
        /\ operateTimes \in Nat /\ sinceCleanup \in Nat /\ overlaps \in Nat
        /\ Readers = 0 /\ Writers = 0 => overlaps' = overlaps
        /\ ~(Readers = 0 /\ Writers = 0) => overlaps' = overlaps + 1
    BY <1>2, NumbersOf DEF CounterTypes, InTheMaking
  <1>7. At("counting")' \subseteq At("counting") \union {r}
    BY <1>1, GoesFacts DEF At, AccountInv
  <1>8. CounterTypes'
    <2>1. overlaps' \in Nat /\ UNCHANGED <<operateTimes, sinceCleanup>>
      BY <1>2, <1>6
    <2>2. \A q \in Requests : verification'[q].times \in Nat
      BY <1>4, <1>6 DEF CounterTypes
    <2> QED
      BY <1>5, <1>6, <2>1, <2>2 DEF CounterTypes
  <1>9. sinceCleanup + Writers + Readers + 1 <= operateTimes + 1 + overlaps'
    BY <1>6 DEF Counted
  <1>10. Counted'
    BY <1>2, <1>5, <1>6, <1>9 DEF Counted
  <1>11. CountedByReaders'
    <2> SUFFICES ASSUME NEW q \in At("counting")'
                 PROVE  sinceCleanup' + Writers' + Readers'
                          <= verification'[q].times + 1 + overlaps'
      BY DEF CountedByReaders
    <2>1. CASE q = r
      BY <1>2, <1>4, <1>5, <1>6, <1>9, <2>1
    <2>2. CASE q # r
      <3>1. q \in At("counting") /\ verification'[q] = verification[q]
            /\ verification[q].times \in Nat
        BY <1>4, <1>7, <2>2 DEF At, CounterTypes
      <3>2. Readers # 0
        BY <3>1, NumbersOf DEF At
      <3>3. sinceCleanup + Writers + Readers
              <= verification[q].times + 1 + overlaps
        BY <3>1 DEF CountedByReaders
      <3>4. overlaps' = overlaps + 1 /\ sinceCleanup' = sinceCleanup
        BY <1>2, <1>6, <3>2
      <3> QED
        BY <1>5, <1>6, <3>1, <3>3, <3>4
    <2> QED
      BY <2>1, <2>2
  <1>12. OverlapsNoted'
    BY <1>5, <1>6 DEF OverlapsNoted
  <1>13. CleanupRegular'
    BY <1>2, <1>6, AdminAssumption DEF CleanupRegular, AdminAssumption
  <1> QED
    BY <1>8, <1>10, <1>11, <1>12, <1>13

LEMMA CounterWritten ==
    ASSUME AccountInv, CounterInv, NEW r \in Requests,
           NewAdminHandlerSession_count(r)
    PROVE  CounterInv'
  <1> USE DEF CounterInv
  <1>1. PICK to : Goes(r, to)
    BY AdminGoes
  <1>2. /\ Continues(r, "counting")
        /\ operateTimes' = verification[r].times + 1
        /\ UNCHANGED <<verification, sinceCleanup, overlaps>>
    BY DEF NewAdminHandlerSession_count
  <1>3. pc[r] = "counting"
    BY <1>2, ContinuesFacts
  <1>4. /\ Readers' = Readers - 1 /\ Writers' = Writers + 1
        /\ IsFiniteSet(At("counting"))' /\ IsFiniteSet(At("storing"))'
    BY <1>1, <1>3, NumbersChange
  <1>5. /\ Readers \in Nat /\ Writers \in Nat /\ verification[r].times \in Nat
        /\ operateTimes \in Nat /\ sinceCleanup \in Nat /\ overlaps \in Nat
        /\ Readers # 0
    BY <1>3, NumbersOf DEF CounterTypes
  <1>6. At("counting")' \subseteq At("counting")
    <2>1. to # "counting"
      BY <1>1, <1>3 DEF Goes, Leads
    <2> QED
      BY <1>1, <2>1, GoesFacts DEF At, AccountInv
  <1>7. CounterTypes'
    BY <1>2, <1>4, <1>5 DEF CounterTypes
  <1>8. sinceCleanup + Writers + Readers <= verification[r].times + 1 + overlaps
    BY <1>3 DEF CountedByReaders, At
  <1>9. Counted'
    BY <1>2, <1>4, <1>5, <1>8 DEF Counted
  <1>10. sinceCleanup' + Writers' + Readers' = sinceCleanup + Writers + Readers
    BY <1>2, <1>4, <1>5
  <1>11. CountedByReaders'
    BY <1>2, <1>6, <1>10 DEF CountedByReaders
  <1>12. OverlapsNoted' /\ CleanupRegular'
    BY <1>2, <1>4, <1>5 DEF OverlapsNoted, CleanupRegular
  <1> QED
    BY <1>7, <1>9, <1>11, <1>12

LEMMA CounterReset ==
    ASSUME AccountInv, SessionInv, CounterInv, NEW r \in Requests,
           NewAdminHandlerSession_store(r)
    PROVE  CounterInv'
  <1> USE DEF CounterInv
  <1>1. PICK to : Goes(r, to)
    BY AdminGoes
  <1>2. /\ Continues(r, "storing")
        /\ \/ /\ operateTimes' = 0 /\ sinceCleanup' = 0
              /\ overlaps' = Cardinality(InTheMaking \ {r})
           \/ /\ ~(operateTimes > OperateLimit)
              /\ sinceCleanup' = sinceCleanup + 1
              /\ UNCHANGED <<operateTimes, overlaps>>
        /\ verification' = [verification EXCEPT ![r] = NotRead]
    BY DEF NewAdminHandlerSession_store, CleanupDue
  <1>3. pc[r] = "storing"
    BY <1>2, ContinuesFacts
  <1>4. \A q \in Requests : verification'[q].times \in Nat
                            /\ (q # r => verification'[q] = verification[q])
    BY <1>2 DEF SessionInv, SessionTypes, NotRead, CounterTypes
  <1>5. /\ Readers' = Readers /\ Writers' = Writers - 1
        /\ IsFiniteSet(At("counting"))' /\ IsFiniteSet(At("storing"))'
    BY <1>1, <1>3, NumbersChange
  <1>6. /\ Readers \in Nat /\ Writers \in Nat
        /\ operateTimes \in Nat /\ sinceCleanup \in Nat /\ overlaps \in Nat
        /\ OperateLimit \in Nat /\ Writers # 0
    BY <1>3, NumbersOf, AdminAssumption DEF CounterTypes, AdminAssumption
  <1>7. \A q \in At("counting")' :
           q \in At("counting") /\ q # r /\ verification[q].times \in Nat
    <2>1. to = "ok"
      BY <1>1, <1>3 DEF Goes, Leads
    <2> QED
      BY <1>1, <2>1, GoesFacts DEF At, AccountInv, CounterTypes
  <1>8. Cardinality(InTheMaking \ {r}) = Readers + Writers - 1
    <2>1. r \in InTheMaking
      BY <1>3 DEF InTheMaking
    <2>2. IsFiniteSet(InTheMaking) /\ Cardinality(InTheMaking) = Readers + Writers
      BY NumbersOf
    <2>3. Cardinality(InTheMaking \ {r}) = Cardinality(InTheMaking) - 1
      BY <2>1, <2>2, FS_RemoveElement, Zenon
    <2> QED
      BY <1>6, <2>2, <2>3
  <1>9. \/ /\ operateTimes' = 0 /\ sinceCleanup' = 0
           /\ overlaps' = Readers + Writers - 1
        \/ /\ operateTimes <= OperateLimit
           /\ sinceCleanup' = sinceCleanup + 1
           /\ operateTimes' = operateTimes /\ overlaps' = overlaps
    BY <1>2, <1>6, <1>8
  <1>10. CounterTypes'
    <2>1. operateTimes' \in Nat /\ sinceCleanup' \in Nat /\ overlaps' \in Nat
      BY <1>6, <1>9
    <2> QED
      BY <1>4, <1>5, <2>1 DEF CounterTypes
  <1>11. Counted'
    BY <1>5, <1>6, <1>9 DEF Counted
  <1>12. CountedByReaders'
    <2> SUFFICES ASSUME NEW q \in At("counting")'
                 PROVE  sinceCleanup' + Writers' + Readers'
                          <= verification'[q].times + 1 + overlaps'
      BY DEF CountedByReaders
    <2>1. /\ verification'[q] = verification[q] /\ verification[q].times \in Nat
          /\ sinceCleanup + Writers + Readers
               <= verification[q].times + 1 + overlaps
      BY <1>4, <1>7 DEF CountedByReaders, At
    <2> QED
      BY <1>5, <1>6, <1>9, <2>1
  <1>13. OverlapsNoted'
    BY <1>5, <1>6, <1>9 DEF OverlapsNoted
  <1>14. CleanupRegular'
    BY <1>6, <1>9 DEF CleanupRegular, Counted
  <1> QED
    BY <1>10, <1>11, <1>12, <1>13, <1>14

\* Steps of requests that are not about to make a session.
LEMMA CounterQuiet ==
    ASSUME AccountInv, SessionInv, CounterInv, NEW r \in Requests,
           \/ AccountsStep(r) /\ UNCHANGED adminVars
           \/ dbAdminAccountVerify_exists(r)
           \/ dbGetAdminAccountInfo(r)
           \/ dbAdminAccountVerify_password(r)
           \/ adminHandler(r, "AddAdmin", "exists")
           \/ adminHandler(r, "DelAdmin", "delete")
           \/ dbInsertAdminAccount_exists(r)
           \/ dbInsertAdminAccount_account(r)
           \/ dbInsertAdminAccount(r)
           \/ dbRemoveAdminAccount_exists(r)
           \/ dbRemoveAdminAccount(r)
    PROVE  CounterInv'
  <1>1. PICK to : Goes(r, to)
    BY AdminGoes, AccountsGoes
  <1>2. pc[r] \notin {"session", "counting", "storing"}
    <2>1. CASE AccountsStep(r)
      BY <2>1, AccountsStepGoes
    <2>2. CASE ~AccountsStep(r)
      BY <2>2
      DEF Begins, Continues, dbAdminAccountVerify_exists, dbGetAdminAccountInfo,
          dbAdminAccountVerify_password, adminHandler,
          dbInsertAdminAccount_exists, dbInsertAdminAccount_account,
          dbInsertAdminAccount, dbRemoveAdminAccount_exists, dbRemoveAdminAccount
    <2> QED
      BY <2>1, <2>2
  <1>3. At("counting")' = At("counting") /\ At("storing")' = At("storing")
    BY <1>1, <1>2, GoesFacts DEF At, Goes, Leads, AccountInv
  <1>4. /\ UNCHANGED <<operateTimes, sinceCleanup, overlaps>>
        /\ \/ UNCHANGED verification
           \/ verification' = [verification EXCEPT
                 ![r].level = LevelOf(msg[r].account), ![r].readAt = now]
    BY DEF adminVars, dbAdminAccountVerify_exists, dbGetAdminAccountInfo,
           dbAdminAccountVerify_password, adminHandler,
           dbInsertAdminAccount_exists, dbInsertAdminAccount_account,
           dbInsertAdminAccount, dbRemoveAdminAccount_exists, dbRemoveAdminAccount
  <1>5. \A q \in Requests : verification'[q].times = verification[q].times
    BY <1>4 DEF SessionInv, SessionTypes
  <1> QED
    BY <1>3, <1>4, <1>5, CounterLeft

LEMMA CounterRestart ==
    ASSUME CounterInv, Restart
    PROVE  CounterInv'
  <1> USE DEF CounterInv
  <1>1. /\ operateTimes' = 0 /\ sinceCleanup' = 0 /\ overlaps' = 0
        /\ verification' = [q \in Requests |-> NotRead]
        /\ \A q \in Requests : pc'[q] \notin {"counting", "storing"}
    BY DEF Restart, LoseRequests, Answered
  <1>2. At("counting")' = {} /\ At("storing")' = {}
    BY <1>1 DEF At
  <1>3. /\ IsFiniteSet(At("counting")') /\ IsFiniteSet(At("storing")')
        /\ Cardinality(At("counting")') = 0 /\ Cardinality(At("storing")') = 0
    BY <1>2, FS_EmptySet
  <1>4. Readers' = 0 /\ Writers' = 0 /\ OperateLimit \in Nat
    BY <1>3, AdminAssumption DEF Readers, Writers, AdminAssumption
  <1>5. CounterTypes'
    BY <1>1, <1>3 DEF CounterTypes, NotRead
  <1>6. Counted' /\ OverlapsNoted' /\ CleanupRegular'
    BY <1>1, <1>4 DEF Counted, OverlapsNoted, CleanupRegular
  <1>7. CountedByReaders'
    BY <1>2 DEF CountedByReaders
  <1> QED
    BY <1>5, <1>6, <1>7

LEMMA InitCounterInv ==
    ASSUME Init
    PROVE  CounterInv
  <1>1. /\ operateTimes = 0 /\ sinceCleanup = 0 /\ overlaps = 0
        /\ verification = [q \in Requests |-> NotRead]
        /\ \A q \in Requests : pc[q] = "new"
    BY DEF Init, AccountsInit
  <1>2. At("counting") = {} /\ At("storing") = {}
    BY <1>1 DEF At
  <1>3. /\ IsFiniteSet(At("counting")) /\ IsFiniteSet(At("storing"))
        /\ Cardinality(At("counting")) = 0 /\ Cardinality(At("storing")) = 0
    BY <1>2, FS_EmptySet
  <1>4. Readers = 0 /\ Writers = 0 /\ OperateLimit \in Nat
    BY <1>3, AdminAssumption DEF Readers, Writers, AdminAssumption
  <1>5. CounterTypes
    BY <1>1, <1>3 DEF CounterTypes, NotRead
  <1>6. Counted /\ OverlapsNoted /\ CleanupRegular
    BY <1>1, <1>4 DEF Counted, OverlapsNoted, CleanupRegular
  <1>7. CountedByReaders
    BY <1>2 DEF CountedByReaders
  <1> QED
    BY <1>5, <1>6, <1>7 DEF CounterInv

LEMMA NextCounterInv ==
    ASSUME AccountInv, SessionInv, CounterInv, [Next]_vars
    PROVE  CounterInv'
  <1>1. CASE Tick
    BY <1>1, CounterLeft DEF Tick, accountVars, At
  <1>2. CASE UNCHANGED vars
    BY <1>2, CounterLeft DEF vars, accountVars, adminVars, At
  <1> QED
    BY <1>1, <1>2, CounterQuiet, CounterRead, CounterWritten, CounterReset,
       CounterRestart
    DEF Next

LEMMA AlwaysCounterInv == Spec => []CounterInv
  <1>1. AccountInv /\ SessionInv /\ CounterInv /\ [Next]_vars => CounterInv'
    BY NextCounterInv
  <1> QED
    BY AlwaysAccountInv, AlwaysSessionInv, InitCounterInv, <1>1, PTL DEF Spec

\* Old sessions are removed after as many new ones as the code sets, later only
\* by as many as overlapped, although g_adminHandlerSessionOperateTimes is
\* incremented without the lock (NewAdminHandlerSession).
THEOREM CleanupOnTime == Spec => []CleanupRegular
  <1>1. CounterInv => CleanupRegular
    BY DEF CounterInv
  <1> QED
    BY AlwaysCounterInv, <1>1, PTL

-----------------------------------------------------------------------------
(* Types *)

\* What the invariants above say nothing about.
ReadTypes ==
    /\ faulted \subseteq mayFail
    /\ verification \in [Requests -> Verification]
    /\ \A r \in Requests : pc[r] \in HasRead => verification[r].level \in Levels
    /\ sessions \subseteq Session
    /\ until \in Nat
    /\ now \in 0..until

\* An administrator's level is that of one of his rows.
LEMMA LevelOfAdmin ==
    ASSUME AdminsTyped, NEW a, IsAdmin(a)
    PROVE  LevelOf(a) \in Levels
  <1> DEFINE rows == AdminRowsOf(admin_account, a)
             Ids == {row.id : row \in rows}
  <1>1. rows # {} /\ rows \subseteq AdminRow
    BY DEF IsAdmin, AdminsTyped, AdminRowsOf
  <1>2. Ids \subseteq Nat /\ Ids # {}
    BY <1>1 DEF AdminRow
  <1>3. PICK m \in Ids : \A i \in Ids : m <= i
    <2> HIDE DEF Ids
    <2> QED
      BY <1>2, LeastExists
  <1>4. \E row \in rows : \A other \in rows : row.id <= other.id
    BY <1>3
  <1>5. FirstOf(rows) \in rows
    BY <1>4, Zenon DEF FirstOf
  <1>6. FirstOf(rows).level \in Levels
    <2> HIDE DEF rows
    <2> QED
      BY <1>1, <1>5 DEF AdminRow
  <1>7. LevelOf(a) = FirstOf(rows).level
    BY <1>1, Zenon DEF LevelOf, LevelIn
  <1> QED
    BY <1>6, <1>7

\* Steps that read no level and make no session.
LEMMA NothingRead ==
    ASSUME AccountInv, ReadTypes, NEW r \in Requests, NEW to, Goes(r, to),
           pc[r] # "level", UNCHANGED <<verification, sessions, until, now>>
    PROVE  ReadTypes'
  <1>1. /\ pc'[r] = to
        /\ \A q \in Requests \ {r} : pc'[q] = pc[q]
        /\ UNCHANGED mayFail
        /\ faulted' \subseteq faulted \union (mayFail \intersect {r})
    BY GoesFacts DEF AccountInv
  <1>2. to \in HasRead => pc[r] \in HasRead
    BY DEF Goes, Leads, HasRead
  <1> QED
    BY <1>1, <1>2 DEF ReadTypes

LEMMA LevelRead ==
    ASSUME AccountInv, SessionInv, AdminsInv, ReadTypes, NEW r \in Requests,
           dbGetAdminAccountInfo(r)
    PROVE  ReadTypes'
  <1>1. PICK to : Goes(r, to)
    BY AdminGoes
  <1>2. /\ pc'[r] = to
        /\ \A q \in Requests \ {r} : pc'[q] = pc[q]
        /\ UNCHANGED <<mayFail, sessions, until, now>>
        /\ faulted' \subseteq faulted \union (mayFail \intersect {r})
    BY <1>1, GoesFacts DEF AccountInv, dbGetAdminAccountInfo
  <1>3. CASE GoTo(r, "refused", TRUE) \/ GoTo(r, "refused", FALSE)
    <2>1. pc'[r] = "refused"
      BY <1>3, GoToFacts DEF AccountInv, Steps, AccountSteps
    <2>2. UNCHANGED verification
      <3>1. ASSUME NEW ok, GoTo(r, "password", ok) PROVE FALSE
        <4>1. pc'[r] = "password"
          BY <3>1, GoToFacts DEF AccountInv, Steps
        <4> QED
          BY <2>1, <4>1
      <3> QED
        BY <3>1 DEF dbGetAdminAccountInfo
    <2> QED
      BY <1>2, <2>1, <2>2 DEF ReadTypes, HasRead
  <1>4. CASE /\ IsAdmin(msg[r].account)
             /\ verification' = [verification EXCEPT
                   ![r].level = LevelOf(msg[r].account), ![r].readAt = now]
    <2>1. LevelOf(msg[r].account) \in Levels
      BY <1>4, LevelOfAdmin DEF AdminsInv
    <2>2. now \in Nat
      BY DEF SessionInv, SessionTypes
    <2>3. verification \in [Requests -> Verification]
      BY DEF ReadTypes
    <2>4. /\ verification' \in [Requests -> Verification]
          /\ verification'[r].level \in Levels
          /\ \A q \in Requests \ {r} : verification'[q] = verification[q]
      BY <1>4, <2>1, <2>2, <2>3 DEF Verification
    <2> QED
      BY <1>2, <2>4 DEF ReadTypes
  <1> QED
    BY <1>3, <1>4 DEF dbGetAdminAccountInfo, DbOk

LEMMA SessionTimed ==
    ASSUME AccountInv, SessionInv, CounterInv, ReadTypes, NEW r \in Requests,
           NewAdminHandlerSession_read(r)
    PROVE  ReadTypes'
  <1>1. PICK to : Goes(r, to)
    BY AdminGoes
  <1>2. /\ pc'[r] = to
        /\ \A q \in Requests \ {r} : pc'[q] = pc[q]
        /\ UNCHANGED <<mayFail, sessions, until, now>>
        /\ faulted' \subseteq faulted \union (mayFail \intersect {r})
    BY <1>1, GoesFacts DEF AccountInv, NewAdminHandlerSession_read
  <1>3. pc[r] = "session"
    BY ContinuesFacts DEF NewAdminHandlerSession_read
  <1>4. now \in Nat /\ operateTimes \in Nat
    BY DEF SessionInv, SessionTypes, CounterInv, CounterTypes
  <1>5. verification' = [verification EXCEPT ![r].VerifyTime = now,
                                             ![r].times = operateTimes]
    BY DEF NewAdminHandlerSession_read
  <1>6. verification \in [Requests -> Verification]
    BY DEF ReadTypes
  <1>7. /\ verification' \in [Requests -> Verification]
        /\ verification'[r].level = verification[r].level
        /\ \A q \in Requests \ {r} : verification'[q] = verification[q]
    BY <1>4, <1>5, <1>6 DEF Verification
  <1> QED
    BY <1>2, <1>3, <1>7 DEF ReadTypes, HasRead

LEMMA SessionStored ==
    ASSUME AccountInv, ReadTypes, NEW r \in Requests,
           NewAdminHandlerSession_store(r)
    PROVE  ReadTypes'
  <1>1. PICK to : Goes(r, to)
    BY AdminGoes
  <1>2. /\ pc'[r] = to
        /\ \A q \in Requests \ {r} : pc'[q] = pc[q]
        /\ UNCHANGED <<mayFail, until, now>>
        /\ faulted' \subseteq faulted \union (mayFail \intersect {r})
    BY <1>1, GoesFacts DEF AccountInv, NewAdminHandlerSession_store
  <1>3. pc[r] = "storing" /\ to \notin HasRead
    BY <1>1, ContinuesFacts DEF NewAdminHandlerSession_store, Goes, Leads, HasRead
  <1>4. NewSession(r) \in Session
    <2>1. verification[r] \in Verification /\ verification[r].level \in Levels
      BY <1>3 DEF ReadTypes, HasRead
    <2>2. msg[r].account \in Names
      BY MsgFacts DEF AccountInv
    <2> QED
      BY <2>1, <2>2 DEF NewSession, Session, Verification
  <1>5. sessions' \subseteq sessions \union {NewSession(r)}
    BY DEF NewAdminHandlerSession_store
  <1>6. verification' = [verification EXCEPT ![r] = NotRead]
    BY DEF NewAdminHandlerSession_store
  <1>7. /\ verification' \in [Requests -> Verification]
        /\ \A q \in Requests \ {r} : verification'[q] = verification[q]
    BY <1>6 DEF ReadTypes, NotRead, Verification
  <1> QED
    BY <1>2, <1>3, <1>4, <1>5, <1>7 DEF ReadTypes

LEMMA InitReadTypes ==
    ASSUME Init
    PROVE  ReadTypes
  <1>1. until \in Nat
    BY WorkloadsAssumption DEF Init, WorkloadsAssumption
  <1>2. \A r \in Requests : pc[r] = "new"
    BY DEF Init, AccountsInit
  <1>3. faulted = {} /\ sessions = {} /\ now = 0
        /\ verification = [r \in Requests |-> NotRead]
    BY DEF Init, AccountsInit
  <1> QED
    BY <1>1, <1>2, <1>3 DEF ReadTypes, HasRead, NotRead, Verification

LEMMA NextReadTypes ==
    ASSUME AccountInv, SessionInv, AdminsInv, CounterInv, ReadTypes, [Next]_vars
    PROVE  ReadTypes'
  <1>1. ASSUME NEW r \in Requests, AccountsStep(r), UNCHANGED adminVars
        PROVE  ReadTypes'
    <2>1. PICK to \in AccountSteps : Goes(r, to)
      BY <1>1, AccountsGoes
    <2>2. pc[r] # "level"
      BY <1>1, AccountsStepGoes
    <2> QED
      BY <1>1, <2>1, <2>2, NothingRead DEF adminVars
  <1>2. ASSUME NEW r \in Requests,
               \/ dbAdminAccountVerify_exists(r)
               \/ dbAdminAccountVerify_password(r)
               \/ NewAdminHandlerSession_count(r)
               \/ adminHandler(r, "AddAdmin", "exists")
               \/ adminHandler(r, "DelAdmin", "delete")
               \/ dbInsertAdminAccount_exists(r)
               \/ dbInsertAdminAccount_account(r)
               \/ dbInsertAdminAccount(r)
               \/ dbRemoveAdminAccount_exists(r)
               \/ dbRemoveAdminAccount(r)
        PROVE  ReadTypes'
    <2>1. PICK to : Goes(r, to)
      BY <1>2, AdminGoes
    <2>2. pc[r] # "level" /\ UNCHANGED <<verification, sessions, until, now>>
      BY <1>2
      DEF adminVars, Begins, Continues, dbAdminAccountVerify_exists,
          dbAdminAccountVerify_password, NewAdminHandlerSession_count,
          adminHandler, dbInsertAdminAccount_exists,
          dbInsertAdminAccount_account, dbInsertAdminAccount,
          dbRemoveAdminAccount_exists, dbRemoveAdminAccount
    <2> QED
      BY <2>1, <2>2, NothingRead
  <1>3. CASE Tick
    <2>1. /\ now < until /\ now' = now + 1
          /\ UNCHANGED <<pc, mayFail, faulted, verification, sessions, until>>
      BY <1>3 DEF Tick, accountVars
    <2> QED
      BY <2>1 DEF ReadTypes
  <1>4. CASE Restart
    <2>1. /\ verification' = [q \in Requests |-> NotRead] /\ sessions' = {}
          /\ UNCHANGED <<mayFail, faulted, until, now>>
          /\ \A q \in Requests : pc'[q] \notin HasRead
      BY <1>4 DEF Restart, LoseRequests, Answered, HasRead
    <2>2. NotRead \in Verification
      BY DEF NotRead, Verification
    <2> QED
      BY <2>1, <2>2 DEF ReadTypes
  <1>5. CASE UNCHANGED vars
    BY <1>5 DEF vars, accountVars, adminVars, ReadTypes
  <1> QED
    BY <1>1, <1>2, <1>3, <1>4, <1>5, LevelRead, SessionTimed, SessionStored
    DEF Next

LEMMA AlwaysReadTypes == Spec => []ReadTypes
  <1>1. AccountInv /\ SessionInv /\ AdminsInv /\ CounterInv /\ ReadTypes
        /\ [Next]_vars => ReadTypes'
    BY NextReadTypes
  <1> QED
    BY AlwaysAccountInv, AlwaysSessionInv, AlwaysAdminsInv, AlwaysCounterInv,
       InitReadTypes, <1>1, PTL
    DEF Spec

\* Every variable has its shape, a session is held by one administrator who
\* verified with a level there is, and an id of admin_account names one row
\* (dbInsertAdminAccount, NewAdminHandlerSession).
THEOREM AdminTyped == Spec => []TypeOK
  <1>1. AccountInv /\ SessionInv /\ AdminsInv /\ CounterInv /\ ReadTypes => TypeOK
    <2> SUFFICES ASSUME AccountInv, SessionInv, AdminsInv, CounterInv, ReadTypes
                 PROVE  TypeOK
      OBVIOUS
    <2>1. AccountsTypeOK /\ \A r \in Requests : pc[r] \in Steps
      BY DEF AccountsTypeOK, AccountInv, AccountTypes, ReadTypes
    <2>2. \A r \in Requests : verification[r] \in Verification
      BY DEF ReadTypes
    <2>3. /\ admin_account \subseteq AdminRow
          /\ \A x, y \in admin_account : x.id = y.id => x = y
      BY DEF AdminsInv, AdminsTyped
    <2>4. sessions \subseteq Session /\ now \in 0..until
      BY DEF ReadTypes
    <2>5. \A s, t \in sessions : s.guid = t.guid => s = t
      BY DEF SessionInv, SessionsDistinct
    <2>6. {operateTimes, sinceCleanup, overlaps} \subseteq Nat
      BY DEF CounterInv, CounterTypes
    <2>7. \A a \in Names : lastSuper[a] \in 0..now \union {None}
      BY DEF SessionInv, SessionTypes, SuperKnown
    <2> QED
      BY <2>1, <2>2, <2>3, <2>4, <2>5, <2>6, <2>7 DEF TypeOK
  <1> QED
    BY AlwaysAccountInv, AlwaysSessionInv, AlwaysAdminsInv, AlwaysCounterInv,
       AlwaysReadTypes, <1>1, PTL
=============================================================================
