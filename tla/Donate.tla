------------------------------- MODULE Donate -------------------------------
(***************************************************************************)
(* The donation ledger (sql.go): userdonatehistory holds one row per order *)
(* an operator enters, userdonate the balance derived from it, and         *)
(* userdonateconsume one row per purchase in the online shop.              *)
(*                                                                         *)
(* Orders are entered through /management/... (ajaxManagementAddDonate) and *)
(* purchases through /rpc/buyolshopitem.  net/http runs every request on a *)
(* goroutine of its own and nothing serialises them: each SQL statement is *)
(* atomic, the statements of two requests interleave, and there is no      *)
(* transaction.  A request is a process here, one statement per step.      *)
(*                                                                         *)
(* Amounts are positive and their sums below 2^31, so that the conversions *)
(* to int32 and back to a decimal number change nothing.                   *)
(*                                                                         *)
(* A definition marked "Bug:" is the one after it with a plausible mistake *)
(* in it; no specification uses it.                                        *)
(***************************************************************************)
EXTENDS Integers, FiniteSets, FiniteSetsExt

CONSTANTS
    Uids,          \* the players
    Orders,        \* donation order ids
    Amounts,       \* sums of money an order may carry
    Costs,         \* prices of the shop
    Requests,      \* bound: the requests of a behaviour
    Modes,         \* bound: whose requests there are, how many, and at a time
    None           \* no request, no row, no answer

ASSUME DonateAssumption ==
    /\ Amounts \subseteq Nat \ {0}
    /\ Costs \subseteq Nat /\ Costs # {}
    /\ IsFiniteSet(Costs) /\ IsFiniteSet(Requests)
    /\ Modes \subseteq [uids : SUBSET Uids, requests : Nat,
                        orders : Nat \ {0}, purchases : Nat \ {0},
                        readFaults : BOOLEAN]
    /\ None \notin Uids \union Orders \union {"ok"}
    /\ None \notin Nat

VARIABLES
    history,   \* rows of userdonatehistory; req tells rows apart
    donate,    \* userdonate.donate of each player, or None without a row
    consume,   \* rows of userdonateconsume; req tells rows apart
    request,   \* what each request is doing
    mode       \* bound: the players, how many requests there are in all, how
               \* many orders and purchases at a time (one with a single
               \* operator, or a single game server), and whether a query
               \* may fail

vars == <<history, donate, consume, request, mode>>

Idle == [pc |-> "idle"]

Results == {"ok", "orderUsed", "noBalance", "notEnough", "failed", None}

HistoryRow == [req : Requests, uid : Uids, order : Orders, donate : Amounts]
ConsumeRow == [req : Requests, uid : Uids, cost : Costs]

HistoryOf(u) == {h \in history : h.uid = u}
ConsumeOf(u) == {c \in consume : c.uid = u}

dbGetUserDonateHistorySum(u) ==
    MapThenSumSet(LAMBDA h : h.donate, HistoryOf(u))

dbGetUserDonateConsumeSum(u) ==
    MapThenSumSet(LAMBDA c : c.cost, ConsumeOf(u))

dbIsUserDonateHistoryExists(o) == \E h \in history : h.order = o

OrderSteps == {"orderUsed?", "record", "balance?", "open", "sum", "update"}
PurchaseSteps == {"donated?", "enough?", "buy"}

InProgress(steps) == {r \in Requests : request[r].pc \in steps}
Active == InProgress(OrderSteps \union PurchaseSteps)

Init ==
    /\ mode \in Modes
    /\ history = {}
    /\ donate = [u \in Uids |-> None]
    /\ consume = {}
    /\ request = [r \in Requests |-> Idle]

\* What a query returns: its value, or a value the code takes an error for.
Query(value, onError) == IF mode.readFaults THEN {value} \union onError ELSE {value}

Continue(r, pc) == request' = [request EXCEPT ![r].pc = pc]

Answer(r, result) ==
    request' = [request EXCEPT ![r] = [pc |-> "answered", result |-> result]]

Begin(r, rec) ==
    /\ request[r] = Idle
    /\ Cardinality({q \in Requests : request[q] # Idle}) < mode.requests
    /\ request' = [request EXCEPT ![r] = rec]
    /\ UNCHANGED <<history, donate, consume, mode>>

-----------------------------------------------------------------------------
(* dbIncUserDonateInfoEx, statement by statement *)

AddDonate(r, u, o, money) ==
    /\ u \in mode.uids
    /\ Cardinality(InProgress(OrderSteps)) < mode.orders
    /\ Begin(r, [pc |-> "orderUsed?", uid |-> u, order |-> o, money |-> money])

\* Bug: the order id is not looked up.
CheckOrder_none(r) ==
    /\ request[r].pc = "orderUsed?"
    /\ Continue(r, "record")
    /\ UNCHANGED <<history, donate, consume, mode>>

CheckOrder(r) ==
    LET q == request[r]
    IN  /\ q.pc = "orderUsed?"
        /\ \E used \in Query(dbIsUserDonateHistoryExists(q.order), {TRUE}) :
              IF used THEN Answer(r, "orderUsed") ELSE Continue(r, "record")
        /\ UNCHANGED <<history, donate, consume, mode>>

dbInsertUserDonateHistory(r) ==
    LET q == request[r]
    IN  /\ q.pc = "record"
        /\ \/ /\ history' = history \union
                   {[req |-> r, uid |-> q.uid, order |-> q.order,
                     donate |-> q.money]}
              /\ Continue(r, "balance?")
           \/ /\ Answer(r, "failed")
              /\ UNCHANGED history
        /\ UNCHANGED <<donate, consume, mode>>

dbIsUserDonateExists(r) ==
    LET q == request[r]
    IN  /\ q.pc = "balance?"
        /\ \E exists \in Query(donate[q.uid] # None, BOOLEAN) :
              Continue(r, IF exists THEN "sum" ELSE "open")
        /\ UNCHANGED <<history, donate, consume, mode>>

\* The new row carries the money of this order; uid is the primary key.
dbInsertUserDonateInfoEx(r) ==
    LET q == request[r]
    IN  /\ q.pc = "open"
        /\ \/ /\ donate[q.uid] = None
              /\ donate' = [donate EXCEPT ![q.uid] = q.money]
              /\ Answer(r, "ok")
           \/ /\ Answer(r, "failed")
              /\ UNCHANGED donate
        /\ UNCHANGED <<history, consume, mode>>

\* dbGetUserDonateInfo, which must find the row, and the sum over the history.
\* Rows of userdonate are never deleted, so that the two queries are one step.
SumHistory(r) ==
    LET q == request[r]
    IN  /\ q.pc = "sum"
        /\ \E found \in Query(donate[q.uid] # None, {FALSE}),
              sum \in Query(dbGetUserDonateHistorySum(q.uid), {0}) :
              IF found
              THEN request' = [request EXCEPT ![r] =
                     [pc |-> "update", uid |-> q.uid, sum |-> sum]]
              ELSE Answer(r, "failed")
        /\ UNCHANGED <<history, donate, consume, mode>>

\* Bug: the answer is given although the statement failed.
UpdateDonate_unchecked(r) ==
    LET q == request[r]
    IN  /\ q.pc = "update"
        /\ donate' \in {donate, [donate EXCEPT ![q.uid] = q.sum]}
        /\ Answer(r, "ok")
        /\ UNCHANGED <<history, consume, mode>>

\* Bug: the sum of the history is added to the balance, not written over it.
UpdateDonate_added(r) ==
    LET q == request[r]
    IN  /\ q.pc = "update"
        /\ \/ /\ donate' = [donate EXCEPT ![q.uid] = @ + q.sum]
              /\ Answer(r, "ok")
           \/ /\ Answer(r, "failed")
              /\ UNCHANGED donate
        /\ UNCHANGED <<history, consume, mode>>

UpdateDonate(r) ==
    LET q == request[r]
    IN  /\ q.pc = "update"
        /\ \/ /\ donate' = [donate EXCEPT ![q.uid] = q.sum]
              /\ Answer(r, "ok")
           \/ /\ Answer(r, "failed")
              /\ UNCHANGED donate
        /\ UNCHANGED <<history, consume, mode>>

-----------------------------------------------------------------------------
(* dbOnConsumeDonate, statement by statement; the handler sent away costs < 0 *)

BuyItem(r, u, cost) ==
    /\ u \in mode.uids
    /\ Cardinality(InProgress(PurchaseSteps)) < mode.purchases
    /\ Begin(r, [pc |-> "donated?", uid |-> u, cost |-> cost])

\* Bug: the result of dbGetUserDonateInfo is not looked at.
GetDonate_unchecked(r) ==
    LET q == request[r]
    IN  /\ q.pc = "donated?"
        /\ request' = [request EXCEPT ![r] =
               [pc |-> "enough?", uid |-> q.uid, cost |-> q.cost,
                donate |-> donate[q.uid]]]
        /\ UNCHANGED <<history, donate, consume, mode>>

GetDonate(r) ==
    LET q == request[r]
    IN  /\ q.pc = "donated?"
        /\ \E found \in Query(donate[q.uid], {None}) :
              IF found = None
              THEN Answer(r, "noBalance")
              ELSE request' = [request EXCEPT ![r] =
                     [pc |-> "enough?", uid |-> q.uid, cost |-> q.cost,
                      donate |-> found]]
        /\ UNCHANGED <<history, donate, consume, mode>>

\* Bug: what is left is compared with 0, not with the price.
CheckLeft_any(r) ==
    LET q == request[r]
    IN  /\ q.pc = "enough?"
        /\ \E spent \in Query(dbGetUserDonateConsumeSum(q.uid), {0}) :
              IF q.donate - spent < 0
              THEN Answer(r, "notEnough")
              ELSE Continue(r, "buy")
        /\ UNCHANGED <<history, donate, consume, mode>>

CheckLeft(r) ==
    LET q == request[r]
    IN  /\ q.pc = "enough?"
        /\ \E spent \in Query(dbGetUserDonateConsumeSum(q.uid), {0}) :
              IF q.donate - spent < q.cost
              THEN Answer(r, "notEnough")
              ELSE Continue(r, "buy")
        /\ UNCHANGED <<history, donate, consume, mode>>

dbInsertUserDonateConsume(r) ==
    LET q == request[r]
    IN  /\ q.pc = "buy"
        /\ \/ /\ consume' = consume \union
                   {[req |-> r, uid |-> q.uid, cost |-> q.cost]}
              /\ Answer(r, "ok")
           \/ /\ Answer(r, "failed")
              /\ UNCHANGED consume
        /\ UNCHANGED <<history, donate, mode>>

\* The process dies with every request in progress; the tables remain.
Crash ==
    /\ Active # {}
    /\ request' = [r \in Requests |->
                     IF r \in Active THEN [pc |-> "answered", result |-> None]
                     ELSE request[r]]
    /\ UNCHANGED <<history, donate, consume, mode>>

\* All requests are used up.
Finished ==
    /\ Cardinality({r \in Requests : request[r].pc = "answered"}) = mode.requests
    /\ UNCHANGED vars

Next ==
    \/ \E r \in Requests :
          \/ \E u \in Uids, o \in Orders, m \in Amounts : AddDonate(r, u, o, m)
          \/ \E u \in Uids, c \in Costs : BuyItem(r, u, c)
          \/ CheckOrder(r)
          \/ dbInsertUserDonateHistory(r)
          \/ dbIsUserDonateExists(r)
          \/ dbInsertUserDonateInfoEx(r)
          \/ SumHistory(r)
          \/ UpdateDonate(r)
          \/ GetDonate(r)
          \/ CheckLeft(r)
          \/ dbInsertUserDonateConsume(r)
    \/ Crash
    \/ Finished

Spec == Init /\ [][Next]_vars

-----------------------------------------------------------------------------
(* Properties *)

Requesting(q) ==
    \/ q = Idle
    \/ q \in [pc : {"orderUsed?", "record", "balance?", "open", "sum"},
              uid : Uids, order : Orders, money : Amounts]
    \/ q \in [pc : {"update"}, uid : Uids, sum : Nat]
    \/ q \in [pc : {"donated?"}, uid : Uids, cost : Costs]
    \/ q \in [pc : {"enough?", "buy"}, uid : Uids, cost : Costs, donate : Nat]
    \/ q \in [pc : {"answered"}, result : Results]

\* The values the tables and the requests hold.
TypeOK ==
    /\ history \subseteq HistoryRow
    /\ donate \in [Uids -> Nat \union {None}]
    /\ consume \subseteq ConsumeRow
    /\ DOMAIN request = Requests
    /\ \A r \in Requests : Requesting(request[r])
    /\ mode \in Modes

\* Nobody can spend money that was never donated: a balance, and any copy of
\* it that a request still carries, is covered by the rows of the history,
\* whatever the order in which concurrent orders record, sum and update.
NoMoneyInvented ==
    /\ \A u \in Uids : donate[u] # None =>
          donate[u] <= dbGetUserDonateHistorySum(u)
    /\ \A r \in Requests : request[r].pc = "update" =>
          request[r].sum <= dbGetUserDonateHistorySum(request[r].uid)
    /\ \A r \in Requests : request[r].pc \in {"enough?", "buy"} =>
          request[r].donate <= dbGetUserDonateHistorySum(request[r].uid)

\* An order id is looked up before it is recorded, so only orders that were in
\* progress together can record it more than once: no later retry can.
OrderRowsBounded ==
    \A o \in Orders :
        Cardinality({h \in history : h.order = o}) <= mode.orders

\* The price is checked before the purchase is recorded, so a player's
\* purchases exceed his donations by less than the purchases made together:
\* one price for each request beside the last one checked.  (A sum whose query
\* fails reads as 0.)
OverspendBounded ==
    ~mode.readFaults => \A u \in Uids :
        dbGetUserDonateConsumeSum(u) <=
            dbGetUserDonateHistorySum(u) + (mode.purchases - 1) * Max(Costs)

\* The orders of u that an operator saw accepted.
AcceptedOf(u) ==
    {h \in HistoryOf(u) : request[h.req] = [pc |-> "answered", result |-> "ok"]}

\* An order that was answered without an error is in the player's balance,
\* whatever failed or crashed before and after it, when orders are entered one
\* at a time and queries do not fail.  (With two at once, a sum read before the
\* other's row was recorded may be written last.)
AcceptedIsCredited ==
    mode.orders = 1 /\ ~mode.readFaults =>
      \A u \in Uids : AcceptedOf(u) # {} =>
        /\ donate[u] # None
        /\ donate[u] >= MapThenSumSet(LAMBDA h : h.donate, AcceptedOf(u))

\* What sql_test.go (180-185) expects of dbOnConsumeDonate: a purchase beyond
\* what is left is refused.
NeverOverspent ==
    \A u \in Uids :
        dbGetUserDonateConsumeSum(u) <= dbGetUserDonateHistorySum(u)
=============================================================================
