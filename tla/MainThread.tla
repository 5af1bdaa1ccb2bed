----------------------------- MODULE MainThread -----------------------------
(***************************************************************************)
(* The channel g_chanMainThread, on which the handlers of the HTTP server  *)
(* hand their work to the main goroutine (main_thread_process.go), and     *)
(* what that work keeps: the rooms, game servers run by players, of        *)
(* /registergs, /getgslist, /getgsaddr and /removegs, and the switch that  *)
(* /admin turns.  /rs registers accounts and changes passwords; what that  *)
(* does to the table is in Accounts, only how it ends is modelled here.    *)
(*                                                                         *)
(* A handler is a goroutine that serves one request: it posts a message,   *)
(* blocks while the channel is full, and waits on the RetChan of its       *)
(* message, a channel of capacity 1; some wait for 500 ms only.  The main  *)
(* goroutine processes a message in one step, except for a second send on  *)
(* the same RetChan, which may block it.                                   *)
(*                                                                         *)
(* main() starts the HTTP servers, loads a library and only then makes the *)
(* channel: a request that comes earlier is sent on a nil channel, and its *)
(* handler never comes back.                                               *)
(*                                                                         *)
(* main() never gets to UpdateMThreadMsg, whose timer is made anew by      *)
(* every turn of a loop that a ticker turns every 5 seconds: no room       *)
(* expires here.                                                           *)
(***************************************************************************)
EXTENDS Naturals, FiniteSets, Sequences, SequencesExt

CONSTANTS
    Handlers,      \* bound: the requests of a behaviour
    Addresses,     \* address and port of a room
    Passwords,     \* passwords of rooms
    MaxId,         \* bound: the largest room id a request names
    ChanCap,       \* capacity of g_chanMainThread
    DbFaults,      \* may the statements of /rs fail?
    None           \* no password, no output yet

ASSUME MainThreadAssumption ==
    /\ IsFiniteSet(Handlers)
    /\ None \notin Handlers \union Addresses \union Passwords
    /\ MaxId \in Nat
    /\ ChanCap \in Nat \ {0}
    /\ DbFaults \in BOOLEAN

VARIABLES
    queue,     \* messages in g_chanMainThread, then those of blocked senders
    handler,   \* what each handler is doing, and its message
    retChan,   \* RetChan of each handler's message
    sending,   \* the handler whose RetChan main is blocked on, or None
    rooms,     \* g_UserGameServerMap
    seed,      \* g_UserGameServerSeed
    enabled,   \* g_enableGsListRequest
    executed,  \* history: requests of /rs and /admin that changed something
    failed,    \* history: requests of /rs whose INSERT or UPDATE failed
    ready      \* has MainThreadInit made g_chanMainThread?

vars == <<queue, handler, retChan, sending, rooms, seed, enabled, executed,
          failed, ready>>

-----------------------------------------------------------------------------
(* Values *)

\* The ids that requests name, and those that rooms may come to have.
Named == 1..MaxId
Ids == 1..Cardinality(Handlers)

\* What msg.Msg says of a password; "" is no password.
Password == Passwords \union {None}

Room == [address : Addresses, id : Ids, password : Password]

\* The messages of handlers that wait for their answer as long as it takes, and
\* of those that give up after 500 ms.
RoomMsg ==
    [event : {"RegisterGS"}, address : Addresses, password : Password]
    \union [event : {"GetGsAddr"}, id : Named, password : Password]
    \union [event : {"RemoveGsAddr"}, id : Named]
    \union [event : {"GetGsList"}]

TimedMsg ==
    [event : {"EnableOlRoom"}, enable : BOOLEAN]
    \union [event : {"LsRegisterAccount", "LsModifyPassword"}]

Idle == [pc |-> "idle"]

\* Blocked for ever in PostMThreadMsg, on the channel that was not there.
Stuck == [pc |-> "stuck"]

\* "out" stands for the fields of the message that main fills in.
Waiting(m) == [pc |-> "waiting", msg |-> m, out |-> None]

IsWaiting(h) == handler[h].pc = "waiting"

\* A sender whose message did not fit into the channel is blocked in
\* PostMThreadMsg; Go serves blocked senders in the order they came.
Posted(h) == h \notin Range(SubSeq(queue, ChanCap + 1, Len(queue)))

Init ==
    /\ queue = <<>>
    /\ handler = [h \in Handlers |-> Idle]
    /\ retChan = [h \in Handlers |-> <<>>]
    /\ sending = None
    /\ rooms = {}
    /\ seed = 0
    /\ enabled = TRUE
    /\ executed = {}
    /\ failed = {}
    /\ ready = FALSE

-----------------------------------------------------------------------------
(* Handlers *)

PostMThreadMsg(h, m) ==
    /\ handler[h] = Idle
    /\ \/ /\ ready
          /\ handler' = [handler EXCEPT ![h] = Waiting(m)]
          /\ queue' = Append(queue, h)
       \/ /\ ~ready
          /\ handler' = [handler EXCEPT ![h] = Stuck]
          /\ UNCHANGED queue
    /\ UNCHANGED <<retChan, sending, rooms, seed, enabled, executed, failed,
                   ready>>

registergsHandler(h, a, p) ==
    PostMThreadMsg(h, [event |-> "RegisterGS", address |-> a, password |-> p])

removeGsAddrHandler(h, id) ==
    PostMThreadMsg(h, [event |-> "RemoveGsAddr", id |-> id])

getGsAddressHandler(h, id, p) ==
    PostMThreadMsg(h, [event |-> "GetGsAddr", id |-> id, password |-> p])

\* With the list switched off, the answer is an empty list.
getGsListHandler(h) ==
    LET m == [event |-> "GetGsList"]
    IN  \/ /\ enabled
           /\ PostMThreadMsg(h, m)
        \/ /\ ~enabled
           /\ handler[h] = Idle
           /\ handler' = [handler EXCEPT ![h] =
                 [pc |-> "answered", msg |-> m, out |-> {}, ret |-> TRUE]]
           /\ UNCHANGED <<queue, retChan, sending, rooms, seed, enabled,
                          executed, failed, ready>>

adminHandler(h, enable) ==
    PostMThreadMsg(h, [event |-> "EnableOlRoom", enable |-> enable])

rsHandler(h, event) ==
    /\ event \in {"LsRegisterAccount", "LsModifyPassword"}
    /\ PostMThreadMsg(h, [event |-> event])

Answered(h) ==
    /\ IsWaiting(h)
    /\ retChan[h] # <<>>
    /\ retChan' = [retChan EXCEPT ![h] = Tail(@)]
    /\ handler' = [handler EXCEPT ![h] =
          [pc |-> "answered", msg |-> @.msg, out |-> @.out,
           ret |-> Head(retChan[h])]]
    /\ UNCHANGED <<queue, sending, rooms, seed, enabled, executed, failed,
                   ready>>

\* Go chooses at random when both the answer and the timer are there.
WaitMThreadMsg_timeout(h) ==
    /\ IsWaiting(h)
    /\ handler[h].msg \in TimedMsg
    /\ Posted(h)
    /\ handler' = [handler EXCEPT ![h] = [pc |-> "timedOut", msg |-> @.msg]]
    /\ UNCHANGED <<queue, retChan, sending, rooms, seed, enabled, executed,
                   failed, ready>>

-----------------------------------------------------------------------------
(* The main goroutine: ProcessMThreadMsg, one action per event *)

MainThreadInit ==
    /\ ~ready
    /\ ready' = TRUE
    /\ UNCHANGED <<queue, handler, retChan, sending, rooms, seed, enabled,
                   executed, failed>>

Ret(h, b) == retChan' = [retChan EXCEPT ![h] = Append(@, b)]

\* The field main fills in; a handler that gave up does not read it.
Out(h, v) ==
    handler' = IF IsWaiting(h) THEN [handler EXCEPT ![h].out = v] ELSE handler

Process(h, event) ==
    /\ sending = None
    /\ queue # <<>>
    /\ h = Head(queue)
    /\ handler[h].msg.event = event
    /\ queue' = Tail(queue)

\* Bug: the counter is read before it is advanced.
AddUserGameServer_idBefore(m) ==
    IF \E r \in rooms : r.address = m.address
    THEN UNCHANGED <<rooms, seed>>
    ELSE /\ seed' = seed + 1
         /\ rooms' = rooms \union
               {[address |-> m.address, id |-> seed, password |-> m.password]}

\* Bug: a room that registers again is given the password it registers with.
AddUserGameServer_newPassword(m) ==
    IF \E r \in rooms : r.address = m.address
    THEN /\ rooms' = {IF r.address = m.address
                      THEN [r EXCEPT !.password = m.password] ELSE r : r \in rooms}
         /\ UNCHANGED seed
    ELSE /\ seed' = seed + 1
         /\ rooms' = rooms \union
               {[address |-> m.address, id |-> seed + 1, password |-> m.password]}

\* A room that registers again keeps its id and its password.
AddUserGameServer(m) ==
    IF \E r \in rooms : r.address = m.address
    THEN UNCHANGED <<rooms, seed>>
    ELSE /\ seed' = seed + 1
         /\ rooms' = rooms \union
               {[address |-> m.address, id |-> seed + 1, password |-> m.password]}

RegisterGS(h) ==
    LET m == handler[h].msg
    IN  /\ Process(h, "RegisterGS")
        /\ AddUserGameServer(m)
        /\ \E r \in rooms' : r.address = m.address /\ Out(h, r.id)
        /\ Ret(h, TRUE)
        /\ UNCHANGED <<sending, enabled, executed, failed, ready>>

\* The port, and with it the address to connect to, of a room with a password
\* is kept back.
GetGsList(h) ==
    /\ Process(h, "GetGsList")
    /\ Out(h, {[id |-> r.id,
                address |-> IF r.password = None THEN r.address ELSE None] :
                  r \in rooms})
    /\ Ret(h, TRUE)
    /\ UNCHANGED <<sending, rooms, seed, enabled, executed, failed, ready>>

GetGsAddr(h) ==
    LET m == handler[h].msg
        found == {r \in rooms : r.id = m.id /\ r.password \in {None, m.password}}
    IN  /\ Process(h, "GetGsAddr")
        /\ Ret(h, found # {})
        /\ IF found = {} THEN UNCHANGED handler
           ELSE \E r \in found : Out(h, r.address)
        /\ UNCHANGED <<sending, rooms, seed, enabled, executed, failed,
                       ready>>

\* Bug: the id counter is wound back with the room it numbered last.
RemoveGsAddr_idReused(h) ==
    LET id == handler[h].msg.id
    IN  /\ Process(h, "RemoveGsAddr")
        /\ rooms' = {r \in rooms : r.id # id}
        /\ seed' = IF id = seed THEN seed - 1 ELSE seed
        /\ Ret(h, TRUE)
        /\ UNCHANGED <<handler, sending, enabled, executed, failed, ready>>

\* Bug: an unknown id is not answered.
RemoveGsAddr_silent(h) ==
    LET id == handler[h].msg.id
    IN  /\ Process(h, "RemoveGsAddr")
        /\ rooms' = {r \in rooms : r.id # id}
        /\ IF \E r \in rooms : r.id = id THEN Ret(h, TRUE) ELSE UNCHANGED retChan
        /\ UNCHANGED <<handler, sending, seed, enabled, executed, failed,
                       ready>>

RemoveGsAddr(h) ==
    /\ Process(h, "RemoveGsAddr")
    /\ rooms' = {r \in rooms : r.id # handler[h].msg.id}
    /\ Ret(h, TRUE)
    /\ UNCHANGED <<handler, sending, seed, enabled, executed, failed, ready>>

EnableOlRoom(h) ==
    /\ Process(h, "EnableOlRoom")
    /\ enabled' = handler[h].msg.enable
    /\ executed' = executed \union {h}
    /\ Ret(h, TRUE)
    /\ UNCHANGED <<handler, sending, rooms, seed, failed, ready>>

\* How a request of /rs ends.  "done": a row was inserted or updated.  "vain":
\* nothing failed, or only a look-up, and nothing was changed, as when an account
\* to update does not exist, or the web site made the one to register after the
\* first look-up.  "refused": the request is malformed or names a known account.
Endings ==
    {"done", "vain", "refused"} \union IF DbFaults THEN {"failed"} ELSE {}

Ends(h, ending) ==
    /\ executed' = IF ending = "done" THEN executed \union {h} ELSE executed
    /\ failed' = IF ending = "failed" THEN failed \union {h} ELSE failed

\* Bug: no return after the answer that the account could not be registered.
LsRegisterAccount_noReturn(h) ==
    \E ending \in Endings :
        /\ Process(h, "LsRegisterAccount")
        /\ Ends(h, ending)
        /\ Ret(h, ending \in {"done", "vain"})
        /\ sending' = IF ending \in {"refused", "failed"} THEN h ELSE sending
        /\ UNCHANGED <<handler, rooms, seed, enabled, ready>>

LsRegisterAccount(h) ==
    \E ending \in Endings :
        /\ Process(h, "LsRegisterAccount")
        /\ Ends(h, ending)
        /\ Ret(h, ending \in {"done", "vain"})
        /\ UNCHANGED <<handler, sending, rooms, seed, enabled, ready>>

\* Bug: only the second of the two answers below is sent.
LsModifyPassword_true(h) ==
    \E ending \in Endings :
        /\ Process(h, "LsModifyPassword")
        /\ Ends(h, ending)
        /\ Ret(h, ending \in {"done", "vain", "failed"})
        /\ UNCHANGED <<handler, sending, rooms, seed, enabled, ready>>

\* After the answer that the statement failed there is no return: main goes on
\* to send TRUE as well.
LsModifyPassword(h) ==
    \E ending \in Endings :
        /\ Process(h, "LsModifyPassword")
        /\ Ends(h, ending)
        /\ Ret(h, ending \in {"done", "vain"})
        /\ sending' = IF ending = "failed" THEN h ELSE sending
        /\ UNCHANGED <<handler, rooms, seed, enabled, ready>>

\* The second send, once there is room in the RetChan.
SendAgain ==
    /\ sending # None
    /\ retChan[sending] = <<>>
    /\ Ret(sending, TRUE)
    /\ sending' = None
    /\ UNCHANGED <<queue, handler, rooms, seed, enabled, executed, failed,
                   ready>>

ProcessMThreadMsg(h) ==
    \/ RegisterGS(h)
    \/ GetGsList(h)
    \/ GetGsAddr(h)
    \/ RemoveGsAddr(h)
    \/ EnableOlRoom(h)
    \/ LsRegisterAccount(h)
    \/ LsModifyPassword(h)

\* All requests are used up and served.
Finished ==
    /\ \A h \in Handlers : handler[h].pc \in {"answered", "timedOut", "stuck"}
    /\ queue = <<>>
    /\ sending = None
    /\ UNCHANGED vars

Next ==
    \/ MainThreadInit
    \/ \E h \in Handlers :
          \/ \E a \in Addresses, p \in Password : registergsHandler(h, a, p)
          \/ \E id \in Named : removeGsAddrHandler(h, id)
          \/ \E id \in Named, p \in Password : getGsAddressHandler(h, id, p)
          \/ getGsListHandler(h)
          \/ \E b \in BOOLEAN : adminHandler(h, b)
          \/ \E e \in {"LsRegisterAccount", "LsModifyPassword"} : rsHandler(h, e)
          \/ Answered(h)
          \/ WaitMThreadMsg_timeout(h)
          \/ ProcessMThreadMsg(h)
    \/ SendAgain
    \/ Finished

Spec == Init /\ [][Next]_vars

\* The main loop and the goroutines that have an answer keep running; requests
\* need not come, and the timer of a handler need not be the first to fire.
FairSpec ==
    /\ Spec
    /\ WF_vars(SendAgain \/ \E h \in Handlers : ProcessMThreadMsg(h))
    /\ \A h \in Handlers : WF_vars(Answered(h))

-----------------------------------------------------------------------------
(* Properties *)

\* The values of the variables.
TypeOK ==
    /\ queue \in Seq(Handlers)
    /\ \A h \in Handlers :
          \/ handler[h] \in {Idle, Stuck}
          \/ /\ handler[h].pc \in {"waiting", "answered", "timedOut"}
             /\ handler[h].msg \in RoomMsg \union TimedMsg
    /\ \A h \in Handlers : retChan[h] \in {<<>>, <<FALSE>>, <<TRUE>>}
    /\ sending \in Handlers \union {None}
    /\ rooms \subseteq Room
    /\ seed \in Ids \union {0}
    /\ enabled \in BOOLEAN
    /\ executed \subseteq Handlers
    /\ failed \subseteq Handlers
    /\ ready \in BOOLEAN

IsAnswered(h) == handler[h].pc = "answered"

\* A password keeps its room from those who do not know it for as long as the
\* room exists, whatever was removed and registered again meanwhile: an address
\* that was given out for an id is that room's, and asked for with its
\* password; an address that was listed is that of an open room.
PasswordGuards ==
    \A h \in Handlers, r \in rooms : IsAnswered(h) =>
        LET m == handler[h].msg
            out == handler[h].out
        IN  /\ m.event = "GetGsAddr" /\ m.id = r.id /\ handler[h].ret =>
                 /\ out = r.address
                 /\ r.password \in {None, m.password}
            /\ m.event = "GetGsList" =>
                 \A item \in out : item.id = r.id /\ item.address # None =>
                     /\ item.address = r.address
                     /\ r.password = None

\* The id a room was told when it registered never comes to name another room,
\* so that removing it by this id can only remove itself.
RoomIdKept ==
    /\ \A q, r \in rooms : q.id = r.id => q = r
    /\ \A h \in Handlers, r \in rooms :
          /\ IsAnswered(h)
          /\ handler[h].msg.event = "RegisterGS"
          /\ handler[h].out = r.id
          => r.address = handler[h].msg.address

\* /rs refuses no request that was carried out and answers "success" to none
\* whose INSERT or UPDATE failed, although the main goroutine sends two answers
\* when a password cannot be changed, the second of them TRUE.  "Success" does
\* not say that anything was changed.
RepliesTrue ==
    \A h \in Handlers :
        /\ IsAnswered(h)
        /\ handler[h].msg.event \in {"LsRegisterAccount", "LsModifyPassword"}
        => h \notin IF handler[h].ret THEN failed ELSE executed

\* The main goroutine, which serves every client and every game server, is held
\* up by a handler only after a password could not be changed; then it is until
\* the handler takes the first answer, and for good if it has given up.
OnlyFailedUpdateBlocks ==
    sending # None =>
        /\ DbFaults
        /\ handler[sending].msg.event = "LsModifyPassword"
        /\ sending \in failed
        /\ IsWaiting(sending) => retChan[sending] = <<FALSE>>

\* Every request that finds the channel is answered or times out: a handler of
\* the rooms, which waits as long as it takes, does not wait for ever.  A request
\* that came before MainThreadInit has no answer to expect.
EveryRequestServed ==
    \A h \in Handlers :
        handler[h] \notin {Idle, Stuck}
            ~> handler[h].pc \in {"answered", "timedOut"}
=============================================================================
