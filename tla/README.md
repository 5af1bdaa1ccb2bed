# Verification of the BackMir login server

TLA+ models, TLC runs and TLAPS proofs for the login server of this repository
(package `bmloginsvrapp`). File names below are relative to
`src/bmloginsvrapp/` unless they say otherwise. `PROJECT.json` maps every
definition to the lines it models.

## 1. The system

One process. Its **main goroutine** (`main.go` 179–210) is a `select` over the
events of two TCP servers, a Redis channel, the channel `g_chanMainThread`, two
timers and a 5 s ticker. Everything that belongs to clients, game servers and
rooms is done there, one event at a time. Beside it run the goroutines of three
HTTP servers (web site; `/registergs`, `/admin`, `/rs` and their like; `/rpc`),
one per request, and the Redis poller. All of them use one SQLite database.

| Component | State | Operations | Interacts with |
|---|---|---|---|
| Client sessions (`handle_eventfromclient.go`) | `clientNodeMap`, `clientUserMap`, `clientNodeSeed`, each `ClientNode` | connect, verify account, create/delete role, log in to a game, disconnect | accounts (read), online rows, game servers (sends), save files |
| Game server sessions (`handle_eventfromserver.go`) | `serverNodeMap`, each `ServerNode` | connect, register, claim a client, save a role, report a rank, report that a player left, disconnect | client nodes, online rows, save files, ranks |
| Online players (`sqlv2.go` 460–501) | table `online_player` | add, remove by uid, by server, all; look up | both session components |
| Accounts (`sql.go`, `web_handler.go`, `http_rs_handler.go`) | table `useraccount` | sign up, change password, verify | web goroutines and the main goroutine |
| Donations and shop (`sql.go` 599–1004, `manage_handler.go`, `rpc_handler.go`) | tables `userdonate`, `userdonatehistory`, `userdonateconsume` | enter an order, buy an item | goroutines of the web and RPC servers only |
| Messages and rooms (`main_thread_process.go`, `http_handler.go`) | `g_chanMainThread`, the `RetChan`s, `g_UserGameServerMap`, `g_enableGsListRequest` | register, list, look up, remove a room; switch; `/rs` | HTTP goroutines wait on the main goroutine |
| Role store (`onCreateHumReq`, `onDelHumReq`, `SavePlayerData`, `sql.go` 400–597, 1180–1357) | save files (DLL), name columns of `useraccount`, rank tables | create, delete, save, update rank | sessions |
| Offline saves (`handle_redis.go`) | Redis list and hash, `outputChan` | pop, forward, delete | main goroutine |
| Rank list (`player_rank.go`, `timer_event.go`) | `g_RankListCache` | build, send | game server sessions |
| Administration sessions (`http_admin_handler.go`) | `g_adminHandlerSessions` | verify, check, expire | accounts |
| Server list page (`web_handler.go` 397) | one event | fetch with a time-out | main goroutine |

The TCP library (`tcpnetwork`), SQLite, Redis, the save DLL
(`BMHumSaveControl.dll`) and the game servers are external.

**What is hard.** The handlers of the main goroutine never interleave with each
other, but (a) sessions of clients and game servers come, go and come back in
any order, and every handler relies on what earlier ones left in four maps, two
kinds of node and a table; (b) web goroutines change the tables between two
statements of a handler, and between each other's statements: there is no
transaction in the program; (c) most errors of the database are ignored or read
as a default value; (d) a restart keeps the tables and loses the rest; (e) HTTP
handlers and the main goroutine wait on each other over bounded channels.
`PROJECT.json` lists the hazards one by one, each at its line, with the
properties about it.

**What makes it correct.** Sessions: a player is on one game server at a time,
rows name registered servers, a session is not taken over, a late report does
not end another session. Donations: no money is invented, none is lost, no more
is spent than given, an order counts once. Messages: every request is answered,
a refusal means that nothing was done, the main goroutine is never held up.
Rooms: a password guards its room, an id names one room. Role store: a name
belongs to one role, table and save file agree. Offline saves: nothing popped
is lost.

## 2. Modules

| Module | What it is |
|---|---|
| `Presence` | abstract: which game servers are up, which one a player is on |
| `LoginSession`, `MCLoginSession` | client and game server sessions, online players, restart |
| `RoleSaves`, `MCRoleSaves` | the data of played roles in files and on game servers, composed with `Presence` |
| `NameRegistry` | abstract: who holds a role name |
| `RoleStore`, `MCRoleStore` | roles in save files, name columns and rank rows |
| `Accounts` | sign-up and password change over the web and `/rs`, statement by statement |
| `AdminSession`, `MCAdminSession` | extends `Accounts`: `/admin` sessions and administrators |
| `Donate`, `MCDonate` | the donation ledger, one SQL statement per step |
| `MainThread`, `MCMainThread` | the message channel of the main goroutine, and rooms |
| `RankCache` | the cached rank list and its way to game servers |
| `ServerListPage`, `MCServerListPage` | extends `RankCache`: the page that asks the main goroutine for the game servers |
| `RedisBridge`, `MCRedisBridge` | saves that come through Redis |
| `LoginSessionProofs`, `RoleSavesProofs`, `RoleStoreProofs`, `MainThreadProofs`, `RedisBridgeProofs`, `ServerListPageProofs`, `AdminSessionProofs`, `DonateProofs` | theorems about the module in the name |

A definition under a comment that begins with "Bug:" is its neighbour with a
plausible mistake; it is used only to see that a property notices (`mutants` in
`PROJECT.json`). Variables called "history" in their declaration are not in the
program; properties need them, and but for bounds no guard reads them. What is
called "bound" is there for TLC.

### LoginSession

*State.* `clientNodeMap` is the set of keys of the map; `node[lid]` the
`ClientNode` (uid, game server id, and the pair gsConnId/connCode as `gid`);
`clientUserMap`, `serverNodeMap`, the two seeds as in the code; `serverOpen`
and `serverId` the userdata of game server connections; `online` the rows of
`online_player` (a set: rows that differ in the key column only are removed
together and read alike); `accounts` the accounts that exist, `sent` what the
last event sent. A connection is named by the number the program gives it.

*Actions.* One per event handler and opcode, with the guards and early returns
of the code; `onEventFromClientBadData`/`onEventFromServerBadData` for packets
that only close a connection or do nothing. `verifyAccount` is two actions,
because a web goroutine (`SignUp`) may insert the account between its two
reads; all other handlers wait for it (`MainIdle`). `enterGame` is the tail of
`onLoginGame`: the results of the save file are nondeterministic, one of three
refusals or the data being sent and the row written; extended data that cannot
be read are announced to the client as an invalid save and do not stop the
login. `onPlayerDisconnectedNtf` takes any uid and LID: they are what a game
server says. `Restart` is a crash at any time, followed by what `main()`
resets. With `DbFaults` any statement may fail: a failing write is ignored, a
failing look-up of the server reads as "not online", that of an account as
"exists" when the query is refused and as "does not exist" when its first row
cannot be fetched. `reported` (history) is the session that the report handled
last was about.

*Left out.* The contents of packets, access token strings (a token is right or
wrong); packets that concern roles and ranks are in `RoleStore`, `RoleSaves`
and `RankCache`.

### Presence, and the refinement

`Presence` promises: a player enters a server only when it is on none or on
that one, only a server that is up, leaves it alone or when it goes down; a
restart empties everything. The mapping takes `up` to the ids in
`serverNodeMap` and `home[u]` to the server named by u's rows. Every handler of
`LoginSession` maps to one of its steps or to a stutter. Two rows of one player
(two clients on one server) collapse into one home, and a player leaves with
the last row.

### RoleSaves

Uses the steps of `Presence` (by `INSTANCE`) as the promise that sessions keep
and adds the data: `file[u]` the versions of the three parts of a save file,
`copy[s][u]` what the data in a game server's memory are based on, `Unread` for
a part that was not read: the login goes on without it when `ReadExtendData`
fails or a size reads as 0, and the next save writes over it. `Save` is the
handler of the two save packets: it asks whether the game server is registered,
not whether the player is there, and any of its writes may fail without an
answer. `severed` names the players whose role a game server kept while it was
cut off: for them the promise says nothing. *External*, modelled from what the
code does with it: a game server saves roles in its memory only, replaces them
when it is sent the data again, and drops a role when it reports that the
player left.

### RoleStore, NameRegistry

*State.* `hum[u]` the roles in a save file, `name[u][i]` the name columns,
`rank` the rows of `player_rank`, `playing` the roles in the memory of game
servers (they report ranks, also of roles deleted since). *Actions.*
`onCreateHumReq`, `onDelHumReq`, `UpdatePlayerRankReq` are the whole handlers:
file first, then the statements, each of which may fail while the handler goes
on. Refused requests change nothing and are no steps. A look-up that fails
reads as "exists" or as "does not exist", depending on where it fails: a name
may be given twice, and a second rank row inserted (`doubled`). The DLL refuses
a name that is in the file and a role beyond the third; it is external. A
process that dies in a handler is the case in which the rest of its statements
fails.

`NameRegistry` promises: a name is claimed while nobody has it, and released or
forgotten with all names of its player. The mapping takes the holders of a name
to the players without a failed statement whose file has the role.

### Accounts, AdminSession

A request is a process with a message that is fixed at the start, and one
action per statement. Between the statements everybody else acts; `/rs` runs on
the main goroutine, so that one of its requests is finished before the next
begins (`MainIdle`). `useraccount` has the constraint on the column account,
hence `dbInsertUserAccountInfo` checks with the insertion; `admin_account` has
none, hence an account may have several rows, told apart by the primary key the
database chooses (`NextId`); the first one found counts. A look-up that fails
may read either way (`dbUserAccountExist`, `dbAdminAccountExists`); a row that
was found is taken to be readable. Names of 20 characters (`TooLong`) pass the
form and are skipped by the insertion.

`AdminSession` adds the sessions: `NewAdminHandlerSession` is three steps, the
read and the write of the unprotected counter and the locked part, which may
remove old sessions by a time taken before the lock. `adminHandler` is the
check of the cookie that `add_admin` and `del_admin` begin with. `now` moves at
any time. The switch of the room list is in `MainThread`.

### Donate

*State.* Rows of `userdonatehistory`, the balance `userdonate.donate` of each
player or `None`, rows of `userdonateconsume`, and what each request in
progress has read. *Actions.* `dbIncUserDonateInfoEx` and `dbOnConsumeDonate`
one SQL statement per step, so that two requests interleave as goroutines do;
every insert and update may fail, with `mode.readFaults` every query may fail
and then reads as the code makes it read (TRUE, 0 or no row); `Crash` ends all
requests in progress. `SumHistory` merges the check of the row with the sum:
rows of `userdonate` are never deleted. Rows carry the request that wrote them
so that equal rows stay apart. Amounts are positive and sums below 2^31, so
that the conversions of `sql.go` 787–800 (`int32`, `FormatUint`) change
nothing. `mode` is chosen at the start from `Modes` and bounds the traffic: how
many orders and purchases run at a time and whether queries fail. Two
properties hold in some modes only and name them.

### MainThread

*State.* `queue` is the contents of `g_chanMainThread` followed by the messages
of blocked senders, which Go serves in order; beyond `ChanCap` (20 in the code)
a sender is blocked. `retChan` are the channels of capacity 1. `sending` is the
handler on whose channel the main goroutine is blocked, if any. `rooms`, `seed`
and `enabled` are the globals. *Actions.* Handlers post, receive and give up;
`ProcessMThreadMsg` has one action per event; `SendAgain` is the second send of
`LsModifyPassword` after a failed statement. Of what `/rs` does to the accounts
only the ending is here (`Endings`): a row was changed, none was although no
INSERT or UPDATE failed, the statement failed, or the request was refused; the
first two are answered alike. `Accounts` has the rest. `MainThreadInit` makes
the channel; `main()` starts the HTTP servers before that, and a request that
comes in between is `Stuck` in a send on a nil channel. `Online` and `Note` of
a room are left out. There is no expiry of rooms because the code never gets to
it: see "Findings and remarks".

### RankCache, ServerListPage

`RankCache`: time in seconds, the tick channel of capacity 1, the two times the
code keeps, and for each game server the second in which its list was read. The
main goroutine gets to a tick within `MaxDelay`. `ServerListPage` adds the
page's goroutine and an answer of several steps. The slice `event.servers` is a
pointer and a length that two goroutines assign without synchronisation once
the page has given up; the words of the two assignments come to memory in any
order, and what is read may be a mixture (`Garbage`).

### RedisBridge

The list `bmevent` and the hash `playerdata` in Redis, the goroutine
`go_popRedis` with one action per command (`LPOP`, `HKEYS`, `HGET`, the send on
`outputChan`, `HDEL`), and the main loop, which drops what it receives because
the save is commented out. Game servers write the hash and push the event, two
commands. A command is refused, or the connection breaks, perhaps after the
command was carried out; it is never mended, so that everything fails until
`Restart`.

## 3. Runs

| Run | Instance | Shows |
|---|---|---|
| `login_session` | 2 players, 2 clients, 3 game server connections, 2 server ids, no faults (276,159 states) | all session properties and the refinement of `Presence` |
| `login_late_signup` | 1 player, 1 client | violation: verified but not in `clientUserMap` |
| `login_db_fault` | 1 player, 2 clients, 2 servers, faults | violation: one player on two servers |
| `role_saves` | 1 player, 3 game servers, 2 saves, parts that cannot be read (308,453) | no save is written over unread, unless a game server was cut off with the role or could not read the part |
| `role_store` | 2 players, 3 names, 2 columns, 2 roles played, faults (327,311) | names, files and ranks agree; the refinement of `NameRegistry` |
| `admin_session` | 4 requests, 3 accounts, 4 workloads, faults (1,113,925) | accounts are not taken over; removed administrators, clean-up |
| `donate` | 2 modes: 4 requests, 2 orders and 2 purchases at a time, failing queries; 5 requests of one operator, queries that work (199,957) | no money invented, accepted orders credited, overspending bounded |
| `donate_overspend` | 3 requests | violation: two purchases of the same money |
| `main_thread` | 4 requests, 2 rooms, 1 password, capacity 2, failing statements, a channel made late (1,551,856) | rooms, what answers are worth, what may block the main goroutine |
| `main_thread_live` | 3 requests, capacity 1, no failing statement (168,910) | every request that finds the channel is served; no deadlock |
| `server_list_page` | 2 game servers, 1 page, 12 s, periods 3, 3, 2 s (2,033,972) | how old a list gets; a page in time shows a true list |
| `redis_bridge` | 2 roles, 2 saves each, capacity 1, failing commands (85,033) | saves are kept and, without failures, forwarded |

*Bounds.* `MaxLid` and `MaxServerConn` bound connections between two restarts;
a restart gives the numbers back, so behaviours are unbounded. Two clients of
one player on two servers is the smallest case of every conflict; three game
server connections let a server come back under its id while another is up, and
a connection be refused because the id is taken. `Requests`, `Handlers` and
`Pages` bound the requests of a behaviour; the races need two requests for one
player and an earlier one that made the balance, the reuse of a room id needs
four. Two columns are the smallest number in which order matters; three names
let a player who is full meet a free name. The workloads of `admin_session` are
each built around one race (who registers a name, who inserts an administrator
twice, who removes whom, who counts). The periods of `server_list_page` are the
least whose rounding and phases differ; twelve seconds are two rounds of all
three. Two saves let a newer one meet each stage of an older one. In
`role_saves` one player is enough, because no handler changes what belongs to
two of them, and three game servers let a role be cut off on two of them while
it is played on the third.

*Symmetry.* Players, servers, names, orders, requests, rooms and passwords are
symmetric in the safety runs that use it (no definition tells them apart);
those runs check invariants, properties of single steps and refinements of
safety only, for which the reduction is sound. The runs with liveness
(`main_thread_live`, `redis_bridge`) use no symmetry, nor does `admin_session`,
whose requests differ.

*Deadlock* is not checked where the system really may stop: `main_thread` (the
main goroutine is blocked for good after a failed password change whose handler
gave up), `role_store` (a player whose columns filled up through failures and
whose name is everywhere can do nothing more), `admin_session` (all requests
are used up) and `server_list_page` (the last second has come).

*Fairness.* `MainThread!FairSpec`: weak fairness of the main loop, which does
nothing but wait and process, and of each handler that has an answer: a
goroutine that can run eventually does. Before `MainThreadInit` nothing is in
the channel and nothing is asked of the main loop. Messages come out of the
channel in the order they went in, so weak fairness is enough.
`RedisBridge!FairSpec`: weak fairness of `go_popRedis`, which tries again every
500 ms, and of the main loop's receive. No fairness is assumed of requests,
time-outs, game servers or failures; `SavesForwarded` promises something only
while nothing fails. The `select` of the main loop picks among ready channels
at random, so that TCP traffic does not starve it; it is not modelled.

## 4. Proofs

All theorems hold for every value of the constants that satisfies the named
assumptions: any sets of players, servers, names, requests, and any bound.

**`LoginSessionProofs`.** `TypeCorrect`, `SessionsSound`, `BindingIsFixed` and
`RowsRemovedNarrowly` hold whether statements fail or not; `OneServerAtATime`
and `Implementation` assume `~DbFaults`, and the run `login_db_fault` shows
that they need it. The argument has two layers. `SessionInv` is inductive for
any `DbFaults`. `RowMatchesClient` (a row whose client is connected agrees with
its node) alone is not: a new client could be given the LID of an old row. So
`LidsFresh` (no LID in use is ahead of the seed) comes in; likewise
`ServerConnsFresh` for game server connections and `RegistryConsistent`, which
is what makes the deletion of a map entry by server id safe. `VerifyingLive`
carries the guard of `verifyAccountBegin` over to `verifyAccountEnd`, so that a
client is not verified twice. `NextSessionInv` has one step per action; actions
that change none of the variables concerned share `QuietSessionInv`.
`RowsRemovedNarrowly` goes through the three handlers that delete rows: a
report deletes by uid, server and LID, hence only the row it is about, a
disconnect by the server id whose entry it takes from the map, and a restart
empties the map. `PresenceInv` is inductive on top of it without faults.
`OneServerPerPlayer` holds after `onLoginGame` because the lookup returns the
one server the player has rows at (`RowsExact`, `LoginGameStep`), and after
everything else because rows are only removed. `OnlineServerRegistered` rests
on the deletion of the rows with the map entry. The refinement then follows
action by action; `HomeOfRow` and `HomeOfNone` compute the refinement mapping
from the rows, `TheOneOfSingleton` is the one fact about `CHOOSE` it needs.

**`RoleSavesProofs`.** `SavesSafe` from the invariant `CopiesTrue`: a player
who is not in `severed` has a copy only on the game server he plays on, and
each part of it is what is in the file or `Unread` (`TrueTo`). It is inductive
because the steps of `Presence` let nobody enter a second game server;
`WithoutCopyLeaves` says when a player leaves `severed`.

**`RoleStoreProofs`.** `ColumnsTrue`, `RanksOwned`, `StoreImplementsRegistry`.
That columns and file agree after a role was created rests on counting: a
player whom the DLL does not refuse has fewer roles than columns, and while
they agreed that leaves a column free (`ColumnLeft`); that `FirstOf` then finds
one is the least element of a finite set (`FirstOfExists`). Two holders of a
name would need a name that `dbUserNameExist` misses, which the agreement
excludes for players without a failed statement; what the rest may do the
registry's `Forget` covers. `RanksOwned` keeps the names that got a second row
in `doubled`, which is empty without faults and loses a name when all its rows
are deleted.

**`ServerListPageProofs`.** `RankListsYoung` needs to know where in its period
the clock is: `TicksHandled` relates the time of the last send to the last
second in which a tick was due (`NextRemainder` is the arithmetic),
`ListsFresh` the lists to the sends. `PagesTrue` rests on main() having written
both words, and the page none, when the channel is closed before the time is
up.

**`RedisBridgeProofs`.** `PopperNeverMisses` and `LastSaveKept` from
`BridgeInv`: the hash has the last version of a role or none (`HashIsLast`),
what has been read of the key at work is the last version unless a game server
came in between (`WorkIsLast`), and nobody but the goroutine deletes
(`KeysHeld`).

**`MainThreadProofs`.** `MainTypesCorrect`, `MainBlockedRarely`, `AnswersTrue`,
`IdsKept`, `PasswordsGuard`, from one invariant. `QueueSound` says that a
message is in the channel once and that nothing was done for it before
(`Untouched`); this keeps the channels of capacity 1 from blocking and answers
from being changed. `AnswersTrue` says what an answer is worth: a refusal, that
the request changed nothing, a success, that its statement did not fail. The
second answer of a failed password change, which is TRUE, reaches nobody: a
handler reads one answer, and the first comes first. `AnswersSound` speaks of
answers from the moment they are sent, taken or not; it is kept because a room
that is new has an id above all that were named (`RoomsStep`). `SeedCounts`
bounds ids by the messages taken from the channel.

**`AdminSessionProofs`.** `AccountsNotStolen` and `SuccessTrue` from
`AccountInv`, `CleanupSpares` and `RevocationBounded` from `SessionInv` on top
of it. A success is worth something because a name that was free when the
request looked can only have been taken by a request that was not answered then
(`FreeWhenChecked`, `BeforeAnswered`), and a password change still finds the
mail address it compared because nothing removes a row or changes its address
(`MatchedKept`). `RequestStep` does the work once for all steps of a request;
each action contributes what it does to the rows (`RowsStep`). For the
sessions, `SuperKnown` says that a super administrator is noted as one now, so
that the level a verification reads is vouched for by a time no earlier than
the reading (`Vouched`), which only grows. `None \notin Nat` and `Timeout \in
Nat` are assumed. `AdminsMadeOnce` from `AdminsInv`: when a request has found
no row of an account, whoever inserts one before it does was not answered when
it began (`FreshWhenAdding`), unless its own look-up failed and it is in
`faulted` (`Looked`); and a new id is above the others (`NextIdFacts`).
`CleanupOnTime` from `CounterInv`, in which `Readers` and `Writers` are the
verifications between the read of the counter, its write and the lock. What is
stored or about to be is counted but for one per overlap (`Counted`), and stays
so when an increment is lost because it is also bounded by what each reader is
about to write (`CountedByReaders`); after a reset only those still in the
making are left, which is what the count of overlaps begins with
(`OverlapsNoted`). Nothing is assumed about the number of requests: those at a
step are finitely many because they come to it one by one. `AdminTyped` needs
the invariants of all three (a level that was read is that of a row, hence the
least id of some, `LevelOfAdmin`).

**`DonateProofs`.** `LedgerTyped`, `NoMoneyMade`, `OrdersRecordedOnce`,
`OrdersCredited` and `OverspendLimited` from one invariant, `LedgerInv`. The
sums of the model are folds, and what a fold returns cannot be had by unfolding
it. The first part of the module shows that a sum over a finite set is a number
of coins, the cardinality of the set of pairs of a row and a number below its
amount (`SumIsWorth`; two functions that add up alike are equal because there
is no least set on which they differ, `AddsUpOnce`). Additions and comparisons
of sums are then facts about unions and subsets (`DonatedInMore`,
`SpentInMore`). `NoMoneyInvented` is inductive with `RowsRecorded`, which says
what a request has written at each step. Orders are counted with the requests
that have found the id unused (`OrdersCounted`), of which there are no more
than run at a time (`AtOnce`). `OverspendCounted` counts a purchase as made
once its player was found able to pay; the one that is found so spends no more
than was donated, and the others at most the highest price each
(`PayableFits`). With one operator a sum stays true until it is written
(`SumsFresh`), so that accepted orders are credited (`Credited`). Assumed are
finitely many requests and prices, which a process and its items are, positive
amounts, and that `None` is none of the values.

*Only model-checked:* the three violations, and liveness (fairness and
`ENABLED` are beyond the prover).

## 5. Findings and remarks

Three runs of expectation "violation" each show a disagreement with what a
comment or a test says; `PROJECT.json` quotes them. Beyond these:

* An order id that two operators enter at the same time is recorded twice:
  `OrderRowsBounded` allows as many rows as there are orders at a time.
  `sql_test.go` 125–129 expects that a second one is refused, which is so once
  the first is recorded.
* With two operators an accepted order may be missing in the balance until the
  next one: the sum read first is written last. `AcceptedIsCredited` is about
  one operator for this reason.
* `LsModifyPassword` lacks a return after its negative answer
  (`main_thread_process.go` 315): `OnlyFailedUpdateBlocks` says that nothing
  else blocks the main goroutine, and `RepliesTrue` that the caller is not told
  "success" all the same.
* `/rs` answers "success" when nothing was changed: to a password change of an
  unknown account (an UPDATE of no row, `sql.go` 1156), and to a registration
  whose name was taken after the first look-up (`sql.go` 1086).
* `main.go` 138–160: a request to the HTTP servers that comes before
  `MainThreadInit` sends on a nil channel and blocks its goroutine for good.
  `EveryRequestServed` is about the others.
* Look-ups of the kind "does it exist" read as "no" when the first row cannot
  be fetched (`rows.Next`), and as "yes" when the query is refused. The first
  makes a second row of a rank (`sqlv2.go` 304) or of an administrator
  (`sql.go` 330) without any overlap, and gives a role name to a second player
  (`sql.go` 1189).
* A login goes on when the extended data of a role cannot be read, or a size
  reads as 0 (`handle_eventfromclient.go` 382, 475); the next save then writes
  over what was not loaded.
* `UpdateMThreadMsg` (30 s) and `ReadControlAddr` (5 min) hang on `time.After`
  in a `select` that the 5 s ticker turns first; the timers begin anew in every
  turn. Rooms never expire.
* After its game server reconnected a client is still bound to the old
  connection's ids, and cannot be claimed anew; it must reconnect.
* A game server that was cut off with a role in memory and comes back may write
  over saves that were made elsewhere meanwhile: `SavePlayerData` does not ask
  where the player is.
* A rank report that comes in after the role was deleted brings its row back,
  under a name that is free; the next player who takes the name finds it.
* A sign-up whose name was taken between the check and the insertion is told
  "success". `AnswersExplained` says what success is worth: the account was
  made by this request or by one that was still running when it began, or name
  or password were too long.
* Two `add_admin` for one account at a time may make two rows, of which the
  first counts; `del_admin` removes both. A removed administrator keeps acting
  for as long as his session lasts, 30 minutes and the time his verification
  took.
* The counter of the `/admin` sessions loses increments when sessions are made
  at the same time; each such overlap may put off the next removal of old ones
  by one session, and that of no later one.
* The rank list on a game server may be more than a minute old: cache and
  sending have the same period and do not know of each other.
* A page of the server list that gave up may read a slice with the pointer of
  one list and the length of another (`webServersHandler`); a page that was
  answered does not.
* Saves that come through Redis are deleted there and dropped here.

## 6. Not modelled

* Web sign-in, cookies, permission levels, templates: functions of one request.
* The access list of `/rs`: read from a file once, its refresh is never
  reached.
* The scheduler (`AddJob` is never called); the crash report, system gift and
  donate request tables (helpers without callers, or one read).
* `VerifyAdmin`, `AddAdmin`, `DelAdmin`, `ScheduleActive` of the message
  channel have no sender; `DelAdminHandlerSession`, `dbUpdateAdminAccount`,
  `dbRemoveUserAccountInfo`, `dbIsPlayerOnline`, `dbIncUserDonateInfo` (but by
  a test) no caller; `CheckOfflineUserGameServer` is never reached.
* Message framing, logging, generated protocol code, the upgrade tool:
  encoding, or sequential and run once.
* The contents of save files and of `BMHumSaveControl.dll`, what game servers
  do with the numbers they are given, SQLite and Redis beyond what each
  statement returns.
* Negative donations, and sums from 2^31 on (`sql.go` 787–800): the number they
  become in the database is a matter of conversions (`int32`, `FormatUint`),
  not of steps.
* What a failed statement leaves to the one it failed for: players with a
  failed statement are exempt from `ColumnsMatchFile`, requests with one from
  `AdminOnce` and `AnswersExplained`; what is shown is that nobody else is
  affected. After a delete of online rows that failed, the rows stay:
  `login_session` has no faults. With them only `TypeCorrect`, `SessionsSound`,
  `BindingIsFixed` and `RowsRemovedNarrowly` remain.
* That the row of an administrator was found but cannot be scanned.

## 7. Plan

Every safety property of a run is a theorem. What is left:

1. Liveness of `MainThread` and `RedisBridge` stays with TLC; its safety part
   (who waits for whom, and in which order the channel is served) can be stated
   and proved.
2. Negative and very large donations, as numbers of 32 and 64 bits.
