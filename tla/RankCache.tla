------------------------------ MODULE RankCache ------------------------------
(***************************************************************************)
(* The rank list that game servers show: the main goroutine reads it from  *)
(* player_rank, keeps it in a cache for a while (player_rank.go), sends it *)
(* to a game server that registers (handle_eventfromserver.go) and, from   *)
(* time to time, to all of them (timer_event.go).                          *)
(*                                                                         *)
(* A list is told by the second in which it was read; that one of its four *)
(* queries may have failed, and left a part of it empty, changes nothing   *)
(* here: it is kept and sent as long as a good one.  Time is whole         *)
(* seconds, as in the code.                                                *)
(*                                                                         *)
(* A definition marked "Bug:" is the one after it with a plausible mistake *)
(* in it.  No specification uses it; it shows what the properties catch.   *)
(***************************************************************************)
EXTENDS Integers

CONSTANTS
    ServerIds,   \* game servers
    CacheSec,    \* a list is read again when it is that old: 30
    SendSec,     \* lists are sent when that has passed since the last: 30
    TickSec,     \* period of timerTick: 5
    MaxDelay,    \* how long the main goroutine may take to get to a tick
    MaxNow       \* bound: the last second of a behaviour

ASSUME RankAssumption ==
    /\ {CacheSec, SendSec, TickSec} \subseteq Nat \ {0}
    /\ MaxDelay \in 0..(TickSec - 1)
    /\ MaxNow \in Nat

VARIABLES
    now,        \* time.Now().Unix(), counted from the start of the program
    tick,       \* when the tick in the channel timerTick was sent, or NoTick
    servers,    \* keys of serverNodeMap: the registered game servers
    held,       \* held[s]: when the list that s has was read
    listRead,   \* when g_RankListCache was read
    cacheTime,  \* g_LastRankListCacheTime
    sendTime    \* g_lastSendPlayerTime

rankVars == <<now, tick, servers, held, listRead, cacheTime, sendTime>>

-----------------------------------------------------------------------------

NoTick == -1

\* Long ago: the value 0 of the two times, and of a list nobody has.
Never == 0 - (CacheSec + SendSec + 1)

\* Bug: each use keeps the list in the cache.
getPlayerRankList_sliding ==
    /\ listRead' = IF now - cacheTime < CacheSec THEN listRead ELSE now
    /\ cacheTime' = now

\* The four queries: the best ten of all, and of each job.
ReadRanks == listRead' = now

\* The list to send is listRead'.
getPlayerRankList ==
    IF now - cacheTime < CacheSec
    THEN UNCHANGED <<listRead, cacheTime>>
    ELSE /\ cacheTime' = now
         /\ ReadRanks

\* A game server registers; a second registration of its id is refused.
RegisterServer(s) ==
    /\ s \notin servers
    /\ servers' = servers \union {s}
    /\ getPlayerRankList
    /\ held' = [held EXCEPT ![s] = listRead']
    /\ UNCHANGED <<now, tick, sendTime>>

onEventFromServerDisconnected(s) ==
    /\ s \in servers
    /\ servers' = servers \ {s}
    /\ held' = [held EXCEPT ![s] = Never]
    /\ UNCHANGED <<now, tick, listRead, cacheTime, sendTime>>

\* Bug: the list goes to every id, whether its game server is there or not.
SendRankList_all ==
    /\ sendTime' = now
    /\ getPlayerRankList
    /\ held' = [s \in ServerIds |-> listRead']

\* With no game server the list is not asked for.
SendRankList ==
    /\ sendTime' = now
    /\ IF servers = {} THEN UNCHANGED <<listRead, cacheTime, held>>
       ELSE /\ getPlayerRankList
            /\ held' = [s \in ServerIds |->
                           IF s \in servers THEN listRead' ELSE Never]

UpdateTimerEvent ==
    /\ tick # NoTick
    /\ tick' = NoTick
    /\ IF now - sendTime > SendSec THEN SendRankList
       ELSE UNCHANGED <<held, listRead, cacheTime, sendTime>>
    /\ UNCHANGED <<now, servers>>

\* A second passes.  The main goroutine gets to a tick before it is older than
\* MaxDelay, so the channel, which has room for one, never drops a tick.
Second ==
    /\ now < MaxNow
    /\ tick # NoTick => now - tick < MaxDelay
    /\ now' = now + 1
    /\ tick' = IF now' % TickSec = 0 THEN now' ELSE tick
    /\ UNCHANGED <<servers, held, listRead, cacheTime, sendTime>>

RankInit ==
    /\ now = 0
    /\ tick = NoTick
    /\ servers = {}
    /\ held = [s \in ServerIds |-> Never]
    /\ listRead = Never
    /\ cacheTime = Never
    /\ sendTime = Never

RankTypeOK ==
    /\ now \in 0..MaxNow
    /\ tick \in {NoTick} \union 0..now
    /\ servers \subseteq ServerIds
    /\ held \in [ServerIds -> {Never} \union 0..now]
    /\ \A s \in ServerIds \ servers : held[s] = Never
    /\ {listRead, cacheTime, sendTime} \subseteq {Never} \union 0..now

-----------------------------------------------------------------------------
(* Properties *)

\* A game server never shows a list that was read longer ago than a cached list
\* may be, plus the time until the next one is sent: the three periods, and the
\* time the main goroutine takes, add up, and nothing that game servers do in
\* between, such as registering again, extends them.
RankLagBounded ==
    \A s \in servers :
        now - held[s] <= (CacheSec - 1) + SendSec + TickSec + MaxDelay
=============================================================================
