------------------------ MODULE ServerListPageProofs ------------------------
(***************************************************************************)
(* ServerListPage for any game servers, pages, periods and length of a     *)
(* behaviour: the types, the age of the lists on game servers, and what a  *)
(* page shows.                                                             *)
(***************************************************************************)
EXTENDS ServerListPage, TLAPS

-----------------------------------------------------------------------------
(* Counting seconds modulo a period *)

LEMMA DivisionFacts ==
    ASSUME NEW n \in Nat, NEW k \in Nat \ {0}
    PROVE  /\ n = k * (n \div k) + (n % k)
           /\ n % k \in 0..(k - 1)
           /\ n \div k \in Nat
OBVIOUS

LEMMA DivisionUnique ==
    ASSUME NEW k \in Nat \ {0}, NEW q \in Nat, NEW r \in 0..(k - 1),
           NEW p \in Nat, NEW s \in 0..(k - 1), k * q + r = k * p + s
    PROVE  r = s
<1>1. k * (q - p) = s - r
  OBVIOUS
<1>2. q - p >= 1 => k * (q - p) >= k
  OBVIOUS
<1>3. q - p <= -1 => k * (q - p) <= -k
  OBVIOUS
<1> QED BY <1>1, <1>2, <1>3

\* The remainder of the next second.
LEMMA NextRemainder ==
    ASSUME NEW n \in Nat, NEW k \in Nat \ {0}
    PROVE  /\ n % k = k - 1 => (n + 1) % k = 0
           /\ n % k # k - 1 => (n + 1) % k = (n % k) + 1
<1> DEFINE q == n \div k
           r == n % k
           p == (n + 1) \div k
           s == (n + 1) % k
<1>1. n = k * q + r /\ r \in 0..(k - 1) /\ q \in Nat
  BY DivisionFacts
<1>2. n + 1 = k * p + s /\ s \in 0..(k - 1) /\ p \in Nat
  <2>1. n + 1 \in Nat
    OBVIOUS
  <2> QED BY <2>1, DivisionFacts
<1> HIDE DEF q, r, p, s
<1>3. ASSUME r = k - 1 PROVE s = 0
  <2>1. q + 1 \in Nat /\ 0 \in 0..(k - 1)
    BY <1>1
  <2>2. k * (q + 1) + 0 = k * p + s
    BY <1>1, <1>2, <1>3
  <2> QED BY <1>2, <2>1, <2>2, DivisionUnique
<1>4. ASSUME r # k - 1 PROVE s = r + 1
  <2>1. r + 1 \in 0..(k - 1)
    BY <1>1, <1>4
  <2>2. k * q + (r + 1) = k * p + s
    BY <1>1, <1>2
  <2> QED BY <1>1, <1>2, <2>1, <2>2, DivisionUnique
<1> QED BY <1>3, <1>4 DEF r, s

-----------------------------------------------------------------------------
(* The age of the rank lists *)

\* The last second in which a tick was due.
LastDue == now - (now % TickSec)

\* A behaviour starts as if lists had been sent SendSec before.
LastSend == IF sendTime = Never THEN 0 - SendSec ELSE sendTime

\* A tick that was processed has sent the lists or found them young enough; one
\* that waits is the last one due.
TicksHandled ==
    /\ tick = NoTick => LastSend >= LastDue - SendSec
    /\ tick # NoTick =>
          /\ tick = LastDue
          /\ now - tick <= MaxDelay
          /\ LastSend >= LastDue - TickSec - SendSec

\* A list was fresh enough for the cache when it was last sent, or later.
ListsFresh ==
    /\ listRead = cacheTime
    /\ \A s \in servers :
          /\ held[s] >= 0
          /\ held[s] >= sendTime - (CacheSec - 1)

RankInv == RankTypeOK /\ TicksHandled /\ ListsFresh

LEMMA InitRankInv == RankInit => RankInv
<1> USE RankAssumption DEF RankAssumption
<1>1. 0 % TickSec = 0
  <2>1. 0 \in Nat /\ TickSec \in Nat \ {0}
    OBVIOUS
  <2> QED BY <2>1
<1> QED BY <1>1 DEF RankInit, RankInv, RankTypeOK, TicksHandled, ListsFresh,
                    LastDue, LastSend, Never, NoTick

\* The list that is sent has been read, and not longer ago than CacheSec - 1.
LEMMA CachedListFresh ==
    ASSUME RankInv, getPlayerRankList
    PROVE  /\ listRead' = cacheTime'
           /\ listRead' \in 0..now
           /\ now - listRead' <= CacheSec - 1
BY RankAssumption
   DEF RankAssumption, getPlayerRankList, ReadRanks, RankInv, RankTypeOK,
       ListsFresh, Never

LEMMA RegisterServerInv ==
    ASSUME RankInv, NEW s \in ServerIds, RegisterServer(s) PROVE RankInv'
<1> USE RankAssumption DEF RankAssumption, RegisterServer
<1>1. /\ listRead' = cacheTime' /\ listRead' \in 0..now
      /\ now - listRead' <= CacheSec - 1
  BY CachedListFresh
<1>2. sendTime \in {Never} \union 0..now /\ now \in Nat
  BY DEF RankInv, RankTypeOK
<1>3. held' = [held EXCEPT ![s] = listRead'] /\ servers' = servers \union {s}
  OBVIOUS
<1>4. RankTypeOK'
  BY <1>1, <1>2, <1>3 DEF RankInv, RankTypeOK, NoTick, Never
<1>5. TicksHandled'
  BY DEF RankInv, TicksHandled, LastDue, LastSend, Never, NoTick
<1>6. ListsFresh'
  BY <1>1, <1>2, <1>3 DEF RankInv, RankTypeOK, ListsFresh, Never
<1> QED BY <1>4, <1>5, <1>6 DEF RankInv

LEMMA DisconnectInv ==
    ASSUME RankInv, NEW s \in ServerIds, onEventFromServerDisconnected(s)
    PROVE  RankInv'
<1> USE DEF onEventFromServerDisconnected
<1>1. RankTypeOK'
  BY DEF RankInv, RankTypeOK, NoTick, Never
<1>2. TicksHandled'
  BY DEF RankInv, TicksHandled, LastDue, LastSend, Never, NoTick
<1>3. ListsFresh'
  BY DEF RankInv, RankTypeOK, ListsFresh
<1> QED BY <1>1, <1>2, <1>3 DEF RankInv

LEMMA UpdateTimerEventInv ==
    ASSUME RankInv, UpdateTimerEvent PROVE RankInv'
<1> USE RankAssumption DEF RankAssumption
<1>0. /\ now \in Nat /\ tick \in 0..now /\ tick' = NoTick
      /\ now' = now /\ servers' = servers
      /\ sendTime \in {Never} \union 0..now
      /\ now % TickSec \in Nat /\ LastDue' = LastDue
  BY DivisionFacts
     DEF UpdateTimerEvent, RankInv, RankTypeOK, LastDue, TicksHandled, NoTick
<1>1. CASE now - sendTime > SendSec
  <2>1. sendTime' = now /\ SendRankList
    BY <1>1 DEF UpdateTimerEvent, SendRankList
  <2>2. TicksHandled'
    BY <1>0, <2>1 DEF TicksHandled, LastDue, LastSend, Never, NoTick
  <2>3. CASE servers = {}
    BY <1>0, <2>1, <2>2, <2>3
       DEF SendRankList, RankInv, RankTypeOK, ListsFresh, NoTick, Never
  <2>4. CASE servers # {}
    <3>1. /\ listRead' = cacheTime' /\ listRead' \in 0..now
          /\ now - listRead' <= CacheSec - 1
      BY <2>1, <2>4, CachedListFresh DEF SendRankList
    <3>2. held' = [s \in ServerIds |->
                      IF s \in servers THEN listRead' ELSE Never]
      BY <2>1, <2>4 DEF SendRankList
    <3> QED BY <1>0, <2>1, <2>2, <3>1, <3>2
            DEF RankInv, RankTypeOK, ListsFresh, NoTick, Never
  <2> QED BY <2>3, <2>4
<1>2. CASE ~(now - sendTime > SendSec)
  <2>1. UNCHANGED <<held, listRead, cacheTime, sendTime>>
    BY <1>2 DEF UpdateTimerEvent
  <2>2. sendTime # Never
    BY <1>0, <1>2 DEF Never
  <2>3. TicksHandled'
    BY <1>0, <1>2, <2>1, <2>2 DEF TicksHandled, LastDue, LastSend, Never, NoTick
  <2> QED BY <1>0, <2>1, <2>3
          DEF RankInv, RankTypeOK, ListsFresh, NoTick, Never
<1> QED BY <1>1, <1>2

LEMMA SecondInv == ASSUME RankInv, Second PROVE RankInv'
<1> USE RankAssumption DEF RankAssumption
<1>0. /\ now \in Nat /\ now' = now + 1 /\ now' <= MaxNow
      /\ UNCHANGED <<servers, held, listRead, cacheTime, sendTime>>
      /\ tick \in {NoTick} \union 0..now
      /\ sendTime \in {Never} \union 0..now
      /\ TickSec \in Nat \ {0}
  BY DEF Second, RankInv, RankTypeOK
<1>1. RankTypeOK'
  BY <1>0 DEF Second, RankInv, RankTypeOK, NoTick, Never
<1>2. ListsFresh'
  BY <1>0 DEF RankInv, ListsFresh
<1>3. now % TickSec \in 0..(TickSec - 1)
  BY <1>0, DivisionFacts
<1>4. CASE now % TickSec = TickSec - 1
  <2>1. now' % TickSec = 0
    BY <1>0, <1>4, NextRemainder
  <2>2. tick' = now' /\ LastDue' = now' /\ LastDue' = LastDue + TickSec
    BY <1>0, <1>4, <2>1 DEF Second, LastDue
  <2>3. tick = NoTick
    BY <1>0, <1>4 DEF Second, RankInv, TicksHandled, LastDue, NoTick
  <2>4. LastSend >= LastDue - SendSec
    BY <2>3 DEF RankInv, TicksHandled
  <2>5. LastSend' = LastSend /\ LastSend \in Int /\ LastDue \in Int
    BY <1>0, <1>3 DEF LastSend, LastDue, Never
  <2>6. TicksHandled'
    <3>1. LastSend' >= LastDue' - TickSec - SendSec
      BY <1>0, <2>2, <2>4, <2>5
    <3> QED BY <1>0, <2>2, <3>1 DEF TicksHandled, NoTick
  <2> QED BY <1>1, <1>2, <2>6 DEF RankInv
<1>5. CASE now % TickSec # TickSec - 1
  <2>1. now' % TickSec = (now % TickSec) + 1
    BY <1>0, <1>5, NextRemainder
  <2>2. tick' = tick /\ LastDue' = LastDue
    BY <1>0, <1>3, <2>1 DEF Second, LastDue
  <2>3. LastSend' = LastSend
    BY <1>0 DEF LastSend, Never
  <2>4. tick # NoTick => now' - tick' <= MaxDelay
    BY <1>0, <2>2 DEF Second, NoTick
  <2>5. TicksHandled'
    BY <2>2, <2>3, <2>4 DEF RankInv, TicksHandled, NoTick
  <2> QED BY <1>1, <1>2, <2>5 DEF RankInv
<1> QED BY <1>4, <1>5

LEMMA RankStutter == ASSUME RankInv, UNCHANGED rankVars PROVE RankInv'
BY DEF rankVars, RankInv, RankTypeOK, TicksHandled, ListsFresh, LastDue,
       LastSend, Never, NoTick

LEMMA NextRankInv == ASSUME RankInv, [Next]_vars PROVE RankInv'
<1>1. CASE OtherEvent
  BY <1>1, RegisterServerInv, DisconnectInv, UpdateTimerEventInv
     DEF OtherEvent
<1>2. CASE Second
  BY <1>2, SecondInv
<1>3. CASE UNCHANGED rankVars
  BY <1>3, RankStutter
<1> QED
  BY <1>1, <1>2, <1>3
     DEF Next, vars, webServersHandler, webServersHandler_timeout,
         webServersHandler_empty, webServersHandler_render,
         onInternalEventFetchServerList, onInternalEventFetchServerList_assign,
         onInternalEventFetchServerList_close

LEMMA RankInvariant == Spec => []RankInv
<1>1. Init => RankInv
  BY InitRankInv DEF Init
<1>2. RankInv /\ [Next]_vars => RankInv'
  BY NextRankInv
<1> QED BY <1>1, <1>2, PTL DEF Spec

\* A list was read at most CacheSec - 1 before it was sent, sent at most SendSec
\* and a tick ago, and the tick may have waited: whatever the periods are, as
\* long as the main goroutine gets to a tick before the next one.
THEOREM RankListsYoung == Spec => []RankLagBounded
<1>1. RankInv => RankLagBounded
  <2> SUFFICES ASSUME RankInv, NEW s \in servers
               PROVE  now - held[s] <= (CacheSec - 1) + SendSec + TickSec
                                         + MaxDelay
      BY DEF RankLagBounded
  <2> USE RankAssumption DEF RankAssumption
  <2>1. /\ now \in Nat /\ held[s] \in Int
        /\ held[s] >= 0 /\ held[s] >= sendTime - (CacheSec - 1)
        /\ sendTime \in {Never} \union 0..now
    BY DEF RankInv, RankTypeOK, ListsFresh, Never
  <2>2. now % TickSec \in 0..(TickSec - 1)
    BY <2>1, DivisionFacts
  <2>3. LastSend >= now - (SendSec + TickSec + MaxDelay)
    <3>1. LastDue \in Int /\ LastSend \in Int
      BY <2>1, <2>2 DEF LastDue, LastSend, Never
    <3>2. CASE tick = NoTick
      BY <2>1, <2>2, <3>1, <3>2 DEF RankInv, TicksHandled, LastDue
    <3>3. CASE tick # NoTick
      BY <2>1, <3>1, <3>3 DEF RankInv, TicksHandled
    <3> QED BY <3>2, <3>3
  <2>4. CASE sendTime = Never
    BY <2>1, <2>3, <2>4 DEF LastSend
  <2>5. CASE sendTime # Never
    BY <2>1, <2>3, <2>5 DEF LastSend, Never
  <2> QED BY <2>4, <2>5
<1> QED BY <1>1, RankInvariant, PTL

-----------------------------------------------------------------------------
(* What a page shows *)

PageTypeOK ==
    /\ page \in [Pages -> {"new", "waiting", "timedOut", "answered", "gaveUp"}]
    /\ emptying \in [Pages -> SUBSET Words]
    /\ serving \in Pages \union {None}
    /\ writing \subseteq Words
    /\ serving = None => writing = {}
    /\ event \in [Pages -> [ptr : Writers, len : Writers,
                            list : SUBSET ServerIds]]
    /\ done \subseteq Pages
    /\ shown \in [Pages -> (SUBSET ServerIds) \union {None, Garbage}]
    /\ seen \in [Pages -> SUBSET SUBSET ServerIds]

\* main() has written the words of w's list that are not in left.
Assigned(w, left) ==
    /\ event[w].list \in seen[w]
    /\ \A x \in Words \ left : event[w][x] = "main"

\* While a page waits nobody but main() writes to its event; what main() wrote
\* was true meanwhile, and complete before done was closed.
PageInv ==
    \A w \in Pages :
        /\ page[w] # "timedOut" => emptying[w] = {}
        /\ page[w] = "new" => w # serving /\ w \notin done
        /\ w \in done => w # serving
        /\ page[w] = "waiting" =>
              /\ servers \in seen[w]
              /\ w = serving => Assigned(w, writing)
              /\ w \in done => Assigned(w, {})
        /\ page[w] = "answered" => shown[w] \in seen[w]

PagesInv == servers \subseteq ServerIds /\ PageTypeOK /\ PageInv

LEMMA InitPagesInv == Init => PagesInv
<1> SUFFICES ASSUME Init PROVE PagesInv
    OBVIOUS
<1> USE PagesAssumption DEF PagesAssumption, Init
<1>1. servers \subseteq ServerIds
  BY DEF RankInit
<1>2. Unset \in [ptr : Writers, len : Writers, list : SUBSET ServerIds]
  BY DEF Unset, Writers
<1>3. PageTypeOK
  BY <1>2 DEF PageTypeOK
<1>4. PageInv
  BY DEF PageInv
<1> QED BY <1>1, <1>3, <1>4 DEF PagesInv

\* What is read of a list that main() has written is this list.
LEMMA ReadAssigned ==
    ASSUME NEW w \in Pages, PageTypeOK, Assigned(w, {})
    PROVE  Read(event[w]) \in seen[w]
BY DEF Assigned, Read, Words, PageTypeOK

LEMMA ReadTyped ==
    ASSUME NEW w \in Pages, PageTypeOK
    PROVE  Read(event[w]) \in (SUBSET ServerIds) \union {None, Garbage}
BY DEF Read, PageTypeOK

LEMMA NextPagesInv == ASSUME PagesInv, RankInv', [Next]_vars PROVE PagesInv'
<1>0. servers' \subseteq ServerIds
  BY DEF RankInv, RankTypeOK
<1> USE PagesAssumption DEF PagesAssumption
<1>1. ASSUME NEW w \in Pages, webServersHandler(w) PROVE PagesInv'
  <2> USE <1>1 DEF webServersHandler, rankVars
  <2>1. PageTypeOK'
    BY DEF PagesInv, PageTypeOK
  <2>2. PageInv'
    BY DEF PagesInv, PageTypeOK, PageInv, Assigned
  <2> QED BY <1>0, <2>1, <2>2 DEF PagesInv
<1>2. ASSUME NEW w \in Pages, webServersHandler_timeout(w) PROVE PagesInv'
  <2> USE <1>2 DEF webServersHandler_timeout, rankVars
  <2>1. PageTypeOK'
    BY DEF PagesInv, PageTypeOK
  <2>2. PageInv'
    BY DEF PagesInv, PageTypeOK, PageInv, Assigned
  <2> QED BY <1>0, <2>1, <2>2 DEF PagesInv
<1>3. ASSUME NEW w \in Pages, NEW x \in Words, webServersHandler_empty(w, x)
      PROVE  PagesInv'
  <2> USE <1>3 DEF webServersHandler_empty, rankVars
  <2>1. PageTypeOK'
    BY DEF PagesInv, PageTypeOK, Words, Writers
  <2>2. page[w] = "timedOut"
    BY DEF PagesInv, PageInv
  <2>3. \A v \in Pages \ {w} : event'[v] = event[v] /\ emptying'[v] = emptying[v]
    BY DEF PagesInv, PageTypeOK
  <2>4. PageInv'
    BY <2>2, <2>3 DEF PagesInv, PageTypeOK, PageInv, Assigned
  <2> QED BY <1>0, <2>1, <2>4 DEF PagesInv
<1>4. ASSUME NEW w \in Pages, webServersHandler_render(w) PROVE PagesInv'
  <2> USE <1>4 DEF webServersHandler_render, rankVars
  <2>1. PageTypeOK'
    BY ReadTyped DEF PagesInv, PageTypeOK
  <2>2. page[w] = "waiting" => shown'[w] \in seen[w]
    BY ReadAssigned DEF PagesInv, PageTypeOK, PageInv
  <2>3. PageInv'
    BY <2>2 DEF PagesInv, PageTypeOK, PageInv, Assigned
  <2> QED BY <1>0, <2>1, <2>3 DEF PagesInv
<1>5. ASSUME NEW w \in Pages, onInternalEventFetchServerList(w) PROVE PagesInv'
  <2> USE <1>5 DEF onInternalEventFetchServerList, rankVars
  <2>1. PageTypeOK'
    BY DEF PagesInv, PageTypeOK
  <2>2. event'[w].list = servers /\ \A v \in Pages \ {w} : event'[v] = event[v]
    BY DEF PagesInv, PageTypeOK
  <2>3. PageInv'
    BY <2>2 DEF PagesInv, PageTypeOK, PageInv, Assigned
  <2> QED BY <1>0, <2>1, <2>3 DEF PagesInv
<1>6. ASSUME NEW x \in Words, onInternalEventFetchServerList_assign(x)
      PROVE  PagesInv'
  <2> USE <1>6 DEF onInternalEventFetchServerList_assign, rankVars
  <2>1. serving \in Pages
    BY DEF PagesInv, PageTypeOK
  <2>2. PageTypeOK'
    BY <2>1 DEF PagesInv, PageTypeOK, Words, Writers
  <2>3. /\ event'[serving][x] = "main"
        /\ event'[serving].list = event[serving].list
        /\ \A y \in Words \ {x} : event'[serving][y] = event[serving][y]
        /\ \A v \in Pages \ {serving} : event'[v] = event[v]
    BY <2>1 DEF PagesInv, PageTypeOK, Words
  <2>4. PageInv'
    BY <2>3 DEF PagesInv, PageInv, Assigned
  <2> QED BY <1>0, <2>2, <2>4 DEF PagesInv
<1>7. CASE onInternalEventFetchServerList_close
  <2> USE <1>7 DEF onInternalEventFetchServerList_close, rankVars
  <2>1. PageTypeOK'
    BY DEF PagesInv, PageTypeOK
  <2>2. PageInv'
    BY DEF PagesInv, PageTypeOK, PageInv, Assigned
  <2> QED BY <1>0, <2>1, <2>2 DEF PagesInv
<1>8. CASE OtherEvent
  <2> USE <1>8 DEF OtherEvent
  <2>1. PageTypeOK'
    BY <1>0 DEF PagesInv, PageTypeOK
  <2>2. \A w \in Pages : seen[w] \subseteq seen'[w]
                         /\ (page[w] = "waiting" => servers' \in seen'[w])
    OBVIOUS
  <2>3. PageInv'
    BY <2>2 DEF PagesInv, PageTypeOK, PageInv, Assigned
  <2> QED BY <1>0, <2>1, <2>3 DEF PagesInv
<1>9. CASE UNCHANGED pageVars /\ UNCHANGED servers
  BY <1>0, <1>9 DEF pageVars, PagesInv, PageTypeOK, PageInv, Assigned
<1> QED
  BY <1>1, <1>2, <1>3, <1>4, <1>5, <1>6, <1>7, <1>8, <1>9
     DEF Next, Second, vars, rankVars

LEMMA PagesInvariant == Spec => []PagesInv
<1>1. Init => PagesInv
  BY InitPagesInv
<1>2. PagesInv /\ RankInv' /\ [Next]_vars => PagesInv'
  BY NextPagesInv
<1> QED BY <1>1, <1>2, RankInvariant, PTL DEF Spec

\* Every variable keeps its type, and main() writes one list at a time.
THEOREM PageTypesCorrect == Spec => []TypeOK
<1>1. RankInv /\ PagesInv => TypeOK
  BY DEF RankInv, PagesInv, PageTypeOK, TypeOK
<1> QED BY <1>1, RankInvariant, PagesInvariant, PTL

\* A page that got its answer in time shows a list that was true while it
\* waited, however many pages, answers and time-outs there are.
THEOREM PagesTrue == Spec => []PageShowsTruth
<1>1. PagesInv => PageShowsTruth
  BY DEF PagesInv, PageInv, PageShowsTruth
<1> QED BY <1>1, PagesInvariant, PTL
=============================================================================
