---------------------------- MODULE ServerListPage ----------------------------
(***************************************************************************)
(* The page /servers of the web site (webServersHandler) shows the game    *)
(* servers of RankCache.  Its goroutine asks the main goroutine for the    *)
(* list with an event, waits 100 ms for the answer                         *)
(* (onInternalEventFetchServerList), and then gives up and shows none.     *)
(*                                                                         *)
(* The answer is the field "servers" of the event, a slice, which both     *)
(* goroutines assign when the page gives up while main() answers.  A slice *)
(* is more than one word; the words of two assignments may come to memory  *)
(* in any order, and what the page then reads is a mixture of both.        *)
(***************************************************************************)
EXTENDS RankCache, FiniteSets

CONSTANTS
    Pages,     \* bound: requests of the page in a behaviour
    None,      \* nobody; no list
    Garbage    \* what is read from memory that holds no list

ASSUME PagesAssumption ==
    /\ None \notin Pages
    /\ None # Garbage

VARIABLES
    page,       \* page[w]: what the goroutine of request w is doing
    emptying,   \* emptying[w]: the words of event.servers it has yet to write
    serving,    \* the request main() is answering, or None
    writing,    \* the words of event.servers main() has yet to write
    event,      \* event[w]: main()'s list, and who wrote the words last
    done,       \* the requests whose channel event.done is closed
    shown,      \* shown[w]: the list on the page
    seen        \* history: seen[w]: lists that were true while w was waiting

pageVars == <<page, emptying, serving, writing, event, done, shown, seen>>
vars == <<rankVars, pageVars>>

-----------------------------------------------------------------------------

Words == {"ptr", "len"}
Writers == {"nobody", "main", "page"}

\* The words of the slice nobody assigned.
Unset == [ptr |-> "nobody", len |-> "nobody", list |-> {}]

\* With the length of an empty slice nothing is read through the pointer; nor
\* with that of main()'s list if that is empty.
Read(e) ==
    IF e.len # "main" \/ e.list = {} THEN {}
    ELSE IF e.ptr = "main" THEN e.list ELSE Garbage

Init ==
    /\ RankInit
    /\ page = [w \in Pages |-> "new"]
    /\ emptying = [w \in Pages |-> {}]
    /\ serving = None
    /\ writing = {}
    /\ event = [w \in Pages |-> Unset]
    /\ done = {}
    /\ shown = [w \in Pages |-> None]
    /\ seen = [w \in Pages |-> {}]

-----------------------------------------------------------------------------
(* The goroutine of the page *)

\* Push of the event; main() comes to it some time.
webServersHandler(w) ==
    /\ page[w] = "new"
    /\ page' = [page EXCEPT ![w] = "waiting"]
    /\ seen' = [seen EXCEPT ![w] = {servers}]
    /\ UNCHANGED <<rankVars, emptying, serving, writing, event, done, shown>>

\* 100 ms are over, whether the answer is there or not.
webServersHandler_timeout(w) ==
    /\ page[w] = "waiting"
    /\ page' = [page EXCEPT ![w] = "timedOut"]
    /\ emptying' = [emptying EXCEPT ![w] = Words]
    /\ UNCHANGED <<rankVars, serving, writing, event, done, shown, seen>>

\* event.servers = make(..., 0, 0), a word at a time.
webServersHandler_empty(w, x) ==
    /\ x \in emptying[w]
    /\ emptying' = [emptying EXCEPT ![w] = @ \ {x}]
    /\ event' = [event EXCEPT ![w][x] = "page"]
    /\ UNCHANGED <<rankVars, page, serving, writing, done, shown, seen>>

\* renderTemplate.  The two words are read in one step: reading them in two
\* shows no other list than writing them in two.
webServersHandler_render(w) ==
    /\ \/ page[w] = "waiting" /\ w \in done
       \/ page[w] = "timedOut" /\ emptying[w] = {}
    /\ shown' = [shown EXCEPT ![w] = Read(event[w])]
    /\ page' = [page EXCEPT ![w] =
                   IF page[w] = "waiting" THEN "answered" ELSE "gaveUp"]
    /\ UNCHANGED <<rankVars, emptying, serving, writing, event, done, seen>>

-----------------------------------------------------------------------------
(* The main goroutine *)

\* It takes the event, also of a page that gave up, and copies the list.
onInternalEventFetchServerList(w) ==
    /\ serving = None
    /\ page[w] # "new" /\ w \notin done
    /\ serving' = w
    /\ writing' = Words
    /\ event' = [event EXCEPT ![w].list = servers]
    /\ UNCHANGED <<rankVars, page, emptying, done, shown, seen>>

\* event.servers = servers, a word at a time.
onInternalEventFetchServerList_assign(x) ==
    /\ x \in writing
    /\ writing' = writing \ {x}
    /\ event' = [event EXCEPT ![serving][x] = "main"]
    /\ UNCHANGED <<rankVars, page, emptying, serving, done, shown, seen>>

\* Bug: the channel is closed before the list is assigned.
onInternalEventFetchServerList_close_early ==
    /\ serving # None
    /\ done' = done \union {serving}
    /\ serving' = IF writing = {} THEN None ELSE serving
    /\ UNCHANGED <<rankVars, page, emptying, writing, event, shown, seen>>

onInternalEventFetchServerList_close ==
    /\ serving # None
    /\ writing = {}
    /\ done' = done \union {serving}
    /\ serving' = None
    /\ UNCHANGED <<rankVars, page, emptying, writing, event, shown, seen>>

\* The other events of game servers, and the timer.
OtherEvent ==
    /\ serving = None
    /\ \/ \E s \in ServerIds :
             RegisterServer(s) \/ onEventFromServerDisconnected(s)
       \/ UpdateTimerEvent
    /\ seen' = [w \in Pages |->
                   IF page[w] = "waiting" THEN seen[w] \union {servers'}
                   ELSE seen[w]]
    /\ UNCHANGED <<page, emptying, serving, writing, event, done, shown>>

Next ==
    \/ \E w \in Pages :
          \/ webServersHandler(w)
          \/ webServersHandler_timeout(w)
          \/ \E x \in Words : webServersHandler_empty(w, x)
          \/ webServersHandler_render(w)
          \/ onInternalEventFetchServerList(w)
    \/ \E x \in Words : onInternalEventFetchServerList_assign(x)
    \/ onInternalEventFetchServerList_close
    \/ OtherEvent
    \/ Second /\ UNCHANGED pageVars

Spec == Init /\ [][Next]_vars

-----------------------------------------------------------------------------
(* Properties *)

\* Every variable has the shape its declaration says; main() writes the list of
\* one request at a time.
TypeOK ==
    /\ RankTypeOK
    /\ page \in [Pages -> {"new", "waiting", "timedOut", "answered", "gaveUp"}]
    /\ emptying \in [Pages -> SUBSET Words]
    /\ serving \in Pages \union {None}
    /\ writing \subseteq Words
    /\ serving = None => writing = {}
    /\ event \in [Pages -> [ptr : Writers, len : Writers,
                            list : SUBSET ServerIds]]
    /\ done \subseteq Pages
    /\ shown \in [Pages -> (SUBSET ServerIds) \union {None, Garbage}]
    /\ seen \in [Pages -> SUBSET SUBSET ServerIds]

\* A page that did not give up shows the game servers as they were at one time
\* while it was waiting, whatever registered, disconnected and gave up meanwhile
\* (close(event.done) comes after the assignment); the list it shows is not the
\* map that main() goes on to change.
PageShowsTruth ==
    \A w \in Pages : page[w] = "answered" => shown[w] \in seen[w]
=============================================================================
