----------------------------- MODULE RedisBridge -----------------------------
(***************************************************************************)
(* Roles that game servers save while the login server is away: they put   *)
(* the data into the hash "playerdata" in Redis and push an event to the   *)
(* list "bmevent"; the goroutine go_popRedis (handle_redis.go) pops the    *)
(* events, sends what it finds in the hash to the main goroutine through a *)
(* channel and deletes it from the hash.  main() takes it from the channel *)
(* and drops it: the save is commented out (ProcessRedisEvent).            *)
(*                                                                         *)
(* Each command to Redis is an action.  A command may be refused, or the   *)
(* connection break, which redigo never mends: every later command fails   *)
(* until the program is started again.  The data of a role are a version   *)
(* number, which grows with each save.                                     *)
(*                                                                         *)
(* A definition marked "Bug:" is the one after it with a plausible mistake *)
(* in it.  No specification uses it; it shows what the properties catch.   *)
(***************************************************************************)
EXTENDS Naturals, Sequences, SequencesExt

CONSTANTS
    Keys,        \* keys of the hash, one for each role
    None,        \* no key
    ChanCap,     \* capacity of outputChan: 100
    MaxSaves,    \* bound: saves of a role
    MaxOther     \* bound: events that are not about saves

ASSUME RedisAssumption ==
    /\ None \notin Keys
    /\ ChanCap \in Nat \ {0}
    /\ {MaxSaves, MaxOther} \subseteq Nat

VARIABLES
    bmevent,       \* the list in Redis
    playerdata,    \* playerdata[k]: the version in the hash, 0 if there is none
    stored,        \* roles whose data are in the hash and their event is not
                   \* in the list
    pc,            \* where go_popRedis is
    keySlice,      \* keys it has yet to read
    key,           \* the key it is at
    data,          \* the version it read
    outputChan,    \* versions on their way to main()
    broken,        \* is the connection broken?
    others,        \* events that were not about saves
    saves,         \* history: saves[k]: the last version of the game server
    sent,          \* history: sent[k]: the last version put in outputChan
    raced,         \* history: roles saved last while their key was at work
    failed         \* history: a command failed, or the program was restarted

popVars == <<pc, keySlice, key, data>>
redisVars == <<bmevent, playerdata, stored, others, saves, raced>>
vars == <<bmevent, playerdata, stored, pc, keySlice, key, data, outputChan,
          broken, others, saves, sent, raced, failed>>

-----------------------------------------------------------------------------
(* Game servers *)

\* HSET.  The key is at work when it has been read and is about to be deleted.
HSET(k) ==
    /\ saves[k] < MaxSaves
    /\ k \notin stored
    /\ saves' = [saves EXCEPT ![k] = @ + 1]
    /\ playerdata' = [playerdata EXCEPT ![k] = saves[k] + 1]
    /\ stored' = stored \union {k}
    /\ raced' = IF key = k /\ pc \in {"send", "delete"}
                THEN raced \union {k} ELSE raced \ {k}
    /\ UNCHANGED <<bmevent, popVars, outputChan, broken, others, sent, failed>>

RPUSH(k) ==
    /\ k \in stored
    /\ stored' = stored \ {k}
    /\ bmevent' = Append(bmevent, "save")
    /\ UNCHANGED <<playerdata, popVars, outputChan, broken, others, saves, sent,
                   raced, failed>>

\* Any other element of the list.
RPUSH_other ==
    /\ others < MaxOther
    /\ others' = others + 1
    /\ bmevent' = Append(bmevent, "other")
    /\ UNCHANGED <<playerdata, stored, popVars, outputChan, broken, saves, sent,
                   raced, failed>>

-----------------------------------------------------------------------------
(* go_popRedis *)

Works == ~broken

\* A command fails: always on a broken connection, which may break now.
Fails ==
    /\ broken' \in {broken, TRUE}
    /\ failed' = TRUE

Succeeds ==
    /\ Works
    /\ UNCHANGED <<broken, failed>>

Idle ==
    /\ pc' = "idle"
    /\ keySlice' = {}
    /\ key' = None
    /\ data' = 0

\* On to the next key of the slice, or back to the list.
NextKey ==
    IF keySlice = {} THEN Idle
    ELSE /\ pc' = "get"
         /\ \E k \in keySlice : key' = k /\ keySlice' = keySlice \ {k}
         /\ data' = 0

\* Bug: the element is looked at and left in the list.
LPOP_peek ==
    /\ pc = "idle"
    /\ bmevent # <<>>
    /\ Succeeds
    /\ pc' = IF Head(bmevent) = "save" THEN "list" ELSE "idle"
    /\ UNCHANGED <<redisVars, keySlice, key, data, outputChan, sent>>

\* After 500 ms without an element, or an error, the list is tried again.  What
\* was popped when the connection broke is lost.
LPOP ==
    /\ pc = "idle"
    /\ bmevent # <<>>
    /\ \/ /\ Succeeds
          /\ bmevent' = Tail(bmevent)
          /\ pc' = IF Head(bmevent) = "save" THEN "list" ELSE "idle"
       \/ /\ Fails
          /\ bmevent' \in {bmevent} \union
                 (IF broken' /\ Works THEN {Tail(bmevent)} ELSE {})
          /\ UNCHANGED pc
    /\ UNCHANGED <<playerdata, stored, keySlice, key, data, outputChan, others,
                   saves, sent, raced>>

\* EXISTS, whose answer is compared with a number of another type and never
\* found to be 0, and HKEYS.
HKEYS ==
    /\ pc = "list"
    /\ \/ /\ Succeeds
          /\ LET keys == {k \in Keys : playerdata[k] # 0}
             IN  IF keys = {} THEN Idle
                 ELSE /\ pc' = "get"
                      /\ \E k \in keys : key' = k /\ keySlice' = keys \ {k}
                      /\ UNCHANGED data
       \/ Fails /\ Idle
    /\ UNCHANGED <<redisVars, outputChan, sent>>

HGET ==
    /\ pc = "get"
    /\ \/ /\ Succeeds
          /\ data' = playerdata[key]
          /\ pc' = "send"
          /\ UNCHANGED <<keySlice, key>>
       \/ Fails /\ NextKey
    /\ UNCHANGED <<redisVars, outputChan, sent>>

\* Bug: does not wait when the channel is full.
SendOutput_dropped ==
    /\ pc = "send"
    /\ IF Len(outputChan) < ChanCap
       THEN /\ outputChan' = Append(outputChan, data)
            /\ sent' = [sent EXCEPT ![key] = data]
       ELSE UNCHANGED <<outputChan, sent>>
    /\ pc' = "delete"
    /\ UNCHANGED <<redisVars, keySlice, key, data, broken, failed>>

\* Blocks while the channel is full.
SendOutput ==
    /\ pc = "send"
    /\ Len(outputChan) < ChanCap
    /\ outputChan' = Append(outputChan, data)
    /\ sent' = [sent EXCEPT ![key] = data]
    /\ pc' = "delete"
    /\ UNCHANGED <<redisVars, keySlice, key, data, broken, failed>>

\* Bug: the whole hash is deleted.
HDEL_all ==
    /\ pc = "delete"
    /\ Succeeds
    /\ playerdata' = [k \in Keys |-> 0]
    /\ NextKey
    /\ UNCHANGED <<bmevent, stored, outputChan, others, saves, sent, raced>>

\* Whatever is there now is deleted.  When the connection breaks the key may be
\* deleted nevertheless.
HDEL ==
    /\ pc = "delete"
    /\ \/ /\ Succeeds
          /\ playerdata' = [playerdata EXCEPT ![key] = 0]
       \/ /\ Fails
          /\ playerdata' \in {playerdata} \union
                 (IF broken' /\ Works THEN {[playerdata EXCEPT ![key] = 0]} ELSE {})
    /\ NextKey
    /\ UNCHANGED <<bmevent, stored, outputChan, others, saves, sent, raced>>

go_popRedis == LPOP \/ HKEYS \/ HGET \/ SendOutput \/ HDEL

-----------------------------------------------------------------------------

\* main() takes an event and drops it.
ProcessRedisEvent ==
    /\ outputChan # <<>>
    /\ outputChan' = Tail(outputChan)
    /\ UNCHANGED <<redisVars, popVars, broken, sent, failed>>

\* A new process with a new connection; Redis goes on.
Restart ==
    /\ Idle
    /\ outputChan' = <<>>
    /\ broken' = FALSE
    /\ failed' = TRUE
    /\ UNCHANGED <<redisVars, sent>>

Init ==
    /\ bmevent = <<>>
    /\ playerdata = [k \in Keys |-> 0]
    /\ stored = {}
    /\ pc = "idle" /\ keySlice = {} /\ key = None /\ data = 0
    /\ outputChan = <<>>
    /\ broken = FALSE
    /\ others = 0
    /\ saves = [k \in Keys |-> 0]
    /\ sent = [k \in Keys |-> 0]
    /\ raced = {}
    /\ failed = FALSE

Next ==
    \/ \E k \in Keys : HSET(k) \/ RPUSH(k)
    \/ RPUSH_other
    \/ go_popRedis
    \/ ProcessRedisEvent
    \/ Restart

Spec == Init /\ [][Next]_vars

\* The goroutine tries again every 500 ms, and main() receives from the channel
\* in each turn of its loop; game servers owe nothing.
FairSpec ==
    /\ Spec
    /\ WF_vars(go_popRedis)
    /\ WF_vars(ProcessRedisEvent)

-----------------------------------------------------------------------------
(* Properties *)

\* The values of the variables.  The keys the goroutine has yet to read or to
\* delete are in the hash, however many game servers write meanwhile and
\* whatever fails: HGET never answers nil, which would end the process at the
\* type assertion in doSavePlayerData.
PopperSound ==
    /\ Range(bmevent) \subseteq {"save", "other"}
    /\ Len(outputChan) <= ChanCap
    /\ stored \subseteq Keys /\ raced \subseteq Keys
    /\ pc \in {"idle", "list", "get", "send", "delete"}
    /\ key = None <=> pc \in {"idle", "list"}
    /\ \A k \in keySlice \union ({key} \ {None}) : playerdata[k] # 0
    /\ pc = "send" => data # 0

\* The last save of a role stays in Redis until it has been put in the channel:
\* no crash, no broken connection and no order of the commands of the game
\* servers and of the goroutine loses it, except that the game server wrote it
\* after its key was read and before it was deleted.
SavesKept ==
    \A k \in Keys \ raced :
        playerdata[k] # saves[k] => sent[k] = saves[k]

\* As long as nothing fails, data whose event is in the list are sent and
\* deleted from the hash, even if the channel is full for a while.
SavesForwarded ==
    \A k \in Keys :
        playerdata[k] # 0 /\ "save" \in Range(bmevent) /\ ~failed
            ~> playerdata[k] = 0 \/ failed
=============================================================================
