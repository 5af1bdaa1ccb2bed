------------------------- MODULE RedisBridgeProofs -------------------------
(***************************************************************************)
(* For any roles, any capacity of the channel and any number of saves: the *)
(* goroutine go_popRedis never reads or deletes a key that has gone, and   *)
(* the last save of a role stays in Redis until it was forwarded, unless   *)
(* it was written while its key was at work.                               *)
(***************************************************************************)
EXTENDS RedisBridge, SequenceTheorems, TLAPS

Events == {"save", "other"}

RedisTypes ==
    /\ bmevent \in Seq(Events)
    /\ playerdata \in [Keys -> Nat]
    /\ stored \subseteq Keys
    /\ saves \in [Keys -> Nat]
    /\ raced \subseteq Keys

PopTypes ==
    /\ pc \in {"idle", "list", "get", "send", "delete"}
    /\ keySlice \subseteq Keys
    /\ key \in Keys \union {None}
    /\ key = None <=> pc \in {"idle", "list"}
    /\ data \in Nat
    /\ outputChan \in Seq(Nat)
    /\ Len(outputChan) <= ChanCap
    /\ sent \in [Keys -> Nat]
    /\ broken \in BOOLEAN

\* What is yet to be read or deleted is in the hash: nobody else deletes, and
\* the slice does not name a key twice.
KeysHeld ==
    /\ key \notin keySlice
    /\ \A k \in keySlice : playerdata[k] # 0
    /\ key # None => playerdata[key] # 0
    /\ pc = "send" => data # 0

\* The hash has the last version of a role or none.
HashIsLast ==
    \A k \in Keys : playerdata[k] # 0 => playerdata[k] = saves[k]

\* What has been read of the key at work, and then what has been sent of it,
\* is the last version, unless a game server came in between.
WorkIsLast ==
    key \notin raced =>
        /\ pc = "send" => data = saves[key]
        /\ pc = "delete" => sent[key] = saves[key]

BridgeInv ==
    /\ RedisTypes
    /\ PopTypes
    /\ KeysHeld
    /\ HashIsLast
    /\ WorkIsLast
    /\ SavesKept

-----------------------------------------------------------------------------

LEMMA InitBridgeInv == Init => BridgeInv
  <1> SUFFICES ASSUME Init
               PROVE  BridgeInv
    OBVIOUS
  <1>1. \A S : <<>> \in Seq(S) /\ Len(<<>>) = 0
    BY EmptySeq
  <1>2. RedisTypes
    BY <1>1 DEF Init, RedisTypes
  <1>3. PopTypes
    <2>1. outputChan \in Seq(Nat) /\ Len(outputChan) = 0
      BY <1>1 DEF Init
    <2>2. Len(outputChan) <= ChanCap
      BY <2>1, RedisAssumption
    <2> QED
      BY <2>1, <2>2, RedisAssumption DEF Init, PopTypes
  <1>4. KeysHeld /\ HashIsLast /\ WorkIsLast /\ SavesKept
    BY DEF Init, KeysHeld, HashIsLast, WorkIsLast, SavesKept
  <1> QED
    BY <1>2, <1>3, <1>4 DEF BridgeInv

\* Going on to the next key, with the key just left deleted or not.
LEMMA NextKeyStep ==
    ASSUME BridgeInv, NextKey,
           playerdata' \in {playerdata, [playerdata EXCEPT ![key] = 0]},
           key \in Keys,
           pc = "delete" \/ playerdata' = playerdata,
           UNCHANGED <<bmevent, stored, outputChan, others, saves, sent, raced>>,
           broken' \in BOOLEAN
    PROVE  BridgeInv'
  <1> USE RedisAssumption DEF BridgeInv
  <1>1. RedisTypes'
    <2>1. playerdata' \in [Keys -> Nat]
      <3>1. [playerdata EXCEPT ![key] = 0] \in [Keys -> Nat]
        BY DEF RedisTypes
      <3> QED
        BY <3>1 DEF RedisTypes
    <2> QED
      BY <2>1 DEF RedisTypes
  <1>2. \/ /\ pc' = "idle" /\ keySlice' = {} /\ key' = None /\ data' = 0
        \/ /\ pc' = "get" /\ key' \in keySlice /\ keySlice' = keySlice \ {key'}
           /\ data' = 0
    BY DEF NextKey, Idle
  <1>3. PopTypes'
    BY <1>2 DEF PopTypes
  <1>4. KeysHeld'
    BY <1>2 DEF KeysHeld, PopTypes, RedisTypes
  <1>5. HashIsLast'
    BY DEF HashIsLast, RedisTypes
  <1>6. WorkIsLast'
    BY <1>2 DEF WorkIsLast
  <1>7. SavesKept'
    BY DEF SavesKept, WorkIsLast, RedisTypes
  <1> QED
    BY <1>1, <1>3, <1>4, <1>5, <1>6, <1>7

\* The goroutine is sent back to the list.
LEMMA IdleStep ==
    ASSUME BridgeInv, Idle,
           outputChan' \in {outputChan, <<>>},
           UNCHANGED <<redisVars, sent>>,
           broken' \in BOOLEAN
    PROVE  BridgeInv'
  <1> USE RedisAssumption DEF BridgeInv, Idle, redisVars
  <1>1. outputChan' \in Seq(Nat) /\ Len(outputChan') <= ChanCap
    <2>1. CASE outputChan' = outputChan
      BY <2>1 DEF PopTypes
    <2>2. CASE outputChan' = <<>>
      <3>1. outputChan' \in Seq(Nat) /\ Len(outputChan') = 0
        BY <2>2, EmptySeq
      <3> QED
        BY <3>1
    <2> QED
      BY <2>1, <2>2
  <1>2. RedisTypes' /\ PopTypes'
    BY <1>1 DEF RedisTypes, PopTypes
  <1>3. KeysHeld' /\ HashIsLast' /\ WorkIsLast' /\ SavesKept'
    BY DEF KeysHeld, HashIsLast, WorkIsLast, SavesKept
  <1> QED
    BY <1>2, <1>3

-----------------------------------------------------------------------------

LEMMA HSETBridgeInv ==
    ASSUME BridgeInv, NEW k \in Keys, HSET(k)
    PROVE  BridgeInv'
  <1> USE RedisAssumption DEF BridgeInv, HSET, popVars
  <1>1. RedisTypes'
    BY DEF RedisTypes
  <1>2. PopTypes'
    BY DEF PopTypes
  <1>3. KeysHeld'
    BY DEF KeysHeld, RedisTypes, PopTypes
  <1>4. HashIsLast'
    BY DEF HashIsLast, RedisTypes
  <1>5. WorkIsLast'
    BY DEF WorkIsLast, RedisTypes, PopTypes
  <1>6. SavesKept'
    BY DEF SavesKept, RedisTypes
  <1> QED
    BY <1>1, <1>2, <1>3, <1>4, <1>5, <1>6

\* The list changes, and nothing that the other parts of the invariant name.
LEMMA ListStep ==
    ASSUME BridgeInv,
           bmevent' \in Seq(Events), stored' \subseteq Keys,
           UNCHANGED <<playerdata, keySlice, key, data, outputChan, saves, sent,
                       raced>>,
           \/ pc' = pc
           \/ pc = "idle" /\ pc' \in {"idle", "list"},
           broken' \in BOOLEAN
    PROVE  BridgeInv'
  BY DEF BridgeInv, RedisTypes, PopTypes, KeysHeld, HashIsLast, WorkIsLast,
         SavesKept

LEMMA LPOPBridgeInv ==
    ASSUME BridgeInv, LPOP
    PROVE  BridgeInv'
  <1>1. Tail(bmevent) \in Seq(Events)
    BY HeadTailProperties DEF BridgeInv, RedisTypes, LPOP
  <1>2. bmevent' \in {bmevent, Tail(bmevent)}
    BY DEF LPOP
  <1>3. pc = "idle" /\ pc' \in {"idle", "list"} /\ broken' \in BOOLEAN
    BY DEF LPOP, Fails, Succeeds, BridgeInv, PopTypes
  <1> QED
    BY <1>1, <1>2, <1>3, ListStep DEF LPOP, BridgeInv, RedisTypes

LEMMA HKEYSBridgeInv ==
    ASSUME BridgeInv, HKEYS
    PROVE  BridgeInv'
  <1>1. broken' \in BOOLEAN /\ UNCHANGED <<redisVars, outputChan, sent>>
    BY DEF HKEYS, Fails, Succeeds, BridgeInv, PopTypes
  <1>2. CASE Idle
    BY <1>1, <1>2, IdleStep
  <1>3. CASE ~Idle
    <2> DEFINE keys == {k \in Keys : playerdata[k] # 0}
    <2>1. /\ pc' = "get" /\ data' = data
          /\ key' \in keys /\ keySlice' = keys \ {key'}
      BY <1>3 DEF HKEYS
    <2> QED
      BY <1>1, <2>1, RedisAssumption
      DEF BridgeInv, redisVars, RedisTypes, PopTypes, KeysHeld, HashIsLast,
          WorkIsLast, SavesKept
  <1> QED
    BY <1>2, <1>3

LEMMA HGETBridgeInv ==
    ASSUME BridgeInv, HGET
    PROVE  BridgeInv'
  <1>1. /\ pc = "get" /\ key \in Keys
        /\ broken' \in BOOLEAN /\ UNCHANGED <<redisVars, outputChan, sent>>
    BY DEF HGET, Fails, Succeeds, BridgeInv, PopTypes
  <1>2. CASE NextKey
    BY <1>1, <1>2, NextKeyStep DEF redisVars
  <1>3. CASE ~NextKey
    <2>1. data' = playerdata[key] /\ pc' = "send" /\ UNCHANGED <<keySlice, key>>
      BY <1>3 DEF HGET
    <2> QED
      BY <1>1, <2>1
      DEF BridgeInv, redisVars, RedisTypes, PopTypes, KeysHeld, HashIsLast,
          WorkIsLast, SavesKept
  <1> QED
    BY <1>2, <1>3

LEMMA SendOutputBridgeInv ==
    ASSUME BridgeInv, SendOutput
    PROVE  BridgeInv'
  <1> USE DEF BridgeInv, SendOutput, redisVars
  <1>1. pc = "send" /\ key \in Keys /\ pc' = "delete"
    BY DEF PopTypes
  <1>2. outputChan' \in Seq(Nat) /\ Len(outputChan') <= ChanCap
    BY RedisAssumption DEF PopTypes
  <1>3. RedisTypes' /\ PopTypes'
    BY <1>1, <1>2 DEF RedisTypes, PopTypes
  <1>4. KeysHeld' /\ HashIsLast'
    BY <1>1 DEF KeysHeld, HashIsLast
  <1>5. WorkIsLast' /\ SavesKept'
    BY <1>1 DEF WorkIsLast, SavesKept, PopTypes
  <1> QED
    BY <1>3, <1>4, <1>5

LEMMA HDELBridgeInv ==
    ASSUME BridgeInv, HDEL
    PROVE  BridgeInv'
  <1>1. pc = "delete" /\ key \in Keys /\ broken' \in BOOLEAN
    BY DEF HDEL, Fails, Succeeds, BridgeInv, PopTypes
  <1>2. playerdata' \in {playerdata, [playerdata EXCEPT ![key] = 0]}
    BY DEF HDEL
  <1> QED
    BY <1>1, <1>2, NextKeyStep DEF HDEL

LEMMA ProcessRedisEventBridgeInv ==
    ASSUME BridgeInv, ProcessRedisEvent
    PROVE  BridgeInv'
  <1>1. outputChan' \in Seq(Nat) /\ Len(outputChan') <= ChanCap
    BY HeadTailProperties, RedisAssumption
    DEF BridgeInv, PopTypes, ProcessRedisEvent
  <1> QED
    BY <1>1
    DEF BridgeInv, ProcessRedisEvent, redisVars, popVars, RedisTypes, PopTypes,
        KeysHeld, HashIsLast, WorkIsLast, SavesKept

LEMMA NextBridgeInv == BridgeInv /\ [Next]_vars => BridgeInv'
  <1> SUFFICES ASSUME BridgeInv, [Next]_vars
               PROVE  BridgeInv'
    OBVIOUS
  <1>1. ASSUME NEW k \in Keys, HSET(k)
        PROVE  BridgeInv'
    BY <1>1, HSETBridgeInv
  <1>2. ASSUME NEW k \in Keys, RPUSH(k)
        PROVE  BridgeInv'
    <2>1. bmevent' \in Seq(Events)
      BY <1>2 DEF RPUSH, BridgeInv, RedisTypes, Events
    <2> QED
      BY <1>2, <2>1, ListStep DEF RPUSH, BridgeInv, RedisTypes, PopTypes, popVars
  <1>3. CASE RPUSH_other
    <2>1. bmevent' \in Seq(Events)
      BY <1>3 DEF RPUSH_other, BridgeInv, RedisTypes, Events
    <2> QED
      BY <1>3, <2>1, ListStep
      DEF RPUSH_other, BridgeInv, RedisTypes, PopTypes, popVars
  <1>4. CASE go_popRedis
    BY <1>4, LPOPBridgeInv, HKEYSBridgeInv, HGETBridgeInv, SendOutputBridgeInv,
       HDELBridgeInv DEF go_popRedis
  <1>5. CASE ProcessRedisEvent
    BY <1>5, ProcessRedisEventBridgeInv
  <1>6. CASE Restart
    BY <1>6, IdleStep DEF Restart
  <1>7. CASE UNCHANGED vars
    BY <1>7
    DEF vars, BridgeInv, RedisTypes, PopTypes, KeysHeld, HashIsLast, WorkIsLast,
        SavesKept
  <1> QED
    BY <1>1, <1>2, <1>3, <1>4, <1>5, <1>6, <1>7 DEF Next

\* Whatever fails and whoever writes meanwhile, the goroutine finds the keys it
\* has yet to read or to delete.
THEOREM PopperNeverMisses == Spec => []PopperSound
  <1>1. BridgeInv => PopperSound
    <2> SUFFICES ASSUME BridgeInv
                 PROVE  PopperSound
      OBVIOUS
    <2>1. Range(bmevent) \subseteq {"save", "other"}
      BY ElementOfSeq DEF BridgeInv, RedisTypes, Events, Range
    <2> QED
      BY <2>1 DEF BridgeInv, RedisTypes, PopTypes, KeysHeld, PopperSound
  <1> QED
    BY <1>1, InitBridgeInv, NextBridgeInv, PTL DEF Spec

\* The last save of a role is in Redis or was forwarded, unless it was written
\* between HGET and HDEL of its key.
THEOREM LastSaveKept == Spec => []SavesKept
  <1>1. BridgeInv => SavesKept
    BY DEF BridgeInv
  <1> QED
    BY <1>1, InitBridgeInv, NextBridgeInv, PTL DEF Spec
=============================================================================
