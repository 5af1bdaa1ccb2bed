-------------------------- MODULE MainThreadProofs --------------------------
(***************************************************************************)
(* MainThread for any requests, rooms, passwords and capacity of the       *)
(* channel: the types, the ids and passwords of rooms, what /rs answers    *)
(* and what the main goroutine can be blocked on.                          *)
(***************************************************************************)
EXTENDS MainThread, FiniteSetTheorems, SequenceTheorems, TLAPS

Msgs == RoomMsg \union TimedMsg

\* What a handler is doing, field by field.
HandlerShape(x) ==
    \/ x = Idle
    \/ x = Stuck
    \/ /\ x.msg \in Msgs
       /\ \/ x = [pc |-> "waiting", msg |-> x.msg, out |-> x.out]
          \/ x = [pc |-> "answered", msg |-> x.msg, out |-> x.out,
                  ret |-> x.ret]
          \/ x = [pc |-> "timedOut", msg |-> x.msg]

HandlerTypes ==
    /\ handler = [h \in Handlers |-> handler[h]]
    /\ \A h \in Handlers : HandlerShape(handler[h])

GlobalTypes ==
    /\ retChan \in [Handlers -> {<<>>, <<FALSE>>, <<TRUE>>}]
    /\ sending \in Handlers \union {None}
    /\ enabled \in BOOLEAN
    /\ executed \subseteq Handlers
    /\ failed \subseteq Handlers
    /\ ready \in BOOLEAN

\* Nothing has been done yet for a message that is in the channel, or for a
\* request that has not come.
Untouched(h) ==
    retChan[h] = <<>> /\ h \notin executed \union failed /\ sending # h

InQueue(h) == \E i \in 1..Len(queue) : queue[i] = h

\* A handler posts one message.
QueueSound ==
    /\ queue \in Seq(Handlers)
    /\ \A i, j \in 1..Len(queue) : queue[i] = queue[j] => i = j
    /\ \A h \in Handlers :
          /\ InQueue(h) => Untouched(h) /\ handler[h].pc \in {"waiting", "timedOut"}
          /\ handler[h] = Idle => Untouched(h)

\* The ids of rooms are those given out, each once.
RoomsNumbered ==
    /\ seed \in Nat
    /\ rooms \subseteq [address : Addresses, id : 1..seed, password : Password]
    /\ \A q, r \in rooms : q.id = r.id => q = r

\* No more ids are given out than messages are taken from the channel.
Processed == {h \in Handlers : handler[h] # Idle /\ ~InQueue(h)}

SeedCounts == seed <= Cardinality(Processed)

\* The answer to a request is there, though it may not have been taken yet.
Replied(h) == IsAnswered(h) \/ (IsWaiting(h) /\ retChan[h] # <<>>)

Reply(h) == IF IsWaiting(h) THEN Head(retChan[h]) ELSE handler[h].ret

\* What an answer says stays true of the ids it names.
RoomAnswerSound(h) ==
    LET m == handler[h].msg
        out == handler[h].out
    IN  /\ m.event = "RegisterGS" =>
             /\ out \in 1..seed
             /\ \A r \in rooms : r.id = out => r.address = m.address
        /\ m.event = "GetGsAddr" /\ Reply(h) =>
             /\ m.id \in 1..seed
             /\ \A r \in rooms : r.id = m.id =>
                   out = r.address /\ r.password \in {None, m.password}
        /\ m.event = "GetGsList" =>
             \A item \in out :
                /\ item.id \in 1..seed
                /\ \A r \in rooms : item.id = r.id /\ item.address # None =>
                      item.address = r.address /\ r.password = None

AccountAnswerSound(h) ==
    handler[h].msg.event \in {"LsRegisterAccount", "LsModifyPassword"}
        => h \notin IF Reply(h) THEN failed ELSE executed

AnswersSound ==
    \A h \in Handlers : Replied(h) => RoomAnswerSound(h) /\ AccountAnswerSound(h)

StructureInv ==
    /\ HandlerTypes
    /\ GlobalTypes
    /\ QueueSound
    /\ RoomsNumbered
    /\ SeedCounts
    /\ OnlyFailedUpdateBlocks

MainInv == StructureInv /\ AnswersSound

-----------------------------------------------------------------------------
(* Sequences of one element, records and messages *)

LEMMA OneElement ==
    ASSUME NEW b
    PROVE  /\ Append(<<>>, b) = <<b>>
           /\ Head(<<b>>) = b
           /\ Tail(<<b>>) = <<>>
           /\ <<b>> # <<>>
  OBVIOUS

LEMMA Shapes ==
    ASSUME NEW m \in Msgs, NEW v, NEW b
    PROVE  /\ HandlerShape(Idle)
           /\ HandlerShape(Stuck)
           /\ Stuck # Idle
           /\ HandlerShape([pc |-> "waiting", msg |-> m, out |-> v])
           /\ HandlerShape([pc |-> "answered", msg |-> m, out |-> v, ret |-> b])
           /\ HandlerShape([pc |-> "timedOut", msg |-> m])
           /\ [pc |-> "waiting", msg |-> m, out |-> v] # Idle
           /\ [pc |-> "answered", msg |-> m, out |-> v, ret |-> b] # Idle
           /\ [pc |-> "timedOut", msg |-> m] # Idle
  <1>1. HandlerShape(Idle) /\ HandlerShape(Stuck)
    BY DEF HandlerShape
  <1>2. HandlerShape([pc |-> "waiting", msg |-> m, out |-> v])
    BY DEF HandlerShape
  <1>3. HandlerShape([pc |-> "answered", msg |-> m, out |-> v, ret |-> b])
    BY DEF HandlerShape
  <1>4. HandlerShape([pc |-> "timedOut", msg |-> m])
    BY DEF HandlerShape
  <1>5. /\ [pc |-> "waiting", msg |-> m, out |-> v].pc = "waiting"
        /\ [pc |-> "answered", msg |-> m, out |-> v, ret |-> b].pc = "answered"
        /\ [pc |-> "timedOut", msg |-> m].pc = "timedOut"
        /\ Idle.pc = "idle" /\ Stuck.pc = "stuck"
    BY DEF Idle, Stuck
  <1> QED
    BY <1>1, <1>2, <1>3, <1>4, <1>5

LEMMA ShapeFacts ==
    ASSUME NEW x, HandlerShape(x)
    PROVE  /\ x.pc \in {"idle", "stuck", "waiting", "answered", "timedOut"}
           /\ x.pc = "idle" <=> x = Idle
           /\ x.pc = "stuck" <=> x = Stuck
           /\ x \notin {Idle, Stuck} => x.msg \in Msgs
           /\ x.pc = "waiting" =>
                 x = [pc |-> "waiting", msg |-> x.msg, out |-> x.out]
  BY DEF HandlerShape, Idle, Stuck

LEMMA MsgFields ==
    ASSUME NEW m \in Msgs
    PROVE  /\ m.event \in {"RegisterGS", "GetGsAddr", "RemoveGsAddr", "GetGsList",
                           "EnableOlRoom", "LsRegisterAccount",
                           "LsModifyPassword"}
           /\ m.event = "RegisterGS" =>
                 m.address \in Addresses /\ m.password \in Password
           /\ m.event = "GetGsAddr" => m.id \in Named /\ m.password \in Password
           /\ m.event = "RemoveGsAddr" => m.id \in Named
           /\ m.event = "EnableOlRoom" => m.enable \in BOOLEAN
  BY DEF Msgs, RoomMsg, TimedMsg

-----------------------------------------------------------------------------
(* Steps of the parts *)

NoRepeats(q) == \A i, j \in 1..Len(q) : q[i] = q[j] => i = j

LEMMA AppendQueue ==
    ASSUME NEW h \in Handlers, QueueSound, ~InQueue(h),
           queue' = Append(queue, h)
    PROVE  /\ queue' \in Seq(Handlers)
           /\ NoRepeats(queue')
           /\ \A g \in Handlers : InQueue(g)' <=> InQueue(g) \/ g = h
  <1>1. /\ queue \in Seq(Handlers) /\ Len(queue) \in Nat
        /\ \A i, j \in 1..Len(queue) : queue[i] = queue[j] => i = j
    BY DEF QueueSound
  <1>2. /\ queue' \in Seq(Handlers)
        /\ Len(queue') = Len(queue) + 1
        /\ \A i \in 1..Len(queue) : queue'[i] = queue[i]
        /\ queue'[Len(queue) + 1] = h
    BY <1>1, AppendProperties
  <1>3. NoRepeats(queue')
    BY <1>1, <1>2 DEF NoRepeats, InQueue
  <1>4. \A g \in Handlers : InQueue(g)' <=> InQueue(g) \/ g = h
    BY <1>1, <1>2 DEF InQueue
  <1> QED
    BY <1>2, <1>3, <1>4

LEMMA TailQueue ==
    ASSUME NEW h, QueueSound, queue # <<>>, h = Head(queue),
           queue' = Tail(queue)
    PROVE  /\ h \in Handlers
           /\ InQueue(h)
           /\ queue' \in Seq(Handlers)
           /\ NoRepeats(queue')
           /\ \A g \in Handlers : InQueue(g)' <=> InQueue(g) /\ g # h
  <1>1. /\ queue \in Seq(Handlers) /\ Len(queue) \in Nat
        /\ \A i, j \in 1..Len(queue) : queue[i] = queue[j] => i = j
    BY DEF QueueSound
  <1>2. /\ Len(queue) >= 1
        /\ queue' \in Seq(Handlers)
        /\ Len(queue') = Len(queue) - 1
        /\ \A i \in 1..(Len(queue) - 1) : queue'[i] = queue[i + 1]
        /\ h = queue[1]
    BY <1>1, HeadTailProperties, EmptySeq
  <1>3. h \in Handlers
    BY <1>1, <1>2, ElementOfSeq
  <1>4. InQueue(h)
    BY <1>1, <1>2 DEF InQueue
  <1>5. NoRepeats(queue')
    BY <1>1, <1>2 DEF NoRepeats
  <1>6. ASSUME NEW g \in Handlers
        PROVE  InQueue(g)' <=> InQueue(g) /\ g # h
    <2>1. ASSUME InQueue(g)'
          PROVE  InQueue(g) /\ g # h
      <3>1. PICK i \in 1..(Len(queue) - 1) : queue[i + 1] = g
        BY <1>2, <2>1 DEF InQueue
      <3>2. i + 1 \in 1..Len(queue) /\ 1 \in 1..Len(queue) /\ i + 1 # 1
        BY <1>1, <1>2
      <3> QED
        BY <1>1, <1>2, <3>1, <3>2 DEF InQueue
    <2>2. ASSUME InQueue(g), g # h
          PROVE  InQueue(g)'
      <3>1. PICK i \in 1..Len(queue) : queue[i] = g
        BY <2>2 DEF InQueue
      <3>2. i - 1 \in 1..(Len(queue) - 1) /\ (i - 1) + 1 = i
        BY <1>1, <1>2, <2>2, <3>1
      <3> QED
        BY <1>2, <3>1, <3>2 DEF InQueue
    <2> QED
      BY <2>1, <2>2
  <1> QED
    BY <1>2, <1>3, <1>4, <1>5, <1>6

\* A message is taken from the channel: one id more may be given out.
LEMMA CountUp ==
    ASSUME IsFiniteSet(Handlers), SeedCounts, seed \in Nat,
           NEW h \in Handlers, h \notin Processed,
           Processed' = Processed \union {h},
           seed' \in {seed, seed + 1}
    PROVE  SeedCounts'
  <1>1. IsFiniteSet(Processed)
    BY FS_Subset DEF Processed
  <1>2. Cardinality(Processed') = Cardinality(Processed) + 1
    BY <1>1, FS_AddElement
  <1>3. Cardinality(Processed) \in Nat
    BY <1>1, FS_CardinalityType
  <1> QED
    BY <1>2, <1>3 DEF SeedCounts

LEMMA CountKept ==
    ASSUME IsFiniteSet(Handlers), SeedCounts, seed \in Nat,
           Processed \subseteq Processed',
           UNCHANGED seed
    PROVE  SeedCounts'
  <1>1. IsFiniteSet(Processed')
    BY FS_Subset DEF Processed
  <1>2. /\ Cardinality(Processed) <= Cardinality(Processed')
        /\ Cardinality(Processed) \in Nat /\ Cardinality(Processed') \in Nat
    BY <1>1, FS_Subset, FS_CardinalityType
  <1> QED
    BY <1>2 DEF SeedCounts

\* A room that is new has a new id.
RoomsStep ==
    /\ seed \in Nat /\ seed' \in {seed, seed + 1}
    /\ \A r \in rooms' \ rooms : r.id = seed + 1

\* An answer that is not given or changed by a step stays sound.
LEMMA AnswerKept ==
    ASSUME NEW g \in Handlers, AnswersSound, RoomsStep,
           Replied(g), Reply(g)' = Reply(g),
           handler'[g].msg = handler[g].msg, handler'[g].out = handler[g].out,
           g \in executed' <=> g \in executed,
           g \in failed' <=> g \in failed
    PROVE  RoomAnswerSound(g)' /\ AccountAnswerSound(g)'
  <1>1. RoomAnswerSound(g) /\ AccountAnswerSound(g)
    BY DEF AnswersSound
  <1>2. \A n \in 1..seed : n \in 1..seed' /\ \A r \in rooms' : r.id = n => r \in rooms
    BY DEF RoomsStep
  <1>3. AccountAnswerSound(g)'
    BY <1>1 DEF AccountAnswerSound
  <1>4. RoomAnswerSound(g)'
    BY <1>1, <1>2 DEF RoomAnswerSound
  <1> QED
    BY <1>3, <1>4

\* So it is for whoever the step has nothing to do with.
LEMMA OthersKept ==
    ASSUME NEW g \in Handlers, AnswersSound, RoomsStep,
           handler'[g] = handler[g], retChan'[g] = retChan[g],
           g \in executed' <=> g \in executed,
           g \in failed' <=> g \in failed
    PROVE  Replied(g)' => RoomAnswerSound(g)' /\ AccountAnswerSound(g)'
  <1>1. Replied(g)' <=> Replied(g)
    BY DEF Replied, IsAnswered, IsWaiting
  <1>2. Reply(g)' = Reply(g)
    BY DEF Reply, IsWaiting
  <1> QED
    BY <1>1, <1>2, AnswerKept

-----------------------------------------------------------------------------
(* Steps of handlers *)

\* What a handler is doing changes, and is not idleness.
LEMMA HandlerChanged ==
    ASSUME HandlerTypes, NEW h \in Handlers, NEW x, HandlerShape(x),
           handler' = [handler EXCEPT ![h] = x]
    PROVE  /\ HandlerTypes'
           /\ handler'[h] = x
           /\ \A g \in Handlers \ {h} : handler'[g] = handler[g]
  <1>1. /\ handler'[h] = x
        /\ \A g \in Handlers \ {h} : handler'[g] = handler[g]
        /\ handler' = [g \in Handlers |-> handler'[g]]
    BY DEF HandlerTypes
  <1>2. \A g \in Handlers : HandlerShape(handler'[g])
    BY <1>1 DEF HandlerTypes
  <1> QED
    BY <1>1, <1>2 DEF HandlerTypes

LEMMA PostedInv ==
    ASSUME MainInv, NEW h \in Handlers, NEW m \in Msgs, PostMThreadMsg(h, m), ready
    PROVE  MainInv'
  <1> USE DEF MainInv, StructureInv
  <1>1. /\ handler[h] = Idle
        /\ handler' = [handler EXCEPT ![h] = Waiting(m)]
        /\ queue' = Append(queue, h)
        /\ UNCHANGED <<retChan, sending, rooms, seed, enabled, executed, failed, ready>>
    BY DEF PostMThreadMsg
  <1>2. HandlerShape(Waiting(m)) /\ Waiting(m) # Idle /\ Waiting(m).pc = "waiting"
    BY Shapes DEF Waiting
  <1>3. /\ HandlerTypes' /\ handler'[h] = Waiting(m)
        /\ \A g \in Handlers \ {h} : handler'[g] = handler[g]
    BY <1>1, <1>2, HandlerChanged
  <1>4. GlobalTypes'
    BY <1>1 DEF GlobalTypes
  <1>5. Untouched(h) /\ ~InQueue(h)
    <2>1. Untouched(h)
      BY <1>1 DEF QueueSound
    <2>2. handler[h].pc = "idle"
      BY <1>1 DEF Idle
    <2> QED
      BY <2>1, <2>2 DEF QueueSound
  <1>6. /\ queue' \in Seq(Handlers)
        /\ NoRepeats(queue')
        /\ \A g \in Handlers : InQueue(g)' <=> InQueue(g) \/ g = h
    BY <1>1, <1>5, AppendQueue
  <1>7. \A g \in Handlers : Untouched(g)' <=> Untouched(g)
    BY <1>1 DEF Untouched
  <1>8. QueueSound'
    BY <1>2, <1>3, <1>5, <1>6, <1>7 DEF QueueSound, NoRepeats
  <1>9. RoomsNumbered'
    BY <1>1 DEF RoomsNumbered
  <1>10. Processed \subseteq Processed'
    BY <1>1, <1>3, <1>6 DEF Processed
  <1>11. SeedCounts'
    BY <1>1, <1>10, CountKept, MainThreadAssumption DEF RoomsNumbered
  <1>12. OnlyFailedUpdateBlocks'
    BY <1>1, <1>3, <1>5, MainThreadAssumption
    DEF OnlyFailedUpdateBlocks, Untouched, GlobalTypes, IsWaiting
  <1>13. RoomsStep
    BY <1>1 DEF RoomsStep, RoomsNumbered
  <1>14. ~Replied(h)'
    BY <1>1, <1>2, <1>3, <1>5 DEF Replied, IsAnswered, IsWaiting, Untouched
  <1>15. AnswersSound'
    BY <1>1, <1>3, <1>13, <1>14, OthersKept DEF AnswersSound
  <1> QED
    BY <1>3, <1>4, <1>8, <1>9, <1>11, <1>12, <1>15

\* A request that does not reach the channel: it is answered at once, or blocked
\* for ever.
LEMMA NotPostedInv ==
    ASSUME MainInv, NEW h \in Handlers, handler[h] = Idle,
           NEW x, HandlerShape(x), x # Idle, x.pc # "waiting",
           handler' = [handler EXCEPT ![h] = x],
           x.pc = "answered" => x.msg.event = "GetGsList" /\ x.out = {},
           UNCHANGED <<queue, retChan, sending, rooms, seed, enabled, executed, failed, ready>>
    PROVE  MainInv'
  <1> USE DEF MainInv, StructureInv
  <1>5. /\ HandlerTypes' /\ handler'[h] = x
        /\ \A g \in Handlers \ {h} : handler'[g] = handler[g]
    BY HandlerChanged
  <1>6. Untouched(h) /\ ~InQueue(h)
    <2>1. Untouched(h)
      BY DEF QueueSound
    <2>2. handler[h].pc = "idle"
      BY DEF Idle
    <2> QED
      BY <2>1, <2>2 DEF QueueSound
  <1>7. \A g \in Handlers : /\ Untouched(g)' <=> Untouched(g)
                            /\ InQueue(g)' <=> InQueue(g)
    BY DEF Untouched, InQueue
  <1>8. GlobalTypes' /\ RoomsNumbered' /\ RoomsStep
    BY DEF GlobalTypes, RoomsNumbered, RoomsStep
  <1>9. QueueSound'
    BY <1>5, <1>6, <1>7 DEF QueueSound
  <1>10. Processed \subseteq Processed'
    BY <1>5, <1>6, <1>7 DEF Processed
  <1>11. SeedCounts'
    BY <1>10, CountKept, MainThreadAssumption DEF RoomsNumbered
  <1>12. OnlyFailedUpdateBlocks'
    BY <1>5, <1>6, MainThreadAssumption
    DEF OnlyFailedUpdateBlocks, Untouched, GlobalTypes, IsWaiting
  <1>13. Replied(h)' => RoomAnswerSound(h)' /\ AccountAnswerSound(h)'
    BY <1>5 DEF RoomAnswerSound, AccountAnswerSound, Replied, IsAnswered, IsWaiting
  <1>14. AnswersSound'
    BY <1>5, <1>8, <1>13, OthersKept DEF AnswersSound
  <1> QED
    BY <1>5, <1>8, <1>9, <1>11, <1>12, <1>14

\* The channel is not there yet.
LEMMA StuckInv ==
    ASSUME MainInv, NEW h \in Handlers, NEW m \in Msgs, PostMThreadMsg(h, m), ~ready
    PROVE  MainInv'
  <1>1. /\ handler[h] = Idle
        /\ handler' = [handler EXCEPT ![h] = Stuck]
        /\ UNCHANGED <<queue, retChan, sending, rooms, seed, enabled, executed,
                       failed, ready>>
    BY DEF PostMThreadMsg
  <1>2. HandlerShape(Stuck)
    BY DEF HandlerShape
  <1>3. Stuck # Idle /\ Stuck.pc = "stuck"
    <2>1. Stuck.pc = "stuck" /\ Idle.pc = "idle"
      BY DEF Stuck, Idle
    <2> QED
      BY <2>1
  <1> QED
    BY <1>1, <1>2, <1>3, NotPostedInv

LEMMA PostInv ==
    ASSUME MainInv, NEW h \in Handlers, NEW m \in Msgs, PostMThreadMsg(h, m)
    PROVE  MainInv'
  BY PostedInv, StuckInv

\* The list is switched off: an empty list is the answer.
LEMMA EmptyListInv ==
    ASSUME MainInv, NEW h \in Handlers, handler[h] = Idle,
           handler' = [handler EXCEPT ![h] =
               [pc |-> "answered", msg |-> [event |-> "GetGsList"], out |-> {},
                ret |-> TRUE]],
           UNCHANGED <<queue, retChan, sending, rooms, seed, enabled, executed,
                       failed, ready>>
    PROVE  MainInv'
  <1> DEFINE m == [event |-> "GetGsList"]
             x == [pc |-> "answered", msg |-> m, out |-> {}, ret |-> TRUE]
  <1>1. m \in Msgs /\ m.event = "GetGsList"
    BY DEF Msgs, RoomMsg
  <1>2. HandlerShape(x) /\ x # Idle
    BY <1>1, Shapes
  <1>3. x.pc = "answered" /\ x.msg = m /\ x.out = {}
    OBVIOUS
  <1>4. handler' = [handler EXCEPT ![h] = x]
    OBVIOUS
  <1> HIDE DEF m, x
  <1> QED
    BY <1>1, <1>2, <1>3, <1>4, NotPostedInv

\* A handler takes its answer, or gives up.
LEMMA WaitStep ==
    ASSUME MainInv, NEW h \in Handlers, IsWaiting(h),
           NEW x, HandlerShape(x), x.pc \in {"answered", "timedOut"},
           x.msg = handler[h].msg,
           handler' = [handler EXCEPT ![h] = x],
           retChan' \in [Handlers -> {<<>>, <<FALSE>>, <<TRUE>>}],
           \A g \in Handlers \ {h} : retChan'[g] = retChan[g],
           \/ retChan'[h] = retChan[h] /\ x.pc = "timedOut"
           \/ retChan[h] # <<>>,
           UNCHANGED <<queue, sending, rooms, seed, enabled, executed, failed, ready>>,
           (RoomAnswerSound(h)' /\ AccountAnswerSound(h)') \/ x.pc = "timedOut"
    PROVE  MainInv'
  <1> USE DEF MainInv, StructureInv
  <1>1. /\ HandlerTypes' /\ handler'[h] = x
        /\ \A g \in Handlers \ {h} : handler'[g] = handler[g]
    BY HandlerChanged
  <1>2. x # Idle /\ handler[h] # Idle
    BY DEF Idle, IsWaiting
  <1>3. \A g \in Handlers : InQueue(g)' <=> InQueue(g)
    BY DEF InQueue
  <1>4. InQueue(h) => x.pc = "timedOut" /\ retChan'[h] = retChan[h]
    BY DEF QueueSound, Untouched
  <1>5. \A g \in Handlers : retChan'[g] = retChan[g] => (Untouched(g)' <=> Untouched(g))
    BY DEF Untouched
  <1>6. GlobalTypes' /\ RoomsNumbered' /\ RoomsStep
    BY DEF GlobalTypes, RoomsNumbered, RoomsStep
  <1>7. QueueSound'
    BY <1>1, <1>2, <1>3, <1>4, <1>5 DEF QueueSound
  <1>8. Processed \subseteq Processed'
    BY <1>1, <1>2, <1>3 DEF Processed
  <1>9. SeedCounts'
    BY <1>8, CountKept, MainThreadAssumption DEF RoomsNumbered
  <1>10. OnlyFailedUpdateBlocks'
    BY <1>1, MainThreadAssumption DEF OnlyFailedUpdateBlocks, GlobalTypes, IsWaiting
  <1>11. Replied(h)' => RoomAnswerSound(h)' /\ AccountAnswerSound(h)'
    BY <1>1 DEF Replied, IsAnswered, IsWaiting
  <1>12. AnswersSound'
    BY <1>1, <1>6, <1>11, OthersKept DEF AnswersSound
  <1> QED
    BY <1>1, <1>6, <1>7, <1>9, <1>10, <1>12

LEMMA AnsweredInv ==
    ASSUME MainInv, NEW h \in Handlers, Answered(h)
    PROVE  MainInv'
  <1> DEFINE x == [pc |-> "answered", msg |-> handler[h].msg,
                   out |-> handler[h].out, ret |-> Head(retChan[h])]
  <1>1. /\ IsWaiting(h) /\ retChan[h] # <<>>
        /\ retChan' = [retChan EXCEPT ![h] = Tail(retChan[h])]
        /\ handler' = [handler EXCEPT ![h] = x]
        /\ UNCHANGED <<queue, sending, rooms, seed, enabled, executed, failed, ready>>
    BY DEF Answered
  <1>2. HandlerTypes /\ GlobalTypes /\ AnswersSound /\ RoomsNumbered
    BY DEF MainInv, StructureInv
  <1>3. handler[h].msg \in Msgs
    BY <1>1, <1>2, ShapeFacts DEF HandlerTypes, IsWaiting, Idle, Stuck
  <1>4. HandlerShape(x)
    BY <1>3, Shapes
  <1>5. /\ x.pc = "answered" /\ x.msg = handler[h].msg
        /\ x.out = handler[h].out /\ x.ret = Head(retChan[h])
    OBVIOUS
  <1> HIDE DEF x
  <1>6. Tail(retChan[h]) = <<>>
    BY <1>1, <1>2, OneElement DEF GlobalTypes
  <1>7. /\ retChan' \in [Handlers -> {<<>>, <<FALSE>>, <<TRUE>>}]
        /\ \A g \in Handlers \ {h} : retChan'[g] = retChan[g]
    BY <1>1, <1>2, <1>6 DEF GlobalTypes
  <1>8. handler'[h] = x
    BY <1>1, <1>2, <1>4, HandlerChanged
  <1>9. Replied(h) /\ Reply(h)' = Reply(h)
    BY <1>1, <1>5, <1>8 DEF Replied, Reply, IsWaiting
  <1>10. RoomsStep
    BY <1>1, <1>2 DEF RoomsStep, RoomsNumbered
  <1>11. RoomAnswerSound(h)' /\ AccountAnswerSound(h)'
    BY <1>1, <1>2, <1>5, <1>8, <1>9, <1>10, AnswerKept
  <1> QED
    BY <1>1, <1>4, <1>5, <1>7, <1>11, WaitStep

LEMMA TimeoutInv ==
    ASSUME MainInv, NEW h \in Handlers, WaitMThreadMsg_timeout(h)
    PROVE  MainInv'
  <1> DEFINE x == [pc |-> "timedOut", msg |-> handler[h].msg]
  <1>1. /\ IsWaiting(h)
        /\ handler' = [handler EXCEPT ![h] = x]
        /\ UNCHANGED <<queue, retChan, sending, rooms, seed, enabled, executed, failed, ready>>
    BY DEF WaitMThreadMsg_timeout
  <1>2. handler[h].msg \in Msgs
    BY <1>1, ShapeFacts
    DEF MainInv, StructureInv, HandlerTypes, IsWaiting, Idle, Stuck
  <1>3. HandlerShape(x)
    BY <1>2, Shapes
  <1>4. x.pc = "timedOut" /\ x.msg = handler[h].msg
    OBVIOUS
  <1> HIDE DEF x
  <1> QED
    BY <1>1, <1>3, <1>4, WaitStep DEF MainInv, StructureInv, GlobalTypes

-----------------------------------------------------------------------------
(* Steps of the main goroutine *)

\* What processing a message of h does to the handler, and to its RetChan.
LEMMA ProcessFacts ==
    ASSUME MainInv, NEW h, NEW event, Process(h, event),
           NEW b \in BOOLEAN, Ret(h, b),
           NEW v, handler' = handler \/ Out(h, v)
    PROVE  /\ h \in Handlers
           /\ sending = None
           /\ InQueue(h) /\ Untouched(h)
           /\ queue' \in Seq(Handlers) /\ NoRepeats(queue')
           /\ \A g \in Handlers : InQueue(g)' <=> InQueue(g) /\ g # h
           /\ handler[h].msg \in Msgs
           /\ handler[h].msg.event = event
           /\ HandlerTypes'
           /\ handler'[h].pc = handler[h].pc
           /\ handler'[h].pc \in {"waiting", "timedOut"}
           /\ handler'[h].msg = handler[h].msg
           /\ IsWaiting(h) /\ Out(h, v) => handler'[h].out = v
           /\ \A g \in Handlers \ {h} : handler'[g] = handler[g]
           /\ retChan' \in [Handlers -> {<<>>, <<FALSE>>, <<TRUE>>}]
           /\ retChan'[h] = <<b>>
           /\ \A g \in Handlers \ {h} : retChan'[g] = retChan[g]
           /\ IsWaiting(h) => Reply(h)' = b
           /\ Replied(h)' => IsWaiting(h) /\ IsWaiting(h)'
  <1>1. HandlerTypes /\ GlobalTypes /\ QueueSound
    BY DEF MainInv, StructureInv
  <1>2. /\ sending = None /\ queue # <<>> /\ h = Head(queue)
        /\ handler[h].msg.event = event /\ queue' = Tail(queue)
    BY DEF Process
  <1>3. /\ h \in Handlers /\ InQueue(h)
        /\ queue' \in Seq(Handlers) /\ NoRepeats(queue')
        /\ \A g \in Handlers : InQueue(g)' <=> InQueue(g) /\ g # h
    BY <1>1, <1>2, TailQueue
  <1>4. Untouched(h) /\ handler[h].pc \in {"waiting", "timedOut"}
    BY <1>1, <1>3 DEF QueueSound
  <1>5. handler[h] \notin {Idle, Stuck}
    BY <1>4 DEF Idle, Stuck
  <1>6. /\ HandlerShape(handler[h])
        /\ handler[h].msg \in Msgs
        /\ IsWaiting(h) => handler[h] =
              [pc |-> "waiting", msg |-> handler[h].msg, out |-> handler[h].out]
    BY <1>1, <1>3, <1>5, ShapeFacts DEF HandlerTypes, IsWaiting
  <1>7. CASE handler' = handler
    <2>1. HandlerTypes'
      BY <1>1, <1>7 DEF HandlerTypes
    <2>2. IsWaiting(h) /\ Out(h, v) => handler'[h].out = v
      <3> SUFFICES ASSUME IsWaiting(h), Out(h, v)
                   PROVE  handler'[h].out = v
        OBVIOUS
      <3>1. handler' = [handler EXCEPT ![h] = [handler[h] EXCEPT !.out = v]]
        BY DEF Out
      <3>2. handler'[h] = [handler[h] EXCEPT !.out = v]
        BY <1>1, <1>3, <3>1 DEF HandlerTypes
      <3> QED
        BY <1>6, <3>2
    <2> QED
      BY <1>1, <1>2, <1>3, <1>4, <1>6, <1>7, <2>1, <2>2, OneElement
      DEF Ret, GlobalTypes, Untouched, Reply, Replied, IsAnswered, IsWaiting
  <1>8. CASE handler' # handler
    <2>1. IsWaiting(h) /\ handler' = [handler EXCEPT ![h] = [handler[h] EXCEPT !.out = v]]
      BY <1>8 DEF Out
    <2> DEFINE x == [pc |-> "waiting", msg |-> handler[h].msg, out |-> v]
    <2>2. handler' = [handler EXCEPT ![h] = x]
      <3>1. [handler[h] EXCEPT !.out = v] = x
        BY <1>6, <2>1
      <3> QED
        BY <2>1, <3>1
    <2>3. HandlerShape(x)
      BY <1>6, Shapes
    <2>4. x.pc = "waiting" /\ x.msg = handler[h].msg /\ x.out = v
      OBVIOUS
    <2> HIDE DEF x
    <2>5. /\ HandlerTypes' /\ handler'[h] = x
          /\ \A g \in Handlers \ {h} : handler'[g] = handler[g]
      BY <1>1, <1>3, <2>2, <2>3, HandlerChanged
    <2>6. /\ retChan' \in [Handlers -> {<<>>, <<FALSE>>, <<TRUE>>}]
          /\ retChan'[h] = <<b>>
          /\ \A g \in Handlers \ {h} : retChan'[g] = retChan[g]
      BY <1>1, <1>3, <1>4, OneElement DEF Ret, GlobalTypes, Untouched
    <2>7. handler[h].pc = "waiting"
      BY <2>1 DEF IsWaiting
    <2>8. Reply(h)' = b /\ IsWaiting(h)'
      BY <2>4, <2>5, <2>6, OneElement DEF Reply, IsWaiting
    <2> QED
      BY <1>2, <1>3, <1>4, <1>6, <2>1, <2>4, <2>5, <2>6, <2>7, <2>8
  <1> QED
    BY <1>7, <1>8

\* What every message has in common.  What is left for each event is the rooms
\* and that its own answer is sound.
LEMMA ProcessInv ==
    ASSUME MainInv, NEW h, NEW event, Process(h, event),
           NEW b \in BOOLEAN, Ret(h, b),
           NEW v, handler' = handler \/ Out(h, v),
           RoomsNumbered', RoomsStep,
           enabled' \in BOOLEAN,
           executed' \in {executed, executed \union {h}},
           failed' \in {failed, failed \union {h}},
           ready' = ready,
           \/ sending' = sending
           \/ /\ sending' = h /\ h \in failed'
              /\ DbFaults /\ event = "LsModifyPassword" /\ b = FALSE,
           IsWaiting(h) => RoomAnswerSound(h)' /\ AccountAnswerSound(h)'
    PROVE  MainInv'
  <1> USE DEF MainInv, StructureInv
  <1>1. /\ h \in Handlers
        /\ sending = None
        /\ InQueue(h) /\ Untouched(h)
        /\ queue' \in Seq(Handlers) /\ NoRepeats(queue')
        /\ \A g \in Handlers : InQueue(g)' <=> InQueue(g) /\ g # h
        /\ handler[h].msg.event = event
        /\ HandlerTypes'
        /\ handler'[h].pc \in {"waiting", "timedOut"}
        /\ handler'[h].msg = handler[h].msg
        /\ \A g \in Handlers \ {h} : handler'[g] = handler[g]
        /\ retChan' \in [Handlers -> {<<>>, <<FALSE>>, <<TRUE>>}]
        /\ retChan'[h] = <<b>>
        /\ \A g \in Handlers \ {h} : retChan'[g] = retChan[g]
        /\ Replied(h)' => IsWaiting(h)
    BY ProcessFacts
  <1>2. handler[h] # Idle /\ handler'[h] # Idle
    <2>1. handler[h].pc \in {"waiting", "timedOut"}
      BY <1>1 DEF QueueSound
    <2> QED
      BY <1>1, <2>1 DEF Idle
  <1>3. GlobalTypes'
    BY <1>1 DEF GlobalTypes
  <1>4. \A g \in Handlers \ {h} : Untouched(g) => Untouched(g)'
    BY <1>1, MainThreadAssumption DEF Untouched
  <1>5. QueueSound'
    BY <1>1, <1>2, <1>4 DEF QueueSound, NoRepeats
  <1>6. h \notin Processed /\ Processed' = Processed \union {h}
    BY <1>1, <1>2 DEF Processed
  <1>7. SeedCounts'
    BY <1>1, <1>6, CountUp, MainThreadAssumption DEF RoomsStep
  <1>8. OnlyFailedUpdateBlocks'
    <2> SUFFICES ASSUME sending' # None
                 PROVE  /\ DbFaults
                        /\ handler'[sending'].msg.event = "LsModifyPassword"
                        /\ sending' \in failed'
                        /\ retChan'[sending'] = <<FALSE>>
      BY DEF OnlyFailedUpdateBlocks
    <2>1. /\ sending' = h /\ h \in failed'
          /\ DbFaults /\ event = "LsModifyPassword" /\ b = FALSE
      BY <1>1
    <2>2. retChan'[h] = <<FALSE>>
      BY <1>1, <2>1
    <2> QED
      BY <1>1, <2>1, <2>2 DEF Untouched
  <1>9. AnswersSound'
    <2> SUFFICES ASSUME NEW g \in Handlers, Replied(g)'
                 PROVE  RoomAnswerSound(g)' /\ AccountAnswerSound(g)'
      BY DEF AnswersSound
    <2>1. CASE g = h
      BY <1>1, <2>1
    <2>2. CASE g # h
      BY <1>1, <2>2, OthersKept
    <2> QED
      BY <2>1, <2>2
  <1> QED
    BY <1>1, <1>3, <1>5, <1>7, <1>8, <1>9

\* Messages that are not about rooms leave them alone.
LEMMA RoomsLeft ==
    ASSUME RoomsNumbered, UNCHANGED <<rooms, seed>>
    PROVE  RoomsNumbered' /\ RoomsStep
  BY DEF RoomsNumbered, RoomsStep

LEMMA RegisterGSInv ==
    ASSUME MainInv, NEW h, RegisterGS(h)
    PROVE  MainInv'
  <1> DEFINE m == handler[h].msg
  <1>1. /\ Process(h, "RegisterGS") /\ AddUserGameServer(m) /\ Ret(h, TRUE)
        /\ UNCHANGED <<sending, enabled, executed, failed, ready>>
    BY DEF RegisterGS
  <1>2. PICK q \in rooms' : q.address = m.address /\ Out(h, q.id)
    BY DEF RegisterGS
  <1>3. /\ m \in Msgs /\ m.event = "RegisterGS" /\ handler'[h].msg = m
        /\ IsWaiting(h) => handler'[h].out = q.id
    BY <1>1, <1>2, ProcessFacts
  <1>4. m.address \in Addresses /\ m.password \in Password
    BY <1>3, MsgFields
  <1>5. RoomsNumbered
    BY DEF MainInv, StructureInv
  <1> HIDE DEF m
  <1>6. RoomsNumbered' /\ RoomsStep
    <2>1. CASE UNCHANGED <<rooms, seed>>
      BY <1>5, <2>1, RoomsLeft
    <2>2. CASE ~UNCHANGED <<rooms, seed>>
      <3> DEFINE new == [address |-> m.address, id |-> seed + 1,
                         password |-> m.password]
      <3>1. seed' = seed + 1 /\ rooms' = rooms \union {new}
        BY <1>1, <2>2 DEF AddUserGameServer
      <3>2. new \in [address : Addresses, id : 1..seed', password : Password]
        BY <1>4, <1>5, <3>1 DEF RoomsNumbered
      <3>3. rooms \subseteq [address : Addresses, id : 1..seed', password : Password]
        BY <1>5, <3>1 DEF RoomsNumbered
      <3>4. \A r \in rooms : r.id # new.id
        BY <1>5 DEF RoomsNumbered
      <3>5. new.id = seed + 1
        OBVIOUS
      <3> HIDE DEF new
      <3> QED
        BY <1>5, <3>1, <3>2, <3>3, <3>4, <3>5 DEF RoomsNumbered, RoomsStep
    <2> QED
      BY <2>1, <2>2
  <1>7. IsWaiting(h) => RoomAnswerSound(h)' /\ AccountAnswerSound(h)'
    BY <1>2, <1>3, <1>6
    DEF RoomAnswerSound, AccountAnswerSound, RoomsNumbered
  <1> QED
    BY <1>1, <1>2, <1>5, <1>6, <1>7, ProcessInv
    DEF MainInv, StructureInv, GlobalTypes

LEMMA GetGsListInv ==
    ASSUME MainInv, NEW h, GetGsList(h)
    PROVE  MainInv'
  <1> DEFINE list == {[id |-> r.id,
                       address |-> IF r.password = None THEN r.address ELSE None] :
                         r \in rooms}
  <1>1. /\ Process(h, "GetGsList") /\ Out(h, list) /\ Ret(h, TRUE)
        /\ UNCHANGED <<sending, rooms, seed, enabled, executed, failed, ready>>
    BY DEF GetGsList
  <1>2. RoomsNumbered /\ GlobalTypes
    BY DEF MainInv, StructureInv
  <1>3. RoomsNumbered' /\ RoomsStep
    BY <1>1, <1>2, RoomsLeft
  <1>4. \A item \in list :
           /\ item.id \in 1..seed
           /\ \A r \in rooms : item.id = r.id /\ item.address # None =>
                 item.address = r.address /\ r.password = None
    BY <1>2 DEF RoomsNumbered
  <1> HIDE DEF list
  <1>5. /\ handler'[h].msg.event = "GetGsList"
        /\ IsWaiting(h) => handler'[h].out = list
    BY <1>1, ProcessFacts
  <1>6. IsWaiting(h) => RoomAnswerSound(h)' /\ AccountAnswerSound(h)'
    BY <1>1, <1>4, <1>5 DEF RoomAnswerSound, AccountAnswerSound
  <1> QED
    BY <1>1, <1>2, <1>3, <1>6, ProcessInv DEF GlobalTypes

LEMMA GetGsAddrInv ==
    ASSUME MainInv, NEW h, GetGsAddr(h)
    PROVE  MainInv'
  <1> DEFINE m == handler[h].msg
             found == {r \in rooms : r.id = m.id /\ r.password \in {None, m.password}}
             b == found # {}
  <1>1. /\ Process(h, "GetGsAddr") /\ Ret(h, b)
        /\ UNCHANGED <<sending, rooms, seed, enabled, executed, failed, ready>>
        /\ IF b THEN \E r \in found : Out(h, r.address) ELSE handler' = handler
    BY DEF GetGsAddr
  <1>2. RoomsNumbered /\ GlobalTypes
    BY DEF MainInv, StructureInv
  <1>3. RoomsNumbered' /\ RoomsStep
    BY <1>1, <1>2, RoomsLeft
  <1>4. b \in BOOLEAN
    OBVIOUS
  <1>5. CASE ~b
    <2>1. /\ handler'[h].msg.event = "GetGsAddr"
          /\ IsWaiting(h) => Reply(h)' = b
      BY <1>1, <1>4, <1>5, ProcessFacts
    <2>2. IsWaiting(h) => RoomAnswerSound(h)' /\ AccountAnswerSound(h)'
      BY <1>5, <2>1 DEF RoomAnswerSound, AccountAnswerSound
    <2> QED
      BY <1>1, <1>2, <1>3, <1>4, <1>5, <2>2, ProcessInv DEF GlobalTypes
  <1>6. CASE b
    <2>1. PICK q \in found : Out(h, q.address)
      BY <1>1, <1>6
    <2>2. /\ handler'[h].msg = m /\ m.event = "GetGsAddr"
          /\ IsWaiting(h) => handler'[h].out = q.address
      BY <1>1, <1>4, <2>1, ProcessFacts
    <2>3. /\ m.id \in 1..seed
          /\ \A r \in rooms : r.id = m.id =>
                r = q /\ r.password \in {None, m.password}
      BY <1>2, <2>1 DEF RoomsNumbered
    <2>4. IsWaiting(h) => RoomAnswerSound(h)' /\ AccountAnswerSound(h)'
      BY <1>1, <2>2, <2>3 DEF RoomAnswerSound, AccountAnswerSound
    <2> QED
      BY <1>1, <1>2, <1>3, <1>4, <2>1, <2>4, ProcessInv DEF GlobalTypes
  <1> QED
    BY <1>5, <1>6

LEMMA RemoveGsAddrInv ==
    ASSUME MainInv, NEW h, RemoveGsAddr(h)
    PROVE  MainInv'
  <1>1. /\ Process(h, "RemoveGsAddr") /\ Ret(h, TRUE)
        /\ rooms' \subseteq rooms
        /\ UNCHANGED <<handler, sending, seed, enabled, executed, failed, ready>>
    BY DEF RemoveGsAddr
  <1>2. RoomsNumbered /\ GlobalTypes
    BY DEF MainInv, StructureInv
  <1>3. RoomsNumbered' /\ RoomsStep
    BY <1>1, <1>2 DEF RoomsNumbered, RoomsStep
  <1>4. handler'[h].msg.event = "RemoveGsAddr"
    BY <1>1 DEF Process
  <1>5. RoomAnswerSound(h)' /\ AccountAnswerSound(h)'
    BY <1>4 DEF RoomAnswerSound, AccountAnswerSound
  <1> QED
    BY <1>1, <1>2, <1>3, <1>5, ProcessInv DEF GlobalTypes

LEMMA EnableOlRoomInv ==
    ASSUME MainInv, NEW h, EnableOlRoom(h)
    PROVE  MainInv'
  <1>1. /\ Process(h, "EnableOlRoom") /\ Ret(h, TRUE)
        /\ enabled' = handler[h].msg.enable
        /\ executed' = executed \union {h}
        /\ UNCHANGED <<handler, sending, rooms, seed, failed, ready>>
    BY DEF EnableOlRoom
  <1>2. RoomsNumbered' /\ RoomsStep
    BY <1>1, RoomsLeft DEF MainInv, StructureInv
  <1>3. handler[h].msg \in Msgs /\ handler[h].msg.event = "EnableOlRoom"
    BY <1>1, ProcessFacts
  <1>4. enabled' \in BOOLEAN
    BY <1>1, <1>3, MsgFields
  <1>5. RoomAnswerSound(h)' /\ AccountAnswerSound(h)'
    BY <1>1, <1>3 DEF RoomAnswerSound, AccountAnswerSound
  <1> QED
    BY <1>1, <1>2, <1>4, <1>5, ProcessInv

\* /rs: what is sent first is sound.
LEMMA AccountInv ==
    ASSUME MainInv, NEW h,
           NEW event \in {"LsRegisterAccount", "LsModifyPassword"},
           Process(h, event),
           NEW ending \in Endings, Ends(h, ending),
           Ret(h, ending \in {"done", "vain"}),
           \/ sending' = sending
           \/ sending' = h /\ ending = "failed" /\ event = "LsModifyPassword",
           UNCHANGED <<handler, rooms, seed, enabled, ready>>
    PROVE  MainInv'
  <1> DEFINE b == ending \in {"done", "vain"}
  <1>1. RoomsNumbered' /\ RoomsStep
    BY RoomsLeft DEF MainInv, StructureInv
  <1>2. b \in BOOLEAN /\ Ret(h, b)
    OBVIOUS
  <1>3. /\ handler[h].msg.event = event /\ Untouched(h)
        /\ IsWaiting(h) => Reply(h)' = b
    BY <1>2, ProcessFacts
  <1>4. /\ executed' \in {executed, executed \union {h}}
        /\ failed' \in {failed, failed \union {h}}
        /\ ending = "failed" => h \in failed' /\ DbFaults /\ b = FALSE
        /\ b => failed' = failed
        /\ ~b => executed' = executed
    BY DEF Ends, Endings
  <1>5. IsWaiting(h) => RoomAnswerSound(h)' /\ AccountAnswerSound(h)'
    BY <1>3, <1>4 DEF RoomAnswerSound, AccountAnswerSound, Untouched
  <1> HIDE DEF b
  <1> QED
    BY <1>1, <1>2, <1>4, <1>5, ProcessInv DEF MainInv, StructureInv, GlobalTypes

LEMMA LsRegisterAccountInv ==
    ASSUME MainInv, NEW h, LsRegisterAccount(h)
    PROVE  MainInv'
  BY AccountInv DEF LsRegisterAccount

LEMMA LsModifyPasswordInv ==
    ASSUME MainInv, NEW h, LsModifyPassword(h)
    PROVE  MainInv'
  BY AccountInv DEF LsModifyPassword

\* The channel is made.
LEMMA MainThreadInitInv ==
    ASSUME MainInv, MainThreadInit
    PROVE  MainInv'
  <1> USE DEF MainThreadInit
  <1>1. HandlerTypes' /\ GlobalTypes'
    BY DEF MainInv, StructureInv, HandlerTypes, GlobalTypes
  <1>2. \A h \in Handlers : /\ InQueue(h)' <=> InQueue(h)
                            /\ Untouched(h)' <=> Untouched(h)
    BY DEF InQueue, Untouched
  <1>3. QueueSound'
    BY <1>2 DEF MainInv, StructureInv, QueueSound
  <1>4. RoomsNumbered' /\ RoomsStep
    BY RoomsLeft DEF MainInv, StructureInv
  <1>5. SeedCounts'
    <2>1. Processed' = Processed
      BY <1>2 DEF Processed
    <2> QED
      BY <2>1 DEF MainInv, StructureInv, SeedCounts
  <1>6. OnlyFailedUpdateBlocks'
    BY DEF MainInv, StructureInv, OnlyFailedUpdateBlocks, IsWaiting
  <1>7. AnswersSound'
    BY <1>4, OthersKept DEF MainInv, AnswersSound
  <1> QED
    BY <1>1, <1>3, <1>4, <1>5, <1>6, <1>7 DEF MainInv, StructureInv

\* The second answer comes after the first was taken, and nobody reads it.
LEMMA SendAgainInv ==
    ASSUME MainInv, SendAgain
    PROVE  MainInv'
  <1> USE DEF MainInv, StructureInv
  <1>1. /\ sending # None /\ retChan[sending] = <<>>
        /\ retChan' = [retChan EXCEPT ![sending] = Append(retChan[sending], TRUE)]
        /\ sending' = None
        /\ UNCHANGED <<queue, handler, rooms, seed, enabled, executed, failed, ready>>
    BY DEF SendAgain, Ret
  <1>2. sending \in Handlers /\ ~IsWaiting(sending)
    BY <1>1, OneElement DEF GlobalTypes, OnlyFailedUpdateBlocks
  <1>3. /\ retChan' \in [Handlers -> {<<>>, <<FALSE>>, <<TRUE>>}]
        /\ \A g \in Handlers \ {sending} : retChan'[g] = retChan[g]
    BY <1>1, <1>2, OneElement DEF GlobalTypes
  <1>4. GlobalTypes' /\ HandlerTypes' /\ RoomsNumbered' /\ RoomsStep
    BY <1>1, <1>3 DEF GlobalTypes, HandlerTypes, RoomsNumbered, RoomsStep
  <1>5. \A g \in Handlers : /\ InQueue(g)' <=> InQueue(g)
                            /\ Untouched(g) => Untouched(g)'
    BY <1>1, <1>3, MainThreadAssumption DEF InQueue, Untouched
  <1>6. QueueSound'
    BY <1>1, <1>5 DEF QueueSound
  <1>7. SeedCounts'
    <2>1. Processed' = Processed
      BY <1>1, <1>5 DEF Processed
    <2> QED
      BY <1>1, <2>1 DEF SeedCounts
  <1>8. OnlyFailedUpdateBlocks'
    BY <1>1 DEF OnlyFailedUpdateBlocks
  <1>9. AnswersSound'
    <2> SUFFICES ASSUME NEW g \in Handlers, Replied(g)'
                 PROVE  RoomAnswerSound(g)' /\ AccountAnswerSound(g)'
      BY DEF AnswersSound
    <2>1. CASE g = sending
      <3>1. Replied(g) /\ Reply(g)' = Reply(g)
        BY <1>1, <1>2, <2>1 DEF Replied, Reply, IsWaiting, IsAnswered
      <3> QED
        BY <1>1, <1>4, <3>1, AnswerKept
    <2>2. CASE g # sending
      BY <1>1, <1>3, <1>4, <2>2, OthersKept
    <2> QED
      BY <2>1, <2>2
  <1> QED
    BY <1>4, <1>6, <1>7, <1>8, <1>9

-----------------------------------------------------------------------------
(* The specification *)

LEMMA InitMainInv == Init => MainInv
  <1> SUFFICES ASSUME Init
               PROVE  MainInv
    OBVIOUS
  <1>1. queue \in Seq(Handlers) /\ Len(queue) = 0
    BY EmptySeq DEF Init
  <1>2. \A h \in Handlers : handler[h] = Idle /\ handler[h].pc = "idle"
    BY DEF Init, Idle
  <1>3. HandlerTypes
    BY <1>2 DEF Init, HandlerTypes, HandlerShape
  <1>4. GlobalTypes
    BY DEF Init, GlobalTypes
  <1>5. \A h \in Handlers : ~InQueue(h) /\ Untouched(h)
    BY <1>1, MainThreadAssumption DEF Init, InQueue, Untouched
  <1>6. QueueSound
    BY <1>1, <1>5 DEF QueueSound
  <1>7. RoomsNumbered
    BY DEF Init, RoomsNumbered
  <1>8. SeedCounts
    <2>1. Cardinality(Processed) \in Nat
      BY FS_Subset, FS_CardinalityType, MainThreadAssumption DEF Processed
    <2> QED
      BY <2>1 DEF Init, SeedCounts
  <1>9. OnlyFailedUpdateBlocks
    BY DEF Init, OnlyFailedUpdateBlocks
  <1>10. AnswersSound
    BY <1>2 DEF AnswersSound, Replied, IsAnswered, IsWaiting
  <1> QED
    BY <1>3, <1>4, <1>6, <1>7, <1>8, <1>9, <1>10 DEF MainInv, StructureInv

LEMMA HandlersMainInv ==
    ASSUME MainInv, NEW h \in Handlers,
           \/ \E a \in Addresses, p \in Password : registergsHandler(h, a, p)
           \/ \E id \in Named : removeGsAddrHandler(h, id)
           \/ \E id \in Named, p \in Password : getGsAddressHandler(h, id, p)
           \/ getGsListHandler(h)
           \/ \E b \in BOOLEAN : adminHandler(h, b)
           \/ \E e \in {"LsRegisterAccount", "LsModifyPassword"} : rsHandler(h, e)
    PROVE  MainInv'
  <1>1. ASSUME NEW a \in Addresses, NEW p \in Password, registergsHandler(h, a, p)
        PROVE  MainInv'
    <2>1. [event |-> "RegisterGS", address |-> a, password |-> p] \in Msgs
      BY DEF Msgs, RoomMsg
    <2> QED
      BY <1>1, <2>1, PostInv DEF registergsHandler
  <1>2. ASSUME NEW id \in Named, removeGsAddrHandler(h, id)
        PROVE  MainInv'
    <2>1. [event |-> "RemoveGsAddr", id |-> id] \in Msgs
      BY DEF Msgs, RoomMsg
    <2> QED
      BY <1>2, <2>1, PostInv DEF removeGsAddrHandler
  <1>3. ASSUME NEW id \in Named, NEW p \in Password, getGsAddressHandler(h, id, p)
        PROVE  MainInv'
    <2>1. [event |-> "GetGsAddr", id |-> id, password |-> p] \in Msgs
      BY DEF Msgs, RoomMsg
    <2> QED
      BY <1>3, <2>1, PostInv DEF getGsAddressHandler
  <1>4. CASE getGsListHandler(h)
    <2>1. [event |-> "GetGsList"] \in Msgs
      BY DEF Msgs, RoomMsg
    <2>2. CASE PostMThreadMsg(h, [event |-> "GetGsList"])
      BY <2>1, <2>2, PostInv
    <2>3. CASE ~PostMThreadMsg(h, [event |-> "GetGsList"])
      BY <1>4, <2>3, EmptyListInv DEF getGsListHandler
    <2> QED
      BY <2>2, <2>3
  <1>5. ASSUME NEW b \in BOOLEAN, adminHandler(h, b)
        PROVE  MainInv'
    <2>1. [event |-> "EnableOlRoom", enable |-> b] \in Msgs
      BY DEF Msgs, TimedMsg
    <2> QED
      BY <1>5, <2>1, PostInv DEF adminHandler
  <1>6. ASSUME NEW e \in {"LsRegisterAccount", "LsModifyPassword"}, rsHandler(h, e)
        PROVE  MainInv'
    <2>1. [event |-> e] \in Msgs
      BY DEF Msgs, TimedMsg
    <2> QED
      BY <1>6, <2>1, PostInv DEF rsHandler
  <1> QED
    BY <1>1, <1>2, <1>3, <1>4, <1>5, <1>6

LEMMA NextMainInv == MainInv /\ [Next]_vars => MainInv'
  <1> SUFFICES ASSUME MainInv, [Next]_vars
               PROVE  MainInv'
    OBVIOUS
  <1>1. ASSUME NEW h \in Handlers,
               \/ \E a \in Addresses, p \in Password : registergsHandler(h, a, p)
               \/ \E id \in Named : removeGsAddrHandler(h, id)
               \/ \E id \in Named, p \in Password : getGsAddressHandler(h, id, p)
               \/ getGsListHandler(h)
               \/ \E b \in BOOLEAN : adminHandler(h, b)
               \/ \E e \in {"LsRegisterAccount", "LsModifyPassword"} : rsHandler(h, e)
        PROVE  MainInv'
    BY <1>1, HandlersMainInv
  <1>2. ASSUME NEW h \in Handlers, Answered(h)
        PROVE  MainInv'
    BY <1>2, AnsweredInv
  <1>3. ASSUME NEW h \in Handlers, WaitMThreadMsg_timeout(h)
        PROVE  MainInv'
    BY <1>3, TimeoutInv
  <1>4. ASSUME NEW h \in Handlers, ProcessMThreadMsg(h)
        PROVE  MainInv'
    BY <1>4, RegisterGSInv, GetGsListInv, GetGsAddrInv, RemoveGsAddrInv,
       EnableOlRoomInv, LsRegisterAccountInv, LsModifyPasswordInv
    DEF ProcessMThreadMsg
  <1>5. CASE SendAgain
    BY <1>5, SendAgainInv
  <1>6. CASE MainThreadInit
    BY <1>6, MainThreadInitInv
  <1>7. CASE UNCHANGED vars
    <2> USE <1>7 DEF vars
    <2>1. HandlerTypes' = HandlerTypes /\ GlobalTypes' = GlobalTypes
      BY DEF HandlerTypes, GlobalTypes
    <2>2. \A h \in Handlers : /\ InQueue(h)' <=> InQueue(h)
                              /\ Untouched(h)' <=> Untouched(h)
      BY DEF InQueue, Untouched
    <2>3. QueueSound' <=> QueueSound
      BY <2>2 DEF QueueSound
    <2>4. RoomsNumbered' /\ RoomsStep
      BY RoomsLeft DEF MainInv, StructureInv
    <2>5. SeedCounts'
      <3>1. Processed' = Processed
        BY <2>2 DEF Processed
      <3> QED
        BY <3>1 DEF MainInv, StructureInv, SeedCounts
    <2>6. OnlyFailedUpdateBlocks'
      BY DEF MainInv, StructureInv, OnlyFailedUpdateBlocks, IsWaiting
    <2>7. AnswersSound'
      BY <2>4, OthersKept DEF MainInv, AnswersSound
    <2> QED
      BY <2>1, <2>3, <2>4, <2>5, <2>6, <2>7 DEF MainInv, StructureInv
  <1> QED
    BY <1>1, <1>2, <1>3, <1>4, <1>5, <1>6, <1>7 DEF Next, Finished

LEMMA SpecMainInv == Spec => []MainInv
  BY InitMainInv, NextMainInv, PTL DEF Spec

\* The variables keep their types: a RetChan of capacity 1 never holds more, and
\* there are no more ids than requests.
THEOREM MainTypesCorrect == Spec => []TypeOK
  <1>1. MainInv => TypeOK
    <2> SUFFICES ASSUME MainInv
                 PROVE  TypeOK
      OBVIOUS
    <2> USE DEF MainInv, StructureInv
    <2>1. seed <= Cardinality(Handlers) /\ Cardinality(Handlers) \in Nat
      <3>1. /\ Cardinality(Processed) <= Cardinality(Handlers)
            /\ Cardinality(Handlers) \in Nat /\ Cardinality(Processed) \in Nat
        BY FS_Subset, FS_CardinalityType, MainThreadAssumption DEF Processed
      <3> QED
        BY <3>1 DEF SeedCounts, RoomsNumbered
    <2>2. seed \in Ids \union {0} /\ rooms \subseteq Room
      BY <2>1 DEF RoomsNumbered, Ids, Room
    <2>3. \A h \in Handlers :
             \/ handler[h] \in {Idle, Stuck}
             \/ /\ handler[h].pc \in {"waiting", "answered", "timedOut"}
                /\ handler[h].msg \in RoomMsg \union TimedMsg
      BY ShapeFacts DEF HandlerTypes, Msgs
    <2> QED
      BY <2>2, <2>3 DEF TypeOK, GlobalTypes, QueueSound
  <1> QED
    BY <1>1, SpecMainInv, PTL

\* The main goroutine is blocked by nothing but a password change that failed.
THEOREM MainBlockedRarely == Spec => []OnlyFailedUpdateBlocks
  <1>1. MainInv => OnlyFailedUpdateBlocks
    BY DEF MainInv, StructureInv
  <1> QED
    BY <1>1, SpecMainInv, PTL

\* /rs refuses nothing that it did and reports no failed statement as a success,
\* although it may be sent two answers.
THEOREM AnswersTrue == Spec => []RepliesTrue
  <1>1. MainInv => RepliesTrue
    BY DEF MainInv, AnswersSound, AccountAnswerSound, Replied, Reply, IsAnswered,
           IsWaiting, RepliesTrue
  <1> QED
    BY <1>1, SpecMainInv, PTL

\* An id that was given out names its room or none.
THEOREM IdsKept == Spec => []RoomIdKept
  <1>1. MainInv => RoomIdKept
    BY DEF MainInv, StructureInv, AnswersSound, RoomAnswerSound, Replied,
           IsAnswered, RoomsNumbered, RoomIdKept
  <1> QED
    BY <1>1, SpecMainInv, PTL

\* What was answered about a room with a password was answered to one who knew
\* it, and stays so for as long as the room exists.
THEOREM PasswordsGuard == Spec => []PasswordGuards
  <1>1. MainInv => PasswordGuards
    BY DEF MainInv, AnswersSound, RoomAnswerSound, Replied, Reply, IsAnswered,
           IsWaiting, PasswordGuards
  <1> QED
    BY <1>1, SpecMainInv, PTL
=============================================================================
