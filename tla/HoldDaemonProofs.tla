-------------------------- MODULE HoldDaemonProofs --------------------------
(* Theorems about HoldDaemon, for every set of handlers, poses, batches.   *)
EXTENDS HoldDaemon, SequenceTheorems, TLAPS

-----------------------------------------------------------------------------
(* The queue and the calls: types and OneInFlight are inductive together   *)
(* with the shape of a call and the emptiness of a daemon that is down.    *)

CallShape ==
    \A h \in Handlers : call[h].pc \in {"send", "wait"} <=> call[h].todo # <<>>

DownIsEmpty ==
    daemon = "down" => queue = <<>> /\ \A h \in Handlers : call[h] = Idle

CallInv == TypeOK /\ CallShape /\ DownIsEmpty /\ OneInFlight

\* The empty call and the messages of a batch are of the right type.
LEMMA IdleIsCall ==
    /\ Idle \in Call
    /\ Off \in Held
    /\ SaveItem \in Item
    /\ \A b \in Batches : [pc |-> "send", todo |-> b] \in Call
  BY HoldAssumption, EmptySeq DEF Idle, Call, Off, Held, SaveItem, Item, Message, Funcodes

\* Messages keep the daemon's memory and the arm within their types.
LEMMA EffectTypes ==
    ASSUME TypeOK, NEW m \in Message
    PROVE  /\ Apply(hold, m) \in Held
           /\ Hears(arm, m) \in Held
           /\ Hears(Ensured, m) \in Held
           /\ [Ensured EXCEPT !.pose = hold.pose] \in Held
           /\ \A a \in CutShort : a \in Held
           /\ Loaded(file) \in Held
  BY IdleIsCall DEF TypeOK, Apply, Hears, Ensured, Restored, Powered, CutShort,
     Loaded, Held, Message, Holding

\* Taking the head of the queue shifts the items by one.
LEMMA TakeQueue ==
    ASSUME TypeOK, queue # <<>>, queue' = Tail(queue)
    PROVE  /\ Len(queue) \in Nat /\ Len(queue) > 0
           /\ Head(queue) \in Item /\ Head(queue) = queue[1]
           /\ queue' \in Seq(Item)
           /\ DOMAIN queue = 1..Len(queue)
           /\ DOMAIN queue' = 1..(Len(queue) - 1)
           /\ \A i \in DOMAIN queue' : /\ queue'[i] = queue[i + 1]
                                       /\ i + 1 \in DOMAIN queue
           /\ \A i \in DOMAIN queue : i # 1 =>
                  i - 1 \in DOMAIN queue' /\ queue'[i - 1] = queue[i]
  BY HeadTailProperties, EmptySeq, LenProperties DEF TypeOK

\* Appending keeps the old items where they were.
LEMMA PutQueue ==
    ASSUME TypeOK, NEW it \in Item, queue' = Append(queue, it)
    PROVE  /\ Len(queue) \in Nat
           /\ queue' \in Seq(Item)
           /\ DOMAIN queue = 1..Len(queue)
           /\ DOMAIN queue' = 1..(Len(queue) + 1)
           /\ \A i \in DOMAIN queue : queue'[i] = queue[i]
           /\ queue'[Len(queue) + 1] = it
  BY AppendProperties, LenProperties DEF TypeOK

\* A handler woken by the writer is where its remaining messages put it.
LEMMA AnsweredCall ==
    ASSUME CallInv, queue # <<>>, Head(queue).kind = "msg", NEW ok \in BOOLEAN
    PROVE  LET c == Answered(Head(queue).to, ok)
           IN  /\ c \in [Handlers -> Call]
               /\ \A h \in Handlers : h # Head(queue).to => c[h] = call[h]
               /\ Head(queue).to \in Handlers =>
                      /\ c[Head(queue).to].pc # "wait"
                      /\ c[Head(queue).to].pc = "send"
                             <=> c[Head(queue).to].todo # <<>>
<1> DEFINE to == Head(queue).to
           c  == Answered(to, ok)
<1>1. Head(queue) = queue[1] /\ 1 \in DOMAIN queue /\ queue[1] \in Item
  BY HeadTailProperties, LenProperties, ElementOfSeq, EmptySeq DEF CallInv, TypeOK
<1>2. to \in Handlers \cup {Nobody}
  BY <1>1 DEF Item
<1>3. CASE to = Nobody
  BY <1>3, HoldAssumption DEF Answered, CallInv, TypeOK
<1>4. CASE to \in Handlers
  <2>1. to # Nobody
    BY <1>4, HoldAssumption
  <2>2. call[to].pc = "wait" /\ call[to].todo # <<>> /\ call[to] \in Call
    BY <1>1, <1>4, <2>1 DEF CallInv, OneInFlight, CallShape, TypeOK
  <2>3. /\ Tail(call[to].todo) \in Seq(Message)
        /\ Len(Tail(call[to].todo)) = Len(call[to].todo) - 1
        /\ Len(call[to].todo) \in Nat \ {0}
    BY <2>2, HeadTailProperties, EmptySeq DEF Call
  <2>4. Tail(call[to].todo) = <<>> <=> Len(call[to].todo) = 1
    <3>1. \A s \in Seq(Message) : s = <<>> <=> Len(s) = 0
      BY EmptySeq
    <3>2. Tail(call[to].todo) = <<>> <=> Len(Tail(call[to].todo)) = 0
      BY <2>3, <3>1
    <3>3. Len(Tail(call[to].todo)) = 0 <=> Len(call[to].todo) = 1
      BY <2>3
    <3>. QED
      BY <3>2, <3>3
  <2> DEFINE rest == [pc   |-> IF Len(call[to].todo) = 1 THEN "save" ELSE "send",
                      todo |-> Tail(call[to].todo)]
  <2>5. /\ rest \in Call
        /\ rest.pc # "wait"
        /\ rest.pc = "send" <=> rest.todo # <<>>
    BY <2>3, <2>4 DEF Call
  <2>6. /\ Idle \in Call
        /\ Idle.pc # "wait"
        /\ Idle.pc = "send" <=> Idle.todo # <<>>
    BY IdleIsCall DEF Idle
  <2>7. /\ ok => c = [call EXCEPT ![to] = rest]
        /\ ~ok => c = [call EXCEPT ![to] = Idle]
    BY <2>1 DEF Answered
  <2>8. call \in [Handlers -> Call]
    BY DEF CallInv, TypeOK
  <2> HIDE DEF rest
  <2>9. CASE ok
    <3>1. c = [call EXCEPT ![to] = rest]
      BY <2>7, <2>9
    <3> HIDE DEF c
    <3>. QED
      BY <1>4, <2>5, <2>8, <3>1 DEF c
  <2>10. CASE ~ok
    <3>1. c = [call EXCEPT ![to] = Idle]
      BY <2>7, <2>10
    <3>. QED
      BY <1>4, <2>6, <2>8, <3>1
  <2>. QED
    BY <2>9, <2>10
<1>. QED
  BY <1>2, <1>3, <1>4

\* Taking a message from the queue and waking the handler that waits for it
\* keeps calls and queue consistent.
LEMMA TakeMsgStep ==
    ASSUME CallInv, Takes("msg"), NEW ok \in BOOLEAN,
           call' = Answered(Head(queue).to, ok), daemon' = daemon
    PROVE  /\ queue' \in Seq(Item) /\ call' \in [Handlers -> Call]
           /\ CallShape' /\ DownIsEmpty' /\ OneInFlight'
<1> DEFINE to == Head(queue).to
<1>1. queue # <<>> /\ queue' = Tail(queue) /\ daemon' = "up" /\ TypeOK
  BY DEF Takes, CallInv
<1>2. /\ call' \in [Handlers -> Call]
      /\ \A h \in Handlers : h # to => call'[h] = call[h]
      /\ to \in Handlers => /\ call'[to].pc # "wait"
                            /\ call'[to].pc = "send" <=> call'[to].todo # <<>>
  BY <1>1, AnsweredCall DEF Takes
<1>3. /\ queue' \in Seq(Item) /\ Head(queue) = queue[1]
      /\ DOMAIN queue = 1..Len(queue) /\ Len(queue) \in Nat /\ Len(queue) > 0
      /\ DOMAIN queue' = 1..(Len(queue) - 1)
      /\ \A i \in DOMAIN queue' : queue'[i] = queue[i + 1] /\ i + 1 \in DOMAIN queue
      /\ \A i \in DOMAIN queue : i # 1 =>
             i - 1 \in DOMAIN queue' /\ queue'[i - 1] = queue[i]
  BY <1>1, TakeQueue
<1>4. CallShape'
  BY <1>2 DEF CallShape, CallInv, TypeOK, Call
<1>5. DownIsEmpty'
  BY <1>1 DEF DownIsEmpty
<1>6. ASSUME NEW i \in DOMAIN queue', queue'[i].to # Nobody
      PROVE  /\ queue'[i].kind = "msg"
             /\ call'[queue'[i].to].pc = "wait"
             /\ queue'[i].msg = Head(call'[queue'[i].to].todo)
             /\ \A j \in DOMAIN queue' : queue'[j].to = queue'[i].to => j = i
  <2>1. queue'[i] = queue[i + 1] /\ i + 1 \in DOMAIN queue /\ i \in Nat
    BY <1>3, <1>6
  <2>2. queue[i + 1].to \in Handlers
    <3>1. queue[i + 1] \in Item
      BY <1>1, <2>1, ElementOfSeq DEF TypeOK
    <3>. QED
      BY <1>6, <2>1, <3>1 DEF Item
  <2>3. queue[i + 1].to # to
    <3>1. 1 \in DOMAIN queue /\ i + 1 # 1
      BY <1>3, <2>1, <1>6
    <3>. QED
      BY <1>3, <1>6, <2>1, <3>1 DEF CallInv, OneInFlight
  <2>4. call'[queue'[i].to] = call[queue[i + 1].to]
    BY <1>2, <2>1, <2>2, <2>3
  <2>. QED
    BY <1>3, <1>6, <2>1, <2>4 DEF CallInv, OneInFlight
<1>7. ASSUME NEW h \in Handlers, call'[h].pc = "wait"
      PROVE  \E i \in DOMAIN queue' : queue'[i].to = h
  <2>1. h # to /\ call[h].pc = "wait"
    BY <1>2, <1>7
  <2>2. PICK i \in DOMAIN queue : queue[i].to = h
    BY <2>1 DEF CallInv, OneInFlight
  <2>. QED
    BY <1>3, <2>1, <2>2
<1>. QED
  BY <1>2, <1>3, <1>4, <1>5, <1>6, <1>7 DEF OneInFlight

\* Taking a save, which nobody waits for, does too.
LEMMA TakeSaveStep ==
    ASSUME CallInv, Takes("save"), UNCHANGED <<call, daemon>>
    PROVE  /\ queue' \in Seq(Item)
           /\ CallShape' /\ DownIsEmpty' /\ OneInFlight'
<1>1. queue # <<>> /\ queue' = Tail(queue) /\ daemon' = "up" /\ TypeOK
  BY DEF Takes, CallInv
<1>2. /\ queue' \in Seq(Item) /\ Head(queue) = queue[1]
      /\ DOMAIN queue = 1..Len(queue) /\ Len(queue) \in Nat /\ Len(queue) > 0
      /\ DOMAIN queue' = 1..(Len(queue) - 1)
      /\ \A i \in DOMAIN queue' : queue'[i] = queue[i + 1] /\ i + 1 \in DOMAIN queue
      /\ \A i \in DOMAIN queue : i # 1 =>
             i - 1 \in DOMAIN queue' /\ queue'[i - 1] = queue[i]
  BY <1>1, TakeQueue
<1>3. queue[1].to = Nobody
  BY <1>2 DEF CallInv, OneInFlight, Takes
<1>4. CallShape' /\ DownIsEmpty'
  BY <1>1 DEF CallShape, CallInv, DownIsEmpty
<1>5. ASSUME NEW i \in DOMAIN queue', queue'[i].to # Nobody
      PROVE  /\ queue'[i].kind = "msg"
             /\ call[queue'[i].to].pc = "wait"
             /\ queue'[i].msg = Head(call[queue'[i].to].todo)
             /\ \A j \in DOMAIN queue' : queue'[j].to = queue'[i].to => j = i
  <2>1. queue'[i] = queue[i + 1] /\ i + 1 \in DOMAIN queue /\ i \in Nat
    BY <1>2, <1>5
  <2>. QED
    BY <1>2, <1>5, <2>1 DEF CallInv, OneInFlight
<1>6. ASSUME NEW h \in Handlers, call[h].pc = "wait"
      PROVE  \E i \in DOMAIN queue' : queue'[i].to = h
  <2>1. PICK i \in DOMAIN queue : queue[i].to = h
    BY <1>6 DEF CallInv, OneInFlight
  <2>2. i # 1
    BY <1>3, <2>1, HoldAssumption
  <2>. QED
    BY <1>2, <2>1, <2>2
<1>. QED
  BY <1>2, <1>4, <1>5, <1>6 DEF OneInFlight

\* A handler queues the first message it has left and waits for it.
LEMMA EnqueueStep ==
    ASSUME CallInv, NEW h \in Handlers, Enqueue(h)
    PROVE  CallInv'
<1> DEFINE it == [kind |-> "msg", msg |-> Head(call[h].todo), to |-> h]
           n  == Len(queue)
<1>1. /\ daemon # "down" /\ daemon' = daemon /\ call[h].pc = "send"
      /\ call[h].todo # <<>> /\ call[h] \in Call
      /\ queue' = Append(queue, it)
      /\ call' = [call EXCEPT ![h].pc = "wait"]
      /\ TypeOK /\ h # Nobody
  BY HoldAssumption DEF Enqueue, CallInv, CallShape, TypeOK
<1>2. it \in Item
  BY <1>1, HeadTailProperties DEF Item, Call
<1> HIDE DEF it
<1>3. /\ queue' \in Seq(Item) /\ n \in Nat
      /\ DOMAIN queue = 1..n /\ DOMAIN queue' = 1..(n + 1)
      /\ \A i \in DOMAIN queue : queue'[i] = queue[i]
      /\ queue'[n + 1] = it
  BY <1>1, <1>2, PutQueue
<1>4. /\ call' \in [Handlers -> Call]
      /\ call'[h].pc = "wait" /\ call'[h].todo = call[h].todo
      /\ \A g \in Handlers : g # h => call'[g] = call[g]
  BY <1>1 DEF TypeOK, Call
<1>5. TypeOK'
  BY <1>3, <1>4 DEF Enqueue, CallInv, TypeOK
<1>6. CallShape' /\ DownIsEmpty'
  BY <1>1, <1>4 DEF CallInv, CallShape, DownIsEmpty
<1>7. \A i \in DOMAIN queue : queue[i].to # h
  BY <1>1 DEF CallInv, OneInFlight
<1>8. ASSUME NEW i \in DOMAIN queue', queue'[i].to # Nobody
      PROVE  /\ queue'[i].kind = "msg"
             /\ call'[queue'[i].to].pc = "wait"
             /\ queue'[i].msg = Head(call'[queue'[i].to].todo)
             /\ \A j \in DOMAIN queue' : queue'[j].to = queue'[i].to => j = i
  <2>1. CASE i = n + 1
    <3>1. queue'[i].kind = "msg" /\ queue'[i].to = h
          /\ queue'[i].msg = Head(call[h].todo)
      BY <1>3, <2>1 DEF it
    <3>. QED
      BY <1>3, <1>4, <1>7, <2>1, <3>1
  <2>2. CASE i # n + 1
    <3>1. i \in DOMAIN queue /\ queue'[i] = queue[i]
      BY <1>3, <2>2
    <3>2. queue[i].to \in Handlers /\ queue[i].to # h
      <4>1. queue[i] \in Item
        BY <1>1, <3>1, ElementOfSeq DEF TypeOK
      <4>. QED
        BY <1>7, <1>8, <3>1, <4>1 DEF Item
    <3>3. queue'[n + 1].to = h
      BY <1>3 DEF it
    <3>. QED
      BY <1>3, <1>4, <1>8, <3>1, <3>2, <3>3 DEF CallInv, OneInFlight
  <2>. QED
    BY <2>1, <2>2
<1>9. ASSUME NEW g \in Handlers, call'[g].pc = "wait"
      PROVE  \E i \in DOMAIN queue' : queue'[i].to = g
  <2>1. CASE g = h
    BY <1>3, <2>1 DEF it
  <2>2. CASE g # h
    <3>1. PICK i \in DOMAIN queue : queue[i].to = g
      BY <1>4, <1>9, <2>2 DEF CallInv, OneInFlight
    <3>. QED
      BY <1>3, <3>1
  <2>. QED
    BY <2>1, <2>2
<1>. QED
  BY <1>5, <1>6, <1>8, <1>9 DEF CallInv, OneInFlight

\* A call that is not waiting can change without the queue noticing.
LEMMA CallStep ==
    ASSUME CallInv, NEW h \in Handlers, NEW c \in Call,
           call[h].pc # "wait", c.pc # "wait",
           c.pc = "send" <=> c.todo # <<>>,
           daemon # "down", daemon' = daemon,
           call' = [call EXCEPT ![h] = c],
           \/ queue' = queue
           \/ queue' = Append(queue, SaveItem)
    PROVE  /\ queue' \in Seq(Item) /\ call' \in [Handlers -> Call]
           /\ CallShape' /\ DownIsEmpty' /\ OneInFlight'
<1> DEFINE n == Len(queue)
<1>1. TypeOK
  BY DEF CallInv
<1>2. /\ call' \in [Handlers -> Call]
      /\ call'[h] = c
      /\ \A g \in Handlers : g # h => call'[g] = call[g]
  BY <1>1 DEF TypeOK
<1>3. CallShape' /\ DownIsEmpty'
  BY <1>2 DEF CallInv, CallShape, DownIsEmpty
<1>4. /\ queue' \in Seq(Item)
      /\ DOMAIN queue \subseteq DOMAIN queue'
      /\ \A i \in DOMAIN queue : queue'[i] = queue[i]
      /\ \A i \in DOMAIN queue' : i \notin DOMAIN queue => queue'[i].to = Nobody
  <2>1. CASE queue' = queue
    BY <1>1, <2>1 DEF TypeOK
  <2>2. CASE queue' = Append(queue, SaveItem)
    <3>1. /\ queue' \in Seq(Item) /\ n \in Nat
          /\ DOMAIN queue = 1..n /\ DOMAIN queue' = 1..(n + 1)
          /\ \A i \in DOMAIN queue : queue'[i] = queue[i]
          /\ queue'[n + 1] = SaveItem
      BY <1>1, <2>2, PutQueue, IdleIsCall
    <3>2. SaveItem.to = Nobody
      BY DEF SaveItem
    <3>. QED
      BY <3>1, <3>2
  <2>. QED
    BY <2>1, <2>2
<1>5. ASSUME NEW i \in DOMAIN queue', queue'[i].to # Nobody
      PROVE  /\ queue'[i].kind = "msg"
             /\ call'[queue'[i].to].pc = "wait"
             /\ queue'[i].msg = Head(call'[queue'[i].to].todo)
             /\ \A j \in DOMAIN queue' : queue'[j].to = queue'[i].to => j = i
  <2>1. i \in DOMAIN queue /\ queue'[i] = queue[i]
    BY <1>4, <1>5
  <2>2. queue[i].to \in Handlers
    <3>1. queue[i] \in Item
      BY <1>1, <2>1, ElementOfSeq DEF TypeOK
    <3>. QED
      BY <1>5, <2>1, <3>1 DEF Item
  <2>3. queue[i].to # h
    BY <1>5, <2>1 DEF CallInv, OneInFlight
  <2>4. call'[queue[i].to] = call[queue[i].to]
    BY <1>2, <2>2, <2>3
  <2>5. \A j \in DOMAIN queue' : queue'[j].to = queue'[i].to => j = i
    BY <1>4, <1>5, <2>1 DEF CallInv, OneInFlight
  <2>. QED
    BY <1>5, <2>1, <2>4, <2>5 DEF CallInv, OneInFlight
<1>6. ASSUME NEW g \in Handlers, call'[g].pc = "wait"
      PROVE  \E i \in DOMAIN queue' : queue'[i].to = g
  <2>1. call[g].pc = "wait"
    BY <1>2, <1>6
  <2>2. PICK i \in DOMAIN queue : queue[i].to = g
    BY <2>1 DEF CallInv, OneInFlight
  <2>. QED
    BY <1>4, <2>2
<1>. QED
  BY <1>2, <1>3, <1>4, <1>5, <1>6 DEF OneInFlight

\* A call that gives up leaves its message behind, without an owner.
LEMMA GiveUpStep ==
    ASSUME CallInv, NEW h \in Handlers, GiveUp(h)
    PROVE  CallInv'
<1>1. /\ TypeOK /\ daemon # "down" /\ daemon' = daemon
      /\ call' = [call EXCEPT ![h] = Idle]
      /\ queue' = [i \in DOMAIN queue |->
                      IF queue[i].to = h THEN [queue[i] EXCEPT !.to = Nobody]
                      ELSE queue[i]]
      /\ h # Nobody
  BY HoldAssumption DEF GiveUp, CallInv
<1>2. DOMAIN queue = 1..Len(queue) /\ Len(queue) \in Nat
  BY <1>1, LenProperties DEF TypeOK
<1>3. /\ DOMAIN queue' = DOMAIN queue
      /\ \A i \in DOMAIN queue :
            /\ queue[i] \in Item
            /\ queue[i].to = h => queue'[i] = [queue[i] EXCEPT !.to = Nobody]
            /\ queue[i].to # h => queue'[i] = queue[i]
  BY <1>1, ElementOfSeq DEF TypeOK
<1>4. \A i \in DOMAIN queue :
         /\ queue'[i] \in Item
         /\ queue[i].to = h => queue'[i].to = Nobody
  BY <1>3 DEF Item
<1>5. queue' \in Seq(Item)
  <2>1. queue' \in [1..Len(queue) -> Item]
    BY <1>1, <1>2, <1>3, <1>4
  <2>. QED
    BY <1>2, <2>1, SeqDef
<1>6. /\ call' \in [Handlers -> Call]
      /\ call'[h] = Idle
      /\ \A g \in Handlers : g # h => call'[g] = call[g]
  BY <1>1, IdleIsCall DEF TypeOK
<1>7. TypeOK'
  <2>1. timeouts' \in 0..MaxTimeouts
    BY HoldAssumption, <1>1 DEF GiveUp, TypeOK
  <2>. QED
    BY <1>5, <1>6, <2>1 DEF GiveUp, CallInv, TypeOK
<1>8. CallShape' /\ DownIsEmpty'
  BY <1>1, <1>6 DEF CallInv, CallShape, DownIsEmpty, Idle
<1>9. ASSUME NEW i \in DOMAIN queue', queue'[i].to # Nobody
      PROVE  /\ queue'[i].kind = "msg"
             /\ call'[queue'[i].to].pc = "wait"
             /\ queue'[i].msg = Head(call'[queue'[i].to].todo)
             /\ \A j \in DOMAIN queue' : queue'[j].to = queue'[i].to => j = i
  <2>1. i \in DOMAIN queue /\ queue[i].to # h /\ queue'[i] = queue[i]
    BY <1>3, <1>4, <1>9
  <2>2. queue[i].to \in Handlers
    BY <1>3, <1>9, <2>1 DEF Item
  <2>3. call'[queue[i].to] = call[queue[i].to]
    BY <1>6, <2>1, <2>2
  <2>4. \A j \in DOMAIN queue' : queue'[j].to = queue'[i].to => j = i
    BY <1>3, <1>4, <1>9, <2>1 DEF CallInv, OneInFlight
  <2>. QED
    BY <1>9, <2>1, <2>3, <2>4 DEF CallInv, OneInFlight
<1>10. ASSUME NEW g \in Handlers, call'[g].pc = "wait"
       PROVE  \E i \in DOMAIN queue' : queue'[i].to = g
  <2>1. g # h /\ call[g].pc = "wait"
    BY <1>6, <1>10 DEF Idle
  <2>2. PICK i \in DOMAIN queue : queue[i].to = g
    BY <2>1 DEF CallInv, OneInFlight
  <2>. QED
    BY <1>3, <2>1, <2>2
<1>. QED
  BY <1>7, <1>8, <1>9, <1>10 DEF CallInv, OneInFlight

\* A handler that publishes, or that finishes its batch.
LEMMA PublishFinishStep ==
    ASSUME CallInv, NEW h \in Handlers,
           (\E b \in Batches : Publish(h, b)) \/ Finish(h)
    PROVE  CallInv'
<1>1. ASSUME NEW b \in Batches, Publish(h, b)
      PROVE  CallInv'
  <2> DEFINE c == [pc |-> "send", todo |-> b]
  <2>1. c \in Call /\ c.pc = "send" /\ c.todo # <<>>
    BY IdleIsCall, HoldAssumption
  <2>2. call[h].pc # "wait" /\ daemon # "down" /\ daemon' = daemon
        /\ call' = [call EXCEPT ![h] = c] /\ queue' = queue
    BY <1>1 DEF Publish, Idle
  <2> HIDE DEF c
  <2>3. /\ queue' \in Seq(Item) /\ call' \in [Handlers -> Call]
        /\ CallShape' /\ DownIsEmpty' /\ OneInFlight'
    BY <2>1, <2>2, CallStep
  <2>. QED
    BY <1>1, <2>3 DEF Publish, CallInv, TypeOK
<1>2. ASSUME Finish(h)
      PROVE  CallInv'
  <2>1. Idle \in Call /\ Idle.pc # "wait" /\ (Idle.pc = "send" <=> Idle.todo # <<>>)
    BY IdleIsCall DEF Idle
  <2>2. call[h].pc # "wait" /\ daemon # "down" /\ daemon' = daemon
        /\ call' = [call EXCEPT ![h] = Idle] /\ queue' = Append(queue, SaveItem)
    BY <1>2 DEF Finish
  <2>3. /\ queue' \in Seq(Item) /\ call' \in [Handlers -> Call]
        /\ CallShape' /\ DownIsEmpty' /\ OneInFlight'
    BY <2>1, <2>2, CallStep
  <2>. QED
    BY <1>2, <2>3 DEF Finish, CallInv, TypeOK
<1>. QED
  BY <1>1, <1>2

\* The steps of the writer thread.
LEMMA WriterStep ==
    ASSUME CallInv, Writer
    PROVE  CallInv'
<1>1. TypeOK
  BY DEF CallInv
<1>2. Fault => faults' \in 0..MaxFaults
  BY <1>1, HoldAssumption DEF Fault, TypeOK
<1>3. CASE WriteMsg
  <2>1. Head(queue).msg \in Message
    BY <1>1, <1>3, TakeQueue DEF WriteMsg, Takes, Item
  <2>2. /\ queue' \in Seq(Item) /\ call' \in [Handlers -> Call]
        /\ CallShape' /\ DownIsEmpty' /\ OneInFlight'
    BY <1>3, TakeMsgStep DEF WriteMsg
  <2>3. hold' \in Held /\ arm' \in Held
    BY <1>1, <1>3, <2>1, EffectTypes DEF WriteMsg
  <2>4. recent' \in BOOLEAN /\ pub' \in BOOLEAN /\ faults' \in 0..MaxFaults
    BY <1>1, <1>2, <1>3 DEF WriteMsg, TypeOK
  <2>. QED
    BY <1>1, <1>3, <2>2, <2>3, <2>4 DEF WriteMsg, CallInv, TypeOK
<1>4. CASE WriteFails
  <2>1. Head(queue).msg \in Message
    BY <1>1, <1>4, TakeQueue DEF WriteFails, Takes, Item
  <2>2. /\ queue' \in Seq(Item) /\ call' \in [Handlers -> Call]
        /\ CallShape' /\ DownIsEmpty' /\ OneInFlight'
    BY <1>4, TakeMsgStep DEF WriteFails
  <2>3. arm' \in Held
    BY <1>1, <1>4, <2>1, EffectTypes DEF WriteFails
  <2>. QED
    BY <1>1, <1>2, <1>4, <2>2, <2>3 DEF WriteFails, CallInv, TypeOK
<1>5. CASE SaveState
  <2>1. /\ queue' \in Seq(Item)
        /\ CallShape' /\ DownIsEmpty' /\ OneInFlight'
    BY <1>5, TakeSaveStep DEF SaveState
  <2>. QED
    BY <1>1, <1>5, <2>1 DEF SaveState, CallInv, TypeOK
<1>6. CASE SaveFails
  <2>1. /\ queue' \in Seq(Item)
        /\ CallShape' /\ DownIsEmpty' /\ OneInFlight'
    BY <1>6, TakeSaveStep DEF SaveFails
  <2>. QED
    BY <1>1, <1>2, <1>6, <2>1 DEF SaveFails, CallInv, TypeOK
<1>7. CASE GetTimesOut
  BY <1>1, <1>7 DEF GetTimesOut, CallInv, TypeOK, CallShape, DownIsEmpty, OneInFlight
<1>8. CASE Heartbeat
  <2>1. arm' \in Held
    <3>1. SaveItem.msg \in Message
      BY IdleIsCall DEF SaveItem, Item
    <3>. QED
      BY <1>1, <1>8, <3>1, EffectTypes DEF Heartbeat, TypeOK
  <2>2. pub' \in BOOLEAN /\ faults' \in 0..MaxFaults
    BY <1>1, <1>2, <1>8 DEF Heartbeat, TypeOK
  <2>. QED
    BY <1>1, <1>8, <2>1, <2>2
       DEF Heartbeat, CallInv, TypeOK, CallShape, DownIsEmpty, OneInFlight
<1>9. CASE WriterStops
  BY <1>1, <1>9 DEF WriterStops, CallInv, TypeOK, CallShape, DownIsEmpty, OneInFlight
<1>. QED
  BY <1>3, <1>4, <1>5, <1>6, <1>7, <1>8, <1>9 DEF Writer

\* A process that ends takes its queue and its calls with it.
LEMMA GoneStep ==
    ASSUME CallInv, Gone,
           file' \in [boot : BOOLEAN, hold : Held], stops' \in 0..MaxStops
    PROVE  CallInv'
<1>1. queue' = <<>> /\ call' = [h \in Handlers |-> Idle]
  BY DEF Gone
<1>2. queue' \in Seq(Item) /\ call' \in [Handlers -> Call]
  BY <1>1, IdleIsCall, EmptySeq
<1>3. DOMAIN queue' = {}
  BY <1>1
<1>4. TypeOK'
  BY <1>2 DEF Gone, CallInv, TypeOK
<1>5. CallShape' /\ DownIsEmpty' /\ OneInFlight'
  BY <1>1, <1>3 DEF CallShape, DownIsEmpty, OneInFlight, Idle
<1>. QED
  BY <1>4, <1>5 DEF CallInv

\* The process starts, is stopped, ends or crashes.
LEMMA ProcessStep ==
    ASSUME CallInv, Process
    PROVE  CallInv'
<1>1. TypeOK
  BY DEF CallInv
<1>2. stops < MaxStops /\ stops' = stops + 1 => stops' \in 0..MaxStops
  BY <1>1, HoldAssumption DEF TypeOK
<1>3. CASE Start
  <2>1. SaveItem.msg \in Message
    BY IdleIsCall DEF SaveItem, Item
  <2>2. hold' \in Held
    BY <1>1, <1>3, <2>1, EffectTypes DEF Start
  <2>. QED
    BY <1>1, <1>3, <2>2 DEF Start, CallInv, TypeOK, CallShape, DownIsEmpty, OneInFlight
<1>4. CASE Terminate
  BY <1>1, <1>2, <1>4
     DEF Terminate, CallInv, TypeOK, CallShape, DownIsEmpty, OneInFlight
<1>5. CASE Exit
  BY <1>1, <1>5, GoneStep DEF Exit, TypeOK
<1>6. CASE Crash
  BY <1>1, <1>2, <1>6, GoneStep DEF Crash, TypeOK
<1>7. CASE Reboot
  BY <1>1, <1>2, <1>7, GoneStep DEF Reboot, TypeOK
<1>. QED
  BY <1>3, <1>4, <1>5, <1>6, <1>7 DEF Process

\* Calls, queue and the writer's batch fit together in every reachable state.
THEOREM CallInvariant == Spec => []CallInv
<1>1. Init => CallInv
  <2> SUFFICES ASSUME Init PROVE CallInv
    OBVIOUS
  <2>1. queue \in Seq(Item) /\ call \in [Handlers -> Call] /\ DOMAIN queue = {}
    BY IdleIsCall, EmptySeq DEF Init
  <2>2. TypeOK
    <3>1. 0 \in 0..MaxFaults /\ 0 \in 0..MaxTimeouts /\ 0 \in 0..MaxStops
      BY HoldAssumption
    <3>2. hold \in Held /\ arm \in Held /\ file \in [boot : BOOLEAN, hold : Held]
      BY IdleIsCall DEF Init
    <3>. QED
      BY <2>1, <3>1, <3>2 DEF Init, TypeOK
  <2>. QED
    BY <2>1, <2>2 DEF Init, CallInv, CallShape, DownIsEmpty, OneInFlight, Idle
<1>2. CallInv /\ [Next]_vars => CallInv'
  <2> SUFFICES ASSUME CallInv, [Next]_vars PROVE CallInv'
    OBVIOUS
  <2>1. CASE \E h \in Handlers, b \in Batches : Publish(h, b)
    BY <2>1, PublishFinishStep
  <2>2. CASE \E h \in Handlers : Handler(h)
    BY <2>2, EnqueueStep, GiveUpStep, PublishFinishStep DEF Handler
  <2>3. CASE Writer
    BY <2>3, WriterStep
  <2>4. CASE GraceEnds
    BY <2>4 DEF GraceEnds, CallInv, TypeOK, CallShape, DownIsEmpty, OneInFlight
  <2>5. CASE PublisherDies
    <3>1. faults' \in 0..MaxFaults
      BY <2>5, HoldAssumption DEF PublisherDies, Fault, CallInv, TypeOK
    <3>. QED
      BY <2>5, <3>1 DEF PublisherDies, CallInv, TypeOK, CallShape, DownIsEmpty, OneInFlight
  <2>6. CASE Process
    BY <2>6, ProcessStep
  <2>7. CASE UNCHANGED vars
    BY <2>7 DEF vars, CallInv, TypeOK, CallShape, DownIsEmpty, OneInFlight
  <2>. QED
    BY <2>1, <2>2, <2>3, <2>4, <2>5, <2>6, <2>7 DEF Next
<1>. QED
  BY <1>1, <1>2, PTL DEF Spec

\* Every variable keeps its type.
THEOREM TypeCorrect == Spec => []TypeOK
<1>1. CallInv => TypeOK
  BY DEF CallInv
<1>. QED
  BY <1>1, CallInvariant, PTL

\* However many clients publish at once, a batch has at most one message in
\* the queue, and a call waits exactly while its message is there.
THEOREM InFlight == Spec => []OneInFlight
<1>1. CallInv => OneInFlight
  BY DEF CallInv
<1>. QED
  BY <1>1, CallInvariant, PTL

-----------------------------------------------------------------------------
(* HoldActiveMeansTold.  Without faults a publisher lives as long as its   *)
(* daemon, and a daemon that starts coupled starts with a pose: until the  *)
(* first write the restore is still to come, after it the arm is told what *)
(* the daemon records.                                                     *)

ToldInv ==
    faults = 0 =>
        /\ daemon = "down" => ~pub
        /\ pub /\ hold.coupled => arm.coupled
        /\ daemon # "down" /\ ~pub /\ hold.coupled => hold.pose # NoPose

\* In a run without publisher deaths, failed spawns and failed writes, status
\* never reports a hold on an arm that was not told to couple.
THEOREM HoldActive == Spec => [](faults = 0 => HoldActiveMeansTold)
<1>1. Init => ToldInv
  BY DEF Init, ToldInv, Off
<1>2. CallInv /\ ToldInv /\ [Next]_vars => ToldInv'
  <2> SUFFICES ASSUME CallInv, ToldInv, [Next]_vars, faults' = 0
               PROVE  /\ daemon' = "down" => ~pub'
                      /\ pub' /\ hold'.coupled => arm'.coupled
                      /\ daemon' # "down" /\ ~pub' /\ hold'.coupled => hold'.pose # NoPose
    BY DEF ToldInv
  <2>1. faults \in Nat /\ hold \in Held /\ arm \in Held /\ file.hold \in Held
    BY HoldAssumption DEF CallInv, TypeOK
  <2>2. ~Fault
    BY <2>1 DEF Fault
  <2>3. CASE WriteMsg
    <3>1. faults = 0 /\ daemon = "up" /\ daemon' = daemon
          /\ hold' = Apply(hold, Head(queue).msg)
          /\ arm' = Hears(Ensured, Head(queue).msg) /\ pub' = TRUE
      BY <2>2, <2>3 DEF WriteMsg, Takes
    <3>2. hold.coupled => Ensured.coupled
      BY <2>1, <3>1 DEF ToldInv, Ensured, Restored, Powered, Holding, Held
    <3>. QED
      BY <3>1, <3>2 DEF Apply, Hears
  <2>4. CASE Heartbeat
    <3>1. faults = 0 /\ daemon = "up" /\ daemon' = daemon /\ hold' = hold
      BY <2>2, <2>4 DEF Heartbeat
    <3>2. CASE UNCHANGED <<arm, pub, faults>>
      BY <3>1, <3>2 DEF ToldInv
    <3>3. CASE Holding /\ arm' = [Ensured EXCEPT !.pose = hold.pose] /\ pub' = TRUE
      <4>1. Ensured \in Held /\ Ensured.coupled
        BY <2>1, <3>1, <3>3 DEF ToldInv, Ensured, Restored, Powered, Holding, Held
      <4>. QED
        BY <3>1, <3>3, <4>1 DEF Held
    <3>. QED
      BY <2>2, <2>4, <3>2, <3>3 DEF Heartbeat
  <2>5. CASE Start
    <3>1. Loaded(file).coupled => Loaded(file).pose # NoPose
      BY <2>1 DEF Loaded, Off, Held
    <3>. QED
      BY <2>5, <3>1 DEF Start, ToldInv
  <2>6. CASE Exit \/ Crash \/ Reboot
    BY <2>6 DEF Exit, Crash, Reboot, Gone
  <2>7. CASE WriteFails \/ SaveFails \/ PublisherDies
    BY <2>2, <2>7 DEF WriteFails, SaveFails, PublisherDies
  <2>8. CASE /\ UNCHANGED <<hold, pub, arm, faults>>
             /\ daemon' = daemon \/ (daemon = "up" /\ daemon' = "stopping")
    BY <2>8 DEF ToldInv
  <2>9. CASE \E h \in Handlers : Handler(h) \/ \E b \in Batches : Publish(h, b)
    BY <2>8, <2>9 DEF Handler, Enqueue, GiveUp, Finish, Publish
  <2>10. CASE SaveState \/ GetTimesOut \/ WriterStops \/ GraceEnds \/ Terminate
    BY <2>8, <2>10 DEF SaveState, GetTimesOut, WriterStops, GraceEnds, Terminate
  <2>11. CASE UNCHANGED vars
    BY <2>8, <2>11 DEF vars
  <2>. QED
    BY <2>3, <2>4, <2>5, <2>6, <2>7, <2>9, <2>10, <2>11 DEF Next, Writer, Process
<1>3. ToldInv => (faults = 0 => HoldActiveMeansTold)
  BY DEF ToldInv, HoldActiveMeansTold, Holding
<1>. QED
  BY <1>1, <1>2, <1>3, CallInvariant, PTL DEF Spec

-----------------------------------------------------------------------------
(* SavedOrPending.  While no call has given up and nothing has failed, a   *)
(* message in the queue has an owner, so that a change of the daemon's     *)
(* memory always leaves a call that will ask for a save.                   *)

MsgOwned ==
    NoFailures => \A i \in DOMAIN queue : queue[i].kind = "msg" => queue[i].to # Nobody

SaveInv == CallInv /\ MsgOwned /\ SavedOrPending

\* Writing a message leaves its owner in the middle of its call.
LEMMA WrittenOwner ==
    ASSUME CallInv, MsgOwned, NoFailures, Takes("msg"),
           call' = Answered(Head(queue).to, TRUE)
    PROVE  LET to == Head(queue).to
           IN  /\ to \in Handlers
               /\ call'[to] # Idle
               /\ call[to].todo \in Seq(Message) /\ call[to].todo # <<>>
               /\ Head(queue).msg = Head(call[to].todo)
               /\ call'[to].todo = Tail(call[to].todo)
               /\ \A h \in Handlers : h # to => call'[h] = call[h]
<1> DEFINE to == Head(queue).to
<1>1. Head(queue) = queue[1] /\ 1 \in DOMAIN queue /\ queue[1] \in Item
  BY HeadTailProperties, LenProperties, ElementOfSeq, EmptySeq
     DEF Takes, CallInv, TypeOK
<1>2. to \in Handlers /\ to # Nobody
  BY <1>1 DEF MsgOwned, Takes, Item
<1>3. /\ call \in [Handlers -> Call] /\ call[to] \in Call
      /\ call[to].todo # <<>>
      /\ Head(queue).msg = Head(call[to].todo)
  BY <1>1, <1>2 DEF CallInv, OneInFlight, CallShape, TypeOK
<1>4. call' = [call EXCEPT ![to] =
                 [pc   |-> IF Len(call[to].todo) = 1 THEN "save" ELSE "send",
                  todo |-> Tail(call[to].todo)]]
  BY <1>2 DEF Answered
<1>5. call'[to] = [pc   |-> IF Len(call[to].todo) = 1 THEN "save" ELSE "send",
                   todo |-> Tail(call[to].todo)]
  BY <1>2, <1>3, <1>4
<1>6. call'[to] # Idle /\ call'[to].todo = Tail(call[to].todo)
  <2> DEFINE pc == IF Len(call[to].todo) = 1 THEN "save" ELSE "send"
             next == [pc |-> pc, todo |-> Tail(call[to].todo)]
  <2>1. pc # "idle"
    OBVIOUS
  <2> HIDE DEF pc
  <2>2. next.pc # Idle.pc /\ next.todo = Tail(call[to].todo)
    BY <2>1 DEF Idle
  <2>3. call'[to] = next
    BY <1>5 DEF pc
  <2>. QED
    BY <2>2, <2>3
<1>7. \A h \in Handlers : h # to => call'[h] = call[h]
  BY <1>2, <1>3, <1>4
<1>. QED
  BY <1>2, <1>3, <1>6, <1>7 DEF Call

\* Messages keep their owners.
LEMMA OwnedStep ==
    ASSUME CallInv, MsgOwned, [Next]_vars
    PROVE  MsgOwned'
<1> SUFFICES ASSUME NoFailures' PROVE
        \A i \in DOMAIN queue' : queue'[i].kind = "msg" => queue'[i].to # Nobody
  BY DEF MsgOwned
<1>1. TypeOK /\ faults \in Nat /\ timeouts \in Nat
  BY HoldAssumption DEF CallInv, TypeOK
<1>2. ~Fault /\ \A h \in Handlers : ~GiveUp(h)
  BY <1>1 DEF Fault, GiveUp, NoFailures
<1>3. CASE \E k \in {"msg", "save"} : Takes(k) /\ UNCHANGED <<faults, timeouts>>
  <2>1. queue # <<>> /\ queue' = Tail(queue) /\ NoFailures
    BY <1>3 DEF Takes, NoFailures
  <2>. QED
    BY <1>1, <2>1, TakeQueue DEF MsgOwned
<1>4. CASE \E h \in Handlers : Enqueue(h)
  <2>1. PICK h \in Handlers : Enqueue(h)
    BY <1>4
  <2> DEFINE it == [kind |-> "msg", msg |-> Head(call[h].todo), to |-> h]
  <2>2. it \in Item /\ it.to # Nobody
    <3>1. Head(call[h].todo) \in Message
      BY <1>1, <2>1, HeadTailProperties DEF Enqueue, CallInv, CallShape, TypeOK, Call
    <3>. QED
      BY <3>1, HoldAssumption DEF Item
  <2>3. queue' = Append(queue, it) /\ NoFailures
    BY <2>1 DEF Enqueue, NoFailures
  <2> HIDE DEF it
  <2>. QED
    BY <1>1, <2>2, <2>3, PutQueue DEF MsgOwned
<1>5. CASE \E h \in Handlers : Finish(h)
  <2>1. queue' = Append(queue, SaveItem) /\ NoFailures
    BY <1>5 DEF Finish, NoFailures
  <2>2. SaveItem \in Item /\ SaveItem.kind # "msg"
    BY IdleIsCall DEF SaveItem
  <2>. QED
    BY <1>1, <2>1, <2>2, PutQueue DEF MsgOwned
<1>6. CASE UNCHANGED <<queue, faults, timeouts>>
  BY <1>6 DEF MsgOwned, NoFailures
<1>7. CASE queue' = <<>>
  BY <1>7
<1>. QED
  BY <1>2, <1>3, <1>4, <1>5, <1>6, <1>7
     DEF Next, Handler, Publish, Writer, WriteMsg, WriteFails, SaveState, SaveFails,
         GetTimesOut, Heartbeat, WriterStops, GraceEnds, PublisherDies, Process,
         Start, Terminate, Exit, Crash, Reboot, Gone, vars

\* Whatever the daemon remembers is in the state file, or a call in progress
\* or a queued save will put it there.
THEOREM Saved == Spec => []SavedOrPending
<1>1. Init => MsgOwned /\ SavedOrPending
  BY DEF Init, MsgOwned, SavedOrPending
<1>2. SaveInv /\ [Next]_vars => MsgOwned'
  BY OwnedStep DEF SaveInv
<1>3. SaveInv /\ [Next]_vars => SavedOrPending'
  <2> SUFFICES ASSUME SaveInv, [Next]_vars, daemon' # "down", NoFailures'
               PROVE  \/ hold' = Loaded(file')
                      \/ file'.boot /\ hold' = file'.hold
                      \/ \E i \in DOMAIN queue' : queue'[i].kind = "save"
                      \/ \E h \in Handlers : call'[h] # Idle
    BY DEF SavedOrPending, Loaded
  <2>1. TypeOK /\ faults \in Nat /\ timeouts \in Nat
    BY HoldAssumption DEF SaveInv, CallInv, TypeOK
  <2>2. ~Fault /\ \A h \in Handlers : ~GiveUp(h)
    BY <2>1 DEF Fault, GiveUp, NoFailures
  <2>3. CASE WriteMsg
    <3>1. NoFailures /\ Takes("msg") /\ call' = Answered(Head(queue).to, TRUE)
      BY <2>2, <2>3 DEF WriteMsg, NoFailures
    <3>. QED
      BY <3>1, WrittenOwner DEF SaveInv
  <2>4. CASE SaveState
    BY <2>4 DEF SaveState
  <2>5. CASE \E h \in Handlers : Finish(h)
    <3>1. queue' = Append(queue, SaveItem)
      BY <2>5 DEF Finish
    <3>2. /\ Len(queue) \in Nat /\ DOMAIN queue' = 1..(Len(queue) + 1)
          /\ queue'[Len(queue) + 1] = SaveItem
      BY <2>1, <3>1, PutQueue, IdleIsCall
    <3>. QED
      BY <3>2 DEF SaveItem
  <2>6. CASE \E h \in Handlers : Enqueue(h) \/ \E b \in Batches : Publish(h, b)
    <3>1. PICK h \in Handlers : Enqueue(h) \/ \E b \in Batches : Publish(h, b)
      BY <2>6
    <3>2. call'[h].pc # "idle"
      BY <2>1, <3>1 DEF Enqueue, Publish, TypeOK, Call
    <3>. QED
      BY <3>2 DEF Idle
  <2>7. CASE Start
    BY <2>7 DEF Start
  <2>8. CASE UNCHANGED <<hold, file, queue, call, faults, timeouts>> /\ daemon # "down"
    BY <2>8 DEF SaveInv, SavedOrPending, NoFailures, Loaded
  <2>9. CASE GetTimesOut \/ Heartbeat \/ WriterStops \/ Terminate
    BY <2>2, <2>8, <2>9 DEF GetTimesOut, Heartbeat, WriterStops, Terminate
  <2>10. CASE GraceEnds \/ UNCHANGED vars
    BY <2>8, <2>10 DEF GraceEnds, vars
  <2>11. CASE WriteFails \/ SaveFails \/ PublisherDies \/ Exit \/ Crash \/ Reboot
    BY <2>2, <2>11 DEF WriteFails, SaveFails, PublisherDies, Exit, Crash, Reboot, Gone
  <2>. QED
    BY <2>2, <2>3, <2>4, <2>5, <2>6, <2>7, <2>9, <2>10, <2>11
       DEF Next, Handler, Writer, Process
<1>. QED
  BY <1>1, <1>2, <1>3, CallInvariant, PTL DEF Spec, SaveInv

-----------------------------------------------------------------------------
(* CoupledPoseComing, for batches that supply a pose after they couple: a  *)
(* couple that is written leaves the pose in what remains of its call.     *)

PoseAfterCouple(b) ==
    \A i \in DOMAIN b : b[i].fc = "couple" =>
        \E j \in DOMAIN b : i < j /\ b[j].fc = "pose"

WellFormed(b) == \A i \in DOMAIN b : b[i].fc = "pose" => b[i].pose # NoPose

CallsSupply ==
    \A h \in Handlers : PoseAfterCouple(call[h].todo) /\ WellFormed(call[h].todo)

\* What is left of a batch after its first message.
LEMMA RestOfBatch ==
    ASSUME NEW b \in Seq(Message), b # <<>>, PoseAfterCouple(b), WellFormed(b)
    PROVE  /\ PoseAfterCouple(Tail(b)) /\ WellFormed(Tail(b))
           /\ Head(b).fc = "couple" => Supplies(Tail(b), "pose")
           /\ Head(b).fc = "pose" => Head(b).pose # NoPose
           /\ Supplies(b, "pose") /\ Head(b).fc # "pose" => Supplies(Tail(b), "pose")
<1>1. /\ Len(b) \in Nat /\ Len(b) > 0 /\ DOMAIN b = 1..Len(b) /\ Head(b) = b[1]
      /\ DOMAIN Tail(b) = 1..(Len(b) - 1)
      /\ \A i \in DOMAIN Tail(b) : Tail(b)[i] = b[i + 1] /\ i + 1 \in DOMAIN b
      /\ \A j \in DOMAIN b : j > 1 => j - 1 \in DOMAIN Tail(b) /\ Tail(b)[j - 1] = b[j]
  BY HeadTailProperties, EmptySeq, LenProperties
<1>2. PoseAfterCouple(Tail(b))
  <2> SUFFICES ASSUME NEW i \in DOMAIN Tail(b), Tail(b)[i].fc = "couple"
               PROVE  \E j \in DOMAIN Tail(b) : i < j /\ Tail(b)[j].fc = "pose"
    BY DEF PoseAfterCouple
  <2>1. PICK j \in DOMAIN b : i + 1 < j /\ b[j].fc = "pose"
    BY <1>1 DEF PoseAfterCouple
  <2>2. j - 1 \in DOMAIN Tail(b) /\ i < j - 1 /\ Tail(b)[j - 1].fc = "pose"
    BY <1>1, <2>1
  <2>. QED
    BY <2>2
<1>3. WellFormed(Tail(b))
  BY <1>1 DEF WellFormed
<1>4. ASSUME Head(b).fc = "couple"
      PROVE  Supplies(Tail(b), "pose")
  <2>1. PICK j \in DOMAIN b : 1 < j /\ b[j].fc = "pose"
    BY <1>1, <1>4 DEF PoseAfterCouple
  <2>. QED
    BY <1>1, <2>1 DEF Supplies
<1>5. Head(b).fc = "pose" => Head(b).pose # NoPose
  BY <1>1 DEF WellFormed
<1>6. ASSUME Supplies(b, "pose"), Head(b).fc # "pose"
      PROVE  Supplies(Tail(b), "pose")
  <2>1. PICK j \in DOMAIN b : b[j].fc = "pose"
    BY <1>6 DEF Supplies
  <2>2. j > 1
    BY <1>1, <1>6, <2>1
  <2>. QED
    BY <1>1, <2>1, <2>2 DEF Supplies
<1>. QED
  BY <1>2, <1>3, <1>4, <1>5, <1>6

\* What a release does to the daemon's memory of the hold.
LEMMA ReleaseUncouples ==
    ASSUME NEW m, m.fc = "release"
    PROVE  ~Apply(hold, m).coupled
  BY DEF Apply

\* What is left of every call's batch still ends with a pose after its couple,
\* whatever the writer takes and the handlers put.
LEMMA CallsSupplyStep ==
    ASSUME CallInv, CallsSupply, [Next]_vars,
           \A b \in Batches : PoseAfterCouple(b)
    PROVE  CallsSupply'
<1>1. TypeOK /\ call \in [Handlers -> Call]
  BY DEF CallInv, TypeOK
<1>2. PoseAfterCouple(<<>>) /\ WellFormed(<<>>)
  BY DEF PoseAfterCouple, WellFormed
<1>3. CASE UNCHANGED call
  BY <1>3 DEF CallsSupply
<1>4. CASE call' = [h \in Handlers |-> Idle]
  BY <1>2, <1>4 DEF CallsSupply, Idle
<1>5. CASE \E h \in Handlers : GiveUp(h) \/ Finish(h)
  BY <1>1, <1>2, <1>5 DEF CallsSupply, GiveUp, Finish, Idle
<1>6. CASE \E h \in Handlers : Enqueue(h)
  BY <1>1, <1>6 DEF CallsSupply, Enqueue, Call
<1>7. CASE \E h \in Handlers, b \in Batches : Publish(h, b)
  <2>1. PICK h \in Handlers, b \in Batches : Publish(h, b)
    BY <1>7
  <2>2. PoseAfterCouple(b) /\ WellFormed(b)
    BY HoldAssumption DEF WellFormed
  <2>. QED
    BY <1>1, <2>1, <2>2 DEF CallsSupply, Publish
<1>8. CASE WriteMsg \/ WriteFails
  <2>1. PICK ok \in BOOLEAN : call' = Answered(Head(queue).to, ok)
    BY <1>8 DEF WriteMsg, WriteFails
  <2> DEFINE to == Head(queue).to
  <2>2. Head(queue) = queue[1] /\ 1 \in DOMAIN queue /\ queue[1] \in Item
    <3>1. queue # <<>> /\ queue' = Tail(queue)
      BY <1>8 DEF WriteMsg, WriteFails, Takes
    <3>. QED
      BY <1>1, <3>1, TakeQueue
  <2>3. CASE to = Nobody
    BY <2>1, <2>3 DEF Answered, CallsSupply
  <2>4. CASE to # Nobody
    <3>1. to \in Handlers /\ call[to] \in Call /\ call[to].todo # <<>>
          /\ call[to].todo \in Seq(Message)
      BY <1>1, <2>2, <2>4 DEF Item, Call, CallInv, OneInFlight, CallShape
    <3>2. /\ PoseAfterCouple(Tail(call[to].todo)) /\ WellFormed(Tail(call[to].todo))
      BY <3>1, RestOfBatch DEF CallsSupply
    <3>3. call'[to].todo = Tail(call[to].todo) \/ call'[to].todo = <<>>
      BY <1>1, <2>1, <2>4, <3>1 DEF Answered, Idle
    <3>4. \A h \in Handlers : h # to => call'[h] = call[h]
      BY <1>1, <2>1, <2>4, <3>1 DEF Answered
    <3>. QED
      BY <1>2, <3>1, <3>2, <3>3, <3>4 DEF CallsSupply
  <2>. QED
    BY <2>3, <2>4
<1>. QED
  BY <1>3, <1>4, <1>5, <1>6, <1>7, <1>8
     DEF Next, Handler, Writer, SaveState, SaveFails,
         GetTimesOut, Heartbeat, WriterStops, GraceEnds, PublisherDies, Process,
         Start, Terminate, Exit, Crash, Reboot, Gone, vars

\* If every batch that couples also ends with a pose, a daemon that is coupled
\* without a pose has one on its way, whatever the other clients release.
THEOREM PoseComing ==
    ASSUME \A b \in Batches : PoseAfterCouple(b)
    PROVE  Spec => []CoupledPoseComing
<1>1. Init => MsgOwned /\ CallsSupply /\ CoupledPoseComing
  BY DEF Init, MsgOwned, CallsSupply, CoupledPoseComing, PoseAfterCouple, WellFormed, Idle
<1>2. CallInv /\ MsgOwned /\ CallsSupply /\ [Next]_vars => MsgOwned' /\ CallsSupply'
  BY OwnedStep, CallsSupplyStep
<1>3. CallInv /\ MsgOwned /\ CallsSupply /\ CoupledPoseComing /\ [Next]_vars
        => CoupledPoseComing'
  <2> SUFFICES ASSUME CallInv, MsgOwned, CallsSupply, CoupledPoseComing, [Next]_vars,
                      daemon' # "down", NoFailures', hold'.coupled, hold'.pose = NoPose
               PROVE  \E h \in Handlers : Supplies(call'[h].todo, "pose")
    BY DEF CoupledPoseComing, Supplies
  <2>1. TypeOK /\ faults \in Nat /\ timeouts \in Nat
    BY HoldAssumption DEF CallInv, TypeOK
  <2>2. ~Fault /\ \A h \in Handlers : ~GiveUp(h)
    BY <2>1 DEF Fault, GiveUp, NoFailures
  <2>3. CASE WriteMsg
    <3> DEFINE to == Head(queue).to
               m  == Head(queue).msg
    <3>1. /\ NoFailures /\ Takes("msg") /\ call' = Answered(to, TRUE)
          /\ hold' = Apply(hold, m) /\ daemon = "up"
      BY <2>2, <2>3 DEF WriteMsg, NoFailures, Takes
    <3>2. /\ to \in Handlers
          /\ call[to].todo \in Seq(Message) /\ call[to].todo # <<>>
          /\ m = Head(call[to].todo)
          /\ call'[to].todo = Tail(call[to].todo)
          /\ \A h \in Handlers : h # to => call'[h] = call[h]
      BY <3>1, WrittenOwner
    <3>3. /\ m.fc = "couple" => Supplies(call'[to].todo, "pose")
          /\ m.fc = "pose" => m.pose # NoPose
          /\ Supplies(call[to].todo, "pose") /\ m.fc # "pose"
                => Supplies(call'[to].todo, "pose")
      BY <3>2, RestOfBatch DEF CallsSupply
    <3>4. CASE m.fc \in {"couple", "pose", "release"}
      <4>1. m.fc = "pose" => hold'.pose # NoPose
        BY <3>1, <3>3 DEF Apply
      <4>2. m.fc = "release" => ~hold'.coupled
        BY <3>1, ReleaseUncouples
      <4>. QED
        BY <3>2, <3>3, <3>4, <4>1, <4>2
    <3>5. CASE m.fc \notin {"couple", "pose", "release"}
      <4>1. hold.coupled /\ hold.pose = NoPose
        BY <2>1, <3>1, <3>5 DEF Apply, TypeOK, Held
      <4>2. PICK h \in Handlers : Supplies(call[h].todo, "pose")
        BY <3>1, <4>1 DEF CoupledPoseComing
      <4>. QED
        BY <3>2, <3>3, <3>5, <4>2
    <3>. QED
      BY <3>4, <3>5
  <2>4. CASE Start
    <3>1. Loaded(file).coupled => Loaded(file).pose # NoPose
      BY <2>1 DEF Loaded, Off, TypeOK, Held
    <3>. QED
      BY <2>4, <3>1 DEF Start
  <2>5. CASE /\ UNCHANGED <<hold, faults, timeouts>> /\ daemon # "down"
             /\ \A h \in Handlers : Supplies(call[h].todo, "pose")
                    => Supplies(call'[h].todo, "pose")
    BY <2>5 DEF CoupledPoseComing, NoFailures
  <2>6. CASE UNCHANGED <<hold, call, faults, timeouts>> /\ daemon # "down"
    BY <2>5, <2>6
  <2>7. CASE \E h \in Handlers : Enqueue(h) \/ Finish(h)
    <3>1. \A h \in Handlers : call[h].pc = "save" => ~Supplies(call[h].todo, "pose")
      BY <2>1 DEF CallInv, CallShape, Supplies
    <3>2. \A h \in Handlers : Supplies(call[h].todo, "pose")
                    => Supplies(call'[h].todo, "pose")
      <4>1. PICK h \in Handlers : Enqueue(h) \/ Finish(h)
        BY <2>7
      <4>2. \A g \in Handlers : g # h => call'[g] = call[g]
        BY <2>1, <4>1 DEF Enqueue, Finish, TypeOK
      <4>3. Enqueue(h) => call'[h].todo = call[h].todo
        BY <2>1 DEF Enqueue, TypeOK, Call
      <4>4. Finish(h) => ~Supplies(call[h].todo, "pose")
        BY <3>1 DEF Finish
      <4>. QED
        BY <4>1, <4>2, <4>3, <4>4
    <3>. QED
      BY <2>5, <2>7, <3>2 DEF Enqueue, Finish
  <2>8. CASE \E h \in Handlers, b \in Batches : Publish(h, b)
    <3>1. ~Supplies(Idle.todo, "pose")
      BY DEF Supplies, Idle
    <3>2. \A h \in Handlers : Supplies(call[h].todo, "pose")
                    => Supplies(call'[h].todo, "pose")
      BY <2>1, <2>8, <3>1 DEF Publish, TypeOK
    <3>. QED
      BY <2>5, <2>8, <3>2 DEF Publish
  <2>9. CASE GetTimesOut \/ Heartbeat \/ WriterStops \/ Terminate
    BY <2>2, <2>6, <2>9 DEF GetTimesOut, Heartbeat, WriterStops, Terminate
  <2>10. CASE SaveState \/ GraceEnds \/ UNCHANGED vars
    BY <2>6, <2>10 DEF SaveState, Takes, GraceEnds, vars
  <2>11. CASE WriteFails \/ SaveFails \/ PublisherDies \/ Exit \/ Crash \/ Reboot
    BY <2>2, <2>11 DEF WriteFails, SaveFails, PublisherDies, Exit, Crash, Reboot, Gone
  <2>. QED
    BY <2>2, <2>3, <2>4, <2>7, <2>8, <2>9, <2>10, <2>11
       DEF Next, Handler, Writer, Process
<1>. QED
  BY <1>1, <1>2, <1>3, CallInvariant, PTL DEF Spec

-----------------------------------------------------------------------------
(* The refinement of HoldRegister: a message that is queued is the first   *)
(* of what its call has left (OneInFlight), or was left by a call that     *)
(* gave up, so that taking it applies the next message of one batch or a   *)
(* late one.                                                               *)

\* A queued message nobody waits for.
Loose(it) == it.kind = "msg" /\ it.to = Nobody

\* The late messages are those of the loose items.
LEMMA LateMessages ==
    /\ \A m : m \in Late <=> \E i \in DOMAIN queue : Loose(queue[i]) /\ queue[i].msg = m
    /\ \A m : m \in Late' <=> \E i \in DOMAIN queue' : Loose(queue'[i]) /\ queue'[i].msg = m
  BY DEF Late, Loose

\* A taken message may be late, and may be still to come a second time.
LEMMA LateTaken ==
    ASSUME TypeOK, queue # <<>>, queue' = Tail(queue)
    PROVE  /\ ~Loose(Head(queue)) => Late' = Late
           /\ Loose(Head(queue)) => /\ Head(queue).msg \in Late
                                    /\ Late' \in {Late, Late \ {Head(queue).msg}}
<1>1. /\ Head(queue) = queue[1] /\ 1 \in DOMAIN queue
      /\ \A i \in DOMAIN queue' : queue'[i] = queue[i + 1] /\ i + 1 \in DOMAIN queue
      /\ \A i \in DOMAIN queue : i # 1 =>
             i - 1 \in DOMAIN queue' /\ queue'[i - 1] = queue[i]
  BY TakeQueue
<1>2. Late' \subseteq Late
  BY <1>1, LateMessages
<1>3. ASSUME NEW m \in Late, m \notin Late'
      PROVE  Loose(Head(queue)) /\ m = Head(queue).msg
  <2>1. PICK i \in DOMAIN queue : Loose(queue[i]) /\ queue[i].msg = m
    BY <1>3, LateMessages
  <2>2. CASE i # 1
    <3>1. i - 1 \in DOMAIN queue' /\ queue'[i - 1] = queue[i]
      BY <1>1, <2>2
    <3>. QED
      BY <1>3, <2>1, <3>1, LateMessages
  <2>. QED
    BY <1>1, <2>1, <2>2
<1>4. Loose(Head(queue)) => Head(queue).msg \in Late
  BY <1>1, LateMessages
<1>. QED
  BY <1>2, <1>3, <1>4

\* Putting an item that has an owner, or a save, adds no late message.
LEMMA LatePut ==
    ASSUME TypeOK, NEW it \in Item, ~Loose(it), queue' = Append(queue, it)
    PROVE  Late' = Late
<1>1. /\ Len(queue) \in Nat
      /\ DOMAIN queue = 1..Len(queue) /\ DOMAIN queue' = 1..(Len(queue) + 1)
      /\ \A i \in DOMAIN queue : queue'[i] = queue[i]
      /\ queue'[Len(queue) + 1] = it
  BY PutQueue
<1>2. \A i \in DOMAIN queue' : i \in DOMAIN queue \/ i = Len(queue) + 1
  BY <1>1
<1>3. \A m : m \in Late' => m \in Late
  BY <1>1, <1>2, LateMessages
<1>4. \A m : m \in Late => m \in Late'
  BY <1>1, LateMessages
<1>. QED
  BY <1>3, <1>4

\* A call that gives up leaves one: the first of what it had left.
LEMMA LateLeft ==
    ASSUME CallInv, NEW h \in Handlers, GiveUp(h)
    PROVE  Late' = Late \cup {Head(call[h].todo)}
<1>1. /\ TypeOK /\ h # Nobody /\ call[h].pc = "wait"
      /\ queue' = [i \in DOMAIN queue |->
                      IF queue[i].to = h THEN [queue[i] EXCEPT !.to = Nobody]
                      ELSE queue[i]]
  BY HoldAssumption DEF GiveUp, CallInv
<1>2. /\ DOMAIN queue' = DOMAIN queue
      /\ \A i \in DOMAIN queue :
            /\ queue[i].to = h => /\ queue'[i].to = Nobody
                                  /\ queue'[i].kind = "msg" /\ queue[i].kind = "msg"
                                  /\ queue'[i].msg = Head(call[h].todo)
            /\ queue[i].to # h => queue'[i] = queue[i]
  <2>1. \A i \in DOMAIN queue : queue[i] \in Item
    BY <1>1, ElementOfSeq DEF TypeOK
  <2>2. \A i \in DOMAIN queue : queue[i].to = h =>
            queue[i].kind = "msg" /\ queue[i].msg = Head(call[h].todo)
    BY <1>1 DEF CallInv, OneInFlight
  <2>. QED
    BY <1>1, <2>1, <2>2 DEF Item
<1>3. PICK k \in DOMAIN queue : queue[k].to = h
  BY <1>1 DEF CallInv, OneInFlight
<1>4. \A i \in DOMAIN queue : Loose(queue'[i]) <=> Loose(queue[i]) \/ queue[i].to = h
  BY <1>1, <1>2 DEF Loose
<1>5. Head(call[h].todo) \in Late'
  BY <1>2, <1>3, <1>4, LateMessages
<1>6. \A m : m \in Late => m \in Late'
  BY <1>1, <1>2, <1>4, LateMessages DEF Loose
<1>7. \A m : m \in Late' => m \in Late \/ m = Head(call[h].todo)
  BY <1>2, <1>4, LateMessages
<1>. QED
  BY <1>5, <1>6, <1>7

\* A call that changes changes what its client has left, and nobody else's.
LEMMA TodoChanged ==
    ASSUME TypeOK, NEW h \in Handlers, NEW c, call' = [call EXCEPT ![h] = c]
    PROVE  Todo' = [Todo EXCEPT ![h] = c.todo]
  BY DEF Todo, TypeOK
\* A handler's steps: a batch accepted, abandoned, or no change to be seen.
LEMMA HandlerRefines ==
    ASSUME CallInv, NEW h \in Handlers,
           Handler(h) \/ \E b \in Batches : Publish(h, b)
    PROVE  Register!Next \/ UNCHANGED <<daemon # "down", hold, Todo, Late, file>>
<1>1. /\ TypeOK /\ daemon # "down" /\ daemon' = daemon /\ hold' = hold /\ file' = file
      /\ Todo[h] = call[h].todo /\ call \in [Handlers -> Call] /\ h # Nobody
  BY HoldAssumption DEF CallInv, TypeOK, Todo, Handler, Enqueue, GiveUp, Finish, Publish
<1>2. ASSUME NEW b \in Batches, Publish(h, b)
      PROVE  Register!Next
  <2> DEFINE c == [pc |-> "send", todo |-> b]
  <2>1. call' = [call EXCEPT ![h] = c] /\ c.todo = b
    BY <1>2 DEF Publish
  <2> HIDE DEF c
  <2>2. Todo' = [Todo EXCEPT ![h] = b]
    BY <1>1, <2>1, TodoChanged
  <2>3. Todo[h] = <<>> /\ Late' = Late
    BY <1>1, <1>2 DEF Publish, Idle, Late
  <2>4. Register!Accept(h, b)
    BY <1>1, <2>2, <2>3 DEF Register!Accept
  <2>. QED
    BY <2>4 DEF Register!Next
<1>3. CASE Enqueue(h)
  <2> DEFINE it == [kind |-> "msg", msg |-> Head(call[h].todo), to |-> h]
  <2>1. it \in Item
    <3>1. Head(call[h].todo) \in Message
      BY <1>1, <1>3, HeadTailProperties DEF Enqueue, CallInv, CallShape, Call
    <3>. QED
      BY <3>1 DEF Item
  <2>2. queue' = Append(queue, it) /\ ~Loose(it)
    BY <1>1, <1>3 DEF Enqueue, Loose
  <2> HIDE DEF it
  <2>3. Late' = Late
    BY <1>1, <2>1, <2>2, LatePut
  <2>4. \A g \in Handlers : call'[g].todo = call[g].todo
    BY <1>1, <1>3 DEF Enqueue, Call
  <2>. QED
    BY <1>1, <2>3, <2>4 DEF Todo
<1>4. CASE GiveUp(h)
  <2>1. call' = [call EXCEPT ![h] = Idle] /\ Idle.todo = <<>>
    BY <1>4 DEF GiveUp, Idle
  <2>2. Todo' = [Todo EXCEPT ![h] = <<>>]
    BY <1>1, <2>1, TodoChanged
  <2>3. Todo[h] # <<>>
    BY <1>1, <1>4 DEF GiveUp, CallInv, CallShape
  <2>4. Late' = Late \cup {Head(Todo[h])}
    BY <1>1, <1>4, LateLeft
  <2>5. Register!Abandon(h)
    BY <1>1, <2>2, <2>3, <2>4 DEF Register!Abandon
  <2>. QED
    BY <2>5 DEF Register!Next
<1>5. CASE Finish(h)
  <2>1. queue' = Append(queue, SaveItem) /\ SaveItem \in Item /\ ~Loose(SaveItem)
    BY <1>5, IdleIsCall DEF Finish, SaveItem, Loose
  <2>2. Late' = Late
    BY <1>1, <2>1, LatePut
  <2>3. call[h].todo = <<>>
    BY <1>5 DEF Finish, CallInv, CallShape
  <2>4. \A g \in Handlers : call'[g].todo = call[g].todo
    BY <1>1, <1>5, <2>3 DEF Finish, Idle
  <2>. QED
    BY <1>1, <2>2, <2>4 DEF Todo
<1>. QED
  BY <1>2, <1>3, <1>4, <1>5 DEF Handler

\* The writer's: the next message of a batch or a late one applies or is
\* dropped, the memory is saved, or nothing is to be seen.
LEMMA WriterRefines ==
    ASSUME CallInv, Writer
    PROVE  Register!Next \/ UNCHANGED <<daemon # "down", hold, Todo, Late, file>>
<1>1. TypeOK /\ call \in [Handlers -> Call]
  BY DEF CallInv, TypeOK
<1>2. CASE WriteMsg \/ WriteFails
  <2> DEFINE to == Head(queue).to
             m  == Head(queue).msg
  <2>1. /\ daemon = "up" /\ daemon' = daemon /\ file' = file
        /\ queue # <<>> /\ queue' = Tail(queue) /\ Head(queue).kind = "msg"
    BY <1>2 DEF WriteMsg, WriteFails, Takes
  <2>2. Head(queue) = queue[1] /\ 1 \in DOMAIN queue /\ queue[1] \in Item
    BY <1>1, <2>1, TakeQueue
  <2>3. to \in Handlers \cup {Nobody}
    BY <2>2 DEF Item
  <2>4. CASE to = Nobody
    <3>1. m \in Late /\ Late' \in {Late, Late \ {m}}
      BY <1>1, <2>1, <2>4, LateTaken DEF Loose
    <3>2. Todo' = Todo
      BY <1>2, <2>4 DEF WriteMsg, WriteFails, Answered, Todo
    <3>3. CASE WriteMsg
      <4>1. Register!WriteLate(m)
        BY <2>1, <3>1, <3>2, <3>3 DEF WriteMsg, Register!WriteLate
      <4>. QED
        BY <3>1, <4>1 DEF Register!Next
    <3>4. CASE WriteFails /\ Late' # Late
      <4>1. Register!DropLate(m)
        BY <2>1, <3>1, <3>2, <3>4 DEF WriteFails, Register!DropLate
      <4>. QED
        BY <3>1, <4>1 DEF Register!Next
    <3>5. CASE WriteFails /\ Late' = Late
      BY <2>1, <3>2, <3>5 DEF WriteFails
    <3>. QED
      BY <1>2, <3>3, <3>4, <3>5
  <2>5. CASE to # Nobody
    <3>1. to \in Handlers /\ Late' = Late
      BY <1>1, <2>1, <2>3, <2>5, LateTaken DEF Loose
    <3>2. Todo[to] = call[to].todo /\ Todo[to] # <<>> /\ m = Head(Todo[to])
      <4>1. call[to].pc = "wait" /\ m = Head(call[to].todo)
        BY <2>2, <2>5 DEF CallInv, OneInFlight
      <4>. QED
        BY <3>1, <4>1 DEF CallInv, CallShape, Todo
    <3>3. CASE WriteMsg
      <4> DEFINE c == [pc   |-> IF Len(call[to].todo) = 1 THEN "save" ELSE "send",
                       todo |-> Tail(call[to].todo)]
      <4>1. call' = [call EXCEPT ![to] = c] /\ c.todo = Tail(Todo[to])
        BY <2>5, <3>2, <3>3 DEF WriteMsg, Answered
      <4> HIDE DEF c
      <4>2. Todo' = [Todo EXCEPT ![to] = Tail(Todo[to])]
        BY <1>1, <3>1, <4>1, TodoChanged
      <4>3. hold' = Apply(hold, Head(Todo[to]))
        BY <3>2, <3>3 DEF WriteMsg
      <4>4. Register!Write(to)
        BY <2>1, <3>1, <3>2, <4>2, <4>3 DEF Register!Write
      <4>. QED
        BY <3>1, <4>4 DEF Register!Next
    <3>4. CASE WriteFails
      <4>1. call' = [call EXCEPT ![to] = Idle] /\ Idle.todo = <<>>
        BY <2>5, <3>4 DEF WriteFails, Answered, Idle
      <4>2. Todo' = [Todo EXCEPT ![to] = <<>>]
        BY <1>1, <3>1, <4>1, TodoChanged
      <4>3. Register!Refuse(to)
        BY <2>1, <3>1, <3>2, <3>4, <4>2 DEF WriteFails, Register!Refuse
      <4>. QED
        BY <3>1, <4>3 DEF Register!Next
    <3>. QED
      BY <1>2, <3>3, <3>4
  <2>. QED
    BY <2>4, <2>5
<1>3. CASE SaveState \/ SaveFails
  <2>1. /\ daemon = "up" /\ daemon' = daemon /\ hold' = hold /\ call' = call
        /\ queue # <<>> /\ queue' = Tail(queue) /\ Head(queue).kind = "save"
    BY <1>3 DEF SaveState, SaveFails, Takes
  <2>2. Late' = Late /\ Todo' = Todo
    BY <1>1, <2>1, LateTaken DEF Loose, Todo
  <2>3. CASE SaveState
    <3>1. Register!Save
      BY <2>1, <2>2, <2>3 DEF SaveState, Register!Save
    <3>. QED
      BY <3>1 DEF Register!Next
  <2>4. CASE SaveFails
    BY <2>1, <2>2, <2>4 DEF SaveFails
  <2>. QED
    BY <1>3, <2>3, <2>4
<1>4. CASE GetTimesOut \/ Heartbeat \/ WriterStops
  BY <1>4 DEF GetTimesOut, Heartbeat, WriterStops, Todo, Late
<1>. QED
  BY <1>2, <1>3, <1>4 DEF Writer

\* The process: it ends with all that was under way, or starts from the file.
LEMMA ProcessRefines ==
    ASSUME CallInv, Process
    PROVE  Register!Next \/ UNCHANGED <<daemon # "down", hold, Todo, Late, file>>
<1>1. CASE Exit \/ Crash \/ Reboot
  <2>1. Gone /\ file' \in {file, [file EXCEPT !.boot = FALSE]}
    BY <1>1 DEF Exit, Crash, Reboot
  <2>2. Todo' = [h \in Handlers |-> <<>>] /\ Late' = {}
    BY <2>1 DEF Gone, Todo, Late, Idle
  <2>3. Register!Stop
    BY <2>1, <2>2 DEF Gone, Register!Stop
  <2>. QED
    BY <2>3 DEF Register!Next
<1>2. CASE Start
  <2>1. Register!Start
    BY <1>2 DEF Start, Todo, Late, Register!Start
  <2>. QED
    BY <2>1 DEF Register!Next
<1>3. CASE Terminate
  BY <1>3 DEF Terminate, Todo, Late
<1>. QED
  BY <1>1, <1>2, <1>3 DEF Process

\* Handler threads, queue, writer and restarts are, to the clients, one memory
\* to which the messages of each batch apply in order and once, whoever gives
\* up, whatever fails and whenever the process ends.
THEOREM Refinement == Spec => ImplementsRegister
<1>1. Init => Register!Init
  BY DEF Init, Register!Init, Todo, Late, Idle
<1>2. CallInv /\ [Next]_vars
        => [Register!Next]_<<daemon # "down", hold, Todo, Late, file>>
  <2> SUFFICES ASSUME CallInv, [Next]_vars
               PROVE  Register!Next \/ UNCHANGED <<daemon # "down", hold, Todo, Late, file>>
    OBVIOUS
  <2>1. CASE \E h \in Handlers : Handler(h) \/ \E b \in Batches : Publish(h, b)
    BY <2>1, HandlerRefines
  <2>2. CASE GraceEnds \/ PublisherDies \/ UNCHANGED vars
    BY <2>2 DEF GraceEnds, PublisherDies, vars, Todo, Late
  <2>. QED
    BY <2>1, <2>2, WriterRefines, ProcessRefines DEF Next
<1>. QED
  BY <1>1, <1>2, CallInvariant, PTL DEF Spec, ImplementsRegister, Register!Spec

-----------------------------------------------------------------------------
(* HoldActiveMeansTold under failures.  A publisher that dies takes a      *)
(* couple with it; the respawn repeats it only if a pose is retained.  So  *)
(* a couple must be written on a retained pose, and then, whatever fails,  *)
(* a live publisher has told the arm what the daemon records.              *)

CoupleOnPose ==
    WriteMsg /\ Head(queue).msg.fc = "couple" => hold.pose # NoPose

MirrorInv ==
    /\ hold.coupled => hold.pose # NoPose
    /\ daemon = "down" => ~pub
    /\ pub /\ hold.coupled => arm.coupled

\* The first message of what is left of a batch, and what is left after it.
LEMMA TodoRest ==
    ASSUME NEW s \in Seq(Message), s # <<>>
    PROVE  /\ Head(s) = s[1] /\ 1 \in DOMAIN s
           /\ \A i \in DOMAIN Tail(s) : Tail(s)[i] = s[i + 1] /\ i + 1 \in DOMAIN s
                                        /\ i \in Nat
           /\ \A i \in DOMAIN s : i # 1 =>
                  i - 1 \in DOMAIN Tail(s) /\ Tail(s)[i - 1] = s[i]
           /\ WellFormed(s) => /\ WellFormed(Tail(s))
                               /\ Head(s).fc = "pose" => Head(s).pose # NoPose
<1>1. /\ Len(s) \in Nat /\ Len(s) > 0 /\ DOMAIN s = 1..Len(s) /\ Head(s) = s[1]
      /\ DOMAIN Tail(s) = 1..(Len(s) - 1)
      /\ \A i \in DOMAIN Tail(s) : Tail(s)[i] = s[i + 1]
  BY HeadTailProperties, EmptySeq, LenProperties
<1>. QED
  BY <1>1 DEF WellFormed

\* A message that carries a pose carries one, in a batch and in the queue.
PosesGiven ==
    /\ \A h \in Handlers : WellFormed(call[h].todo)
    /\ \A i \in DOMAIN queue :
           queue[i].msg.fc = "pose" => queue[i].msg.pose # NoPose

LEMMA PosesGivenStep ==
    ASSUME CallInv, PosesGiven, [Next]_vars
    PROVE  PosesGiven'
<1>1. TypeOK /\ call \in [Handlers -> Call]
  BY DEF CallInv, TypeOK
<1>2. WellFormed(<<>>) /\ WellFormed(Idle.todo)
  BY DEF WellFormed, Idle
<1>3. \A s \in Seq(Message) : s # <<>> /\ WellFormed(s) =>
          /\ WellFormed(Tail(s))
          /\ Head(s).fc = "pose" => Head(s).pose # NoPose
  BY TodoRest
<1>4. ASSUME queue # <<>>, queue' = Tail(queue)
      PROVE  \A i \in DOMAIN queue' :
                 queue'[i].msg.fc = "pose" => queue'[i].msg.pose # NoPose
  BY <1>1, <1>4, TakeQueue DEF PosesGiven
<1>5. CASE WriteMsg \/ WriteFails
  <2>1. PICK ok \in BOOLEAN : /\ call' = Answered(Head(queue).to, ok)
                             /\ queue # <<>> /\ queue' = Tail(queue)
    BY <1>5 DEF WriteMsg, WriteFails, Takes
  <2>2. Head(queue) = queue[1] /\ 1 \in DOMAIN queue /\ queue[1] \in Item
    BY <1>1, <2>1, TakeQueue
  <2>3. \A h \in Handlers : call'[h].todo \in {call[h].todo, Tail(call[h].todo), <<>>}
    BY <1>1, <2>1, <2>2 DEF Answered, Idle, Item
  <2>4. \A h \in Handlers : call[h].todo # <<>> => WellFormed(call'[h].todo)
    BY <1>1, <1>2, <1>3, <2>3 DEF PosesGiven, Call
  <2>5. \A h \in Handlers : call[h].todo = <<>> => call'[h] = call[h]
    BY <1>1, <2>1, <2>2 DEF Answered, Item, CallInv, OneInFlight, CallShape
  <2>. QED
    BY <1>2, <1>4, <2>1, <2>4, <2>5 DEF PosesGiven
<1>6. CASE SaveState \/ SaveFails
  BY <1>4, <1>6 DEF SaveState, SaveFails, Takes, PosesGiven
<1>7. CASE \E h \in Handlers : Enqueue(h)
  <2>1. PICK h \in Handlers : Enqueue(h)
    BY <1>7
  <2> DEFINE it == [kind |-> "msg", msg |-> Head(call[h].todo), to |-> h]
  <2>2. call[h].todo \in Seq(Message) /\ call[h].todo # <<>> /\ queue' = Append(queue, it)
    BY <1>1, <2>1 DEF Enqueue, CallInv, CallShape, Call
  <2>3. it \in Item /\ (it.msg.fc = "pose" => it.msg.pose # NoPose)
    <3>1. Head(call[h].todo) \in Message
      BY <2>2, HeadTailProperties
    <3>. QED
      BY <1>3, <2>2, <3>1 DEF Item, PosesGiven
  <2>4. \A g \in Handlers : call'[g].todo = call[g].todo
    BY <1>1, <2>1 DEF Enqueue, Call
  <2> HIDE DEF it
  <2>5. \A i \in DOMAIN queue' : i \in DOMAIN queue \/ i = Len(queue) + 1
    BY <1>1, <2>2, <2>3, PutQueue
  <2>. QED
    BY <1>1, <2>2, <2>3, <2>4, <2>5, PutQueue DEF PosesGiven
<1>8. CASE \E h \in Handlers : Finish(h)
  <2>1. queue' = Append(queue, SaveItem) /\ SaveItem \in Item /\ SaveItem.msg.fc # "pose"
    BY <1>8, IdleIsCall DEF Finish, SaveItem
  <2>2. \A i \in DOMAIN queue' : i \in DOMAIN queue \/ i = Len(queue) + 1
    BY <1>1, <2>1, PutQueue
  <2>3. \A g \in Handlers : call'[g].todo \in {call[g].todo, <<>>}
    BY <1>1, <1>8 DEF Finish, Idle
  <2>. QED
    BY <1>1, <1>2, <2>1, <2>2, <2>3, PutQueue DEF PosesGiven
<1>9. CASE \E h \in Handlers : GiveUp(h)
  BY <1>1, <1>2, <1>9 DEF GiveUp, PosesGiven
<1>10. CASE \E h \in Handlers, b \in Batches : Publish(h, b)
  <2>1. PICK h \in Handlers, b \in Batches : Publish(h, b)
    BY <1>10
  <2>2. WellFormed(b)
    BY HoldAssumption DEF WellFormed
  <2>. QED
    BY <1>1, <2>1, <2>2 DEF PosesGiven, Publish
<1>11. CASE queue' = <<>> /\ call' = [h \in Handlers |-> Idle]
  BY <1>2, <1>11 DEF PosesGiven
<1>12. CASE UNCHANGED <<queue, call>>
  BY <1>12 DEF PosesGiven
<1>. QED
  BY <1>5, <1>6, <1>7, <1>8, <1>9, <1>10, <1>11, <1>12
     DEF Next, Handler, Writer, GetTimesOut, Heartbeat, WriterStops, GraceEnds,
         PublisherDies, Process, Start, Terminate, Exit, Crash, Reboot, Gone, vars

\* A step that couples on a retained pose only keeps memory and arm alike.
LEMMA MirrorStep ==
    ASSUME CallInv, PosesGiven, MirrorInv, [Next]_vars, CoupleOnPose
    PROVE  MirrorInv'
<1>1. hold \in Held /\ arm \in Held /\ file.hold \in Held
  BY DEF CallInv, TypeOK
<1>2. CASE WriteMsg
  <2>1. /\ hold' = Apply(hold, Head(queue).msg)
        /\ daemon' = daemon /\ daemon = "up"
        /\ \/ arm' = Hears(Ensured, Head(queue).msg) /\ pub' = TRUE
           \/ pub' = FALSE
    BY <1>2 DEF WriteMsg, Takes
  <2>2. Head(queue).msg \in Message
        /\ (Head(queue).msg.fc = "pose" => Head(queue).msg.pose # NoPose)
    <3>1. /\ Head(queue) = queue[1] /\ 1 \in DOMAIN queue /\ queue[1] \in Item
      <4>1. queue # <<>> /\ queue' = Tail(queue) /\ TypeOK
        BY <1>2 DEF WriteMsg, Takes, CallInv
      <4>. QED
        BY <4>1, TakeQueue
    <3>. QED
      BY <3>1 DEF PosesGiven, Item
  <2>3. hold'.coupled => hold'.pose # NoPose
    BY <1>1, <1>2, <2>1, <2>2 DEF MirrorInv, CoupleOnPose, Apply, Held
  <2>4. hold.coupled => Ensured.coupled
    BY <1>1 DEF MirrorInv, Ensured, Restored, Powered, Holding, Held
  <2>5. pub' => arm'.coupled = ((Ensured.coupled /\ Head(queue).msg.fc # "release")
                                  \/ Head(queue).msg.fc = "couple")
    BY <2>1 DEF Hears
  <2>6. hold'.coupled = ((hold.coupled /\ Head(queue).msg.fc # "release")
                           \/ Head(queue).msg.fc = "couple")
    BY <2>1 DEF Apply
  <2>7. daemon' # "down"
    BY <2>1
  <2>. QED
    BY <2>3, <2>4, <2>5, <2>6, <2>7 DEF MirrorInv
<1>3. CASE Heartbeat
  <2>1. hold' = hold /\ daemon' = daemon /\ daemon = "up"
    BY <1>3 DEF Heartbeat
  <2>2. Holding => Ensured \in Held /\ Ensured.coupled
    BY <1>1 DEF MirrorInv, Ensured, Restored, Powered, Holding, Held
  <2>3. CASE Holding /\ arm' = [Ensured EXCEPT !.pose = hold.pose]
    <3>1. arm'.coupled /\ daemon' # "down"
      BY <2>1, <2>2, <2>3 DEF Held
    <3>. QED
      BY <2>1, <3>1 DEF MirrorInv
  <2>4. CASE (arm' = arm /\ pub' = pub) \/ pub' = FALSE
    BY <2>1, <2>4 DEF MirrorInv
  <2>. QED
    BY <1>3, <2>3, <2>4 DEF Heartbeat
<1>4. CASE Start
  <2>1. Loaded(file).coupled => Loaded(file).pose # NoPose
    BY <1>1 DEF Loaded, Off, Held
  <2>. QED
    BY <1>4, <2>1 DEF Start, MirrorInv
<1>5. CASE UNCHANGED hold /\ pub' = FALSE
  BY <1>5 DEF MirrorInv
<1>6. CASE /\ hold' = hold /\ pub' = pub /\ arm' = arm
           /\ daemon' = daemon \/ (daemon # "down" /\ daemon' # "down")
  BY <1>6 DEF MirrorInv
<1>7. CASE \E h \in Handlers : Handler(h) \/ \E b \in Batches : Publish(h, b)
  BY <1>6, <1>7 DEF Handler, Enqueue, GiveUp, Finish, Publish
<1>8. CASE WriteFails \/ PublisherDies \/ Exit \/ Crash \/ Reboot
  BY <1>5, <1>8 DEF WriteFails, PublisherDies, Exit, Crash, Reboot, Gone
<1>9. CASE SaveState \/ SaveFails \/ GetTimesOut \/ WriterStops
  <2>1. hold' = hold /\ pub' = pub /\ arm' = arm /\ daemon' = daemon
    BY <1>9 DEF SaveState, SaveFails, GetTimesOut, WriterStops
  <2>. QED
    BY <1>6, <2>1
<1>10. CASE GraceEnds \/ Terminate \/ UNCHANGED vars
  <2>1. /\ hold' = hold /\ pub' = pub /\ arm' = arm
        /\ daemon' = daemon \/ (daemon # "down" /\ daemon' # "down")
    BY <1>10 DEF GraceEnds, Terminate, vars
  <2>. QED
    BY <1>6, <2>1
<1>. QED
  BY <1>2, <1>3, <1>4, <1>7, <1>8, <1>9, <1>10 DEF Next, Writer, Process

\* Told under failures: whatever fails, times out or is restarted, hold_active
\* means that the arm was told to couple, as long as each couple is written
\* on a retained pose.
THEOREM HoldActivePosed == Spec /\ [][CoupleOnPose]_vars => []HoldActiveMeansTold
<1>1. Init => PosesGiven /\ MirrorInv
  BY DEF Init, PosesGiven, MirrorInv, WellFormed, Idle, Off
<1>2. CallInv /\ PosesGiven /\ [Next]_vars => PosesGiven'
  BY PosesGivenStep
<1>3. CallInv /\ PosesGiven /\ MirrorInv /\ [Next]_vars /\ [CoupleOnPose]_vars => MirrorInv'
  <2>1. UNCHANGED vars /\ MirrorInv => MirrorInv'
    BY DEF vars, MirrorInv
  <2>. QED
    BY <2>1, MirrorStep
<1>4. MirrorInv => HoldActiveMeansTold
  BY DEF MirrorInv, HoldActiveMeansTold, Holding
<1>. QED
  BY <1>1, <1>2, <1>3, <1>4, CallInvariant, PTL DEF Spec

\* One client at a time whose batches pose before they couple couples on a
\* retained pose only: the messages queued behind its pose are its own, and a
\* release among them is followed by a pose before the next couple.
CouplesPosed(b) ==
    \A i \in DOMAIN b : b[i].fc = "couple" =>
        \E k \in DOMAIN b : /\ k < i /\ b[k].fc = "pose"
                            /\ \A j \in DOMAIN b : k < j /\ j < i => b[j].fc # "release"

\* What is left of such a batch; it is bare when it couples on the pose that
\* is there.
ReleaseThenPose(b) ==
    \A i, j \in DOMAIN b : b[i].fc = "couple" /\ b[j].fc = "release" /\ j < i =>
        \E k \in DOMAIN b : j < k /\ k < i /\ b[k].fc = "pose"
Bare(b) ==
    \E i \in DOMAIN b : /\ b[i].fc = "couple"
                        /\ \A k \in DOMAIN b : k < i => b[k].fc # "pose"

NoneQueued(fc) == \A i \in DOMAIN queue : queue[i].msg.fc # fc

AloneInv ==
    /\ \A i \in DOMAIN queue : queue[i].to # Nobody => i = Len(queue)
    /\ \A h \in Handlers :
           /\ ReleaseThenPose(call[h].todo)
           /\ Bare(call[h].todo) => hold.pose # NoPose /\ NoneQueued("release")
    /\ \A i, j \in DOMAIN queue : queue[i].msg.fc = "couple" =>
           hold.pose # NoPose /\ (j < i => queue[j].msg.fc # "release")

LEMMA BareRest ==
    ASSUME NEW b \in Seq(Message), b # <<>>, ReleaseThenPose(b)
    PROVE  /\ ReleaseThenPose(Tail(b))
           /\ Bare(Tail(b)) => Head(b).fc = "pose" \/ (Bare(b) /\ Head(b).fc # "release")
           /\ Head(b).fc = "couple" => Bare(b)
           /\ Bare(b) => Head(b).fc # "release"
<1>1. /\ Head(b) = b[1] /\ 1 \in DOMAIN b /\ \A i \in DOMAIN b : i \in Nat /\ i >= 1
      /\ \A i \in DOMAIN Tail(b) : Tail(b)[i] = b[i + 1] /\ i + 1 \in DOMAIN b /\ i \in Nat
                                   /\ i >= 1
      /\ \A i \in DOMAIN b : i # 1 => i - 1 \in DOMAIN Tail(b) /\ Tail(b)[i - 1] = b[i]
  BY TodoRest, LenProperties, HeadTailProperties
<1>2. ReleaseThenPose(Tail(b))
  <2> SUFFICES ASSUME NEW i \in DOMAIN Tail(b), NEW j \in DOMAIN Tail(b),
                      Tail(b)[i].fc = "couple", Tail(b)[j].fc = "release", j < i
               PROVE  \E k \in DOMAIN Tail(b) : j < k /\ k < i /\ Tail(b)[k].fc = "pose"
    BY DEF ReleaseThenPose
  <2>1. PICK k \in DOMAIN b : j + 1 < k /\ k < i + 1 /\ b[k].fc = "pose"
    BY <1>1 DEF ReleaseThenPose
  <2>2. k - 1 \in DOMAIN Tail(b) /\ Tail(b)[k - 1] = b[k] /\ j < k - 1 /\ k - 1 < i
    BY <1>1, <2>1
  <2>. QED
    BY <2>1, <2>2
<1>3. Head(b).fc = "couple" => Bare(b)
  BY <1>1 DEF Bare
<1>4. Bare(b) => Head(b).fc # "release"
  <2> SUFFICES ASSUME Bare(b), b[1].fc = "release" PROVE FALSE
    BY <1>1
  <2>1. PICK i \in DOMAIN b : /\ b[i].fc = "couple"
                              /\ \A k \in DOMAIN b : k < i => b[k].fc # "pose"
    BY DEF Bare
  <2>2. 1 < i
    BY <1>1, <2>1
  <2>. QED
    BY <1>1, <2>1, <2>2 DEF ReleaseThenPose
<1>5. ASSUME Bare(Tail(b)), Head(b).fc # "pose"
      PROVE  Bare(b)
  <2>1. PICK i \in DOMAIN Tail(b) :
            /\ Tail(b)[i].fc = "couple"
            /\ \A k \in DOMAIN Tail(b) : k < i => Tail(b)[k].fc # "pose"
    BY <1>5 DEF Bare
  <2>2. ASSUME NEW k \in DOMAIN b, k < i + 1 PROVE b[k].fc # "pose"
    <3>1. CASE k = 1
      BY <1>1, <1>5, <3>1
    <3>2. CASE k # 1
      <4>1. k - 1 \in DOMAIN Tail(b) /\ Tail(b)[k - 1] = b[k] /\ k - 1 < i
        BY <1>1, <2>1, <2>2, <3>2
      <4>. QED
        BY <2>1, <4>1
    <3>. QED
      BY <3>1, <3>2
  <2>. QED
    BY <1>1, <2>1, <2>2 DEF Bare
<1>. QED
  BY <1>2, <1>3, <1>4, <1>5

\* A client of its own keeps its couples posed.
LEMMA AloneStep ==
    ASSUME CallInv, PosesGiven, AloneInv, [Next]_vars,
           \A g, h \in Handlers : g = h,
           \A b \in Batches : CouplesPosed(b)
    PROVE  AloneInv'
<1>1. TypeOK /\ call \in [Handlers -> Call] /\ \A h \in Handlers : call[h].todo \in Seq(Message)
  BY DEF CallInv, TypeOK, Call
<1>2. ReleaseThenPose(<<>>) /\ ~Bare(<<>>) /\ Idle.todo = <<>>
  BY DEF ReleaseThenPose, Bare, Idle
<1>3. ASSUME queue # <<>>, queue' = Tail(queue)
      PROVE  /\ \A i \in DOMAIN queue' : queue'[i].to # Nobody => i = Len(queue')
             /\ \A fc : NoneQueued(fc) => NoneQueued(fc)'
             /\ Head(queue) = queue[1] /\ 1 \in DOMAIN queue /\ queue[1] \in Item
             /\ \A i, j \in DOMAIN queue' : queue'[i].msg.fc = "couple" =>
                    /\ hold.pose # NoPose /\ Head(queue).msg.fc # "release"
                    /\ j < i => queue'[j].msg.fc # "release"
  <2>1. /\ Len(queue) \in Nat /\ Len(queue) > 0 /\ Head(queue) = queue[1]
        /\ DOMAIN queue = 1..Len(queue) /\ DOMAIN queue' = 1..(Len(queue) - 1)
        /\ queue' \in Seq(Item) /\ Head(queue) \in Item
        /\ \A i \in DOMAIN queue' : queue'[i] = queue[i + 1] /\ i + 1 \in DOMAIN queue
    BY <1>1, <1>3, TakeQueue
  <2>2. Len(queue') = Len(queue) - 1
    BY <1>1, <1>3, HeadTailProperties DEF TypeOK
  <2>3. ASSUME NEW i \in DOMAIN queue', queue'[i].to # Nobody PROVE i = Len(queue')
    BY <2>1, <2>2, <2>3 DEF AloneInv
  <2>4. ASSUME NEW i \in DOMAIN queue', NEW j \in DOMAIN queue', queue'[i].msg.fc = "couple"
        PROVE  /\ hold.pose # NoPose /\ Head(queue).msg.fc # "release"
               /\ j < i => queue'[j].msg.fc # "release"
    <3>1. 1 \in DOMAIN queue /\ 1 < i + 1 /\ (j < i => j + 1 < i + 1)
      BY <2>1, <2>4
    <3>. QED
      BY <2>1, <2>4, <3>1 DEF AloneInv
  <2>5. 1 \in DOMAIN queue
    BY <2>1
  <2>. QED
    BY <2>1, <2>3, <2>4, <2>5 DEF NoneQueued
<1>4. CASE UNCHANGED <<queue, call, hold>>
  BY <1>4 DEF AloneInv, NoneQueued
<1>5. CASE queue' = <<>> /\ call' = [h \in Handlers |-> Idle]
  BY <1>2, <1>5 DEF AloneInv
<1>6. CASE Start
  BY <1>2, <1>6 DEF Start, AloneInv, CallInv, DownIsEmpty
<1>7. CASE SaveState \/ SaveFails
  BY <1>3, <1>7 DEF SaveState, SaveFails, Takes, AloneInv
<1>8. CASE \E h \in Handlers, b \in Batches : Publish(h, b)
  <2>1. PICK h \in Handlers, b \in Batches : Publish(h, b)
    BY <1>8
  <2>2. ReleaseThenPose(b) /\ ~Bare(b)
    <3>1. \A i \in DOMAIN b : i \in Nat
      BY HoldAssumption, LenProperties
    <3>2. ReleaseThenPose(b)
      <4> SUFFICES ASSUME NEW i \in DOMAIN b, NEW j \in DOMAIN b, b[i].fc = "couple",
                          b[j].fc = "release", j < i
                   PROVE  \E k \in DOMAIN b : j < k /\ k < i /\ b[k].fc = "pose"
        BY DEF ReleaseThenPose
      <4>1. PICK k \in DOMAIN b : /\ k < i /\ b[k].fc = "pose"
                                  /\ \A l \in DOMAIN b : k < l /\ l < i => b[l].fc # "release"
        BY DEF CouplesPosed
      <4>2. ~(k < j) /\ k # j
        BY <4>1
      <4>3. j < k
        BY <3>1, <4>2
      <4>. QED
        BY <4>1, <4>3
    <3>. QED
      BY <3>2 DEF CouplesPosed, Bare
  <2>3. /\ UNCHANGED <<queue, hold>>
        /\ call'[h].todo = b /\ \A g \in Handlers : g = h
    BY <1>1, <2>1 DEF Publish
  <2>. QED
    BY <2>2, <2>3 DEF AloneInv, NoneQueued
<1>9. CASE \E h \in Handlers : GiveUp(h)
  <2>1. PICK h \in Handlers : GiveUp(h)
    BY <1>9
  <2>2. /\ hold' = hold /\ call'[h] = Idle /\ \A g \in Handlers : g = h
        /\ DOMAIN queue' = DOMAIN queue
        /\ \A i \in DOMAIN queue : queue'[i].msg = queue[i].msg
    BY <1>1, <2>1 DEF GiveUp
  <2>3. \A i \in DOMAIN queue : queue'[i].to = Nobody
    <3>1. ASSUME NEW i \in DOMAIN queue
          PROVE  queue[i] \in Item /\ queue[i].to \in {h, Nobody}
      <4>1. queue[i] \in Item
        BY <1>1, ElementOfSeq, LenProperties DEF TypeOK
      <4>. QED
        BY <2>2, <4>1 DEF Item
    <3>. QED
      BY <2>1, <3>1 DEF GiveUp, Item
  <2>. QED
    BY <1>2, <2>2, <2>3 DEF AloneInv
<1>10. CASE \E h \in Handlers : Finish(h) \/ Enqueue(h)
  <2>1. PICK h \in Handlers : Finish(h) \/ Enqueue(h)
    BY <1>10
  <2>2. \A g \in Handlers : g = h
    OBVIOUS
  <2>3. PICK it \in Item : /\ queue' = Append(queue, it) /\ hold' = hold
                           /\ it.msg.fc = "couple" => Bare(call[h].todo)
                           /\ Bare(call'[h].todo) => Bare(call[h].todo) /\ it.msg.fc # "release"
                           /\ call'[h].todo \in {call[h].todo, <<>>}
    <3>1. CASE Finish(h)
      BY <1>1, <1>2, <3>1, IdleIsCall DEF Finish, SaveItem
    <3>2. CASE Enqueue(h)
      <4> DEFINE it == [kind |-> "msg", msg |-> Head(call[h].todo), to |-> h]
      <4>1. call[h].todo # <<>> /\ Head(call[h].todo) \in Message
        BY <1>1, <3>2, HeadTailProperties DEF Enqueue, CallInv, CallShape
      <4>2. it \in Item
        BY <4>1 DEF Item
      <4>3. call'[h].todo = call[h].todo /\ queue' = Append(queue, it) /\ hold' = hold
        BY <1>1, <3>2 DEF Enqueue, Call
      <4>. QED
        BY <1>1, <4>1, <4>2, <4>3, BareRest DEF AloneInv
    <3>. QED
      BY <2>1, <3>1, <3>2
  <2>4. \A i \in DOMAIN queue : queue[i].to = Nobody
    <3>1. call[h].pc # "wait"
      BY <2>1 DEF Finish, Enqueue
    <3>2. ASSUME NEW i \in DOMAIN queue
          PROVE  queue[i].to \in {h, Nobody}
      <4>1. queue[i] \in Item
        BY <1>1, ElementOfSeq, LenProperties DEF TypeOK
      <4>. QED
        BY <2>2, <4>1 DEF Item
    <3>. QED
      BY <3>1, <3>2 DEF CallInv, OneInFlight
  <2>5. /\ Len(queue) \in Nat /\ DOMAIN queue = 1..Len(queue)
        /\ DOMAIN queue' = 1..(Len(queue) + 1) /\ Len(queue') = Len(queue) + 1
        /\ \A i \in DOMAIN queue : queue'[i] = queue[i]
        /\ queue'[Len(queue) + 1] = it
    BY <1>1, <2>3, PutQueue, AppendProperties DEF TypeOK
  <2>6. \A i \in DOMAIN queue' : i \in DOMAIN queue \/ i = Len(queue) + 1
    BY <2>5
  <2>7. \A i \in DOMAIN queue' : queue'[i].to # Nobody => i = Len(queue')
    BY <2>4, <2>5, <2>6
  <2>8. ASSUME Bare(call'[h].todo) PROVE hold'.pose # NoPose /\ NoneQueued("release")'
    BY <2>3, <2>5, <2>6, <2>8 DEF AloneInv, NoneQueued
  <2>9. ASSUME NEW i \in DOMAIN queue', NEW j \in DOMAIN queue', queue'[i].msg.fc = "couple"
        PROVE  hold'.pose # NoPose /\ (j < i => queue'[j].msg.fc # "release")
    <3>1. CASE i \in DOMAIN queue
      <4>1. j < i => j \in DOMAIN queue
        BY <2>5, <3>1
      <4>. QED
        BY <2>3, <2>5, <2>9, <3>1, <4>1 DEF AloneInv
    <3>2. CASE i = Len(queue) + 1
      <4>1. hold.pose # NoPose /\ NoneQueued("release")
        BY <2>3, <2>5, <2>9, <3>2 DEF AloneInv
      <4>2. j < i => j \in DOMAIN queue
        BY <2>5, <3>2
      <4>. QED
        BY <2>3, <2>5, <4>1, <4>2 DEF NoneQueued
    <3>. QED
      BY <2>6, <3>1, <3>2
  <2>. QED
    BY <1>2, <2>2, <2>3, <2>7, <2>8, <2>9 DEF AloneInv
<1>11. CASE WriteMsg \/ WriteFails
  <2> DEFINE to == Head(queue).to
             m  == Head(queue).msg
  <2>1. PICK ok \in BOOLEAN :
            /\ call' = Answered(to, ok)
            /\ hold' = (IF ok THEN Apply(hold, m) ELSE hold)
            /\ queue # <<>> /\ queue' = Tail(queue)
            /\ Head(queue).kind = "msg"
    BY <1>11 DEF WriteMsg, WriteFails, Takes
  <2>2. /\ \A i \in DOMAIN queue' : queue'[i].to # Nobody => i = Len(queue')
        /\ \A fc : NoneQueued(fc) => NoneQueued(fc)'
        /\ Head(queue) = queue[1] /\ 1 \in DOMAIN queue /\ queue[1] \in Item
        /\ \A i, j \in DOMAIN queue' : queue'[i].msg.fc = "couple" =>
               /\ hold.pose # NoPose /\ m.fc # "release"
               /\ j < i => queue'[j].msg.fc # "release"
    BY <1>3, <2>1
  <2>3. /\ hold.pose # NoPose /\ m.fc # "release" => hold'.pose # NoPose
        /\ m.fc = "pose" /\ ok => hold'.pose # NoPose
    <3>1. m.fc = "pose" => m.pose # NoPose
      BY <2>2 DEF PosesGiven
    <3>. QED
      BY <2>1, <3>1 DEF Apply
  <2>4. NoneQueued("release") => m.fc # "release"
    BY <2>2 DEF NoneQueued
  <2>5. ASSUME NEW h \in Handlers
        PROVE  /\ ReleaseThenPose(call'[h].todo)
               /\ Bare(call'[h].todo) => hold'.pose # NoPose /\ NoneQueued("release")'
    <3>1. CASE to = Nobody
      BY <2>1, <2>2, <2>3, <2>4, <3>1 DEF Answered, AloneInv
    <3>2. CASE to # Nobody
      <4>1. /\ to = h /\ call[h].todo # <<>> /\ m = Head(call[h].todo)
        BY <2>2, <3>2 DEF Item, CallInv, OneInFlight, CallShape
      <4>2. call'[h].todo = IF ok THEN Tail(call[h].todo) ELSE <<>>
        BY <1>1, <1>2, <2>1, <3>2, <4>1 DEF Answered
      <4>3. queue' = <<>>
        <5>1. Len(queue) = 1
          BY <2>2, <3>2 DEF AloneInv
        <5>2. queue' \in Seq(Item) /\ DOMAIN queue' = 1..0
          BY <1>1, <2>1, <5>1, TakeQueue
        <5>. QED
          BY <5>2, EmptySeq, LenProperties
      <4>4. NoneQueued("release")'
        BY <4>3 DEF NoneQueued
      <4>5. /\ ReleaseThenPose(call'[h].todo)
            /\ Bare(call'[h].todo) =>
                   ok /\ (m.fc = "pose" \/ (Bare(call[h].todo) /\ m.fc # "release"))
        BY <1>1, <1>2, <4>1, <4>2, BareRest DEF AloneInv
      <4>. QED
        BY <2>3, <4>4, <4>5 DEF AloneInv
    <3>. QED
      BY <3>1, <3>2
  <2>. QED
    BY <2>2, <2>3, <2>5 DEF AloneInv
<1>. QED
  BY <1>4, <1>5, <1>6, <1>7, <1>8, <1>9, <1>10, <1>11
     DEF Next, Handler, Writer, GetTimesOut, Heartbeat, WriterStops, GraceEnds,
         PublisherDies, Process, Terminate, Exit, Crash, Reboot, Gone, vars

\* For a client of its own whose batches pose before they couple, as those of
\* service.couple_and_hold_pose do, hold_active means that the arm was told to
\* couple, whatever fails, times out or is restarted.
THEOREM HoldActiveAlone ==
    ASSUME \A g, h \in Handlers : g = h,
           \A b \in Batches : CouplesPosed(b)
    PROVE  Spec => []HoldActiveMeansTold
<1>1. Init => PosesGiven /\ AloneInv
  BY DEF Init, PosesGiven, AloneInv, WellFormed, ReleaseThenPose, Bare, Idle
<1>2. CallInv /\ PosesGiven /\ AloneInv /\ [Next]_vars => PosesGiven' /\ AloneInv'
  BY PosesGivenStep, AloneStep
<1>3. CallInv /\ AloneInv => CoupleOnPose
  <2> SUFFICES ASSUME CallInv, AloneInv, WriteMsg, Head(queue).msg.fc = "couple"
               PROVE  hold.pose # NoPose
    BY DEF CoupleOnPose
  <2>1. Head(queue) = queue[1] /\ 1 \in DOMAIN queue
    <3>1. TypeOK /\ queue # <<>> /\ queue' = Tail(queue)
      BY DEF WriteMsg, Takes, CallInv
    <3>. QED
      BY <3>1, TakeQueue
  <2>. QED
    BY <2>1 DEF AloneInv
<1>. QED
  BY <1>1, <1>2, <1>3, CallInvariant, HoldActivePosed, PTL DEF Spec

=============================================================================
