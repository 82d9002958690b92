-------------------------- MODULE PubSubChannelProofs --------------------------
(***************************************************************************)
(* What receive() of a pub/sub subscription returns, for any queue size,   *)
(* any number of messages, closing peers and faults.                       *)
(***************************************************************************)
EXTENDS PubSubChannel, TLAPS

(* Appending a message adds its payload, if it has one.                    *)
LEMMA PayloadsAppend ==
  ASSUME NEW s \in Seq(Nat), NEW m \in Nat
  PROVE  PayloadsOf(Append(s, m)) = PayloadsOf(s) \cup ({m} \ {SigClose})
<1>1. ASSUME NEW x \in PayloadsOf(Append(s, m))
      PROVE  x \in PayloadsOf(s) \cup ({m} \ {SigClose})
  BY <1>1 DEF PayloadsOf
<1>2. ASSUME NEW x \in PayloadsOf(s)
      PROVE  x \in PayloadsOf(Append(s, m))
  <2>1. PICK i \in DOMAIN s : x = s[i]
    BY <1>2 DEF PayloadsOf
  <2>2. i \in DOMAIN Append(s, m) /\ Append(s, m)[i] = x
    BY <2>1
  <2> QED
    BY <1>2, <2>2 DEF PayloadsOf
<1>3. ASSUME m # SigClose
      PROVE  m \in PayloadsOf(Append(s, m))
  <2>1. Len(s) + 1 \in DOMAIN Append(s, m) /\ Append(s, m)[Len(s) + 1] = m
    OBVIOUS
  <2> QED
    BY <1>3, <2>1 DEF PayloadsOf
<1> QED
  BY <1>1, <1>2, <1>3

(* The payloads of a sequence are its head's and its tail's.               *)
LEMMA PayloadsTail ==
  ASSUME NEW s \in Seq(Nat), s # <<>>
  PROVE  /\ Head(s) \in Nat /\ Tail(s) \in Seq(Nat)
         /\ PayloadsOf(s) = ({Head(s)} \ {SigClose}) \cup PayloadsOf(Tail(s))
<1>1. Head(s) \in Nat /\ Tail(s) \in Seq(Nat)
  OBVIOUS
<1>2. ASSUME NEW x \in PayloadsOf(s)
      PROVE  x \in ({Head(s)} \ {SigClose}) \cup PayloadsOf(Tail(s))
  <2>1. PICK i \in DOMAIN s : x = s[i] /\ x # SigClose
    BY <1>2 DEF PayloadsOf
  <2>2. CASE i = 1
    BY <2>1, <2>2
  <2>3. CASE i # 1
    <3>1. i - 1 \in DOMAIN Tail(s) /\ Tail(s)[i - 1] = x
      BY <2>1, <2>3
    <3> QED
      BY <2>1, <3>1 DEF PayloadsOf
  <2> QED
    BY <2>2, <2>3
<1>3. ASSUME NEW x \in PayloadsOf(Tail(s))
      PROVE  x \in PayloadsOf(s)
  <2>1. PICK i \in DOMAIN Tail(s) : x = Tail(s)[i] /\ x # SigClose
    BY <1>3 DEF PayloadsOf
  <2>2. i + 1 \in DOMAIN s /\ s[i + 1] = x
    BY <2>1
  <2> QED
    BY <2>1, <2>2 DEF PayloadsOf
<1>4. Head(s) # SigClose => Head(s) \in PayloadsOf(s)
  <2>1. 1 \in DOMAIN s /\ s[1] = Head(s)
    OBVIOUS
  <2> QED
    BY <2>1 DEF PayloadsOf
<1> QED
  BY <1>1, <1>2, <1>3, <1>4

(* Order survives appending a message newer than all the payloads.         *)
LEMMA IncreasingAppend ==
  ASSUME NEW s \in Seq(Nat), NEW m \in Nat, Increasing(s),
         Before(PayloadsOf(s), {m} \ {SigClose})
  PROVE  Increasing(Append(s, m))
<1> SUFFICES ASSUME NEW i \in DOMAIN Append(s, m), NEW j \in DOMAIN Append(s, m),
                    i < j, Append(s, m)[i] # SigClose, Append(s, m)[j] # SigClose
             PROVE  Append(s, m)[i] < Append(s, m)[j]
  BY DEF Increasing
<1>1. i \in DOMAIN s /\ Append(s, m)[i] = s[i]
  OBVIOUS
<1>2. CASE j \in DOMAIN s
  BY <1>1, <1>2 DEF Increasing
<1>3. CASE j = Len(s) + 1
  BY <1>1, <1>3 DEF Before, PayloadsOf
<1> QED
  BY <1>2, <1>3

(* The tail of an ordered sequence is ordered and newer than the head.     *)
LEMMA IncreasingTail ==
  ASSUME NEW s \in Seq(Nat), s # <<>>, Increasing(s)
  PROVE  /\ Increasing(Tail(s))
         /\ Before({Head(s)} \ {SigClose}, PayloadsOf(Tail(s)))
<1>1. \A i \in DOMAIN Tail(s) : i + 1 \in DOMAIN s /\ Tail(s)[i] = s[i + 1]
  OBVIOUS
<1>2. Increasing(Tail(s))
  BY <1>1 DEF Increasing
<1>3. ASSUME NEW a \in {Head(s)} \ {SigClose}, NEW b \in PayloadsOf(Tail(s))
      PROVE  a < b
  <2>1. PICK i \in DOMAIN Tail(s) : b = Tail(s)[i] /\ b # SigClose
    BY <1>3 DEF PayloadsOf
  <2>2. 1 \in DOMAIN s /\ a = s[1] /\ a # SigClose
    BY <1>3
  <2> QED
    BY <1>1, <2>1, <2>2 DEF Increasing
<1> QED
  BY <1>2, <1>3 DEF Before

(* The initial state: every place is empty.                                *)
LEMMA PipeInit == Init => PipeInv
<1> SUFFICES ASSUME Init PROVE PipeInv
  OBVIOUS
<1>1. PayloadsOf(<<>>) = {} /\ Increasing(<<>>)
  BY DEF PayloadsOf, Increasing
<1>2. TypeOK
  <2>1. closed \in BOOLEAN /\ dropped \in BOOLEAN
    BY DEF Init
  <2>2. /\ link \in {"none", "sent", "active", "gone"} /\ listener \in ListenerStates
        /\ consumer \in ConsumerStates /\ closer \in CloserStates
    BY DEF Init, ListenerStates, ConsumerStates, CloserStates
  <2>3. /\ queue \in Seq(Nat) /\ wire \in Seq(Nat) /\ received \in Seq(Nat)
        /\ Len(queue) <= Cap
    BY CapAssumption DEF Init
  <2>4. published \in Nat /\ peers \in Nat /\ since \in Nat /\ faults \in Nat /\ hand \in Nat
    BY DEF Init, SigClose
  <2> QED
    BY <2>1, <2>2, <2>3, <2>4 DEF TypeOK
<1>3. Accounted = {}
  BY <1>1 DEF Init, Accounted, HeldPayload, Holding
<1>4. Phases /\ NothingLostSilently
  BY <1>3 DEF Init, Phases, NothingLostSilently
<1>5. PipeInOrder
  BY <1>1, <1>3 DEF Init, PipeInOrder, Before
<1> QED
  BY <1>2, <1>4, <1>5 DEF PipeInv

(* Every step keeps the flags Boolean.                                     *)
LEMMA FlagStep ==
  ASSUME closed \in BOOLEAN, dropped \in BOOLEAN, [Next]_vars
  PROVE  closed' \in BOOLEAN /\ dropped' \in BOOLEAN
<1>1. CASE BeginClose
  BY <1>1 DEF BeginClose
<1>2. CASE DropOldest
  BY <1>2 DEF DropOldest
<1>3. CASE UNCHANGED <<closed, dropped>>
  BY <1>3
<1>4. \/ BeginClose \/ DropOldest \/ UNCHANGED <<closed, dropped>>
  BY DEF Next, vars, Publish, PeerCloses, SubscribeTakesEffect, Start, ReceiveTimesOut,
         Consume, BeginReceive, ReceiveRefused, TakeItem, IteratorEnds, Listen, LoopTop,
         GetMessage, GetTimesOut, CheckClosed, PutLoop, TryPut, Cleanup, GetFails, Close,
         UnblockConsumer, MakeRoom, RetryUnblock, PublishCloseEvent, PublishCloseFails
<1> QED
  BY <1>1, <1>2, <1>3, <1>4

(* Every thread goes from one of its states to another.                    *)
LEMMA ControlStep ==
  ASSUME TypeOK, [Next]_vars
  PROVE  /\ link' \in {"none", "sent", "active", "gone"} /\ listener' \in ListenerStates
         /\ consumer' \in ConsumerStates /\ closer' \in CloserStates
<1> USE DEF ListenerStates, ConsumerStates, CloserStates, redis
<1>1. /\ link \in {"none", "sent", "active", "gone"} /\ listener \in ListenerStates
      /\ consumer \in ConsumerStates /\ closer \in CloserStates
  BY DEF TypeOK
<1>2. CASE Publish \/ PeerCloses \/ SubscribeTakesEffect \/ Start \/ ReceiveTimesOut
  BY <1>1, <1>2 DEF Publish, PeerCloses, SubscribeTakesEffect, Start, ReceiveTimesOut
<1>3. CASE Consume
  BY <1>1, <1>3 DEF Consume, BeginReceive, ReceiveRefused, TakeItem, IteratorEnds
<1>4. CASE Listen
  BY <1>1, <1>4 DEF Listen, LoopTop, GetMessage, GetTimesOut, CheckClosed, PutLoop, TryPut,
                    DropOldest, Cleanup, AfterPut
<1>5. CASE GetFails \/ BeginClose \/ PublishCloseFails
  BY <1>1, <1>5 DEF GetFails, BeginClose, PublishCloseFails
<1>6. CASE Close
  BY <1>1, <1>6 DEF Close, UnblockConsumer, MakeRoom, RetryUnblock, PublishCloseEvent
<1>7. CASE UNCHANGED vars
  BY <1>1, <1>7 DEF vars
<1> QED
  BY <1>2, <1>3, <1>4, <1>5, <1>6, <1>7 DEF Next

(* Every step keeps the messages in their places and the queue within Cap. *)
LEMMA DataStep ==
  ASSUME TypeOK, [Next]_vars
  PROVE  /\ queue' \in Seq(Nat) /\ wire' \in Seq(Nat) /\ received' \in Seq(Nat)
         /\ Len(queue') <= Cap
         /\ published' \in Nat /\ peers' \in Nat /\ since' \in Nat
         /\ faults' \in Nat /\ hand' \in Nat
<1> USE CapAssumption DEF redis
<1>1. /\ queue \in Seq(Nat) /\ wire \in Seq(Nat) /\ received \in Seq(Nat)
      /\ Len(queue) <= Cap
      /\ published \in Nat /\ peers \in Nat /\ since \in Nat
      /\ faults \in Nat /\ hand \in Nat
  BY DEF TypeOK
<1>2. queue # <<>> => /\ Head(queue) \in Nat /\ Tail(queue) \in Seq(Nat)
                      /\ Len(Tail(queue)) <= Cap
  BY <1>1
<1>3. wire # <<>> => Head(wire) \in Nat /\ Tail(wire) \in Seq(Nat)
  BY <1>1
<1>4. published + 1 \in Nat /\ peers + 1 \in Nat /\ faults + 1 \in Nat
  BY <1>1
<1>5. \A m \in Nat : /\ Append(wire, m) \in Seq(Nat) /\ Append(received, m) \in Seq(Nat)
                    /\ Append(queue, m) \in Seq(Nat)
                    /\ Len(queue) < Cap => Len(Append(queue, m)) <= Cap
  BY <1>1
<1>6. SigClose \in Nat
  BY DEF SigClose
<1>7. CASE Publish
  BY <1>1, <1>4, <1>5, <1>7 DEF Publish, Broadcast
<1>8. CASE PeerCloses
  BY <1>1, <1>4, <1>5, <1>6, <1>8 DEF PeerCloses, Broadcast
<1>9. CASE SubscribeTakesEffect \/ Start \/ ReceiveTimesOut \/ BeginReceive \/ ReceiveRefused
  BY <1>1, <1>9 DEF SubscribeTakesEffect, Start, ReceiveTimesOut, BeginReceive, ReceiveRefused
<1>10. CASE TakeItem
  BY <1>1, <1>2, <1>5, <1>10 DEF TakeItem
<1>11. CASE IteratorEnds
  BY <1>1, <1>2, <1>11 DEF IteratorEnds
<1>12. CASE LoopTop \/ GetTimesOut \/ CheckClosed \/ PutLoop
  BY <1>1, <1>12 DEF LoopTop, GetTimesOut, CheckClosed, PutLoop
<1>13. CASE Cleanup
  BY <1>1, <1>13 DEF Cleanup
<1>14. CASE GetMessage
  BY <1>1, <1>3, <1>14 DEF GetMessage
<1>15. CASE TryPut
  <2>1. queue' \in Seq(Nat) /\ Len(queue') <= Cap
    <3>1. CASE Len(queue) < Cap /\ queue' = Append(queue, hand)
      BY <1>1, <1>5, <3>1
    <3>2. CASE queue' = queue
      BY <1>1, <3>2
    <3> QED
      BY <1>15, <3>1, <3>2 DEF TryPut
  <2>2. UNCHANGED <<published, peers, since, wire, received, faults, hand>>
    BY <1>15 DEF TryPut
  <2> QED
    BY <1>1, <2>1, <2>2
<1>16. CASE DropOldest
  BY <1>1, <1>2, <1>16 DEF DropOldest
<1>17. CASE GetFails \/ BeginClose \/ PublishCloseFails
  BY <1>1, <1>4, <1>17 DEF GetFails, BeginClose, PublishCloseFails
<1>18. CASE UnblockConsumer \/ RetryUnblock
  <2>1. queue' \in Seq(Nat) /\ Len(queue') <= Cap
    <3>1. CASE Len(queue) < Cap /\ queue' = Append(queue, SigClose)
      BY <1>1, <1>5, <1>6, <3>1
    <3>2. CASE queue' = queue
      BY <1>1, <3>2
    <3> QED
      BY <1>18, <3>1, <3>2 DEF UnblockConsumer, RetryUnblock
  <2>2. UNCHANGED <<published, peers, since, wire, received, faults, hand>>
    BY <1>18 DEF UnblockConsumer, RetryUnblock
  <2> QED
    BY <1>1, <2>1, <2>2
<1>19. CASE MakeRoom
  BY <1>1, <1>2, <1>19 DEF MakeRoom
<1>20. CASE PublishCloseEvent
  BY <1>1, <1>5, <1>6, <1>20 DEF PublishCloseEvent, Broadcast
<1>21. CASE UNCHANGED vars
  BY <1>1, <1>21 DEF vars
<1> QED
  BY <1>7, <1>8, <1>9, <1>10, <1>11, <1>12, <1>13, <1>14, <1>15, <1>16, <1>17, <1>18, <1>19,
     <1>20, <1>21 DEF Next, Consume, Listen, Close

(* Every step keeps the types and the size of the queue.                   *)
LEMMA TypeStep == TypeOK /\ [Next]_vars => TypeOK'
<1> SUFFICES ASSUME TypeOK, [Next]_vars PROVE TypeOK'
  OBVIOUS
<1>1. closed' \in BOOLEAN /\ dropped' \in BOOLEAN
  BY FlagStep DEF TypeOK
<1> QED
  BY <1>1, ControlStep, DataStep DEF TypeOK

(* A step that empties places, or adds nothing but SIG_CLOSE, keeps the    *)
(* order between them.                                                     *)
LEMMA OrderShrinks ==
  ASSUME PipeInOrder, Increasing(received)', Increasing(queue)', Increasing(wire)',
         PayloadsOf(received)' \subseteq PayloadsOf(received),
         PayloadsOf(queue)' \subseteq PayloadsOf(queue),
         HeldPayload' \subseteq HeldPayload,
         PayloadsOf(wire)' \subseteq PayloadsOf(wire),
         UNCHANGED <<since, published>>
  PROVE  PipeInOrder'
<1>1. Accounted' \subseteq Accounted
  BY DEF Accounted
<1>2. \A m \in Accounted' : since' < m /\ m <= published'
  BY <1>1 DEF PipeInOrder
<1>3. /\ Before(PayloadsOf(received), PayloadsOf(queue))'
      /\ Before(PayloadsOf(received), HeldPayload)'
      /\ Before(PayloadsOf(received), PayloadsOf(wire))'
      /\ Before(PayloadsOf(queue), HeldPayload)'
      /\ Before(PayloadsOf(queue), PayloadsOf(wire))'
      /\ Before(HeldPayload, PayloadsOf(wire))'
  BY DEF PipeInOrder, Before
<1> QED
  BY <1>2, <1>3 DEF PipeInOrder

(* What a step that publishes nothing has to show.                         *)
LEMMA StepWithinPipe ==
  ASSUME PipeInv, PipeInOrder', Accounted' \subseteq Accounted,
         UNCHANGED <<since, published, link>>,
         \/ closed' \/ dropped' \/ listener' = "cleanup"
         \/ Accounted' = Accounted /\ ~closed /\ ~dropped /\ listener # "cleanup",
         consumer' = "new" => consumer = "new" /\ listener' = listener,
         closer' # "open" => closed'
  PROVE  Phases' /\ PipeInOrder' /\ NothingLostSilently'
<1>1. Phases'
  BY DEF PipeInv, Phases
<1>2. NothingLostSilently'
  BY DEF PipeInv, NothingLostSilently
<1> QED
  BY <1>1, <1>2

(* Steps that move no message: tests of _closed, timeouts, the entry of    *)
(* receive() and close(), errors.                                          *)
LEMMA QuietStep ==
  ASSUME PipeInv,
         \/ BeginReceive \/ ReceiveRefused \/ ReceiveTimesOut \/ LoopTop \/ GetTimesOut
         \/ GetFails \/ CheckClosed \/ PutLoop \/ BeginClose \/ PublishCloseFails
  PROVE  Phases' /\ PipeInOrder' /\ NothingLostSilently'
<1> USE DEF redis
<1>1. UNCHANGED <<since, published, link, received, queue, wire, hand, dropped>>
  BY DEF BeginReceive, ReceiveRefused, ReceiveTimesOut, LoopTop, GetTimesOut, GetFails,
         CheckClosed, PutLoop, BeginClose, PublishCloseFails
<1>2. Holding' => Holding
  BY DEF BeginReceive, ReceiveRefused, ReceiveTimesOut, LoopTop, GetTimesOut, GetFails,
         CheckClosed, PutLoop, BeginClose, PublishCloseFails, Holding, AfterPut
<1>3. HeldPayload' \subseteq HeldPayload
  BY <1>1, <1>2 DEF HeldPayload
<1>4. PipeInOrder'
  <2>1. Increasing(received)' /\ Increasing(queue)' /\ Increasing(wire)'
    BY <1>1 DEF PipeInv, PipeInOrder
  <2>2. /\ PayloadsOf(received)' = PayloadsOf(received)
        /\ PayloadsOf(queue)' = PayloadsOf(queue) /\ PayloadsOf(wire)' = PayloadsOf(wire)
    BY <1>1
  <2>3. PipeInOrder
    BY DEF PipeInv
  <2> QED
    BY <1>1, <1>3, <2>1, <2>2, <2>3, OrderShrinks
<1>5. Accounted' \subseteq Accounted
  BY <1>1, <1>3 DEF Accounted
<1>6. \/ closed' \/ dropped' \/ listener' = "cleanup"
      \/ Accounted' = Accounted /\ ~closed /\ ~dropped /\ listener # "cleanup"
  <2> SUFFICES ASSUME ~closed', ~dropped', listener' # "cleanup"
               PROVE  Accounted' = Accounted /\ ~closed /\ ~dropped /\ listener # "cleanup"
    OBVIOUS
  <2>1. ~closed /\ listener # "cleanup" /\ (Holding' <=> Holding)
    BY DEF BeginReceive, ReceiveRefused, ReceiveTimesOut, LoopTop, GetTimesOut, GetFails,
           CheckClosed, PutLoop, BeginClose, PublishCloseFails, Holding, AfterPut
  <2>2. HeldPayload' = HeldPayload
    BY <1>1, <2>1 DEF HeldPayload
  <2> QED
    BY <1>1, <2>1, <2>2 DEF Accounted
<1>7. consumer' = "new" => consumer = "new" /\ listener' = listener
  BY DEF BeginReceive, ReceiveRefused, ReceiveTimesOut, LoopTop, GetTimesOut, GetFails,
         CheckClosed, PutLoop, BeginClose, PublishCloseFails, PipeInv, Phases
<1>8. closer' # "open" => closed'
  BY DEF BeginReceive, ReceiveRefused, ReceiveTimesOut, LoopTop, GetTimesOut, GetFails,
         CheckClosed, PutLoop, BeginClose, PublishCloseFails, PipeInv, Phases
<1> QED
  BY <1>1, <1>4, <1>5, <1>6, <1>7, <1>8, StepWithinPipe

(* SIG_CLOSE carries no payload and can be appended anywhere.              *)
LEMMA AppendSigClose ==
  ASSUME NEW s \in Seq(Nat), Increasing(s)
  PROVE  PayloadsOf(Append(s, SigClose)) = PayloadsOf(s) /\ Increasing(Append(s, SigClose))
<1>1. SigClose \in Nat /\ {SigClose} \ {SigClose} = {}
  BY DEF SigClose
<1>2. Before(PayloadsOf(s), {SigClose} \ {SigClose})
  BY <1>1 DEF Before
<1>3. PayloadsOf(Append(s, SigClose)) = PayloadsOf(s) \cup ({SigClose} \ {SigClose})
  BY <1>1, PayloadsAppend
<1>4. PayloadsOf(Append(s, SigClose)) = PayloadsOf(s)
  BY <1>1, <1>3
<1>5. Increasing(Append(s, SigClose))
  BY <1>1, <1>2, IncreasingAppend
<1> QED
  BY <1>4, <1>5

(* Removing the oldest item adds nothing and keeps the order.              *)
LEMMA RemoveOldest ==
  ASSUME NEW s \in Seq(Nat), s # <<>>, Increasing(s)
  PROVE  PayloadsOf(Tail(s)) \subseteq PayloadsOf(s) /\ Increasing(Tail(s))
  BY PayloadsTail, IncreasingTail

(* What close() and the iterator do to the queue of a closed subscription. *)
LEMMA ClosedQueueStep ==
  ASSUME PipeInv, UnblockConsumer \/ MakeRoom \/ RetryUnblock \/ IteratorEnds
  PROVE  Phases' /\ PipeInOrder' /\ NothingLostSilently'
<1> USE DEF redis
<1>1. /\ UNCHANGED <<since, published, link, received, wire, hand, listener>>
      /\ closed' /\ (consumer' = "new" => consumer = "new")
  BY DEF UnblockConsumer, MakeRoom, RetryUnblock, IteratorEnds, PipeInv, Phases
<1>2. queue \in Seq(Nat) /\ Increasing(queue) /\ PipeInOrder
  BY DEF PipeInv, TypeOK, PipeInOrder
<1>3. \/ queue' = queue
      \/ queue' = Append(queue, SigClose)
      \/ queue # <<>> /\ queue' = Tail(queue)
  BY DEF UnblockConsumer, MakeRoom, RetryUnblock, IteratorEnds
<1>4. PayloadsOf(queue') \subseteq PayloadsOf(queue) /\ Increasing(queue')
  BY <1>2, <1>3, AppendSigClose, RemoveOldest
<1>5. /\ PayloadsOf(received)' = PayloadsOf(received) /\ PayloadsOf(wire)' = PayloadsOf(wire)
      /\ HeldPayload' = HeldPayload /\ Increasing(received)' /\ Increasing(wire)'
  BY <1>1, <1>2 DEF HeldPayload, Holding, PipeInOrder
<1>6. PipeInOrder'
  BY <1>1, <1>2, <1>4, <1>5, OrderShrinks
<1>7. Accounted' \subseteq Accounted
  BY <1>4, <1>5 DEF Accounted
<1> QED
  BY <1>1, <1>6, <1>7, StepWithinPipe

(* The listener drops the oldest item: the loss is on record.              *)
LEMMA DropOldestStep ==
  ASSUME PipeInv, DropOldest
  PROVE  Phases' /\ PipeInOrder' /\ NothingLostSilently'
<1> USE DEF redis
<1>1. /\ UNCHANGED <<since, published, link, received, wire, hand, consumer, closed, closer>>
      /\ listener = "drop" /\ listener' = "put"
  BY DEF DropOldest
<1>2. queue \in Seq(Nat) /\ Increasing(queue) /\ PipeInOrder
  BY DEF PipeInv, TypeOK, PipeInOrder
<1>3. \/ queue' = queue /\ dropped' = dropped
      \/ queue # <<>> /\ queue' = Tail(queue) /\ dropped'
  BY DEF DropOldest
<1>4. PayloadsOf(queue') \subseteq PayloadsOf(queue) /\ Increasing(queue')
  BY <1>2, <1>3, RemoveOldest
<1>5. /\ PayloadsOf(received)' = PayloadsOf(received) /\ PayloadsOf(wire)' = PayloadsOf(wire)
      /\ HeldPayload' = HeldPayload /\ Increasing(received)' /\ Increasing(wire)'
  BY <1>1, <1>2 DEF HeldPayload, Holding, PipeInOrder
<1>6. PipeInOrder'
  BY <1>1, <1>2, <1>4, <1>5, OrderShrinks
<1>7. Accounted' \subseteq Accounted
  BY <1>4, <1>5 DEF Accounted
<1>8. \/ closed' \/ dropped'
      \/ Accounted' = Accounted /\ ~closed /\ ~dropped /\ listener # "cleanup"
  BY <1>1, <1>3, <1>5 DEF Accounted
<1>9. consumer' = "new" => consumer = "new" /\ listener' = listener
  BY <1>1 DEF PipeInv, Phases
<1>10. closer' # "open" => closed'
  BY <1>1 DEF PipeInv, Phases
<1> QED
  BY <1>1, <1>6, <1>7, <1>8, <1>9, <1>10, StepWithinPipe

(* A SIG_CLOSE on the wire, this subscription's or a peer's.               *)
LEMMA SigCloseStep ==
  ASSUME PipeInv, PeerCloses \/ PublishCloseEvent
  PROVE  Phases' /\ PipeInOrder' /\ NothingLostSilently'
<1> USE DEF redis
<1>1. UNCHANGED <<since, published, link, received, queue, hand, listener, consumer, closed, dropped>>
  BY DEF PeerCloses, PublishCloseEvent
<1>2. wire \in Seq(Nat) /\ Increasing(wire) /\ PipeInOrder
  BY DEF PipeInv, TypeOK, PipeInOrder
<1>3. wire' = wire \/ wire' = Append(wire, SigClose)
  BY DEF PeerCloses, PublishCloseEvent, Broadcast
<1>4. PayloadsOf(wire') = PayloadsOf(wire) /\ Increasing(wire')
  BY <1>2, <1>3, AppendSigClose
<1>5. /\ PayloadsOf(received)' = PayloadsOf(received) /\ PayloadsOf(queue)' = PayloadsOf(queue)
      /\ HeldPayload' = HeldPayload /\ Increasing(received)' /\ Increasing(queue)'
  BY <1>1, <1>2 DEF HeldPayload, Holding, PipeInOrder
<1>6. PipeInOrder'
  BY <1>1, <1>2, <1>4, <1>5, OrderShrinks
<1>7. Accounted' = Accounted
  BY <1>4, <1>5 DEF Accounted
<1>8. closer' # "open" => closed'
  BY DEF PeerCloses, PublishCloseEvent, PipeInv, Phases
<1> QED
  BY <1>1, <1>6, <1>7, <1>8, StepWithinPipe

(* The end of the listener throws away what is still on the wire.          *)
LEMMA CleanupStep ==
  ASSUME PipeInv, Cleanup
  PROVE  Phases' /\ PipeInOrder' /\ NothingLostSilently'
<1>1. /\ UNCHANGED <<since, published, received, queue, hand, consumer, closed, closer>>
      /\ wire' = <<>> /\ link' = "gone" /\ listener = "cleanup" /\ listener' = "dead"
  BY DEF Cleanup
<1>2. PayloadsOf(<<>>) = {} /\ Increasing(<<>>)
  BY DEF PayloadsOf, Increasing
<1>3. PipeInOrder
  BY DEF PipeInv
<1>4. /\ PayloadsOf(received)' = PayloadsOf(received) /\ PayloadsOf(queue)' = PayloadsOf(queue)
      /\ HeldPayload' = HeldPayload /\ Increasing(received)' /\ Increasing(queue)'
  BY <1>1, <1>3 DEF HeldPayload, Holding, PipeInOrder
<1>5. PipeInOrder'
  BY <1>1, <1>2, <1>3, <1>4, OrderShrinks
<1>6. NothingLostSilently' /\ Phases'
  BY <1>1 DEF NothingLostSilently, PipeInv, Phases
<1> QED
  BY <1>5, <1>6

(* SUBSCRIBE is sent, and takes effect: the pipe is still empty.           *)
LEMMA SubscribeStep ==
  ASSUME PipeInv, Start \/ SubscribeTakesEffect
  PROVE  Phases' /\ PipeInOrder' /\ NothingLostSilently'
<1>1. UNCHANGED <<published, received, queue, wire, hand, closed, closer>>
  BY DEF Start, SubscribeTakesEffect
<1>2. Accounted = {} /\ PipeInOrder /\ published \in Nat /\ since \in Nat
  BY DEF Start, SubscribeTakesEffect, PipeInv, Phases, TypeOK
<1>3. HeldPayload' = HeldPayload
  BY <1>1 DEF Start, SubscribeTakesEffect, PipeInv, Phases, HeldPayload, Holding
<1>4. /\ PayloadsOf(received)' = PayloadsOf(received) /\ PayloadsOf(queue)' = PayloadsOf(queue)
      /\ PayloadsOf(wire)' = PayloadsOf(wire)
      /\ Increasing(received)' /\ Increasing(queue)' /\ Increasing(wire)'
  BY <1>1, <1>2 DEF PipeInOrder
<1>5. Accounted' = {}
  BY <1>2, <1>3, <1>4 DEF Accounted
<1>6. since' <= published'
  BY <1>1, <1>2 DEF Start, SubscribeTakesEffect, PipeInOrder
<1>7. PipeInOrder'
  BY <1>4, <1>5, <1>6 DEF PipeInOrder, Accounted, Before
<1>8. Phases'
  BY <1>1, <1>5 DEF Start, SubscribeTakesEffect, PipeInv, Phases
<1>9. NothingLostSilently'
  <2>1. CASE Start
    BY <2>1 DEF Start, NothingLostSilently
  <2>2. CASE SubscribeTakesEffect
    <3>1. (since' + 1)..published' = {}
      BY <1>1, <1>2, <2>2 DEF SubscribeTakesEffect
    <3> QED
      BY <1>5, <3>1 DEF NothingLostSilently
  <2> QED
    BY <2>1, <2>2
<1> QED
  BY <1>7, <1>8, <1>9

(* A new payload is newer than everything in the pipe.                     *)
LEMMA PublishStep ==
  ASSUME PipeInv, Publish
  PROVE  Phases' /\ PipeInOrder' /\ NothingLostSilently'
<1>1. /\ UNCHANGED <<since, link, received, queue, hand, listener, consumer, closed, closer, dropped>>
      /\ published' = published + 1
  BY DEF Publish
<1>2. PipeInOrder /\ wire \in Seq(Nat) /\ published \in Nat /\ since \in Nat
  BY DEF PipeInv, TypeOK
<1>3. /\ PayloadsOf(received)' = PayloadsOf(received) /\ PayloadsOf(queue)' = PayloadsOf(queue)
      /\ HeldPayload' = HeldPayload /\ Increasing(received)' /\ Increasing(queue)'
  BY <1>1, <1>2 DEF HeldPayload, Holding, PipeInOrder
<1>4. \A m \in Accounted : since < m /\ m < published + 1 /\ m \in Nat
  <2>1. Accounted \subseteq Nat
    BY DEF Accounted, PayloadsOf, HeldPayload, PipeInv, TypeOK
  <2> QED
    BY <1>2, <2>1 DEF PipeInOrder
<1>5. CASE link = "active"
  <2>1. wire' = Append(wire, published + 1)
    BY <1>5 DEF Publish, Broadcast
  <2>2. {published + 1} \ {SigClose} = {published + 1}
    BY <1>2 DEF SigClose
  <2>3. PayloadsOf(wire') = PayloadsOf(wire) \cup {published + 1}
    BY <1>2, <2>1, <2>2, PayloadsAppend
  <2>4. Before(PayloadsOf(wire), {published + 1})
    BY <1>4 DEF Before, Accounted
  <2>5. Increasing(wire')
    <3>1. Increasing(wire) /\ published + 1 \in Nat
      BY <1>2 DEF PipeInOrder
    <3>2. Before(PayloadsOf(wire), {published + 1} \ {SigClose})
      BY <2>2, <2>4
    <3> QED
      BY <1>2, <2>1, <3>1, <3>2, IncreasingAppend
  <2>6. Accounted' = Accounted \cup {published + 1}
    BY <1>3, <2>3 DEF Accounted
  <2>7. since' <= published' /\ \A m \in Accounted' : since' < m /\ m <= published'
    BY <1>1, <1>2, <1>4, <2>6 DEF PipeInOrder
  <2>8. /\ Before(PayloadsOf(received), PayloadsOf(wire))'
        /\ Before(PayloadsOf(queue), PayloadsOf(wire))'
        /\ Before(HeldPayload, PayloadsOf(wire))'
    <3>1. \A m \in PayloadsOf(received) \cup PayloadsOf(queue) \cup HeldPayload : m < published + 1
      BY <1>4 DEF Accounted
    <3> QED
      BY <1>2, <1>3, <2>3, <3>1 DEF Before, PipeInOrder
  <2>9. /\ Before(PayloadsOf(received), PayloadsOf(queue))'
        /\ Before(PayloadsOf(received), HeldPayload)'
        /\ Before(PayloadsOf(queue), HeldPayload)'
    BY <1>2, <1>3 DEF PipeInOrder
  <2>10. PipeInOrder'
    BY <1>3, <2>5, <2>7, <2>8, <2>9 DEF PipeInOrder
  <2>11. NothingLostSilently'
    <3>1. since <= published
      BY <1>2 DEF PipeInOrder
    <3>2. (since + 1)..(published + 1) = ((since + 1)..published) \cup {published + 1}
      BY <1>2, <3>1
    <3> QED
      BY <1>1, <2>6, <3>2 DEF PipeInv, NothingLostSilently
  <2>12. Phases'
    BY <1>1, <1>5 DEF PipeInv, Phases
  <2> QED
    BY <2>10, <2>11, <2>12
<1>6. CASE link # "active"
  <2>1. wire' = wire
    BY <1>6 DEF Publish, Broadcast
  <2>2. Accounted' = Accounted /\ Increasing(wire)' /\ PayloadsOf(wire)' = PayloadsOf(wire)
    BY <1>2, <1>3, <2>1 DEF Accounted, PipeInOrder
  <2>3. since' <= published' /\ \A m \in Accounted' : since' < m /\ m <= published'
    BY <1>1, <1>2, <1>4, <2>2 DEF PipeInOrder
  <2>4. PipeInOrder'
    BY <1>2, <1>3, <2>2, <2>3 DEF PipeInOrder
  <2>5. Phases' /\ NothingLostSilently'
    BY <1>1, <1>6, <2>2 DEF PipeInv, Phases, NothingLostSilently
  <2> QED
    BY <2>4, <2>5
<1> QED
  BY <1>5, <1>6

(* From the wire to the listener's hand.                                   *)
LEMMA GetMessageStep ==
  ASSUME PipeInv, GetMessage
  PROVE  Phases' /\ PipeInOrder' /\ NothingLostSilently'
<1>1. /\ UNCHANGED <<since, published, link, received, queue, consumer, closed, closer, dropped>>
      /\ wire # <<>> /\ wire' = Tail(wire) /\ hand' = Head(wire)
      /\ listener = "get" /\ listener' = "got"
  BY DEF GetMessage
<1>2. PipeInOrder /\ wire \in Seq(Nat) /\ Increasing(wire)
  BY DEF PipeInv, TypeOK, PipeInOrder
<1>3. HeldPayload = {} /\ HeldPayload' = {Head(wire)} \ {SigClose}
  BY <1>1 DEF HeldPayload, Holding
<1>4. PayloadsOf(wire) = HeldPayload' \cup PayloadsOf(wire')
  BY <1>1, <1>2, <1>3, PayloadsTail
<1>5. Increasing(wire') /\ Before(HeldPayload', PayloadsOf(wire'))
  BY <1>1, <1>2, <1>3, IncreasingTail
<1>6. Accounted' = Accounted
  BY <1>1, <1>3, <1>4 DEF Accounted
<1>7. PipeInOrder'
  <2>1. /\ Before(PayloadsOf(received), HeldPayload)'
        /\ Before(PayloadsOf(received), PayloadsOf(wire))'
        /\ Before(PayloadsOf(queue), HeldPayload)'
        /\ Before(PayloadsOf(queue), PayloadsOf(wire))'
    BY <1>1, <1>2, <1>4 DEF PipeInOrder, Before
  <2> QED
    BY <1>1, <1>2, <1>5, <1>6, <2>1 DEF PipeInOrder
<1>8. /\ closer' # "open" => closed'
      /\ consumer' = "new" => consumer = "new" /\ listener' = listener
      /\ closed' \/ dropped' \/ (~closed /\ ~dropped /\ listener # "cleanup")
  BY <1>1 DEF PipeInv, Phases
<1> QED
  BY <1>1, <1>6, <1>7, <1>8, StepWithinPipe

(* From the listener's hand to the queue.                                  *)
LEMMA TryPutStep ==
  ASSUME PipeInv, TryPut
  PROVE  Phases' /\ PipeInOrder' /\ NothingLostSilently'
<1> USE DEF redis
<1>1. /\ UNCHANGED <<since, published, link, received, wire, hand, consumer, closed, closer, dropped>>
      /\ listener = "try"
  BY DEF TryPut
<1>2. PipeInOrder /\ queue \in Seq(Nat) /\ hand \in Nat /\ Increasing(queue)
  BY DEF PipeInv, TypeOK, PipeInOrder
<1>3. HeldPayload = {hand} \ {SigClose}
  BY <1>1 DEF HeldPayload, Holding
<1>4. PipeInOrder' /\ Accounted' = Accounted
  <2>1. CASE queue' = Append(queue, hand) /\ listener' = AfterPut
    <3>1. HeldPayload' = {}
      BY <2>1 DEF HeldPayload, Holding, AfterPut
    <3>2. PayloadsOf(queue') = PayloadsOf(queue) \cup HeldPayload
      BY <1>2, <1>3, <2>1, PayloadsAppend
    <3>3. Increasing(queue')
      BY <1>2, <1>3, <2>1, IncreasingAppend DEF PipeInOrder
    <3>4. Accounted' = Accounted
      BY <1>1, <3>1, <3>2 DEF Accounted
    <3>5. /\ Before(PayloadsOf(received), PayloadsOf(queue))'
          /\ Before(PayloadsOf(queue), PayloadsOf(wire))'
          /\ Before(PayloadsOf(received), HeldPayload)'
          /\ Before(PayloadsOf(queue), HeldPayload)'
          /\ Before(HeldPayload, PayloadsOf(wire))'
      BY <1>1, <1>2, <3>1, <3>2 DEF PipeInOrder, Before
    <3> QED
      BY <1>1, <1>2, <3>3, <3>4, <3>5 DEF PipeInOrder
  <2>2. CASE queue' = queue /\ listener' = "drop"
    <3>1. HeldPayload' = HeldPayload
      BY <1>1, <2>2 DEF HeldPayload, Holding
    <3>2. Accounted' = Accounted
      BY <1>1, <2>2, <3>1 DEF Accounted
    <3> QED
      BY <1>1, <1>2, <2>2, <3>1, <3>2 DEF PipeInOrder
  <2> QED
    BY <2>1, <2>2 DEF TryPut
<1>5. /\ closer' # "open" => closed'
      /\ consumer' = "new" => consumer = "new" /\ listener' = listener
      /\ closed' \/ dropped' \/ (~closed /\ ~dropped /\ listener # "cleanup")
  BY <1>1 DEF PipeInv, Phases
<1> QED
  BY <1>1, <1>4, <1>5, StepWithinPipe

(* From the queue to the consumer.                                         *)
LEMMA TakeItemStep ==
  ASSUME PipeInv, TakeItem
  PROVE  Phases' /\ PipeInOrder' /\ NothingLostSilently'
<1> USE DEF redis
<1>1. /\ UNCHANGED <<since, published, link, wire, hand, listener, closed, closer, dropped>>
      /\ queue # <<>> /\ queue' = Tail(queue) /\ received' = Append(received, Head(queue))
      /\ consumer' = "idle"
  BY DEF TakeItem
<1>2. /\ PipeInOrder /\ queue \in Seq(Nat) /\ received \in Seq(Nat)
      /\ Increasing(queue) /\ Increasing(received)
  BY DEF PipeInv, TypeOK, PipeInOrder
<1> DEFINE taken == {Head(queue)} \ {SigClose}
<1>3. Head(queue) \in Nat /\ PayloadsOf(queue) = taken \cup PayloadsOf(queue')
  BY <1>1, <1>2, PayloadsTail
<1>4. Increasing(queue') /\ Before(taken, PayloadsOf(queue'))
  BY <1>1, <1>2, IncreasingTail
<1>5. PayloadsOf(received') = PayloadsOf(received) \cup taken
  BY <1>1, <1>2, <1>3, PayloadsAppend
<1>6. Before(PayloadsOf(received), taken)
  BY <1>2, <1>3 DEF PipeInOrder, Before
<1>7. Increasing(received')
  BY <1>1, <1>2, <1>3, <1>6, IncreasingAppend
<1>8. HeldPayload' = HeldPayload
  BY <1>1 DEF HeldPayload, Holding
<1> HIDE DEF taken
<1>9. Accounted' = Accounted
  BY <1>1, <1>3, <1>5, <1>8 DEF Accounted
<1>10. PipeInOrder'
  <2>1. Before(PayloadsOf(received), PayloadsOf(queue))'
    BY <1>2, <1>3, <1>4, <1>5 DEF PipeInOrder, Before
  <2>2. /\ Before(PayloadsOf(received), HeldPayload)'
        /\ Before(PayloadsOf(received), PayloadsOf(wire))'
        /\ Before(PayloadsOf(queue), HeldPayload)'
        /\ Before(PayloadsOf(queue), PayloadsOf(wire))'
        /\ Before(HeldPayload, PayloadsOf(wire))'
    BY <1>1, <1>2, <1>3, <1>5, <1>8 DEF PipeInOrder, Before
  <2> QED
    BY <1>1, <1>2, <1>4, <1>7, <1>9, <2>1, <2>2 DEF PipeInOrder
<1>11. closer' # "open" => closed'
  BY <1>1 DEF PipeInv, Phases
<1>12. \/ closed' \/ dropped' \/ listener' = "cleanup"
       \/ ~closed /\ ~dropped /\ listener # "cleanup"
  BY <1>1
<1> QED
  BY <1>1, <1>9, <1>10, <1>11, <1>12, StepWithinPipe

(* Every step keeps the invariant.                                         *)
LEMMA PipeStep == PipeInv /\ [Next]_vars => PipeInv'
<1> SUFFICES ASSUME PipeInv, [Next]_vars PROVE PipeInv'
  OBVIOUS
<1>1. TypeOK'
  BY TypeStep DEF PipeInv
<1>2. Phases' /\ PipeInOrder' /\ NothingLostSilently'
  <2>1. CASE Publish
    BY <2>1, PublishStep
  <2>2. CASE PeerCloses \/ PublishCloseEvent
    BY <2>2, SigCloseStep
  <2>3. CASE SubscribeTakesEffect \/ Start
    BY <2>3, SubscribeStep
  <2>4. CASE TakeItem
    BY <2>4, TakeItemStep
  <2>5. CASE GetMessage
    BY <2>5, GetMessageStep
  <2>6. CASE TryPut
    BY <2>6, TryPutStep
  <2>7. CASE DropOldest
    BY <2>7, DropOldestStep
  <2>8. CASE Cleanup
    BY <2>8, CleanupStep
  <2>9. CASE UnblockConsumer \/ MakeRoom \/ RetryUnblock \/ IteratorEnds
    BY <2>9, ClosedQueueStep
  <2>10. CASE \/ BeginReceive \/ ReceiveRefused \/ ReceiveTimesOut \/ LoopTop \/ GetTimesOut
              \/ GetFails \/ CheckClosed \/ PutLoop \/ BeginClose \/ PublishCloseFails
    BY <2>10, QuietStep
  <2>11. CASE UNCHANGED vars
    BY <2>11 DEF vars, PipeInv, Phases, PipeInOrder, NothingLostSilently, Accounted, HeldPayload,
                 Holding
  <2> QED
    BY <2>1, <2>2, <2>3, <2>4, <2>5, <2>6, <2>7, <2>8, <2>9, <2>10, <2>11
    DEF Next, Consume, Listen, Close
<1> QED
  BY <1>1, <1>2 DEF PipeInv

(* Every reachable state is well typed and the queue within its maxsize.   *)
THEOREM TypeCorrect == Spec => []TypeOK
<1>1. PipeInv => TypeOK
  BY DEF PipeInv
<1> QED
  BY PipeInit, PipeStep, <1>1, PTL DEF Spec

(* receive() returns each payload at most once, in order, and none from    *)
(* before the subscription, for any queue size and any number of messages. *)
THEOREM DeliveryAtMostOnce == Spec => []AtMostOnceInOrder
<1>1. PipeInv => AtMostOnceInOrder
  BY DEF PipeInv, PipeInOrder, AtMostOnceInOrder, Accounted
<1> QED
  BY PipeInit, PipeStep, <1>1, PTL DEF Spec

(* A living listener of an open subscription loses a payload only by an    *)
(* overflow of the queue.                                                  *)
THEOREM LossOnlyByOverflow == Spec => []NothingLostSilently
<1>1. PipeInv => NothingLostSilently
  BY DEF PipeInv
<1> QED
  BY PipeInit, PipeStep, <1>1, PTL DEF Spec
=============================================================================
