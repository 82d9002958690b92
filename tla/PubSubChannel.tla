----------------------------- MODULE PubSubChannel -----------------------------
(***************************************************************************)
(* The broadcast channel over Redis PUBLISH/SUBSCRIBE that carries the     *)
(* events of a workflow run from the worker to every open event stream     *)
(* (api/libs/broadcast_channel/redis: _subscription.py, pubsub_channel.py, *)
(* sharded_channel.py).                                                    *)
(*                                                                         *)
(* One subscription to one topic.  Three threads meet in it: the listener  *)
(* it starts, the consumer that calls receive() or iterates, and whoever   *)
(* calls close() (the buffering thread and the response generator of       *)
(* workflow_event_snapshot_service.py).  The other subscriptions to the    *)
(* topic share nothing with it but the topic, so all they can do to it is  *)
(* to publish the SIG_CLOSE of their own close().  A step is one test of   *)
(* _closed, one queue operation, one critical section under _start_lock or *)
(* one Redis command.                                                      *)
(***************************************************************************)
EXTENDS Naturals, Sequences

CONSTANTS
    Cap,           \* maxsize of the subscription's queue (1024)
    MaxMessages,   \* bound on the published messages
    MaxPeers,      \* bound on the other subscriptions that close
    MaxFaults      \* bound on failing Redis calls

ASSUME CapAssumption == Cap \in Nat \ {0}
ASSUME MaxMessagesAssumption == MaxMessages \in Nat
ASSUME MaxPeersAssumption == MaxPeers \in Nat
ASSUME MaxFaultsAssumption == MaxFaults \in Nat

(* SIG_CLOSE travels with the payloads, which are numbered from 1.         *)
SigClose == 0

VARIABLES
    published,  \* how many payloads the topic has carried
    peers,      \* other subscriptions closed so far
    link,       \* "none", SUBSCRIBE "sent", "active" in Redis, "gone"
    since,      \* payloads published before SUBSCRIBE took effect
    wire,       \* sent by Redis, not yet read by the listener
    listener,   \* where _listen is; "none" until _started
    hand,       \* the message _listen is holding
    queue,      \* _queue
    dropped,    \* _dropped_count > 0
    consumer,   \* where receive() is
    received,   \* what receive() has returned
    closed,     \* the _closed event
    closer,     \* where close() is
    faults      \* failed Redis calls so far

redis == <<published, peers, link, since, wire>>
vars == <<published, peers, link, since, wire, listener, hand, queue,
          dropped, consumer, received, closed, closer, faults>>

ListenerStates == {"none", "top", "get", "got", "put", "try", "drop", "cleanup", "dead"}
ConsumerStates == {"new", "idle", "waiting", "ended"}
CloserStates == {"open", "unblock", "make_room", "retry", "publish", "done"}

Init ==
    /\ published = 0
    /\ peers = 0
    /\ link = "none"
    /\ since = 0
    /\ wire = <<>>
    /\ listener = "none"
    /\ hand = SigClose
    /\ queue = <<>>
    /\ dropped = FALSE
    /\ consumer = "new"
    /\ received = <<>>
    /\ closed = FALSE
    /\ closer = "open"
    /\ faults = 0

-----------------------------------------------------------------------------
(* Redis and the producer.                                                 *)

(* PUBLISH reaches every connection subscribed at that moment.             *)
Broadcast(m) ==
    wire' = IF link = "active" THEN Append(wire, m) ELSE wire

(* Topic.publish()                                                         *)
Publish ==
    /\ published < MaxMessages
    /\ published' = published + 1
    /\ Broadcast(published + 1)
    /\ UNCHANGED <<peers, link, since, listener, hand, queue, dropped, consumer,
                   received, closed, closer, faults>>

(* close() of another subscription: its _publish_close_event().            *)
PeerCloses ==
    /\ peers < MaxPeers
    /\ peers' = peers + 1
    /\ Broadcast(SigClose)
    /\ UNCHANGED <<published, link, since, listener, hand, queue, dropped,
                   consumer, received, closed, closer, faults>>

(* Redis handles the SUBSCRIBE, which the client sends without waiting.    *)
SubscribeTakesEffect ==
    /\ link = "sent"
    /\ link' = "active"
    /\ since' = published
    /\ UNCHANGED <<published, peers, wire, listener, hand, queue, dropped, consumer,
                   received, closed, closer, faults>>

-----------------------------------------------------------------------------
(* The consumer: __enter__, receive() and the iterator.                    *)

(* _start_if_needed(): SUBSCRIBE and start the listener, under the lock.   *)
Start ==
    /\ consumer = "new"
    /\ ~closed
    /\ consumer' = "idle"
    /\ link' = "sent"
    /\ listener' = "top"
    /\ UNCHANGED <<published, peers, since, wire, hand, queue, dropped, received,
                   closed, closer, faults>>

(* A receive() that goes to the queue without testing _closed.             *)
BeginReceiveUnchecked ==
    /\ consumer = "idle"
    /\ consumer' = "waiting"
    /\ UNCHANGED <<redis, listener, hand, queue, dropped, received, closed,
                   closer, faults>>

(* receive() on an open subscription starts to wait for the queue.         *)
BeginReceive ==
    /\ consumer = "idle"
    /\ ~closed
    /\ consumer' = "waiting"
    /\ UNCHANGED <<redis, listener, hand, queue, dropped, received, closed,
                   closer, faults>>

(* SubscriptionClosedError, or the iterator's loop condition.              *)
ReceiveRefused ==
    /\ consumer \in {"new", "idle"}
    /\ closed
    /\ consumer' = "ended"
    /\ UNCHANGED <<redis, listener, hand, queue, dropped, received, closed,
                   closer, faults>>

(* receive() returns the oldest item, whatever it is.                      *)
TakeItem ==
    /\ consumer = "waiting"
    /\ queue # <<>>
    /\ received' = Append(received, Head(queue))
    /\ queue' = Tail(queue)
    /\ consumer' = "idle"
    /\ UNCHANGED <<redis, listener, hand, dropped, closed, closer, faults>>

(* The iterator throws away what it takes once the subscription is closed. *)
IteratorEnds ==
    /\ consumer = "waiting"
    /\ queue # <<>>
    /\ closed
    /\ queue' = Tail(queue)
    /\ consumer' = "ended"
    /\ UNCHANGED <<redis, listener, hand, dropped, received, closed, closer,
                   faults>>

(* The timeout passes on an empty queue; the caller calls again.           *)
ReceiveTimesOut ==
    /\ consumer = "waiting"
    /\ queue = <<>>
    /\ consumer' = "idle"
    /\ UNCHANGED <<redis, listener, hand, queue, dropped, received, closed,
                   closer, faults>>

-----------------------------------------------------------------------------
(* The listener thread: _listen() and _enqueue_message().                  *)

(* A loop that only ends by a message or an error.                         *)
LoopTopForever ==
    /\ listener = "top"
    /\ listener' = "get"
    /\ UNCHANGED <<redis, hand, queue, dropped, consumer, received, closed,
                   closer, faults>>

(* while not _closed                                                       *)
LoopTop ==
    /\ listener = "top"
    /\ listener' = IF closed THEN "cleanup" ELSE "get"
    /\ UNCHANGED <<redis, hand, queue, dropped, consumer, received, closed,
                   closer, faults>>

(* get_message() returns a message of the topic.                           *)
GetMessage ==
    /\ listener = "get"
    /\ wire # <<>>
    /\ hand' = Head(wire)
    /\ wire' = Tail(wire)
    /\ listener' = "got"
    /\ UNCHANGED <<published, peers, link, since, queue, dropped, consumer, received,
                   closed, closer, faults>>

(* get_message() returns None after a second.                              *)
GetTimesOut ==
    /\ listener = "get"
    /\ wire = <<>>
    /\ listener' = "top"
    /\ UNCHANGED <<redis, hand, queue, dropped, consumer, received, closed,
                   closer, faults>>

(* get_message() raises: the listener gives up, the consumer is not told.  *)
GetFails ==
    /\ listener = "get"
    /\ faults < MaxFaults
    /\ faults' = faults + 1
    /\ listener' = "cleanup"
    /\ UNCHANGED <<redis, hand, queue, dropped, consumer, received, closed,
                   closer>>

(* A message that arrives after close() is not looked at.                  *)
CheckClosed ==
    /\ listener = "got"
    /\ listener' = IF closed THEN "cleanup" ELSE "put"
    /\ UNCHANGED <<redis, hand, queue, dropped, consumer, received, closed,
                   closer, faults>>

(* After _enqueue_message(): a SIG_CLOSE, whoever sent it, ends the loop.  *)
AfterPut == IF hand = SigClose THEN "cleanup" ELSE "top"

(* while not _closed of _enqueue_message()                                 *)
PutLoop ==
    /\ listener = "put"
    /\ listener' = IF closed THEN AfterPut ELSE "try"
    /\ UNCHANGED <<redis, hand, queue, dropped, consumer, received, closed,
                   closer, faults>>

(* A put that gives up on a full queue.                                    *)
TryPutGivesUp ==
    /\ listener = "try"
    /\ queue' = IF Len(queue) < Cap THEN Append(queue, hand) ELSE queue
    /\ listener' = AfterPut
    /\ UNCHANGED <<redis, hand, dropped, consumer, received, closed, closer,
                   faults>>

(* put_nowait()                                                            *)
TryPut ==
    /\ listener = "try"
    /\ \/ /\ Len(queue) < Cap
          /\ queue' = Append(queue, hand)
          /\ listener' = AfterPut
       \/ /\ Len(queue) = Cap
          /\ listener' = "drop"
          /\ UNCHANGED queue
    /\ UNCHANGED <<redis, hand, dropped, consumer, received, closed, closer,
                   faults>>

(* Making room by moving the oldest item to the back.                      *)
DropRotates ==
    /\ listener = "drop"
    /\ queue # <<>>
    /\ queue' = Append(Tail(queue), Head(queue))
    /\ dropped' = TRUE
    /\ listener' = "put"
    /\ UNCHANGED <<redis, hand, consumer, received, closed, closer, faults>>

(* get_nowait() on the full queue; the consumer may have emptied it.       *)
DropOldest ==
    /\ listener = "drop"
    /\ \/ /\ queue # <<>>
          /\ queue' = Tail(queue)
          /\ dropped' = TRUE
       \/ /\ queue = <<>>
          /\ UNCHANGED <<queue, dropped>>
    /\ listener' = "put"
    /\ UNCHANGED <<redis, hand, consumer, received, closed, closer, faults>>

(* _unsubscribe() and pubsub.close(), in the listener's own thread.        *)
Cleanup ==
    /\ listener = "cleanup"
    /\ listener' = "dead"
    /\ link' = "gone"
    /\ wire' = <<>>
    /\ UNCHANGED <<published, peers, since, hand, queue, dropped, consumer, received,
                   closed, closer, faults>>

-----------------------------------------------------------------------------
(* close(), at any time and from any thread.                               *)

(* Under the lock: set _closed, see whether a listener was started.        *)
BeginClose ==
    /\ closer = "open"
    /\ closed' = TRUE
    /\ closer' = IF listener = "none" THEN "publish" ELSE "unblock"
    /\ UNCHANGED <<redis, listener, hand, queue, dropped, consumer, received,
                   faults>>

(* _unblock_message_iterator(): put_nowait(SIG_CLOSE)                      *)
UnblockConsumer ==
    /\ closer = "unblock"
    /\ \/ /\ Len(queue) < Cap
          /\ queue' = Append(queue, SigClose)
          /\ closer' = "publish"
       \/ /\ Len(queue) = Cap
          /\ closer' = "make_room"
          /\ UNCHANGED queue
    /\ UNCHANGED <<redis, listener, hand, dropped, consumer, received, closed,
                   faults>>

(* get_nowait() after queue.Full                                           *)
MakeRoom ==
    /\ closer = "make_room"
    /\ queue' = IF queue = <<>> THEN queue ELSE Tail(queue)
    /\ closer' = "retry"
    /\ UNCHANGED <<redis, listener, hand, dropped, consumer, received, closed,
                   faults>>

(* The second put_nowait(SIG_CLOSE), given up if the queue is full again.  *)
RetryUnblock ==
    /\ closer = "retry"
    /\ queue' = IF Len(queue) < Cap THEN Append(queue, SigClose) ELSE queue
    /\ closer' = "publish"
    /\ UNCHANGED <<redis, listener, hand, dropped, consumer, received, closed,
                   faults>>

(* _publish_close_event(): SIG_CLOSE goes to the whole topic.              *)
PublishCloseEvent ==
    /\ closer = "publish"
    /\ Broadcast(SigClose)
    /\ closer' = "done"
    /\ UNCHANGED <<published, peers, link, since, listener, hand, queue, dropped,
                   consumer, received, closed, faults>>

(* The PUBLISH raises; the exception is logged.                            *)
PublishCloseFails ==
    /\ closer = "publish"
    /\ faults < MaxFaults
    /\ faults' = faults + 1
    /\ closer' = "done"
    /\ UNCHANGED <<redis, listener, hand, queue, dropped, consumer, received,
                   closed>>

-----------------------------------------------------------------------------
Listen ==
    \/ LoopTop
    \/ GetMessage
    \/ GetTimesOut
    \/ CheckClosed
    \/ PutLoop
    \/ TryPut
    \/ DropOldest
    \/ Cleanup

Close ==
    \/ UnblockConsumer
    \/ MakeRoom
    \/ RetryUnblock
    \/ PublishCloseEvent

Consume ==
    \/ BeginReceive
    \/ ReceiveRefused
    \/ TakeItem
    \/ IteratorEnds

Next ==
    \/ Publish
    \/ PeerCloses
    \/ SubscribeTakesEffect
    \/ Start
    \/ ReceiveTimesOut
    \/ Consume
    \/ Listen
    \/ GetFails
    \/ BeginClose
    \/ Close
    \/ PublishCloseFails

(* A listener thread and a close() that has begun run on; a consumer calls *)
(* receive() again, with the one second timeout every caller in the        *)
(* repository passes.  Nothing obliges anybody to publish or to close.     *)
Fairness ==
    /\ WF_vars(Listen)
    /\ WF_vars(Close \/ PublishCloseFails)
    /\ WF_vars(Consume \/ ReceiveTimesOut)

Spec == Init /\ [][Next]_vars

FairSpec == Spec /\ Fairness

-----------------------------------------------------------------------------
(* The values each variable can take; the local queue keeps its maxsize    *)
(* although the listener and close() both put into it.                     *)
TypeOK ==
    /\ published \in Nat /\ peers \in Nat
    /\ link \in {"none", "sent", "active", "gone"}
    /\ since \in Nat
    /\ wire \in Seq(Nat)
    /\ listener \in ListenerStates
    /\ hand \in Nat
    /\ queue \in Seq(Nat)
    /\ Len(queue) <= Cap
    /\ dropped \in BOOLEAN
    /\ consumer \in ConsumerStates
    /\ received \in Seq(Nat)
    /\ closed \in BOOLEAN
    /\ closer \in CloserStates
    /\ faults \in Nat

(* The payloads of a sequence of messages.                                 *)
PayloadsOf(seq) == {seq[i] : i \in DOMAIN seq} \ {SigClose}

(* The listener holds a message it has not yet put.                        *)
Holding == listener \in {"got", "put", "try", "drop"}
HeldPayload == IF Holding THEN {hand} \ {SigClose} ELSE {}

(* The payloads of a sequence come in the order of their publication.      *)
Increasing(seq) ==
    \A i, j \in DOMAIN seq :
        i < j /\ seq[i] # SigClose /\ seq[j] # SigClose => seq[i] < seq[j]

(* "At most once" (pubsub_channel.py, line 20), in order, and nothing from *)
(* before the subscription (channel.py): what receive() returns skips      *)
(* payloads but never repeats or reorders them, although the listener      *)
(* throws the oldest ones away while the consumer takes them.              *)
AtMostOnceInOrder ==
    /\ Increasing(received)
    /\ \A m \in PayloadsOf(received) : since < m /\ m <= published

(* The payloads that are with the consumer or on their way to it.          *)
Accounted ==
    PayloadsOf(received) \cup PayloadsOf(queue) \cup HeldPayload
        \cup PayloadsOf(wire)

(* Every payload published since the subscription took effect is with the  *)
(* consumer, in the queue, with the listener or on the wire, as long as    *)
(* the listener lives, the subscription is open and nothing overflowed.    *)
NothingLostSilently ==
    /\ link = "active" /\ listener # "cleanup"
    /\ ~closed /\ ~dropped
    => Accounted = (since + 1)..published

(* The inductive strengthening of the two.  A payload moves from the wire  *)
(* through the listener's hand and the queue to the consumer, so each      *)
(* place holds older payloads than the ones before it.                     *)
Before(S, T) == \A a \in S, b \in T : a < b

PipeInOrder ==
    /\ Increasing(received) /\ Increasing(queue) /\ Increasing(wire)
    /\ Before(PayloadsOf(received), PayloadsOf(queue))
    /\ Before(PayloadsOf(received), HeldPayload)
    /\ Before(PayloadsOf(received), PayloadsOf(wire))
    /\ Before(PayloadsOf(queue), HeldPayload)
    /\ Before(PayloadsOf(queue), PayloadsOf(wire))
    /\ Before(HeldPayload, PayloadsOf(wire))
    /\ since <= published
    /\ \A m \in Accounted : since < m /\ m <= published

(* Nothing arrives before SUBSCRIBE, and only close() runs close().        *)
Phases ==
    /\ link \in {"none", "sent"} => Accounted = {}
    /\ consumer = "new" => link = "none" /\ listener = "none"
    /\ closer # "open" => closed

PipeInv == TypeOK /\ Phases /\ PipeInOrder /\ NothingLostSilently

(* close() ends the listener thread and releases its Redis connection,     *)
(* whether or not its SIG_CLOSE gets through.                              *)
ListenerReleased ==
    (closed /\ listener # "none") ~> listener = "dead"

(* A consumer that is waiting, or about to wait, when another thread calls *)
(* close() is released.  The SIG_CLOSE that close() puts for it is not     *)
(* enough: a listener that found the queue full may drop that very item    *)
(* after the consumer has emptied the queue.  The timeout of receive() and *)
(* the test of _closed before each call are what it rests on.              *)
ConsumerReleased ==
    (closed /\ consumer # "new") ~> consumer = "ended"

(* "When a publisher publishes a message to a specific topic, all          *)
(* subscription should receive the published message" (channel.py): an     *)
(* open subscription that met neither an overflow nor a Redis error has    *)
(* every later payload or will get it.                                     *)
OpenSubscriptionGetsAll ==
    /\ link \in {"active", "gone"}
    /\ ~closed /\ ~dropped /\ faults = 0
    => Accounted = (since + 1)..published
=============================================================================
