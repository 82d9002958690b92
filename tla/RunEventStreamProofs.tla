-------------------------- MODULE RunEventStreamProofs --------------------------
(***************************************************************************)
(* Proofs about RunEventStream, for any page size, reconnect budget and    *)
(* length of the log: types, and the refinement of EventFeed.              *)
(***************************************************************************)
EXTENDS RunEventStream, TLAPS

(* Appending to a sequence: its type, length, domain and elements.         *)
LEMMA AppendFacts ==
  ASSUME NEW S, NEW seq \in Seq(S), NEW e \in S
  PROVE  /\ Append(seq, e) \in Seq(S)
         /\ Len(Append(seq, e)) = Len(seq) + 1
         /\ Append(seq, e)[Len(seq) + 1] = e
         /\ Append(seq, e) # <<>>
         /\ Len(seq) \in Nat
  OBVIOUS

(* The initial state satisfies the invariant.                              *)
LEMMA StreamInit == Init => StreamInv
  BY BudgetAssumption DEF Init, StreamInv, TypeOK, PageFollowsCursor, LastReceived, Kinds

(* A page read starts after what was sent or after what has expired.       *)
LEMMA PageRead ==
  ASSUME TypeOK, ReadEntries
  PROVE  /\ batch' \in Nat \ {0} /\ sent' \in 0..Len(log)
         /\ batch' > sent /\ batch' <= sent'
         /\ batch' - 1 > sent => batch' - 1 <= gone
         /\ batch' - 1 >= sent
<1>1. Len(log) \in Nat /\ sent \in Nat /\ gone \in Nat
  BY DEF TypeOK
<1> QED
  BY <1>1, PageAssumption DEF ReadEntries, Larger, Smaller, TypeOK

(* A page that follows what was sent follows the cursor as well.           *)
LEMMA BetweenPages ==
  ASSUME NEW first \in Nat, NEW last \in Nat, NEW from \in Nat, NEW seen \in Nat,
         NEW lost \in Nat, first > from, first <= last, seen <= from,
         first - 1 > from => first - 1 <= lost, from > seen => from <= lost
  PROVE  /\ first > seen /\ first <= last + 1
         /\ first - 1 > seen => first - 1 <= lost
<1>1. CASE first - 1 > from
  BY <1>1
<1>2. CASE first - 1 = from
  BY <1>2
<1> QED
  BY <1>1, <1>2

(* Every step keeps the invariant.                                         *)
LEMMA StreamStep == StreamInv /\ [Next]_vars => StreamInv'
<1> SUFFICES ASSUME StreamInv, [Next]_vars PROVE StreamInv'
  OBVIOUS
<1>0. TypeOK /\ PageFollowsCursor /\ Len(log) \in Nat
  BY DEF StreamInv, TypeOK
<1> USE <1>0 DEF StreamInv
<1>1. ASSUME NEW kind \in Kinds, Publish(kind) PROVE StreamInv'
  <2>1. log' \in Seq(Kinds) /\ Len(log') = Len(log) + 1
    BY <1>1, AppendFacts DEF Publish, TypeOK
  <2> QED
    BY <1>1, <2>1 DEF Publish, TypeOK, PageFollowsCursor, LastReceived, server, reader
<1>2. CASE ExpireStream
  BY <1>2 DEF ExpireStream, TypeOK, PageFollowsCursor, LastReceived, server, reader
<1>3. CASE ExpireRecord
  BY <1>3 DEF ExpireRecord, TypeOK, PageFollowsCursor, LastReceived, server, reader
<1>4. CASE OpenStream
  BY <1>4 DEF OpenStream, TypeOK, PageFollowsCursor, LastReceived
<1>5. CASE RunNotFound
  BY <1>5 DEF RunNotFound, TypeOK, PageFollowsCursor, LastReceived, server
<1>6. CASE CheckRecord
  BY <1>6 DEF CheckRecord, Drained, TypeOK, PageFollowsCursor, LastReceived, reader
<1>7. ASSUME conn # "closed", Drained, ReadEntries, conn' \in {"check", "live"},
             UNCHANGED <<log, gone, record, reader>>
      PROVE  StreamInv'
  <2>1. batch = sent + 1
    BY <1>7 DEF Drained, PageFollowsCursor, TypeOK
  <2>2. TypeOK'
    BY <1>7, PageRead DEF TypeOK, reader
  <2>3. /\ batch' \in Nat \ {0} /\ sent' \in Nat /\ batch' > sent /\ batch' <= sent'
        /\ batch' - 1 > sent => batch' - 1 <= gone
    BY <1>7, PageRead
  <2>4. cursor \in Nat /\ sent \in Nat /\ gone \in Nat /\ cursor <= sent
        /\ (sent > cursor => sent <= gone)
    BY <1>7, <2>1 DEF PageFollowsCursor, TypeOK
  <2>5. /\ batch' > cursor /\ batch' <= sent' + 1
        /\ batch' - 1 > cursor => batch' - 1 <= gone
    BY <2>3, <2>4, BetweenPages
  <2>6. cursor' = cursor /\ gone' = gone /\ LastReceived' = LastReceived
    BY <1>7 DEF reader, LastReceived
  <2>7. PageFollowsCursor'
    BY <1>7, <2>5, <2>6 DEF PageFollowsCursor
  <2> QED
    BY <2>2, <2>7
<1>8. CASE ReadPage
  <2>1. Drained
    BY <1>8 DEF ReadPage, PageFollowsCursor, Drained
  <2> QED
    BY <1>7, <1>8, <2>1 DEF ReadPage, TypeOK, PageFollowsCursor, LastReceived, reader
<1>9. CASE ReadLive
  BY <1>7, <1>9 DEF ReadLive
<1>10. CASE Deliver
  <2>1. batch \in Nat /\ batch \in 1..Len(log)
    BY <1>10 DEF Deliver, Drained, TypeOK
  <2>2. /\ received' \in Seq(Nat) /\ received' # <<>>
        /\ received'[Len(received')] = batch
    BY <1>10, <2>1, AppendFacts DEF Deliver, TypeOK
  <2>3. TypeOK'
    BY <1>10, <2>1, <2>2 DEF Deliver, TypeOK
  <2>4. PageFollowsCursor'
    BY <1>10, <2>1, <2>2 DEF Deliver, Drained, PageFollowsCursor, TypeOK, LastReceived
  <2> QED
    BY <2>3, <2>4
<1>11. CASE Disconnect
  BY <1>11, BudgetAssumption DEF Disconnect, NextReconnectAttempt, TypeOK,
     PageFollowsCursor, LastReceived
<1>12. CASE AbortStream
  BY <1>12, BudgetAssumption DEF AbortStream, NextReconnectAttempt, TypeOK,
     PageFollowsCursor, LastReceived
<1>13. CASE UNCHANGED vars
  BY <1>13 DEF vars, server, reader, TypeOK, PageFollowsCursor, LastReceived
<1> QED
  BY <1>1, <1>2, <1>3, <1>4, <1>5, <1>6, <1>8, <1>9, <1>10, <1>11, <1>12, <1>13 DEF Next

(* The page in flight follows the client's cursor in every reachable state.*)
THEOREM StreamInvariant == Spec => []StreamInv
  BY StreamInit, StreamStep, PTL DEF Spec

(* Every variable of the event stream stays within its type.               *)
THEOREM TypeCorrect == Spec => []TypeOK
<1>1. StreamInv => TypeOK
  BY DEF StreamInv
<1> QED
  BY StreamInvariant, <1>1, PTL

-----------------------------------------------------------------------------
(* Every step of server, connection and client is a step of the feed or    *)
(* leaves it alone.                                                        *)
LEMMA FeedStep == StreamInv /\ [Next]_vars => [Feed!FeedNext]_(Feed!feed)
<1> SUFFICES ASSUME StreamInv, [Next]_vars PROVE [Feed!FeedNext]_(Feed!feed)
  OBVIOUS
<1> USE DEF Feed!feed
<1>1. ASSUME NEW kind \in Kinds, Publish(kind) PROVE Feed!FeedNext
  BY <1>1 DEF Publish, reader, Feed!FeedNext, Feed!FeedPublish
<1>2. CASE ExpireStream
  BY <1>2 DEF ExpireStream, reader, Feed!FeedNext, Feed!FeedExpire
<1>3. CASE Deliver
  <2>1. batch \in 1..Len(log) /\ batch > cursor /\ (batch - 1 > cursor => batch - 1 <= gone)
    BY <1>3 DEF Deliver, Drained, StreamInv, TypeOK, PageFollowsCursor
  <2>2. cursor = Feed!LastTaken
    BY DEF StreamInv, PageFollowsCursor, LastReceived, Feed!LastTaken
  <2> QED
    BY <1>3, <2>1, <2>2 DEF Deliver, Feed!FeedNext, Feed!FeedTake
<1>4. ASSUME UNCHANGED <<log, gone, received>> PROVE [Feed!FeedNext]_(Feed!feed)
  BY <1>4
<1>5. CASE ExpireRecord \/ OpenStream \/ RunNotFound \/ CheckRecord
  BY <1>4, <1>5 DEF ExpireRecord, OpenStream, RunNotFound, CheckRecord, reader
<1>6. CASE ReadPage \/ ReadLive
  BY <1>4, <1>6 DEF ReadPage, ReadLive, reader
<1>7. CASE Disconnect \/ AbortStream
  BY <1>4, <1>7 DEF Disconnect, AbortStream
<1>8. CASE UNCHANGED vars
  BY <1>4, <1>8 DEF vars, reader
<1> QED
  BY <1>1, <1>2, <1>3, <1>5, <1>6, <1>7, <1>8 DEF Next

(* stream_events over iter_events, with pages, reconnects, expiry and late *)
(* terminal events, implements the ordered feed: nothing is delivered      *)
(* twice or out of order, and nothing unexpired is passed over.            *)
THEOREM StreamImplementsFeed == Spec => ImplementsFeed
<1>1. Init => Feed!FeedInit
  BY DEF Init, Feed!FeedInit
<1> QED
  BY <1>1, StreamInvariant, FeedStep, PTL DEF Spec, ImplementsFeed, Feed!FeedSpec

-----------------------------------------------------------------------------
(* What a delivery does to the events yielded so far.                      *)
LEMMA DeliverFacts ==
  ASSUME StreamInv, Deliver
  PROVE  /\ batch \in 1..Len(log) /\ batch > cursor
         /\ \A k \in (cursor + 1)..(batch - 1) : k <= gone
         /\ DOMAIN received = 1..Len(received) /\ Len(received) \in Nat
         /\ DOMAIN received' = 1..(Len(received) + 1)
         /\ received'[Len(received) + 1] = batch
         /\ \A i \in DOMAIN received : received'[i] = received[i]
<1>1. batch \in 1..Len(log) /\ batch > cursor /\ (batch - 1 > cursor => batch - 1 <= gone)
  BY DEF Deliver, Drained, StreamInv, TypeOK, PageFollowsCursor
<1>2. \A k \in (cursor + 1)..(batch - 1) : k <= gone
  BY <1>1 DEF StreamInv, TypeOK
<1>3. received \in Seq(Nat) /\ received' = Append(received, batch) /\ batch \in Nat
  BY <1>1 DEF Deliver, StreamInv, TypeOK
<1> QED
  BY <1>1, <1>2, <1>3

(* A step other than a delivery yields nothing and moves no cursor.        *)
LEMMA OnlyDeliverYields ==
  ASSUME StreamInv, [Next]_vars, ~Deliver
  PROVE  received' = received /\ cursor' = cursor /\ gone' >= gone /\ gone' \in Nat
<1> USE DEF StreamInv, TypeOK, server, reader
<1>1. ASSUME NEW kind \in Kinds, Publish(kind)
      PROVE received' = received /\ cursor' = cursor /\ gone' >= gone /\ gone' \in Nat
  BY <1>1 DEF Publish
<1>2. CASE ExpireStream
  BY <1>2 DEF ExpireStream
<1>3. CASE ExpireRecord \/ OpenStream \/ RunNotFound \/ CheckRecord
  BY <1>3 DEF ExpireRecord, OpenStream, RunNotFound, CheckRecord
<1>4. CASE ReadPage \/ ReadLive \/ Disconnect \/ AbortStream
  BY <1>4 DEF ReadPage, ReadLive, Disconnect, AbortStream
<1>5. CASE UNCHANGED vars
  BY <1>5 DEF vars
<1> QED
  BY <1>1, <1>2, <1>3, <1>4, <1>5 DEF Next

(* A connection belongs to a client that is reading.                       *)
LEMMA ConnStep ==
  ASSUME TypeOK, conn # "closed" => client = "reading", [Next]_vars
  PROVE  conn' # "closed" => client' = "reading"
<1> USE DEF server, reader
<1>1. ASSUME NEW kind \in Kinds, Publish(kind) PROVE conn' # "closed" => client' = "reading"
  BY <1>1 DEF Publish
<1>2. CASE ExpireStream \/ ExpireRecord \/ OpenStream \/ RunNotFound \/ CheckRecord
  BY <1>2 DEF ExpireStream, ExpireRecord, OpenStream, RunNotFound, CheckRecord
<1>3. CASE ReadPage \/ ReadLive \/ Deliver \/ Disconnect \/ AbortStream
  BY <1>3 DEF ReadPage, ReadLive, Deliver, Disconnect, AbortStream
<1>4. CASE UNCHANGED vars
  BY <1>4 DEF vars
<1> QED
  BY <1>1, <1>2, <1>3, <1>4 DEF Next

(* Every step keeps what was yielded within the cursor, once and in order. *)
LEMMA YieldStep ==
  StreamInv /\ YieldedWithinCursor /\ DeliveredOnce /\ [Next]_vars
     => YieldedWithinCursor' /\ DeliveredOnce'
<1> SUFFICES ASSUME StreamInv, YieldedWithinCursor, DeliveredOnce, [Next]_vars
             PROVE  YieldedWithinCursor' /\ DeliveredOnce'
  OBVIOUS
<1>1. conn' # "closed" => client' = "reading"
  BY ConnStep DEF StreamInv, YieldedWithinCursor
<1>2. cursor \in Nat /\ gone \in Nat
  BY DEF StreamInv, TypeOK
<1>3. CASE ~Deliver
  BY <1>1, <1>2, <1>3, OnlyDeliverYields DEF YieldedWithinCursor, DeliveredOnce
<1>4. CASE Deliver
  <2>1. cursor' = batch /\ gone' = gone
    BY <1>4 DEF Deliver
  <2>2. \A i \in DOMAIN received' : received'[i] \in 1..cursor'
    BY <1>2, <1>4, <2>1, DeliverFacts DEF YieldedWithinCursor
  <2>3. \A i, j \in DOMAIN received' : i < j => received'[i] < received'[j]
    <3> SUFFICES ASSUME NEW i \in DOMAIN received', NEW j \in DOMAIN received', i < j
                 PROVE  received'[i] < received'[j]
      OBVIOUS
    <3>1. i \in DOMAIN received /\ received'[i] = received[i] /\ received[i] \in 1..cursor
      BY <1>4, DeliverFacts DEF YieldedWithinCursor
    <3>2. CASE j \in DOMAIN received
      BY <1>4, <3>1, <3>2, DeliverFacts DEF DeliveredOnce
    <3>3. CASE j \notin DOMAIN received
      <4>1. j = Len(received) + 1 /\ received'[j] = batch
        BY <1>4, <3>3, DeliverFacts
      <4> QED
        BY <1>2, <1>4, <3>1, <4>1, DeliverFacts
    <3> QED
      BY <3>2, <3>3
  <2>4. \A k \in 1..cursor' : k > gone' => \E i \in DOMAIN received' : received'[i] = k
    <3> SUFFICES ASSUME NEW k \in 1..batch, k > gone
                 PROVE  \E i \in DOMAIN received' : received'[i] = k
      BY <2>1
    <3>1. CASE k \in 1..cursor
      <4>1. PICK i \in DOMAIN received : received[i] = k
        BY <3>1 DEF DeliveredOnce
      <4> QED
        BY <1>4, <4>1, DeliverFacts
    <3>2. CASE k \notin 1..cursor
      <4>1. k = batch
        BY <1>2, <1>4, <3>2, DeliverFacts
      <4> QED
        BY <1>4, <4>1, DeliverFacts
    <3> QED
      BY <3>1, <3>2
  <2> QED
    BY <1>1, <2>2, <2>3, <2>4 DEF YieldedWithinCursor, DeliveredOnce
<1> QED
  BY <1>3, <1>4

(* Through any number of reconnects the caller of stream_events sees every *)
(* event at most once, in order, and misses only what had expired.         *)
THEOREM EachEventOnce == Spec => [](YieldedWithinCursor /\ DeliveredOnce)
<1>1. Init => YieldedWithinCursor /\ DeliveredOnce
  BY DEF Init, YieldedWithinCursor, DeliveredOnce
<1> QED
  BY <1>1, StreamInvariant, YieldStep, PTL DEF Spec

-----------------------------------------------------------------------------
(* Every step keeps the terminal event the last one.                       *)
LEMMA StopStep ==
  StreamInv /\ YieldedWithinCursor /\ StopsAtTerminal /\ [Next]_vars => StopsAtTerminal'
<1> SUFFICES ASSUME StreamInv, YieldedWithinCursor, StopsAtTerminal, [Next]_vars
             PROVE  StopsAtTerminal'
  OBVIOUS
<1>0. \A i \in DOMAIN received : received[i] \in 1..Len(log)
  BY DEF StreamInv, TypeOK, YieldedWithinCursor
<1>1. ASSUME NEW kind \in Kinds, Publish(kind) PROVE StopsAtTerminal'
  <2>1. \A n \in 1..Len(log) : log'[n] = log[n]
    BY <1>1 DEF Publish, StreamInv, TypeOK
  <2> QED
    BY <1>0, <1>1, <2>1 DEF Publish, reader, StopsAtTerminal
<1>2. CASE Deliver
  <2>1. client = "reading" /\ log' = log
    BY <1>2 DEF Deliver, YieldedWithinCursor
  <2>2. \A i \in DOMAIN received : log[received[i]] # "terminal"
    BY <2>1 DEF StopsAtTerminal
  <2>3. log[batch] = "terminal" => client' = "done"
    BY <1>2 DEF Deliver
  <2>4. Len(received') = Len(received) + 1
    BY <1>2 DEF Deliver, StreamInv, TypeOK
  <2> QED
    BY <1>2, <2>1, <2>2, <2>3, <2>4, DeliverFacts DEF StopsAtTerminal
<1>3. ASSUME UNCHANGED <<log, received>>, client = "done" => client' = "done"
      PROVE  StopsAtTerminal'
  BY <1>3 DEF StopsAtTerminal
<1>4. CASE ExpireStream \/ ExpireRecord \/ OpenStream \/ RunNotFound \/ CheckRecord
  BY <1>3, <1>4 DEF ExpireStream, ExpireRecord, OpenStream, RunNotFound, CheckRecord, reader
<1>5. CASE ReadPage \/ ReadLive \/ Disconnect
  BY <1>3, <1>5 DEF ReadPage, ReadLive, Disconnect, reader
<1>6. CASE AbortStream
  BY <1>3, <1>6 DEF AbortStream, YieldedWithinCursor
<1>7. CASE UNCHANGED vars
  BY <1>3, <1>7 DEF vars, reader
<1> QED
  BY <1>1, <1>2, <1>4, <1>5, <1>6, <1>7 DEF Next

(* The caller of stream_events sees one terminal event, the last thing it  *)
(* sees.                                                                   *)
THEOREM TerminalIsLast == Spec => []StopsAtTerminal
<1>1. Init => StopsAtTerminal
  BY DEF Init, StopsAtTerminal
<1> QED
  BY <1>1, StreamInvariant, EachEventOnce, StopStep, PTL DEF Spec
=============================================================================
