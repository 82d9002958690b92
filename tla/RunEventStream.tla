------------------------------ MODULE RunEventStream ------------------------------
(***************************************************************************)
(* Reading the events of one run over SSE: RedisRunStore.iter_events and   *)
(* get_events on the server, Client.stream_events with its reconnects on   *)
(* the reader's side, and between them connections that break.             *)
(*                                                                         *)
(* An event is named by its position in the run's log, which stands for    *)
(* its Redis stream id: ids grow with the log.  A page that the server has *)
(* read and the client has not yet received is the range batch..sent.      *)
(***************************************************************************)
EXTENDS Naturals, Sequences

CONSTANTS
    Page,            \* entries per XRANGE or XREAD
    MaxReconnects,   \* max_reconnects; at least MaxDrops stands for None
    MaxDrops,        \* bound on broken connections
    MaxLen           \* bound on the length of the log

ASSUME PageAssumption == Page \in Nat \ {0}
ASSUME BudgetAssumption == MaxReconnects \in Nat /\ MaxDrops \in Nat /\ MaxLen \in Nat

Kinds == {"event", "terminal"}

VARIABLES
    log,        \* kinds of the events appended to the run's stream
    gone,       \* entries up to this one have expired
    record,     \* whether the run record exists
    conn,       \* what the server's generator does next
    batch,      \* next entry of the page to send
    sent,       \* last entry of the page; cursor of iter_events
    client,     \* what stream_events does
    cursor,     \* cursor of stream_events
    attempts,   \* reconnect_attempts
    received,   \* events yielded to the caller
    drops

server == <<conn, batch, sent>>
reader == <<client, cursor, attempts, received, drops>>
vars == <<log, gone, record, server, reader>>

Init ==
    /\ log = <<>> /\ gone = 0 /\ record = "present"
    /\ conn = "closed" /\ batch = 1 /\ sent = 0
    /\ client = "connecting" /\ cursor = 0 /\ attempts = 0 /\ received = <<>>
    /\ drops = 0

Larger(a, b) == IF a > b THEN a ELSE b
Smaller(a, b) == IF a < b THEN a ELSE b

-----------------------------------------------------------------------------
(* The run's stream.                                                       *)

Terminals == {i \in DOMAIN log : log[i] = "terminal"}

(* XADD.  After a terminal event only the run_failed of a shutdown comes.  *)
Publish(kind) ==
    /\ Len(log) < MaxLen
    /\ Terminals = {} \/ (kind = "terminal" /\ Terminals = {Len(log)})
    /\ log' = Append(log, kind)
    /\ UNCHANGED <<gone, record, server, reader>>

(* The stream's retention is over; an XADD starts it anew.                 *)
ExpireStream ==
    /\ gone < Len(log)
    /\ gone' = Len(log)
    /\ UNCHANGED <<log, record, server, reader>>

(* The record expires, never before the stream.                            *)
ExpireRecord ==
    /\ record = "present" /\ gone = Len(log)
    /\ record' = "absent"
    /\ UNCHANGED <<log, gone, server, reader>>

-----------------------------------------------------------------------------
(* The server: iter_events.                                                *)

(* A reconnect that replays from the beginning.                            *)
OpenFromStart ==
    /\ client = "connecting" /\ record = "present"
    /\ client' = "reading"
    /\ conn' = "check" /\ batch' = 1 /\ sent' = 0
    /\ UNCHANGED <<log, gone, record, cursor, attempts, received, drops>>

(* The route finds the record and starts iter_events at the cursor.        *)
OpenStream ==
    /\ client = "connecting" /\ record = "present"
    /\ client' = "reading"
    /\ conn' = "check" /\ batch' = cursor + 1 /\ sent' = cursor
    /\ UNCHANGED <<log, gone, record, cursor, attempts, received, drops>>

(* 404: not retried.                                                       *)
RunNotFound ==
    /\ client = "connecting" /\ record = "absent"
    /\ client' = "failed"
    /\ UNCHANGED <<log, gone, record, server, cursor, attempts, received, drops>>

Drained == batch > sent

(* Entries after sent that the stream still holds, at most a page of them. *)
ReadEntries ==
    LET low == Larger(sent, gone)
    IN  /\ low < Len(log)
        /\ batch' = low + 1
        /\ sent' = Smaller(low + Page, Len(log))

(* The get_run of get_events.                                              *)
CheckRecord ==
    /\ conn = "check" /\ Drained /\ record = "present"
    /\ conn' = "page"
    /\ UNCHANGED <<log, gone, record, batch, sent, reader>>

(* The XRANGE of get_events: a page, or the replay is over.                *)
ReadPage ==
    /\ conn = "page"
    /\ \/ ReadEntries /\ conn' = "check"
       \/ Larger(sent, gone) = Len(log) /\ conn' = "live" /\ UNCHANGED <<batch, sent>>
    /\ UNCHANGED <<log, gone, record, reader>>

(* XREAD from the newest entry.                                            *)
ReadNewest ==
    /\ conn = "live" /\ Drained
    /\ Larger(sent, gone) < Len(log)
    /\ batch' = Len(log) /\ sent' = Len(log)
    /\ UNCHANGED <<log, gone, record, conn, reader>>

(* XREAD that waits for a full page.                                       *)
ReadFullPage ==
    /\ conn = "live" /\ Drained
    /\ Larger(sent, gone) + Page <= Len(log)
    /\ ReadEntries
    /\ UNCHANGED <<log, gone, record, conn, reader>>

(* XREAD BLOCK, again and again until there are entries.                   *)
ReadLive ==
    /\ conn = "live" /\ Drained
    /\ ReadEntries
    /\ UNCHANGED <<log, gone, record, conn, reader>>

-----------------------------------------------------------------------------
(* The client: stream_events.                                              *)

(* A client that reads on after the terminal event.                        *)
DeliverForever ==
    /\ conn # "closed" /\ ~Drained
    /\ cursor' = batch
    /\ received' = Append(received, batch)
    /\ batch' = batch + 1
    /\ UNCHANGED <<log, gone, record, conn, sent, client, attempts, drops>>

(* The next SSE frame arrives; a terminal event ends the iteration and     *)
(* closes the connection.                                                  *)
Deliver ==
    /\ conn # "closed" /\ ~Drained
    /\ cursor' = batch
    /\ received' = Append(received, batch)
    /\ batch' = batch + 1
    /\ \/ /\ log[batch] = "terminal"
          /\ client' = "done" /\ conn' = "closed"
       \/ /\ log[batch] # "terminal"
          /\ UNCHANGED <<client, conn>>
    /\ UNCHANGED <<log, gone, record, sent, attempts, drops>>

(* _next_reconnect_attempt.                                                *)
NextReconnectAttempt ==
    \/ attempts < MaxReconnects /\ client' = "connecting" /\ attempts' = attempts + 1
    \/ attempts >= MaxReconnects /\ client' = "failed" /\ UNCHANGED attempts

(* The connection breaks, times out or cannot be opened, or the server     *)
(* answers 5xx: what was on the way is lost.                               *)
Disconnect ==
    /\ client \in {"connecting", "reading"}
    /\ drops < MaxDrops
    /\ drops' = drops + 1
    /\ NextReconnectAttempt
    /\ conn' = "closed"
    /\ UNCHANGED <<log, gone, record, batch, sent, cursor, received>>

(* RunNotFoundError inside the generator breaks the stream.                *)
AbortStream ==
    /\ conn = "check" /\ Drained /\ record = "absent"
    /\ NextReconnectAttempt
    /\ conn' = "closed"
    /\ UNCHANGED <<log, gone, record, batch, sent, cursor, received, drops>>

-----------------------------------------------------------------------------
Next ==
    \/ \E kind \in Kinds : Publish(kind)
    \/ ExpireStream
    \/ ExpireRecord
    \/ OpenStream
    \/ RunNotFound
    \/ CheckRecord
    \/ ReadPage
    \/ ReadLive
    \/ Deliver
    \/ Disconnect
    \/ AbortStream

Spec == Init /\ [][Next]_vars

(* Server and client keep working; nothing need break, expire or be        *)
(* published.                                                              *)
FairSpec ==
    /\ Spec
    /\ WF_vars(OpenStream) /\ WF_vars(CheckRecord) /\ WF_vars(ReadPage)
    /\ WF_vars(ReadLive) /\ WF_vars(Deliver)

-----------------------------------------------------------------------------
(* Every variable holds a value the code can put there.                    *)
TypeOK ==
    /\ log \in Seq(Kinds)
    /\ gone \in 0..Len(log)
    /\ record \in {"present", "absent"}
    /\ conn \in {"closed", "check", "page", "live"}
    /\ batch \in Nat \ {0}
    /\ sent \in 0..Len(log)
    /\ client \in {"connecting", "reading", "done", "failed"}
    /\ cursor \in 0..Len(log)
    /\ attempts \in 0..MaxReconnects
    /\ received \in Seq(Nat)
    /\ drops \in Nat

LastReceived == IF received = <<>> THEN 0 ELSE received[Len(received)]

(* Through any number of reconnects every event is delivered at most once  *)
(* and in order, and an event the reader has passed without seeing it had  *)
(* expired.                                                                *)
DeliveredOnce ==
    /\ \A i, j \in DOMAIN received : i < j => received[i] < received[j]
    /\ \A k \in 1..cursor : k > gone => \E i \in DOMAIN received : received[i] = k

(* The caller sees one terminal event, the first, and nothing after it:    *)
(* the run_failed that a shutdown appends to a success is not delivered.   *)
StopsAtTerminal ==
    \A i \in DOMAIN received :
        log[received[i]] = "terminal" => i = Len(received) /\ client = "done"

(* Why both hold: what was yielded lies within the cursor, and only a      *)
(* client that is reading has a connection.                                *)
YieldedWithinCursor ==
    /\ \A i \in DOMAIN received : received[i] \in 1..cursor
    /\ conn # "closed" => client = "reading"

(* The page in flight starts where the client stands, or skips what has    *)
(* expired.                                                                *)
PageFollowsCursor ==
    /\ cursor = LastReceived
    /\ conn # "closed" => /\ batch > cursor
                          /\ batch <= sent + 1
                          /\ batch - 1 > cursor => batch - 1 <= gone
    /\ conn = "page" => batch > sent

StreamInv == TypeOK /\ PageFollowsCursor

(* A terminal event is delivered to a reader that does not run out of      *)
(* reconnects, unless events or the record expire first.                   *)
TerminalSeen ==
    Terminals # {} ~>
        client = "done" \/ gone > 0 \/ record = "absent" \/ drops > MaxReconnects

Feed == INSTANCE EventFeed
    WITH published <- log, expired <- gone, taken <- received

(* Server, connection and client together implement the event feed.        *)
ImplementsFeed == Feed!FeedSpec
=============================================================================
