----------------------------- MODULE CollabGraph -----------------------------
(***************************************************************************)
(* The graph of a workflow edited by several people at once: the CRDT      *)
(* document of every client                                                *)
(* (web/app/components/workflow/collaboration/core: collaboration-         *)
(* manager.ts, crdt-provider.ts, websocket-manager.ts) and the room on the *)
(* server that only relays (api/services/workflow_collaboration_service.py)*)
(*                                                                         *)
(* The nodes of the draft live in map containers that a client creates     *)
(* when it seeds its empty document from its canvas.  Containers created   *)
(* for the same node by clients that did not know of each other are        *)
(* concurrent writes of one key: the one of the greater peer wins and the  *)
(* edits in the others are no longer seen.  A client is named by the order *)
(* of its peer id.                                                         *)
(*                                                                         *)
(* A handler of the server is one step here, and handlers run in any       *)
(* order; how they interleave is the subject of CollabSession.  What the   *)
(* server sends to one client arrives in order or is lost with the         *)
(* connection.                                                             *)
(***************************************************************************)
EXTENDS Naturals, Sequences

CONSTANTS
    Clients,     \* editors, as numbers
    Edits,       \* changes of the graph
    MaxDrops     \* bound on broken connections

ASSUME ClientsAssumption == Clients \subseteq Nat \ {0}
(* There are finitely many: some peer id is the greatest.                  *)
ASSUME PeersAssumption ==
    \A S \in SUBSET Clients : S # {} => \E s \in S : \A t \in S : t <= s
ASSUME MaxDropsAssumption == MaxDrops \in Nat

None == 0

VARIABLES
    conn,       \* "new", "up" or "down" (socket.io connects again)
    doc,        \* the LoroDoc: who seeded containers, which edits it has
    canvas,     \* edits on the ReactFlow canvas; the draft itself is there
    isLeader,   \* the client's flag
    pending,    \* pendingInitialSync
    raf,        \* an import waits for the next animation frame
    buffer,     \* emitted while the socket is down
    out,        \* sent to the server, not yet handled
    in,         \* emitted by the server, not yet handled
    joined,     \* clients with a session in the room
    leader,     \* the leader in Redis, or None
    where,      \* the container an edit was made in
    drops,      \* broken connections so far
    late,       \* history: no snapshot received since connecting
    stray,      \* history: holds a document the room may not have been sent
    unheard     \* history: nobody will answer the client's request

vars == <<conn, doc, canvas, isLeader, pending, raf, buffer, out, in, joined,
          leader, where, drops, late, stray, unheard>>

Docs == [seeds : SUBSET Clients, edits : SUBSET Edits]
NoDoc == [seeds |-> {}, edits |-> {}]

Update(d) == [kind |-> "graph", doc |-> d, flag |-> FALSE]
Snapshot(d) == [kind |-> "graph", doc |-> d, flag |-> TRUE]
Status(b) == [kind |-> "status", doc |-> NoDoc, flag |-> b]
Join == [kind |-> "join", doc |-> NoDoc, flag |-> FALSE]

(* Mutant: the graph is asked for with the event that asks for a save.     *)
ResyncAsSync == [kind |-> "sync_request", doc |-> NoDoc, flag |-> FALSE]

Resync == [kind |-> "resync", doc |-> NoDoc, flag |-> FALSE]

Init ==
    /\ conn = [c \in Clients |-> "new"]
    /\ doc = [c \in Clients |-> NoDoc]
    /\ canvas = [c \in Clients |-> {}]
    /\ isLeader = [c \in Clients |-> FALSE]
    /\ pending = [c \in Clients |-> FALSE]
    /\ raf = [c \in Clients |-> FALSE]
    /\ buffer = [c \in Clients |-> {}]
    /\ out = [c \in Clients |-> {}]
    /\ in = [c \in Clients |-> <<>>]
    /\ joined = {}
    /\ leader = None
    /\ where = [x \in Edits |-> None]
    /\ drops = 0
    /\ late = [c \in Clients |-> FALSE]
    /\ stray = [c \in Clients |-> FALSE]
    /\ unheard = [c \in Clients |-> FALSE]

-----------------------------------------------------------------------------
(* The container that holds the nodes in a document.                       *)
Winner(d) == CHOOSE s \in d.seeds : \A t \in d.seeds : t <= s

(* The edits that exporting the document's nodes shows.                    *)
Visible(d) == {x \in d.edits : where[x] = Winner(d)}

Merge(d, e) == [seeds |-> d.seeds \cup e.seeds, edits |-> d.edits \cup e.edits]

(* seedCrdtGraphFromReactFlowIfNeeded()                                    *)
Seeded(c) == IF doc[c].seeds = {} THEN [doc[c] EXCEPT !.seeds = {c}] ELSE doc[c]

(* A local commit: the provider exports the whole document; socket.io      *)
(* buffers it while the socket is down.                                    *)
Emit(c, msgs) ==
    IF conn[c] = "up"
    THEN /\ out' = [out EXCEPT ![c] = @ \cup msgs]
         /\ UNCHANGED buffer
    ELSE /\ buffer' = [buffer EXCEPT ![c] = @ \cup msgs]
         /\ UNCHANGED out

(* Mutant: the connect listener does not ask for a first sync.             *)
ConnectUnasked(c) ==
    /\ conn[c] # "up"
    /\ c \notin joined
    /\ conn' = [conn EXCEPT ![c] = "up"]
    /\ out' = [out EXCEPT ![c] = buffer[c] \cup {Join}]
    /\ buffer' = [buffer EXCEPT ![c] = {}]
    /\ UNCHANGED pending
    /\ late' = [late EXCEPT ![c] = TRUE]
    /\ stray' = [stray EXCEPT ![c] = doc[c] # NoDoc]
    /\ unheard' = [unheard EXCEPT ![c] = FALSE]
    /\ UNCHANGED <<doc, canvas, isLeader, raf, in, joined, leader, where, drops>>

-----------------------------------------------------------------------------
(* The socket connects: what was buffered goes out first, then the base    *)
(* listener emits user_connect and the manager's sets pendingInitialSync.  *)
Connect(c) ==
    /\ conn[c] # "up"
    /\ c \notin joined
    /\ conn' = [conn EXCEPT ![c] = "up"]
    /\ out' = [out EXCEPT ![c] = buffer[c] \cup {Join}]
    /\ buffer' = [buffer EXCEPT ![c] = {}]
    /\ pending' = [pending EXCEPT ![c] = TRUE]
    /\ late' = [late EXCEPT ![c] = TRUE]
    /\ stray' = [stray EXCEPT ![c] = doc[c] # NoDoc]
    /\ unheard' = [unheard EXCEPT ![c] = FALSE]
    /\ UNCHANGED <<doc, canvas, isLeader, raf, in, joined, leader, where, drops>>

(* The connection breaks; what is on the way is lost.                      *)
Drop(c) ==
    /\ conn[c] = "up"
    /\ drops < MaxDrops
    /\ drops' = drops + 1
    /\ conn' = [conn EXCEPT ![c] = "down"]
    /\ isLeader' = [isLeader EXCEPT ![c] = FALSE]
    /\ pending' = [pending EXCEPT ![c] = FALSE]
    /\ in' = [in EXCEPT ![c] = <<>>]
    /\ out' = [out EXCEPT ![c] = {}]
    /\ unheard' = [d \in Clients |-> unheard[d] \/ leader = c]
    /\ UNCHANGED <<doc, canvas, raf, buffer, joined, leader, where, late, stray>>

(* setNodes or setEdges: the user changes the graph.                       *)
Edit(c, x) ==
    LET seeded == Seeded(c)
        edited == [seeded EXCEPT !.edits = @ \cup {x}]
    IN  /\ where[x] = None
        /\ conn[c] # "new"
        /\ canvas' = [canvas EXCEPT ![c] = @ \cup {x}]
        /\ where' = [where EXCEPT ![x] = Winner(seeded)]
        /\ doc' = [doc EXCEPT ![c] = edited]
        /\ Emit(c, {Update(edited)} \cup
                   (IF seeded # doc[c] THEN {Update(seeded)} ELSE {}))
        /\ UNCHANGED <<conn, isLeader, pending, raf, in, joined, leader, drops,
                       late, stray, unheard>>

(* The animation frame that shows an import.  One left from before a new   *)
(* connection also takes back the request this connection was to make.     *)
ApplyImport(c) ==
    /\ raf[c]
    /\ raf' = [raf EXCEPT ![c] = FALSE]
    /\ pending' = [pending EXCEPT ![c] = FALSE]
    /\ canvas' = [canvas EXCEPT ![c] = Visible(doc[c])]
    /\ unheard' = [unheard EXCEPT ![c] = @ \/ pending[c]]
    /\ UNCHANGED <<conn, doc, isLeader, buffer, out, in, joined, leader, where,
                   drops, late, stray>>

Receives(c, kind) == conn[c] = "up" /\ in[c] # <<>> /\ Head(in[c]).kind = kind

(* 'status': a leader seeds its document, a follower that has just         *)
(* connected asks for the graph, once.                                     *)
OnStatus(c) ==
    LET lead == Head(in[c]).flag IN
    /\ Receives(c, "status")
    /\ in' = [in EXCEPT ![c] = Tail(@)]
    /\ isLeader' = [isLeader EXCEPT ![c] = lead]
    /\ pending' = [pending EXCEPT ![c] = FALSE]
    /\ doc' = IF lead THEN [doc EXCEPT ![c] = Seeded(c)] ELSE doc
    /\ Emit(c, IF lead THEN IF Seeded(c) = doc[c] THEN {} ELSE {Update(Seeded(c))}
                       ELSE IF pending[c] THEN {Resync} ELSE {})
    /\ UNCHANGED <<conn, canvas, raf, joined, leader, where, drops, late, stray,
                   unheard>>

(* Mutant: a leader takes its own canvas for the graph.                    *)
OnGraphUpdateNotShown(c) ==
    LET merged == Merge(doc[c], Head(in[c]).doc) IN
    /\ Receives(c, "graph")
    /\ in' = [in EXCEPT ![c] = Tail(@)]
    /\ doc' = [doc EXCEPT ![c] = merged]
    /\ raf' = [raf EXCEPT ![c] = @ \/ (~isLeader[c] /\ merged # doc[c])]
    /\ late' = [late EXCEPT ![c] = @ /\ ~Head(in[c]).flag]
    /\ UNCHANGED <<conn, canvas, isLeader, pending, buffer, out, joined, leader,
                   where, drops, stray, unheard>>

(* Mutant: an update is skipped while a frame is pending.                  *)
OnGraphUpdateSkipped(c) ==
    LET merged == IF raf[c] THEN doc[c] ELSE Merge(doc[c], Head(in[c]).doc) IN
    /\ Receives(c, "graph")
    /\ in' = [in EXCEPT ![c] = Tail(@)]
    /\ doc' = [doc EXCEPT ![c] = merged]
    /\ raf' = [raf EXCEPT ![c] = @ \/ merged # doc[c]]
    /\ late' = [late EXCEPT ![c] = @ /\ ~Head(in[c]).flag]
    /\ UNCHANGED <<conn, canvas, isLeader, pending, buffer, out, joined, leader,
                   where, drops, stray, unheard>>

(* 'graph_update': the import changes the document and is shown with the   *)
(* next frame.                                                             *)
OnGraphUpdate(c) ==
    LET merged == Merge(doc[c], Head(in[c]).doc) IN
    /\ Receives(c, "graph")
    /\ in' = [in EXCEPT ![c] = Tail(@)]
    /\ doc' = [doc EXCEPT ![c] = merged]
    /\ raf' = [raf EXCEPT ![c] = @ \/ merged # doc[c]]
    /\ late' = [late EXCEPT ![c] = @ /\ ~Head(in[c]).flag]
    /\ UNCHANGED <<conn, canvas, isLeader, pending, buffer, out, joined, leader,
                   where, drops, stray, unheard>>

(* 'graph_resync_request': the leader sends its whole document.            *)
OnResyncRequest(c) ==
    /\ Receives(c, "resync")
    /\ in' = [in EXCEPT ![c] = Tail(@)]
    /\ doc' = IF isLeader[c] THEN [doc EXCEPT ![c] = Seeded(c)] ELSE doc
    /\ Emit(c, IF isLeader[c]
               THEN {Snapshot(Seeded(c))} \cup
                    (IF Seeded(c) = doc[c] THEN {} ELSE {Update(Seeded(c))})
               ELSE {})
    /\ UNCHANGED <<conn, canvas, isLeader, pending, raf, joined, leader, where,
                   drops, late, stray, unheard>>

-----------------------------------------------------------------------------
(* What the server emits reaches a client whose connection holds.          *)
EmitTo(inboxes, targets, msg) ==
    [c \in Clients |-> IF c \in targets /\ conn[c] = "up"
                       THEN Append(inboxes[c], msg) ELSE inboxes[c]]

(* broadcast_leader_change                                                 *)
StatusToAll(inboxes, room, lead) ==
    [c \in Clients |-> IF c \in room /\ conn[c] = "up"
                       THEN Append(inboxes[c], Status(c = lead)) ELSE inboxes[c]]

(* user_connect: the session is stored, a leader is chosen if there is     *)
(* none, the client enters the room and is told its role.                  *)
HandleJoin(c) ==
    LET lead == IF leader = None THEN c ELSE leader IN
    /\ Join \in out[c]
    /\ out' = [out EXCEPT ![c] = @ \ {Join}]
    /\ joined' = joined \cup {c}
    /\ leader' = lead
    /\ in' = EmitTo(in, {c}, Status(lead = c))
    /\ late' = [late EXCEPT ![c] = @ /\ lead # c]
    /\ UNCHANGED <<conn, doc, canvas, isLeader, pending, raf, buffer, where, drops,
                   stray, unheard>>

(* graph_event: relayed to the rest of the room, or refused with 401 if    *)
(* the sender has no session yet.  The client then joins again and does    *)
(* not repeat the update.                                                  *)
HandleGraph(c, m) ==
    /\ m \in out[c] /\ m.kind = "graph"
    /\ IF c \in joined
       THEN /\ out' = [out EXCEPT ![c] = @ \ {m}]
            /\ in' = EmitTo(in, joined \ {c}, m)
            /\ stray' = [stray EXCEPT ![c] = @ /\ m.doc # doc[c]]
       ELSE /\ out' = [out EXCEPT ![c] = (@ \ {m}) \cup {Join}]
            /\ stray' = [stray EXCEPT ![c] = TRUE]
            /\ UNCHANGED in
    /\ UNCHANGED <<conn, doc, canvas, isLeader, pending, raf, buffer, joined,
                   leader, where, drops, late, unheard>>

(* graph_resync_request: relayed to the rest of the room.                  *)
HandleResync(c) ==
    /\ Resync \in out[c]
    /\ out' = [out EXCEPT ![c] = @ \ {Resync}]
    /\ in' = EmitTo(in, joined \ {c}, Resync)
    /\ unheard' = [unheard EXCEPT ![c] = @ \/ leader = c \/ conn[leader] # "up"]
    /\ UNCHANGED <<conn, doc, canvas, isLeader, pending, raf, buffer, joined,
                   leader, where, drops, late, stray>>

(* The server learns of a broken connection: the session is deleted and,   *)
(* if it led, another one of the room is told to lead.                     *)
HandleDisconnect(c) ==
    LET room == joined \ {c} IN
    /\ conn[c] = "down" /\ c \in joined
    /\ joined' = room
    /\ IF leader # c THEN UNCHANGED <<leader, in>>
       ELSE IF room = {} THEN leader' = None /\ UNCHANGED in
       ELSE \E l \in room : leader' = l /\ in' = StatusToAll(in, room, l)
    /\ UNCHANGED <<conn, doc, canvas, isLeader, pending, raf, buffer, out, where,
                   drops, late, stray, unheard>>

-----------------------------------------------------------------------------
ClientStep(c) ==
    \/ ApplyImport(c)
    \/ OnStatus(c)
    \/ OnGraphUpdate(c)
    \/ OnResyncRequest(c)

ServerStep(c) ==
    \/ HandleJoin(c)
    \/ \E m \in out[c] : HandleGraph(c, m)
    \/ HandleResync(c)
    \/ HandleDisconnect(c)

Next ==
    \E c \in Clients :
        \/ Connect(c)
        \/ Drop(c)
        \/ \E x \in Edits : Edit(c, x)
        \/ ClientStep(c)
        \/ ServerStep(c)

(* Handlers run, frames are drawn and socket.io connects again.  Nobody    *)
(* has to edit or to lose the connection.                                  *)
Fairness ==
    \A c \in Clients :
        /\ WF_vars(ClientStep(c))
        /\ WF_vars(ServerStep(c))
        /\ WF_vars(conn[c] = "down" /\ Connect(c))

Spec == Init /\ [][Next]_vars

FairSpec == Spec /\ Fairness

-----------------------------------------------------------------------------
Msgs == [kind : {"graph", "status", "join", "resync"}, doc : Docs, flag : BOOLEAN]

(* The values each variable can take.                                      *)
TypeOK ==
    /\ conn \in [Clients -> {"new", "up", "down"}]
    /\ doc \in [Clients -> Docs]
    /\ canvas \in [Clients -> SUBSET Edits]
    /\ isLeader \in [Clients -> BOOLEAN]
    /\ pending \in [Clients -> BOOLEAN]
    /\ raf \in [Clients -> BOOLEAN]
    /\ buffer \in [Clients -> SUBSET Msgs]
    /\ out \in [Clients -> SUBSET Msgs]
    /\ in \in [Clients -> Seq(Msgs)]
    /\ joined \subseteq Clients
    /\ leader \in Clients \cup {None}
    /\ where \in [Edits -> Clients \cup {None}]
    /\ drops \in Nat
    /\ late \in [Clients -> BOOLEAN]
    /\ stray \in [Clients -> BOOLEAN]
    /\ unheard \in [Clients -> BOOLEAN]

Settled == {c \in Clients : conn[c] = "up" /\ c \in joined}

(* Nothing is on its way to, from or inside a connected client.            *)
Quiet == \A c \in Clients : conn[c] = "up" => in[c] = <<>> /\ out[c] = {} /\ ~raf[c]

(* A client was sent the graph it asked for when it connected.             *)
Informed(c) == ~late[c] /\ ~unheard[c]

(* Once everything sent has been handled, what one client of the room has  *)
(* in its document every other one has.  The exceptions: a client, or the  *)
(* leader, that was not sent the graph when it connected; and a client     *)
(* that came back with a document of its own or was refused an update,     *)
(* which it does not send again until it edits.                            *)
QuietClientsAgree ==
    Quiet /\ leader # None /\ Informed(leader) =>
        \A c, d \in Settled :
            ~stray[c] /\ Informed(d) => Merge(doc[d], doc[c]) = doc[d]

(* What a client shows is its document whenever no frame is pending, also  *)
(* when an edit falls between an import and its frame.                     *)
CanvasShowsDoc ==
    \A c \in Clients : ~raf[c] /\ doc[c].seeds # {} => canvas[c] = Visible(doc[c])

(* Why it holds: an edit is in a container wherever it is, and documents   *)
(* and canvases without containers have no edits.                          *)
Placed(d) == (d.seeds = {} => d.edits = {}) /\ \A x \in d.edits : where[x] # None

EditsPlaced ==
    \A c \in Clients :
        /\ Placed(doc[c]) /\ (doc[c].seeds = {} => canvas[c] = {})
        /\ \A m \in out[c] \cup buffer[c] : Placed(m.doc)
        /\ \A i \in DOMAIN in[c] : Placed(in[c][i].doc)

CanvasInv == TypeOK /\ EditsPlaced /\ CanvasShowsDoc

(* Why the clients agree.  A document is the set of its parts; what a      *)
(* client will hold are those of its document and of the updates on their  *)
(* way to it.                                                              *)
Parts(d) == (d.seeds \X {"seed"}) \cup (d.edits \X {"edit"})

Ahead(c) == Parts(doc[c]) \cup
    UNION {Parts(in[c][i].doc) : i \in {j \in DOMAIN in[c] : in[c][j].kind = "graph"}}

Leaving(c) == UNION {Parts(m.doc) : m \in {n \in out[c] : n.kind = "graph"}}

IsSnapshot(m) == m.kind = "graph" /\ m.flag

SentSnapshot(c) == \E i \in DOMAIN in[c] : IsSnapshot(in[c][i])

(* A connection has messages; until the server knows it, one of them is    *)
(* the request for a session.                                              *)
Connection(c) ==
    /\ conn[c] # "up" => in[c] = <<>> /\ out[c] = {} /\ ~isLeader[c]
    /\ conn[c] = "up" => (Join \in out[c] <=> c \notin joined)

Newcomer(c) ==
    conn[c] = "up" /\ c \notin joined =>
        /\ in[c] = <<>> /\ late[c] /\ (pending[c] \/ unheard[c])
        /\ ~stray[c] => Parts(doc[c]) \subseteq Leaving(c)

(* Only the leader is told that it leads and sends snapshots.              *)
Role(c) ==
    /\ isLeader[c] => leader = c
    /\ \A i \in DOMAIN in[c] : in[c][i].kind = "status" /\ in[c][i].flag => leader = c
    /\ \A m \in out[c] : IsSnapshot(m) => leader = c

Emitted(c) ==
    /\ \A m \in buffer[c] : m.kind = "graph" /\ ~m.flag
    /\ \A m \in out[c] \cup buffer[c] : Parts(m.doc) \subseteq Parts(doc[c])

RoomShape ==
    /\ leader = None <=> joined = {}
    /\ leader # None => leader \in joined
    /\ \A c \in Clients : Connection(c) /\ Newcomer(c) /\ Role(c) /\ Emitted(c)

(* Whoever takes over from a leader that is gone was sent the graph by     *)
(* nobody that is still there.                                             *)
HeirsUninformed ==
    \A d \in joined :
        ~unheard[d] =>
            /\ conn[leader] # "up" => late[d] /\ ~SentSnapshot(d)
            /\ d = leader => ~SentSnapshot(d)

(* So an informed leader found the room empty and has led it ever since.   *)
Founded == leader # None /\ Informed(leader)

Leads(l) ==
    /\ \A i \in DOMAIN in[l] : in[l][i].kind = "status" => in[l][i].flag
    /\ isLeader[l] \/ (in[l] # <<>> /\ Head(in[l]).kind = "status")

FounderLeads == Founded => Leads(leader)

(* Everything that is relayed to a client, and everything a client of the  *)
(* room has and does not keep to itself, is on its way to the leader.      *)
Relayed(l, c) == Ahead(c) \subseteq Ahead(l) \cup Parts(doc[c])

Reported(l, c) ==
    c \in joined /\ conn[c] = "up" /\ ~stray[c] =>
        Parts(doc[c]) \subseteq Ahead(l) \cup Leaving(c)

LeaderHears == Founded => \A c \in Clients : Relayed(leader, c) /\ Reported(leader, c)

(* The request of a client is still to come.                               *)
Asking(d) ==
    \/ Resync \in out[d]
    \/ pending[d] /\ \E i \in DOMAIN in[d] : in[d][i].kind = "status"

ResyncAfter(l, i) == \E j \in DOMAIN in[l] : j > i /\ in[l][j].kind = "resync"

(* What the leader has or is sent, a client that has asked has, is sent or *)
(* will be sent with the answer.                                           *)
Covered(l, d) ==
    /\ \/ Parts(doc[l]) \subseteq Ahead(d) \cup Leaving(l)
       \/ ResyncAfter(l, 0)
    /\ \A i \in DOMAIN in[l] : in[l][i].kind = "graph" =>
          \/ Parts(in[l][i].doc) \subseteq Ahead(d) \cup Leaving(l)
          \/ ResyncAfter(l, i)

Served(l, d) ==
    d \in joined \ {l} /\ conn[d] = "up" /\ ~unheard[d] /\ ~Asking(d) => Covered(l, d)

FollowersHear == Founded => \A d \in Clients : Served(leader, d)

AgreeInv ==
    TypeOK /\ RoomShape /\ HeirsUninformed /\ FounderLeads /\ LeaderHears /\ FollowersHear

(* "Seed once from the current ReactFlow graph" (collaboration-manager.ts, *)
(* line 1597): the nodes have one container.                               *)
SeededOnce == \A c \in Clients : \A s, t \in doc[c].seeds : s = t

(* A client that connects is sent the graph, unless it leads itself.  The  *)
(* exceptions are a leader that was gone or goes before it has answered,   *)
(* and a frame that took the request back: the client asks only once.      *)
JoinerServed ==
    \A c \in Clients :
        conn[c] = "up" /\ late[c] ~> ~late[c] \/ conn[c] = "down" \/ isLeader[c] \/ unheard[c]
=============================================================================
