---------------------------- MODULE CollabSession ----------------------------
(***************************************************************************)
(* Who leads the room of a workflow: the handlers of                       *)
(* api/services/workflow_collaboration_service.py over the keys of         *)
(* api/repositories/workflow_collaboration_repository.py, and the flag     *)
(* each browser keeps (collaboration-manager.ts).                          *)
(*                                                                         *)
(* python-socketio runs every handler in a greenlet of its own, and Redis  *)
(* is reached over a socket, so handlers interleave between two commands.  *)
(* A step here is one write with the reads up to the next write; the       *)
(* deletions of one call are one write.                                    *)
(*                                                                         *)
(* A socket has one id for life; a browser that connects again is another  *)
(* member of Sids.  The two joins of one socket that is refused while it   *)
(* is joining are not run at the same time here.                           *)
(***************************************************************************)
EXTENDS Naturals, Sequences, FiniteSets

CONSTANTS
    Sids,         \* socket ids
    None,         \* no socket
    MaxTasks,     \* bound on handlers that run at the same time
    MaxUnread,    \* bound on unread messages when an event is sent
    MaxExpiries   \* bound on keys that reach their time to live

ASSUME NoneAssumption == None \notin Sids
ASSUME BoundsAssumption == {MaxTasks, MaxUnread, MaxExpiries} \subseteq Nat

VARIABLES
    sock,         \* "new", "up" or "gone"
    hash,         \* fields of workflow_online_users:<workflow>
    map,          \* sids with a ws_sid_map key
    leader,       \* workflow_leader:<workflow>, or None
    isLeader,     \* the flag of each browser
    inbox,        \* status messages on their way
    task,         \* the handlers of each sid
    expiries,     \* keys that expired so far
    overlapped    \* history: something happened while a handler ran

vars == <<sock, hash, map, leader, isLeader, inbox, task, expiries, overlapped>>

redis == <<hash, map, leader>>

Kinds == {"join", "leave", "event"}

Labels == {"idle",
           "set_session", "set_mapping", "drop_leader", "set_if_absent",
           "get_again", "announce_join", "status",
           "prune", "check_leader", "set_online", "announce_online",
           "delete_session", "set_left", "announce_left",
           "ensure", "set_ensured", "announce_ensured",
           "sync", "set_sync", "announce_sync"}

(* A handler: where it is, the leader it read, the one it chose, the users *)
(* it listed and the role it is going to report.                           *)
Idle == [at |-> "idle", got |-> None, pick |-> None, users |-> {}, role |-> FALSE]

Init ==
    /\ sock = [s \in Sids |-> "new"]
    /\ hash = {}
    /\ map = {}
    /\ leader = None
    /\ isLeader = [s \in Sids |-> FALSE]
    /\ inbox = [s \in Sids |-> <<>>]
    /\ task = [s \in Sids |-> [k \in Kinds |-> Idle]]
    /\ expiries = 0
    /\ overlapped = FALSE

-----------------------------------------------------------------------------
(* is_session_active                                                       *)
ActiveIn(members) == {s \in members : sock[s] = "up"}
Active == ActiveIn(hash \cap map)

(* _select_graph_leader: HGETALL has no order; None if nobody is active.   *)
Selected(active) == IF active = {} THEN {None} ELSE active

(* broadcast_leader_change: to everyone in the hash, if still connected.   *)
Announced(l) ==
    [s \in Sids |-> IF s \in hash /\ sock[s] = "up"
                    THEN Append(inbox[s], s = l) ELSE inbox[s]]

Running == {p \in Sids \X Kinds : task[p[1]][p[2]].at # "idle"}

At(s, k, label) == task[s][k].at = label

Goto(s, k, t) == task' = [task EXCEPT ![s][k] = t]

Go(s, k, label) == task' = [task EXCEPT ![s][k].at = label]

(* A handler starts.                                                       *)
Start(s, k, label) ==
    /\ At(s, k, "idle")
    /\ Cardinality(Running) < MaxTasks
    /\ Go(s, k, label)
    /\ overlapped' = (overlapped \/ Running # {})

Step == UNCHANGED <<sock, isLeader, expiries, overlapped>>

-----------------------------------------------------------------------------
(* The socket connects and sends user_connect.                             *)
Connect(s) ==
    /\ sock[s] = "new"
    /\ sock' = [sock EXCEPT ![s] = "up"]
    /\ Start(s, "join", "set_session")
    /\ UNCHANGED <<redis, isLeader, inbox, expiries>>

(* set_session_info, HSET                                                  *)
SetSession(s) ==
    /\ At(s, "join", "set_session")
    /\ hash' = hash \cup {s}
    /\ Go(s, "join", "set_mapping")
    /\ Step /\ UNCHANGED <<map, leader, inbox>>

(* set_session_info, SET; get_or_set_leader up to its first decision.      *)
SetMapping(s) ==
    /\ At(s, "join", "set_mapping")
    /\ map' = map \cup {s}
    /\ Goto(s, "join",
            IF leader \in ActiveIn(hash \cap (map \cup {s}))
            THEN [Idle EXCEPT !.at = "prune", !.role = leader = s]
            ELSE [Idle EXCEPT !.at = IF leader = None THEN "set_if_absent"
                                                      ELSE "drop_leader",
                              !.got = leader])
    /\ Step /\ UNCHANGED <<hash, leader, inbox>>

(* get_or_set_leader: the session and the key of a leader that is gone.    *)
DropLeader(s) ==
    LET l == task[s]["join"].got IN
    /\ At(s, "join", "drop_leader")
    /\ hash' = hash \ {l}
    /\ map' = map \ {l}
    /\ leader' = None
    /\ Go(s, "join", "set_if_absent")
    /\ Step /\ UNCHANGED inbox

(* get_or_set_leader: set_leader_if_absent                                 *)
SetIfAbsent(s) ==
    LET t == task[s]["join"] IN
    /\ At(s, "join", "set_if_absent")
    /\ IF leader = None
       THEN /\ leader' = s
            /\ Goto(s, "join",
                    [t EXCEPT !.at = IF t.got = None THEN "prune" ELSE "announce_join",
                              !.role = TRUE])
       ELSE /\ Go(s, "join", "get_again")
            /\ UNCHANGED leader
    /\ Step /\ UNCHANGED <<hash, map, inbox>>

AnnounceJoin(s) ==
    /\ At(s, "join", "announce_join")
    /\ inbox' = Announced(s)
    /\ Go(s, "join", "prune")
    /\ Step /\ UNCHANGED redis

(* Mutant: the sid that leads is returned for the role.                    *)
GetAgainSid(s) ==
    /\ At(s, "join", "get_again")
    /\ Goto(s, "join", [Idle EXCEPT !.at = "prune", !.role = leader])
    /\ Step /\ UNCHANGED <<redis, inbox>>

(* get_or_set_leader: somebody else set it, or did and has gone again.     *)
GetAgain(s) ==
    /\ At(s, "join", "get_again")
    /\ Goto(s, "join", [Idle EXCEPT !.at = "prune", !.role = leader \in {s, None}])
    /\ Step /\ UNCHANGED <<redis, inbox>>

(* The end of authorize_and_join_workflow_room: the role decided above.    *)
EmitStatus(s) ==
    /\ At(s, "join", "status")
    /\ inbox' = IF sock[s] = "up"
                THEN [inbox EXCEPT ![s] = Append(@, task[s]["join"].role)] ELSE inbox
    /\ Goto(s, "join", Idle)
    /\ Step /\ UNCHANGED redis

-----------------------------------------------------------------------------
(* broadcast_online_users, at the end of a join and of a disconnect.       *)
AfterOnline(k) == IF k = "join" THEN "status" ELSE "idle"

(* Mutant: inactive sessions are left out of the list and not deleted.     *)
PruneListed(s, k) ==
    /\ At(s, k, "prune")
    /\ task' = [task EXCEPT ![s][k].at = "check_leader", ![s][k].users = Active]
    /\ Step /\ UNCHANGED <<redis, inbox>>

(* _prune_inactive_sessions                                                *)
Prune(s, k) ==
    /\ At(s, k, "prune")
    /\ hash' = hash \cap Active
    /\ map' = map \ (hash \ Active)
    /\ task' = [task EXCEPT ![s][k].at = "check_leader", ![s][k].users = Active]
    /\ Step /\ UNCHANGED <<leader, inbox>>

(* The leader is one of the users listed, or another one is chosen.        *)
CheckLeader(s, k) ==
    LET users == task[s][k].users IN
    /\ At(s, k, "check_leader")
    /\ IF leader \in users
       THEN Go(s, k, AfterOnline(k)) /\ UNCHANGED leader
       ELSE /\ leader' = None
            /\ \E l \in Selected(IF users = {} THEN {} ELSE Active) :
                   task' = [task EXCEPT
                       ![s][k].at = IF l # None THEN "set_online"
                                    ELSE IF leader # None THEN "announce_online"
                                    ELSE AfterOnline(k),
                       ![s][k].got = leader,
                       ![s][k].pick = l]
    /\ Step /\ UNCHANGED <<hash, map, inbox>>

SetOnline(s, k) ==
    LET t == task[s][k] IN
    /\ At(s, k, "set_online")
    /\ leader' = t.pick
    /\ Go(s, k, IF t.pick # t.got THEN "announce_online" ELSE AfterOnline(k))
    /\ Step /\ UNCHANGED <<hash, map, inbox>>

AnnounceOnline(s, k) ==
    /\ At(s, k, "announce_online")
    /\ inbox' = Announced(task[s][k].pick)
    /\ Go(s, k, AfterOnline(k))
    /\ Step /\ UNCHANGED redis

-----------------------------------------------------------------------------
(* The connection ends: socket.io no longer counts the sid as connected    *)
(* and runs the disconnect handler; the browser lowers its flag.           *)
Disconnect(s) ==
    /\ sock[s] = "up"
    /\ sock' = [sock EXCEPT ![s] = "gone"]
    /\ isLeader' = [isLeader EXCEPT ![s] = FALSE]
    /\ inbox' = [inbox EXCEPT ![s] = <<>>]
    /\ Start(s, "leave", "delete_session")
    /\ UNCHANGED <<redis, expiries>>

(* disconnect_session, and handle_leader_disconnect up to its decision.    *)
DeleteSession(s) ==
    /\ At(s, "leave", "delete_session")
    /\ IF s \notin map
       THEN Goto(s, "leave", Idle) /\ UNCHANGED <<hash, map>>
       ELSE /\ hash' = hash \ {s}
            /\ map' = map \ {s}
            /\ IF leader # s
               THEN Go(s, "leave", "prune")
               ELSE \E l \in Selected(Active \ {s}) :
                        Goto(s, "leave", [Idle EXCEPT !.at = "set_left", !.pick = l])
    /\ Step /\ UNCHANGED <<leader, inbox>>

(* Mutant: the new leader is not announced.                                *)
SetLeftUnannounced(s) ==
    LET l == task[s]["leave"].pick IN
    /\ At(s, "leave", "set_left")
    /\ leader' = l
    /\ Go(s, "leave", "prune")
    /\ Step /\ UNCHANGED <<hash, map, inbox>>

(* handle_leader_disconnect: set_leader, or delete_leader if nobody is left*)
SetLeft(s) ==
    LET l == task[s]["leave"].pick IN
    /\ At(s, "leave", "set_left")
    /\ leader' = l
    /\ Go(s, "leave", IF l = None THEN "prune" ELSE "announce_left")
    /\ Step /\ UNCHANGED <<hash, map, inbox>>

AnnounceLeft(s) ==
    /\ At(s, "leave", "announce_left")
    /\ inbox' = Announced(task[s]["leave"].pick)
    /\ Go(s, "leave", "prune")
    /\ Step /\ UNCHANGED redis

-----------------------------------------------------------------------------
(* A browser sends a collaboration or a graph event.                       *)
SendEvent(s) ==
    /\ sock[s] = "up"
    /\ At(s, "join", "idle")
    /\ \A r \in Sids : Len(inbox[r]) <= MaxUnread
    /\ Start(s, "event", "ensure")
    /\ UNCHANGED <<sock, redis, isLeader, inbox, expiries>>

(* What follows _ensure_leader: a sync_request looks for the leader, any   *)
(* other event is relayed.                                                 *)
AfterEnsure == {"sync", "idle"}

(* The mapping is gone: 401, and the browser sends user_connect again.     *)
Refused(s) ==
    /\ At(s, "event", "ensure")
    /\ s \notin map
    /\ task' = [task EXCEPT ![s]["event"] = Idle,
                            ![s]["join"].at = IF sock[s] = "up" THEN "set_session" ELSE "idle"]
    /\ Step /\ UNCHANGED <<redis, inbox>>

(* Mutant: a leader is there if its key is.                                *)
EnsureLeaderKey(s) ==
    /\ At(s, "event", "ensure")
    /\ s \in map
    /\ IF leader # None
       THEN \E label \in AfterEnsure : Go(s, "event", label)
       ELSE Go(s, "event", "set_ensured")
    /\ Step /\ UNCHANGED <<redis, inbox>>

(* _ensure_leader up to its decision                                       *)
EnsureLeader(s) ==
    /\ At(s, "event", "ensure")
    /\ s \in map
    /\ IF leader \in Active
       THEN \E label \in AfterEnsure : Go(s, "event", label)
       ELSE Go(s, "event", "set_ensured")
    /\ Step /\ UNCHANGED <<redis, inbox>>

(* _ensure_leader: delete_leader and set_leader                            *)
SetEnsured(s) ==
    /\ At(s, "event", "set_ensured")
    /\ leader' = s
    /\ Go(s, "event", "announce_ensured")
    /\ Step /\ UNCHANGED <<hash, map, inbox>>

AnnounceEnsured(s) ==
    /\ At(s, "event", "announce_ensured")
    /\ inbox' = Announced(s)
    /\ \E label \in AfterEnsure : Go(s, "event", label)
    /\ Step /\ UNCHANGED redis

(* sync_request: forwarded to the leader; without an active one the sender *)
(* is preferred.                                                           *)
SyncRequest(s) ==
    /\ At(s, "event", "sync")
    /\ IF leader \in Active
       THEN Goto(s, "event", Idle) /\ UNCHANGED leader
       ELSE /\ leader' = None
            /\ \E l \in Selected(IF s \in Active THEN {s} ELSE Active) :
                   Goto(s, "event", IF l = None THEN Idle
                                    ELSE [Idle EXCEPT !.at = "set_sync", !.pick = l])
    /\ Step /\ UNCHANGED <<hash, map, inbox>>

SetSync(s) ==
    /\ At(s, "event", "set_sync")
    /\ leader' = task[s]["event"].pick
    /\ Go(s, "event", "announce_sync")
    /\ Step /\ UNCHANGED <<hash, map, inbox>>

AnnounceSync(s) ==
    /\ At(s, "event", "announce_sync")
    /\ inbox' = Announced(task[s]["event"].pick)
    /\ Goto(s, "event", Idle)
    /\ Step /\ UNCHANGED redis

-----------------------------------------------------------------------------
(* The browser reads a status message.                                     *)
OnStatus(s) ==
    /\ inbox[s] # <<>>
    /\ isLeader' = [isLeader EXCEPT ![s] = Head(inbox[s])]
    /\ inbox' = [inbox EXCEPT ![s] = Tail(@)]
    /\ UNCHANGED <<sock, redis, task, expiries, overlapped>>

(* A key has not been refreshed for SESSION_STATE_TTL_SECONDS.  What       *)
(* refreshes a mapping refreshes the leader's key after it, so that one    *)
(* outlives the mapping of the leader.  The hash is refreshed by every     *)
(* session and lasts longest: nothing in it is active by then.             *)
Expire ==
    /\ expiries < MaxExpiries
    /\ expiries' = expiries + 1
    /\ \/ /\ leader \notin map
          /\ leader' = None
          /\ UNCHANGED map
       \/ \E s \in map : map' = map \ {s} /\ UNCHANGED leader
    /\ overlapped' = (overlapped \/ Running # {})
    /\ UNCHANGED <<sock, hash, isLeader, inbox, task>>

-----------------------------------------------------------------------------
Online(s, k) ==
    \/ Prune(s, k)
    \/ CheckLeader(s, k)
    \/ SetOnline(s, k)
    \/ AnnounceOnline(s, k)

JoinStep(s) ==
    \/ SetSession(s)
    \/ SetMapping(s)
    \/ DropLeader(s)
    \/ SetIfAbsent(s)
    \/ AnnounceJoin(s)
    \/ GetAgain(s)
    \/ Online(s, "join")
    \/ EmitStatus(s)

LeaveStep(s) ==
    \/ DeleteSession(s)
    \/ SetLeft(s)
    \/ AnnounceLeft(s)
    \/ Online(s, "leave")

EventStep(s) ==
    \/ Refused(s)
    \/ EnsureLeader(s)
    \/ SetEnsured(s)
    \/ AnnounceEnsured(s)
    \/ SyncRequest(s)
    \/ SetSync(s)
    \/ AnnounceSync(s)

Next ==
    \/ \E s \in Sids :
           \/ Connect(s)
           \/ Disconnect(s)
           \/ SendEvent(s)
           \/ JoinStep(s)
           \/ LeaveStep(s)
           \/ EventStep(s)
           \/ OnStatus(s)
    \/ Expire

(* Greenlets run and messages are read.  Nobody has to come, go or edit.   *)
Fairness ==
    \A s \in Sids :
        /\ WF_vars(JoinStep(s))
        /\ WF_vars(LeaveStep(s))
        /\ WF_vars(EventStep(s))
        /\ WF_vars(OnStatus(s))

Spec == Init /\ [][Next]_vars

FairSpec == Spec /\ Fairness

-----------------------------------------------------------------------------
(* The values each variable can take.                                      *)
TypeOK ==
    /\ sock \in [Sids -> {"new", "up", "gone"}]
    /\ hash \subseteq Sids
    /\ map \subseteq Sids
    /\ leader \in Sids \cup {None}
    /\ isLeader \in [Sids -> BOOLEAN]
    /\ inbox \in [Sids -> Seq(BOOLEAN)]
    /\ task \in [Sids -> [Kinds -> [at : Labels, got : Sids \cup {None},
                                    pick : Sids \cup {None}, users : SUBSET Sids,
                                    role : BOOLEAN]]]
    /\ expiries \in Nat
    /\ overlapped \in BOOLEAN

AtRest == Running = {} /\ \A s \in Sids : inbox[s] = <<>>

(* Handlers that never overlap keep the flags right: at rest the browser   *)
(* of an active session believes it leads exactly if Redis says so.        *)
FlagsAgreeUnlessOverlap ==
    AtRest /\ ~overlapped /\ leader # None =>
        \A s \in Active : isLeader[s] <=> leader = s

(* Whatever overlaps, at rest nobody who left is still listed as online: a *)
(* join that loses against its own disconnect cleans up after itself.      *)
(* Only a disconnect that finds its mapping expired leaves a field behind. *)
NoGhostMembers ==
    Running = {} /\ expiries = 0 => \A s \in hash : sock[s] = "up"

(* Why it holds: a field without its mapping is about to get it, and a     *)
(* socket that left has its own join or disconnect still ahead of the      *)
(* cleanup.                                                                *)
BeforePrune == {"set_mapping", "drop_leader", "set_if_absent", "get_again",
                "announce_join", "prune"}

GhostsCleaned ==
    expiries = 0 =>
        \A s \in hash :
            /\ s \notin map => At(s, "join", "set_mapping")
            /\ \/ sock[s] = "up"
               \/ task[s]["join"].at \in BeforePrune
               \/ At(s, "leave", "delete_session") /\ s \in map

(* A socket joins once: at first, or again when its event is refused.      *)
JoinsApart ==
    \A s \in Sids :
        /\ sock[s] = "new" => \A k \in Kinds : At(s, k, "idle")
        /\ At(s, "event", "ensure") => At(s, "join", "idle")

GhostInv == TypeOK /\ JoinsApart /\ GhostsCleaned

(* What the browser of s will believe once it has read everything.         *)
Believes(s) == IF inbox[s] = <<>> THEN isLeader[s] ELSE inbox[s][Len(inbox[s])]

AgreeExcept(out) == \A s \in Active \ out : Believes(s) <=> leader = s

(* Why the flags agree: a handler that runs alone leaves every flag right  *)
(* but the one it is going to report, until it announces the leader.       *)
JoinAlone(s) ==
    LET t == task[s]["join"] IN
    /\ t.at = "set_session" => sock[s] = "up" /\ s \notin map /\ AgreeExcept({})
    /\ t.at = "set_mapping" => sock[s] = "up" /\ s \in hash \ map /\ AgreeExcept({})
    /\ t.at \notin {"idle", "set_session", "set_mapping"} => s \in Active /\ AgreeExcept({s})
    /\ t.at = "drop_leader" => t.got = leader /\ leader \notin Active \cup {None}
    /\ t.at = "set_if_absent" => leader = None
    /\ t.at \in {"announce_join", "prune", "check_leader", "status"} =>
          leader \in Active /\ t.role = (leader = s)
    /\ t.at = "announce_join" => leader = s
    /\ t.at = "check_leader" => t.users = Active
    /\ t.at \notin {"get_again", "set_online", "announce_online"}

LeaveAlone(s) ==
    LET t == task[s]["leave"] IN
    /\ t.at # "idle" => sock[s] # "up"
    /\ t.at \in {"delete_session", "prune", "check_leader"} => AgreeExcept({})
    /\ t.at = "check_leader" => t.users = Active
    /\ t.at \in {"announce_left", "announce_online"} => leader = t.pick
    /\ t.at = "set_left" => t.pick \in Selected(Active)
    /\ t.at = "set_online" => t.pick \notin {None, t.got}

EventAlone(s) ==
    LET t == task[s]["event"] IN
    /\ t.at # "idle" => sock[s] = "up"
    /\ t.at \in {"ensure", "sync"} => AgreeExcept({})
    /\ t.at = "announce_ensured" => leader = s
    /\ t.at = "announce_sync" => leader = t.pick

HandlersAlone ==
    /\ \A s \in Sids : sock[s] = "new" => s \notin map
    /\ ~overlapped =>
          /\ \A p, q \in Running : p = q
          /\ Running = {} => AgreeExcept({})
          /\ \A s \in Sids : JoinAlone(s) /\ LeaveAlone(s) /\ EventAlone(s)

AloneInv == TypeOK /\ JoinsApart /\ HandlersAlone

(* "sync_request (ask leader to update graph)" (api/controllers/console/   *)
(* socketio/workflow.py): the active session the request is forwarded to   *)
(* believes it leads, or it ignores the request.                           *)
LeaderKnowsIt == AtRest /\ leader \in Active => isLeader[leader]

(* While an active session keeps sending events, a room whose leader was   *)
(* lost gets one again.  It need not keep it: a session whose HSET was     *)
(* pruned before its SET is never active, but its events elect it.         *)
LeaderRepaired ==
    \A s \in Sids :
        <>[](s \in Active) /\ []<>At(s, "event", "ensure") => []<>(leader \in Active)
=============================================================================
