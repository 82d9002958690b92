-------------------------- MODULE CollabSessionProofs --------------------------
(***************************************************************************)
(* Proofs about CollabSession, for any set of sockets, any number of       *)
(* handlers at the same time and any number of expired keys: types, nobody *)
(* who left stays listed, and handlers that run alone keep every browser's *)
(* flag right.                                                             *)
(***************************************************************************)
EXTENDS CollabSession, TLAPS

-----------------------------------------------------------------------------
(* The task of a handler and the steps that change it.                     *)
TaskRecs == [at : Labels, got : Sids \cup {None}, pick : Sids \cup {None},
             users : SUBSET Sids, role : BOOLEAN]

TaskOK == task \in [Sids -> [Kinds -> TaskRecs]]

(* Nobody's task but (s, k) changes.                                       *)
OthersKeep(s, k) ==
    \A r \in Sids, j \in Kinds : r # s \/ j # k => task'[r][j] = task[r][j]

(* A handler at rest is well typed.                                        *)
LEMMA IdleType == Idle \in TaskRecs /\ Idle.at = "idle"
<1>1. "idle" \in Labels /\ FALSE \in BOOLEAN /\ {} \in SUBSET Sids
  BY DEF Labels
<1> QED
  BY <1>1 DEF Idle, TaskRecs

(* Goto replaces one handler's record.                                     *)
LEMMA GotoEffect ==
  ASSUME TaskOK, NEW s \in Sids, NEW k \in Kinds, NEW t \in TaskRecs, Goto(s, k, t)
  PROVE  TaskOK' /\ task'[s][k] = t /\ OthersKeep(s, k)
  BY DEF TaskOK, Goto, OthersKeep

(* Go changes one handler's place and nothing else of it.                  *)
LEMMA GoEffect ==
  ASSUME TaskOK, NEW s \in Sids, NEW k \in Kinds, NEW label \in Labels, Go(s, k, label)
  PROVE  /\ TaskOK' /\ OthersKeep(s, k)
         /\ task'[s][k].at = label
         /\ task'[s][k].got = task[s][k].got /\ task'[s][k].pick = task[s][k].pick
         /\ task'[s][k].users = task[s][k].users /\ task'[s][k].role = task[s][k].role
<1>1. task[s][k] \in TaskRecs
  BY DEF TaskOK
<1> DEFINE t == [task[s][k] EXCEPT !.at = label]
<1>2. /\ t \in TaskRecs /\ t.at = label
      /\ t.got = task[s][k].got /\ t.pick = task[s][k].pick
      /\ t.users = task[s][k].users /\ t.role = task[s][k].role
  BY <1>1 DEF TaskRecs
<1>3. task' = [task EXCEPT ![s][k] = t]
  BY DEF Go
<1> HIDE DEF t
<1>4. Goto(s, k, t)
  BY <1>3 DEF Goto
<1> QED
  BY <1>2, <1>4, GotoEffect

(* The records that handlers build from scratch.                           *)
LEMMA RoleTask ==
  ASSUME NEW label \in Labels, NEW b \in BOOLEAN
  PROVE  LET t == [Idle EXCEPT !.at = label, !.role = b]
         IN  t \in TaskRecs /\ t.at = label /\ t.role = b
  BY DEF Idle, TaskRecs

(* So is one that has read or chosen a leader.                             *)
LEMMA LeaderTask ==
  ASSUME NEW label \in Labels, NEW l \in Sids \cup {None}
  PROVE  /\ LET t == [Idle EXCEPT !.at = label, !.got = l]
            IN  t \in TaskRecs /\ t.at = label /\ t.got = l
         /\ LET t == [Idle EXCEPT !.at = label, !.pick = l]
            IN  t \in TaskRecs /\ t.at = label /\ t.pick = l
  BY DEF Idle, TaskRecs

(* What each step does to the handler that takes it.                       *)

(* A handler that starts.                                                  *)
LEMMA StartEffect ==
  ASSUME TaskOK, NEW s \in Sids, NEW k \in Kinds, NEW label \in Labels, Start(s, k, label)
  PROVE  /\ TaskOK' /\ OthersKeep(s, k)
         /\ task[s][k].at = "idle" /\ task'[s][k].at = label
         /\ overlapped' = (overlapped \/ Running # {})
  BY GoEffect DEF Start, At

(* The first decision of get_or_set_leader.                                *)
LEMMA SetMappingEffect ==
  ASSUME TypeOK, TaskOK, NEW s \in Sids, SetMapping(s)
  PROVE  /\ TaskOK' /\ OthersKeep(s, "join")
         /\ \/ /\ leader \in ActiveIn(hash \cap (map \cup {s}))
               /\ task'[s]["join"].at = "prune" /\ task'[s]["join"].role = (leader = s)
            \/ /\ leader \notin ActiveIn(hash \cap (map \cup {s})) /\ leader = None
               /\ task'[s]["join"].at = "set_if_absent"
            \/ /\ leader \notin ActiveIn(hash \cap (map \cup {s})) /\ leader # None
               /\ task'[s]["join"].at = "drop_leader" /\ task'[s]["join"].got = leader
<1>1. /\ {"prune", "set_if_absent", "drop_leader"} \subseteq Labels /\ "join" \in Kinds
      /\ (leader = s) \in BOOLEAN /\ leader \in Sids \cup {None}
  BY DEF Labels, Kinds, TypeOK
<1>2. CASE leader \in ActiveIn(hash \cap (map \cup {s}))
  <2>1. Goto(s, "join", [Idle EXCEPT !.at = "prune", !.role = (leader = s)])
    BY <1>2 DEF SetMapping
  <2>2. /\ [Idle EXCEPT !.at = "prune", !.role = (leader = s)] \in TaskRecs
        /\ [Idle EXCEPT !.at = "prune", !.role = (leader = s)].at = "prune"
        /\ [Idle EXCEPT !.at = "prune", !.role = (leader = s)].role = (leader = s)
    BY <1>1, RoleTask
  <2> QED
    BY <1>1, <1>2, <2>1, <2>2, GotoEffect
<1>3. CASE leader \notin ActiveIn(hash \cap (map \cup {s}))
  <2> DEFINE label == IF leader = None THEN "set_if_absent" ELSE "drop_leader"
             t == [Idle EXCEPT !.at = label, !.got = leader]
  <2>1. Goto(s, "join", t) /\ label \in Labels
    BY <1>1, <1>3 DEF SetMapping
  <2>2. t \in TaskRecs /\ t.at = label /\ t.got = leader
    <3> HIDE DEF label
    <3> QED
      BY <1>1, <2>1, LeaderTask
  <2>3. /\ TaskOK' /\ OthersKeep(s, "join") /\ task'[s]["join"] = t
    <3> HIDE DEF t
    <3> QED
      BY <1>1, <2>1, <2>2, GotoEffect
  <2> HIDE DEF t
  <2> QED
    BY <1>3, <2>2, <2>3
<1> QED
  BY <1>2, <1>3

(* set_leader_if_absent.                                                   *)
LEMMA SetIfAbsentEffect ==
  ASSUME TaskOK, NEW s \in Sids, SetIfAbsent(s)
  PROVE  /\ TaskOK' /\ OthersKeep(s, "join")
         /\ \/ /\ leader = None /\ leader' = s
               /\ task'[s]["join"].at \in {"prune", "announce_join"}
               /\ task'[s]["join"].role = TRUE
            \/ leader # None /\ leader' = leader /\ task'[s]["join"].at = "get_again"
<1>1. {"prune", "announce_join", "get_again"} \subseteq Labels /\ "join" \in Kinds
  BY DEF Labels, Kinds
<1>2. CASE leader = None
  <2> DEFINE label == IF task[s]["join"].got = None THEN "prune" ELSE "announce_join"
             t == [task[s]["join"] EXCEPT !.at = label, !.role = TRUE]
  <2>1. Goto(s, "join", t) /\ leader' = s
    BY <1>2 DEF SetIfAbsent
  <2>2. t \in TaskRecs /\ t.at = label /\ t.role = TRUE
    <3>1. task[s]["join"] \in TaskRecs /\ label \in Labels
      BY <1>1 DEF TaskOK
    <3> HIDE DEF label
    <3> QED
      BY <3>1 DEF TaskRecs
  <2>3. label \in {"prune", "announce_join"}
    OBVIOUS
  <2> HIDE DEF t, label
  <2> QED
    BY <1>1, <1>2, <2>1, <2>2, <2>3, GotoEffect
<1>3. CASE leader # None
  BY <1>1, <1>3, GoEffect DEF SetIfAbsent
<1> QED
  BY <1>2, <1>3

(* The second look at the leader.                                          *)
LEMMA GetAgainEffect ==
  ASSUME TaskOK, NEW s \in Sids, GetAgain(s)
  PROVE  TaskOK' /\ OthersKeep(s, "join") /\ task'[s]["join"].at = "prune"
<1>1. "prune" \in Labels /\ "join" \in Kinds /\ (leader \in {s, None}) \in BOOLEAN
  BY DEF Labels, Kinds
<1> DEFINE t == [Idle EXCEPT !.at = "prune", !.role = leader \in {s, None}]
<1>2. t \in TaskRecs /\ t.at = "prune"
  BY <1>1, RoleTask
<1>3. Goto(s, "join", t)
  BY DEF GetAgain
<1> HIDE DEF t
<1> QED
  BY <1>1, <1>2, <1>3, GotoEffect

(* The list of users that a prune leaves.                                  *)
LEMMA PruneEffect ==
  ASSUME TypeOK, TaskOK, NEW s \in Sids, NEW k \in Kinds, Prune(s, k)
  PROVE  /\ TaskOK' /\ OthersKeep(s, k)
         /\ task'[s][k].at = "check_leader" /\ task'[s][k].users = Active
         /\ task'[s][k].role = task[s][k].role
<1>1. "check_leader" \in Labels /\ Active \in SUBSET Sids /\ task[s][k] \in TaskRecs
  BY DEF Labels, Active, ActiveIn, TypeOK, TaskOK
<1> DEFINE t == [task[s][k] EXCEPT !.at = "check_leader", !.users = Active]
<1>2. /\ t \in TaskRecs /\ t.at = "check_leader" /\ t.users = Active
      /\ t.role = task[s][k].role
  <2> HIDE DEF Active
  <2> QED
    BY <1>1 DEF TaskRecs
<1>3. Goto(s, k, t)
  BY <1>1 DEF Prune, Goto, TaskOK
<1> HIDE DEF t
<1> QED
  BY <1>2, <1>3, GotoEffect

(* A leader is chosen among sockets.                                       *)
LEMMA SelectedType ==
  ASSUME NEW A \in SUBSET Sids
  PROVE  /\ Selected(A) \subseteq Sids \cup {None}
         /\ A = {} => Selected(A) = {None}
         /\ A # {} => Selected(A) = A
         /\ None \in Selected(A) => A = {}
  BY NoneAssumption DEF Selected

(* The active sessions are sockets in both keys.                           *)
LEMMA ActiveType ==
  ASSUME TypeOK
  PROVE  /\ Active \in SUBSET Sids
         /\ \A r : r \in Active <=> r \in hash /\ r \in map /\ sock[r] = "up"
  BY DEF TypeOK, Active, ActiveIn

(* Where a handler goes after the list of users is a label.                *)
LEMMA AfterOnlineType == \A k \in Kinds : AfterOnline(k) \in {"status", "idle"} /\ AfterOnline(k) \in Labels
  BY DEF AfterOnline, Labels

(* The check of the leader against the users listed.                       *)
LEMMA CheckLeaderEffect ==
  ASSUME TypeOK, TaskOK, NEW s \in Sids, NEW k \in Kinds, CheckLeader(s, k)
  PROVE  /\ TaskOK' /\ OthersKeep(s, k) /\ task'[s][k].role = task[s][k].role
         /\ \/ /\ leader \in task[s][k].users /\ leader' = leader
               /\ task'[s][k].at = AfterOnline(k)
            \/ /\ leader \notin task[s][k].users /\ leader' = None
               /\ task'[s][k].got = leader
               /\ task'[s][k].pick \in
                     Selected(IF task[s][k].users = {} THEN {} ELSE Active)
               /\ task'[s][k].at = IF task'[s][k].pick # None THEN "set_online"
                                   ELSE IF leader # None THEN "announce_online"
                                   ELSE AfterOnline(k)
<1>1. CASE leader \in task[s][k].users
  BY <1>1, AfterOnlineType, GoEffect DEF CheckLeader
<1>2. CASE leader \notin task[s][k].users
  <2> DEFINE A == IF task[s][k].users = {} THEN {} ELSE Active
  <2>1. A \in SUBSET Sids
    BY ActiveType
  <2>2. PICK l \in Selected(A) :
           /\ leader' = None
           /\ task' = [task EXCEPT
                       ![s][k].at = IF l # None THEN "set_online"
                                    ELSE IF leader # None THEN "announce_online"
                                    ELSE AfterOnline(k),
                       ![s][k].got = leader,
                       ![s][k].pick = l]
    BY <1>2 DEF CheckLeader
  <2> HIDE DEF A
  <2>3. l \in Sids \cup {None} /\ leader \in Sids \cup {None} /\ task[s][k] \in TaskRecs
    BY <2>1, <2>2, SelectedType DEF TypeOK, TaskOK
  <2> DEFINE label == IF l # None THEN "set_online"
                      ELSE IF leader # None THEN "announce_online" ELSE AfterOnline(k)
             t == [task[s][k] EXCEPT !.at = label, !.got = leader, !.pick = l]
  <2>4. label \in Labels
    BY AfterOnlineType DEF Labels
  <2>5. Goto(s, k, t)
    BY <2>2 DEF Goto, TaskOK
  <2>6. /\ t \in TaskRecs /\ t.at = label /\ t.got = leader /\ t.pick = l
        /\ t.role = task[s][k].role
    <3> HIDE DEF label
    <3> QED
      BY <2>3, <2>4 DEF TaskRecs
  <2>7. TaskOK' /\ OthersKeep(s, k) /\ task'[s][k] = t
    <3> HIDE DEF t
    <3> QED
      BY <2>5, <2>6, GotoEffect
  <2> HIDE DEF t
  <2> QED
    BY <1>2, <2>2, <2>6, <2>7 DEF A
<1> QED
  BY <1>1, <1>2

(* disconnect_session up to the choice of another leader.                  *)
LEMMA DeleteSessionEffect ==
  ASSUME TypeOK, TaskOK, NEW s \in Sids, DeleteSession(s)
  PROVE  /\ TaskOK' /\ OthersKeep(s, "leave")
         /\ \/ s \notin map /\ UNCHANGED <<hash, map>> /\ task'[s]["leave"] = Idle
            \/ /\ s \in map /\ hash' = hash \ {s} /\ map' = map \ {s}
               /\ \/ leader # s /\ task'[s]["leave"].at = "prune"
                  \/ /\ leader = s /\ task'[s]["leave"].at = "set_left"
                     /\ task'[s]["leave"].pick \in Selected(Active \ {s})
<1>1. "leave" \in Kinds /\ {"prune", "set_left"} \subseteq Labels
  BY DEF Kinds, Labels
<1>2. CASE s \notin map
  BY <1>1, <1>2, IdleType, GotoEffect DEF DeleteSession
<1>3. CASE s \in map /\ leader # s
  BY <1>1, <1>3, GoEffect DEF DeleteSession
<1>4. CASE s \in map /\ leader = s
  <2>1. PICK l \in Selected(Active \ {s}) :
           Goto(s, "leave", [Idle EXCEPT !.at = "set_left", !.pick = l])
    BY <1>4 DEF DeleteSession
  <2>2. l \in Sids \cup {None}
    BY ActiveType, SelectedType
  <2> DEFINE t == [Idle EXCEPT !.at = "set_left", !.pick = l]
  <2>3. t \in TaskRecs /\ t.at = "set_left" /\ t.pick = l
    BY <1>1, <2>2, LeaderTask
  <2> HIDE DEF t
  <2>4. Goto(s, "leave", t)
    BY <2>1 DEF t
  <2> QED
    BY <1>1, <1>4, <2>1, <2>3, <2>4, GotoEffect DEF DeleteSession
<1> QED
  BY <1>2, <1>3, <1>4

(* sync_request: the leader is active, or one is chosen or there is none.  *)
LEMMA SyncRequestEffect ==
  ASSUME TypeOK, TaskOK, NEW s \in Sids, SyncRequest(s)
  PROVE  /\ TaskOK' /\ OthersKeep(s, "event")
         /\ \/ leader \in Active /\ leader' = leader /\ task'[s]["event"] = Idle
            \/ leader' = None /\ Active = {} /\ task'[s]["event"] = Idle
            \/ leader' = None /\ task'[s]["event"].at = "set_sync"
<1>1. "event" \in Kinds /\ "set_sync" \in Labels
  BY DEF Kinds, Labels
<1>2. CASE leader \in Active
  BY <1>1, <1>2, IdleType, GotoEffect DEF SyncRequest
<1>3. CASE leader \notin Active
  <2> DEFINE A == IF s \in Active THEN {s} ELSE Active
  <2>1. PICK l \in Selected(A) :
           /\ leader' = None
           /\ Goto(s, "event", IF l = None THEN Idle
                               ELSE [Idle EXCEPT !.at = "set_sync", !.pick = l])
    BY <1>3 DEF SyncRequest
  <2>2. A \in SUBSET Sids /\ (A = {} => Active = {})
    BY ActiveType
  <2> HIDE DEF A
  <2>3. l \in Sids \cup {None} /\ (l = None => Active = {})
    BY <2>1, <2>2, SelectedType
  <2>4. CASE l = None
    BY <1>1, <2>1, <2>3, <2>4, IdleType, GotoEffect
  <2>5. CASE l # None
    <3> DEFINE t == [Idle EXCEPT !.at = "set_sync", !.pick = l]
    <3>1. t \in TaskRecs /\ t.at = "set_sync"
      BY <1>1, <2>3, LeaderTask
    <3>2. Goto(s, "event", t)
      BY <2>1, <2>5
    <3> HIDE DEF t
    <3> QED
      BY <1>1, <2>1, <3>1, <3>2, GotoEffect
  <2> QED
    BY <2>4, <2>5
<1> QED
  BY <1>2, <1>3

(* A refused event ends; its socket, if still there, joins again.          *)
LEMMA RefusedEffect ==
  ASSUME TaskOK, NEW s \in Sids, Refused(s)
  PROVE  /\ TaskOK'
         /\ \A r \in Sids, j \in Kinds : r # s \/ j = "leave" => task'[r][j] = task[r][j]
         /\ task'[s]["event"] = Idle
         /\ task'[s]["join"].at = IF sock[s] = "up" THEN "set_session" ELSE "idle"
<1> DEFINE label == IF sock[s] = "up" THEN "set_session" ELSE "idle"
           t == [task[s]["join"] EXCEPT !.at = label]
<1>1. "event" \in Kinds /\ "join" \in Kinds /\ label \in Labels
  BY DEF Kinds, Labels
<1>2. t \in TaskRecs /\ t.at = label
  <2>1. task[s]["join"] \in TaskRecs
    BY <1>1 DEF TaskOK
  <2> HIDE DEF label
  <2> QED
    BY <1>1, <2>1 DEF TaskRecs
<1>3. task' = [task EXCEPT ![s] = [task[s] EXCEPT !["event"] = Idle, !["join"] = t]]
  BY <1>1 DEF Refused, TaskOK
<1>4. Idle \in TaskRecs
  BY IdleType
<1> HIDE DEF t, Idle
<1> QED
  BY <1>1, <1>2, <1>3, <1>4 DEF TaskOK, Kinds

-----------------------------------------------------------------------------
(* Types.                                                                  *)
RestOK ==
    /\ sock \in [Sids -> {"new", "up", "gone"}]
    /\ hash \subseteq Sids
    /\ map \subseteq Sids
    /\ leader \in Sids \cup {None}
    /\ isLeader \in [Sids -> BOOLEAN]
    /\ inbox \in [Sids -> Seq(BOOLEAN)]
    /\ expiries \in Nat
    /\ overlapped \in BOOLEAN

(* The type invariant in two parts.                                        *)
LEMMA TypeParts == TypeOK <=> RestOK /\ TaskOK
  BY DEF TypeOK, RestOK, TaskOK, TaskRecs

(* An announcement appends one flag to some inboxes.                       *)
LEMMA AnnouncedType ==
  ASSUME TypeOK, NEW l
  PROVE  Announced(l) \in [Sids -> Seq(BOOLEAN)]
<1>1. \A s \in Sids : inbox[s] \in Seq(BOOLEAN) /\ (s = l) \in BOOLEAN
  BY DEF TypeOK
<1>2. \A s \in Sids : Append(inbox[s], s = l) \in Seq(BOOLEAN)
  BY <1>1
<1> QED
  BY <1>1, <1>2 DEF Announced

(* The initial state is well typed.                                        *)
LEMMA TypeInit == Init => TypeOK
<1> SUFFICES ASSUME Init PROVE RestOK /\ TaskOK
  BY TypeParts
<1>1. TaskOK
  BY IdleType DEF Init, TaskOK
<1>2. sock \in [Sids -> {"new", "up", "gone"}] /\ isLeader \in [Sids -> BOOLEAN]
  BY DEF Init
<1>3. inbox \in [Sids -> Seq(BOOLEAN)]
  BY DEF Init
<1>4. overlapped \in BOOLEAN /\ expiries \in Nat
  BY DEF Init
<1> QED
  BY <1>1, <1>2, <1>3, <1>4 DEF Init, RestOK

(* A step of a handler, whatever it does to its own task.                  *)
LEMMA TypeHandler ==
  ASSUME TypeOK, Step, TaskOK', hash' \subseteq Sids, map' \subseteq Sids,
         leader' \in Sids \cup {None}, inbox' \in [Sids -> Seq(BOOLEAN)]
  PROVE  TypeOK'
<1>1. RestOK'
  BY DEF TypeOK, RestOK, Step
<1> QED
  BY <1>1 DEF TypeOK, RestOK, TaskOK, TaskRecs

(* broadcast_online_users keeps the types.                                 *)
LEMMA TypeOnline == ASSUME TypeOK, NEW s \in Sids, NEW k \in Kinds, Online(s, k) PROVE TypeOK'
<1>0. RestOK /\ TaskOK
  BY TypeParts
<1>1. CASE Prune(s, k)
  BY <1>0, <1>1, PruneEffect, TypeHandler DEF Prune, RestOK
<1>2. CASE CheckLeader(s, k)
  <2>1. TaskOK' /\ leader' \in Sids \cup {None}
    BY <1>0, <1>2, CheckLeaderEffect DEF RestOK
  <2> QED
    BY <1>0, <1>2, <2>1, TypeHandler DEF CheckLeader, RestOK
<1>3. CASE SetOnline(s, k)
  <2>1. TaskOK'
    BY <1>0, <1>3, AfterOnlineType, GoEffect DEF SetOnline, Labels
  <2>2. task[s][k].pick \in Sids \cup {None}
    BY <1>0 DEF TaskOK, TaskRecs
  <2> QED
    BY <1>0, <1>3, <2>1, <2>2, TypeHandler DEF SetOnline, RestOK
<1>4. CASE AnnounceOnline(s, k)
  <2>1. TaskOK'
    BY <1>0, <1>4, AfterOnlineType, GoEffect DEF AnnounceOnline
  <2> QED
    BY <1>0, <1>4, <2>1, TypeHandler, AnnouncedType DEF AnnounceOnline, RestOK, redis
<1> QED
  BY <1>1, <1>2, <1>3, <1>4 DEF Online

(* Every step of the join handler keeps the types.                         *)
LEMMA TypeJoin == ASSUME TypeOK, NEW s \in Sids, JoinStep(s) PROVE TypeOK'
<1>0. RestOK /\ TaskOK /\ "join" \in Kinds
  BY TypeParts DEF Kinds
<1>1. CASE SetSession(s)
  <2>1. TaskOK'
    BY <1>0, <1>1, GoEffect DEF SetSession, Labels
  <2> QED
    BY <1>0, <1>1, <2>1, TypeHandler DEF SetSession, RestOK
<1>2. CASE SetMapping(s)
  BY <1>0, <1>2, SetMappingEffect, TypeHandler DEF SetMapping, RestOK
<1>3. CASE DropLeader(s)
  <2>1. TaskOK'
    BY <1>0, <1>3, GoEffect DEF DropLeader, Labels
  <2> QED
    BY <1>0, <1>3, <2>1, TypeHandler DEF DropLeader, RestOK
<1>4. CASE SetIfAbsent(s)
  <2>1. TaskOK' /\ leader' \in Sids \cup {None}
    BY <1>0, <1>4, SetIfAbsentEffect DEF RestOK
  <2> QED
    BY <1>0, <1>4, <2>1, TypeHandler DEF SetIfAbsent, RestOK
<1>5. CASE AnnounceJoin(s)
  <2>1. TaskOK'
    BY <1>0, <1>5, GoEffect DEF AnnounceJoin, Labels
  <2> QED
    BY <1>0, <1>5, <2>1, TypeHandler, AnnouncedType DEF AnnounceJoin, RestOK, redis
<1>6. CASE GetAgain(s)
  BY <1>0, <1>6, GetAgainEffect, TypeHandler DEF GetAgain, RestOK, redis
<1>7. CASE EmitStatus(s)
  <2>1. TaskOK'
    BY <1>0, <1>7, IdleType, GotoEffect DEF EmitStatus
  <2>2. task[s]["join"].role \in BOOLEAN
    BY <1>0 DEF TaskOK, TaskRecs
  <2>3. Append(inbox[s], task[s]["join"].role) \in Seq(BOOLEAN)
    BY <1>0, <2>2 DEF RestOK
  <2>4. inbox' \in [Sids -> Seq(BOOLEAN)]
    BY <1>0, <1>7, <2>3 DEF EmitStatus, RestOK
  <2> QED
    BY <1>0, <1>7, <2>1, <2>4, TypeHandler DEF EmitStatus, RestOK, redis
<1>8. CASE Online(s, "join")
  BY <1>0, <1>8, TypeOnline
<1> QED
  BY <1>0, <1>1, <1>2, <1>3, <1>4, <1>5, <1>6, <1>7, <1>8 DEF JoinStep

(* So does every step of the disconnect handler.                           *)
LEMMA TypeLeave == ASSUME TypeOK, NEW s \in Sids, LeaveStep(s) PROVE TypeOK'
<1>0. RestOK /\ TaskOK /\ "leave" \in Kinds
  BY TypeParts DEF Kinds
<1>1. CASE DeleteSession(s)
  <2>1. TaskOK' /\ hash' \subseteq Sids /\ map' \subseteq Sids
    BY <1>0, <1>1, DeleteSessionEffect DEF RestOK
  <2> QED
    BY <1>0, <1>1, <2>1, TypeHandler DEF DeleteSession, RestOK
<1>2. CASE SetLeft(s)
  <2>1. TaskOK'
    BY <1>0, <1>2, GoEffect DEF SetLeft, Labels
  <2>2. task[s]["leave"].pick \in Sids \cup {None}
    BY <1>0 DEF TaskOK, TaskRecs
  <2> QED
    BY <1>0, <1>2, <2>1, <2>2, TypeHandler DEF SetLeft, RestOK
<1>3. CASE AnnounceLeft(s)
  <2>1. TaskOK'
    BY <1>0, <1>3, GoEffect DEF AnnounceLeft, Labels
  <2> QED
    BY <1>0, <1>3, <2>1, TypeHandler, AnnouncedType DEF AnnounceLeft, RestOK, redis
<1>4. CASE Online(s, "leave")
  BY <1>0, <1>4, TypeOnline
<1> QED
  BY <1>1, <1>2, <1>3, <1>4 DEF LeaveStep

(* And of the event handlers.                                              *)
LEMMA TypeEvent == ASSUME TypeOK, NEW s \in Sids, EventStep(s) PROVE TypeOK'
<1>0. RestOK /\ TaskOK /\ "event" \in Kinds
  BY TypeParts DEF Kinds
<1>1. CASE Refused(s)
  BY <1>0, <1>1, RefusedEffect, TypeHandler DEF Refused, RestOK, redis
<1>2. CASE EnsureLeader(s)
  <2>1. TaskOK'
    BY <1>0, <1>2, GoEffect DEF EnsureLeader, AfterEnsure, Labels
  <2> QED
    BY <1>0, <1>2, <2>1, TypeHandler DEF EnsureLeader, RestOK, redis
<1>3. CASE SetEnsured(s)
  <2>1. TaskOK'
    BY <1>0, <1>3, GoEffect DEF SetEnsured, Labels
  <2> QED
    BY <1>0, <1>3, <2>1, TypeHandler DEF SetEnsured, RestOK
<1>4. CASE AnnounceEnsured(s)
  <2>1. TaskOK'
    BY <1>0, <1>4, GoEffect DEF AnnounceEnsured, AfterEnsure, Labels
  <2> QED
    BY <1>0, <1>4, <2>1, TypeHandler, AnnouncedType DEF AnnounceEnsured, RestOK, redis
<1>5. CASE SyncRequest(s)
  <2>1. TaskOK' /\ leader' \in Sids \cup {None}
    BY <1>0, <1>5, SyncRequestEffect DEF RestOK
  <2> QED
    BY <1>0, <1>5, <2>1, TypeHandler DEF SyncRequest, RestOK
<1>6. CASE SetSync(s)
  <2>1. TaskOK'
    BY <1>0, <1>6, GoEffect DEF SetSync, Labels
  <2>2. task[s]["event"].pick \in Sids \cup {None}
    BY <1>0 DEF TaskOK, TaskRecs
  <2> QED
    BY <1>0, <1>6, <2>1, <2>2, TypeHandler DEF SetSync, RestOK
<1>7. CASE AnnounceSync(s)
  <2>1. TaskOK'
    BY <1>0, <1>7, IdleType, GotoEffect DEF AnnounceSync
  <2> QED
    BY <1>0, <1>7, <2>1, TypeHandler, AnnouncedType DEF AnnounceSync, RestOK, redis
<1> QED
  BY <1>1, <1>2, <1>3, <1>4, <1>5, <1>6, <1>7 DEF EventStep

(* Reading a message takes the first of a sequence.                        *)
LEMMA HeadTail ==
  ASSUME NEW S, NEW q \in Seq(S), q # <<>>
  PROVE  /\ Head(q) \in S /\ Tail(q) \in Seq(S)
         /\ Tail(q) = <<>> => q[Len(q)] = Head(q)
         /\ Tail(q) # <<>> => Tail(q)[Len(Tail(q))] = q[Len(q)]
<1>1. /\ Len(q) \in Nat /\ Len(q) >= 1 /\ Head(q) = q[1] /\ Head(q) \in S
      /\ Tail(q) \in Seq(S) /\ Len(Tail(q)) = Len(q) - 1
      /\ \A i \in 1..(Len(q) - 1) : Tail(q)[i] = q[i + 1]
  OBVIOUS
<1>2. ASSUME Tail(q) = <<>> PROVE q[Len(q)] = Head(q)
  <2>1. PICK n \in Nat : n = Len(q)
    BY <1>1
  <2>2. n - 1 = 0
    BY <1>1, <1>2, <2>1
  <2>3. n = 1
    BY <2>2
  <2> QED
    BY <1>1, <2>1, <2>3
<1>3. ASSUME Tail(q) # <<>> PROVE Tail(q)[Len(Tail(q))] = q[Len(q)]
  <2>1. Len(q) - 1 \in 1..(Len(q) - 1) /\ (Len(q) - 1) + 1 = Len(q)
    BY <1>1, <1>3
  <2> QED
    BY <1>1, <2>1
<1> QED
  BY <1>1, <1>2, <1>3

(* Every step keeps the types.                                             *)
LEMMA TypeStep == TypeOK /\ [Next]_vars => TypeOK'
<1> SUFFICES ASSUME TypeOK, [Next]_vars PROVE TypeOK'
  OBVIOUS
<1>0. RestOK /\ TaskOK
  BY TypeParts
<1>p. RestOK' /\ TaskOK' => TypeOK'
  BY DEF TypeOK, RestOK, TaskOK, TaskRecs
<1>k. Kinds = {"join", "leave", "event"} /\ {"set_session", "delete_session", "ensure"} \subseteq Labels
  BY DEF Kinds, Labels
<1>b. (overlapped \/ Running # {}) \in BOOLEAN
  OBVIOUS
<1>1. ASSUME NEW s \in Sids, Connect(s) PROVE TypeOK'
  <2>1. TaskOK' /\ overlapped' \in BOOLEAN
    BY <1>0, <1>k, <1>1, StartEffect DEF Connect
  <2>2. sock' \in [Sids -> {"new", "up", "gone"}]
    BY <1>0, <1>1 DEF Connect, RestOK
  <2>3. RestOK'
    BY <1>0, <1>1, <2>1, <2>2 DEF Connect, RestOK, redis
  <2> QED
    BY <2>1, <2>3, <1>p
<1>2. ASSUME NEW s \in Sids, Disconnect(s) PROVE TypeOK'
  <2>1. TaskOK' /\ overlapped' \in BOOLEAN
    BY <1>0, <1>k, <1>2, StartEffect DEF Disconnect
  <2>2. sock' \in [Sids -> {"new", "up", "gone"}] /\ isLeader' \in [Sids -> BOOLEAN]
    BY <1>0, <1>2 DEF Disconnect, RestOK
  <2>3. inbox' \in [Sids -> Seq(BOOLEAN)]
    BY <1>0, <1>2 DEF Disconnect, RestOK
  <2>4. RestOK'
    BY <1>0, <1>2, <2>1, <2>2, <2>3 DEF Disconnect, RestOK, redis
  <2> QED
    BY <2>1, <2>4, <1>p
<1>3. ASSUME NEW s \in Sids, SendEvent(s) PROVE TypeOK'
  <2>1. TaskOK' /\ overlapped' \in BOOLEAN
    BY <1>0, <1>k, <1>3, StartEffect DEF SendEvent
  <2>2. RestOK'
    BY <1>0, <1>3, <2>1 DEF SendEvent, RestOK, redis
  <2> QED
    BY <2>1, <2>2, <1>p
<1>4. ASSUME NEW s \in Sids, OnStatus(s) PROVE TypeOK'
  <2>1. inbox[s] \in Seq(BOOLEAN) /\ inbox[s] # <<>>
    BY <1>0, <1>4 DEF OnStatus, RestOK
  <2>2. Head(inbox[s]) \in BOOLEAN /\ Tail(inbox[s]) \in Seq(BOOLEAN)
    BY <2>1, HeadTail
  <2>3. isLeader' \in [Sids -> BOOLEAN] /\ inbox' \in [Sids -> Seq(BOOLEAN)]
    BY <1>0, <1>4, <2>2 DEF OnStatus, RestOK
  <2>4. RestOK' /\ TaskOK'
    BY <1>0, <1>4, <2>3 DEF OnStatus, RestOK, TaskOK, redis
  <2> QED
    BY <2>4, <1>p
<1>5. CASE Expire
  <2>1. /\ map' \subseteq Sids /\ leader' \in Sids \cup {None} /\ expiries' \in Nat
        /\ overlapped' \in BOOLEAN
    BY <1>0, <1>5 DEF Expire, RestOK
  <2>2. RestOK' /\ TaskOK'
    BY <1>0, <1>5, <2>1 DEF Expire, RestOK, TaskOK
  <2> QED
    BY <2>2, <1>p
<1>6. CASE UNCHANGED vars
  <2>1. RestOK' /\ TaskOK'
    BY <1>0, <1>6 DEF vars, RestOK, TaskOK
  <2> QED
    BY <2>1, <1>p
<1> QED
  BY <1>1, <1>2, <1>3, <1>4, <1>5, <1>6, TypeJoin, TypeLeave, TypeEvent DEF Next

(* Every reachable state of the room is well typed; in particular the role *)
(* a join reports is decided, and every chosen leader is a socket or none. *)
THEOREM TypeCorrect == Spec => []TypeOK
  BY TypeInit, TypeStep, PTL DEF Spec

-----------------------------------------------------------------------------
(* A socket joins once at a time.                                          *)

(* A handler moves on, and no other one with it.                           *)
Moves(s, k) ==
    /\ Step /\ OthersKeep(s, k)
    /\ task[s][k].at # "idle" /\ task'[s][k].at # "ensure"

(* Every step of a handler but the refusal of an event is such a move.     *)
LEMMA JoinMoves ==
  ASSUME TypeOK, NEW s \in Sids, JoinStep(s), ~Online(s, "join")
  PROVE  Moves(s, "join")
<1>0. TaskOK /\ "join" \in Kinds /\ Idle.at = "idle"
  BY TypeParts, IdleType DEF Kinds
<1>1. CASE SetSession(s)
  BY <1>0, <1>1, GoEffect DEF SetSession, At, Labels, Moves
<1>2. CASE SetMapping(s)
  BY <1>0, <1>2, SetMappingEffect DEF SetMapping, At, Moves
<1>3. CASE DropLeader(s)
  BY <1>0, <1>3, GoEffect DEF DropLeader, At, Labels, Moves
<1>4. CASE SetIfAbsent(s)
  BY <1>0, <1>4, SetIfAbsentEffect DEF SetIfAbsent, At, Moves
<1>5. CASE AnnounceJoin(s)
  BY <1>0, <1>5, GoEffect DEF AnnounceJoin, At, Labels, Moves
<1>6. CASE GetAgain(s)
  BY <1>0, <1>6, GetAgainEffect DEF GetAgain, At, Moves
<1>7. CASE EmitStatus(s)
  BY <1>0, <1>7, IdleType, GotoEffect DEF EmitStatus, At, Moves
<1> QED
  BY <1>1, <1>2, <1>3, <1>4, <1>5, <1>6, <1>7 DEF JoinStep

(* The list of users, in a join or a disconnect.                           *)
LEMMA OnlineMoves ==
  ASSUME TypeOK, NEW s \in Sids, NEW k \in Kinds, Online(s, k)
  PROVE  Moves(s, k)
<1>0. TaskOK
  BY TypeParts
<1>1. CASE Prune(s, k)
  BY <1>0, <1>1, PruneEffect DEF Prune, At, Moves
<1>2. CASE CheckLeader(s, k)
  BY <1>0, <1>2, CheckLeaderEffect, AfterOnlineType DEF CheckLeader, At, Moves
<1>3. CASE SetOnline(s, k)
  BY <1>0, <1>3, GoEffect, AfterOnlineType DEF SetOnline, At, Labels, Moves
<1>4. CASE AnnounceOnline(s, k)
  BY <1>0, <1>4, GoEffect, AfterOnlineType DEF AnnounceOnline, At, Moves
<1> QED
  BY <1>1, <1>2, <1>3, <1>4 DEF Online

(* The disconnect handler.                                                 *)
LEMMA LeaveMoves ==
  ASSUME TypeOK, NEW s \in Sids, LeaveStep(s), ~Online(s, "leave")
  PROVE  Moves(s, "leave")
<1>0. TaskOK /\ "leave" \in Kinds /\ Idle.at = "idle"
  BY TypeParts, IdleType DEF Kinds
<1>1. CASE DeleteSession(s)
  BY <1>0, <1>1, DeleteSessionEffect DEF DeleteSession, At, Moves
<1>2. CASE SetLeft(s)
  BY <1>0, <1>2, GoEffect DEF SetLeft, At, Labels, Moves
<1>3. CASE AnnounceLeft(s)
  BY <1>0, <1>3, GoEffect DEF AnnounceLeft, At, Labels, Moves
<1> QED
  BY <1>1, <1>2, <1>3 DEF LeaveStep

(* The event handlers.                                                     *)
LEMMA EventMoves ==
  ASSUME TypeOK, NEW s \in Sids, EventStep(s), ~Refused(s)
  PROVE  Moves(s, "event")
<1>0. TaskOK /\ "event" \in Kinds /\ Idle.at = "idle"
  BY TypeParts, IdleType DEF Kinds
<1>2. CASE EnsureLeader(s)
  BY <1>0, <1>2, GoEffect DEF EnsureLeader, AfterEnsure, At, Labels, Moves
<1>3. CASE SetEnsured(s)
  BY <1>0, <1>3, GoEffect DEF SetEnsured, At, Labels, Moves
<1>4. CASE AnnounceEnsured(s)
  BY <1>0, <1>4, GoEffect DEF AnnounceEnsured, AfterEnsure, At, Labels, Moves
<1>5. CASE SyncRequest(s)
  BY <1>0, <1>5, SyncRequestEffect DEF SyncRequest, At, Moves
<1>6. CASE SetSync(s)
  BY <1>0, <1>6, GoEffect DEF SetSync, At, Labels, Moves
<1>7. CASE AnnounceSync(s)
  BY <1>0, <1>7, IdleType, GotoEffect DEF AnnounceSync, At, Moves
<1> QED
  BY <1>2, <1>3, <1>4, <1>5, <1>6, <1>7 DEF EventStep

(* A move starts nothing.                                                  *)
LEMMA MovesApart ==
  ASSUME JoinsApart, NEW s \in Sids, NEW k \in Kinds, Moves(s, k)
  PROVE  JoinsApart'
  BY DEF JoinsApart, Moves, OthersKeep, Step, At, Kinds

(* Every step keeps the joins of a socket apart.                           *)
LEMMA ApartStep == TypeOK /\ JoinsApart /\ [Next]_vars => JoinsApart'
<1> SUFFICES ASSUME TypeOK, JoinsApart, [Next]_vars PROVE JoinsApart'
  OBVIOUS
<1>0. TaskOK /\ RestOK
  BY TypeParts
<1>k. /\ "join" \in Kinds /\ "leave" \in Kinds /\ "event" \in Kinds /\ Idle.at = "idle"
      /\ {"set_session", "delete_session", "ensure"} \subseteq Labels
  BY IdleType DEF Kinds, Labels
<1>1. ASSUME NEW s \in Sids, Connect(s) PROVE JoinsApart'
  <2>1. OthersKeep(s, "join") /\ task'[s]["join"].at = "set_session"
    BY <1>0, <1>k, <1>1, StartEffect DEF Connect
  <2>2. sock[s] = "new" /\ sock'[s] = "up" /\ \A r \in Sids \ {s} : sock'[r] = sock[r]
    BY <1>0, <1>1 DEF Connect, RestOK
  <2> QED
    BY <2>1, <2>2 DEF JoinsApart, OthersKeep, At, Kinds
<1>2. ASSUME NEW s \in Sids, Disconnect(s) PROVE JoinsApart'
  <2>1. OthersKeep(s, "leave")
    BY <1>0, <1>k, <1>2, StartEffect DEF Disconnect
  <2>2. sock[s] = "up" /\ sock'[s] = "gone" /\ \A r \in Sids \ {s} : sock'[r] = sock[r]
    BY <1>0, <1>2 DEF Disconnect, RestOK
  <2> QED
    BY <2>1, <2>2 DEF JoinsApart, OthersKeep, At, Kinds
<1>3. ASSUME NEW s \in Sids, SendEvent(s) PROVE JoinsApart'
  <2>1. OthersKeep(s, "event") /\ task'[s]["event"].at = "ensure"
    BY <1>0, <1>k, <1>3, StartEffect DEF SendEvent
  <2>2. sock[s] = "up" /\ sock' = sock /\ task[s]["join"].at = "idle"
    BY <1>3 DEF SendEvent, At
  <2> QED
    BY <2>1, <2>2 DEF JoinsApart, OthersKeep, At, Kinds
<1>4. ASSUME NEW s \in Sids, Refused(s) PROVE JoinsApart'
  <2>1. /\ \A r \in Sids, j \in Kinds : r # s \/ j = "leave" => task'[r][j] = task[r][j]
        /\ task'[s]["event"].at = "idle"
        /\ task'[s]["join"].at = IF sock[s] = "up" THEN "set_session" ELSE "idle"
        /\ sock' = sock /\ task[s]["event"].at = "ensure"
    BY <1>0, <1>k, <1>4, RefusedEffect DEF Refused, Step, At
  <2> QED
    BY <2>1 DEF JoinsApart, At, Kinds
<1>5. ASSUME NEW s \in Sids, JoinStep(s) \/ LeaveStep(s) \/ EventStep(s) PROVE JoinsApart'
  BY <1>k, <1>4, <1>5, JoinMoves, LeaveMoves, OnlineMoves, EventMoves, MovesApart
<1>6. CASE UNCHANGED <<sock, task>>
  BY <1>6 DEF JoinsApart, At
<1> QED
  BY <1>1, <1>2, <1>3, <1>5, <1>6 DEF Next, OnStatus, Expire, vars

-----------------------------------------------------------------------------
(* Nobody who left stays listed.                                           *)

(* A field of the hash keeps its promise when its socket, its mapping and  *)
(* its own handlers do not go past the cleanup.                            *)
LEMMA GhostKept ==
  ASSUME GhostsCleaned, NEW s \in Sids, NEW k \in Kinds, OthersKeep(s, k), hash \subseteq Sids,
         hash' \subseteq hash, hash \cap map \cap hash' \subseteq map',
         UNCHANGED <<sock, expiries>>,
         k = "join" /\ task[s][k].at \in BeforePrune => task'[s][k].at \in BeforePrune,
         k = "join" /\ task[s][k].at = "set_mapping" => s \in map',
         k = "leave" /\ s \in hash' => task[s][k].at # "delete_session"
  PROVE  GhostsCleaned'
  BY DEF GhostsCleaned, OthersKeep, At, Kinds, BeforePrune

(* A prune leaves nobody who is gone.                                      *)
LEMMA GhostPrune ==
  ASSUME TypeOK, NEW s \in Sids, NEW k \in Kinds, Prune(s, k)
  PROVE  GhostsCleaned'
<1>1. \A r \in hash' : r \in Active /\ r \in hash /\ r \in map' /\ sock'[r] = "up"
  BY ActiveType DEF Prune, Step
<1> QED
  BY <1>1 DEF GhostsCleaned

(* The rest of broadcast_online_users touches neither key.                 *)
LEMMA GhostOnline ==
  ASSUME GhostInv, NEW s \in Sids, NEW k \in Kinds, Online(s, k)
  PROVE  GhostsCleaned'
<1>0. TypeOK /\ GhostsCleaned /\ hash \subseteq Sids
  BY DEF GhostInv, TypeOK
<1>1. CASE Prune(s, k)
  BY <1>0, <1>1, GhostPrune
<1>2. CASE ~Prune(s, k)
  <2>1. UNCHANGED <<hash, map, sock, expiries>>
    BY <1>2 DEF Online, CheckLeader, SetOnline, AnnounceOnline, redis, Step
  <2>2. task[s][k].at \in {"check_leader", "set_online", "announce_online"}
    BY <1>2 DEF Online, CheckLeader, SetOnline, AnnounceOnline, At
  <2>3. OthersKeep(s, k)
    BY <1>0, OnlineMoves DEF Moves
  <2> QED
    BY <1>0, <2>1, <2>2, <2>3, GhostKept DEF BeforePrune
<1> QED
  BY <1>1, <1>2

(* A join puts itself in the hash and stays until it has pruned.           *)
LEMMA GhostJoin ==
  ASSUME GhostInv, NEW s \in Sids, JoinStep(s)
  PROVE  GhostsCleaned'
<1>0. TypeOK /\ TaskOK /\ GhostsCleaned /\ "join" \in Kinds /\ hash \subseteq Sids
  BY TypeParts DEF GhostInv, TypeOK, Kinds
<1>1. CASE Online(s, "join")
  BY <1>0, <1>1, GhostOnline
<1> SUFFICES ASSUME ~Online(s, "join") PROVE GhostsCleaned'
  BY <1>1
<1>2. OthersKeep(s, "join") /\ UNCHANGED <<sock, expiries>>
  BY <1>0, JoinMoves DEF Moves, Step
<1>3. CASE SetSession(s)
  <2>1. hash' = hash \cup {s} /\ map' = map /\ task'[s]["join"].at = "set_mapping"
    BY <1>0, <1>3, GoEffect DEF SetSession, Labels
  <2> QED
    BY <1>0, <1>2, <2>1 DEF GhostsCleaned, OthersKeep, At, Kinds, BeforePrune
<1>4. CASE SetMapping(s)
  <2>1. hash' = hash /\ map' = map \cup {s} /\ task'[s]["join"].at \in BeforePrune
    BY <1>0, <1>4, SetMappingEffect DEF SetMapping, BeforePrune
  <2> QED
    BY <1>0, <1>2, <2>1, GhostKept
<1>5. CASE DropLeader(s)
  <2>1. /\ task'[s]["join"].at \in BeforePrune /\ task[s]["join"].at = "drop_leader"
        /\ hash' = hash \ {task[s]["join"].got} /\ map' = map \ {task[s]["join"].got}
    BY <1>0, <1>5, GoEffect DEF DropLeader, At, Labels, BeforePrune
  <2> QED
    BY <1>0, <1>2, <2>1, GhostKept
<1>6. CASE SetIfAbsent(s)
  <2>1. /\ task'[s]["join"].at \in BeforePrune /\ task[s]["join"].at = "set_if_absent"
        /\ hash' = hash /\ map' = map
    BY <1>0, <1>6, SetIfAbsentEffect DEF SetIfAbsent, At, BeforePrune
  <2> QED
    BY <1>0, <1>2, <2>1, GhostKept
<1>7. CASE AnnounceJoin(s)
  <2>1. /\ task'[s]["join"].at \in BeforePrune /\ task[s]["join"].at = "announce_join"
        /\ hash' = hash /\ map' = map
    BY <1>0, <1>7, GoEffect DEF AnnounceJoin, At, Labels, BeforePrune, redis
  <2> QED
    BY <1>0, <1>2, <2>1, GhostKept
<1>8. CASE GetAgain(s)
  <2>1. /\ task'[s]["join"].at \in BeforePrune /\ task[s]["join"].at = "get_again"
        /\ hash' = hash /\ map' = map
    BY <1>0, <1>8, GetAgainEffect DEF GetAgain, At, BeforePrune, redis
  <2> QED
    BY <1>0, <1>2, <2>1, GhostKept
<1>9. CASE EmitStatus(s)
  <2>1. task[s]["join"].at = "status" /\ hash' = hash /\ map' = map
    BY <1>9 DEF EmitStatus, At, redis
  <2> QED
    BY <1>0, <1>2, <2>1, GhostKept DEF BeforePrune
<1> QED
  BY <1>3, <1>4, <1>5, <1>6, <1>7, <1>8, <1>9 DEF JoinStep

(* A disconnect deletes its session, or leaves it to a join on its way.    *)
LEMMA GhostLeave ==
  ASSUME GhostInv, NEW s \in Sids, LeaveStep(s)
  PROVE  GhostsCleaned'
<1>0. TypeOK /\ TaskOK /\ GhostsCleaned /\ "leave" \in Kinds /\ hash \subseteq Sids
  BY TypeParts DEF GhostInv, TypeOK, Kinds
<1>1. CASE Online(s, "leave")
  BY <1>0, <1>1, GhostOnline
<1> SUFFICES ASSUME ~Online(s, "leave") PROVE GhostsCleaned'
  BY <1>1
<1>2. OthersKeep(s, "leave") /\ UNCHANGED <<sock, expiries>>
  BY <1>0, LeaveMoves DEF Moves, Step
<1>3. CASE DeleteSession(s) /\ s \notin map
  <2>1. hash' = hash /\ map' = map
    BY <1>3 DEF DeleteSession
  <2> QED
    BY <1>0, <1>2, <1>3, <2>1 DEF GhostsCleaned, OthersKeep, At, Kinds, BeforePrune
<1>4. CASE DeleteSession(s) /\ s \in map
  <2>1. hash' = hash \ {s} /\ map' = map \ {s}
    BY <1>4 DEF DeleteSession
  <2> QED
    BY <1>0, <1>2, <2>1, GhostKept
<1>5. CASE SetLeft(s) \/ AnnounceLeft(s)
  <2>1. task[s]["leave"].at # "delete_session" /\ hash' = hash /\ map' = map
    BY <1>5 DEF SetLeft, AnnounceLeft, At, redis
  <2> QED
    BY <1>0, <1>2, <2>1, GhostKept
<1> QED
  BY <1>3, <1>4, <1>5 DEF LeaveStep

(* An event touches neither key; a refused one had no session.             *)
LEMMA GhostEvent ==
  ASSUME GhostInv, NEW s \in Sids, EventStep(s)
  PROVE  GhostsCleaned'
<1>0. TypeOK /\ TaskOK /\ GhostsCleaned /\ "event" \in Kinds /\ hash \subseteq Sids
  BY TypeParts DEF GhostInv, TypeOK, Kinds
<1>1. UNCHANGED <<hash, map, sock, expiries>>
  BY DEF EventStep, Refused, EnsureLeader, SetEnsured, AnnounceEnsured, SyncRequest,
     SetSync, AnnounceSync, redis, Step
<1>2. CASE Refused(s)
  <2>1. task[s]["join"].at = "idle" /\ s \notin map
    BY <1>2 DEF Refused, GhostInv, JoinsApart, At
  <2>2. \A r \in Sids, j \in Kinds : r # s \/ j = "leave" => task'[r][j] = task[r][j]
    BY <1>0, <1>2, RefusedEffect
  <2>3. expiries = 0 => s \notin hash
    BY <1>0, <2>1 DEF GhostsCleaned, At
  <2> QED
    BY <1>0, <1>1, <2>2, <2>3 DEF GhostsCleaned, At, Kinds
<1>3. CASE ~Refused(s)
  <2>1. OthersKeep(s, "event")
    BY <1>0, <1>3, EventMoves DEF Moves
  <2> QED
    BY <1>0, <1>1, <2>1, GhostKept
<1> QED
  BY <1>2, <1>3

(* Every step leaves whoever left to somebody who cleans up.               *)
LEMMA GhostStep == GhostInv /\ [Next]_vars => GhostsCleaned'
<1> SUFFICES ASSUME GhostInv, [Next]_vars PROVE GhostsCleaned'
  OBVIOUS
<1>0. TaskOK /\ RestOK /\ GhostsCleaned /\ hash \subseteq Sids
  BY TypeParts DEF GhostInv, RestOK
<1>k. /\ "join" \in Kinds /\ "leave" \in Kinds /\ "event" \in Kinds
      /\ {"set_session", "delete_session", "ensure"} \subseteq Labels
  BY DEF Kinds, Labels
<1>1. ASSUME NEW s \in Sids, Connect(s) PROVE GhostsCleaned'
  <2>1. OthersKeep(s, "join") /\ task[s]["join"].at = "idle"
    BY <1>0, <1>k, <1>1, StartEffect DEF Connect
  <2>2. /\ sock'[s] = "up" /\ \A r \in Sids \ {s} : sock'[r] = sock[r]
        /\ UNCHANGED <<hash, map, expiries>>
    BY <1>0, <1>1 DEF Connect, RestOK, redis
  <2> QED
    BY <1>0, <2>1, <2>2 DEF GhostsCleaned, OthersKeep, At, Kinds, BeforePrune
<1>2. ASSUME NEW s \in Sids, Disconnect(s) PROVE GhostsCleaned'
  <2>1. OthersKeep(s, "leave") /\ task'[s]["leave"].at = "delete_session"
    BY <1>0, <1>k, <1>2, StartEffect DEF Disconnect
  <2>2. /\ \A r \in Sids \ {s} : sock'[r] = sock[r]
        /\ UNCHANGED <<hash, map, expiries>>
    BY <1>0, <1>2 DEF Disconnect, RestOK, redis
  <2> QED
    BY <1>0, <2>1, <2>2 DEF GhostsCleaned, OthersKeep, At, Kinds, BeforePrune
<1>3. ASSUME NEW s \in Sids, SendEvent(s) PROVE GhostsCleaned'
  <2>1. OthersKeep(s, "event") /\ UNCHANGED <<sock, hash, map, expiries>>
    BY <1>0, <1>k, <1>3, StartEffect DEF SendEvent, redis
  <2> QED
    BY <1>0, <1>k, <2>1, GhostKept
<1>4. CASE Expire
  <2>1. expiries' # 0
    BY <1>0, <1>4 DEF Expire, RestOK
  <2> QED
    BY <2>1 DEF GhostsCleaned
<1>5. CASE UNCHANGED <<sock, hash, map, task, expiries>>
  <2>1. sock' = sock /\ hash' = hash /\ map' = map /\ task' = task /\ expiries' = expiries
    BY <1>5
  <2> QED
    BY <1>0, <2>1 DEF GhostsCleaned, At, BeforePrune
<1> QED
  BY <1>1, <1>2, <1>3, <1>4, <1>5, GhostJoin, GhostLeave, GhostEvent
     DEF Next, OnStatus, vars, redis

(* Whatever joins, leaves and events interleave, for any number of sockets *)
(* and handlers: once the handlers are done nobody who left is listed.     *)
THEOREM NobodyHaunts == Spec => []NoGhostMembers
<1>1. Init => GhostInv
  <2> SUFFICES ASSUME Init PROVE GhostInv
    OBVIOUS
  <2>1. \A s \in Sids, k \in Kinds : task[s][k].at = "idle"
    BY IdleType DEF Init
  <2>2. JoinsApart
    BY <2>1 DEF JoinsApart, At, Kinds
  <2>3. GhostsCleaned
    BY DEF GhostsCleaned, Init
  <2> QED
    BY <2>2, <2>3, TypeInit DEF GhostInv
<1>2. GhostInv /\ [Next]_vars => GhostInv'
  BY TypeStep, ApartStep, GhostStep DEF GhostInv
<1>3. GhostInv => NoGhostMembers
  <2> SUFFICES ASSUME GhostInv, Running = {}, expiries = 0, NEW s \in hash
               PROVE  sock[s] = "up"
    BY DEF NoGhostMembers
  <2>1. s \in Sids /\ "join" \in Kinds /\ "leave" \in Kinds
    BY DEF GhostInv, TypeOK, Kinds
  <2>2. <<s, "join">> \notin Running /\ <<s, "leave">> \notin Running
    OBVIOUS
  <2>3. task[s]["join"].at = "idle" /\ task[s]["leave"].at = "idle"
    BY <2>1, <2>2 DEF Running
  <2> QED
    BY <2>3 DEF GhostInv, GhostsCleaned, At, BeforePrune
<1> QED
  BY <1>1, <1>2, <1>3, PTL DEF Spec

-----------------------------------------------------------------------------
(* Handlers that run alone keep the flags right.                           *)

(* The active sessions of the next state.                                  *)
LEMMA ActiveNext == \A r : r \in Active' <=> r \in hash' /\ r \in map' /\ sock'[r] = "up"
  BY DEF Active, ActiveIn

(* Sessions that stop being active, and keys that stay, disturb no flag.   *)
LEMMA AgreeKept ==
  ASSUME NEW out, NEW also, AgreeExcept(out), Active' \subseteq Active \cup also, leader' = leader,
         \A r \in Active' : inbox'[r] = inbox[r] /\ isLeader'[r] = isLeader[r]
  PROVE  AgreeExcept(out \cup also)'
  BY DEF AgreeExcept, Believes

(* Nobody active led: nobody active is told when the key goes.             *)
LEMMA AgreeLost ==
  ASSUME TypeOK, NEW out, AgreeExcept(out), Active' \subseteq Active,
         leader \notin Active, leader' = None,
         \A r \in Active' : inbox'[r] = inbox[r] /\ isLeader'[r] = isLeader[r]
  PROVE  AgreeExcept(out)'
<1>1. \A r \in Active : r # None /\ r # leader
  BY ActiveType, NoneAssumption
<1> QED
  BY <1>1 DEF AgreeExcept, Believes

(* An announcement reaches every active session.                           *)
LEMMA AgreeAnnounced ==
  ASSUME TypeOK, inbox' = Announced(leader), UNCHANGED redis, Step, NEW out
  PROVE  AgreeExcept(out)'
<1> SUFFICES ASSUME NEW r \in Active' PROVE Believes(r)' = (r = leader) /\ leader' = leader
  BY DEF AgreeExcept
<1>1. r \in Sids /\ r \in hash /\ sock[r] = "up" /\ leader' = leader
  BY ActiveNext DEF redis, Step, TypeOK
<1>2. inbox'[r] = Append(inbox[r], r = leader) /\ inbox[r] \in Seq(BOOLEAN)
  BY <1>1 DEF Announced, TypeOK
<1>3. (r = leader) \in BOOLEAN
  OBVIOUS
<1>4. \A b \in BOOLEAN : /\ Append(inbox[r], b) # <<>>
                         /\ Append(inbox[r], b)[Len(Append(inbox[r], b))] = b
  BY <1>2
<1> QED
  BY <1>1, <1>2, <1>3, <1>4 DEF Believes

(* While one handler runs alone every other one is at rest.                *)
LEMMA OthersIdle ==
  ASSUME HandlersAlone, ~overlapped, NEW s \in Sids, NEW k \in Kinds, task[s][k].at # "idle"
  PROVE  \A r \in Sids, j \in Kinds : r # s \/ j # k => task[r][j].at = "idle"
<1> SUFFICES ASSUME NEW r \in Sids, NEW j \in Kinds, task[r][j].at # "idle"
             PROVE  r = s /\ j = k
  OBVIOUS
<1>1. <<s, k>> \in Running /\ <<r, j>> \in Running
  BY DEF Running
<1> QED
  BY <1>1 DEF HandlersAlone

(* It is enough to look at the handler that takes the step.                *)
LEMMA AloneNext ==
  ASSUME NEW s \in Sids, NEW k \in Kinds,
         \A r \in Sids, j \in Kinds : r # s \/ j # k => task'[r][j].at = "idle",
         \A r \in Sids : sock'[r] = "new" => r \notin map',
         k = "join" => JoinAlone(s)',
         k = "leave" => LeaveAlone(s)',
         k = "event" => EventAlone(s)',
         task'[s][k].at = "idle" => AgreeExcept({})'
  PROVE  HandlersAlone'
<1>1. \A p \in Running' : p = <<s, k>>
  BY DEF Running
<1>2. Running' = {} => AgreeExcept({})'
  <2>1. task'[s][k].at # "idle" => <<s, k>> \in Running'
    BY DEF Running
  <2> QED
    BY <2>1
<1>3. \A r \in Sids : JoinAlone(r)'
  BY DEF JoinAlone, Kinds
<1>4. \A r \in Sids : LeaveAlone(r)'
  BY DEF LeaveAlone, Kinds
<1>5. \A r \in Sids : EventAlone(r)'
  BY DEF EventAlone, Kinds
<1> QED
  BY <1>1, <1>2, <1>3, <1>4, <1>5 DEF HandlersAlone

(* A prune keeps the active sessions, and lists them.                      *)
LEMMA PruneActive ==
  ASSUME TypeOK, NEW s \in Sids, NEW k \in Kinds, Prune(s, k)
  PROVE  Active' = Active
<1>1. \A r : r \in Active' <=> r \in Active
  BY ActiveType, ActiveNext DEF Prune, Step
<1> QED
  BY <1>1

(* A join alone: the session it makes active is the only one in doubt, and *)
(* the status it sends at its end removes that doubt.                      *)
LEMMA AloneJoin ==
  ASSUME AloneInv, NEW s \in Sids, JoinStep(s), ~overlapped
  PROVE  JoinAlone(s)' /\ (task'[s]["join"].at = "idle" => AgreeExcept({})')
<1>0. TypeOK /\ TaskOK /\ JoinAlone(s) /\ "join" \in Kinds /\ {} \cup {s} = {s} /\ s # None
  BY TypeParts, NoneAssumption DEF AloneInv, HandlersAlone, Kinds
<1>1. CASE SetSession(s)
  <2>1. /\ sock[s] = "up" /\ s \notin map /\ AgreeExcept({}) /\ task'[s]["join"].at = "set_mapping"
        /\ hash' = hash \cup {s} /\ UNCHANGED <<map, leader, inbox, sock, isLeader>>
    BY <1>0, <1>1, GoEffect DEF SetSession, At, JoinAlone, Step, Labels
  <2>2. Active' \subseteq Active
    BY <1>0, <2>1, ActiveType, ActiveNext
  <2>3. AgreeExcept({} \cup {})'
    BY <2>1, <2>2, AgreeKept
  <2>4. AgreeExcept({})'
    BY <2>3
  <2> QED
    BY <2>1, <2>4 DEF JoinAlone
<1>2. CASE SetMapping(s)
  <2>1. /\ sock[s] = "up" /\ s \in hash \ map /\ AgreeExcept({})
        /\ map' = map \cup {s} /\ UNCHANGED <<hash, leader, inbox, sock, isLeader>>
    BY <1>0, <1>2 DEF SetMapping, At, JoinAlone, Step
  <2>2. Active' = Active \cup {s} /\ Active' = ActiveIn(hash \cap (map \cup {s}))
    <3>1. \A r : r \in Active' <=> r \in Active \cup {s}
      BY <1>0, <2>1, ActiveType, ActiveNext
    <3> QED
      BY <2>1, <3>1 DEF Active, ActiveIn
  <2>3. AgreeExcept({} \cup {s})'
    BY <2>1, <2>2, AgreeKept
  <2>4. AgreeExcept({s})' /\ s \in Active'
    BY <1>0, <2>2, <2>3
  <2>5. \/ /\ leader \in Active'
           /\ task'[s]["join"].at = "prune" /\ task'[s]["join"].role = (leader = s)
        \/ leader = None /\ task'[s]["join"].at = "set_if_absent"
        \/ /\ leader \notin Active' /\ leader # None
           /\ task'[s]["join"].at = "drop_leader" /\ task'[s]["join"].got = leader
    BY <1>0, <1>2, <2>2, SetMappingEffect
  <2> QED
    BY <2>1, <2>4, <2>5 DEF JoinAlone
<1>3. CASE DropLeader(s)
  <2>1. /\ s \in Active /\ AgreeExcept({s}) /\ leader \notin Active /\ leader' = None
        /\ hash' = hash \ {leader} /\ map' = map \ {leader}
        /\ task'[s]["join"].at = "set_if_absent" /\ UNCHANGED <<inbox, sock, isLeader>>
    BY <1>0, <1>3, GoEffect DEF DropLeader, At, JoinAlone, Step, Labels
  <2>2. \A r : r \in Active' <=> r \in Active
    BY <1>0, <2>1, ActiveType, ActiveNext
  <2>3. AgreeExcept({s})'
    BY <1>0, <2>1, <2>2, AgreeLost
  <2> QED
    BY <2>1, <2>2, <2>3 DEF JoinAlone
<1>4. CASE SetIfAbsent(s)
  <2>1. /\ s \in Active /\ AgreeExcept({s}) /\ leader = None
        /\ UNCHANGED <<hash, map, inbox, sock, isLeader>>
    BY <1>0, <1>4 DEF SetIfAbsent, At, JoinAlone, Step
  <2>2. /\ leader' = s /\ task'[s]["join"].role = TRUE
        /\ task'[s]["join"].at \in {"prune", "announce_join"}
    BY <1>0, <1>4, <2>1, SetIfAbsentEffect
  <2>3. Active' = Active /\ \A r \in Active : r # None
    BY <1>0, <2>1, ActiveType, NoneAssumption DEF Active, ActiveIn
  <2>4. AgreeExcept({s})'
    BY <2>1, <2>2, <2>3 DEF AgreeExcept, Believes
  <2>5. task'[s]["join"].role = (leader' = s)
    BY <2>2
  <2> QED
    BY <2>1, <2>2, <2>3, <2>4, <2>5 DEF JoinAlone
<1>5. CASE AnnounceJoin(s)
  <2>1. /\ s \in Active /\ leader = s /\ task[s]["join"].role = (leader = s)
        /\ inbox' = Announced(leader) /\ UNCHANGED redis /\ Step
    BY <1>0, <1>5 DEF AnnounceJoin, At, JoinAlone
  <2>2. task'[s]["join"].at = "prune" /\ task'[s]["join"].role = task[s]["join"].role
    BY <1>0, <1>5, GoEffect DEF AnnounceJoin, Labels
  <2>3. Active' = Active /\ leader' = leader
    BY <2>1 DEF Active, ActiveIn, Step, redis
  <2>4. AgreeExcept({s})'
    BY <1>0, <2>1, AgreeAnnounced
  <2> QED
    BY <2>1, <2>2, <2>3, <2>4 DEF JoinAlone
<1>6. CASE GetAgain(s) \/ SetOnline(s, "join") \/ AnnounceOnline(s, "join")
  BY <1>0, <1>6 DEF GetAgain, SetOnline, AnnounceOnline, At, JoinAlone
<1>7. CASE Prune(s, "join")
  <2>1. /\ s \in Active /\ AgreeExcept({s}) /\ leader \in Active
        /\ task[s]["join"].role = (leader = s)
        /\ UNCHANGED <<leader, inbox, sock, isLeader>>
    BY <1>0, <1>7 DEF Prune, At, JoinAlone, Step
  <2>2. /\ task'[s]["join"].at = "check_leader" /\ task'[s]["join"].users = Active
        /\ task'[s]["join"].role = task[s]["join"].role /\ Active' = Active
    BY <1>0, <1>7, PruneEffect, PruneActive
  <2>3. AgreeExcept({s} \cup {})'
    BY <2>1, <2>2, AgreeKept
  <2>4. AgreeExcept({s})'
    BY <2>3, {s} \cup {} = {s}
  <2> QED
    BY <2>1, <2>2, <2>4 DEF JoinAlone
<1>8. CASE CheckLeader(s, "join")
  <2>1. /\ s \in Active /\ AgreeExcept({s}) /\ leader \in Active
        /\ task[s]["join"].users = Active /\ task[s]["join"].role = (leader = s)
        /\ UNCHANGED <<hash, map, inbox, sock, isLeader>>
    BY <1>0, <1>8 DEF CheckLeader, At, JoinAlone, Step
  <2>2. /\ leader' = leader /\ task'[s]["join"].at = "status"
        /\ task'[s]["join"].role = task[s]["join"].role
    BY <1>0, <1>8, <2>1, CheckLeaderEffect DEF AfterOnline
  <2>3. Active' = Active
    BY <2>1 DEF Active, ActiveIn
  <2>4. AgreeExcept({s} \cup {})'
    BY <2>1, <2>2, <2>3, AgreeKept
  <2>5. AgreeExcept({s})'
    BY <2>4, {s} \cup {} = {s}
  <2> QED
    BY <2>1, <2>2, <2>3, <2>5 DEF JoinAlone
<1>9. CASE EmitStatus(s)
  <2> DEFINE b == task[s]["join"].role
  <2>1. /\ s \in Active /\ AgreeExcept({s}) /\ b = (leader = s) /\ sock[s] = "up"
        /\ UNCHANGED <<hash, map, leader, sock, isLeader>>
    BY <1>0, <1>9, ActiveType DEF EmitStatus, At, JoinAlone, Step, redis
  <2>2. b \in BOOLEAN /\ inbox[s] \in Seq(BOOLEAN)
    BY <1>0 DEF TaskOK, TaskRecs, TypeOK
  <2>3. task'[s]["join"].at = "idle"
    BY <1>0, <1>9, IdleType, GotoEffect DEF EmitStatus
  <2>4. inbox'[s] = Append(inbox[s], b) /\ \A r \in Sids \ {s} : inbox'[r] = inbox[r]
    BY <1>0, <1>9, <2>1 DEF EmitStatus, TypeOK
  <2> HIDE DEF b
  <2>5. Append(inbox[s], b) # <<>> /\ Append(inbox[s], b)[Len(Append(inbox[s], b))] = b
    BY <2>2
  <2>6. Believes(s)' = b
    BY <2>4, <2>5 DEF Believes
  <2>7. Active' = Active
    BY <2>1 DEF Active, ActiveIn
  <2>8. \A r \in Active \ {s} : Believes(r)' = Believes(r)
    BY <1>0, <2>1, <2>4, ActiveType DEF Believes
  <2>9. AgreeExcept({})'
    BY <2>1, <2>6, <2>7, <2>8 DEF AgreeExcept
  <2> QED
    BY <2>3, <2>9 DEF JoinAlone
<1> QED
  BY <1>1, <1>2, <1>3, <1>4, <1>5, <1>6, <1>7, <1>8, <1>9 DEF JoinStep, Online

(* A disconnect alone: its own session is no longer active, and whoever it *)
(* makes leader is announced.                                              *)
LEMMA AloneLeave ==
  ASSUME AloneInv, NEW s \in Sids, LeaveStep(s), ~overlapped
  PROVE  LeaveAlone(s)' /\ (task'[s]["leave"].at = "idle" => AgreeExcept({})')
<1>0. /\ TypeOK /\ TaskOK /\ LeaveAlone(s) /\ "leave" \in Kinds /\ {} \cup {} = {}
      /\ Active \in SUBSET Sids
  BY TypeParts, ActiveType DEF AloneInv, HandlersAlone, Kinds
<1>1. CASE DeleteSession(s)
  <2>1. /\ sock[s] # "up" /\ AgreeExcept({}) /\ UNCHANGED <<leader, inbox, sock, isLeader>>
    BY <1>0, <1>1 DEF DeleteSession, At, LeaveAlone, Step
  <2>2. \/ hash' = hash /\ map' = map /\ task'[s]["leave"].at = "idle"
        \/ /\ hash' = hash \ {s} /\ map' = map \ {s}
           /\ \/ task'[s]["leave"].at = "prune"
              \/ /\ task'[s]["leave"].at = "set_left"
                 /\ task'[s]["leave"].pick \in Selected(Active \ {s})
    BY <1>0, <1>1, DeleteSessionEffect, IdleType
  <2>3. Active' = Active /\ Active \ {s} = Active
    <3>1. \A r : r \in Active' <=> r \in Active
      BY <1>0, <2>1, <2>2, ActiveType, ActiveNext
    <3>2. s \notin Active
      BY <1>0, <2>1, ActiveType
    <3> QED
      BY <3>1, <3>2
  <2>4. AgreeExcept({})'
    BY <1>0, <2>1, <2>3, AgreeKept
  <2>5. task'[s]["leave"].at = "set_left" => task'[s]["leave"].pick \in Selected(Active')
    BY <2>2, <2>3
  <2>6. Selected(Active') = Selected(Active)'
    BY DEF Selected
  <2> QED
    BY <2>1, <2>2, <2>4, <2>5, <2>6 DEF LeaveAlone
<1>2. CASE SetLeft(s)
  <2>1. /\ sock[s] # "up" /\ task[s]["leave"].pick \in Selected(Active)
        /\ leader' = task[s]["leave"].pick /\ UNCHANGED <<hash, map, inbox, sock, isLeader>>
    BY <1>0, <1>2 DEF SetLeft, At, LeaveAlone, Step
  <2>2. /\ task'[s]["leave"].at = IF task[s]["leave"].pick = None THEN "prune" ELSE "announce_left"
        /\ task'[s]["leave"].pick = task[s]["leave"].pick
    BY <1>0, <1>2, GoEffect DEF SetLeft, Labels
  <2>3. task[s]["leave"].pick = None => AgreeExcept({})'
    <3>1. task[s]["leave"].pick = None => Active = {}
      BY <1>0, <2>1, SelectedType
    <3> QED
      BY <2>1, <3>1 DEF AgreeExcept, Active, ActiveIn
  <2> QED
    BY <2>1, <2>2, <2>3 DEF LeaveAlone
<1>3. CASE AnnounceLeft(s)
  <2>1. /\ sock[s] # "up" /\ inbox' = Announced(leader) /\ UNCHANGED redis /\ Step
    BY <1>0, <1>3 DEF AnnounceLeft, At, LeaveAlone
  <2>2. task'[s]["leave"].at = "prune" /\ sock' = sock
    BY <1>0, <1>3, <2>1, GoEffect DEF AnnounceLeft, Labels, Step
  <2>3. AgreeExcept({})'
    BY <1>0, <2>1, AgreeAnnounced
  <2> QED
    BY <2>1, <2>2, <2>3 DEF LeaveAlone
<1>4. CASE Prune(s, "leave")
  <2>1. /\ sock[s] # "up" /\ AgreeExcept({}) /\ UNCHANGED <<leader, inbox, sock, isLeader>>
    BY <1>0, <1>4 DEF Prune, At, LeaveAlone, Step
  <2>2. /\ task'[s]["leave"].at = "check_leader" /\ task'[s]["leave"].users = Active
        /\ Active' = Active
    BY <1>0, <1>4, PruneEffect, PruneActive
  <2>3. AgreeExcept({})'
    BY <1>0, <2>1, <2>2, AgreeKept
  <2> QED
    BY <2>1, <2>2, <2>3 DEF LeaveAlone
<1>5. CASE CheckLeader(s, "leave")
  <2>1. /\ sock[s] # "up" /\ AgreeExcept({}) /\ task[s]["leave"].users = Active
        /\ UNCHANGED <<hash, map, inbox, sock, isLeader>>
    BY <1>0, <1>5 DEF CheckLeader, At, LeaveAlone, Step
  <2>2. Active' = Active
    BY <2>1 DEF Active, ActiveIn
  <2>3. CASE leader \in Active
    <3>1. leader' = leader /\ task'[s]["leave"].at = "idle"
      BY <1>0, <1>5, <2>1, <2>3, CheckLeaderEffect DEF AfterOnline
    <3>2. AgreeExcept({})'
      BY <1>0, <2>1, <2>2, <3>1, AgreeKept
    <3> QED
      BY <2>1, <3>1, <3>2 DEF LeaveAlone
  <2>4. CASE leader \notin Active
    <3>1. /\ leader' = None /\ task'[s]["leave"].got = leader
          /\ task'[s]["leave"].pick \in Selected(Active)
          /\ task'[s]["leave"].at = IF task'[s]["leave"].pick # None THEN "set_online"
                                    ELSE IF leader # None THEN "announce_online" ELSE "idle"
      BY <1>0, <1>5, <2>1, <2>4, CheckLeaderEffect DEF AfterOnline
    <3>2. AgreeExcept({})'
      BY <1>0, <2>1, <2>2, <2>4, <3>1, AgreeLost
    <3>3. task'[s]["leave"].pick # None => task'[s]["leave"].pick # leader
      BY <1>0, <2>4, <3>1, SelectedType
    <3> QED
      BY <2>1, <3>1, <3>2, <3>3 DEF LeaveAlone
  <2> QED
    BY <2>3, <2>4
<1>6. CASE SetOnline(s, "leave")
  <2>1. /\ sock[s] # "up" /\ task[s]["leave"].pick # task[s]["leave"].got
        /\ leader' = task[s]["leave"].pick /\ sock' = sock
    BY <1>0, <1>6 DEF SetOnline, At, LeaveAlone, Step
  <2>2. task'[s]["leave"].at = "announce_online" /\ task'[s]["leave"].pick = task[s]["leave"].pick
    BY <1>0, <1>6, <2>1, GoEffect DEF SetOnline, Labels
  <2> QED
    BY <2>1, <2>2 DEF LeaveAlone
<1>7. CASE AnnounceOnline(s, "leave")
  <2>1. /\ sock[s] # "up" /\ inbox' = Announced(leader) /\ UNCHANGED redis /\ Step
    BY <1>0, <1>7 DEF AnnounceOnline, At, LeaveAlone
  <2>2. task'[s]["leave"].at = "idle" /\ sock' = sock
    BY <1>0, <1>7, <2>1, GoEffect DEF AnnounceOnline, AfterOnline, Labels, Step
  <2>3. AgreeExcept({})'
    BY <1>0, <2>1, AgreeAnnounced
  <2> QED
    BY <2>1, <2>2, <2>3 DEF LeaveAlone
<1> QED
  BY <1>1, <1>2, <1>3, <1>4, <1>5, <1>6, <1>7 DEF LeaveStep, Online

(* An event alone: the leader it makes is announced before it goes on.     *)
LEMMA AloneEvent ==
  ASSUME AloneInv, NEW s \in Sids, EventStep(s), ~Refused(s), ~overlapped
  PROVE  EventAlone(s)' /\ (task'[s]["event"].at = "idle" => AgreeExcept({})')
<1>0. /\ TypeOK /\ TaskOK /\ EventAlone(s) /\ "event" \in Kinds /\ {} \cup {} = {}
      /\ Active \in SUBSET Sids /\ Idle.at = "idle"
  BY TypeParts, ActiveType, IdleType DEF AloneInv, HandlersAlone, Kinds
<1>s. sock[s] = "up" /\ sock' = sock /\ isLeader' = isLeader
  BY <1>0 DEF EventStep, EnsureLeader, SetEnsured, AnnounceEnsured, SyncRequest,
     SetSync, AnnounceSync, At, EventAlone, Step
<1>1. CASE EnsureLeader(s)
  <2>1. AgreeExcept({}) /\ UNCHANGED <<hash, map, leader, inbox>>
    BY <1>0, <1>1 DEF EnsureLeader, At, EventAlone, redis
  <2>2. Active' = Active
    BY <1>s, <2>1 DEF Active, ActiveIn
  <2>3. AgreeExcept({})'
    BY <1>0, <1>s, <2>1, <2>2, AgreeKept
  <2>4. task'[s]["event"].at \in {"sync", "idle", "set_ensured"}
    BY <1>0, <1>1, GoEffect DEF EnsureLeader, AfterEnsure, Labels
  <2> QED
    BY <1>s, <2>3, <2>4 DEF EventAlone
<1>2. CASE SetEnsured(s)
  <2>1. leader' = s /\ task'[s]["event"].at = "announce_ensured"
    BY <1>0, <1>2, GoEffect DEF SetEnsured, Labels
  <2> QED
    BY <1>s, <2>1 DEF EventAlone
<1>3. CASE AnnounceEnsured(s)
  <2>1. inbox' = Announced(leader) /\ UNCHANGED redis /\ Step
    BY <1>0, <1>3 DEF AnnounceEnsured, At, EventAlone
  <2>2. task'[s]["event"].at \in {"sync", "idle"}
    BY <1>0, <1>3, GoEffect DEF AnnounceEnsured, AfterEnsure, Labels
  <2>3. AgreeExcept({})'
    BY <1>0, <2>1, AgreeAnnounced
  <2> QED
    BY <1>s, <2>2, <2>3 DEF EventAlone
<1>4. CASE SyncRequest(s)
  <2>1. AgreeExcept({}) /\ UNCHANGED <<hash, map, inbox>>
    BY <1>0, <1>4 DEF SyncRequest, At, EventAlone
  <2>2. \/ leader' = leader /\ task'[s]["event"].at = "idle"
        \/ Active = {} /\ task'[s]["event"].at = "idle"
        \/ task'[s]["event"].at = "set_sync"
    BY <1>0, <1>4, SyncRequestEffect
  <2>3. Active' = Active
    BY <1>s, <2>1 DEF Active, ActiveIn
  <2>4. leader' = leader \/ Active = {} => AgreeExcept({})'
    <3>1. leader' = leader => AgreeExcept({})'
      BY <1>0, <1>s, <2>1, <2>3, AgreeKept
    <3>2. Active = {} => AgreeExcept({})'
      BY <2>3 DEF AgreeExcept
    <3> QED
      BY <3>1, <3>2
  <2> QED
    BY <1>s, <2>2, <2>4 DEF EventAlone
<1>5. CASE SetSync(s)
  <2>1. /\ leader' = task[s]["event"].pick /\ task'[s]["event"].at = "announce_sync"
        /\ task'[s]["event"].pick = task[s]["event"].pick
    BY <1>0, <1>5, GoEffect DEF SetSync, Labels
  <2> QED
    BY <1>s, <2>1 DEF EventAlone
<1>6. CASE AnnounceSync(s)
  <2>1. inbox' = Announced(leader) /\ UNCHANGED redis /\ Step
    BY <1>0, <1>6 DEF AnnounceSync, At, EventAlone
  <2>2. task'[s]["event"].at = "idle"
    BY <1>0, <1>6, IdleType, GotoEffect DEF AnnounceSync
  <2>3. AgreeExcept({})'
    BY <1>0, <2>1, AgreeAnnounced
  <2> QED
    BY <1>s, <2>2, <2>3 DEF EventAlone
<1> QED
  BY <1>1, <1>2, <1>3, <1>4, <1>5, <1>6 DEF EventStep

(* A step of one running handler keeps the rest at rest.                   *)
LEMMA AloneMoves ==
  ASSUME AloneInv, NEW s \in Sids, NEW k \in Kinds, Moves(s, k), ~overlapped
  PROVE  \A r \in Sids, j \in Kinds : r # s \/ j # k => task'[r][j].at = "idle"
<1>1. \A r \in Sids, j \in Kinds : r # s \/ j # k => task[r][j].at = "idle"
  BY OthersIdle DEF AloneInv, Moves
<1> QED
  BY <1>1 DEF Moves, OthersKeep

(* A socket that never joined has no mapping: a join writes its own.       *)
LEMMA NewUnmapped ==
  ASSUME AloneInv, [Next]_vars
  PROVE  \A r \in Sids : sock'[r] = "new" => r \notin map'
<1>0. /\ TypeOK /\ TaskOK /\ "join" \in Kinds
      /\ \A r \in Sids : sock[r] = "new" => r \notin map /\ task[r]["join"].at = "idle"
  BY TypeParts DEF AloneInv, HandlersAlone, JoinsApart, At, Kinds
<1>1. \A r \in Sids : sock'[r] = "new" => sock[r] = "new"
  <2>1. ASSUME NEW s \in Sids, Connect(s) \/ Disconnect(s)
        PROVE  \A r \in Sids : sock'[r] = "new" => sock[r] = "new"
    BY <1>0, <2>1 DEF Connect, Disconnect, TypeOK
  <2>2. ASSUME NEW s \in Sids, JoinStep(s) \/ LeaveStep(s) \/ EventStep(s)
        PROVE  sock' = sock
    <3>1. CASE Refused(s)
      BY <3>1 DEF Refused, Step
    <3>2. CASE ~Refused(s)
      BY <1>0, <2>2, <3>2, JoinMoves, LeaveMoves, OnlineMoves, EventMoves DEF Moves, Step, Kinds
    <3> QED
      BY <3>1, <3>2
  <2> QED
    BY <2>1, <2>2 DEF Next, SendEvent, OnStatus, Expire, vars
<1>2. \A r \in map' : r \in map \/ task[r]["join"].at = "set_mapping"
  <2>1. ASSUME NEW s \in Sids, JoinStep(s)
        PROVE  \A r \in map' : r \in map \/ task[r]["join"].at = "set_mapping"
    BY <2>1 DEF JoinStep, SetSession, SetMapping, DropLeader, SetIfAbsent, AnnounceJoin, GetAgain,
       EmitStatus, Online, Prune, CheckLeader, SetOnline, AnnounceOnline, redis, At
  <2>2. ASSUME NEW s \in Sids, LeaveStep(s) \/ EventStep(s) PROVE map' \subseteq map
    BY <2>2 DEF LeaveStep, DeleteSession, SetLeft, AnnounceLeft, Online, Prune, CheckLeader,
       SetOnline, AnnounceOnline, EventStep, Refused, EnsureLeader, SetEnsured,
       AnnounceEnsured, SyncRequest, SetSync, AnnounceSync, redis
  <2>3. ASSUME NEW s \in Sids, Connect(s) \/ Disconnect(s) \/ SendEvent(s) \/ OnStatus(s)
        PROVE  map' = map
    BY <2>3 DEF Connect, Disconnect, SendEvent, OnStatus, redis
  <2>4. Expire \/ UNCHANGED vars => map' \subseteq map
    BY DEF Expire, vars
  <2> QED
    BY <2>1, <2>2, <2>3, <2>4 DEF Next
<1> QED
  BY <1>0, <1>1, <1>2

(* Reading a message changes nothing about what is believed in the end.    *)
LEMMA StatusBelieved ==
  ASSUME TypeOK, NEW s \in Sids, OnStatus(s), NEW r \in Sids
  PROVE  Believes(r)' = Believes(r)
<1>1. inbox[s] \in Seq(BOOLEAN) /\ inbox[s] # <<>>
  BY DEF OnStatus, TypeOK
<1>2. /\ Tail(inbox[s]) = <<>> => inbox[s][Len(inbox[s])] = Head(inbox[s])
      /\ Tail(inbox[s]) # <<>> =>
            Tail(inbox[s])[Len(Tail(inbox[s]))] = inbox[s][Len(inbox[s])]
  BY <1>1, HeadTail
<1>3. CASE r = s
  <2>1. inbox'[s] = Tail(inbox[s]) /\ isLeader'[s] = Head(inbox[s])
    BY DEF OnStatus, TypeOK
  <2> QED
    BY <1>1, <1>2, <1>3, <2>1 DEF Believes
<1>4. CASE r # s
  <2>1. inbox'[r] = inbox[r] /\ isLeader'[r] = isLeader[r]
    BY <1>4 DEF OnStatus, TypeOK
  <2> QED
    BY <2>1 DEF Believes
<1> QED
  BY <1>3, <1>4

(* The invariant looks at the flags through what is believed in the end.   *)
LEMMA AloneSame ==
  ASSUME TypeOK, HandlersAlone, UNCHANGED <<sock, hash, map, leader, task, overlapped>>,
         \A r \in Sids : Believes(r)' = Believes(r)
  PROVE  HandlersAlone'
<1>1. Active' = Active /\ Running' = Running
  BY DEF Active, ActiveIn, Running
<1>2. \A out : AgreeExcept(out)' <=> AgreeExcept(out)
  BY <1>1, ActiveType DEF AgreeExcept
<1>3. ASSUME ~overlapped, NEW r \in Sids PROVE JoinAlone(r)' /\ LeaveAlone(r)' /\ EventAlone(r)'
  <2>1. JoinAlone(r) /\ LeaveAlone(r) /\ EventAlone(r)
    BY <1>3 DEF HandlersAlone
  <2>2. JoinAlone(r)'
    BY <1>1, <1>2, <2>1 DEF JoinAlone
  <2>3. LeaveAlone(r)'
    BY <1>1, <1>2, <2>1 DEF LeaveAlone, Selected
  <2>4. EventAlone(r)'
    BY <1>1, <1>2, <2>1 DEF EventAlone
  <2> QED
    BY <2>2, <2>3, <2>4
<1> QED
  BY <1>1, <1>2, <1>3 DEF HandlersAlone

(* Every step keeps the flags right while handlers do not overlap.         *)
LEMMA AloneStep == AloneInv /\ [Next]_vars => HandlersAlone'
<1> SUFFICES ASSUME AloneInv, [Next]_vars PROVE HandlersAlone'
  OBVIOUS
<1>0. /\ TypeOK /\ TaskOK /\ RestOK /\ JoinsApart /\ HandlersAlone /\ {} \cup {} = {}
      /\ \A r \in Sids : sock'[r] = "new" => r \notin map'
  BY TypeParts, NewUnmapped DEF AloneInv
<1>k. /\ "join" \in Kinds /\ "leave" \in Kinds /\ "event" \in Kinds /\ Idle.at = "idle"
      /\ {"set_session", "delete_session", "ensure"} \subseteq Labels
  BY IdleType DEF Kinds, Labels
<1>o. CASE overlapped'
  BY <1>0, <1>o DEF HandlersAlone
<1> SUFFICES ASSUME ~overlapped' PROVE HandlersAlone'
  BY <1>o
<1>r. Running = {} => \A r \in Sids, j \in Kinds : task[r][j].at = "idle"
  <2> SUFFICES ASSUME Running = {}, NEW r \in Sids, NEW j \in Kinds PROVE task[r][j].at = "idle"
    OBVIOUS
  <2>1. <<r, j>> \notin Running
    OBVIOUS
  <2> QED
    BY <2>1 DEF Running
<1>1. ASSUME NEW s \in Sids, Connect(s) PROVE HandlersAlone'
  <2>1. /\ OthersKeep(s, "join") /\ task'[s]["join"].at = "set_session"
        /\ Running = {} /\ ~overlapped
    BY <1>0, <1>k, <1>1, StartEffect DEF Connect
  <2>2. /\ s \notin map /\ sock'[s] = "up" /\ \A r \in Sids \ {s} : sock'[r] = sock[r]
        /\ UNCHANGED <<hash, map, leader, inbox, isLeader>>
    BY <1>0, <1>1 DEF Connect, RestOK, redis, HandlersAlone
  <2>3. Active' \subseteq Active /\ AgreeExcept({})
    BY <1>0, <2>1, <2>2, ActiveType, ActiveNext DEF RestOK, HandlersAlone
  <2>4. AgreeExcept({})'
    BY <1>0, <2>2, <2>3, AgreeKept
  <2>5. JoinAlone(s)'
    BY <2>1, <2>2, <2>4 DEF JoinAlone
  <2>6. \A r \in Sids, j \in Kinds : r # s \/ j # "join" => task'[r][j].at = "idle"
    BY <1>r, <2>1 DEF OthersKeep
  <2> QED
    BY <1>0, <1>k, <2>4, <2>5, <2>6, AloneNext
<1>2. ASSUME NEW s \in Sids, Disconnect(s) PROVE HandlersAlone'
  <2>1. /\ OthersKeep(s, "leave") /\ task'[s]["leave"].at = "delete_session"
        /\ Running = {} /\ ~overlapped
    BY <1>0, <1>k, <1>2, StartEffect DEF Disconnect
  <2>2. /\ sock'[s] = "gone" /\ UNCHANGED <<hash, map, leader>>
        /\ \A r \in Sids \ {s} : /\ sock'[r] = sock[r] /\ inbox'[r] = inbox[r]
                                 /\ isLeader'[r] = isLeader[r]
    BY <1>0, <1>2 DEF Disconnect, RestOK, redis
  <2>3. Active' \subseteq Active \ {s} /\ AgreeExcept({})
    BY <1>0, <2>1, <2>2, ActiveType, ActiveNext DEF RestOK, HandlersAlone
  <2>4. AgreeExcept({})'
    BY <1>0, <2>2, <2>3, ActiveType, AgreeKept
  <2>5. LeaveAlone(s)'
    BY <2>1, <2>2, <2>4 DEF LeaveAlone
  <2>6. \A r \in Sids, j \in Kinds : r # s \/ j # "leave" => task'[r][j].at = "idle"
    BY <1>r, <2>1 DEF OthersKeep
  <2> QED
    BY <1>0, <1>k, <2>4, <2>5, <2>6, AloneNext
<1>3. ASSUME NEW s \in Sids, SendEvent(s) PROVE HandlersAlone'
  <2>1. /\ OthersKeep(s, "event") /\ task'[s]["event"].at = "ensure"
        /\ Running = {} /\ ~overlapped
    BY <1>0, <1>k, <1>3, StartEffect DEF SendEvent
  <2>2. sock[s] = "up" /\ UNCHANGED <<sock, hash, map, leader, inbox, isLeader>>
    BY <1>3 DEF SendEvent, redis
  <2>3. Active' = Active /\ AgreeExcept({})
    BY <1>0, <2>1, <2>2 DEF Active, ActiveIn, HandlersAlone
  <2>4. AgreeExcept({})'
    BY <1>0, <2>2, <2>3, AgreeKept
  <2>5. EventAlone(s)'
    BY <2>1, <2>2, <2>4 DEF EventAlone
  <2>6. \A r \in Sids, j \in Kinds : r # s \/ j # "event" => task'[r][j].at = "idle"
    BY <1>r, <2>1 DEF OthersKeep
  <2> QED
    BY <1>0, <1>k, <2>4, <2>5, <2>6, AloneNext
<1>4. ASSUME NEW s \in Sids, JoinStep(s) PROVE HandlersAlone'
  <2>1. Moves(s, "join")
    BY <1>0, <1>k, <1>4, JoinMoves, OnlineMoves
  <2>2. ~overlapped
    BY <2>1 DEF Moves, Step
  <2> QED
    BY <1>0, <1>k, <1>4, <2>1, <2>2, AloneMoves, AloneJoin, AloneNext
<1>5. ASSUME NEW s \in Sids, LeaveStep(s) PROVE HandlersAlone'
  <2>1. Moves(s, "leave")
    BY <1>0, <1>k, <1>5, LeaveMoves, OnlineMoves
  <2>2. ~overlapped
    BY <2>1 DEF Moves, Step
  <2> QED
    BY <1>0, <1>k, <1>5, <2>1, <2>2, AloneMoves, AloneLeave, AloneNext
<1>6. ASSUME NEW s \in Sids, EventStep(s), ~Refused(s) PROVE HandlersAlone'
  <2>1. Moves(s, "event")
    BY <1>0, <1>k, <1>6, EventMoves
  <2>2. ~overlapped
    BY <2>1 DEF Moves, Step
  <2> QED
    BY <1>0, <1>k, <1>6, <2>1, <2>2, AloneMoves, AloneEvent, AloneNext
<1>7. ASSUME NEW s \in Sids, Refused(s) PROVE HandlersAlone'
  <2>1. /\ ~overlapped /\ task[s]["event"].at = "ensure" /\ s \notin map
        /\ UNCHANGED <<sock, hash, map, leader, inbox, isLeader>>
    BY <1>7 DEF Refused, Step, At, redis
  <2>2. sock[s] = "up" /\ AgreeExcept({})
    BY <1>0, <2>1 DEF HandlersAlone, EventAlone
  <2>3. /\ \A r \in Sids, j \in Kinds : r # s \/ j = "leave" => task'[r][j] = task[r][j]
        /\ task'[s]["event"].at = "idle" /\ task'[s]["join"].at = "set_session"
    BY <1>0, <1>k, <1>7, <2>2, RefusedEffect
  <2>4. \A r \in Sids, j \in Kinds : r # s \/ j # "event" => task[r][j].at = "idle"
    BY <1>0, <1>k, <2>1, OthersIdle
  <2>5. \A r \in Sids, j \in Kinds : r # s \/ j # "join" => task'[r][j].at = "idle"
    BY <2>3, <2>4 DEF Kinds
  <2>6. Active' = Active
    BY <2>1 DEF Active, ActiveIn
  <2>7. AgreeExcept({})'
    BY <1>0, <2>1, <2>2, <2>6, AgreeKept
  <2>8. JoinAlone(s)'
    BY <2>1, <2>2, <2>3, <2>7 DEF JoinAlone
  <2> QED
    BY <1>0, <1>k, <2>5, <2>7, <2>8, AloneNext
<1>8. ASSUME NEW s \in Sids, OnStatus(s) PROVE HandlersAlone'
  <2>1. UNCHANGED <<sock, hash, map, leader, task, overlapped>>
    BY <1>8 DEF OnStatus, redis
  <2> QED
    BY <1>0, <1>8, <2>1, StatusBelieved, AloneSame
<1>9. CASE Expire
  <2>1. Running = {} /\ ~overlapped /\ UNCHANGED <<sock, hash, isLeader, inbox, task>>
    BY <1>9 DEF Expire
  <2>2. AgreeExcept({}) /\ \A r \in Sids, j \in Kinds : task'[r][j].at = "idle"
    BY <1>0, <1>r, <2>1 DEF HandlersAlone
  <2>3. map' \subseteq map /\ (leader' = leader \/ (leader' = None /\ leader \notin map))
    BY <1>9 DEF Expire
  <2>4. Active' \subseteq Active /\ (leader \notin map => leader \notin Active)
    BY <1>0, <2>1, <2>3, ActiveType, ActiveNext
  <2>5. AgreeExcept({})'
    <3>1. CASE leader' = leader
      BY <1>0, <2>1, <2>2, <2>4, <3>1, AgreeKept
    <3>2. CASE leader' = None /\ leader \notin map
      BY <1>0, <2>1, <2>2, <2>4, <3>2, AgreeLost
    <3> QED
      BY <2>3, <3>1, <3>2
  <2>6. Running' = {}
    BY <2>2 DEF Running
  <2>7. \A r \in Sids : JoinAlone(r)' /\ LeaveAlone(r)' /\ EventAlone(r)'
    BY <1>k, <2>2 DEF JoinAlone, LeaveAlone, EventAlone
  <2> QED
    BY <1>0, <2>5, <2>6, <2>7 DEF HandlersAlone
<1>10. CASE UNCHANGED vars
  <2>1. UNCHANGED <<sock, hash, map, leader, isLeader, inbox, task, overlapped>>
    BY <1>10 DEF vars
  <2>2. \A r \in Sids : Believes(r)' = Believes(r)
    BY <2>1 DEF Believes
  <2> QED
    BY <1>0, <2>1, <2>2, AloneSame
<1> QED
  BY <1>1, <1>2, <1>3, <1>4, <1>5, <1>6, <1>7, <1>8, <1>9, <1>10 DEF Next

(* Handlers that never overlap keep the flags right, for any number of     *)
(* sockets and whatever keys expire between them: once everything has been *)
(* read, an active browser believes it leads exactly if Redis says so.     *)
THEOREM FlagsRightWhenAlone == Spec => []FlagsAgreeUnlessOverlap
<1>1. Init => AloneInv
  <2> SUFFICES ASSUME Init PROVE AloneInv
    OBVIOUS
  <2>1. \A s \in Sids, k \in Kinds : task[s][k].at = "idle"
    BY IdleType DEF Init
  <2>2. "join" \in Kinds /\ "leave" \in Kinds /\ "event" \in Kinds
    BY DEF Kinds
  <2>3. JoinsApart
    BY <2>1, <2>2 DEF JoinsApart, At
  <2>4. Running = {} /\ map = {} /\ AgreeExcept({})
    BY <2>1 DEF Running, AgreeExcept, Active, ActiveIn, Init
  <2>5. \A s \in Sids : JoinAlone(s) /\ LeaveAlone(s) /\ EventAlone(s)
    BY <2>1, <2>2 DEF JoinAlone, LeaveAlone, EventAlone
  <2> QED
    BY <2>3, <2>4, <2>5, TypeInit DEF AloneInv, HandlersAlone
<1>2. AloneInv /\ [Next]_vars => AloneInv'
  BY TypeStep, ApartStep, AloneStep DEF AloneInv
<1>3. AloneInv => FlagsAgreeUnlessOverlap
  BY DEF AloneInv, HandlersAlone, FlagsAgreeUnlessOverlap, AtRest, AgreeExcept, Believes, TypeOK,
     Active, ActiveIn
<1> QED
  BY <1>1, <1>2, <1>3, PTL DEF Spec
=============================================================================
