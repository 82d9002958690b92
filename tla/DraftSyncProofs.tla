--------------------------- MODULE DraftSyncProofs ---------------------------
(***************************************************************************)
(* Proofs about DraftSync, for any number of editors, edits, immediate     *)
(* syncs, hidden pages and failing requests.                               *)
(***************************************************************************)
EXTENDS DraftSync, TLAPS

(* What is posted, and the server's test of it, are posts.                 *)
LEMMA PostTypes ==
    ASSUME TypeOK, NEW e \in Editors, NEW quiet \in BOOLEAN, NEW p \in Posts
    PROVE  PostOf(e, quiet) \in Posts /\ HashTest(p) \in Posts /\ Idle \in Posts
<1>1. PostOf(e, quiet) \in Posts
    BY DEF TypeOK, PostOf, Posts, PostStates
<1>2. HashTest(p) \in Posts
    BY DEF TypeOK, HashTest, Posts, PostStates
<1>3. Idle \in Posts
    BY DEF Idle, Posts, PostStates
<1> QED
    BY <1>1, <1>2, <1>3

(* So are a post and a refresh that move on.                               *)
LEMMA MovedTypes ==
    ASSUME NEW p \in Posts, NEW r \in Refreshes, NEW g \in SUBSET Edits
    PROVE  /\ [p EXCEPT !.st = "committed"] \in Posts
           /\ [p EXCEPT !.st = "ok", !.hash = g] \in Posts
           /\ [r EXCEPT !.st = "ok", !.graph = g] \in Refreshes
<1>1. [p EXCEPT !.st = "committed"] \in Posts
    BY DEF Posts, PostStates
<1>2. [p EXCEPT !.st = "ok", !.hash = g] \in Posts
    BY DEF Posts, PostStates
<1>3. [r EXCEPT !.st = "ok", !.graph = g] \in Refreshes
    BY DEF Refreshes
<1> QED
    BY <1>1, <1>2, <1>3

(* A refresh that starts has the type of one.                              *)
LEMMA RefreshTypes ==
    ASSUME TypeOK, NEW e \in Editors, NEW keep \in BOOLEAN, RefreshDraft(e, keep)
    PROVE  /\ refresh' \in [Editors -> [Slots -> Refreshes]]
           /\ debounce' \in [Editors -> BOOLEAN]
           /\ loaded' \in [Editors -> BOOLEAN]
           /\ syncing' \in [Editors -> BOOLEAN]
<1>1. PICK k \in Slots :
          refresh' = [refresh EXCEPT ![e][k] =
              [st |-> "sent", keep |-> keep, was |-> loaded[e], graph |-> {}]]
    BY DEF RefreshDraft
<1>2. [st |-> "sent", keep |-> keep, was |-> loaded[e], graph |-> {}] \in Refreshes
    BY DEF Refreshes, TypeOK
<1>3. refresh' \in [Editors -> [Slots -> Refreshes]]
    BY <1>1, <1>2 DEF TypeOK
<1> QED
    BY <1>3 DEF RefreshDraft, TypeOK

(* Every step keeps the types.                                             *)
LEMMA NextTypeOK == TypeOK /\ [Next]_vars => TypeOK'
<1> SUFFICES ASSUME TypeOK, [Next]_vars PROVE TypeOK'
    OBVIOUS
<1>1. ASSUME NEW e \in Editors, InitialData(e) PROVE TypeOK'
    <2>1. CASE exists
        <3>0. /\ phase' = [phase EXCEPT ![e] = "ready"]
              /\ canvas' = [canvas EXCEPT ![e] = draft]
              /\ hash' = [hash EXCEPT ![e] = draft]
              /\ loaded' = [loaded EXCEPT ![e] = TRUE]
            BY <1>1, <2>1, Zenon DEF InitialData
        <3>1. /\ canvas' \in [Editors -> SUBSET Edits]
              /\ hash' \in [Editors -> SUBSET Edits]
            BY <3>0 DEF TypeOK
        <3>2. loaded' \in [Editors -> BOOLEAN]
            BY <3>0 DEF TypeOK
        <3>3. phase' \in [Editors -> {"fetching", "creating", "stuck", "ready"}]
            BY <3>0 DEF TypeOK
        <3>4. UNCHANGED <<exists, draft, made, syncing, debounce, queue, sync, told,
                          refresh, beacon, page, bounds, history>>
            BY <1>1 DEF InitialData
        <3> QED
            BY <3>1, <3>2, <3>3, <3>4 DEF TypeOK, bounds, history
    <2>2. CASE ~exists
        BY <1>1, <2>2 DEF InitialData, TypeOK, bounds, history
    <2> QED
        BY <2>1, <2>2
<1>2. ASSUME NEW e \in Editors, CreateDraft(e) PROVE TypeOK'
    BY <1>2 DEF CreateDraft, TypeOK, bounds, history
<1>3. ASSUME NEW e \in Editors, NEW x \in Edits, Edit(e, x) PROVE TypeOK'
    BY <1>3 DEF Edit, TypeOK, bounds, history
<1>4. ASSUME NEW e \in Editors, DebounceFires(e) PROVE TypeOK'
    BY <1>4 DEF DebounceFires, TypeOK, bounds, history
<1>5. ASSUME NEW e \in Editors, NEW quiet \in BOOLEAN, SyncNow(e, quiet) PROVE TypeOK'
    BY <1>5 DEF SyncNow, TypeOK, history
<1>6. ASSUME NEW e \in Editors, PerformSync(e) PROVE TypeOK'
    <2>1. Head(queue[e]) \in BOOLEAN /\ Tail(queue[e]) \in Seq(BOOLEAN)
        BY <1>6 DEF PerformSync, TypeOK
    <2>2. PostOf(e, Head(queue[e])) \in Posts
        BY <2>1, PostTypes DEF TypeOK
    <2> QED
        BY <1>6, <2>1, <2>2 DEF PerformSync, TypeOK, bounds, history
<1>7. ASSUME NEW e \in Editors, CheckSync(e) PROVE TypeOK'
    <2>1. HashTest(sync[e]) \in Posts
        BY PostTypes DEF TypeOK
    <2> QED
        BY <1>7, <2>1 DEF CheckSync, TypeOK, editor, bounds, history
<1>8. ASSUME NEW e \in Editors, CommitSync(e) PROVE TypeOK'
    <2>1. sync[e].graph \subseteq Edits
        BY DEF TypeOK, Posts
    <2>2. [sync[e] EXCEPT !.st = "committed"] \in Posts
        <3>1. sync[e] \in Posts /\ NoRefresh \in Refreshes
            BY DEF TypeOK, NoRefresh, Refreshes
        <3> QED
            BY <3>1, MovedTypes
    <2>3. sync' = [sync EXCEPT ![e] = [sync[e] EXCEPT !.st = "committed"]]
        BY <1>8 DEF CommitSync
    <2>4. sync' \in [Editors -> Posts]
        BY <2>2, <2>3 DEF TypeOK
    <2> QED
        BY <1>8, <2>1, <2>4 DEF CommitSync, TypeOK, editor, bounds
<1>9. ASSUME NEW e \in Editors, ReplySync(e) PROVE TypeOK'
    <2>0. [sync[e] EXCEPT !.st = "ok", !.hash = draft] \in Posts
        <3>1. sync[e] \in Posts /\ NoRefresh \in Refreshes /\ draft \in SUBSET Edits
            BY DEF TypeOK, NoRefresh, Refreshes
        <3> QED
            BY <3>1, MovedTypes
    <2>1. sync' \in [Editors -> Posts]
        BY <1>9, <2>0 DEF ReplySync, TypeOK
    <2>2. causes' \in [Editors -> SUBSET Causes]
        BY <1>9 DEF ReplySync, TypeOK, Causes
    <2> QED
        BY <1>9, <2>1, <2>2 DEF ReplySync, TypeOK, editor, bounds
<1>10. ASSUME NEW e \in Editors, SyncAnswered(e) PROVE TypeOK'
    <2>1. sync[e].hash \subseteq Edits /\ Idle \in Posts
        BY PostTypes DEF TypeOK, Posts
    <2> QED
        BY <1>10, <2>1 DEF SyncAnswered, TypeOK, bounds, history
<1>11. ASSUME NEW e \in Editors, SyncRefused(e) PROVE TypeOK'
    <2>1. Idle \in Posts /\ sync[e].quiet \in BOOLEAN
        BY PostTypes DEF TypeOK, Posts
    <2> QED
        BY <1>11, <2>1 DEF SyncRefused, TypeOK, bounds, history
<1>12. ASSUME NEW e \in Editors, SyncFails(e) PROVE TypeOK'
    <2>1. Idle \in Posts
        BY PostTypes DEF TypeOK
    <2> QED
        BY <1>12, <2>1 DEF SyncFails, TypeOK, editor, history
<1>13. ASSUME NEW e \in Editors, RefreshAfterConflict(e) PROVE TypeOK'
    <2>1. /\ refresh' \in [Editors -> [Slots -> Refreshes]]
          /\ debounce' \in [Editors -> BOOLEAN]
          /\ loaded' \in [Editors -> BOOLEAN]
          /\ syncing' \in [Editors -> BOOLEAN]
        BY <1>13, RefreshTypes DEF RefreshAfterConflict
    <2> QED
        BY <1>13, <2>1 DEF RefreshAfterConflict, TypeOK, bounds, history
<1>14. ASSUME NEW e \in Editors, RefreshWhenBack(e) PROVE TypeOK'
    <2>1. /\ refresh' \in [Editors -> [Slots -> Refreshes]]
          /\ debounce' \in [Editors -> BOOLEAN]
          /\ loaded' \in [Editors -> BOOLEAN]
          /\ syncing' \in [Editors -> BOOLEAN]
        BY <1>14, RefreshTypes DEF RefreshWhenBack
    <2> QED
        BY <1>14, <2>1 DEF RefreshWhenBack, TypeOK, bounds, history
<1>15. ASSUME NEW e \in Editors, NEW k \in Slots, RefreshRead(e, k) PROVE TypeOK'
    <2>1. refresh' \in [Editors -> [Slots -> Refreshes]]
        <3>1. [refresh[e][k] EXCEPT !.st = "ok", !.graph = draft] \in Refreshes
            <4>1. refresh[e][k] \in Refreshes /\ sync[e] \in Posts /\ draft \in SUBSET Edits
                BY DEF TypeOK
            <4> QED
                BY <4>1, MovedTypes
        <3>2. [refresh[e] EXCEPT ![k] = [refresh[e][k] EXCEPT !.st = "ok", !.graph = draft]]
                  \in [Slots -> Refreshes]
            BY <3>1 DEF TypeOK
        <3> QED
            BY <1>15, <3>2 DEF RefreshRead, TypeOK
    <2> QED
        BY <1>15, <2>1 DEF RefreshRead, TypeOK, editor, bounds, history
<1>16. ASSUME NEW e \in Editors, NEW k \in Slots, RefreshApplied(e, k) PROVE TypeOK'
    <2>1. refresh[e][k].graph \subseteq Edits /\ refresh[e][k].keep \in BOOLEAN
        BY DEF TypeOK, Refreshes
    <2>2. refresh' \in [Editors -> [Slots -> Refreshes]]
        BY <1>16 DEF RefreshApplied, TypeOK, Refreshes, NoRefresh
    <2>3. causes' \in [Editors -> SUBSET Causes]
        BY <1>16, <2>1 DEF RefreshApplied, TypeOK, Causes
    <2>4. canvas' \in [Editors -> SUBSET Edits] /\ hash' \in [Editors -> SUBSET Edits]
        BY <1>16, <2>1 DEF RefreshApplied, TypeOK
    <2> QED
        BY <1>16, <2>2, <2>3, <2>4 DEF RefreshApplied, TypeOK, bounds
<1>17. ASSUME NEW e \in Editors, NEW k \in Slots, RefreshFails(e, k) PROVE TypeOK'
    <2>1. refresh[e][k].was \in BOOLEAN
        BY DEF TypeOK, Refreshes
    <2>2. refresh' \in [Editors -> [Slots -> Refreshes]]
        BY <1>17 DEF RefreshFails, TypeOK, Refreshes, NoRefresh
    <2> QED
        BY <1>17, <2>1, <2>2 DEF RefreshFails, TypeOK, history
<1>18. ASSUME NEW e \in Editors, HidePage(e) PROVE TypeOK'
    <2>1. PostOf(e, TRUE) \in Posts
        BY PostTypes DEF TypeOK
    <2> QED
        <3>1. beacon' \in [Editors -> Posts]
            BY <1>18, <2>1 DEF HidePage, TypeOK
        <3>2. hides' \in Nat
            BY <1>18 DEF HidePage, TypeOK
        <3> QED
            BY <1>18, <3>1, <3>2 DEF HidePage, TypeOK, history
<1>19. ASSUME NEW e \in Editors, CheckBeacon(e) PROVE TypeOK'
    <2>1. HashTest(beacon[e]) \in Posts
        BY PostTypes DEF TypeOK
    <2> QED
        BY <1>19, <2>1 DEF CheckBeacon, TypeOK, editor, bounds, history
<1>20. ASSUME NEW e \in Editors, CommitBeacon(e) PROVE TypeOK'
    <2>1. beacon[e].graph \subseteq Edits /\ Idle \in Posts
        BY PostTypes DEF TypeOK, Posts
    <2> QED
        BY <1>20, <2>1 DEF CommitBeacon, TypeOK, editor, bounds
<1>21. ASSUME NEW e \in Editors, BeaconRefused(e) PROVE TypeOK'
    <2>1. Idle \in Posts
        BY PostTypes DEF TypeOK
    <2> QED
        BY <1>21, <2>1 DEF BeaconRefused, TypeOK, editor, bounds, history
<1>22. ASSUME NEW e \in Editors, ShowPage(e) PROVE TypeOK'
    BY <1>22 DEF ShowPage, TypeOK, bounds, history
<1>23. CASE UNCHANGED vars
    BY <1>23 DEF vars, TypeOK
<1>24. QED
    BY <1>1, <1>2, <1>3, <1>4, <1>5, <1>6, <1>7, <1>8, <1>9, <1>10, <1>11, <1>12, <1>13,
       <1>14, <1>15, <1>16, <1>17, <1>18, <1>19, <1>20, <1>21, <1>22, <1>23
       DEF Next, Opening, Syncing, Refreshing, Failing, Beaconing

(* TypeOK holds initially.                                                 *)
LEMMA InitTypeOK == Init => TypeOK
<1> SUFFICES ASSUME Init PROVE TypeOK
    OBVIOUS
<1>1. Idle \in Posts /\ NoRefresh \in Refreshes
    BY DEF Idle, Posts, PostStates, NoRefresh, Refreshes
<1>2. /\ phase \in [Editors -> {"fetching", "creating", "stuck", "ready"}]
      /\ page \in [Editors -> {"visible", "hidden", "back"}]
      /\ queue \in [Editors -> Seq(BOOLEAN)]
    BY DEF Init
<1>3. /\ canvas \in [Editors -> SUBSET Edits] /\ hash \in [Editors -> SUBSET Edits]
      /\ causes \in [Editors -> SUBSET Causes]
      /\ draft \subseteq Edits /\ made \subseteq Edits /\ saved \subseteq Edits
    BY DEF Init
<1>4. /\ loaded \in [Editors -> BOOLEAN] /\ syncing \in [Editors -> BOOLEAN]
      /\ debounce \in [Editors -> BOOLEAN] /\ told \in [Editors -> BOOLEAN]
      /\ exists \in BOOLEAN
    BY DEF Init
<1>5. /\ sync \in [Editors -> Posts] /\ beacon \in [Editors -> Posts]
      /\ refresh \in [Editors -> [Slots -> Refreshes]]
    BY <1>1 DEF Init
<1>6. asks \in Nat /\ hides \in Nat /\ faults \in Nat
    BY DEF Init
<1> QED
    BY <1>2, <1>3, <1>4, <1>5, <1>6 DEF TypeOK

(* TypeOK holds in every reachable state.                                  *)
THEOREM TypeCorrect == Spec => []TypeOK
<1> QED
    BY InitTypeOK, NextTypeOK, PTL DEF Spec

-----------------------------------------------------------------------------
(* While useWorkflowInit has not opened the editor, nothing of it runs.    *)
Quiescent(e) ==
    /\ ~loaded[e]
    /\ sync[e].st = "idle"
    /\ ~told[e]
    /\ page[e] = "visible"
    /\ \A k \in Slots : refresh[e][k].st = "none"

OpenInv == \A e \in Editors : phase[e] # "ready" => Quiescent(e)

(* Until something is recorded against an editor, its hash, and the hash   *)
(* it is about to be given, are of graphs that are on its canvas.          *)
Known(e) ==
    causes[e] = {} =>
        /\ hash[e] \subseteq canvas[e]
        /\ sync[e].st \in {"sent", "checked", "committed"} => sync[e].graph \subseteq canvas[e]
        /\ sync[e].st = "ok" => sync[e].hash \subseteq canvas[e]

KnownInv == \A e \in Editors : Known(e)

(* A draft that does not exist is empty.                                   *)
EmptyInv == ~exists => draft = {}

(* A post that nothing is recorded against writes all it was compared      *)
(* with.                                                                   *)
Includes(p) ==
    /\ p.st \in {"sent", "checked"} /\ p.why = {} => p.hash \subseteq p.graph
    /\ p.st = "checked" => p.seen = p.hash \/ p.seen = {}

PostInv == \A e \in Editors : Includes(sync[e]) /\ Includes(beacon[e])

(* The inductive invariant.                                                *)
IInv == TypeOK /\ OpenInv /\ KnownInv /\ EmptyInv /\ PostInv

(* What is posted, and what becomes of it, keeps Includes.                 *)
LEMMA PostIncludes ==
    ASSUME IInv, NEW e \in Editors, NEW quiet \in BOOLEAN,
           NEW p \in Posts, Includes(p)
    PROVE  /\ Includes(PostOf(e, quiet))
           /\ Includes(Idle)
           /\ p.st = "sent" => Includes(HashTest(p))
           /\ Includes([p EXCEPT !.st = "committed"])
           /\ Includes([p EXCEPT !.st = "ok", !.hash = draft])
<1>1. Includes(PostOf(e, quiet))
    BY DEF IInv, KnownInv, Known, Includes, PostOf
<1>2. Includes(Idle)
    BY DEF Includes, Idle
<1>3. ASSUME p.st = "sent" PROVE Includes(HashTest(p))
    <2>1. CASE exists /\ draft # p.hash
        BY <2>1 DEF Includes, HashTest, Posts
    <2>2. CASE draft = p.hash
        BY <1>3, <2>2 DEF Includes, HashTest, Posts
    <2>3. CASE ~exists
        BY <1>3, <2>3 DEF Includes, HashTest, Posts, IInv, EmptyInv
    <2> QED
        BY <2>1, <2>2, <2>3
<1>4. Includes([p EXCEPT !.st = "committed"])
    BY DEF Includes, Posts
<1>5. Includes([p EXCEPT !.st = "ok", !.hash = draft])
    BY DEF Includes, Posts
<1> QED
    BY <1>1, <1>2, <1>3, <1>4, <1>5

(* The same, for the posts of an editor.                                   *)
LEMMA PostsInclude ==
    ASSUME IInv, NEW e \in Editors
    PROVE  /\ \A quiet \in BOOLEAN : Includes(PostOf(e, quiet))
           /\ Includes(Idle)
           /\ \A p \in {sync[e], beacon[e]} :
                  /\ p.st = "sent" => Includes(HashTest(p))
                  /\ Includes([p EXCEPT !.st = "committed"])
                  /\ Includes([p EXCEPT !.st = "ok", !.hash = draft])
<1>1. \A p \in {sync[e], beacon[e]} : p \in Posts /\ Includes(p)
    BY DEF IInv, TypeOK, PostInv
<1> QED
    BY <1>1, PostIncludes

(* The steps that write the draft.                                         *)
LEMMA NextDraft ==
    ASSUME [Next]_vars
    PROVE  \/ UNCHANGED <<exists, draft>>
           \/ \E e \in Editors : CreateDraft(e) \/ CommitSync(e) \/ CommitBeacon(e)
<1>1. ASSUME NEW e \in Editors,
             \/ InitialData(e) \/ DebounceFires(e) \/ HidePage(e) \/ ShowPage(e)
             \/ \E x \in Edits : Edit(e, x)
             \/ \E quiet \in BOOLEAN : SyncNow(e, quiet)
      PROVE  UNCHANGED <<exists, draft>>
    BY <1>1 DEF InitialData, DebounceFires, HidePage, ShowPage, Edit, SyncNow
<1>2. ASSUME NEW e \in Editors,
             \/ PerformSync(e) \/ CheckSync(e) \/ ReplySync(e) \/ SyncAnswered(e)
             \/ SyncRefused(e) \/ CheckBeacon(e) \/ BeaconRefused(e) \/ SyncFails(e)
      PROVE  UNCHANGED <<exists, draft>>
    BY <1>2 DEF PerformSync, CheckSync, ReplySync, SyncAnswered, SyncRefused,
                CheckBeacon, BeaconRefused, SyncFails
<1>3. ASSUME NEW e \in Editors,
             \/ RefreshAfterConflict(e) \/ RefreshWhenBack(e)
             \/ \E k \in Slots : RefreshRead(e, k) \/ RefreshApplied(e, k) \/ RefreshFails(e, k)
      PROVE  UNCHANGED <<exists, draft>>
    BY <1>3 DEF RefreshAfterConflict, RefreshWhenBack, RefreshRead, RefreshApplied,
                RefreshFails
<1>4. CASE UNCHANGED vars
    BY <1>4 DEF vars
<1> QED
    BY <1>1, <1>2, <1>3, <1>4
       DEF Next, Opening, Syncing, Refreshing, Failing, Beaconing

(* Every step keeps EmptyInv.                                              *)
LEMMA NextEmpty == IInv /\ [Next]_vars => EmptyInv'
<1> SUFFICES ASSUME IInv, [Next]_vars PROVE EmptyInv'
    OBVIOUS
<1>1. ASSUME NEW e \in Editors, CreateDraft(e) PROVE EmptyInv'
    BY <1>1 DEF CreateDraft, IInv, EmptyInv
<1>2. ASSUME NEW e \in Editors, CommitSync(e) \/ CommitBeacon(e) PROVE EmptyInv'
    BY <1>2 DEF CommitSync, CommitBeacon, EmptyInv
<1>3. CASE UNCHANGED <<exists, draft>>
    BY <1>3 DEF IInv, EmptyInv
<1> QED
    BY <1>1, <1>2, <1>3, NextDraft

(* Every step keeps OpenInv.                                               *)
LEMMA NextOpen == IInv /\ [Next]_vars => OpenInv'
<1> SUFFICES ASSUME IInv, [Next]_vars PROVE OpenInv'
    OBVIOUS
<1>1. ASSUME NEW e \in Editors, InitialData(e) PROVE OpenInv'
    <2>1. CASE exists
        <3>1. phase' = [phase EXCEPT ![e] = "ready"] /\ loaded' = [loaded EXCEPT ![e] = TRUE]
            BY <1>1, <2>1, Zenon DEF InitialData
        <3> QED
            BY <1>1, <3>1 DEF InitialData, Quiescent, IInv, OpenInv, TypeOK
    <2>2. CASE ~exists
        BY <1>1, <2>2 DEF InitialData, Quiescent, IInv, OpenInv, TypeOK
    <2> QED
        BY <2>1, <2>2
<1>2. ASSUME NEW e \in Editors, CreateDraft(e) PROVE OpenInv'
    BY <1>2 DEF CreateDraft, Quiescent, IInv, OpenInv, TypeOK, editor, bounds, history
<1>3. ASSUME NEW e \in Editors, NEW x \in Edits, Edit(e, x) PROVE OpenInv'
    BY <1>3 DEF Edit, Quiescent, IInv, OpenInv, TypeOK, editor, bounds, history
<1>4. ASSUME NEW e \in Editors, DebounceFires(e) PROVE OpenInv'
    BY <1>4 DEF DebounceFires, Quiescent, IInv, OpenInv, TypeOK, editor, bounds, history
<1>5. ASSUME NEW e \in Editors, NEW quiet \in BOOLEAN, SyncNow(e, quiet) PROVE OpenInv'
    BY <1>5 DEF SyncNow, Quiescent, IInv, OpenInv, TypeOK, editor, bounds, history
<1>6. ASSUME NEW e \in Editors, PerformSync(e) PROVE OpenInv'
    BY <1>6 DEF PerformSync, Quiescent, IInv, OpenInv, TypeOK, editor, bounds, history
<1>7. ASSUME NEW e \in Editors, CheckSync(e) PROVE OpenInv'
    BY <1>7 DEF CheckSync, Quiescent, IInv, OpenInv, TypeOK, editor, bounds, history
<1>8. ASSUME NEW e \in Editors, CommitSync(e) PROVE OpenInv'
    BY <1>8 DEF CommitSync, Quiescent, IInv, OpenInv, TypeOK, editor, bounds, history
<1>9. ASSUME NEW e \in Editors, ReplySync(e) PROVE OpenInv'
    BY <1>9 DEF ReplySync, Quiescent, IInv, OpenInv, TypeOK, editor, bounds, history
<1>10. ASSUME NEW e \in Editors, SyncAnswered(e) PROVE OpenInv'
    BY <1>10 DEF SyncAnswered, Quiescent, IInv, OpenInv, TypeOK, editor, bounds, history
<1>11. ASSUME NEW e \in Editors, SyncRefused(e) PROVE OpenInv'
    BY <1>11 DEF SyncRefused, Quiescent, IInv, OpenInv, TypeOK, editor, bounds, history
<1>12. ASSUME NEW e \in Editors, SyncFails(e) PROVE OpenInv'
    BY <1>12 DEF SyncFails, Quiescent, IInv, OpenInv, TypeOK, editor, bounds, history
<1>13. ASSUME NEW e \in Editors, RefreshAfterConflict(e) PROVE OpenInv'
    <2>1. phase[e] = "ready"
        BY <1>13 DEF RefreshAfterConflict, IInv, OpenInv, Quiescent
    <2>2. PICK k \in Slots :
              refresh' = [refresh EXCEPT ![e][k] =
                  [st |-> "sent", keep |-> TRUE, was |-> loaded[e], graph |-> {}]]
        BY <1>13 DEF RefreshAfterConflict, RefreshDraft
    <2>3. \A f \in Editors : f # e => refresh'[f] = refresh[f] /\ loaded'[f] = loaded[f]
        BY <1>13, <2>2 DEF RefreshAfterConflict, RefreshDraft, IInv, TypeOK
    <2> QED
        BY <1>13, <2>1, <2>3 DEF RefreshAfterConflict, Quiescent, IInv, OpenInv, TypeOK
<1>14. ASSUME NEW e \in Editors, RefreshWhenBack(e) PROVE OpenInv'
    <2>1. phase[e] = "ready"
        BY <1>14 DEF RefreshWhenBack, IInv, OpenInv, Quiescent
    <2>2. PICK k \in Slots :
              refresh' = [refresh EXCEPT ![e][k] =
                  [st |-> "sent", keep |-> FALSE, was |-> loaded[e], graph |-> {}]]
        BY <1>14 DEF RefreshWhenBack, RefreshDraft
    <2>3. \A f \in Editors : f # e => refresh'[f] = refresh[f] /\ loaded'[f] = loaded[f]
        BY <1>14, <2>2 DEF RefreshWhenBack, RefreshDraft, IInv, TypeOK
    <2> QED
        BY <1>14, <2>1, <2>3 DEF RefreshWhenBack, Quiescent, IInv, OpenInv, TypeOK
<1>15. ASSUME NEW e \in Editors, NEW k \in Slots, RefreshRead(e, k) PROVE OpenInv'
    BY <1>15 DEF RefreshRead, Quiescent, IInv, OpenInv, TypeOK, editor, bounds, history
<1>16. ASSUME NEW e \in Editors, NEW k \in Slots, RefreshApplied(e, k) PROVE OpenInv'
    BY <1>16 DEF RefreshApplied, Quiescent, IInv, OpenInv, TypeOK, editor, bounds, history
<1>17. ASSUME NEW e \in Editors, NEW k \in Slots, RefreshFails(e, k) PROVE OpenInv'
    BY <1>17 DEF RefreshFails, Quiescent, IInv, OpenInv, TypeOK, editor, bounds, history
<1>18. ASSUME NEW e \in Editors, HidePage(e) PROVE OpenInv'
    BY <1>18 DEF HidePage, Quiescent, IInv, OpenInv, TypeOK, editor, bounds, history
<1>19. ASSUME NEW e \in Editors, CheckBeacon(e) PROVE OpenInv'
    BY <1>19 DEF CheckBeacon, Quiescent, IInv, OpenInv, TypeOK, editor, bounds, history
<1>20. ASSUME NEW e \in Editors, CommitBeacon(e) PROVE OpenInv'
    BY <1>20 DEF CommitBeacon, Quiescent, IInv, OpenInv, TypeOK, editor, bounds, history
<1>21. ASSUME NEW e \in Editors, BeaconRefused(e) PROVE OpenInv'
    BY <1>21 DEF BeaconRefused, Quiescent, IInv, OpenInv, TypeOK, editor, bounds, history
<1>22. ASSUME NEW e \in Editors, ShowPage(e) PROVE OpenInv'
    BY <1>22 DEF ShowPage, Quiescent, IInv, OpenInv, TypeOK, editor, bounds, history
<1>23. CASE UNCHANGED vars
    BY <1>23 DEF vars, Quiescent, IInv, OpenInv, TypeOK, editor, bounds, history
<1> HIDE DEF OpenInv
<1> QED
    BY <1>1, <1>2, <1>3, <1>4, <1>5, <1>6, <1>7, <1>8, <1>9, <1>10, <1>11, <1>12,
       <1>13, <1>14, <1>15, <1>16, <1>17, <1>18, <1>19, <1>20, <1>21, <1>22,
       <1>23
       DEF Next, Opening, Syncing, Refreshing, Failing, Beaconing

(* The server's test leaves the graph alone and is no answer.              *)
LEMMA HashTestKeeps ==
    ASSUME NEW p \in Posts
    PROVE  HashTest(p).graph = p.graph /\ HashTest(p).st # "ok"
<1>1. CASE exists /\ draft # p.hash
    BY <1>1 DEF HashTest, Posts
<1>2. CASE ~(exists /\ draft # p.hash)
    BY <1>2 DEF HashTest, Posts
<1> QED
    BY <1>1, <1>2

(* A step of one editor keeps KnownInv if it keeps what is known of it.    *)
LEMMA KnownOfOne ==
    ASSUME IInv, NEW e \in Editors, Known(e)',
           \A f \in Editors : f # e =>
               /\ causes'[f] = causes[f] /\ hash'[f] = hash[f]
               /\ canvas'[f] = canvas[f] /\ sync'[f] = sync[f]
    PROVE  KnownInv'
<1> SUFFICES ASSUME NEW f \in Editors PROVE Known(f)'
    BY DEF KnownInv
<1>1. CASE f = e
    BY <1>1
<1>2. CASE f # e
    BY <1>2 DEF IInv, KnownInv, Known
<1> QED
    BY <1>1, <1>2

(* Every step keeps KnownInv.                                              *)
LEMMA NextKnown == IInv /\ [Next]_vars => KnownInv'
<1> SUFFICES ASSUME IInv, [Next]_vars PROVE KnownInv'
    OBVIOUS
<1>1. ASSUME NEW e \in Editors, InitialData(e) PROVE KnownInv'
    <2>1. CASE exists
        <3>1. canvas' = [canvas EXCEPT ![e] = draft] /\ hash' = [hash EXCEPT ![e] = draft]
            BY <1>1, <2>1, Zenon DEF InitialData
        <3>2. sync[e].st = "idle" /\ causes' = causes /\ sync' = sync
            BY <1>1 DEF InitialData, IInv, OpenInv, Quiescent, history
        <3>3. Known(e)'
            BY <3>1, <3>2 DEF Known, IInv, TypeOK
        <3>4. \A f \in Editors : f # e => canvas'[f] = canvas[f] /\ hash'[f] = hash[f]
            BY <3>1 DEF IInv, TypeOK
        <3> QED
            BY <3>2, <3>3, <3>4, KnownOfOne
    <2>2. CASE ~exists
        BY <1>1, <2>2 DEF InitialData, KnownInv, Known, IInv, history
    <2> QED
        BY <2>1, <2>2
<1>2. ASSUME NEW e \in Editors, CreateDraft(e) PROVE KnownInv'
    BY <1>2 DEF CreateDraft, KnownInv, Known, IInv, editor, history
<1>3. ASSUME NEW e \in Editors, NEW x \in Edits, Edit(e, x) PROVE KnownInv'
    <2>7. Known(e)'
        <3>1. canvas'[e] = canvas[e] \cup {x} /\ hash' = hash /\ sync' = sync /\ causes' = causes
            BY <1>3 DEF Edit, IInv, TypeOK, history
        <3> QED
            BY <3>1 DEF Known, IInv, KnownInv
    <2>8. \A f \in Editors : f # e =>
              /\ causes'[f] = causes[f] /\ hash'[f] = hash[f]
              /\ canvas'[f] = canvas[f] /\ sync'[f] = sync[f]
        BY <1>3 DEF Edit, IInv, TypeOK, history
    <2> QED
        BY <2>7, <2>8, KnownOfOne
<1>4. ASSUME NEW e \in Editors, DebounceFires(e) PROVE KnownInv'
    BY <1>4 DEF DebounceFires, KnownInv, Known, IInv, editor, history
<1>5. ASSUME NEW e \in Editors, NEW quiet \in BOOLEAN, SyncNow(e, quiet) PROVE KnownInv'
    BY <1>5 DEF SyncNow, KnownInv, Known, IInv, editor, history
<1>6. ASSUME NEW e \in Editors, PerformSync(e) PROVE KnownInv'
    <2>1. canvas' = canvas /\ hash' = hash /\ causes' = causes
        BY <1>6 DEF PerformSync, history
    <2>2. CASE loaded[e]
        <3>1. sync' = [sync EXCEPT ![e] = PostOf(e, Head(queue[e]))]
            BY <1>6, <2>2 DEF PerformSync
        <3>2. sync'[e].st = "sent" /\ sync'[e].graph = canvas[e]
            BY <3>1 DEF PostOf, IInv, TypeOK
        <3>3. Known(e)'
            BY <2>1, <3>2 DEF Known, IInv, KnownInv
        <3>4. \A f \in Editors : f # e => sync'[f] = sync[f]
            BY <3>1 DEF IInv, TypeOK
        <3> QED
            BY <2>1, <3>3, <3>4, KnownOfOne
    <2>3. CASE ~loaded[e]
        BY <1>6, <2>1, <2>3 DEF PerformSync, KnownInv, Known, IInv
    <2> QED
        BY <2>2, <2>3
<1>7. ASSUME NEW e \in Editors, CheckSync(e) PROVE KnownInv'
    <2>1. canvas' = canvas /\ hash' = hash /\ causes' = causes
        BY <1>7 DEF CheckSync, editor, history
    <2>2. sync' = [sync EXCEPT ![e] = HashTest(sync[e])] /\ sync[e] \in Posts
        BY <1>7 DEF CheckSync, IInv, TypeOK
    <2>3. sync'[e] = HashTest(sync[e])
        BY <2>2 DEF IInv, TypeOK
    <2>4. sync'[e].graph = sync[e].graph /\ sync'[e].st # "ok"
        BY <2>2, <2>3, HashTestKeeps
    <2>5. sync[e].st \in {"sent", "checked"}
        BY <1>7 DEF CheckSync
    <2>7. Known(e)'
        BY <2>1, <2>4, <2>5 DEF Known, IInv, KnownInv
    <2>8. \A f \in Editors : f # e =>
              /\ causes'[f] = causes[f] /\ hash'[f] = hash[f]
              /\ canvas'[f] = canvas[f] /\ sync'[f] = sync[f]
        BY <2>1, <2>2 DEF IInv, TypeOK
    <2> QED
        BY <2>7, <2>8, KnownOfOne
<1>8. ASSUME NEW e \in Editors, CommitSync(e) PROVE KnownInv'
    <2>1. canvas' = canvas /\ hash' = hash /\ causes' = causes
        BY <1>8 DEF CommitSync, editor, history
    <2>2. sync' = [sync EXCEPT ![e] = [sync[e] EXCEPT !.st = "committed"]] /\ sync[e] \in Posts
        BY <1>8 DEF CommitSync, IInv, TypeOK
    <2>3. sync'[e] = [sync[e] EXCEPT !.st = "committed"]
        BY <2>2 DEF IInv, TypeOK
    <2>4. sync'[e].graph = sync[e].graph /\ sync'[e].st # "ok"
        BY <2>2, <2>3 DEF Posts
    <2>5. sync[e].st \in {"sent", "checked"}
        BY <1>8 DEF CommitSync
    <2>7. Known(e)'
        BY <2>1, <2>4, <2>5 DEF Known, IInv, KnownInv
    <2>8. \A f \in Editors : f # e =>
              /\ causes'[f] = causes[f] /\ hash'[f] = hash[f]
              /\ canvas'[f] = canvas[f] /\ sync'[f] = sync[f]
        BY <2>1, <2>2 DEF IInv, TypeOK
    <2> QED
        BY <2>7, <2>8, KnownOfOne
<1>9. ASSUME NEW e \in Editors, ReplySync(e) PROVE KnownInv'
    <2>1. canvas' = canvas /\ hash' = hash
        BY <1>9 DEF ReplySync, editor
    <2>2. sync' = [sync EXCEPT ![e] = [sync[e] EXCEPT !.st = "ok", !.hash = draft]]
          /\ sync[e] \in Posts
        BY <1>9 DEF ReplySync, IInv, TypeOK
    <2>3. sync'[e] = [sync[e] EXCEPT !.st = "ok", !.hash = draft]
        BY <2>2 DEF IInv, TypeOK
    <2>4. sync'[e].st = "ok" /\ sync'[e].hash = draft
        BY <2>2, <2>3 DEF Posts
    <2>5. CASE draft # sync[e].graph
        <3>1. causes' = [causes EXCEPT ![e] = causes[e] \cup {"reread"}]
            BY <1>9, <2>5 DEF ReplySync
        <3>2. causes'[e] # {}
            BY <3>1 DEF IInv, TypeOK
        <3>3. Known(e)'
            BY <3>2 DEF Known
        <3>4. \A f \in Editors : f # e => causes'[f] = causes[f] /\ sync'[f] = sync[f]
            BY <2>2, <3>1 DEF IInv, TypeOK
        <3> QED
            BY <2>1, <3>3, <3>4, KnownOfOne
    <2>6. CASE draft = sync[e].graph
        <3>1. causes' = causes
            BY <1>9, <2>6 DEF ReplySync
        <3>2. sync[e].st = "committed"
            BY <1>9 DEF ReplySync
        <3>3. Known(e)'
            BY <2>1, <2>4, <2>6, <3>1, <3>2 DEF Known, IInv, KnownInv
        <3>4. \A f \in Editors : f # e => sync'[f] = sync[f]
            BY <2>2 DEF IInv, TypeOK
        <3> QED
            BY <2>1, <3>1, <3>3, <3>4, KnownOfOne
    <2> QED
        BY <2>5, <2>6
<1>10. ASSUME NEW e \in Editors, SyncAnswered(e) PROVE KnownInv'
    <2>1. canvas' = canvas /\ causes' = causes /\ sync' = [sync EXCEPT ![e] = Idle]
          /\ hash' = [hash EXCEPT ![e] = sync[e].hash] /\ sync[e].st = "ok"
        BY <1>10 DEF SyncAnswered, history
    <2>2. sync'[e].st = "idle" /\ hash'[e] = sync[e].hash
        BY <2>1 DEF Idle, IInv, TypeOK
    <2>7. Known(e)'
        BY <2>1, <2>2 DEF Known, IInv, KnownInv
    <2>8. \A f \in Editors : f # e =>
              /\ causes'[f] = causes[f] /\ hash'[f] = hash[f]
              /\ canvas'[f] = canvas[f] /\ sync'[f] = sync[f]
        BY <2>1 DEF IInv, TypeOK
    <2> QED
        BY <2>7, <2>8, KnownOfOne
<1>11. ASSUME NEW e \in Editors, SyncRefused(e) PROVE KnownInv'
    <2>1. canvas' = canvas /\ causes' = causes /\ hash' = hash
          /\ sync' = [sync EXCEPT ![e] = Idle]
        BY <1>11 DEF SyncRefused, history
    <2>2. sync'[e].st = "idle"
        BY <2>1 DEF Idle, IInv, TypeOK
    <2>7. Known(e)'
        BY <2>1, <2>2 DEF Known, IInv, KnownInv
    <2>8. \A f \in Editors : f # e =>
              /\ causes'[f] = causes[f] /\ hash'[f] = hash[f]
              /\ canvas'[f] = canvas[f] /\ sync'[f] = sync[f]
        BY <2>1 DEF IInv, TypeOK
    <2> QED
        BY <2>7, <2>8, KnownOfOne
<1>12. ASSUME NEW e \in Editors, SyncFails(e) PROVE KnownInv'
    <2>1. canvas' = canvas /\ causes' = causes /\ hash' = hash
          /\ sync' = [sync EXCEPT ![e] = Idle]
        BY <1>12 DEF SyncFails, editor, history
    <2>2. sync'[e].st = "idle"
        BY <2>1 DEF Idle, IInv, TypeOK
    <2>7. Known(e)'
        BY <2>1, <2>2 DEF Known, IInv, KnownInv
    <2>8. \A f \in Editors : f # e =>
              /\ causes'[f] = causes[f] /\ hash'[f] = hash[f]
              /\ canvas'[f] = canvas[f] /\ sync'[f] = sync[f]
        BY <2>1 DEF IInv, TypeOK
    <2> QED
        BY <2>7, <2>8, KnownOfOne
<1>13. ASSUME NEW e \in Editors, RefreshAfterConflict(e) PROVE KnownInv'
    BY <1>13 DEF RefreshAfterConflict, KnownInv, Known, IInv, editor, history
<1>14. ASSUME NEW e \in Editors, RefreshWhenBack(e) PROVE KnownInv'
    BY <1>14 DEF RefreshWhenBack, KnownInv, Known, IInv, editor, history
<1>15. ASSUME NEW e \in Editors, NEW k \in Slots, RefreshRead(e, k) PROVE KnownInv'
    BY <1>15 DEF RefreshRead, KnownInv, Known, IInv, editor, history
<1>16. ASSUME NEW e \in Editors, NEW k \in Slots, RefreshApplied(e, k) PROVE KnownInv'
    <2>1. sync' = sync /\ hash' = [hash EXCEPT ![e] = refresh[e][k].graph]
        BY <1>16 DEF RefreshApplied
    <2>2. ASSUME refresh[e][k].keep PROVE Known(e)'
        <3>1. causes'[e] # {}
            BY <1>16, <2>2 DEF RefreshApplied, IInv, TypeOK
        <3> QED
            BY <3>1 DEF Known
    <2>3. ASSUME ~refresh[e][k].keep, sync[e].st # "idle" PROVE Known(e)'
        <3>1. causes'[e] # {}
            BY <1>16, <2>3 DEF RefreshApplied, IInv, TypeOK
        <3> QED
            BY <3>1 DEF Known
    <2>4. ASSUME ~refresh[e][k].keep, sync[e].st = "idle" PROVE Known(e)'
        <3>1. canvas'[e] = refresh[e][k].graph /\ hash'[e] = refresh[e][k].graph
            BY <1>16, <2>4 DEF RefreshApplied, IInv, TypeOK
        <3> QED
            BY <2>1, <2>4, <3>1 DEF Known
    <2>7. Known(e)'
        BY <2>2, <2>3, <2>4
    <2>8. \A f \in Editors : f # e =>
              /\ causes'[f] = causes[f] /\ hash'[f] = hash[f]
              /\ canvas'[f] = canvas[f] /\ sync'[f] = sync[f]
        BY <1>16 DEF RefreshApplied, IInv, TypeOK
    <2> QED
        BY <2>7, <2>8, KnownOfOne
<1>17. ASSUME NEW e \in Editors, NEW k \in Slots, RefreshFails(e, k) PROVE KnownInv'
    BY <1>17 DEF RefreshFails, KnownInv, Known, IInv, editor, history
<1>18. ASSUME NEW e \in Editors, HidePage(e) PROVE KnownInv'
    BY <1>18 DEF HidePage, KnownInv, Known, IInv, editor, history
<1>19. ASSUME NEW e \in Editors, CheckBeacon(e) PROVE KnownInv'
    BY <1>19 DEF CheckBeacon, KnownInv, Known, IInv, editor, history
<1>20. ASSUME NEW e \in Editors, CommitBeacon(e) PROVE KnownInv'
    BY <1>20 DEF CommitBeacon, KnownInv, Known, IInv, editor, history
<1>21. ASSUME NEW e \in Editors, BeaconRefused(e) PROVE KnownInv'
    BY <1>21 DEF BeaconRefused, KnownInv, Known, IInv, editor, history
<1>22. ASSUME NEW e \in Editors, ShowPage(e) PROVE KnownInv'
    BY <1>22 DEF ShowPage, KnownInv, Known, IInv, editor, history
<1>23. CASE UNCHANGED vars
    BY <1>23 DEF vars, KnownInv, Known, IInv, editor, history
<1> HIDE DEF KnownInv
<1> QED
    BY <1>1, <1>2, <1>3, <1>4, <1>5, <1>6, <1>7, <1>8, <1>9, <1>10, <1>11, <1>12,
       <1>13, <1>14, <1>15, <1>16, <1>17, <1>18, <1>19, <1>20, <1>21, <1>22,
       <1>23
       DEF Next, Opening, Syncing, Refreshing, Failing, Beaconing

(* A step that replaces one post keeps PostInv.                            *)
LEMMA PostOfOne ==
    ASSUME IInv, NEW e \in Editors, NEW p, Includes(p),
           \/ sync' = [sync EXCEPT ![e] = p] /\ beacon' = beacon
           \/ beacon' = [beacon EXCEPT ![e] = p] /\ sync' = sync
    PROVE  PostInv'
<1> SUFFICES ASSUME NEW f \in Editors PROVE Includes(sync'[f]) /\ Includes(beacon'[f])
    BY DEF PostInv
<1>1. sync'[f] \in {sync[f], p} /\ beacon'[f] \in {beacon[f], p}
    BY DEF IInv, TypeOK
<1>2. Includes(sync[f]) /\ Includes(beacon[f])
    BY DEF IInv, PostInv
<1> QED
    BY <1>1, <1>2, Zenon

(* Every step keeps PostInv.                                               *)
LEMMA NextPost == IInv /\ [Next]_vars => PostInv'
<1> SUFFICES ASSUME IInv, [Next]_vars PROVE PostInv'
    OBVIOUS
<1>1. ASSUME NEW e \in Editors, InitialData(e) PROVE PostInv'
    BY <1>1 DEF InitialData, PostInv, IInv
<1>2. ASSUME NEW e \in Editors, CreateDraft(e) PROVE PostInv'
    BY <1>2 DEF CreateDraft, PostInv, IInv
<1>3. ASSUME NEW e \in Editors, NEW x \in Edits, Edit(e, x) PROVE PostInv'
    BY <1>3 DEF Edit, PostInv, IInv
<1>4. ASSUME NEW e \in Editors, DebounceFires(e) PROVE PostInv'
    BY <1>4 DEF DebounceFires, PostInv, IInv
<1>5. ASSUME NEW e \in Editors, NEW quiet \in BOOLEAN, SyncNow(e, quiet) PROVE PostInv'
    BY <1>5 DEF SyncNow, PostInv, IInv
<1>6. ASSUME NEW e \in Editors, PerformSync(e) PROVE PostInv'
    <2>1. CASE loaded[e]
        <3>1. sync' = [sync EXCEPT ![e] = PostOf(e, Head(queue[e]))] /\ beacon' = beacon
            BY <1>6, <2>1 DEF PerformSync
        <3>2. Head(queue[e]) \in BOOLEAN
            BY <1>6 DEF PerformSync, IInv, TypeOK
        <3>3. Includes(PostOf(e, Head(queue[e])))
            BY <3>2, PostsInclude
        <3> QED
            BY <3>1, <3>3, PostOfOne
    <2>2. CASE ~loaded[e]
        BY <1>6, <2>2 DEF PerformSync, PostInv, IInv
    <2> QED
        BY <2>1, <2>2
<1>7. ASSUME NEW e \in Editors, CheckSync(e) PROVE PostInv'
    <2>1. sync' = [sync EXCEPT ![e] = HashTest(sync[e])] /\ beacon' = beacon
          /\ sync[e].st = "sent"
        BY <1>7 DEF CheckSync
    <2>2. Includes(HashTest(sync[e]))
        BY <2>1, PostsInclude
    <2> QED
        BY <2>1, <2>2, PostOfOne
<1>8. ASSUME NEW e \in Editors, CommitSync(e) PROVE PostInv'
    <2>1. sync' = [sync EXCEPT ![e] = [sync[e] EXCEPT !.st = "committed"]] /\ beacon' = beacon
        BY <1>8 DEF CommitSync
    <2>2. Includes([sync[e] EXCEPT !.st = "committed"])
        BY <2>1, PostsInclude
    <2> QED
        BY <2>1, <2>2, PostOfOne
<1>9. ASSUME NEW e \in Editors, ReplySync(e) PROVE PostInv'
    <2>1. sync' = [sync EXCEPT ![e] = [sync[e] EXCEPT !.st = "ok", !.hash = draft]] /\ beacon' = beacon
        BY <1>9 DEF ReplySync
    <2>2. Includes([sync[e] EXCEPT !.st = "ok", !.hash = draft])
        BY <2>1, PostsInclude
    <2> QED
        BY <2>1, <2>2, PostOfOne
<1>10. ASSUME NEW e \in Editors, SyncAnswered(e) PROVE PostInv'
    <2>1. sync' = [sync EXCEPT ![e] = Idle] /\ beacon' = beacon
        BY <1>10 DEF SyncAnswered
    <2>2. Includes(Idle)
        BY <2>1, PostsInclude
    <2> QED
        BY <2>1, <2>2, PostOfOne
<1>11. ASSUME NEW e \in Editors, SyncRefused(e) PROVE PostInv'
    <2>1. sync' = [sync EXCEPT ![e] = Idle] /\ beacon' = beacon
        BY <1>11 DEF SyncRefused
    <2>2. Includes(Idle)
        BY <2>1, PostsInclude
    <2> QED
        BY <2>1, <2>2, PostOfOne
<1>12. ASSUME NEW e \in Editors, SyncFails(e) PROVE PostInv'
    <2>1. sync' = [sync EXCEPT ![e] = Idle] /\ beacon' = beacon
        BY <1>12 DEF SyncFails
    <2>2. Includes(Idle)
        BY <2>1, PostsInclude
    <2> QED
        BY <2>1, <2>2, PostOfOne
<1>13. ASSUME NEW e \in Editors, RefreshAfterConflict(e) PROVE PostInv'
    BY <1>13 DEF RefreshAfterConflict, PostInv, IInv
<1>14. ASSUME NEW e \in Editors, RefreshWhenBack(e) PROVE PostInv'
    BY <1>14 DEF RefreshWhenBack, PostInv, IInv
<1>15. ASSUME NEW e \in Editors, NEW k \in Slots, RefreshRead(e, k) PROVE PostInv'
    BY <1>15 DEF RefreshRead, PostInv, IInv
<1>16. ASSUME NEW e \in Editors, NEW k \in Slots, RefreshApplied(e, k) PROVE PostInv'
    BY <1>16 DEF RefreshApplied, PostInv, IInv
<1>17. ASSUME NEW e \in Editors, NEW k \in Slots, RefreshFails(e, k) PROVE PostInv'
    BY <1>17 DEF RefreshFails, PostInv, IInv
<1>18. ASSUME NEW e \in Editors, HidePage(e) PROVE PostInv'
    <2>1. CASE loaded[e]
        <3>1. beacon' = [beacon EXCEPT ![e] = PostOf(e, TRUE)] /\ sync' = sync
            BY <1>18, <2>1 DEF HidePage
        <3>3. Includes(PostOf(e, TRUE))
            BY PostsInclude
        <3> QED
            BY <3>1, <3>3, PostOfOne
    <2>2. CASE ~loaded[e]
        BY <1>18, <2>2 DEF HidePage, PostInv, IInv
    <2> QED
        BY <2>1, <2>2
<1>19. ASSUME NEW e \in Editors, CheckBeacon(e) PROVE PostInv'
    <2>1. beacon' = [beacon EXCEPT ![e] = HashTest(beacon[e])] /\ sync' = sync
          /\ beacon[e].st = "sent"
        BY <1>19 DEF CheckBeacon
    <2>2. Includes(HashTest(beacon[e]))
        BY <2>1, PostsInclude
    <2> QED
        BY <2>1, <2>2, PostOfOne
<1>20. ASSUME NEW e \in Editors, CommitBeacon(e) PROVE PostInv'
    <2>1. beacon' = [beacon EXCEPT ![e] = Idle] /\ sync' = sync
        BY <1>20 DEF CommitBeacon
    <2>2. Includes(Idle)
        BY <2>1, PostsInclude
    <2> QED
        BY <2>1, <2>2, PostOfOne
<1>21. ASSUME NEW e \in Editors, BeaconRefused(e) PROVE PostInv'
    <2>1. beacon' = [beacon EXCEPT ![e] = Idle] /\ sync' = sync
        BY <1>21 DEF BeaconRefused
    <2>2. Includes(Idle)
        BY <2>1, PostsInclude
    <2> QED
        BY <2>1, <2>2, PostOfOne
<1>22. ASSUME NEW e \in Editors, ShowPage(e) PROVE PostInv'
    BY <1>22 DEF ShowPage, PostInv, IInv
<1>23. CASE UNCHANGED vars
    BY <1>23 DEF vars, PostInv, IInv
<1> HIDE DEF PostInv
<1> QED
    BY <1>1, <1>2, <1>3, <1>4, <1>5, <1>6, <1>7, <1>8, <1>9, <1>10, <1>11, <1>12,
       <1>13, <1>14, <1>15, <1>16, <1>17, <1>18, <1>19, <1>20, <1>21, <1>22,
       <1>23
       DEF Next, Opening, Syncing, Refreshing, Failing, Beaconing

(* IInv is inductive.                                                      *)
LEMMA Inductive == Spec => []IInv
<1>1. Init => IInv
    <2> SUFFICES ASSUME Init PROVE IInv
        OBVIOUS
    <2>1. TypeOK
        BY InitTypeOK
    <2>2. OpenInv
        BY DEF Init, OpenInv, Quiescent, Idle, NoRefresh
    <2>3. KnownInv
        BY DEF Init, KnownInv, Known, Idle
    <2>4. EmptyInv
        BY DEF Init, EmptyInv
    <2>5. PostInv
        BY DEF Init, PostInv, Includes, Idle
    <2> QED
        BY <2>1, <2>2, <2>3, <2>4, <2>5 DEF IInv
<1>2. IInv /\ [Next]_vars => IInv'
    BY NextTypeOK, NextOpen, NextKnown, NextEmpty, NextPost DEF IInv
<1> QED
    BY <1>1, <1>2, PTL DEF Spec

(* An editor that nothing is recorded against never holds a hash of edits  *)
(* its canvas lacks, whatever the interleaving of its own syncs, refreshes *)
(* and page events with those of the others (performSync and               *)
(* handleRefreshWorkflowDraft).                                            *)
THEOREM HashIsKnown == Spec => []HashKnown
<1>1. IInv => HashKnown
    BY DEF IInv, KnownInv, Known, HashKnown
<1> QED
    BY <1>1, Inductive, PTL

(* An edit that leaves the draft was overwritten by an editor that one of  *)
(* the recorded things had happened to, or by a commit whose test was      *)
(* overtaken (sync_draft_workflow).                                        *)
THEOREM LossIsExplained == Spec => LossHasCause
<1> DEFINE Explained ==
        \A x \in draft : x \notin draft' =>
            \E e \in Editors : \E p \in {sync[e], beacon[e]} :
                p.st = "checked" /\ (p.why # {} \/ p.seen # draft)
<1>1. IInv /\ [Next]_vars => Explained
    <2> SUFFICES ASSUME IInv, [Next]_vars, NEW x \in draft, x \notin draft'
                 PROVE  \E e \in Editors : \E p \in {sync[e], beacon[e]} :
                            p.st = "checked" /\ (p.why # {} \/ p.seen # draft)
        OBVIOUS
    <2>1. PICK e \in Editors : CommitSync(e) \/ CommitBeacon(e)
        BY NextDraft DEF CreateDraft
    <2>2. PICK p \in {sync[e], beacon[e]} : p.st = "checked" /\ draft' = p.graph
        BY <2>1 DEF CommitSync, CommitBeacon
    <2>3. Includes(p)
        BY DEF IInv, PostInv
    <2>4. p.why # {} \/ p.seen # draft
        BY <2>2, <2>3 DEF Includes
    <2> QED
        BY <2>2, <2>4
<1>2. IInv /\ [Next]_vars => [Explained]_vars
    BY <1>1
<1> QED
    BY <1>2, Inductive, PTL DEF Spec, LossHasCause

=============================================================================
