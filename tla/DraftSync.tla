------------------------------ MODULE DraftSync ------------------------------
(***************************************************************************)
(* How the workflow editor keeps the draft on the server                   *)
(* (web/app/components/workflow-app/hooks: use-workflow-init.ts,           *)
(* use-nodes-sync-draft.ts, use-workflow-refresh-draft.ts, with the hooks  *)
(* and the store of web/app/components/workflow they call), against the    *)
(* hash test of sync_draft_workflow in the API.  Collaboration mode is     *)
(* off: every editor writes the draft itself.                              *)
(*                                                                         *)
(* A graph is the set of the edits in it, and stands for its own hash.     *)
(* A step is one turn of an editor's event loop, or one access of the API  *)
(* to the draft's row: nothing locks the row between the test and the      *)
(* commit.                                                                 *)
(***************************************************************************)
EXTENDS Naturals, Sequences

CONSTANTS
    Editors,    \* browser tabs with the workflow open
    Edits,      \* changes of the graph
    MaxEvents   \* bound on immediate syncs, hidden pages and failing requests

ASSUME MaxEventsAssumption == MaxEvents \in Nat

VARIABLES
    exists,     \* the app has a draft
    draft,      \* its graph
    made,       \* edits made so far
    phase,      \* where useWorkflowInit of an editor is
    canvas,     \* the graph on the editor's canvas
    hash,       \* syncWorkflowDraftHash
    loaded,     \* isWorkflowDataLoaded
    syncing,    \* isSyncingWorkflowDraft: a dialog covers the canvas
    debounce,   \* debouncedSyncWorkflowDraft is pending
    queue,      \* performSync calls waiting in useSerialAsyncCallback
    sync,       \* the POST of the performSync that is running
    told,       \* a conflict whose body is being read
    refresh,    \* handleRefreshWorkflowDraft calls in flight
    beacon,     \* the keepalive POST of a hidden page
    page,       \* visible, hidden, or back and about to refresh
    asks, hides, faults,
    saved,      \* history: edits that have been in the draft
    causes      \* history: why an editor may overwrite what it never saw

editor == <<made, phase, canvas, hash, loaded, syncing, debounce, queue, told, page>>
bounds == <<asks, hides, faults>>
history == <<saved, causes>>
vars == <<exists, draft, made, phase, canvas, hash, loaded, syncing, debounce, queue,
          sync, told, refresh, beacon, page, asks, hides, faults, saved, causes>>

(* A POST: where it is, what it writes, the hash it was sent with or       *)
(* answered with, whether a conflict is to be left alone, the causes known *)
(* when it was sent, and the draft the server compared it with.            *)
Idle == [st |-> "idle", graph |-> {}, hash |-> {}, quiet |-> FALSE, why |-> {},
         seen |-> {}]
PostOf(e, quiet) ==
    [st |-> "sent", graph |-> canvas[e], hash |-> hash[e], quiet |-> quiet,
     why |-> causes[e], seen |-> {}]
PostStates == {"idle", "sent", "checked", "committed", "ok", "conflict"}

(* A refresh: where it is, whether the canvas is kept, what loaded was,    *)
(* and the draft it was answered with.  An editor has two at most.         *)
NoRefresh == [st |-> "none", keep |-> FALSE, was |-> FALSE, graph |-> {}]
Slots == {1, 2}

Causes == {"conflict", "overlap", "reread"}

Init ==
    /\ exists \in BOOLEAN
    /\ draft = {}
    /\ made = {}
    /\ phase = [e \in Editors |-> "fetching"]
    /\ canvas = [e \in Editors |-> {}]
    /\ hash = [e \in Editors |-> {}]
    /\ loaded = [e \in Editors |-> FALSE]
    /\ syncing = [e \in Editors |-> FALSE]
    /\ debounce = [e \in Editors |-> FALSE]
    /\ queue = [e \in Editors |-> <<>>]
    /\ sync = [e \in Editors |-> Idle]
    /\ told = [e \in Editors |-> FALSE]
    /\ refresh = [e \in Editors |-> [k \in Slots |-> NoRefresh]]
    /\ beacon = [e \in Editors |-> Idle]
    /\ page = [e \in Editors |-> "visible"]
    /\ asks = 0 /\ hides = 0 /\ faults = 0
    /\ saved = {}
    /\ causes = [e \in Editors |-> {}]

Bounded == asks + hides + faults < MaxEvents

-----------------------------------------------------------------------------
(* useWorkflowInit: the draft is fetched, or found missing,                *)
InitialData(e) ==
    /\ phase[e] = "fetching"
    /\ IF exists
       THEN /\ phase' = [phase EXCEPT ![e] = "ready"]
            /\ canvas' = [canvas EXCEPT ![e] = draft]
            /\ hash' = [hash EXCEPT ![e] = draft]
            /\ loaded' = [loaded EXCEPT ![e] = TRUE]
       ELSE /\ phase' = [phase EXCEPT ![e] = "creating"]
            /\ UNCHANGED <<canvas, hash, loaded>>
    /\ UNCHANGED <<exists, draft, made, syncing, debounce, queue, sync, told,
                   refresh, beacon, page, bounds, history>>

(* and created with a POST that carries no hash.  If another editor has    *)
(* created it since, the POST is refused and nothing handles the           *)
(* rejection: the page goes on loading.                                    *)
CreateDraft(e) ==
    /\ phase[e] = "creating"
    /\ IF exists THEN /\ phase' = [phase EXCEPT ![e] = "stuck"]
                      /\ UNCHANGED exists
                 ELSE /\ phase' = [phase EXCEPT ![e] = "fetching"]
                      /\ exists' = TRUE
    /\ UNCHANGED <<draft, made, canvas, hash, loaded, syncing, debounce, queue,
                   sync, told, refresh, beacon, page, bounds, history>>

-----------------------------------------------------------------------------
(* A change of the graph; the dialog of a running refresh prevents it.     *)
(* handleSyncWorkflowDraft() starts the debounce.                          *)
Edit(e, x) ==
    /\ phase[e] = "ready" /\ page[e] # "hidden" /\ ~syncing[e]
    /\ x \notin made
    /\ made' = made \cup {x}
    /\ canvas' = [canvas EXCEPT ![e] = @ \cup {x}]
    /\ debounce' = [debounce EXCEPT ![e] = TRUE]
    /\ UNCHANGED <<exists, draft, phase, hash, loaded, syncing, queue, sync, told,
                   refresh, beacon, page, bounds, history>>

(* The debounced function runs: doSyncWorkflowDraft joins the serial       *)
(* queue.                                                                  *)
DebounceFires(e) ==
    /\ debounce[e]
    /\ debounce' = [debounce EXCEPT ![e] = FALSE]
    /\ queue' = [queue EXCEPT ![e] = Append(@, FALSE)]
    /\ UNCHANGED <<exists, draft, made, phase, canvas, hash, loaded, syncing, sync,
                   told, refresh, beacon, page, bounds, history>>

(* handleSyncWorkflowDraft(true, quiet): before a run, or when the editor  *)
(* is left (quiet).                                                        *)
SyncNow(e, quiet) ==
    /\ phase[e] = "ready"
    /\ Bounded
    /\ asks' = asks + 1
    /\ queue' = [queue EXCEPT ![e] = Append(@, quiet)]
    /\ UNCHANGED <<exists, draft, made, phase, canvas, hash, loaded, syncing,
                   debounce, sync, told, refresh, beacon, page, hides, faults,
                   history>>

PerformSyncUnlessBusy(e) ==
    /\ queue[e] # <<>>
    /\ sync' = IF loaded[e] /\ sync[e].st = "idle"
               THEN [sync EXCEPT ![e] = PostOf(e, Head(queue[e]))]
               ELSE sync
    /\ queue' = [queue EXCEPT ![e] = Tail(@)]
    /\ UNCHANGED <<exists, draft, made, phase, canvas, hash, loaded, syncing,
                   debounce, told, refresh, beacon, page, bounds, history>>

(* The head of the queue runs once the call before it has ended: the       *)
(* canvas and the hash of this moment are posted, or nothing at all while  *)
(* a refresh is running (getPostParams is null).                           *)
PerformSync(e) ==
    /\ queue[e] # <<>>
    /\ sync[e].st = "idle"
    /\ sync' = IF loaded[e]
               THEN [sync EXCEPT ![e] = PostOf(e, Head(queue[e]))]
               ELSE sync
    /\ queue' = [queue EXCEPT ![e] = Tail(@)]
    /\ UNCHANGED <<exists, draft, made, phase, canvas, hash, loaded, syncing,
                   debounce, told, refresh, beacon, page, bounds, history>>

HashTestSkipped(post) == [post EXCEPT !.st = "checked", !.seen = draft]

(* sync_draft_workflow reads the row and compares the hashes.              *)
HashTest(post) ==
    [post EXCEPT !.st = IF exists /\ draft # post.hash THEN "conflict" ELSE "checked",
                 !.seen = draft]

CheckSync(e) ==
    /\ sync[e].st = "sent"
    /\ sync' = [sync EXCEPT ![e] = HashTest(@)]
    /\ UNCHANGED <<exists, draft, editor, refresh, beacon, bounds, history>>

(* The row is written and committed,                                       *)
CommitSync(e) ==
    /\ sync[e].st = "checked"
    /\ exists' = TRUE
    /\ draft' = sync[e].graph
    /\ saved' = saved \cup draft'
    /\ sync' = [sync EXCEPT ![e].st = "committed"]
    /\ UNCHANGED <<editor, refresh, beacon, bounds, causes>>

(* and read again for the response: workflow.unique_hash after a commit    *)
(* that expired the object.                                                *)
ReplySync(e) ==
    /\ sync[e].st = "committed"
    /\ sync' = [sync EXCEPT ![e].st = "ok", ![e].hash = draft]
    /\ causes' = IF draft # sync[e].graph
                 THEN [causes EXCEPT ![e] = @ \cup {"reread"}] ELSE causes
    /\ UNCHANGED <<exists, draft, editor, refresh, beacon, bounds, saved>>

SyncAnsweredThenFetched(e) ==
    /\ sync[e].st = "ok"
    /\ hash' = [hash EXCEPT ![e] = draft]
    /\ sync' = [sync EXCEPT ![e] = Idle]
    /\ UNCHANGED <<exists, draft, made, phase, canvas, loaded, syncing, debounce,
                   queue, told, refresh, beacon, page, bounds, history>>

(* The answer's hash is kept for the next sync.                            *)
SyncAnswered(e) ==
    /\ sync[e].st = "ok"
    /\ hash' = [hash EXCEPT ![e] = sync[e].hash]
    /\ sync' = [sync EXCEPT ![e] = Idle]
    /\ UNCHANGED <<exists, draft, made, phase, canvas, loaded, syncing, debounce,
                   queue, told, refresh, beacon, page, bounds, history>>

(* A conflict: the next call of the queue may run before the error's body  *)
(* has been read.                                                          *)
SyncRefused(e) ==
    /\ sync[e].st = "conflict"
    /\ told' = [told EXCEPT ![e] = @ \/ ~sync[e].quiet]
    /\ sync' = [sync EXCEPT ![e] = Idle]
    /\ UNCHANGED <<exists, draft, made, phase, canvas, hash, loaded, syncing,
                   debounce, queue, refresh, beacon, page, bounds, history>>

(* The request or its answer is lost; the error has no body.               *)
SyncFails(e) ==
    /\ sync[e].st \in {"sent", "ok"}
    /\ Bounded
    /\ faults' = faults + 1
    /\ sync' = [sync EXCEPT ![e] = Idle]
    /\ UNCHANGED <<exists, draft, editor, refresh, beacon, asks, hides, history>>

-----------------------------------------------------------------------------
(* handleRefreshWorkflowDraft(keep) in a free slot: the debounce is        *)
(* cancelled and no sync can post until the answer.                        *)
RefreshDraft(e, keep) ==
    \E k \in Slots :
        /\ refresh[e][k].st = "none"
        /\ refresh' = [refresh EXCEPT ![e][k] =
               [st |-> "sent", keep |-> keep, was |-> loaded[e], graph |-> {}]]
        /\ debounce' = [debounce EXCEPT ![e] = FALSE]
        /\ loaded' = [loaded EXCEPT ![e] = FALSE]
        /\ syncing' = [syncing EXCEPT ![e] = TRUE]

(* After a conflict the canvas is kept.                                    *)
RefreshAfterConflict(e) ==
    /\ told[e]
    /\ told' = [told EXCEPT ![e] = FALSE]
    /\ RefreshDraft(e, TRUE)
    /\ UNCHANGED <<exists, draft, made, phase, canvas, hash, queue, sync, beacon,
                   page, bounds, history>>

RefreshRead(e, k) ==
    /\ refresh[e][k].st = "sent"
    /\ refresh' = [refresh EXCEPT ![e][k].st = "ok", ![e][k].graph = draft]
    /\ UNCHANGED <<exists, draft, editor, sync, beacon, bounds, history>>

(* The answer replaces the hash and, unless it is to be kept, the canvas.  *)
RefreshApplied(e, k) ==
    LET r == refresh[e][k] IN
    /\ r.st = "ok"
    /\ canvas' = IF r.keep THEN canvas ELSE [canvas EXCEPT ![e] = r.graph]
    /\ hash' = [hash EXCEPT ![e] = r.graph]
    /\ loaded' = [loaded EXCEPT ![e] = TRUE]
    /\ syncing' = [syncing EXCEPT ![e] = FALSE]
    /\ refresh' = [refresh EXCEPT ![e][k] = NoRefresh]
    /\ causes' = [causes EXCEPT ![e] =
           CASE r.keep -> @ \cup {"conflict"}
             [] ~r.keep /\ sync[e].st # "idle" -> @ \cup {"overlap"}
             [] OTHER -> {}]
    /\ UNCHANGED <<exists, draft, made, phase, debounce, queue, sync, told, beacon,
                   page, bounds, saved>>

RefreshFailsUnloaded(e, k) ==
    LET r == refresh[e][k] IN
    /\ r.st \in {"sent", "ok"}
    /\ Bounded
    /\ faults' = faults + 1
    /\ syncing' = [syncing EXCEPT ![e] = FALSE]
    /\ refresh' = [refresh EXCEPT ![e][k] = NoRefresh]
    /\ UNCHANGED <<exists, draft, made, phase, canvas, hash, loaded, debounce, queue,
                   sync, told, beacon, page, asks, hides, history>>

(* The fetch fails: what isWorkflowDataLoaded was before is restored.      *)
RefreshFails(e, k) ==
    LET r == refresh[e][k] IN
    /\ r.st \in {"sent", "ok"}
    /\ Bounded
    /\ faults' = faults + 1
    /\ loaded' = [loaded EXCEPT ![e] = @ \/ r.was]
    /\ syncing' = [syncing EXCEPT ![e] = FALSE]
    /\ refresh' = [refresh EXCEPT ![e][k] = NoRefresh]
    /\ UNCHANGED <<exists, draft, made, phase, canvas, hash, debounce, queue, sync,
                   told, beacon, page, asks, hides, history>>

-----------------------------------------------------------------------------
(* The page is hidden: syncWorkflowDraftWhenPageClose posts without        *)
(* waiting for the queue or for an answer.                                 *)
HidePage(e) ==
    /\ phase[e] = "ready" /\ page[e] = "visible"
    /\ beacon[e].st = "idle"
    /\ Bounded
    /\ hides' = hides + 1
    /\ page' = [page EXCEPT ![e] = "hidden"]
    /\ beacon' = IF loaded[e]
                 THEN [beacon EXCEPT ![e] = PostOf(e, TRUE)]
                 ELSE beacon
    /\ UNCHANGED <<exists, draft, made, phase, canvas, hash, loaded, syncing,
                   debounce, queue, sync, told, refresh, asks, faults, history>>

CheckBeacon(e) ==
    /\ beacon[e].st = "sent"
    /\ beacon' = [beacon EXCEPT ![e] = HashTest(@)]
    /\ UNCHANGED <<exists, draft, editor, sync, refresh, bounds, history>>

CommitBeacon(e) ==
    /\ beacon[e].st = "checked"
    /\ exists' = TRUE
    /\ draft' = beacon[e].graph
    /\ saved' = saved \cup draft'
    /\ beacon' = [beacon EXCEPT ![e] = Idle]
    /\ UNCHANGED <<editor, sync, refresh, bounds, causes>>

(* Its refusal is never seen.                                              *)
BeaconRefused(e) ==
    /\ beacon[e].st = "conflict"
    /\ beacon' = [beacon EXCEPT ![e] = Idle]
    /\ UNCHANGED <<exists, draft, editor, sync, refresh, bounds, history>>

(* The page is visible again.  Unless a run is active or listening for a   *)
(* trigger, which is not modelled,                                         *)
ShowPage(e) ==
    /\ page[e] = "hidden"
    /\ \E p \in {"back", "visible"} : page' = [page EXCEPT ![e] = p]
    /\ UNCHANGED <<exists, draft, made, phase, canvas, hash, loaded, syncing,
                   debounce, queue, sync, told, refresh, beacon, bounds, history>>

(* it refreshes, canvas and all, half a second later.                      *)
RefreshWhenBack(e) ==
    /\ page[e] = "back"
    /\ page' = [page EXCEPT ![e] = "visible"]
    /\ RefreshDraft(e, FALSE)
    /\ UNCHANGED <<exists, draft, made, phase, canvas, hash, queue, sync, told,
                   beacon, bounds, history>>

-----------------------------------------------------------------------------
Opening(e) == InitialData(e) \/ CreateDraft(e)

Syncing(e) ==
    \/ PerformSync(e)
    \/ CheckSync(e)
    \/ CommitSync(e)
    \/ ReplySync(e)
    \/ SyncAnswered(e)
    \/ SyncRefused(e)

Refreshing(e) ==
    \/ RefreshAfterConflict(e)
    \/ RefreshWhenBack(e)
    \/ \E k \in Slots : RefreshRead(e, k) \/ RefreshApplied(e, k)

Beaconing(e) == CheckBeacon(e) \/ CommitBeacon(e) \/ BeaconRefused(e)

Failing(e) == SyncFails(e) \/ \E k \in Slots : RefreshFails(e, k)

Next ==
    \E e \in Editors :
        \/ Opening(e)
        \/ \E x \in Edits : Edit(e, x)
        \/ DebounceFires(e)
        \/ \E quiet \in BOOLEAN : SyncNow(e, quiet)
        \/ Syncing(e)
        \/ Refreshing(e)
        \/ Failing(e)
        \/ HidePage(e)
        \/ Beaconing(e)
        \/ ShowPage(e)

(* Timers fire, promises run on and requests are answered or fail.  Users  *)
(* owe nothing.                                                            *)
Fairness ==
    \A e \in Editors :
        /\ WF_vars(DebounceFires(e))
        /\ WF_vars(Syncing(e))
        /\ WF_vars(Refreshing(e))

Spec == Init /\ [][Next]_vars

FairSpec == Spec /\ Fairness

-----------------------------------------------------------------------------
Posts == [st : PostStates, graph : SUBSET Edits, hash : SUBSET Edits,
          quiet : BOOLEAN, why : SUBSET Causes, seen : SUBSET Edits]
Refreshes == [st : {"none", "sent", "ok"}, keep : BOOLEAN, was : BOOLEAN,
              graph : SUBSET Edits]

(* The values each variable can take.                                      *)
TypeOK ==
    /\ exists \in BOOLEAN
    /\ draft \subseteq Edits /\ made \subseteq Edits
    /\ phase \in [Editors -> {"fetching", "creating", "stuck", "ready"}]
    /\ canvas \in [Editors -> SUBSET Edits]
    /\ hash \in [Editors -> SUBSET Edits]
    /\ loaded \in [Editors -> BOOLEAN]
    /\ syncing \in [Editors -> BOOLEAN]
    /\ debounce \in [Editors -> BOOLEAN]
    /\ queue \in [Editors -> Seq(BOOLEAN)]
    /\ sync \in [Editors -> Posts]
    /\ told \in [Editors -> BOOLEAN]
    /\ refresh \in [Editors -> [Slots -> Refreshes]]
    /\ beacon \in [Editors -> Posts]
    /\ page \in [Editors -> {"visible", "hidden", "back"}]
    /\ asks \in Nat /\ hides \in Nat /\ faults \in Nat
    /\ saved \subseteq Edits
    /\ causes \in [Editors -> SUBSET Causes]

(* An editor's hash is the hash of a graph whose edits are all on its      *)
(* canvas, so that the server's test means something.  Three things break  *)
(* this: a conflict, after which the hash is taken and the canvas kept; a  *)
(* refresh that replaces the canvas while a sync is in flight; and an      *)
(* answer whose hash was read after another editor's commit.               *)
HashKnown == \A e \in Editors : causes[e] = {} => hash[e] \subseteq canvas[e]

(* An edit leaves the draft only through a POST of an editor to which one  *)
(* of these had happened, or one that was overtaken between the server's   *)
(* test and its commit.                                                    *)
LossHasCause ==
    [][\A x \in draft : x \notin draft' =>
           \E e \in Editors : \E p \in {sync[e], beacon[e]} :
               p.st = "checked" /\ (p.why # {} \/ p.seen # draft)]_vars

(* An edit is saved in the end, unless the editor met a conflict (nothing  *)
(* submits it again), a request failed, or a refresh took it off the       *)
(* canvas.                                                                 *)
EditSaved ==
    \A e \in Editors, x \in Edits :
        x \in canvas[e] ~> \/ x \in saved \/ x \notin canvas[e]
                          \/ "conflict" \in causes[e] \/ faults > 0

(* However refreshes overlap and fail, the editor can post again in the    *)
(* end.                                                                    *)
LoadedAgain == \A e \in Editors : phase[e] = "ready" ~> loaded[e]
=============================================================================
