------------------------------- MODULE Compositor -------------------------------
(***************************************************************************)
(* The layer compositor of agenton (agenton/compositor/core.py, run.py) as *)
(* the agent runner uses it, over the successive runs of one Agent App     *)
(* conversation.  A run takes the session snapshot of the last successful  *)
(* run, enters its layers in graph order, runs the agent, and exits the    *)
(* layers in reverse order; each layer is wrapped in a resource scope.     *)
(*                                                                         *)
(* A step is one awaited hook or resource scope operation with the         *)
(* synchronous code around it.  Hooks, scopes and the body may raise, by   *)
(* themselves or because the task is cancelled while it awaits them.       *)
(***************************************************************************)
EXTENDS Naturals

CONSTANTS
    N,         \* number of layers; a layer depends only on earlier ones
    MaxRuns    \* bound on the runs of the session

ASSUME LayersAssumption == N \in Nat \ {0}
ASSUME RunsAssumption == MaxRuns \in Nat

Layers == 1..N
Intents == {"suspend", "delete"}
Stored == {"new", "suspended", "closed"}

VARIABLES
    phase,     \* what the run awaits next
    pos,       \* the slot it is at
    state,     \* slot.lifecycle_state
    intent,    \* slot.exit_intent
    scope,     \* slots whose active_resource_context is set
    signals,   \* request.on_exit of the current run
    wrapped,   \* body_error or enter_error
    passing,   \* the error leaving the scope that is exited next
    hookError, \* first error of an exit hook or scope
    outcome,   \* how the last run ended
    saved,     \* the stored session snapshot; all layers new when there is none
    held,      \* layers whose state outside the process exists (a workspace)
    raised,    \* something has raised in this run
    troubled,  \* a run of this session has failed or its snapshot was lost
    runs

errors == <<wrapped, passing, hookError, raised>>
session == <<outcome, saved, troubled, runs>>
layersVars == <<phase, pos, state, intent, scope, signals, errors, session, held>>

LayersInit ==
    /\ phase = "idle" /\ pos = 0
    /\ state = [i \in Layers |-> "new"]
    /\ intent = [i \in Layers |-> "delete"]
    /\ scope = {}
    /\ signals = [i \in Layers |-> "suspend"]
    /\ wrapped = "none" /\ passing = "none" /\ hookError = "none"
    /\ outcome = "none"
    /\ saved = [i \in Layers |-> "new"]
    /\ held = {}
    /\ raised = FALSE /\ troubled = FALSE
    /\ runs = 0

-----------------------------------------------------------------------------
(* Entering.                                                               *)

(* A run that enters whatever the snapshot says.                           *)
BeginUnchecked(plan) ==
    /\ phase = "idle" /\ runs < MaxRuns
    /\ state' = saved
    /\ intent' = [i \in Layers |-> "delete"]
    /\ signals' = plan
    /\ phase' = "open" /\ pos' = 1
    /\ wrapped' = "none" /\ passing' = "none" /\ hookError' = "none"
    /\ raised' = FALSE
    /\ runs' = runs + 1
    /\ UNCHANGED <<scope, outcome, saved, troubled, held>>

(* _create_run hydrates fresh slots from the snapshot and                  *)
(* _ensure_layers_can_enter accepts them.                                  *)
Begin(plan) ==
    /\ phase = "idle" /\ runs < MaxRuns
    /\ \A i \in Layers : saved[i] \in {"new", "suspended"}
    /\ state' = saved
    /\ intent' = [i \in Layers |-> "delete"]
    /\ signals' = plan
    /\ phase' = "open" /\ pos' = 1
    /\ wrapped' = "none" /\ passing' = "none" /\ hookError' = "none"
    /\ raised' = FALSE
    /\ runs' = runs + 1
    /\ UNCHANGED <<scope, outcome, saved, troubled, held>>

(* A closed layer: the run fails before any layer is touched.              *)
RejectSnapshot ==
    /\ phase = "idle" /\ runs < MaxRuns
    /\ \E i \in Layers : saved[i] = "closed"
    /\ outcome' = "error"
    /\ runs' = runs + 1
    /\ UNCHANGED <<phase, pos, state, intent, scope, signals, errors, saved, troubled, held>>

(* resource_context().__aenter__().                                        *)
OpenScope ==
    /\ phase = "open"
    /\ scope' = scope \cup {pos}
    /\ phase' = "enter"
    /\ UNCHANGED <<pos, state, intent, signals, errors, session, held>>

(* apply_layer_exit_signals: the request's intents replace the defaults.   *)
ApplyExitSignals == intent' = signals

(* on_context_create or on_context_resume returns.  After the last layer   *)
(* the runner applies the exit signals and runs the agent.                 *)
EnterHook ==
    /\ phase = "enter"
    /\ state[pos] \in {"new", "suspended"}
    /\ state' = [state EXCEPT ![pos] = "active"]
    /\ held' = IF state[pos] = "new" THEN held \cup {pos} ELSE held
    /\ IF pos = N
          THEN /\ phase' = "body"
               /\ ApplyExitSignals
               /\ UNCHANGED pos
          ELSE /\ phase' = "open"
               /\ intent' = [intent EXCEPT ![pos] = "delete"]
               /\ pos' = pos + 1
    /\ UNCHANGED <<scope, signals, errors, session>>

(* _enter_layers gives up without exiting what it has entered.             *)
OpenFailsAtOnce ==
    /\ phase = "open"
    /\ wrapped' = "enter" /\ passing' = "enter" /\ raised' = TRUE
    /\ phase' = "idle" /\ pos' = 0
    /\ outcome' = "error" /\ troubled' = TRUE
    /\ UNCHANGED <<state, intent, scope, signals, hookError, saved, runs, held>>

(* The scope of the current slot cannot be opened: the slots entered so    *)
(* far are exited, none is left to exit for the first.                     *)
OpenFails ==
    /\ phase = "open"
    /\ wrapped' = "enter" /\ passing' = "enter" /\ raised' = TRUE
    /\ phase' = IF pos = 1 THEN "idle" ELSE "leave"
    /\ pos' = pos - 1
    /\ outcome' = IF pos = 1 THEN "error" ELSE outcome
    /\ troubled' = (pos = 1 \/ troubled)
    /\ UNCHANGED <<state, intent, scope, signals, hookError, saved, runs, held>>

(* The enter hook raises, having undone what it did.                       *)
EnterHookFails ==
    /\ phase = "enter"
    /\ wrapped' = "enter" /\ passing' = "enter" /\ raised' = TRUE
    /\ phase' = "abort"
    /\ UNCHANGED <<pos, state, intent, scope, signals, hookError, session, held>>

(* _enter_slot closes the scope of the slot that failed, whether or not    *)
(* that raises in turn, and the slots entered before are exited.           *)
AbortScope ==
    /\ phase = "abort"
    /\ scope' = scope \ {pos}
    /\ phase' = IF pos = 1 THEN "idle" ELSE "leave"
    /\ pos' = pos - 1
    /\ outcome' = IF pos = 1 THEN "error" ELSE outcome
    /\ troubled' = (pos = 1 \/ troubled)
    /\ UNCHANGED <<state, intent, signals, errors, saved, runs, held>>

-----------------------------------------------------------------------------
(* The body of the run.                                                    *)

(* Exiting in graph order.                                                 *)
BodyReturnsForward ==
    /\ phase = "body"
    /\ phase' = "leave" /\ pos' = 1
    /\ UNCHANGED <<state, intent, scope, signals, errors, session, held>>

BodyReturns ==
    /\ phase = "body"
    /\ phase' = "leave" /\ pos' = N
    /\ UNCHANGED <<state, intent, scope, signals, errors, session, held>>

BodyRaises ==
    /\ phase = "body"
    /\ wrapped' = "body" /\ passing' = "body" /\ raised' = TRUE
    /\ phase' = "leave" /\ pos' = N
    /\ UNCHANGED <<state, intent, scope, signals, hookError, session, held>>

-----------------------------------------------------------------------------
(* Exiting: _exit_slots_reversed.                                          *)

First(a, b) == IF a = "none" THEN b ELSE a

(* Every exit leaves the slot suspended.                                   *)
LeftStateSuspended(i) == "suspended"

LeftState(i) == IF intent[i] = "suspend" THEN "suspended" ELSE "closed"

(* on_context_suspend or on_context_delete returns.                        *)
ExitHook ==
    /\ phase = "leave"
    /\ state' = [state EXCEPT ![pos] = LeftState(pos)]
    /\ held' = IF intent[pos] = "delete" THEN held \ {pos} ELSE held
    /\ phase' = "close"
    /\ UNCHANGED <<pos, intent, scope, signals, errors, session>>

(* An exit hook whose error its scope and the enclosing ones do not see.   *)
ExitHookFailsQuietly ==
    /\ phase = "leave"
    /\ state' = [state EXCEPT ![pos] = LeftState(pos)]
    /\ \/ UNCHANGED held
       \/ intent[pos] = "delete" /\ held' = held \ {pos}
    /\ hookError' = First(hookError, "hook") /\ raised' = TRUE
    /\ phase' = "close"
    /\ UNCHANGED <<pos, intent, scope, signals, wrapped, passing, session>>

(* The exit hook raises; the slot leaves its active state all the same. A  *)
(* delete may have happened or not.                                        *)
ExitHookFails ==
    /\ phase = "leave"
    /\ state' = [state EXCEPT ![pos] = LeftState(pos)]
    /\ \/ UNCHANGED held
       \/ intent[pos] = "delete" /\ held' = held \ {pos}
    /\ hookError' = First(hookError, "hook") /\ passing' = "hook" /\ raised' = TRUE
    /\ phase' = "close"
    /\ UNCHANGED <<pos, intent, scope, signals, wrapped, session>>

(* The caller stores the snapshot of a run that succeeded; it may lose the *)
(* answer or fail to store it, and then keeps what it had.                 *)
StoreSnapshot ==
    \/ saved' = state /\ UNCHANGED troubled
    \/ UNCHANGED saved /\ troubled' = TRUE

(* A run whose exit errors are not raised.                                 *)
FinishIgnoresHooks(hook) ==
    /\ phase' = "idle"
    /\ \/ wrapped = "none" /\ outcome' = "ok" /\ StoreSnapshot
       \/ wrapped # "none" /\ outcome' = "error" /\ troubled' = TRUE /\ UNCHANGED saved

(* The run is over: hook_error is raised, else the body's error; only a    *)
(* run that raises nothing returns its snapshot.                           *)
Finish(hook) ==
    LET ok == wrapped = "none" /\ hook = "none"
    IN  /\ phase' = "idle"
        /\ \/ ok /\ outcome' = "ok" /\ StoreSnapshot
           \/ ~ok /\ outcome' = "error" /\ troubled' = TRUE /\ UNCHANGED saved

(* After a slot's scope is closed: the slot before it, or the end.         *)
Leave(hook) ==
    /\ scope' = scope \ {pos}
    /\ pos' = pos - 1
    /\ IF pos = 1 THEN Finish(hook)
                  ELSE phase' = "leave" /\ UNCHANGED <<outcome, saved, troubled>>
    /\ UNCHANGED <<state, intent, signals, wrapped, runs, held>>

(* _exit_resource_context.                                                 *)
CloseScope ==
    /\ phase = "close"
    /\ Leave(hookError)
    /\ UNCHANGED <<passing, hookError, raised>>

(* __aexit__ raises: the scope is gone, the error is passed on.            *)
CloseScopeFails ==
    /\ phase = "close"
    /\ hookError' = First(hookError, "scope") /\ passing' = "scope" /\ raised' = TRUE
    /\ Leave(hookError')

-----------------------------------------------------------------------------
LayersNext ==
    \/ \E plan \in [Layers -> Intents] : Begin(plan)
    \/ RejectSnapshot
    \/ OpenScope
    \/ OpenFails
    \/ EnterHook
    \/ EnterHookFails
    \/ AbortScope
    \/ BodyReturns
    \/ BodyRaises
    \/ ExitHook
    \/ ExitHookFails
    \/ CloseScope
    \/ CloseScopeFails

LayersSpec == LayersInit /\ [][LayersNext]_layersVars

-----------------------------------------------------------------------------
(* Every variable holds a value the code can put there.                    *)
LayersTypeOK ==
    /\ phase \in {"idle", "open", "enter", "abort", "body", "leave", "close"}
    /\ pos \in 0..N
    /\ phase \notin {"idle", "body"} => pos \in Layers
    /\ state \in [Layers -> Stored \cup {"active"}]
    /\ intent \in [Layers -> Intents]
    /\ scope \in SUBSET Layers
    /\ signals \in [Layers -> Intents]
    /\ wrapped \in {"none", "enter", "body"}
    /\ passing \in {"none", "enter", "body", "hook", "scope"}
    /\ hookError \in {"none", "hook", "scope"}
    /\ outcome \in {"none", "ok", "error"}
    /\ saved \in [Layers -> Stored]
    /\ held \in SUBSET Layers
    /\ raised \in BOOLEAN /\ troubled \in BOOLEAN
    /\ runs \in Nat

(* Scopes nest: an active layer's resources are open, and while a layer's  *)
(* scope is open every layer it may depend on is active with its own scope *)
(* open, also on the way in, on the way out and after any failure.         *)
ScopesNest ==
    \A i \in Layers :
        /\ state[i] = "active" => i \in scope
        /\ i \in scope => \A j \in 1..(i - 1) : j \in scope /\ state[j] = "active"

(* Whatever raises and where, a run that is over holds no resource and has *)
(* no active layer, so snapshot_session() does not raise and nothing leaks.*)
NothingLeftOpen ==
    phase = "idle" => scope = {} /\ \A i \in Layers : state[i] # "active"

(* The shape of a run: what is entered at each point of it.                *)
RunShape ==
    /\ phase = "idle" => scope = {} /\ \A i \in Layers : state[i] # "active"
    /\ phase = "open" => /\ scope = 1..(pos - 1)
                         /\ \A i \in Layers : state[i] = "active" <=> i < pos
    /\ phase \in {"enter", "abort", "close"} =>
          /\ scope = 1..pos
          /\ \A i \in Layers : state[i] = "active" <=> i < pos
    /\ phase = "body" => scope = Layers /\ \A i \in Layers : state[i] = "active"
    /\ phase = "leave" => /\ scope = 1..pos
                          /\ \A i \in Layers : state[i] = "active" <=> i <= pos

LayersShapeInv == LayersTypeOK /\ RunShape

(* A run in which a hook, a scope or the body has raised does not end as a *)
(* success, however many further errors exiting the layers adds.           *)
FailureReported == outcome = "ok" /\ phase = "idle" => ~raised

(* Once something has raised, every scope closed afterwards sees an error. *)
ScopeSeesFailure == phase \in {"abort", "leave", "close"} /\ raised => passing # "none"

(* Why both hold: what raises is recorded where the end of the run and the *)
(* next scope look for it.                                                 *)
ErrorsRecorded ==
    /\ raised => wrapped # "none" \/ hookError # "none"
    /\ phase # "idle" /\ raised => passing # "none"
    /\ FailureReported

(* A session with a closed layer is over: no later run touches any layer.  *)
ClosedSessionUntouched ==
    (\E i \in Layers : saved[i] = "closed") => phase = "idle" /\ scope = {}

(* While no run has failed and no snapshot was lost, the stored snapshot   *)
(* knows every external state the layers hold, and nothing else.           *)
SnapshotMatchesWorld ==
    phase = "idle" /\ ~troubled => held = {i \in Layers : saved[i] = "suspended"}

(* Why both hold: a run enters only a session without a closed layer, and  *)
(* until something raises the layers' states say what is held.             *)
WorldTracked ==
    /\ SnapshotMatchesWorld
    /\ phase # "idle" => \A i \in Layers : saved[i] # "closed"
    /\ phase # "idle" /\ ~troubled /\ ~raised =>
          held = {i \in Layers : state[i] \in {"active", "suspended"}}

(* "The exit policy used when this agent run exits layers"                 *)
(* (docs/dify-agent/concepts/run-lifecycle/index.md, line 152): a layer    *)
(* that was resumed and whose policy is suspend is not deleted by the run. *)
SuspendPolicyHonoured ==
    \A i \in Layers :
        saved[i] = "suspended" /\ state[i] = "closed" => signals[i] = "delete"
=============================================================================
