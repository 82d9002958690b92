-------------------------------- MODULE AgentRun --------------------------------
(***************************************************************************)
(* The run server of dify-agent: RunScheduler (runtime/run_scheduler.py)   *)
(* admits a run under its lifecycle lock and starts an asyncio task;       *)
(* AgentRunRunner (runtime/runner.py) writes status and events through the *)
(* sink (runtime/event_sink.py) into Redis (storage/redis_run_store.py);   *)
(* the lifespan hook (server/app.py) stops the scheduler.                  *)
(*                                                                         *)
(* A step is one Redis round trip or the synchronous code between two      *)
(* awaits.  What a cancelled or failed round trip leaves behind in Redis   *)
(* is a choice: the command was applied, or it was not.                    *)
(***************************************************************************)
EXTENDS Naturals, Sequences

CONSTANTS
    Runs,        \* the POST /runs requests, named by the run they create
    Blank,       \* requests without a usable user prompt
    Retention,   \* run_retention_seconds, in ticks
    MaxEvents,   \* bound on the length of a run's event log
    MaxFaults    \* bound on crashes, Redis errors and raising exit hooks

ASSUME BlankAssumption == Blank \subseteq Runs
ASSUME RetentionAssumption == Retention \in Nat \ {0}
ASSUME BoundAssumption == MaxEvents \in Nat /\ MaxFaults \in Nat

VARIABLES
    request,     \* progress of the create-run request of each run
    task,        \* program counter of the asyncio task of each run
    active,      \* active_tasks
    sched,       \* the scheduler and its shutdown()
    mark,        \* pending_run_ids: cancellation and marking of each run
    record,      \* status in the run record, "absent" when the key is gone
    recordTtl,   \* remaining life of the record
    log,         \* every event appended to the run's stream
    streamTtl,   \* remaining life of the stream
    faults

store == <<record, recordTtl, log, streamTtl>>
vars == <<request, task, active, sched, mark, store, faults>>

Terminal == {"run_succeeded", "run_failed"}
Events == {"run_started", "pydantic_ai_event"} \cup Terminal
Statuses == {"absent", "running", "succeeded", "failed"}
Requests == {"new", "persisting", "accepted", "rejected", "error"}

(* Where a runner is about to read the record, write it, or append.        *)
ReadPcs == {"boot", "okGet", "badGet"}
WritePcs == {"bootSet", "okSet", "badSet"}
EmitPcs == {"started", "succeed", "fail"}
AlivePcs == ReadPcs \cup WritePcs \cup EmitPcs \cup {"agent"}
TaskPcs == AlivePcs \cup {"none", "ended", "killed"}

(* What each of these steps writes, and where it leads.                    *)
StatusAt(pc) == CASE pc = "bootSet" -> "running"
                  [] pc = "okSet" -> "succeeded"
                  [] pc = "badSet" -> "failed"
EventAt(pc) == CASE pc = "started" -> "run_started"
                 [] pc = "succeed" -> "run_succeeded"
                 [] pc = "fail" -> "run_failed"
                 [] pc = "agent" -> "pydantic_ai_event"
After(pc) == CASE pc = "boot" -> "bootSet"
               [] pc = "bootSet" -> "started"
               [] pc = "started" -> "agent"
               [] pc = "succeed" -> "okGet"
               [] pc = "okGet" -> "okSet"
               [] pc = "fail" -> "badGet"
               [] pc = "badGet" -> "badSet"
               [] OTHER -> "ended"

Alive(r) == task[r] \in AlivePcs
LockFree == \A r \in Runs : request[r] # "persisting"

(* task.cancel() makes the task's next step raise CancelledError.          *)
Runnable(r) == Alive(r) /\ mark[r] # "cancel"

Init ==
    /\ request = [r \in Runs |-> "new"]
    /\ task = [r \in Runs |-> "none"]
    /\ active = {}
    /\ sched = "serving"
    /\ mark = [r \in Runs |-> "none"]
    /\ record = [r \in Runs |-> "absent"]
    /\ recordTtl = [r \in Runs |-> 0]
    /\ log = [r \in Runs |-> <<>>]
    /\ streamTtl = [r \in Runs |-> 0]
    /\ faults = 0

Fault == faults < MaxFaults /\ faults' = faults + 1

-----------------------------------------------------------------------------
(* RedisRunStore.                                                          *)

(* create_run and update_status: SET ... EX retention.                     *)
SetStatus(r, status) ==
    /\ record' = [record EXCEPT ![r] = status]
    /\ recordTtl' = [recordTtl EXCEPT ![r] = Retention]
    /\ UNCHANGED <<log, streamTtl>>

(* append_event refreshing the stream's retention and not the record's.    *)
AppendKeepsRecordTtl(r, event) ==
    /\ log' = [log EXCEPT ![r] = Append(@, event)]
    /\ streamTtl' = [streamTtl EXCEPT ![r] = Retention]
    /\ UNCHANGED <<record, recordTtl>>

(* append_event: XADD and both EXPIREs in one MULTI; EXPIRE of a key that  *)
(* is gone does nothing.                                                   *)
AppendEvent(r, event) ==
    /\ log' = [log EXCEPT ![r] = Append(@, event)]
    /\ streamTtl' = [streamTtl EXCEPT ![r] = Retention]
    /\ recordTtl' = [recordTtl EXCEPT
                        ![r] = IF record[r] = "absent" THEN 0 ELSE Retention]
    /\ UNCHANGED record

(* A unit of time passes; Redis drops what has expired.                    *)
Tick ==
    /\ \E r \in Runs : recordTtl[r] > 0 \/ streamTtl[r] > 0
    /\ recordTtl' = [r \in Runs |-> IF recordTtl[r] = 0 THEN 0 ELSE recordTtl[r] - 1]
    /\ streamTtl' = [r \in Runs |-> IF streamTtl[r] = 0 THEN 0 ELSE streamTtl[r] - 1]
    /\ record' = [r \in Runs |-> IF recordTtl[r] <= 1 THEN "absent" ELSE record[r]]
    /\ UNCHANGED <<request, task, active, sched, mark, log, faults>>

(* The command a runner has sent and whose reply it will never see.        *)
InFlight(r) ==
    \/ UNCHANGED store
    \/ task[r] \in WritePcs /\ SetStatus(r, StatusAt(task[r]))
    \/ task[r] \in EmitPcs /\ AppendEvent(r, EventAt(task[r]))
    \/ /\ task[r] = "agent" /\ r \notin Blank /\ Len(log[r]) < MaxEvents
       /\ AppendEvent(r, EventAt("agent"))

-----------------------------------------------------------------------------
(* RunScheduler.create_run.                                                *)

RejectRequest(r) ==
    /\ sched \notin {"serving", "down"}
    /\ LockFree
    /\ request[r] = "new"
    /\ request' = [request EXCEPT ![r] = "rejected"]
    /\ UNCHANGED <<task, active, sched, mark, store, faults>>

(* The lock is taken and the stopping flag is clear.                       *)
AdmitRequest(r) ==
    /\ sched = "serving"
    /\ LockFree
    /\ request[r] = "new"
    /\ request' = [request EXCEPT ![r] = "persisting"]
    /\ UNCHANGED <<task, active, sched, mark, store, faults>>

(* store.create_run returns; the task is created and registered and the    *)
(* lock released before anything else runs.                                *)
PersistRun(r) ==
    /\ request[r] = "persisting"
    /\ SetStatus(r, "running")
    /\ request' = [request EXCEPT ![r] = "accepted"]
    /\ task' = [task EXCEPT ![r] = "boot"]
    /\ active' = active \cup {r}
    /\ UNCHANGED <<sched, mark, faults>>

(* store.create_run raises; the SET may have happened.                     *)
PersistFails(r) ==
    /\ request[r] = "persisting"
    /\ Fault
    /\ request' = [request EXCEPT ![r] = "error"]
    /\ SetStatus(r, "running") \/ UNCHANGED store
    /\ UNCHANGED <<task, active, sched, mark>>

(* The done callback.                                                      *)
ReapTask(r) ==
    /\ r \in active /\ ~Alive(r)
    /\ active' = active \ {r}
    /\ UNCHANGED <<request, task, sched, mark, store, faults>>

-----------------------------------------------------------------------------
(* AgentRunRunner.run.                                                     *)

(* The GET of update_status; a missing record raises RunNotFoundError,     *)
(* which leaves run() from each of the three places.                       *)
ReadRecord(r) ==
    /\ Runnable(r) /\ task[r] \in ReadPcs
    /\ task' = [task EXCEPT
                  ![r] = IF record[r] = "absent" THEN "ended" ELSE After(@)]
    /\ UNCHANGED <<request, active, sched, mark, store, faults>>

(* The SET of update_status.                                               *)
WriteRecord(r) ==
    /\ Runnable(r) /\ task[r] \in WritePcs
    /\ SetStatus(r, StatusAt(task[r]))
    /\ task' = [task EXCEPT ![r] = After(@)]
    /\ UNCHANGED <<request, active, sched, mark, faults>>

(* emit_run_started, emit_run_succeeded, emit_run_failed.                  *)
EmitLifecycleEvent(r) ==
    /\ Runnable(r) /\ task[r] \in EmitPcs
    /\ AppendEvent(r, EventAt(task[r]))
    /\ task' = [task EXCEPT ![r] = After(@)]
    /\ UNCHANGED <<request, active, sched, mark, faults>>

(* handle_events inside agent.run.                                         *)
EmitStreamEvent(r) ==
    /\ Runnable(r) /\ task[r] = "agent"
    /\ r \notin Blank
    /\ Len(log[r]) < MaxEvents
    /\ AppendEvent(r, EventAt("agent"))
    /\ UNCHANGED <<request, task, active, sched, mark, faults>>

(* Success whose status is written without the event.                      *)
AgentReturnsWithoutEvent(r) ==
    /\ Runnable(r) /\ task[r] = "agent"
    /\ r \notin Blank
    /\ task' = [task EXCEPT ![r] = "okGet"]
    /\ UNCHANGED <<request, active, sched, mark, store, faults>>

(* _run_agent returns an outcome.                                          *)
AgentReturns(r) ==
    /\ Runnable(r) /\ task[r] = "agent"
    /\ r \notin Blank
    /\ task' = [task EXCEPT ![r] = "succeed"]
    /\ UNCHANGED <<request, active, sched, mark, store, faults>>

(* An error that leaves run() without being reported.                      *)
AgentRaisesUnreported(r) ==
    /\ Runnable(r) /\ task[r] = "agent"
    /\ task' = [task EXCEPT ![r] = "ended"]
    /\ UNCHANGED <<request, active, sched, mark, store, faults>>

(* _run_agent raises: invalid request, model, tool or exit hook error.     *)
AgentRaises(r) ==
    /\ Runnable(r) /\ task[r] = "agent"
    /\ task' = [task EXCEPT ![r] = "fail"]
    /\ UNCHANGED <<request, active, sched, mark, store, faults>>

(* The report of success inside the try: its error is reported as failure. *)
SinkFailsInsideTry(r) ==
    /\ Runnable(r)
    /\ Fault
    /\ InFlight(r)
    /\ task' = [task EXCEPT
                  ![r] = IF @ \in {"agent", "succeed", "okGet", "okSet"} THEN "fail"
                                                                       ELSE "ended"]
    /\ UNCHANGED <<request, active, sched, mark>>

(* A sink call raises.  Only inside _run_agent is the error caught.        *)
SinkFails(r) ==
    /\ Runnable(r)
    /\ Fault
    /\ InFlight(r)
    /\ task' = [task EXCEPT ![r] = IF @ = "agent" THEN "fail" ELSE "ended"]
    /\ UNCHANGED <<request, active, sched, mark>>

-----------------------------------------------------------------------------
(* RunScheduler.shutdown.                                                  *)

(* shutdown() without the lifecycle lock.                                  *)
BeginShutdownUnlocked ==
    /\ sched = "serving"
    /\ sched' = IF active = {} THEN "stopped" ELSE "waiting"
    /\ UNCHANGED <<request, task, active, mark, store, faults>>

(* The flag is set under the lock; without active tasks that is all.       *)
BeginShutdown ==
    /\ sched = "serving"
    /\ LockFree
    /\ sched' = IF active = {} THEN "stopped" ELSE "waiting"
    /\ UNCHANGED <<request, task, active, mark, store, faults>>

(* asyncio.wait returns: all done, or the grace period is over and every   *)
(* task still pending is cancelled.                                        *)
GraceEnds ==
    LET pending == {r \in active : Alive(r)}
    IN  /\ sched = "waiting"
        /\ sched' = IF pending = {} THEN "stopped" ELSE "gathering"
        /\ mark' = [r \in Runs |-> IF r \in pending THEN "cancel" ELSE mark[r]]
        /\ UNCHANGED <<request, task, active, store, faults>>

(* CancelledError surfaces at the task's await and ends the task.          *)
DeliverCancel(r) ==
    /\ Alive(r) /\ mark[r] = "cancel"
    /\ InFlight(r)
    /\ task' = [task EXCEPT ![r] = "ended"]
    /\ mark' = [mark EXCEPT ![r] = "todo"]
    /\ UNCHANGED <<request, active, sched, faults>>

(* CancelledError surfaces inside the compositor and a layer's exit hook   *)
(* raises: _exit_layers raises the hook's error instead, and run() handles *)
(* it as a failed run.                                                     *)
CancelBecomesError(r) ==
    /\ task[r] = "agent" /\ mark[r] = "cancel"
    /\ Fault
    /\ InFlight(r)
    /\ task' = [task EXCEPT ![r] = "fail"]
    /\ mark' = [mark EXCEPT ![r] = "todo"]
    /\ UNCHANGED <<request, active, sched>>

(* asyncio.gather returns.                                                 *)
GatherReturns ==
    /\ sched = "gathering"
    /\ \A r \in Runs : mark[r] = "cancel" \/ mark[r] = "todo" => ~Alive(r)
    /\ sched' = "marking"
    /\ UNCHANGED <<request, task, active, mark, store, faults>>

(* _mark_cancelled_run_failed, one run after the other.                    *)
MarkEmit(r) ==
    /\ sched = "marking" /\ mark[r] = "todo"
    /\ \A q \in Runs : mark[q] \notin {"get", "set"}
    /\ AppendEvent(r, "run_failed")
    /\ mark' = [mark EXCEPT ![r] = "get"]
    /\ UNCHANGED <<request, task, active, sched, faults>>

(* Marking that appends the event and leaves the status alone.             *)
MarkReadOnly(r) ==
    /\ mark[r] = "get"
    /\ mark' = [mark EXCEPT ![r] = "done"]
    /\ UNCHANGED <<request, task, active, sched, store, faults>>

(* Marking that tries again while the record is missing.                   *)
MarkReadRetries(r) ==
    /\ mark[r] = "get"
    /\ mark' = [mark EXCEPT ![r] = IF record[r] = "absent" THEN "get" ELSE "set"]
    /\ UNCHANGED <<request, task, active, sched, store, faults>>

MarkRead(r) ==
    /\ mark[r] = "get"
    /\ mark' = [mark EXCEPT ![r] = IF record[r] = "absent" THEN "done" ELSE "set"]
    /\ UNCHANGED <<request, task, active, sched, store, faults>>

MarkWrite(r) ==
    /\ mark[r] = "set"
    /\ SetStatus(r, "failed")
    /\ mark' = [mark EXCEPT ![r] = "done"]
    /\ UNCHANGED <<request, task, active, sched, faults>>

(* A store error while marking is logged and the next run is marked.       *)
MarkFails(r) ==
    /\ sched = "marking" /\ mark[r] \in {"todo", "get", "set"}
    /\ \A q \in Runs \ {r} : mark[q] \notin {"get", "set"}
    /\ Fault
    /\ \/ UNCHANGED store
       \/ mark[r] = "todo" /\ AppendEvent(r, "run_failed")
       \/ mark[r] = "set" /\ SetStatus(r, "failed")
    /\ mark' = [mark EXCEPT ![r] = "done"]
    /\ UNCHANGED <<request, task, active, sched>>

(* shutdown() returns and the lifespan hook closes the clients and Redis.  *)
ShutdownEnds ==
    /\ sched = "marking"
    /\ \A r \in Runs : mark[r] \in {"none", "done"}
    /\ sched' = "stopped"
    /\ UNCHANGED <<request, task, active, mark, store, faults>>

-----------------------------------------------------------------------------
(* The process is killed: tasks, registry and shutdown are gone, Redis is  *)
(* not.                                                                    *)
Crash ==
    /\ sched # "down"
    /\ Fault
    /\ sched' = "down"
    /\ task' = [r \in Runs |-> IF Alive(r) THEN "killed" ELSE task[r]]
    /\ active' = {}
    /\ request' = [r \in Runs |-> IF request[r] = "persisting" THEN "error"
                                                               ELSE request[r]]
    /\ mark' = [r \in Runs |-> IF mark[r] = "none" THEN "none" ELSE "done"]
    /\ UNCHANGED store

(* A new process starts with an empty scheduler (app.py, lifespan); the    *)
(* old one ran its done callbacks or was killed.                           *)
Restart ==
    /\ sched \in {"down", "stopped"}
    /\ active = {}
    /\ sched' = "serving"
    /\ UNCHANGED <<request, task, active, mark, store, faults>>

-----------------------------------------------------------------------------
Create(r) == RejectRequest(r) \/ AdmitRequest(r) \/ PersistRun(r)

Runner(r) ==
    \/ ReadRecord(r)
    \/ WriteRecord(r)
    \/ EmitLifecycleEvent(r)
    \/ AgentReturns(r)
    \/ AgentRaises(r)
    \/ DeliverCancel(r)

Marker(r) == MarkEmit(r) \/ MarkRead(r) \/ MarkWrite(r)

Shutdown == GraceEnds \/ GatherReturns \/ ShutdownEnds

Next ==
    \/ \E r \in Runs : Create(r)
    \/ \E r \in Runs : PersistFails(r)
    \/ \E r \in Runs : ReapTask(r)
    \/ \E r \in Runs : Runner(r)
    \/ \E r \in Runs : EmitStreamEvent(r)
    \/ \E r \in Runs : SinkFails(r)
    \/ \E r \in Runs : CancelBecomesError(r)
    \/ \E r \in Runs : Marker(r)
    \/ \E r \in Runs : MarkFails(r)
    \/ BeginShutdown
    \/ Shutdown
    \/ Crash
    \/ Restart
    \/ Tick

(* The event loop runs what is ready: store calls return, the agent ends   *)
(* (outbound calls have timeouts), asyncio.wait times out.  Shutdown need  *)
(* not begin and a request need not arrive.                                *)
Fairness ==
    /\ \A r \in Runs : WF_vars(PersistRun(r))
    /\ \A r \in Runs : WF_vars(Runner(r))
    /\ \A r \in Runs : WF_vars(Marker(r))
    /\ WF_vars(Shutdown)

Spec == Init /\ [][Next]_vars

FairSpec == Spec /\ Fairness

-----------------------------------------------------------------------------
(* Every variable holds a value the code can put there.                    *)
TypeOK ==
    /\ request \in [Runs -> Requests]
    /\ task \in [Runs -> TaskPcs]
    /\ active \in SUBSET Runs
    /\ sched \in {"serving", "waiting", "gathering", "marking", "stopped", "down"}
    /\ mark \in [Runs -> {"none", "cancel", "todo", "get", "set", "done"}]
    /\ record \in [Runs -> Statuses]
    /\ recordTtl \in [Runs -> 0..Retention]
    /\ log \in [Runs -> Seq(Events)]
    /\ streamTtl \in [Runs -> 0..Retention]
    /\ faults \in Nat

Has(r, event) == \E i \in DOMAIN log[r] : log[r][i] = event

(* Once shutdown() has returned, and the lifespan hook closes Redis under  *)
(* it, no run's task is left and no admitted request is still about to     *)
(* start one: "shutdown cannot begin after a request is admitted".         *)
NoTaskAfterStop ==
    sched = "stopped" => \A r \in Runs : ~Alive(r) /\ request[r] # "persisting"

(* Why it holds: every task is in the registry that shutdown() reads under *)
(* the lock, and every task that outlives the grace period is cancelled    *)
(* and awaited.                                                            *)
TasksTracked ==
    /\ \A r \in Runs : Alive(r) => r \in active
    /\ \A r \in Runs : request[r] = "persisting" => sched = "serving" /\ task[r] = "none"
    /\ \A r \in Runs : request[r] = "new" => task[r] = "none" /\ mark[r] = "none"
    /\ \A r \in Runs : request[r] = "persisting" => mark[r] = "none"
    /\ \A r \in Runs : mark[r] \in {"get", "set", "done"} => ~Alive(r)
    /\ \A r \in Runs : mark[r] # "none" => task[r] # "none"
    /\ sched = "gathering" =>
          \A r \in Runs : Alive(r) => mark[r] \in {"cancel", "todo"}
    /\ sched \in {"marking", "stopped", "down"} => \A r \in Runs : ~Alive(r)

TrackInv == TypeOK /\ TasksTracked

(* The status in the record is never ahead of the event log: succeeded and *)
(* failed are written only after the matching terminal event is appended,  *)
(* whichever of runner and shutdown writes them.                           *)
StatusFollowsEvent ==
    \A r \in Runs :
        /\ record[r] = "succeeded" => Has(r, "run_succeeded")
        /\ record[r] = "failed" => Has(r, "run_failed")

(* Why it holds: whoever is about to write a terminal status has appended  *)
(* its event.                                                              *)
EventBeforeWrite ==
    \A r \in Runs :
        /\ task[r] \in {"okGet", "okSet"} => Has(r, "run_succeeded")
        /\ task[r] \in {"badGet", "badSet"} => Has(r, "run_failed")
        /\ mark[r] \in {"get", "set"} => Has(r, "run_failed")

StatusInv == TypeOK /\ EventBeforeWrite /\ StatusFollowsEvent

(* The public event order: run_started only first, no stream event after a *)
(* terminal event, and a second terminal event only as the run_failed that *)
(* shutdown appends to a run it cancelled.                                 *)
EventLogShape ==
    \A r \in Runs : \A i \in DOMAIN log[r] :
        /\ log[r][i] = "run_started" => i = 1
        /\ log[r][i] = "pydantic_ai_event" =>
              \A j \in 1..(i - 1) : log[r][j] \notin Terminal
        /\ log[r][i] \in Terminal =>
              \A j \in (i + 1)..Len(log[r]) :
                  mark[r] # "none" /\ j = Len(log[r]) /\ log[r][j] = "run_failed"

(* Why it holds: an unstarted run has no events, a run whose outcome is    *)
(* open has no terminal event, and only marking appends after one.         *)
LogPhases ==
    \A r \in Runs :
        /\ task[r] \in {"none", "boot", "bootSet", "started"} => log[r] = <<>>
        /\ task[r] \in {"agent", "succeed", "fail"} =>
              \A i \in DOMAIN log[r] : log[r][i] \notin Terminal
        /\ mark[r] \in {"none", "cancel", "todo"} =>
              \A i \in DOMAIN log[r] : log[r][i] \in Terminal => i = Len(log[r])

ShapeInv == TrackInv /\ LogPhases /\ EventLogShape

(* When nothing will touch a run any more and nothing failed on the way,   *)
(* the polled status agrees with the last event a stream reader sees.      *)
VerdictAgreement ==
    \A r \in Runs :
        (/\ task[r] = "ended" /\ mark[r] \in {"none", "done"}
         /\ faults = 0 /\ record[r] # "absent")
        => /\ log[r] # <<>>
           /\ log[r][Len(log[r])] =
                 (IF record[r] = "succeeded" THEN "run_succeeded" ELSE "run_failed")
           /\ record[r] # "running"

EndsWith(r, event) == log[r] # <<>> /\ log[r][Len(log[r])] = event

(* Why it holds: whoever is about to write a terminal status has appended  *)
(* its event last, and nobody appends before the status is written.        *)
VerdictPending ==
    \A r \in Runs :
        /\ task[r] \in {"okGet", "okSet"} => EndsWith(r, "run_succeeded")
        /\ task[r] \in {"badGet", "badSet"} => EndsWith(r, "run_failed")
        /\ mark[r] \in {"get", "set"} => EndsWith(r, "run_failed")

VerdictInv == TrackInv /\ VerdictPending /\ VerdictAgreement

(* While a record exists it outlives the run's events, so a reader that    *)
(* may still read events is never told that the run does not exist.        *)
RecordOutlivesStream ==
    \A r \in Runs : record[r] # "absent" => streamTtl[r] <= recordTtl[r]

(* An accepted run gets a terminal status, also when the server shuts down *)
(* in any of its phases, unless a process or a store call failed or the    *)
(* record has expired.                                                     *)
AcceptedRunSettles ==
    \A r \in Runs :
        request[r] = "accepted"
            ~> record[r] \in {"succeeded", "failed", "absent"} \/ faults > 0

(* A shutdown that has begun ends.                                         *)
ShutdownCompletes == sched = "waiting" ~> sched \in {"stopped", "down"}

(* "Successful runs emit run_started, zero or more pydantic_ai_event, and  *)
(* run_succeeded" (dify-agent/docs/dify-agent/guide/index.md, line 139):   *)
(* nothing follows a run_succeeded.                                        *)
SuccessIsFinal ==
    \A r \in Runs : \A i \in DOMAIN log[r] :
        log[r][i] = "run_succeeded" => i = Len(log[r])

(* "Empty or whitespace-only effective prompts are rejected during         *)
(* create-run validation before the run is persisted or scheduled"         *)
(* (dify-agent/docs/dify-agent/guide/index.md, line 118).                  *)
BlankNeverPersisted == \A r \in Blank : record[r] = "absent" /\ task[r] = "none"
=============================================================================
