----------------------------- MODULE AgentRunProofs -----------------------------
(***************************************************************************)
(* Safety of the run server for any set of runs, any retention and any     *)
(* number of faults: types, no task survives shutdown(), the status never  *)
(* runs ahead of the events and agrees with them in the end, the order of  *)
(* a run's events, and the record that outlives them.                      *)
(*                                                                         *)
(* The last part is about the compositor a run's task enters, for any      *)
(* number of layers and runs: types, the nesting of resource scopes, that  *)
(* no failure is lost, that the snapshot knows what is held, and that a    *)
(* closed session is over.                                                 *)
(***************************************************************************)
EXTENDS AgentRun, Compositor, TLAPS

-----------------------------------------------------------------------------
(* The store's part of the type invariant.                                 *)
StoreOK ==
    /\ record \in [Runs -> Statuses]
    /\ recordTtl \in [Runs -> 0..Retention]
    /\ log \in [Runs -> Seq(Events)]
    /\ streamTtl \in [Runs -> 0..Retention]

(* SET with a status keeps the store well typed.                           *)
LEMMA SetStatusType ==
  ASSUME StoreOK, NEW r \in Runs, NEW status \in Statuses, SetStatus(r, status)
  PROVE  StoreOK'
  BY RetentionAssumption DEF StoreOK, SetStatus

(* XADD with an event keeps the store well typed.                          *)
LEMMA AppendEventType ==
  ASSUME StoreOK, NEW r \in Runs, NEW event \in Events, AppendEvent(r, event)
  PROVE  StoreOK'
<1>1. Append(log[r], event) \in Seq(Events)
  BY DEF StoreOK
<1> QED
  BY <1>1, RetentionAssumption DEF StoreOK, AppendEvent

(* What the program counters stand for has the right type.                 *)
LEMMA PcTypes ==
  /\ \A pc \in WritePcs : StatusAt(pc) \in Statuses
  /\ \A pc \in EmitPcs \cup {"agent"} : EventAt(pc) \in Events
  /\ \A pc \in AlivePcs : After(pc) \in TaskPcs \ {"none"}
<1>1. \A pc \in WritePcs : StatusAt(pc) \in Statuses
  BY DEF WritePcs, StatusAt, Statuses
<1>2. \A pc \in EmitPcs \cup {"agent"} : EventAt(pc) \in Events
  BY DEF EmitPcs, EventAt, Events, Terminal
<1>3. \A pc \in AlivePcs : After(pc) \in TaskPcs \ {"none"}
  BY DEF AlivePcs, ReadPcs, WritePcs, EmitPcs, After, TaskPcs
<1> QED
  BY <1>1, <1>2, <1>3

(* A command whose reply is lost keeps the store well typed.               *)
LEMMA InFlightType ==
  ASSUME StoreOK, NEW r \in Runs, InFlight(r)
  PROVE  StoreOK'
<1>1. CASE UNCHANGED store
  BY <1>1 DEF store, StoreOK
<1>2. CASE task[r] \in WritePcs /\ SetStatus(r, StatusAt(task[r]))
  BY <1>2, PcTypes, SetStatusType
<1>3. CASE task[r] \in EmitPcs /\ AppendEvent(r, EventAt(task[r]))
  BY <1>3, PcTypes, AppendEventType
<1>4. CASE AppendEvent(r, EventAt("agent"))
  BY <1>4, PcTypes, AppendEventType
<1> QED
  BY <1>1, <1>2, <1>3, <1>4 DEF InFlight

-----------------------------------------------------------------------------
(* The initial state is well typed.                                        *)
LEMMA TypeInit == Init => TypeOK
<1> SUFFICES ASSUME Init PROVE TypeOK
  OBVIOUS
<1>1. /\ request \in [Runs -> Requests]
      /\ task \in [Runs -> TaskPcs]
      /\ record \in [Runs -> Statuses]
  BY DEF Init, Requests, TaskPcs, Statuses
<1>2. /\ recordTtl \in [Runs -> 0..Retention]
      /\ streamTtl \in [Runs -> 0..Retention]
  BY RetentionAssumption DEF Init
<1>3. log \in [Runs -> Seq(Events)]
  BY DEF Init
<1>4. /\ active \in SUBSET Runs
      /\ sched \in {"serving", "waiting", "gathering", "marking", "stopped", "down"}
      /\ mark \in [Runs -> {"none", "cancel", "todo", "get", "set", "done"}]
      /\ faults \in Nat
  BY DEF Init
<1> QED
  BY <1>1, <1>2, <1>3, <1>4 DEF TypeOK

(* Every step keeps the types.                                             *)
LEMMA TypeStep == TypeOK /\ [Next]_vars => TypeOK'
<1> SUFFICES ASSUME TypeOK, [Next]_vars PROVE TypeOK'
  OBVIOUS
<1>s. StoreOK
  BY DEF TypeOK, StoreOK
<1>f. ASSUME Fault PROVE faults' \in Nat
  BY <1>f DEF Fault, TypeOK
<1>g. ASSUME UNCHANGED faults PROVE faults' \in Nat
  BY <1>g DEF TypeOK
<1>q. ASSUME StoreOK', UNCHANGED sched, faults' \in Nat,
             request' \in [Runs -> Requests], task' \in [Runs -> TaskPcs],
             active' \in SUBSET Runs, mark' \in [Runs -> {"none", "cancel", "todo", "get", "set", "done"}]
      PROVE  TypeOK'
  BY <1>q DEF TypeOK, StoreOK
<1>k. ASSUME UNCHANGED store PROVE StoreOK'
  BY <1>s, <1>k DEF store, StoreOK
<1> USE DEF TypeOK, Requests, TaskPcs
<1>1. ASSUME NEW r \in Runs, Create(r) PROVE TypeOK'
  <2>1. CASE RejectRequest(r)
    BY <2>1, <1>k DEF RejectRequest, StoreOK
  <2>2. CASE AdmitRequest(r)
    BY <2>2, <1>k DEF AdmitRequest, StoreOK
  <2>3. CASE PersistRun(r)
    <3>1. StoreOK'
      BY <2>3, <1>s, SetStatusType DEF PersistRun, Statuses
    <3> QED
      BY <2>3, <3>1 DEF PersistRun, StoreOK, AlivePcs, ReadPcs
  <2> QED
    BY <1>1, <2>1, <2>2, <2>3 DEF Create
<1>2. ASSUME NEW r \in Runs, PersistFails(r) PROVE TypeOK'
  <2>1. StoreOK'
    BY <1>2, <1>s, <1>k, SetStatusType DEF PersistFails, Statuses
  <2> QED
    BY <1>2, <2>1, <1>f, <1>q DEF PersistFails
<1>3. ASSUME NEW r \in Runs, ReapTask(r) PROVE TypeOK'
  BY <1>3, <1>k DEF ReapTask, StoreOK
<1>4. ASSUME NEW r \in Runs, Runner(r) PROVE TypeOK'
  <2>1. CASE ReadRecord(r)
    <3>1. task' \in [Runs -> TaskPcs]
      BY <2>1, PcTypes DEF ReadRecord, AlivePcs
    <3> QED
      BY <2>1, <3>1, <1>k, <1>g, <1>q DEF ReadRecord
  <2>2. CASE WriteRecord(r)
    <3>1. task' \in [Runs -> TaskPcs]
      BY <2>2, PcTypes DEF WriteRecord, AlivePcs
    <3>2. StoreOK'
      BY <2>2, <1>s, PcTypes, SetStatusType DEF WriteRecord
    <3> QED
      BY <2>2, <3>1, <3>2, <1>g, <1>q DEF WriteRecord
  <2>3. CASE EmitLifecycleEvent(r)
    <3>1. task' \in [Runs -> TaskPcs]
      BY <2>3, PcTypes DEF EmitLifecycleEvent, AlivePcs
    <3>2. StoreOK'
      BY <2>3, <1>s, PcTypes, AppendEventType DEF EmitLifecycleEvent
    <3> QED
      BY <2>3, <3>1, <3>2, <1>g, <1>q DEF EmitLifecycleEvent
  <2>4. CASE AgentReturns(r)
    BY <2>4, <1>k, <1>g, <1>q DEF AgentReturns, AlivePcs, EmitPcs
  <2>5. CASE AgentRaises(r)
    BY <2>5, <1>k, <1>g, <1>q DEF AgentRaises, AlivePcs, EmitPcs
  <2>6. CASE DeliverCancel(r)
    <3>1. StoreOK'
      BY <2>6, <1>s, InFlightType DEF DeliverCancel
    <3> QED
      BY <2>6, <3>1, <1>g, <1>q DEF DeliverCancel
  <2> QED
    BY <1>4, <2>1, <2>2, <2>3, <2>4, <2>5, <2>6 DEF Runner
<1>5. ASSUME NEW r \in Runs, EmitStreamEvent(r) PROVE TypeOK'
  <2>1. StoreOK'
    BY <1>5, <1>s, PcTypes, AppendEventType DEF EmitStreamEvent
  <2> QED
    BY <1>5, <2>1, <1>g, <1>q DEF EmitStreamEvent
<1>6. ASSUME NEW r \in Runs, SinkFails(r) PROVE TypeOK'
  <2>1. StoreOK'
    BY <1>6, <1>s, InFlightType DEF SinkFails
  <2> QED
    BY <1>6, <2>1, <1>f, <1>q DEF SinkFails, AlivePcs, EmitPcs
<1>7. ASSUME NEW r \in Runs, CancelBecomesError(r) PROVE TypeOK'
  <2>1. StoreOK'
    BY <1>7, <1>s, InFlightType DEF CancelBecomesError
  <2> QED
    BY <1>7, <2>1, <1>f, <1>q DEF CancelBecomesError, AlivePcs, EmitPcs
<1>8. ASSUME NEW r \in Runs, Marker(r) PROVE TypeOK'
  <2>1. CASE MarkEmit(r)
    <3>1. StoreOK'
      BY <2>1, <1>s, AppendEventType DEF MarkEmit, Events, Terminal
    <3> QED
      BY <2>1, <3>1, <1>g, <1>q DEF MarkEmit
  <2>2. CASE MarkRead(r)
    BY <2>2, <1>k, <1>g, <1>q DEF MarkRead
  <2>3. CASE MarkWrite(r)
    <3>1. StoreOK'
      BY <2>3, <1>s, SetStatusType DEF MarkWrite, Statuses
    <3> QED
      BY <2>3, <3>1, <1>g, <1>q DEF MarkWrite
  <2> QED
    BY <1>8, <2>1, <2>2, <2>3 DEF Marker
<1>9. ASSUME NEW r \in Runs, MarkFails(r) PROVE TypeOK'
  <2>1. StoreOK'
    BY <1>9, <1>s, <1>k, SetStatusType, AppendEventType DEF MarkFails, Statuses, Events, Terminal
  <2> QED
    BY <1>9, <2>1, <1>f, <1>q DEF MarkFails
<1>10. CASE BeginShutdown
  BY <1>10, <1>k DEF BeginShutdown, StoreOK
<1>11. CASE Shutdown
  BY <1>11, <1>k DEF Shutdown, GraceEnds, GatherReturns, ShutdownEnds, StoreOK
<1>12. CASE Crash
  BY <1>12, <1>k DEF Crash, Fault, StoreOK
<1>13. CASE Restart
  BY <1>13, <1>k DEF Restart, StoreOK
<1>14. CASE Tick
  BY <1>14, RetentionAssumption DEF Tick, Statuses
<1>15. CASE UNCHANGED vars
  BY <1>15, <1>k DEF vars, StoreOK
<1> QED
  BY <1>1, <1>2, <1>3, <1>4, <1>5, <1>6, <1>7, <1>8, <1>9, <1>10, <1>11, <1>12,
     <1>13, <1>14, <1>15 DEF Next

(* Every reachable state of the run server is well typed.                  *)
THEOREM TypeCorrect == Spec => []TypeOK
  BY TypeInit, TypeStep, PTL DEF Spec

-----------------------------------------------------------------------------
(* No task survives shutdown().                                            *)

(* Nothing runs at the start.                                              *)
LEMMA TrackInit == Init => TasksTracked
  BY DEF Init, TasksTracked, Alive, AlivePcs, ReadPcs, WritePcs, EmitPcs

(* A step of a running task: it stays the same live task, or it ends.      *)
LEMMA TrackTaskStep ==
  ASSUME TrackInv, NEW r \in Runs, Alive(r), NEW pc, pc # "none",
         task' = [task EXCEPT ![r] = pc],
         UNCHANGED <<request, active, sched>>,
         mark' = mark \/ mark' = [mark EXCEPT ![r] = "todo"]
  PROVE  TasksTracked'
<1>1. request[r] \notin {"new", "persisting"}
  BY DEF TrackInv, TasksTracked, Alive, AlivePcs, ReadPcs, WritePcs, EmitPcs
<1>2. sched \notin {"marking", "stopped", "down"} /\ mark[r] \notin {"get", "set", "done"}
  BY DEF TrackInv, TasksTracked
<1> QED
  BY <1>1, <1>2 DEF TrackInv, TypeOK, TasksTracked, Alive

(* A step of the marking loop touches no task.                             *)
LEMMA TrackMarkStep ==
  ASSUME TrackInv, NEW r \in Runs, mark[r] # "none", NEW m,
         mark' = [mark EXCEPT ![r] = m], UNCHANGED <<request, task, active, sched>>,
         sched = "marking" \/ ~Alive(r)
  PROVE  TasksTracked'
<1>1. request[r] \notin {"new", "persisting"}
  BY DEF TrackInv, TasksTracked
<1>2. ~Alive(r)
  BY DEF TrackInv, TasksTracked
<1> QED
  BY <1>1, <1>2 DEF TrackInv, TypeOK, TasksTracked, Alive

(* Every step keeps the tasks tracked.                                     *)
LEMMA TrackStep == TrackInv /\ [Next]_vars => TasksTracked'
<1> SUFFICES ASSUME TrackInv, [Next]_vars PROVE TasksTracked'
  OBVIOUS
<1>1. ASSUME NEW r \in Runs, Create(r) PROVE TasksTracked'
  <2> USE DEF TrackInv, TypeOK, TasksTracked, Alive
  <2>1. CASE RejectRequest(r)
    BY <2>1 DEF RejectRequest
  <2>2. CASE AdmitRequest(r)
    BY <2>2 DEF AdmitRequest
  <2>3. CASE PersistRun(r)
    BY <2>3 DEF PersistRun
  <2> QED
    BY <1>1, <2>1, <2>2, <2>3 DEF Create
<1>2. ASSUME NEW r \in Runs, PersistFails(r) PROVE TasksTracked'
  BY <1>2 DEF PersistFails, TrackInv, TypeOK, TasksTracked, Alive
<1>3. ASSUME NEW r \in Runs, ReapTask(r) PROVE TasksTracked'
  BY <1>3 DEF ReapTask, TrackInv, TypeOK, TasksTracked, Alive
<1>4. ASSUME NEW r \in Runs, Runner(r) PROVE TasksTracked'
  BY <1>4, TrackTaskStep, PcTypes DEF Runner, Runnable, Alive, ReadRecord, WriteRecord,
     EmitLifecycleEvent, AgentReturns, AgentRaises, DeliverCancel
<1>5. ASSUME NEW r \in Runs, EmitStreamEvent(r) PROVE TasksTracked'
  BY <1>5 DEF EmitStreamEvent, TrackInv, TasksTracked, Alive
<1>6. ASSUME NEW r \in Runs, SinkFails(r) PROVE TasksTracked'
  BY <1>6, TrackTaskStep DEF SinkFails, Runnable
<1>7. ASSUME NEW r \in Runs, CancelBecomesError(r) PROVE TasksTracked'
  BY <1>7, TrackTaskStep DEF CancelBecomesError, Alive, AlivePcs
<1>8. ASSUME NEW r \in Runs, Marker(r) PROVE TasksTracked'
  BY <1>8, TrackMarkStep DEF Marker, MarkEmit, MarkRead, MarkWrite, TrackInv, TasksTracked
<1>9. ASSUME NEW r \in Runs, MarkFails(r) PROVE TasksTracked'
  BY <1>9, TrackMarkStep DEF MarkFails
<1>10. CASE BeginShutdown
  BY <1>10 DEF BeginShutdown, LockFree, TrackInv, TasksTracked, Alive
<1>11. CASE Shutdown
  <2> USE DEF TrackInv, TypeOK, TasksTracked, Alive
  <2>1. CASE GraceEnds
    BY <2>1 DEF GraceEnds, AlivePcs, ReadPcs, WritePcs, EmitPcs
  <2>2. CASE GatherReturns
    BY <2>2 DEF GatherReturns
  <2>3. CASE ShutdownEnds
    BY <2>3 DEF ShutdownEnds
  <2> QED
    BY <1>11, <2>1, <2>2, <2>3 DEF Shutdown
<1>12. CASE Crash
  BY <1>12 DEF Crash, TrackInv, TypeOK, TasksTracked, Alive, AlivePcs, ReadPcs, WritePcs, EmitPcs
<1>13. CASE Restart
  BY <1>13 DEF Restart, TrackInv, TasksTracked, Alive
<1>14. CASE Tick
  BY <1>14 DEF Tick, TrackInv, TasksTracked, Alive
<1>15. CASE UNCHANGED vars
  BY <1>15 DEF vars, TrackInv, TasksTracked, Alive
<1> QED
  BY <1>1, <1>2, <1>3, <1>4, <1>5, <1>6, <1>7, <1>8, <1>9, <1>10, <1>11, <1>12,
     <1>13, <1>14, <1>15 DEF Next

(* Once shutdown() has returned no task is left and none can appear: for   *)
(* any number of runs, requests in flight and crashes.                     *)
THEOREM StoppedMeansStopped == Spec => []NoTaskAfterStop
<1>1. Init => TrackInv
  BY TypeInit, TrackInit DEF TrackInv
<1>2. TrackInv /\ [Next]_vars => TrackInv'
  BY TypeStep, TrackStep DEF TrackInv
<1>3. TrackInv => NoTaskAfterStop
  BY DEF TrackInv, TasksTracked, NoTaskAfterStop
<1> QED
  BY <1>1, <1>2, <1>3, PTL DEF Spec

-----------------------------------------------------------------------------
(* The status is never ahead of the events.                                *)

(* SET changes one record and no event log.                                *)
LEMMA SetStatusEffect ==
  ASSUME TypeOK, NEW r \in Runs, NEW status, SetStatus(r, status)
  PROVE  /\ record'[r] = status
         /\ \A q \in Runs \ {r} : record'[q] = record[q]
         /\ log' = log
  BY DEF SetStatus, TypeOK

(* XADD changes no record, keeps every event and adds one.                 *)
LEMMA AppendEventEffect ==
  ASSUME TypeOK, NEW r \in Runs, NEW event \in Events, AppendEvent(r, event)
  PROVE  /\ record' = record
         /\ log'[r] = Append(log[r], event)
         /\ \A q \in Runs \ {r} : log'[q] = log[q]
         /\ Has(r, event)'
         /\ \A q \in Runs, e \in Events : Has(q, e) => Has(q, e)'
<1>1. /\ record' = record
      /\ log'[r] = Append(log[r], event)
      /\ \A q \in Runs \ {r} : log'[q] = log[q]
  BY DEF AppendEvent, TypeOK
<1>2. log[r] \in Seq(Events)
  BY DEF TypeOK
<1>3. /\ DOMAIN Append(log[r], event) = 1..(Len(log[r]) + 1)
      /\ DOMAIN log[r] = 1..Len(log[r])
      /\ Append(log[r], event)[Len(log[r]) + 1] = event
      /\ \A i \in 1..Len(log[r]) : Append(log[r], event)[i] = log[r][i]
      /\ Len(log[r]) \in Nat
  BY <1>2
<1>4. Has(r, event)'
  BY <1>1, <1>3 DEF Has
<1>5. \A e \in Events : Has(r, e) => Has(r, e)'
  BY <1>1, <1>3 DEF Has
<1>6. \A q \in Runs \ {r}, e \in Events : Has(q, e) => Has(q, e)'
  BY <1>1 DEF Has
<1> QED
  BY <1>1, <1>4, <1>5, <1>6

(* Every event that is in a log stays there.                               *)
Grows == \A q \in Runs, e \in Events : Has(q, e) => Has(q, e)'

(* A status write leaves every event where it is.                          *)
LEMMA GrowsSet ==
  ASSUME TypeOK, NEW r \in Runs, NEW status, SetStatus(r, status)
  PROVE  Grows
  BY DEF SetStatus, Grows, Has

(* An append grows the log by its event.                                   *)
LEMMA GrowsAppend ==
  ASSUME TypeOK, NEW r \in Runs, NEW event \in Events, AppendEvent(r, event)
  PROVE  Grows /\ record' = record /\ Has(r, event)'
  BY AppendEventEffect DEF Grows

(* A step that leaves the logs alone keeps their events.                   *)
LEMMA GrowsStutter ==
  ASSUME UNCHANGED log
  PROVE  Grows
  BY DEF Grows, Has

(* An append keeps the record's claim true.                                *)
LEMMA StatusAppend ==
  ASSUME StatusInv, NEW r \in Runs, NEW event \in Events, AppendEvent(r, event)
  PROVE  StatusFollowsEvent'
<1>1. Grows /\ record' = record
  BY GrowsAppend DEF StatusInv
<1> QED
  BY <1>1 DEF Grows, StatusInv, StatusFollowsEvent, Events, Terminal

(* So does a status write whose event is in the log.                       *)
LEMMA StatusSet ==
  ASSUME StatusInv, NEW r \in Runs, NEW status, SetStatus(r, status),
         status = "succeeded" => Has(r, "run_succeeded"),
         status = "failed" => Has(r, "run_failed")
  PROVE  StatusFollowsEvent'
<1>1. Grows
  BY GrowsSet DEF StatusInv
<1>2. /\ record'[r] = status
      /\ \A q \in Runs \ {r} : record'[q] = record[q]
  BY SetStatusEffect DEF StatusInv
<1> QED
  BY <1>1, <1>2 DEF Grows, StatusInv, StatusFollowsEvent, Events, Terminal

(* And so does a command whose reply is lost.                              *)
LEMMA StatusInFlight ==
  ASSUME StatusInv, NEW r \in Runs, InFlight(r)
  PROVE  Grows /\ StatusFollowsEvent'
<1>1. CASE UNCHANGED store
  BY <1>1, GrowsStutter DEF store, StatusInv, StatusFollowsEvent, Has
<1>2. CASE task[r] \in WritePcs /\ SetStatus(r, StatusAt(task[r]))
  <2>1. /\ StatusAt(task[r]) = "succeeded" => Has(r, "run_succeeded")
        /\ StatusAt(task[r]) = "failed" => Has(r, "run_failed")
    BY <1>2 DEF StatusAt, WritePcs, StatusInv, EventBeforeWrite
  <2> QED
    BY <1>2, <2>1, StatusSet, GrowsSet DEF StatusInv
<1>3. CASE task[r] \in EmitPcs /\ AppendEvent(r, EventAt(task[r]))
  BY <1>3, PcTypes, StatusAppend, GrowsAppend DEF StatusInv
<1>4. CASE AppendEvent(r, EventAt("agent"))
  BY <1>4, PcTypes, StatusAppend, GrowsAppend DEF StatusInv
<1> QED
  BY <1>1, <1>2, <1>3, <1>4 DEF InFlight

(* A step that moves one task to a place with no promise keeps the others. *)
LEMMA EventKept ==
  ASSUME StatusInv, Grows,
         \A q \in Runs : \/ task'[q] = task[q]
                         \/ task'[q] \notin {"okGet", "okSet", "badGet", "badSet"},
         \A q \in Runs : mark'[q] = mark[q] \/ mark'[q] \notin {"get", "set"}
  PROVE  EventBeforeWrite'
  BY DEF StatusInv, EventBeforeWrite, Grows, Events, Terminal

(* Every step keeps event before status.                                   *)
LEMMA StatusStep == StatusInv /\ [Next]_vars => EventBeforeWrite' /\ StatusFollowsEvent'
<1> SUFFICES ASSUME StatusInv, [Next]_vars PROVE EventBeforeWrite' /\ StatusFollowsEvent'
  OBVIOUS
<1>t. TypeOK
  BY DEF StatusInv
<1>k. ASSUME UNCHANGED <<record, log>> PROVE Grows /\ StatusFollowsEvent'
  BY <1>k, GrowsStutter DEF StatusInv, StatusFollowsEvent, Has
<1>1. ASSUME NEW r \in Runs, Create(r) PROVE EventBeforeWrite' /\ StatusFollowsEvent'
  <2>1. CASE RejectRequest(r) \/ AdmitRequest(r)
    BY <2>1, <1>k, EventKept DEF RejectRequest, AdmitRequest, store
  <2>2. CASE PersistRun(r)
    BY <2>2, <1>t, StatusSet, GrowsSet, EventKept DEF PersistRun, TypeOK
  <2> QED
    BY <1>1, <2>1, <2>2 DEF Create
<1>2. ASSUME NEW r \in Runs, PersistFails(r) PROVE EventBeforeWrite' /\ StatusFollowsEvent'
  <2>1. CASE SetStatus(r, "running")
    BY <1>2, <2>1, <1>t, StatusSet, GrowsSet, EventKept DEF PersistFails
  <2>2. CASE UNCHANGED store
    BY <1>2, <2>2, <1>k, EventKept DEF PersistFails, store
  <2> QED
    BY <1>2, <2>1, <2>2 DEF PersistFails
<1>3. ASSUME NEW r \in Runs, ReapTask(r) PROVE EventBeforeWrite' /\ StatusFollowsEvent'
  BY <1>3, <1>k, EventKept DEF ReapTask, store
<1>4. ASSUME NEW r \in Runs, Runner(r) PROVE EventBeforeWrite' /\ StatusFollowsEvent'
  <2>1. CASE ReadRecord(r)
    <3>1. Grows /\ StatusFollowsEvent'
      BY <2>1, <1>k DEF ReadRecord, store
    <3>2. task'[r] = "okSet" => task[r] = "okGet"
      BY <2>1, <1>t DEF ReadRecord, ReadPcs, After, TypeOK
    <3>3. task'[r] = "badSet" => task[r] = "badGet"
      BY <2>1, <1>t DEF ReadRecord, ReadPcs, After, TypeOK
    <3>4. task'[r] \notin {"okGet", "badGet"}
      BY <2>1, <1>t DEF ReadRecord, ReadPcs, After, TypeOK
    <3> QED
      BY <2>1, <3>1, <3>2, <3>3, <3>4, <1>t
      DEF ReadRecord, StatusInv, EventBeforeWrite, Grows, Events, Terminal, TypeOK
  <2>2. CASE WriteRecord(r)
    <3>1. /\ StatusAt(task[r]) = "succeeded" => Has(r, "run_succeeded")
          /\ StatusAt(task[r]) = "failed" => Has(r, "run_failed")
      BY <2>2 DEF WriteRecord, StatusAt, WritePcs, StatusInv, EventBeforeWrite
    <3>2. Grows /\ StatusFollowsEvent'
      BY <2>2, <3>1, <1>t, StatusSet, GrowsSet DEF WriteRecord
    <3>3. task'[r] \in {"started", "ended"}
      BY <2>2, <1>t DEF WriteRecord, WritePcs, After, TypeOK
    <3> QED
      BY <2>2, <3>2, <3>3, <1>t, EventKept DEF WriteRecord, TypeOK
  <2>3. CASE EmitLifecycleEvent(r)
    <3>1. PICK event \in Events : event = EventAt(task[r]) /\ AppendEvent(r, event)
      BY <2>3, PcTypes DEF EmitLifecycleEvent
    <3>2. Grows /\ StatusFollowsEvent' /\ Has(r, event)'
      BY <3>1, <1>t, StatusAppend, GrowsAppend
    <3>3. /\ task'[r] \in {"agent", "okGet", "badGet"}
          /\ task'[r] = "okGet" => event = "run_succeeded"
          /\ task'[r] = "badGet" => event = "run_failed"
      BY <2>3, <3>1, <1>t DEF EmitLifecycleEvent, EmitPcs, After, EventAt, TypeOK
    <3> QED
      BY <2>3, <3>2, <3>3, <1>t
      DEF EmitLifecycleEvent, StatusInv, EventBeforeWrite, Grows, Events, Terminal, TypeOK
  <2>4. CASE AgentReturns(r) \/ AgentRaises(r)
    BY <2>4, <1>k, <1>t, EventKept DEF AgentReturns, AgentRaises, store, TypeOK
  <2>5. CASE DeliverCancel(r)
    BY <2>5, <1>t, StatusInFlight, EventKept DEF DeliverCancel, TypeOK
  <2> QED
    BY <1>4, <2>1, <2>2, <2>3, <2>4, <2>5 DEF Runner
<1>5. ASSUME NEW r \in Runs, EmitStreamEvent(r) PROVE EventBeforeWrite' /\ StatusFollowsEvent'
  BY <1>5, <1>t, PcTypes, StatusAppend, GrowsAppend, EventKept DEF EmitStreamEvent
<1>6. ASSUME NEW r \in Runs, SinkFails(r) PROVE EventBeforeWrite' /\ StatusFollowsEvent'
  BY <1>6, <1>t, StatusInFlight, EventKept DEF SinkFails, TypeOK
<1>7. ASSUME NEW r \in Runs, CancelBecomesError(r) PROVE EventBeforeWrite' /\ StatusFollowsEvent'
  BY <1>7, <1>t, StatusInFlight, EventKept DEF CancelBecomesError, TypeOK
<1>8. ASSUME NEW r \in Runs, Marker(r) PROVE EventBeforeWrite' /\ StatusFollowsEvent'
  <2>1. CASE MarkEmit(r)
    <3>1. Grows /\ StatusFollowsEvent' /\ Has(r, "run_failed")'
      BY <2>1, <1>t, StatusAppend, GrowsAppend DEF MarkEmit, Events, Terminal
    <3> QED
      BY <2>1, <3>1, <1>t
      DEF MarkEmit, StatusInv, EventBeforeWrite, Grows, Events, Terminal, TypeOK
  <2>2. CASE MarkRead(r)
    BY <2>2, <1>k, <1>t
    DEF MarkRead, store, StatusInv, EventBeforeWrite, Grows, Events, Terminal, TypeOK
  <2>3. CASE MarkWrite(r)
    <3>1. Has(r, "run_failed")
      BY <2>3 DEF MarkWrite, StatusInv, EventBeforeWrite
    <3> QED
      BY <2>3, <3>1, <1>t, StatusSet, GrowsSet, EventKept DEF MarkWrite, TypeOK
  <2> QED
    BY <1>8, <2>1, <2>2, <2>3 DEF Marker
<1>9. ASSUME NEW r \in Runs, MarkFails(r) PROVE EventBeforeWrite' /\ StatusFollowsEvent'
  <2>1. \A q \in Runs : mark'[q] = mark[q] \/ mark'[q] = "done"
    BY <1>9, <1>t DEF MarkFails, TypeOK
  <2>2. CASE UNCHANGED store
    BY <1>9, <2>1, <2>2, <1>k, EventKept DEF MarkFails, store
  <2>3. CASE AppendEvent(r, "run_failed")
    BY <1>9, <2>1, <2>3, <1>t, StatusAppend, GrowsAppend, EventKept
    DEF MarkFails, Events, Terminal
  <2>4. CASE mark[r] = "set" /\ SetStatus(r, "failed")
    <3>1. Has(r, "run_failed")
      BY <2>4 DEF StatusInv, EventBeforeWrite
    <3> QED
      BY <1>9, <2>1, <2>4, <3>1, <1>t, StatusSet, GrowsSet, EventKept DEF MarkFails
  <2> QED
    BY <1>9, <2>2, <2>3, <2>4 DEF MarkFails
<1>10. CASE BeginShutdown \/ Restart
  BY <1>10, <1>k, EventKept DEF BeginShutdown, Restart, store
<1>11. CASE Shutdown
  BY <1>11, <1>k, <1>t, EventKept DEF Shutdown, GraceEnds, GatherReturns, ShutdownEnds, store, TypeOK
<1>12. CASE Crash
  BY <1>12, <1>k, <1>t, EventKept DEF Crash, store, TypeOK
<1>13. CASE Tick
  <2>1. Grows
    BY <1>13, GrowsStutter DEF Tick
  <2>2. StatusFollowsEvent'
    BY <1>13 DEF Tick, StatusInv, StatusFollowsEvent, Has
  <2> QED
    BY <1>13, <2>1, <2>2, EventKept DEF Tick
<1>14. CASE UNCHANGED vars
  BY <1>14, <1>k, EventKept DEF vars, store
<1> QED
  BY <1>1, <1>2, <1>3, <1>4, <1>5, <1>6, <1>7, <1>8, <1>9, <1>10, <1>11, <1>12,
     <1>13, <1>14 DEF Next

(* The run record never claims an outcome whose event is not in the log,   *)
(* whatever is cancelled, lost or crashes.                                 *)
THEOREM StatusAfterEvent == Spec => []StatusFollowsEvent
<1>1. Init => StatusInv
  BY TypeInit DEF StatusInv, Init, EventBeforeWrite, StatusFollowsEvent
<1>2. StatusInv /\ [Next]_vars => StatusInv'
  BY TypeStep, StatusStep DEF StatusInv
<1>3. StatusInv => StatusFollowsEvent
  BY DEF StatusInv
<1> QED
  BY <1>1, <1>2, <1>3, PTL DEF Spec

-----------------------------------------------------------------------------
(* The record outlives the events.                                         *)

RetentionInv == TypeOK /\ RecordOutlivesStream

(* SET gives the record a full life.                                       *)
LEMMA RetentionSet ==
  ASSUME RetentionInv, NEW r \in Runs, NEW status, SetStatus(r, status)
  PROVE  RecordOutlivesStream'
  BY RetentionAssumption DEF RetentionInv, TypeOK, RecordOutlivesStream, SetStatus

(* XADD gives both a full life while the record is there.                  *)
LEMMA RetentionAppend ==
  ASSUME RetentionInv, NEW r \in Runs, NEW event, AppendEvent(r, event)
  PROVE  RecordOutlivesStream'
  BY RetentionAssumption DEF RetentionInv, TypeOK, RecordOutlivesStream, AppendEvent

(* Every step keeps the record alive for as long as the events.            *)
LEMMA RetentionStep == RetentionInv /\ [Next]_vars => RecordOutlivesStream'
<1> SUFFICES ASSUME RetentionInv, [Next]_vars PROVE RecordOutlivesStream'
  OBVIOUS
<1>1. CASE Tick
  <2> SUFFICES ASSUME NEW r \in Runs, record'[r] # "absent"
               PROVE  streamTtl'[r] <= recordTtl'[r]
    BY DEF RecordOutlivesStream
  <2>1. /\ recordTtl[r] > 1 /\ record[r] # "absent"
        /\ recordTtl[r] \in Nat /\ streamTtl[r] \in Nat
    BY <1>1, RetentionAssumption DEF Tick, RetentionInv, TypeOK
  <2>2. streamTtl[r] <= recordTtl[r]
    BY <2>1 DEF RetentionInv, RecordOutlivesStream
  <2>3. /\ recordTtl'[r] = recordTtl[r] - 1
        /\ streamTtl'[r] = IF streamTtl[r] = 0 THEN 0 ELSE streamTtl[r] - 1
    BY <1>1, <2>1 DEF Tick
  <2> QED
    BY <2>1, <2>2, <2>3
<1>2. CASE UNCHANGED store
  BY <1>2 DEF store, RetentionInv, RecordOutlivesStream
<1>3. ASSUME NEW r \in Runs, NEW status, SetStatus(r, status) PROVE RecordOutlivesStream'
  BY <1>3, RetentionSet
<1>4. ASSUME NEW r \in Runs, NEW event, AppendEvent(r, event) PROVE RecordOutlivesStream'
  BY <1>4, RetentionAppend
<1>5. ASSUME NEW r \in Runs, InFlight(r) PROVE RecordOutlivesStream'
  BY <1>2, <1>3, <1>4, <1>5 DEF InFlight
<1>6. ASSUME NEW r \in Runs, Create(r) \/ PersistFails(r) \/ ReapTask(r)
      PROVE  RecordOutlivesStream'
  BY <1>2, <1>3, <1>6 DEF Create, RejectRequest, AdmitRequest, PersistRun, PersistFails,
     ReapTask
<1>7. ASSUME NEW r \in Runs, Runner(r) PROVE RecordOutlivesStream'
  BY <1>2, <1>3, <1>4, <1>5, <1>7 DEF Runner, ReadRecord, WriteRecord, EmitLifecycleEvent,
     AgentReturns, AgentRaises, DeliverCancel
<1>8. ASSUME NEW r \in Runs, EmitStreamEvent(r) \/ SinkFails(r) \/ CancelBecomesError(r)
      PROVE  RecordOutlivesStream'
  BY <1>4, <1>5, <1>8 DEF EmitStreamEvent, SinkFails, CancelBecomesError
<1>9. ASSUME NEW r \in Runs, Marker(r) \/ MarkFails(r) PROVE RecordOutlivesStream'
  BY <1>2, <1>3, <1>4, <1>9 DEF Marker, MarkEmit, MarkRead, MarkWrite, MarkFails
<1>10. CASE BeginShutdown \/ Shutdown \/ Crash \/ Restart \/ UNCHANGED vars
  BY <1>2, <1>10 DEF BeginShutdown, Shutdown, GraceEnds, GatherReturns, ShutdownEnds,
     Crash, Restart, vars
<1> QED
  BY <1>1, <1>6, <1>7, <1>8, <1>9, <1>10 DEF Next

(* While a run record exists it lives at least as long as the run's stream,*)
(* for any retention and whatever expires, is retried, lost or crashes:    *)
(* GET /runs/{id}/events never answers 404 while events are left.          *)
THEOREM RecordKeptForReaders == Spec => []RecordOutlivesStream
<1>1. Init => RetentionInv
  BY TypeInit DEF RetentionInv, Init, RecordOutlivesStream
<1>2. RetentionInv /\ [Next]_vars => RetentionInv'
  BY TypeStep, RetentionStep DEF RetentionInv
<1>3. RetentionInv => RecordOutlivesStream
  BY DEF RetentionInv
<1> QED
  BY <1>1, <1>2, <1>3, PTL DEF Spec

-----------------------------------------------------------------------------
(* The order of a run's events.                                            *)

(* The three invariants, for one run.                                      *)
ShapeOf(r) ==
    \A i \in DOMAIN log[r] :
        /\ log[r][i] = "run_started" => i = 1
        /\ log[r][i] = "pydantic_ai_event" =>
              \A j \in 1..(i - 1) : log[r][j] \notin Terminal
        /\ log[r][i] \in Terminal =>
              \A j \in (i + 1)..Len(log[r]) :
                  mark[r] # "none" /\ j = Len(log[r]) /\ log[r][j] = "run_failed"

OpenOutcome(r) == \A i \in DOMAIN log[r] : log[r][i] \notin Terminal

LastTerminal(r) == \A i \in DOMAIN log[r] : log[r][i] \in Terminal => i = Len(log[r])

PhaseOf(r) ==
    /\ task[r] \in {"none", "boot", "bootSet", "started"} => log[r] = <<>>
    /\ task[r] \in {"agent", "succeed", "fail"} => OpenOutcome(r)
    /\ mark[r] \in {"none", "cancel", "todo"} => LastTerminal(r)

(* The order of the events is the order of each run's.                     *)
LEMMA ShapePerRun ==
  /\ EventLogShape <=> \A r \in Runs : ShapeOf(r)
  /\ LogPhases <=> \A r \in Runs : PhaseOf(r)
  BY DEF EventLogShape, ShapeOf, LogPhases, PhaseOf, OpenOutcome, LastTerminal

(* What XADD does to a log, position by position.                          *)
LEMMA AppendedLog ==
  ASSUME TypeOK, NEW r \in Runs, NEW event \in Events, AppendEvent(r, event)
  PROVE  /\ Len(log[r]) \in Nat /\ DOMAIN log[r] = 1..Len(log[r])
         /\ Len(log'[r]) = Len(log[r]) + 1
         /\ DOMAIN log'[r] = 1..(Len(log[r]) + 1)
         /\ log'[r][Len(log[r]) + 1] = event
         /\ \A i \in 1..Len(log[r]) : log'[r][i] = log[r][i]
         /\ log'[r] # <<>>
         /\ \A q \in Runs \ {r} : log'[q] = log[q]
<1>1. log[r] \in Seq(Events) /\ log'[r] = Append(log[r], event)
  BY DEF AppendEvent, TypeOK
<1>2. \A q \in Runs \ {r} : log'[q] = log[q]
  BY DEF AppendEvent, TypeOK
<1> QED
  BY <1>1, <1>2

(* An append keeps the order when the log holds no terminal event but a    *)
(* last one, after which only marking appends, and only run_failed.        *)
LEMMA ShapeAppend ==
  ASSUME TypeOK, NEW r \in Runs, NEW event \in Events, AppendEvent(r, event), ShapeOf(r),
         event = "run_started" => log[r] = <<>>,
         \A i \in DOMAIN log[r] : log[r][i] \in Terminal =>
             i = Len(log[r]) /\ mark'[r] # "none" /\ event = "run_failed"
  PROVE  ShapeOf(r)'
<1> DEFINE n == Len(log[r])
<1>1. /\ n \in Nat /\ DOMAIN log[r] = 1..n /\ Len(log'[r]) = n + 1
      /\ DOMAIN log'[r] = 1..(n + 1) /\ log'[r][n + 1] = event
      /\ \A i \in 1..n : log'[r][i] = log[r][i]
  BY AppendedLog
<1> SUFFICES ASSUME NEW i \in 1..(n + 1)
             PROVE  /\ log'[r][i] = "run_started" => i = 1
                    /\ log'[r][i] = "pydantic_ai_event" =>
                          \A j \in 1..(i - 1) : log'[r][j] \notin Terminal
                    /\ log'[r][i] \in Terminal =>
                          \A j \in (i + 1)..(n + 1) :
                              mark'[r] # "none" /\ j = n + 1 /\ log'[r][j] = "run_failed"
  BY <1>1 DEF ShapeOf
<1>2. CASE i = n + 1
  <2>1. event = "run_started" => n = 0
    BY <1>1
  <2>2. event = "pydantic_ai_event" => \A j \in 1..n : log[r][j] \notin Terminal
    BY <1>1
  <2>3. log'[r][i] = event /\ i - 1 = n /\ \A j \in 1..n : log'[r][j] = log[r][j]
    BY <1>1, <1>2
  <2>4. \A j \in (i + 1)..(n + 1) : FALSE
    BY <1>1, <1>2
  <2>5. log'[r][i] = "run_started" => i = 1
    BY <1>2, <2>1, <2>3
  <2>6. log'[r][i] = "pydantic_ai_event" => \A j \in 1..(i - 1) : log'[r][j] \notin Terminal
    BY <2>2, <2>3
  <2> QED
    BY <2>4, <2>5, <2>6
<1>3. CASE i \in 1..n
  <2>1. /\ log[r][i] = "run_started" => i = 1
        /\ log[r][i] = "pydantic_ai_event" =>
              \A j \in 1..(i - 1) : log[r][j] \notin Terminal
    BY <1>1, <1>3 DEF ShapeOf
  <2>2. log[r][i] \in Terminal => i = n /\ mark'[r] # "none" /\ event = "run_failed"
    BY <1>1, <1>3
  <2>3. log'[r][i] = log[r][i] /\ \A j \in 1..(i - 1) : log'[r][j] = log[r][j]
    BY <1>1, <1>3
  <2>4. ASSUME log'[r][i] \in Terminal, NEW j \in (i + 1)..(n + 1)
        PROVE  mark'[r] # "none" /\ j = n + 1 /\ log'[r][j] = "run_failed"
    BY <1>1, <2>2, <2>3, <2>4
  <2> QED
    BY <2>1, <2>3, <2>4
<1> QED
  BY <1>1, <1>2, <1>3

(* A log that stays the same keeps its order: nobody is unmarked.          *)
LEMMA ShapeKept ==
  ASSUME NEW r \in Runs, ShapeOf(r), log'[r] = log[r],
         mark[r] # "none" => mark'[r] # "none"
  PROVE  ShapeOf(r)'
  BY DEF ShapeOf

(* An event appended while the outcome is open is the last one, and leaves *)
(* the outcome open unless it is terminal.                                 *)
LEMMA AppendOpen ==
  ASSUME TypeOK, NEW r \in Runs, NEW event \in Events, AppendEvent(r, event), OpenOutcome(r)
  PROVE  LastTerminal(r)' /\ (event \notin Terminal => OpenOutcome(r)')
<1>1. /\ Len(log[r]) \in Nat /\ DOMAIN log[r] = 1..Len(log[r])
      /\ Len(log'[r]) = Len(log[r]) + 1 /\ DOMAIN log'[r] = 1..(Len(log[r]) + 1)
      /\ log'[r][Len(log[r]) + 1] = event
      /\ \A i \in 1..Len(log[r]) : log'[r][i] = log[r][i]
  BY AppendedLog
<1>2. \A i \in 1..Len(log[r]) : log'[r][i] \notin Terminal
  BY <1>1 DEF OpenOutcome
<1>3. \A i \in DOMAIN log'[r] : i \in 1..Len(log[r]) \/ i = Len(log'[r])
  BY <1>1
<1> QED
  BY <1>1, <1>2, <1>3 DEF OpenOutcome, LastTerminal

(* What a runner's command does to its log, whether or not its reply is    *)
(* seen.                                                                   *)
LEMMA RunnerAppend ==
  ASSUME ShapeInv, NEW r \in Runs, task[r] \in EmitPcs \cup {"agent"},
         AppendEvent(r, EventAt(task[r]))
  PROVE  /\ ShapeOf(r)' /\ LastTerminal(r)'
         /\ task[r] \in {"started", "agent"} => OpenOutcome(r)'
         /\ \A q \in Runs \ {r} : log'[q] = log[q]
<1>1. TypeOK /\ ShapeOf(r) /\ PhaseOf(r)
  BY ShapePerRun DEF ShapeInv, TrackInv
<1>2. PICK event \in Events : event = EventAt(task[r])
  BY PcTypes
<1>3. AppendEvent(r, event)
  BY <1>2
<1>4. /\ task[r] = "started" => event = "run_started" /\ log[r] = <<>>
      /\ task[r] # "started" => event # "run_started"
      /\ task[r] \in {"started", "agent"} => event \notin Terminal
  BY <1>1, <1>2 DEF EventAt, EmitPcs, PhaseOf, Terminal
<1>5. OpenOutcome(r)
  BY <1>1, <1>4 DEF PhaseOf, EmitPcs, OpenOutcome
<1>6. ShapeOf(r)'
  BY <1>1, <1>3, <1>4, <1>5, ShapeAppend DEF OpenOutcome
<1> QED
  BY <1>1, <1>3, <1>4, <1>5, <1>6, AppendOpen, AppendedLog

(* A command whose reply is lost keeps the order and, inside the agent,    *)
(* leaves the outcome open.                                                *)
LEMMA ShapeInFlight ==
  ASSUME ShapeInv, NEW r \in Runs, Alive(r), InFlight(r),
         mark[r] # "none" => mark'[r] # "none"
  PROVE  /\ ShapeOf(r)' /\ LastTerminal(r)'
         /\ task[r] = "agent" => OpenOutcome(r)'
         /\ \A q \in Runs \ {r} : log'[q] = log[q]
<1>1. TypeOK /\ ShapeOf(r) /\ PhaseOf(r)
  BY ShapePerRun DEF ShapeInv, TrackInv
<1>2. mark[r] \in {"none", "cancel", "todo"}
  BY DEF ShapeInv, TrackInv, TasksTracked, TypeOK
<1>3. CASE log' = log
  BY <1>1, <1>2, <1>3, ShapeKept DEF PhaseOf, LastTerminal, OpenOutcome
<1>4. CASE task[r] \in EmitPcs \cup {"agent"} /\ AppendEvent(r, EventAt(task[r]))
  BY <1>4, RunnerAppend
<1> QED
  BY <1>3, <1>4 DEF InFlight, store, SetStatus

(* A step that leaves a run's log and task alone, and marks it only while  *)
(* its last event may still be terminal, keeps its phase.                  *)
LEMMA PhaseKept ==
  ASSUME NEW r \in Runs, PhaseOf(r), log'[r] = log[r],
         task'[r] = task[r] \/ task'[r] \in {"ended", "killed"},
         mark'[r] \in {"none", "cancel", "todo"} => mark[r] \in {"none", "cancel", "todo"}
  PROVE  PhaseOf(r)'
  BY DEF PhaseOf, OpenOutcome, LastTerminal

(* A step of one run leaves the order of the others' events alone.         *)
LEMMA ShapeOneRun ==
  ASSUME ShapeInv, NEW r \in Runs,
         \A q \in Runs \ {r} : log'[q] = log[q] /\ task'[q] = task[q] /\ mark'[q] = mark[q],
         ShapeOf(r)', PhaseOf(r)'
  PROVE  LogPhases' /\ EventLogShape'
<1>1. \A q \in Runs : ShapeOf(q) /\ PhaseOf(q)
  BY ShapePerRun DEF ShapeInv
<1>2. \A q \in Runs \ {r} : ShapeOf(q)' /\ PhaseOf(q)'
  BY <1>1, ShapeKept, PhaseKept
<1>3. \A q \in Runs : ShapeOf(q)' /\ PhaseOf(q)'
  BY <1>2
<1> QED
  BY <1>3 DEF EventLogShape, ShapeOf, LogPhases, PhaseOf, OpenOutcome, LastTerminal

(* A step that appends nothing keeps the order when no task gets further   *)
(* than its log and no mark is taken back.                                 *)
LEMMA ShapeQuiet ==
  ASSUME ShapeInv, log' = log,
         \A q \in Runs : task'[q] = task[q] \/ task'[q] \in {"ended", "killed"},
         \A q \in Runs : mark[q] # "none" => mark'[q] # "none",
         \A q \in Runs : mark'[q] \in {"none", "cancel", "todo"} =>
                             mark[q] \in {"none", "cancel", "todo"}
  PROVE  LogPhases' /\ EventLogShape'
<1>1. \A q \in Runs : ShapeOf(q) /\ PhaseOf(q)
  BY ShapePerRun DEF ShapeInv
<1>2. \A q \in Runs : ShapeOf(q)' /\ PhaseOf(q)'
  BY <1>1, ShapeKept, PhaseKept
<1> QED
  BY <1>2 DEF EventLogShape, ShapeOf, LogPhases, PhaseOf, OpenOutcome, LastTerminal

(* A step of a live task that sends no append.                             *)
LEMMA ShapeTaskStep ==
  ASSUME ShapeInv, NEW r \in Runs, NEW pc, log' = log, mark' = mark,
         task' = [task EXCEPT ![r] = pc],
         pc \in {"none", "boot", "bootSet", "started"} =>
             task[r] \in {"none", "boot", "bootSet"},
         pc \in {"agent", "succeed", "fail"} => task[r] \in {"agent", "succeed", "fail"}
  PROVE  LogPhases' /\ EventLogShape'
<1>1. TypeOK /\ ShapeOf(r) /\ PhaseOf(r)
  BY ShapePerRun DEF ShapeInv, TrackInv
<1>2. task'[r] = pc /\ \A q \in Runs \ {r} : task'[q] = task[q]
  BY <1>1 DEF TypeOK
<1>3. ShapeOf(r)'
  BY <1>1, ShapeKept
<1>4. PhaseOf(r)'
  BY <1>1, <1>2 DEF PhaseOf, OpenOutcome, LastTerminal
<1> QED
  BY <1>2, <1>3, <1>4, ShapeOneRun

(* Marking appends run_failed to a run that nothing else appends to.       *)
LEMMA ShapeMark ==
  ASSUME ShapeInv, NEW r \in Runs, NEW m \in {"get", "done"},
         sched = "marking", mark[r] = "todo", AppendEvent(r, "run_failed"),
         mark' = [mark EXCEPT ![r] = m], UNCHANGED task
  PROVE  LogPhases' /\ EventLogShape'
<1>1. TypeOK /\ ShapeOf(r) /\ PhaseOf(r)
  BY ShapePerRun DEF ShapeInv, TrackInv
<1>2. /\ task[r] \notin AlivePcs /\ task[r] # "none"
      /\ mark'[r] = m /\ \A q \in Runs \ {r} : mark'[q] = mark[q]
  BY <1>1 DEF ShapeInv, TrackInv, TasksTracked, Alive, TypeOK
<1>3. "run_failed" \in Events
  BY DEF Events, Terminal
<1>4. LastTerminal(r)
  BY <1>1 DEF PhaseOf
<1>5. ShapeOf(r)'
  BY <1>1, <1>2, <1>3, <1>4, ShapeAppend DEF LastTerminal
<1>6. PhaseOf(r)'
  BY <1>2 DEF PhaseOf, AlivePcs, ReadPcs, WritePcs, EmitPcs
<1>7. \A q \in Runs \ {r} : log'[q] = log[q]
  BY <1>1, <1>3, AppendedLog
<1> QED
  BY <1>2, <1>5, <1>6, <1>7, ShapeOneRun

(* Every step keeps the events in order.                                   *)
LEMMA ShapeStep == ShapeInv /\ [Next]_vars => LogPhases' /\ EventLogShape'
<1> SUFFICES ASSUME ShapeInv, [Next]_vars PROVE LogPhases' /\ EventLogShape'
  OBVIOUS
<1>t. TypeOK /\ \A r \in Runs : ShapeOf(r) /\ PhaseOf(r)
  BY ShapePerRun DEF ShapeInv, TrackInv
<1>s. ASSUME UNCHANGED store PROVE log' = log
  BY <1>s DEF store
<1>m. ASSUME NEW r \in Runs, Alive(r) PROVE mark[r] \in {"none", "cancel", "todo"}
  BY <1>m DEF ShapeInv, TrackInv, TypeOK, TasksTracked
<1>1. ASSUME NEW r \in Runs, Create(r) PROVE LogPhases' /\ EventLogShape'
  <2>1. CASE RejectRequest(r) \/ AdmitRequest(r)
    BY <2>1, <1>s, ShapeQuiet DEF RejectRequest, AdmitRequest
  <2>2. CASE PersistRun(r)
    <3>1. task[r] = "none"
      BY <2>2 DEF PersistRun, ShapeInv, TrackInv, TasksTracked
    <3> QED
      BY <2>2, <3>1, ShapeTaskStep DEF PersistRun, SetStatus
  <2> QED
    BY <1>1, <2>1, <2>2 DEF Create
<1>2. ASSUME NEW r \in Runs, PersistFails(r) PROVE LogPhases' /\ EventLogShape'
  BY <1>2, <1>s, ShapeQuiet DEF PersistFails, SetStatus
<1>3. ASSUME NEW r \in Runs, ReapTask(r) PROVE LogPhases' /\ EventLogShape'
  BY <1>3, <1>s, ShapeQuiet DEF ReapTask
<1>4. ASSUME NEW r \in Runs, Runner(r) PROVE LogPhases' /\ EventLogShape'
  <2>1. CASE ReadRecord(r)
    BY <2>1, <1>s, ShapeTaskStep DEF ReadRecord, ReadPcs, After
  <2>2. CASE WriteRecord(r)
    BY <2>2, ShapeTaskStep DEF WriteRecord, WritePcs, After, SetStatus
  <2>3. CASE EmitLifecycleEvent(r)
    <3>1. /\ task'[r] = After(task[r]) /\ mark' = mark
          /\ \A q \in Runs \ {r} : task'[q] = task[q]
      BY <2>3, <1>t DEF EmitLifecycleEvent, TypeOK
    <3>2. /\ ShapeOf(r)' /\ LastTerminal(r)'
          /\ task[r] \in {"started", "agent"} => OpenOutcome(r)'
          /\ \A q \in Runs \ {r} : log'[q] = log[q]
      BY <2>3, RunnerAppend DEF EmitLifecycleEvent
    <3>3. task'[r] \in {"agent", "okGet", "badGet"} /\ (task'[r] = "agent" => task[r] = "started")
      BY <2>3, <3>1 DEF EmitLifecycleEvent, EmitPcs, After
    <3>4. PhaseOf(r)'
      BY <3>2, <3>3 DEF PhaseOf
    <3> QED
      BY <3>1, <3>2, <3>4, ShapeOneRun
  <2>4. CASE AgentReturns(r)
    BY <2>4, <1>s, ShapeTaskStep DEF AgentReturns
  <2>5. CASE AgentRaises(r)
    BY <2>5, <1>s, ShapeTaskStep DEF AgentRaises
  <2>6. CASE DeliverCancel(r)
    <3>1. /\ task'[r] = "ended" /\ mark'[r] = "todo"
          /\ \A q \in Runs \ {r} : task'[q] = task[q] /\ mark'[q] = mark[q]
      BY <2>6, <1>t DEF DeliverCancel, TypeOK
    <3>2. /\ ShapeOf(r)' /\ LastTerminal(r)'
          /\ \A q \in Runs \ {r} : log'[q] = log[q]
      BY <2>6, <3>1, ShapeInFlight DEF DeliverCancel
    <3>3. PhaseOf(r)'
      BY <3>1, <3>2 DEF PhaseOf
    <3> QED
      BY <3>1, <3>2, <3>3, ShapeOneRun
  <2> QED
    BY <1>4, <2>1, <2>2, <2>3, <2>4, <2>5, <2>6 DEF Runner
<1>5. ASSUME NEW r \in Runs, EmitStreamEvent(r) PROVE LogPhases' /\ EventLogShape'
  <2>1. /\ ShapeOf(r)' /\ LastTerminal(r)' /\ OpenOutcome(r)'
        /\ \A q \in Runs \ {r} : log'[q] = log[q]
    BY <1>5, RunnerAppend DEF EmitStreamEvent
  <2>2. PhaseOf(r)'
    BY <1>5, <2>1 DEF EmitStreamEvent, PhaseOf
  <2> QED
    BY <1>5, <2>1, <2>2, ShapeOneRun DEF EmitStreamEvent
<1>6. ASSUME NEW r \in Runs, SinkFails(r) PROVE LogPhases' /\ EventLogShape'
  <2>1. /\ task'[r] \in {"fail", "ended"} /\ (task'[r] = "fail" => task[r] = "agent")
        /\ \A q \in Runs \ {r} : task'[q] = task[q]
        /\ mark' = mark
    BY <1>6, <1>t DEF SinkFails, TypeOK
  <2>2. /\ ShapeOf(r)' /\ LastTerminal(r)' /\ (task[r] = "agent" => OpenOutcome(r)')
        /\ \A q \in Runs \ {r} : log'[q] = log[q]
    BY <1>6, <2>1, ShapeInFlight DEF SinkFails, Runnable
  <2>3. PhaseOf(r)'
    BY <2>1, <2>2 DEF PhaseOf
  <2> QED
    BY <2>1, <2>2, <2>3, ShapeOneRun
<1>7. ASSUME NEW r \in Runs, CancelBecomesError(r) PROVE LogPhases' /\ EventLogShape'
  <2>1. /\ task[r] = "agent" /\ task'[r] = "fail" /\ mark'[r] = "todo"
        /\ \A q \in Runs \ {r} : task'[q] = task[q] /\ mark'[q] = mark[q]
    BY <1>7, <1>t DEF CancelBecomesError, TypeOK
  <2>2. /\ ShapeOf(r)' /\ LastTerminal(r)' /\ OpenOutcome(r)'
        /\ \A q \in Runs \ {r} : log'[q] = log[q]
    BY <1>7, <2>1, ShapeInFlight DEF CancelBecomesError, Alive, AlivePcs
  <2>3. PhaseOf(r)'
    BY <2>1, <2>2 DEF PhaseOf
  <2> QED
    BY <2>1, <2>2, <2>3, ShapeOneRun
<1>8. ASSUME NEW r \in Runs, Marker(r) PROVE LogPhases' /\ EventLogShape'
  <2>1. CASE MarkEmit(r)
    BY <2>1, ShapeMark DEF MarkEmit
  <2>2. CASE MarkRead(r)
    BY <2>2, <1>s, <1>t, ShapeQuiet DEF MarkRead, TypeOK
  <2>3. CASE MarkWrite(r)
    BY <2>3, <1>t, ShapeQuiet DEF MarkWrite, TypeOK, SetStatus
  <2> QED
    BY <1>8, <2>1, <2>2, <2>3 DEF Marker
<1>9. ASSUME NEW r \in Runs, MarkFails(r) PROVE LogPhases' /\ EventLogShape'
  <2>1. CASE log' = log
    BY <1>9, <2>1, <1>t, ShapeQuiet DEF MarkFails, TypeOK
  <2>2. CASE mark[r] = "todo" /\ AppendEvent(r, "run_failed")
    BY <1>9, <2>2, ShapeMark DEF MarkFails
  <2> QED
    BY <1>9, <1>s, <2>1, <2>2 DEF MarkFails, SetStatus
<1>10. CASE Shutdown
  <2>1. CASE GraceEnds
    BY <2>1, <1>m, <1>s, ShapeQuiet DEF GraceEnds
  <2>2. CASE GatherReturns \/ ShutdownEnds
    BY <2>2, <1>s, ShapeQuiet DEF GatherReturns, ShutdownEnds
  <2> QED
    BY <1>10, <2>1, <2>2 DEF Shutdown
<1>11. CASE Crash
  BY <1>11, <1>s, ShapeQuiet DEF Crash
<1>12. CASE BeginShutdown \/ Restart \/ Tick \/ UNCHANGED vars
  BY <1>12, <1>s, ShapeQuiet DEF BeginShutdown, Restart, Tick, vars
<1> QED
  BY <1>1, <1>2, <1>3, <1>4, <1>5, <1>6, <1>7, <1>8, <1>9, <1>10, <1>11, <1>12 DEF Next

(* A reader of GET /runs/{id}/events sees run_started first, nothing of    *)
(* the model after a terminal event, and a second terminal event only when *)
(* shutdown cancelled the run: for any number of runs and any faults.      *)
THEOREM EventsInOrder == Spec => []EventLogShape
<1>1. Init => ShapeInv
  BY TypeInit, TrackInit
     DEF Init, ShapeInv, TrackInv, LogPhases, EventLogShape
<1>2. ShapeInv /\ [Next]_vars => ShapeInv'
  BY TypeStep, TrackStep, ShapeStep DEF ShapeInv, TrackInv
<1>3. ShapeInv => EventLogShape
  BY DEF ShapeInv
<1> QED
  BY <1>1, <1>2, <1>3, PTL DEF Spec

-----------------------------------------------------------------------------
(* The polled status agrees with the last event.                           *)

(* Nothing will touch the run any more, and its status is still there.     *)
Settled(r) == task[r] = "ended" /\ mark[r] \in {"none", "done"} /\ record[r] # "absent"

Agreed(r) ==
    /\ log[r] # <<>>
    /\ log[r][Len(log[r])] =
          (IF record[r] = "succeeded" THEN "run_succeeded" ELSE "run_failed")
    /\ record[r] # "running"

PendingPcs == {"okGet", "okSet", "badGet", "badSet"}

(* After a fault the two may disagree.                                     *)
LEMMA VerdictFault ==
  ASSUME TypeOK, Fault
  PROVE  VerdictAgreement'
  BY DEF TypeOK, Fault, VerdictAgreement

(* A step keeps the agreement of every run it leaves alone, unsettles or   *)
(* settles in agreement.                                                   *)
LEMMA VerdictKept ==
  ASSUME VerdictInv, UNCHANGED faults,
         \A q \in Runs : \/ ~Settled(q)'
                         \/ Agreed(q)'
                         \/ /\ task'[q] = task[q] /\ mark'[q] = mark[q]
                            /\ log'[q] = log[q] /\ record'[q] = record[q]
  PROVE  VerdictAgreement'
  BY DEF VerdictInv, VerdictAgreement, Settled, Agreed

(* A run that is about to get its status keeps its last event; one that is *)
(* not may get any event.                                                  *)
LEMMA PendingKept ==
  ASSUME VerdictInv,
         \A q \in Runs : task'[q] = task[q] \/ task'[q] \notin PendingPcs,
         \A q \in Runs : mark'[q] = mark[q] \/ mark'[q] \notin {"get", "set"},
         \A q \in Runs : \/ log'[q] = log[q]
                         \/ task'[q] \notin PendingPcs /\ mark'[q] \notin {"get", "set"}
  PROVE  VerdictPending'
  BY DEF VerdictInv, VerdictPending, PendingPcs, EndsWith

(* The event just appended is the last one.                                *)
LEMMA AppendEnds ==
  ASSUME TypeOK, NEW r \in Runs, NEW event \in Events, AppendEvent(r, event)
  PROVE  EndsWith(r, event)' /\ record' = record /\ \A q \in Runs \ {r} : log'[q] = log[q]
<1>1. /\ log'[r] # <<>> /\ Len(log'[r]) = Len(log[r]) + 1
      /\ log'[r][Len(log[r]) + 1] = event
      /\ \A q \in Runs \ {r} : log'[q] = log[q]
  BY AppendedLog
<1> QED
  BY <1>1 DEF EndsWith, AppendEvent

(* A command whose reply is lost touches no other run's log.               *)
LEMMA InFlightElsewhere ==
  ASSUME TypeOK, NEW r \in Runs, InFlight(r)
  PROVE  \A q \in Runs \ {r} : log'[q] = log[q] /\ record'[q] = record[q]
  BY DEF InFlight, store, SetStatus, AppendEvent, TypeOK

(* Every step keeps status and last event in agreement.                    *)
LEMMA VerdictStep == VerdictInv /\ [Next]_vars => VerdictPending' /\ VerdictAgreement'
<1> SUFFICES ASSUME VerdictInv, [Next]_vars PROVE VerdictPending' /\ VerdictAgreement'
  OBVIOUS
<1>t. TypeOK
  BY DEF VerdictInv, TrackInv
<1>s. ASSUME UNCHANGED store PROVE log' = log /\ record' = record
  BY <1>s DEF store
<1>m. ASSUME NEW r \in Runs, Alive(r) PROVE mark[r] \notin {"get", "set", "done"}
  BY <1>m DEF VerdictInv, TrackInv, TasksTracked
<1>n. ASSUME NEW r \in Runs, mark[r] \in {"get", "set", "done"}
      PROVE  task[r] \notin PendingPcs
  BY <1>n DEF VerdictInv, TrackInv, TasksTracked, Alive, AlivePcs, ReadPcs, WritePcs, PendingPcs
<1>1. ASSUME NEW r \in Runs, Create(r) PROVE VerdictPending' /\ VerdictAgreement'
  <2>1. CASE RejectRequest(r) \/ AdmitRequest(r)
    BY <2>1, <1>s, VerdictKept, PendingKept DEF RejectRequest, AdmitRequest
  <2>2. CASE PersistRun(r)
    BY <2>2, <1>t, VerdictKept, PendingKept DEF PersistRun, SetStatus, TypeOK, Settled, PendingPcs
  <2> QED
    BY <1>1, <2>1, <2>2 DEF Create
<1>2. ASSUME NEW r \in Runs, PersistFails(r) PROVE VerdictPending' /\ VerdictAgreement'
  BY <1>2, <1>s, <1>t, VerdictFault, PendingKept DEF PersistFails, SetStatus
<1>3. ASSUME NEW r \in Runs, ReapTask(r) PROVE VerdictPending' /\ VerdictAgreement'
  BY <1>3, <1>s, VerdictKept, PendingKept DEF ReapTask
<1>4. ASSUME NEW r \in Runs, Runner(r) PROVE VerdictPending' /\ VerdictAgreement'
  <2>1. CASE ReadRecord(r)
    <3>1. /\ task'[r] = IF record[r] = "absent" THEN "ended" ELSE After(task[r])
          /\ \A q \in Runs \ {r} : task'[q] = task[q]
          /\ mark' = mark /\ log' = log /\ record' = record /\ UNCHANGED faults
      BY <2>1, <1>t, <1>s DEF ReadRecord, TypeOK
    <3>2. /\ task'[r] = "ended" => record'[r] = "absent"
          /\ task'[r] = "okSet" => task[r] = "okGet"
          /\ task'[r] = "badSet" => task[r] = "badGet"
          /\ task'[r] \notin {"okGet", "badGet"}
      <4>1. task[r] \in {"boot", "okGet", "badGet"}
        BY <2>1 DEF ReadRecord, ReadPcs
      <4>2. After("boot") = "bootSet" /\ After("okGet") = "okSet" /\ After("badGet") = "badSet"
        BY DEF After
      <4> QED
        BY <3>1, <4>1, <4>2
    <3>3. VerdictAgreement'
      BY <3>1, <3>2, VerdictKept DEF Settled
    <3>4. VerdictPending'
      BY <3>1, <3>2 DEF VerdictInv, VerdictPending, EndsWith
    <3> QED
      BY <3>3, <3>4
  <2>2. CASE WriteRecord(r)
    <3>1. /\ task'[r] = After(task[r]) /\ record'[r] = StatusAt(task[r])
          /\ \A q \in Runs \ {r} : task'[q] = task[q] /\ record'[q] = record[q]
          /\ mark' = mark /\ log' = log /\ UNCHANGED faults
      BY <2>2, <1>t DEF WriteRecord, SetStatus, TypeOK
    <3>2. /\ task[r] = "bootSet" => task'[r] = "started"
          /\ task[r] = "okSet" => task'[r] = "ended" /\ record'[r] = "succeeded"
          /\ task[r] = "badSet" => task'[r] = "ended" /\ record'[r] = "failed"
          /\ task[r] \in {"bootSet", "okSet", "badSet"}
      BY <2>2, <3>1 DEF WriteRecord, WritePcs, After, StatusAt
    <3>3. task[r] \in {"okSet", "badSet"} => Agreed(r)'
      BY <3>1, <3>2 DEF VerdictInv, VerdictPending, EndsWith, Agreed
    <3>4. VerdictAgreement'
      BY <3>1, <3>2, <3>3, VerdictKept DEF Settled
    <3>5. VerdictPending'
      BY <3>1, <3>2, PendingKept DEF PendingPcs
    <3> QED
      BY <3>4, <3>5
  <2>3. CASE EmitLifecycleEvent(r)
    <3>1. /\ task'[r] = After(task[r])
          /\ \A q \in Runs \ {r} : task'[q] = task[q]
          /\ mark' = mark /\ UNCHANGED faults /\ mark[r] \notin {"get", "set"}
      BY <2>3, <1>t, <1>m DEF EmitLifecycleEvent, TypeOK, Runnable
    <3>2. PICK event \in Events : event = EventAt(task[r])
      BY <2>3, PcTypes DEF EmitLifecycleEvent
    <3>3. /\ EndsWith(r, event)' /\ record' = record
          /\ \A q \in Runs \ {r} : log'[q] = log[q]
      BY <2>3, <3>2, <1>t, AppendEnds DEF EmitLifecycleEvent
    <3>4. /\ task'[r] \in {"agent", "okGet", "badGet"}
          /\ task'[r] = "okGet" => event = "run_succeeded"
          /\ task'[r] = "badGet" => event = "run_failed"
      BY <2>3, <3>1, <3>2 DEF EmitLifecycleEvent, EmitPcs, After, EventAt
    <3>5. VerdictAgreement'
      BY <3>1, <3>3, <3>4, VerdictKept DEF Settled
    <3>6. VerdictPending'
      BY <3>1, <3>3, <3>4 DEF VerdictInv, VerdictPending, EndsWith
    <3> QED
      BY <3>5, <3>6
  <2>4. CASE AgentReturns(r)
    BY <2>4, <1>s, <1>t, VerdictKept, PendingKept DEF AgentReturns, TypeOK, Settled, PendingPcs
  <2>5. CASE AgentRaises(r)
    BY <2>5, <1>s, <1>t, VerdictKept, PendingKept DEF AgentRaises, TypeOK, Settled, PendingPcs
  <2>6. CASE DeliverCancel(r)
    <3>1. \A q \in Runs \ {r} : log'[q] = log[q] /\ record'[q] = record[q]
      BY <2>6, <1>t, InFlightElsewhere DEF DeliverCancel
    <3>2. /\ task'[r] = "ended" /\ mark'[r] = "todo" /\ UNCHANGED faults
          /\ \A q \in Runs \ {r} : task'[q] = task[q] /\ mark'[q] = mark[q]
      BY <2>6, <1>t DEF DeliverCancel, TypeOK
    <3> QED
      BY <3>1, <3>2, VerdictKept, PendingKept DEF Settled, PendingPcs
  <2> QED
    BY <1>4, <2>1, <2>2, <2>3, <2>4, <2>5, <2>6 DEF Runner
<1>5. ASSUME NEW r \in Runs, EmitStreamEvent(r) PROVE VerdictPending' /\ VerdictAgreement'
  <2>1. /\ record' = record /\ task' = task /\ mark' = mark /\ UNCHANGED faults
        /\ \A q \in Runs \ {r} : log'[q] = log[q]
    BY <1>5, <1>t DEF EmitStreamEvent, AppendEvent, TypeOK
  <2>2. task[r] = "agent" /\ mark[r] \notin {"get", "set"}
    BY <1>5, <1>m DEF EmitStreamEvent, Runnable
  <2> QED
    BY <2>1, <2>2, VerdictKept, PendingKept DEF Settled, PendingPcs
<1>6. ASSUME NEW r \in Runs, SinkFails(r) \/ CancelBecomesError(r)
      PROVE  VerdictPending' /\ VerdictAgreement'
  <2>1. /\ task'[r] \in {"fail", "ended"} /\ (mark'[r] = mark[r] \/ mark'[r] = "todo")
        /\ \A q \in Runs \ {r} : task'[q] = task[q] /\ mark'[q] = mark[q]
    BY <1>6, <1>t DEF SinkFails, CancelBecomesError, TypeOK
  <2>2. Alive(r) /\ Fault /\ \A q \in Runs \ {r} : log'[q] = log[q]
    BY <1>6, <1>t, InFlightElsewhere DEF SinkFails, CancelBecomesError, Runnable, Alive, AlivePcs
  <2> QED
    BY <2>1, <2>2, <1>m, <1>t, VerdictFault, PendingKept DEF PendingPcs
<1>7. ASSUME NEW r \in Runs, Marker(r) PROVE VerdictPending' /\ VerdictAgreement'
  <2>1. CASE MarkEmit(r)
    <3>1. "run_failed" \in Events
      BY DEF Events, Terminal
    <3>2. /\ EndsWith(r, "run_failed")' /\ record' = record
          /\ \A q \in Runs \ {r} : log'[q] = log[q]
      BY <2>1, <3>1, <1>t, AppendEnds DEF MarkEmit
    <3>3. /\ mark'[r] = "get" /\ task' = task /\ UNCHANGED faults
          /\ \A q \in Runs \ {r} : mark'[q] = mark[q]
      BY <2>1, <1>t DEF MarkEmit, TypeOK
    <3>4. task[r] \notin PendingPcs
      BY <2>1 DEF MarkEmit, VerdictInv, TrackInv, TasksTracked, Alive, AlivePcs, ReadPcs,
         WritePcs, PendingPcs
    <3>5. VerdictAgreement'
      BY <3>2, <3>3, VerdictKept DEF Settled
    <3>6. VerdictPending'
      BY <3>2, <3>3, <3>4 DEF VerdictInv, VerdictPending, EndsWith, PendingPcs
    <3> QED
      BY <3>5, <3>6
  <2>2. CASE MarkRead(r)
    <3>1. /\ mark'[r] \in {"set", "done"} /\ (mark'[r] = "done" => record'[r] = "absent")
          /\ task' = task /\ log' = log /\ record' = record /\ UNCHANGED faults
          /\ \A q \in Runs \ {r} : mark'[q] = mark[q]
      BY <2>2, <1>t, <1>s DEF MarkRead, TypeOK
    <3>2. VerdictAgreement'
      BY <3>1, VerdictKept DEF Settled
    <3>3. VerdictPending'
      BY <2>2, <3>1 DEF MarkRead, VerdictInv, VerdictPending, EndsWith
    <3> QED
      BY <3>2, <3>3
  <2>3. CASE MarkWrite(r)
    <3>1. /\ mark'[r] = "done" /\ record'[r] = "failed"
          /\ task' = task /\ log' = log /\ UNCHANGED faults
          /\ \A q \in Runs \ {r} : mark'[q] = mark[q] /\ record'[q] = record[q]
      BY <2>3, <1>t DEF MarkWrite, SetStatus, TypeOK
    <3>2. Agreed(r)'
      BY <2>3, <3>1 DEF MarkWrite, VerdictInv, VerdictPending, EndsWith, Agreed
    <3> QED
      BY <3>1, <3>2, VerdictKept, PendingKept
  <2> QED
    BY <1>7, <2>1, <2>2, <2>3 DEF Marker
<1>8. ASSUME NEW r \in Runs, MarkFails(r) PROVE VerdictPending' /\ VerdictAgreement'
  <2>1. /\ mark'[r] = "done" /\ task' = task /\ Fault
        /\ \A q \in Runs \ {r} : mark'[q] = mark[q]
    BY <1>8, <1>t DEF MarkFails, TypeOK
  <2>2. \A q \in Runs \ {r} : log'[q] = log[q]
    BY <1>8, <1>t DEF MarkFails, store, AppendEvent, SetStatus, TypeOK
  <2>3. task[r] \notin PendingPcs
    BY <1>8 DEF MarkFails, VerdictInv, TrackInv, TasksTracked, Alive, AlivePcs, ReadPcs,
       WritePcs, PendingPcs
  <2> QED
    BY <2>1, <2>2, <2>3, <1>t, VerdictFault, PendingKept
<1>9. CASE GraceEnds
  <2>1. \A q \in Runs : mark'[q] = mark[q] \/ mark'[q] = "cancel"
    BY <1>9 DEF GraceEnds
  <2> QED
    BY <1>9, <2>1, <1>s, VerdictKept, PendingKept DEF GraceEnds, Settled
<1>10. CASE BeginShutdown \/ GatherReturns \/ ShutdownEnds \/ Restart \/ UNCHANGED vars
  BY <1>10, <1>s, VerdictKept, PendingKept
     DEF BeginShutdown, GatherReturns, ShutdownEnds, Restart, vars
<1>11. CASE Crash
  <2>1. \A q \in Runs : /\ task'[q] = task[q] \/ task'[q] = "killed"
                        /\ mark'[q] \in {"none", "done"}
    BY <1>11 DEF Crash
  <2> QED
    BY <1>11, <2>1, <1>s, <1>t, VerdictFault, PendingKept DEF Crash, PendingPcs
<1>12. CASE Tick
  <2>1. \A q \in Runs : record'[q] = record[q] \/ record'[q] = "absent"
    BY <1>12 DEF Tick
  <2> QED
    BY <1>12, <2>1, VerdictKept, PendingKept DEF Tick, Settled
<1> QED
  BY <1>1, <1>2, <1>3, <1>4, <1>5, <1>6, <1>7, <1>8, <1>9, <1>10, <1>11, <1>12
     DEF Next, Shutdown

(* A client that polls GET /runs/{id} and one that reads the stream to its *)
(* end get the same outcome of a run nobody will touch again, for any runs *)
(* and any interleaving of runner and shutdown without a fault.            *)
THEOREM PollerAndReaderAgree == Spec => []VerdictAgreement
<1>1. Init => VerdictInv
  BY TypeInit, TrackInit DEF Init, VerdictInv, TrackInv, VerdictPending, VerdictAgreement
<1>2. VerdictInv /\ [Next]_vars => VerdictInv'
  BY TypeStep, TrackStep, VerdictStep DEF VerdictInv, TrackInv
<1>3. VerdictInv => VerdictAgreement
  BY DEF VerdictInv
<1> QED
  BY <1>1, <1>2, <1>3, PTL DEF Spec

-----------------------------------------------------------------------------
(* The compositor.                                                         *)

(* The initial state is well typed.                                        *)
LEMMA LayersTypeInit == LayersInit => LayersTypeOK
<1> SUFFICES ASSUME LayersInit PROVE LayersTypeOK
  OBVIOUS
<1>1. state \in [Layers -> Stored \cup {"active"}] /\ saved \in [Layers -> Stored]
  BY DEF LayersInit, Stored
<1>2. intent \in [Layers -> Intents] /\ signals \in [Layers -> Intents]
  BY DEF LayersInit, Intents
<1>3. pos \in 0..N /\ runs \in Nat
  BY LayersAssumption DEF LayersInit
<1>4. raised \in BOOLEAN /\ troubled \in BOOLEAN
  BY DEF LayersInit
<1> QED
  BY <1>1, <1>2, <1>3, <1>4 DEF LayersInit, LayersTypeOK

(* Once the first slot has left its active state no slot is active, so     *)
(* what is stored is a snapshot.                                           *)
LEMMA EndState ==
  ASSUME LayersShapeInv, phase = "close", pos = 1
  PROVE  state \in [Layers -> Stored]
<1>1. \A i \in Layers : state[i] # "active"
  BY LayersAssumption DEF LayersShapeInv, RunShape, Layers
<1> QED
  BY <1>1 DEF LayersShapeInv, LayersTypeOK, Stored

(* Every step keeps the types.                                             *)
LEMMA LayersTypeStep == LayersShapeInv /\ [LayersNext]_layersVars => LayersTypeOK'
<1> SUFFICES ASSUME LayersShapeInv, [LayersNext]_layersVars PROVE LayersTypeOK'
  OBVIOUS
<1>0. LayersTypeOK
  BY DEF LayersShapeInv
<1> USE <1>0, LayersAssumption DEF LayersTypeOK, Layers, Stored, Intents
<1>1. ASSUME NEW plan \in [Layers -> Intents], Begin(plan) PROVE LayersTypeOK'
  <2>1. state' \in [Layers -> Stored \cup {"active"}] /\ saved' \in [Layers -> Stored]
    BY <1>1 DEF Begin
  <2>2. intent' \in [Layers -> Intents] /\ signals' \in [Layers -> Intents]
    BY <1>1 DEF Begin
  <2>3. raised' \in BOOLEAN /\ troubled' \in BOOLEAN
    BY <1>1 DEF Begin
  <2>4. pos' \in Layers /\ pos' \in 0..N /\ runs' \in Nat
    BY <1>1 DEF Begin
  <2> QED
    BY <1>1, <2>1, <2>2, <2>3, <2>4 DEF Begin
<1>2. CASE RejectSnapshot
  BY <1>2 DEF RejectSnapshot, errors
<1>3. CASE OpenScope
  BY <1>3 DEF OpenScope, errors, session
<1>4. CASE OpenFails
  BY <1>4 DEF OpenFails
<1>5. CASE EnterHook
  BY <1>5 DEF EnterHook, ApplyExitSignals, errors, session
<1>6. CASE EnterHookFails
  BY <1>6 DEF EnterHookFails, session
<1>7. CASE AbortScope
  BY <1>7 DEF AbortScope, errors
<1>8. CASE BodyReturns
  BY <1>8 DEF BodyReturns, errors, session
<1>9. CASE BodyRaises
  BY <1>9 DEF BodyRaises, session
<1>10. CASE ExitHook
  BY <1>10 DEF ExitHook, LeftState, errors, session
<1>11. CASE ExitHookFails
  BY <1>11 DEF ExitHookFails, LeftState, First, session
<1>12. ASSUME NEW hook, phase = "close", Leave(hook),
              passing' \in {"none", "enter", "body", "hook", "scope"},
              hookError' \in {"none", "hook", "scope"}, raised' \in BOOLEAN
       PROVE  LayersTypeOK'
  <2>1. CASE pos = 1
    <3>1. saved' \in [Layers -> Stored]
      BY <1>12, <2>1, EndState DEF Leave, Finish, StoreSnapshot
    <3>2. troubled' \in BOOLEAN /\ outcome' \in {"none", "ok", "error"} /\ phase' = "idle"
      BY <1>12, <2>1 DEF Leave, Finish, StoreSnapshot
    <3> QED
      BY <1>12, <2>1, <3>1, <3>2 DEF Leave
  <2>2. CASE pos # 1
    <3>1. pos' \in 0..N /\ pos' \in Layers /\ phase' = "leave"
      BY <1>12, <2>2 DEF Leave
    <3> QED
      BY <1>12, <2>2, <3>1 DEF Leave
  <2> QED
    BY <2>1, <2>2
<1>13. CASE CloseScope \/ CloseScopeFails
  BY <1>12, <1>13 DEF CloseScope, CloseScopeFails, First
<1>14. CASE UNCHANGED layersVars
  BY <1>14 DEF layersVars, errors, session
<1> QED
  BY <1>1, <1>2, <1>3, <1>4, <1>5, <1>6, <1>7, <1>8, <1>9, <1>10, <1>11, <1>12,
     <1>13, <1>14 DEF LayersNext

-----------------------------------------------------------------------------
(* Every step keeps the shape of the run.                                  *)
LEMMA LayersShapeStep == LayersShapeInv /\ [LayersNext]_layersVars => RunShape'
<1> SUFFICES ASSUME LayersShapeInv, [LayersNext]_layersVars PROVE RunShape'
  OBVIOUS
<1>0. LayersTypeOK /\ RunShape
  BY DEF LayersShapeInv
<1> USE <1>0, LayersAssumption DEF LayersTypeOK, RunShape, Layers, Stored
<1>1. ASSUME NEW plan \in [Layers -> Intents], Begin(plan) PROVE RunShape'
  BY <1>1 DEF Begin
<1>2. CASE RejectSnapshot
  BY <1>2 DEF RejectSnapshot
<1>3. CASE OpenScope
  BY <1>3 DEF OpenScope
<1>4. CASE OpenFails
  BY <1>4 DEF OpenFails
<1>5. CASE EnterHook
  BY <1>5 DEF EnterHook, ApplyExitSignals
<1>6. CASE EnterHookFails
  BY <1>6 DEF EnterHookFails
<1>7. CASE AbortScope
  BY <1>7 DEF AbortScope
<1>8. CASE BodyReturns
  BY <1>8 DEF BodyReturns
<1>9. CASE BodyRaises
  BY <1>9 DEF BodyRaises
<1>10. CASE ExitHook
  BY <1>10 DEF ExitHook, LeftState
<1>11. CASE ExitHookFails
  BY <1>11 DEF ExitHookFails, LeftState
<1>12. ASSUME NEW hook, phase = "close", Leave(hook) PROVE RunShape'
  BY <1>12 DEF Leave, Finish
<1>13. CASE CloseScope
  BY <1>13, <1>12 DEF CloseScope
<1>14. CASE CloseScopeFails
  BY <1>14, <1>12 DEF CloseScopeFails
<1>15. CASE UNCHANGED layersVars
  BY <1>15 DEF layersVars
<1> QED
  BY <1>1, <1>2, <1>3, <1>4, <1>5, <1>6, <1>7, <1>8, <1>9, <1>10, <1>11, <1>13,
     <1>14, <1>15 DEF LayersNext

(* No slot is active and no scope open at the start.                       *)
LEMMA LayersShapeInit == LayersInit => LayersShapeInv
<1> SUFFICES ASSUME LayersInit PROVE RunShape
  BY LayersTypeInit DEF LayersShapeInv
<1> QED
  BY DEF LayersInit, RunShape

(* Types and shape hold of every reachable state of the compositor.        *)
THEOREM LayersShapeCorrect == LayersSpec => []LayersShapeInv
<1>1. LayersShapeInv /\ [LayersNext]_layersVars => LayersShapeInv'
  BY LayersTypeStep, LayersShapeStep DEF LayersShapeInv
<1> QED
  BY LayersShapeInit, <1>1, PTL DEF LayersSpec

(* Every variable of the compositor stays within its type.                 *)
THEOREM LayersTypeCorrect == LayersSpec => []LayersTypeOK
<1>1. LayersShapeInv => LayersTypeOK
  BY DEF LayersShapeInv
<1> QED
  BY LayersShapeCorrect, <1>1, PTL

(* The resource scopes of _enter_slot and _exit_resource_context nest, for *)
(* any number of layers and whatever hook, scope or body raises.           *)
THEOREM ScopesAlwaysNest == LayersSpec => []ScopesNest
<1>1. LayersShapeInv => ScopesNest
  <2> SUFFICES ASSUME LayersShapeInv, NEW i \in Layers
               PROVE  /\ state[i] = "active" => i \in scope
                      /\ i \in scope => \A j \in 1..(i - 1) : j \in scope /\ state[j] = "active"
    BY DEF ScopesNest
  <2> USE LayersAssumption DEF Layers
  <2>1. CASE phase = "idle"
    BY <2>1 DEF LayersShapeInv, RunShape
  <2>2. CASE phase = "open"
    BY <2>2 DEF LayersShapeInv, RunShape, LayersTypeOK
  <2>3. CASE phase \in {"enter", "abort", "close"}
    BY <2>3 DEF LayersShapeInv, RunShape, LayersTypeOK
  <2>4. CASE phase = "body"
    BY <2>4 DEF LayersShapeInv, RunShape
  <2>5. CASE phase = "leave"
    BY <2>5 DEF LayersShapeInv, RunShape, LayersTypeOK
  <2> QED
    BY <2>1, <2>2, <2>3, <2>4, <2>5 DEF LayersShapeInv, LayersTypeOK
<1> QED
  BY LayersShapeCorrect, <1>1, PTL

(* A run that is over, by whichever of its error paths, has released every *)
(* resource scope and has no active layer left.                            *)
THEOREM NothingLeaks == LayersSpec => []NothingLeftOpen
<1>1. LayersShapeInv => NothingLeftOpen
  BY DEF LayersShapeInv, RunShape, NothingLeftOpen
<1> QED
  BY LayersShapeCorrect, <1>1, PTL

-----------------------------------------------------------------------------
(* Every step records what raises.                                         *)
LEMMA ErrorStep == LayersTypeOK /\ ErrorsRecorded /\ [LayersNext]_layersVars => ErrorsRecorded'
<1> SUFFICES ASSUME LayersTypeOK, ErrorsRecorded, [LayersNext]_layersVars PROVE ErrorsRecorded'
  OBVIOUS
<1> USE DEF LayersTypeOK, ErrorsRecorded, FailureReported
<1>1. ASSUME NEW plan \in [Layers -> Intents], Begin(plan) PROVE ErrorsRecorded'
  BY <1>1 DEF Begin
<1>2. CASE RejectSnapshot
  BY <1>2 DEF RejectSnapshot, errors
<1>3. CASE OpenScope
  BY <1>3 DEF OpenScope, errors
<1>4. CASE OpenFails
  BY <1>4 DEF OpenFails
<1>5. CASE EnterHook
  BY <1>5 DEF EnterHook, ApplyExitSignals, errors
<1>6. CASE EnterHookFails
  BY <1>6 DEF EnterHookFails
<1>7. CASE AbortScope
  BY <1>7 DEF AbortScope, errors
<1>8. CASE BodyReturns
  BY <1>8 DEF BodyReturns, errors
<1>9. CASE BodyRaises
  BY <1>9 DEF BodyRaises
<1>10. CASE ExitHook
  BY <1>10 DEF ExitHook, errors
<1>11. CASE ExitHookFails
  BY <1>11 DEF ExitHookFails, First
<1>12. CASE CloseScope
  BY <1>12 DEF CloseScope, Leave, Finish
<1>13. CASE CloseScopeFails
  BY <1>13 DEF CloseScopeFails, Leave, Finish, First
<1>14. CASE UNCHANGED layersVars
  BY <1>14 DEF layersVars, errors, session
<1> QED
  BY <1>1, <1>2, <1>3, <1>4, <1>5, <1>6, <1>7, <1>8, <1>9, <1>10, <1>11, <1>12,
     <1>13, <1>14 DEF LayersNext

(* What raises is recorded in every reachable state.                       *)
THEOREM ErrorsAlwaysRecorded == LayersSpec => []ErrorsRecorded
<1>1. LayersInit => ErrorsRecorded
  BY DEF LayersInit, ErrorsRecorded, FailureReported
<1> QED
  BY LayersTypeCorrect, <1>1, ErrorStep, PTL DEF LayersSpec

(* A run in which anything raised does not end as a success.               *)
THEOREM NoFailureLost == LayersSpec => []FailureReported
<1>1. ErrorsRecorded => FailureReported
  BY DEF ErrorsRecorded
<1> QED
  BY ErrorsAlwaysRecorded, <1>1, PTL

(* Every scope closed after an error sees one.                             *)
THEOREM EveryScopeSees == LayersSpec => []ScopeSeesFailure
<1>1. ErrorsRecorded => ScopeSeesFailure
  BY DEF ErrorsRecorded, ScopeSeesFailure
<1> QED
  BY ErrorsAlwaysRecorded, <1>1, PTL

-----------------------------------------------------------------------------
(* The stored snapshot and what the layers hold outside the process.       *)

(* An exit leaves the slot in the state that says what it still holds.     *)
LEMMA HeldAfterExit ==
  ASSUME LayersShapeInv, phase = "leave", ExitHook,
         held = {i \in Layers : state[i] \in {"active", "suspended"}}
  PROVE  held' = {i \in Layers : state'[i] \in {"active", "suspended"}}
<1>1. pos \in Layers /\ state[pos] = "active"
  BY DEF LayersShapeInv, LayersTypeOK, RunShape, Layers
<1>2. /\ state'[pos] = LeftState(pos)
      /\ \A i \in Layers \ {pos} : state'[i] = state[i]
  BY <1>1 DEF ExitHook, LayersShapeInv, LayersTypeOK
<1>3. CASE intent[pos] = "delete"
  BY <1>1, <1>2, <1>3 DEF ExitHook, LeftState
<1>4. CASE intent[pos] # "delete"
  <2>1. LeftState(pos) = "suspended"
    BY <1>1, <1>4 DEF LeftState, LayersShapeInv, LayersTypeOK, Intents
  <2> QED
    BY <1>1, <1>2, <1>4, <2>1 DEF ExitHook
<1> QED
  BY <1>3, <1>4

(* The end of a run: either it succeeded, nothing raised in it and what it *)
(* stores is what is held, or the session is in trouble.                   *)
LEMMA WorldLeave ==
  ASSUME LayersShapeInv, ErrorsRecorded, WorldTracked, phase = "close", NEW hook, Leave(hook),
         raised' \in BOOLEAN, ~raised' => ~raised, raised' => wrapped # "none" \/ hook # "none"
  PROVE  WorldTracked'
<1>1. CASE pos = 1
  <2>1. phase' = "idle" /\ held' = held
    BY <1>1 DEF Leave, Finish
  <2>2. ASSUME ~troubled' PROVE held = {i \in Layers : saved'[i] = "suspended"}
    <3>1. saved' = state /\ ~troubled /\ ~raised
      BY <1>1, <2>2 DEF Leave, Finish, StoreSnapshot
    <3>2. held = {i \in Layers : state[i] \in {"active", "suspended"}}
      BY <3>1 DEF WorldTracked
    <3>3. \A i \in Layers : state[i] # "active"
      BY <1>1, LayersAssumption DEF LayersShapeInv, RunShape, Layers
    <3> QED
      BY <3>1, <3>2, <3>3
  <2> QED
    BY <2>1, <2>2 DEF WorldTracked, SnapshotMatchesWorld
<1>2. CASE pos # 1
  BY <1>2 DEF Leave, WorldTracked, SnapshotMatchesWorld
<1> QED
  BY <1>1, <1>2

(* Every step keeps track of what the layers hold.                         *)
LEMMA WorldStep == LayersShapeInv /\ ErrorsRecorded /\ WorldTracked /\ [LayersNext]_layersVars => WorldTracked'
<1> SUFFICES ASSUME LayersShapeInv, ErrorsRecorded, WorldTracked, [LayersNext]_layersVars PROVE WorldTracked'
  OBVIOUS
<1>0. LayersTypeOK /\ RunShape
  BY DEF LayersShapeInv
<1> USE DEF WorldTracked, SnapshotMatchesWorld
<1>1. ASSUME NEW plan \in [Layers -> Intents], Begin(plan) PROVE WorldTracked'
  <2>1. \A i \in Layers : saved[i] = "suspended" <=> saved[i] \in {"active", "suspended"}
    BY <1>1 DEF Begin
  <2> QED
    BY <1>1, <2>1 DEF Begin
<1>2. CASE RejectSnapshot
  BY <1>2 DEF RejectSnapshot, errors
<1>3. CASE OpenScope
  BY <1>3 DEF OpenScope, errors, session
<1>4. CASE OpenFails
  BY <1>4 DEF OpenFails
<1>5. CASE EnterHook
  <2>1. pos \in Layers /\ state[pos] \in {"new", "suspended"}
    BY <1>0, <1>5 DEF EnterHook, LayersTypeOK
  <2>2. /\ state'[pos] = "active"
        /\ \A i \in Layers \ {pos} : state'[i] = state[i]
    BY <1>0, <1>5, <2>1 DEF EnterHook, LayersTypeOK
  <2>3. phase' # "idle" /\ phase # "idle" /\ UNCHANGED <<saved, troubled, raised>>
    BY <1>5 DEF EnterHook, errors, session
  <2>4. held' = IF state[pos] = "new" THEN held \cup {pos} ELSE held
    BY <1>5 DEF EnterHook
  <2> QED
    BY <2>1, <2>2, <2>3, <2>4
<1>6. CASE EnterHookFails
  BY <1>6 DEF EnterHookFails, session
<1>7. CASE AbortScope
  BY <1>7 DEF AbortScope, errors, ErrorsRecorded
<1>8. CASE BodyReturns
  BY <1>8 DEF BodyReturns, errors, session
<1>9. CASE BodyRaises
  BY <1>9 DEF BodyRaises, session
<1>10. CASE ExitHook
  <2>1. phase = "leave" /\ phase' = "close" /\ UNCHANGED <<saved, troubled, raised>>
    BY <1>10 DEF ExitHook, errors, session
  <2> QED
    BY <1>10, <2>1, HeldAfterExit
<1>11. CASE ExitHookFails
  BY <1>11 DEF ExitHookFails, session
<1>12. CASE CloseScope
  BY <1>0, <1>12, WorldLeave DEF CloseScope, LayersTypeOK, ErrorsRecorded
<1>13. CASE CloseScopeFails
  <2>1. hookError' # "none" /\ raised' = TRUE /\ phase = "close"
    BY <1>0, <1>13 DEF CloseScopeFails, First, LayersTypeOK
  <2>2. PICK hook : hook = hookError'
    OBVIOUS
  <2>3. Leave(hook)
    BY <1>13, <2>2 DEF CloseScopeFails
  <2> QED
    BY <2>1, <2>2, <2>3, WorldLeave
<1>14. CASE UNCHANGED layersVars
  BY <1>14 DEF layersVars, errors, session
<1> QED
  BY <1>1, <1>2, <1>3, <1>4, <1>5, <1>6, <1>7, <1>8, <1>9, <1>10, <1>11, <1>12,
     <1>13, <1>14 DEF LayersNext

(* What the layers hold is tracked in every reachable state.               *)
THEOREM WorldAlwaysTracked == LayersSpec => []WorldTracked
<1>1. LayersInit => WorldTracked
  BY DEF LayersInit, WorldTracked, SnapshotMatchesWorld
<1> QED
  BY LayersShapeCorrect, ErrorsAlwaysRecorded, <1>1, WorldStep, PTL DEF LayersSpec

(* While no run failed and no answer was lost, the stored session snapshot *)
(* says exactly which layers still own something outside the process: for  *)
(* any number of layers, exit policies and runs.                           *)
THEOREM SnapshotKnowsWorld == LayersSpec => []SnapshotMatchesWorld
<1>1. WorldTracked => SnapshotMatchesWorld
  BY DEF WorldTracked
<1> QED
  BY WorldAlwaysTracked, <1>1, PTL

(* _ensure_layers_can_enter keeps every run out of a session that has a    *)
(* closed layer, before a hook or a resource scope is touched.             *)
THEOREM ClosedSessionStaysClosed == LayersSpec => []ClosedSessionUntouched
<1>1. LayersShapeInv /\ WorldTracked => ClosedSessionUntouched
  BY DEF LayersShapeInv, RunShape, WorldTracked, ClosedSessionUntouched
<1> QED
  BY LayersShapeCorrect, WorldAlwaysTracked, <1>1, PTL
=============================================================================
