---------------------------- MODULE TenantTaskQueue ----------------------------
(***************************************************************************)
(* The per-tenant waiting queue that keeps one tenant's indexing work from *)
(* flooding the Celery workers (api/core/rag/pipeline/queue.py), the proxy *)
(* that submits to it (api/services/document_indexing_proxy) and the       *)
(* Celery task that drains it when it ends                                 *)
(* (api/tasks/document_indexing_task.py).                                  *)
(*                                                                         *)
(* One tenant and one queue name are modelled.  Every Redis command is one *)
(* step, because submitters and workers are different processes and        *)
(* nothing spans two commands.  A task stands for its own submitter (the   *)
(* API request that sends it) and for its own Celery worker invocation.    *)
(***************************************************************************)
EXTENDS Naturals, Sequences, FiniteSets

CONSTANTS
    Tasks,            \* the indexing tasks of the tenant
    Concurrency,      \* dify_config.TENANT_ISOLATED_TASK_CONCURRENCY
    MaxDisruptions    \* bound on crashes and failed deliveries

ASSUME ConcurrencyAssumption == Concurrency \in Nat \ {0}
ASSUME DisruptionAssumption == MaxDisruptions \in Nat

VARIABLES
    flag,         \* the Redis key tenant_<name>_task:<tenant>, TTL one hour
    queue,        \* the Redis list, head = next to be RPOPped
    submit,       \* submit[t]: how far the request submitting t has got
    worker,       \* worker[t]: how far the Celery invocation of t has got
    batch,        \* batch[t]: next_tasks pulled by t and not yet delivered
    disruptions,  \* crashes and delivery failures so far
    billing       \* features.billing.enabled of the deployment: isolation
                  \* only when TRUE

vars == <<flag, queue, submit, worker, batch, disruptions, billing>>

SubmitStates == {"new", "push", "set", "send", "sent", "pushed", "failed"}
WorkerStates == {"absent", "broker", "running", "pull", "dispatch", "apply",
                 "clear", "done", "lost"}

(* A worker invocation that Celery has accepted and that has not ended.    *)
Live(t) == worker[t] \notin {"absent", "done", "lost"}

Init ==
    /\ flag = FALSE
    /\ queue = <<>>
    /\ submit = [t \in Tasks |-> "new"]
    /\ worker = [t \in Tasks |-> "absent"]
    /\ batch = [t \in Tasks |-> <<>>]
    /\ disruptions = 0
    /\ billing \in BOOLEAN

-----------------------------------------------------------------------------
(* The submitting request: DocumentTaskProxyBase._dispatch and             *)
(* BatchDocumentIndexingProxy._send_to_tenant_queue.                       *)

(* Self-hosted: task_func.delay without touching the tenant queue.         *)
SendToDirectQueue(t) ==
    /\ ~billing
    /\ submit[t] = "new"
    /\ submit' = [submit EXCEPT ![t] = "sent"]
    /\ worker' = [worker EXCEPT ![t] = "broker"]
    /\ UNCHANGED <<flag, queue, batch, disruptions, billing>>

(* get_task_key(): the branch is chosen here and acted on later.           *)
GetTaskKey(t) ==
    /\ billing
    /\ submit[t] = "new"
    /\ submit' = [submit EXCEPT ![t] = IF flag THEN "push" ELSE "set"]
    /\ UNCHANGED <<flag, queue, worker, batch, disruptions, billing>>

(* push_tasks(): LPUSH; the head of the model's queue is the list's right  *)
(* end, from which pull_tasks RPOPs.                                       *)
PushTask(t) ==
    /\ submit[t] = "push"
    /\ queue' = Append(queue, t)
    /\ submit' = [submit EXCEPT ![t] = "pushed"]
    /\ UNCHANGED <<flag, worker, batch, disruptions, billing>>

(* set_task_waiting_time(): SETEX with the default TTL.                    *)
SetTaskWaitingTime(t) ==
    /\ submit[t] = "set"
    /\ flag' = TRUE
    /\ submit' = [submit EXCEPT ![t] = "send"]
    /\ UNCHANGED <<queue, worker, batch, disruptions, billing>>

(* task_func.delay() reaches the broker.                                   *)
DelayTask(t) ==
    /\ submit[t] = "send"
    /\ submit' = [submit EXCEPT ![t] = "sent"]
    /\ worker' = [worker EXCEPT ![t] = "broker"]
    /\ UNCHANGED <<flag, queue, batch, disruptions, billing>>

(* The request fails between two of its Redis and broker calls: a key it   *)
(* has already set stays.                                                  *)
SubmitFails(t) ==
    /\ disruptions < MaxDisruptions
    /\ submit[t] \in {"push", "set", "send"}
    /\ submit' = [submit EXCEPT ![t] = "failed"]
    /\ disruptions' = disruptions + 1
    /\ UNCHANGED <<flag, queue, worker, batch, billing>>

-----------------------------------------------------------------------------
(* The Celery worker: _document_indexing_with_tenant_queue.                *)

(* Celery hands the message to a worker and acknowledges it.               *)
BeginIndexing(t) ==
    /\ worker[t] = "broker"
    /\ worker' = [worker EXCEPT ![t] = "running"]
    /\ UNCHANGED <<flag, queue, submit, batch, disruptions, billing>>

(* A drain outside the finally block: an indexing that raises skips it.    *)
EndIndexingSkipsDrain(t) ==
    /\ worker[t] = "running"
    /\ \E outcome \in {"pull", "done"} :
          worker' = [worker EXCEPT ![t] = outcome]
    /\ UNCHANGED <<flag, queue, submit, batch, disruptions, billing>>

(* _document_indexing returns or raises; the finally block starts.         *)
EndIndexing(t) ==
    /\ worker[t] = "running"
    /\ worker' = [worker EXCEPT ![t] = "pull"]
    /\ UNCHANGED <<flag, queue, submit, batch, disruptions, billing>>

(* pull_tasks() without the RPOP removing what it returns.                 *)
PeekTask(t) ==
    /\ worker[t] = "pull"
    /\ queue # <<>>
    /\ Len(batch[t]) < Concurrency
    /\ batch' = [batch EXCEPT ![t] = Append(@, Head(queue))]
    /\ UNCHANGED <<flag, queue, submit, worker, disruptions, billing>>

(* pull_tasks(): one RPOP of at most Concurrency.                          *)
PullTask(t) ==
    /\ worker[t] = "pull"
    /\ queue # <<>>
    /\ Len(batch[t]) < Concurrency
    /\ batch' = [batch EXCEPT ![t] = Append(@, Head(queue))]
    /\ queue' = Tail(queue)
    /\ UNCHANGED <<flag, submit, worker, disruptions, billing>>

(* A finally block that dispatches what it pulled and never clears.        *)
PullReturnsNeverClears(t) ==
    /\ worker[t] = "pull"
    /\ queue = <<>> \/ Len(batch[t]) = Concurrency
    /\ worker' = [worker EXCEPT
                    ![t] = IF batch[t] = <<>> THEN "done" ELSE "dispatch"]
    /\ UNCHANGED <<flag, queue, submit, batch, disruptions, billing>>

(* pull_tasks() returns: the count is reached or an RPOP found nothing.    *)
PullReturns(t) ==
    /\ worker[t] = "pull"
    /\ queue = <<>> \/ Len(batch[t]) = Concurrency
    /\ worker' = [worker EXCEPT
                    ![t] = IF batch[t] = <<>> THEN "clear" ELSE "dispatch"]
    /\ UNCHANGED <<flag, queue, submit, batch, disruptions, billing>>

(* set_task_waiting_time() before each delivery.                           *)
KeepFlag(t) ==
    /\ worker[t] = "dispatch"
    /\ flag' = TRUE
    /\ worker' = [worker EXCEPT ![t] = "apply"]
    /\ UNCHANGED <<queue, submit, batch, disruptions, billing>>

(* task_func.apply_async() for the next pulled task.                       *)
ApplyAsync(t) ==
    /\ worker[t] = "apply"
    /\ LET next == Head(batch[t])
       IN  worker' = [worker EXCEPT
                        ![t] = IF Tail(batch[t]) = <<>> THEN "done"
                                                        ELSE "dispatch",
                        ![next] = "broker"]
    /\ batch' = [batch EXCEPT ![t] = Tail(@)]
    /\ UNCHANGED <<flag, queue, submit, disruptions, billing>>

(* delete_task_key(): nothing was pulled.                                  *)
DeleteTaskKey(t) ==
    /\ worker[t] = "clear"
    /\ flag' = FALSE
    /\ worker' = [worker EXCEPT ![t] = "done"]
    /\ UNCHANGED <<queue, submit, batch, disruptions, billing>>

(* The worker process dies, or apply_async raises: the rest of the finally *)
(* block never runs, and a batch already RPOPped goes with it.             *)
WorkerLost(t) ==
    /\ disruptions < MaxDisruptions
    /\ worker[t] \in {"running", "pull", "dispatch", "apply", "clear"}
    /\ worker' = [worker EXCEPT ![t] = "lost"]
    /\ disruptions' = disruptions + 1
    /\ UNCHANGED <<flag, queue, submit, batch, billing>>

(* The key's TTL runs out.                                                 *)
FlagExpires ==
    /\ flag
    /\ flag' = FALSE
    /\ UNCHANGED <<queue, submit, worker, batch, disruptions, billing>>

-----------------------------------------------------------------------------
Submitter(t) ==
    \/ SendToDirectQueue(t)
    \/ GetTaskKey(t)
    \/ PushTask(t)
    \/ SetTaskWaitingTime(t)
    \/ DelayTask(t)

Worker(t) ==
    \/ BeginIndexing(t)
    \/ EndIndexing(t)
    \/ PullTask(t)
    \/ PullReturns(t)
    \/ KeepFlag(t)
    \/ ApplyAsync(t)
    \/ DeleteTaskKey(t)

Next ==
    \/ \E t \in Tasks : Submitter(t)
    \/ \E t \in Tasks : SubmitFails(t)
    \/ \E t \in Tasks : Worker(t)
    \/ \E t \in Tasks : WorkerLost(t)
    \/ FlagExpires

(* A started request and an accepted invocation run on, and the indexing   *)
(* itself ends.  No request need arrive and no key need expire.            *)
Fairness ==
    /\ \A t \in Tasks : WF_vars(Worker(t))
    /\ \A t \in Tasks : WF_vars(PushTask(t) \/ SetTaskWaitingTime(t) \/ DelayTask(t))

Spec == Init /\ [][Next]_vars

FairSpec == Spec /\ Fairness

-----------------------------------------------------------------------------
(* Every variable holds a value the code can put there.                    *)
TypeOK ==
    /\ flag \in BOOLEAN
    /\ queue \in Seq(Tasks)
    /\ submit \in [Tasks -> SubmitStates]
    /\ worker \in [Tasks -> WorkerStates]
    /\ batch \in [Tasks -> Seq(Tasks)]
    /\ disruptions \in Nat
    /\ billing \in BOOLEAN

(* The key is never left set with nobody to delete it: while it is set,    *)
(* some request has yet to deliver its task, or some accepted invocation   *)
(* has its finally block ahead of it, unless a process died or a delivery  *)
(* failed.  A stale key would send every later task of the tenant to a     *)
(* queue nobody drains.                                                    *)
FlagHasOwner ==
    flag => \/ \E t \in Tasks : submit[t] = "send"
            \/ \E t \in Tasks : Live(t)
            \/ disruptions > 0

(* A worker that is delivering still has something to deliver.             *)
DeliveringNonEmpty ==
    \A t \in Tasks : worker[t] \in {"dispatch", "apply"} => batch[t] # <<>>

(* The inductive strengthening of FlagHasOwner.                            *)
FlagInv == TypeOK /\ DeliveringNonEmpty /\ FlagHasOwner

(* Where a task can be: slots of the Redis list, slots of pulled batches.  *)
Positions(t) == {i \in DOMAIN queue : queue[i] = t}
Held(t) == {p \in Tasks \X (1..Concurrency) :
                p[2] \in DOMAIN batch[p[1]] /\ batch[p[1]][p[2]] = t}
Delivered(t) == {w \in {t} : worker[w] # "absent"}

(* A pushed task is in exactly one place: waiting in the list, held once   *)
(* by one worker's pulled batch, or delivered to Celery.  Neither the      *)
(* RPOPs of two finishing workers nor a worker's death between RPOP and    *)
(* delivery doubles a task or drops one still in the list.                 *)
EachTaskInOnePlace ==
    \A t \in Tasks :
        submit[t] = "pushed" =>
            Cardinality(Positions(t)) + Cardinality(Held(t))
                + Cardinality(Delivered(t)) = 1

(* Why it holds, without counting: no two slots of the list and the        *)
(* batches hold the same task, and they hold exactly the pushed tasks that *)
(* have not been delivered.                                                *)
Undelivered(t) == submit[t] = "pushed" /\ worker[t] = "absent"
Occurs(s, t) == \E i \in DOMAIN s : s[i] = t
Distinct(s) == \A i, j \in DOMAIN s : s[i] = s[j] => i = j

SlotsDiffer ==
    /\ Distinct(queue) /\ \A w \in Tasks : Distinct(batch[w])
    /\ \A w, x, t \in Tasks : Occurs(batch[w], t) /\ Occurs(batch[x], t) => w = x
    /\ \A w, t \in Tasks : Occurs(batch[w], t) => ~Occurs(queue, t)

SlotsHoldUndelivered ==
    /\ \A t \in Tasks :
          Undelivered(t) <=> Occurs(queue, t) \/ \E w \in Tasks : Occurs(batch[w], t)
    /\ \A t \in Tasks : worker[t] # "absent" => submit[t] \in {"sent", "pushed"}
    /\ \A w \in Tasks : Len(batch[w]) <= Concurrency

PlaceInv == TypeOK /\ DeliveringNonEmpty /\ SlotsDiffer /\ SlotsHoldUndelivered

(* A task waiting while some invocation has not yet reached its finally    *)
(* block is pulled sooner or later, unless a process died on the way.      *)
WaitingTaskDrained ==
    \A t \in Tasks :
        ( /\ \E i \in DOMAIN queue : queue[i] = t
          /\ \E w \in Tasks : worker[w] \in {"broker", "running"} )
        ~> (Positions(t) = {} \/ disruptions > 0)

(* "No more waiting tasks, clear the flag" (document_indexing_task.py,     *)
(* line 231): the key is deleted only when the waiting list is empty.      *)
ClearsOnlyWhenDrained ==
    [][\A t \in Tasks : DeleteTaskKey(t) => queue = <<>>]_vars

(* "Number of tasks allowed to be delivered concurrently from isolated     *)
(* queue per tenant" (configs/feature/__init__.py, line 1460).             *)
DeliveredWithinConcurrency ==
    Cardinality({t \in Tasks : submit[t] = "pushed" /\ Live(t)}) <= Concurrency
=============================================================================
