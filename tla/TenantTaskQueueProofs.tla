-------------------------- MODULE TenantTaskQueueProofs --------------------------
(***************************************************************************)
(* The type invariant of TenantTaskQueue, the ownership of its waiting     *)
(* flag and the place of every pushed task, for any set of tasks and any   *)
(* concurrency.                                                            *)
(***************************************************************************)
EXTENDS TenantTaskQueue, FiniteSetTheorems, TLAPS

(* The initial state: no key, empty list, nobody delivering.               *)
LEMMA FlagInvInit == Init => FlagInv
<1> SUFFICES ASSUME Init PROVE FlagInv
  OBVIOUS
<1>1. TypeOK
  <2>1. flag \in BOOLEAN /\ disruptions \in Nat /\ billing \in BOOLEAN
    BY DEF Init
  <2>2. queue \in Seq(Tasks) /\ batch \in [Tasks -> Seq(Tasks)]
    BY DEF Init
  <2>3. submit \in [Tasks -> SubmitStates] /\ worker \in [Tasks -> WorkerStates]
    BY DEF Init, SubmitStates, WorkerStates
  <2> QED
    BY <2>1, <2>2, <2>3 DEF TypeOK
<1>2. DeliveringNonEmpty
  BY DEF Init, DeliveringNonEmpty
<1>3. FlagHasOwner
  BY DEF Init, FlagHasOwner
<1> QED
  BY <1>1, <1>2, <1>3 DEF FlagInv

(* The ends of a sequence of tasks are tasks and sequences of tasks.       *)
LEMMA Ends ==
  ASSUME NEW s \in Seq(Tasks), s # <<>>
  PROVE  Head(s) \in Tasks /\ Tail(s) \in Seq(Tasks)
  OBVIOUS

(* A submitter's step keeps the invariant: the request that sets the key   *)
(* owns it until its task is at the broker, where the invocation takes it. *)
LEMMA SubmitterStep ==
  ASSUME FlagInv, NEW t \in Tasks, Submitter(t)
  PROVE  FlagInv'
<1> USE DEF FlagInv, TypeOK, DeliveringNonEmpty, FlagHasOwner, SubmitStates, WorkerStates, Live
<1>1. CASE SendToDirectQueue(t)
  BY <1>1 DEF SendToDirectQueue
<1>2. CASE GetTaskKey(t)
  BY <1>2 DEF GetTaskKey
<1>3. CASE PushTask(t)
  BY <1>3 DEF PushTask
<1>4. CASE SetTaskWaitingTime(t)
  BY <1>4 DEF SetTaskWaitingTime
<1>5. CASE DelayTask(t)
  BY <1>5 DEF DelayTask
<1> QED
  BY <1>1, <1>2, <1>3, <1>4, <1>5 DEF Submitter

(* A worker's step keeps the invariant: a worker stops being live only by  *)
(* delivering a task, whose invocation takes the key over, or by deleting  *)
(* the key.                                                                *)
LEMMA WorkerStep ==
  ASSUME FlagInv, NEW t \in Tasks, Worker(t)
  PROVE  FlagInv'
<1> USE DEF FlagInv, TypeOK, DeliveringNonEmpty, FlagHasOwner, SubmitStates, WorkerStates, Live
<1>1. CASE BeginIndexing(t)
  BY <1>1 DEF BeginIndexing
<1>2. CASE EndIndexing(t)
  BY <1>2 DEF EndIndexing
<1>3. CASE PullTask(t)
  BY <1>3, Ends DEF PullTask
<1>4. CASE PullReturns(t)
  BY <1>4 DEF PullReturns
<1>5. CASE KeepFlag(t)
  BY <1>5 DEF KeepFlag
<1>6. CASE ApplyAsync(t)
  BY <1>6, Ends DEF ApplyAsync
<1>7. CASE DeleteTaskKey(t)
  BY <1>7 DEF DeleteTaskKey
<1> QED
  BY <1>1, <1>2, <1>3, <1>4, <1>5, <1>6, <1>7 DEF Worker

(* Every step keeps the invariant; a disruption is what may leave the key  *)
(* without an owner.                                                       *)
LEMMA FlagInvStep == FlagInv /\ [Next]_vars => FlagInv'
<1> SUFFICES ASSUME FlagInv, [Next]_vars PROVE FlagInv'
  OBVIOUS
<1>1. CASE \E t \in Tasks : Submitter(t)
  BY <1>1, SubmitterStep
<1>2. CASE \E t \in Tasks : Worker(t)
  BY <1>2, WorkerStep
<1>3. CASE \E t \in Tasks : SubmitFails(t)
  BY <1>3 DEF SubmitFails, FlagInv, TypeOK, DeliveringNonEmpty, FlagHasOwner, SubmitStates
<1>4. CASE \E t \in Tasks : WorkerLost(t)
  BY <1>4 DEF WorkerLost, FlagInv, TypeOK, DeliveringNonEmpty, FlagHasOwner, WorkerStates
<1>5. CASE FlagExpires
  BY <1>5 DEF FlagExpires, FlagInv, TypeOK, DeliveringNonEmpty, FlagHasOwner
<1>6. CASE UNCHANGED vars
  BY <1>6 DEF vars, FlagInv, TypeOK, DeliveringNonEmpty, FlagHasOwner, Live
<1> QED
  BY <1>1, <1>2, <1>3, <1>4, <1>5, <1>6 DEF Next

(* Every reachable state of the tenant queue is well typed.                *)
THEOREM TypeCorrect == Spec => []TypeOK
<1>1. FlagInv => TypeOK
  BY DEF FlagInv
<1> QED
  BY FlagInvInit, FlagInvStep, <1>1, PTL DEF Spec

(* For any number of tasks and any concurrency, the waiting key of the     *)
(* tenant is set only while a request is about to deliver, an invocation   *)
(* is live, or a process has failed.                                       *)
THEOREM FlagOwned == Spec => []FlagHasOwner
<1>1. FlagInv => FlagHasOwner
  BY DEF FlagInv
<1> QED
  BY FlagInvInit, FlagInvStep, <1>1, PTL DEF Spec

-----------------------------------------------------------------------------
(* Every pushed task is in one place.                                      *)

(* LPUSH and list.append: the slots of a longer sequence.                  *)
LEMMA AppendSlots ==
  ASSUME NEW s \in Seq(Tasks), NEW t \in Tasks
  PROVE  /\ \A u \in Tasks : Occurs(Append(s, t), u) <=> Occurs(s, u) \/ u = t
         /\ Distinct(s) /\ ~Occurs(s, t) => Distinct(Append(s, t))
         /\ Len(Append(s, t)) = Len(s) + 1 /\ Append(s, t) \in Seq(Tasks)
<1>1. /\ Len(s) \in Nat /\ DOMAIN s = 1..Len(s)
      /\ DOMAIN Append(s, t) = 1..(Len(s) + 1)
      /\ Append(s, t)[Len(s) + 1] = t
      /\ \A i \in 1..Len(s) : Append(s, t)[i] = s[i]
  OBVIOUS
<1>2. \A i \in 1..(Len(s) + 1) : i \in 1..Len(s) \/ i = Len(s) + 1
  BY <1>1
<1>3. \A u \in Tasks : Occurs(Append(s, t), u) <=> Occurs(s, u) \/ u = t
  BY <1>1, <1>2 DEF Occurs
<1>4. ASSUME Distinct(s), ~Occurs(s, t) PROVE Distinct(Append(s, t))
  BY <1>1, <1>2, <1>4 DEF Occurs, Distinct
<1> QED
  BY <1>3, <1>4

(* RPOP: what is taken out was there once and is gone.                     *)
LEMMA TailSlots ==
  ASSUME NEW s \in Seq(Tasks), s # <<>>, Distinct(s)
  PROVE  /\ Occurs(s, Head(s)) /\ Head(s) \in Tasks
         /\ \A u \in Tasks : Occurs(Tail(s), u) <=> Occurs(s, u) /\ u # Head(s)
         /\ Distinct(Tail(s))
         /\ Len(Tail(s)) = Len(s) - 1 /\ Tail(s) \in Seq(Tasks) /\ Len(s) \in Nat
<1>1. /\ Len(s) \in Nat /\ Len(s) >= 1 /\ DOMAIN s = 1..Len(s)
      /\ Head(s) = s[1] /\ Head(s) \in Tasks
      /\ DOMAIN Tail(s) = 1..(Len(s) - 1)
      /\ \A i \in 1..(Len(s) - 1) : Tail(s)[i] = s[i + 1]
      /\ Len(Tail(s)) = Len(s) - 1 /\ Tail(s) \in Seq(Tasks)
  OBVIOUS
<1>2. Occurs(s, Head(s))
  BY <1>1 DEF Occurs
<1>3. ASSUME NEW u \in Tasks, Occurs(Tail(s), u) PROVE Occurs(s, u) /\ u # Head(s)
  <2>1. PICK i \in 1..(Len(s) - 1) : s[i + 1] = u
    BY <1>1, <1>3 DEF Occurs
  <2>2. i + 1 \in DOMAIN s /\ i + 1 # 1 /\ 1 \in DOMAIN s
    BY <1>1
  <2> QED
    BY <1>1, <2>1, <2>2 DEF Occurs, Distinct
<1>4. ASSUME NEW u \in Tasks, Occurs(s, u), u # Head(s) PROVE Occurs(Tail(s), u)
  <2>1. PICK i \in 1..Len(s) : s[i] = u
    BY <1>1, <1>4 DEF Occurs
  <2>2. i - 1 \in 1..(Len(s) - 1) /\ (i - 1) + 1 = i
    BY <1>1, <1>4, <2>1
  <2>3. Tail(s)[i - 1] = u
    BY <1>1, <2>1, <2>2
  <2> QED
    BY <1>1, <2>2, <2>3 DEF Occurs
<1>5. Distinct(Tail(s))
  <2> SUFFICES ASSUME NEW i \in 1..(Len(s) - 1), NEW j \in 1..(Len(s) - 1),
                      Tail(s)[i] = Tail(s)[j]
               PROVE  i = j
    BY <1>1 DEF Distinct
  <2>1. s[i + 1] = s[j + 1] /\ i + 1 \in DOMAIN s /\ j + 1 \in DOMAIN s
    BY <1>1
  <2>2. i + 1 = j + 1
    BY <2>1 DEF Distinct
  <2> QED
    BY <2>2
<1> QED
  BY <1>1, <1>2, <1>3, <1>4, <1>5

(* A step that moves no task keeps every slot; only a task that is in none *)
(* may change what it is doing.                                            *)
LEMMA PlaceKept ==
  ASSUME PlaceInv, UNCHANGED <<queue, batch>>,
         \A t \in Tasks : Undelivered(t)' <=> Undelivered(t),
         \A t \in Tasks : worker'[t] # "absent" => submit'[t] \in {"sent", "pushed"}
  PROVE  SlotsDiffer' /\ SlotsHoldUndelivered'
  BY DEF PlaceInv, SlotsDiffer, SlotsHoldUndelivered

(* LPUSH: a task nobody holds gets a slot of its own.                      *)
LEMMA PlacePush ==
  ASSUME PlaceInv, NEW t \in Tasks, PushTask(t)
  PROVE  SlotsDiffer' /\ SlotsHoldUndelivered'
<1>1. /\ queue \in Seq(Tasks) /\ queue' = Append(queue, t)
      /\ batch' = batch /\ worker' = worker
      /\ submit'[t] = "pushed" /\ submit[t] = "push"
      /\ \A u \in Tasks \ {t} : submit'[u] = submit[u]
  BY DEF PushTask, PlaceInv, TypeOK
<1>2. ~Occurs(queue, t) /\ (\A w \in Tasks : ~Occurs(batch[w], t)) /\ worker[t] = "absent"
  BY <1>1 DEF PlaceInv, SlotsHoldUndelivered, Undelivered
<1>3. /\ \A u \in Tasks : Occurs(queue', u) <=> Occurs(queue, u) \/ u = t
      /\ Distinct(queue')
  BY <1>1, <1>2, AppendSlots DEF PlaceInv, SlotsDiffer
<1>4. SlotsDiffer'
  BY <1>1, <1>2, <1>3 DEF PlaceInv, SlotsDiffer
<1>5. \A u \in Tasks : Undelivered(u)' <=> Undelivered(u) \/ u = t
  BY <1>1, <1>2 DEF Undelivered
<1>6. SlotsHoldUndelivered'
  BY <1>1, <1>3, <1>5 DEF PlaceInv, SlotsHoldUndelivered
<1> QED
  BY <1>4, <1>6

(* RPOP: the head of the list moves into the worker's batch.               *)
LEMMA PlacePull ==
  ASSUME PlaceInv, NEW t \in Tasks, PullTask(t)
  PROVE  SlotsDiffer' /\ SlotsHoldUndelivered'
<1>1. /\ queue \in Seq(Tasks) /\ queue # <<>> /\ batch[t] \in Seq(Tasks)
      /\ Distinct(queue) /\ Distinct(batch[t])
      /\ Len(batch[t]) < Concurrency
  BY DEF PullTask, PlaceInv, TypeOK, SlotsDiffer
<1>2. PICK h \in Tasks : h = Head(queue)
  BY <1>1, TailSlots
<1>3. /\ queue' = Tail(queue) /\ batch'[t] = Append(batch[t], h)
      /\ \A w \in Tasks \ {t} : batch'[w] = batch[w]
      /\ submit' = submit /\ worker' = worker
  BY <1>2 DEF PullTask, PlaceInv, TypeOK
<1>4. /\ Occurs(queue, h) /\ Distinct(queue')
      /\ \A u \in Tasks : Occurs(queue', u) <=> Occurs(queue, u) /\ u # h
  BY <1>1, <1>2, <1>3, TailSlots
<1>5. \A w \in Tasks : ~Occurs(batch[w], h)
  BY <1>4 DEF PlaceInv, SlotsDiffer
<1>6. /\ \A u \in Tasks : Occurs(batch'[t], u) <=> Occurs(batch[t], u) \/ u = h
      /\ Distinct(batch'[t])
      /\ Len(batch'[t]) = Len(batch[t]) + 1
  BY <1>1, <1>2, <1>3, <1>5, AppendSlots
<1>7. SlotsDiffer'
  <2>1. \A w \in Tasks : Distinct(batch'[w])
    BY <1>3, <1>6 DEF PlaceInv, SlotsDiffer
  <2>2. \A w, u \in Tasks : Occurs(batch'[w], u) <=> Occurs(batch[w], u) \/ (w = t /\ u = h)
    BY <1>3, <1>6
  <2>3. \A w, x, u \in Tasks : Occurs(batch'[w], u) /\ Occurs(batch'[x], u) => w = x
    BY <1>5, <2>2 DEF PlaceInv, SlotsDiffer
  <2>4. \A w, u \in Tasks : Occurs(batch'[w], u) => ~Occurs(queue', u)
    BY <1>4, <2>2 DEF PlaceInv, SlotsDiffer
  <2> QED
    BY <1>4, <2>1, <2>3, <2>4 DEF SlotsDiffer
<1>8. SlotsHoldUndelivered'
  <2>1. \A u \in Tasks : Undelivered(u)' <=> Undelivered(u)
    BY <1>3 DEF Undelivered
  <2>2. \A w, u \in Tasks : Occurs(batch'[w], u) <=> Occurs(batch[w], u) \/ (w = t /\ u = h)
    BY <1>3, <1>6
  <2>3. \A u \in Tasks : Undelivered(u)' <=>
             Occurs(queue', u) \/ \E w \in Tasks : Occurs(batch'[w], u)
    BY <1>4, <2>1, <2>2 DEF PlaceInv, SlotsHoldUndelivered
  <2>4. \A w \in Tasks : Len(batch'[w]) <= Concurrency
    BY <1>1, <1>3, <1>6, ConcurrencyAssumption DEF PlaceInv, SlotsHoldUndelivered
  <2> QED
    BY <1>3, <2>3, <2>4 DEF PlaceInv, SlotsHoldUndelivered
<1> QED
  BY <1>7, <1>8

(* apply_async: the first task of the batch leaves it for the broker.      *)
LEMMA PlaceApply ==
  ASSUME PlaceInv, NEW t \in Tasks, ApplyAsync(t)
  PROVE  SlotsDiffer' /\ SlotsHoldUndelivered'
<1>1. /\ batch[t] \in Seq(Tasks) /\ batch[t] # <<>> /\ Distinct(batch[t])
      /\ worker[t] = "apply"
  BY DEF ApplyAsync, PlaceInv, TypeOK, DeliveringNonEmpty, SlotsDiffer
<1>2. PICK h \in Tasks : h = Head(batch[t])
  BY <1>1, TailSlots
<1>3. Occurs(batch[t], h) /\ submit[h] = "pushed" /\ worker[h] = "absent"
  BY <1>1, <1>2, TailSlots DEF PlaceInv, SlotsHoldUndelivered, Undelivered
<1>4. /\ queue' = queue /\ submit' = submit /\ batch'[t] = Tail(batch[t])
      /\ \A w \in Tasks \ {t} : batch'[w] = batch[w]
      /\ worker'[h] = "broker" /\ worker'[t] # "absent"
      /\ \A u \in Tasks \ {t, h} : worker'[u] = worker[u]
  BY <1>1, <1>2, <1>3 DEF ApplyAsync, PlaceInv, TypeOK
<1>5. /\ \A u \in Tasks : Occurs(batch'[t], u) <=> Occurs(batch[t], u) /\ u # h
      /\ Distinct(batch'[t])
      /\ Len(batch'[t]) = Len(batch[t]) - 1 /\ Len(batch[t]) \in Nat
  BY <1>1, <1>2, <1>4, TailSlots
<1>6. \A w, u \in Tasks : Occurs(batch'[w], u) <=> Occurs(batch[w], u) /\ ~(w = t /\ u = h)
  BY <1>4, <1>5
<1>7. SlotsDiffer'
  <2>1. \A w \in Tasks : Distinct(batch'[w])
    BY <1>4, <1>5 DEF PlaceInv, SlotsDiffer
  <2> QED
    BY <1>4, <1>6, <2>1 DEF PlaceInv, SlotsDiffer
<1>8. SlotsHoldUndelivered'
  <2>1. \A u \in Tasks : Undelivered(u)' <=> Undelivered(u) /\ u # h
    BY <1>1, <1>3, <1>4 DEF Undelivered
  <2>2. ~Occurs(queue, h) /\ \A w \in Tasks : Occurs(batch[w], h) => w = t
    BY <1>3 DEF PlaceInv, SlotsDiffer
  <2>3. \A u \in Tasks : Undelivered(u)' <=>
             Occurs(queue', u) \/ \E w \in Tasks : Occurs(batch'[w], u)
    BY <1>4, <1>6, <2>1, <2>2 DEF PlaceInv, SlotsHoldUndelivered
  <2>4. \A w \in Tasks : Len(batch'[w]) <= Concurrency
    <3>1. \A w \in Tasks : Len(batch[w]) <= Concurrency
      BY DEF PlaceInv, SlotsHoldUndelivered
    <3>2. Len(batch'[t]) <= Concurrency
      BY <1>5, <3>1, ConcurrencyAssumption
    <3> QED
      BY <1>4, <3>1, <3>2
  <2>5. \A u \in Tasks : worker'[u] # "absent" => submit'[u] \in {"sent", "pushed"}
    BY <1>1, <1>3, <1>4 DEF PlaceInv, SlotsHoldUndelivered
  <2> QED
    BY <2>3, <2>4, <2>5 DEF SlotsHoldUndelivered
<1> QED
  BY <1>7, <1>8

(* Every step keeps every task in its place.                               *)
LEMMA PlaceStep == PlaceInv /\ [Next]_vars => SlotsDiffer' /\ SlotsHoldUndelivered'
<1> SUFFICES ASSUME PlaceInv, [Next]_vars PROVE SlotsDiffer' /\ SlotsHoldUndelivered'
  OBVIOUS
<1>1. ASSUME NEW t \in Tasks, Submitter(t) \/ SubmitFails(t)
      PROVE  SlotsDiffer' /\ SlotsHoldUndelivered'
  <2>1. CASE PushTask(t)
    BY <2>1, PlacePush
  <2>2. CASE SendToDirectQueue(t) \/ DelayTask(t)
    <3>1. /\ submit[t] \in {"new", "send"} /\ submit'[t] = "sent"
          /\ \A u \in Tasks \ {t} : submit'[u] = submit[u] /\ worker'[u] = worker[u]
          /\ UNCHANGED <<queue, batch>>
      BY <2>2 DEF SendToDirectQueue, DelayTask, PlaceInv, TypeOK
    <3>2. \A u \in Tasks : Undelivered(u)' <=> Undelivered(u)
      BY <3>1 DEF Undelivered
    <3>3. \A u \in Tasks : worker'[u] # "absent" => submit'[u] \in {"sent", "pushed"}
      BY <3>1 DEF PlaceInv, SlotsHoldUndelivered
    <3> QED
      BY <3>1, <3>2, <3>3, PlaceKept
  <2>3. CASE GetTaskKey(t) \/ SetTaskWaitingTime(t) \/ SubmitFails(t)
    <3>1. /\ submit[t] \in {"new", "push", "set", "send"}
          /\ submit'[t] \in {"push", "set", "send", "failed"}
          /\ \A u \in Tasks \ {t} : submit'[u] = submit[u]
          /\ UNCHANGED <<queue, batch, worker>>
      BY <2>3 DEF GetTaskKey, SetTaskWaitingTime, SubmitFails, PlaceInv, TypeOK
    <3>2. \A u \in Tasks : Undelivered(u)' <=> Undelivered(u)
      BY <3>1 DEF Undelivered
    <3>3. \A u \in Tasks : worker'[u] # "absent" => submit'[u] \in {"sent", "pushed"}
      BY <3>1 DEF PlaceInv, SlotsHoldUndelivered
    <3> QED
      BY <3>1, <3>2, <3>3, PlaceKept
  <2> QED
    BY <1>1, <2>1, <2>2, <2>3 DEF Submitter
<1>2. ASSUME NEW t \in Tasks, Worker(t) \/ WorkerLost(t)
      PROVE  SlotsDiffer' /\ SlotsHoldUndelivered'
  <2>1. CASE PullTask(t)
    BY <2>1, PlacePull
  <2>2. CASE ApplyAsync(t)
    BY <2>2, PlaceApply
  <2>3. CASE \/ BeginIndexing(t) \/ EndIndexing(t) \/ PullReturns(t) \/ KeepFlag(t)
             \/ DeleteTaskKey(t) \/ WorkerLost(t)
    <3>1. /\ worker[t] # "absent" /\ worker'[t] # "absent"
          /\ \A u \in Tasks \ {t} : worker'[u] = worker[u]
          /\ UNCHANGED <<queue, batch, submit>>
      BY <2>3 DEF BeginIndexing, EndIndexing, PullReturns, KeepFlag, DeleteTaskKey,
         WorkerLost, PlaceInv, TypeOK
    <3>2. \A u \in Tasks : Undelivered(u)' <=> Undelivered(u)
      BY <3>1 DEF Undelivered
    <3>3. \A u \in Tasks : worker'[u] # "absent" => submit'[u] \in {"sent", "pushed"}
      BY <3>1 DEF PlaceInv, SlotsHoldUndelivered
    <3> QED
      BY <3>1, <3>2, <3>3, PlaceKept
  <2> QED
    BY <1>2, <2>1, <2>2, <2>3 DEF Worker
<1>3. CASE FlagExpires \/ UNCHANGED vars
  <2>1. UNCHANGED <<queue, batch, submit, worker>>
    BY <1>3 DEF FlagExpires, vars
  <2> QED
    BY <2>1, PlaceKept DEF PlaceInv, SlotsHoldUndelivered, Undelivered
<1> QED
  BY <1>1, <1>2, <1>3 DEF Next

(* A sequence without repetitions has a task in one slot or in none.       *)
LEMMA SlotCount ==
  ASSUME NEW s, Distinct(s), NEW t
  PROVE  LET P == {i \in DOMAIN s : s[i] = t}
         IN  (~Occurs(s, t) => P = {}) /\ (Occurs(s, t) => \E i : P = {i})
<1>1. CASE ~Occurs(s, t)
  BY <1>1 DEF Occurs
<1>2. CASE Occurs(s, t)
  <2>1. PICK i \in DOMAIN s : s[i] = t
    BY <1>2 DEF Occurs
  <2>2. {k \in DOMAIN s : s[k] = t} = {i}
    BY <2>1 DEF Distinct
  <2> QED
    BY <1>2, <2>2
<1> QED
  BY <1>1, <1>2

(* The counts of a pushed task's places add up to one.                     *)
LEMMA PlaceCount == PlaceInv => EachTaskInOnePlace
<1> SUFFICES ASSUME PlaceInv, NEW t \in Tasks, submit[t] = "pushed"
             PROVE  Cardinality(Positions(t)) + Cardinality(Held(t))
                        + Cardinality(Delivered(t)) = 1
  BY DEF EachTaskInOnePlace
<1>1. Cardinality({}) = 0 /\ \A x : Cardinality({x}) = 1
  BY FS_EmptySet, FS_Singleton
<1>2. (~Occurs(queue, t) => Positions(t) = {}) /\ (Occurs(queue, t) => \E i : Positions(t) = {i})
  BY SlotCount DEF PlaceInv, SlotsDiffer, Positions
<1>3. (\A w \in Tasks : ~Occurs(batch[w], t)) => Held(t) = {}
  BY DEF Held, Occurs
<1>4. ASSUME NEW w \in Tasks, Occurs(batch[w], t) PROVE \E p : Held(t) = {p}
  <2>1. PICK i \in DOMAIN batch[w] : batch[w][i] = t
    BY <1>4 DEF Occurs
  <2>2. i \in 1..Concurrency
    <3>1. batch[w] \in Seq(Tasks) /\ Len(batch[w]) <= Concurrency
      BY DEF PlaceInv, TypeOK, SlotsHoldUndelivered
    <3> QED
      BY <2>1, <3>1, ConcurrencyAssumption
  <2>3. <<w, i>> \in Held(t)
    BY <2>1, <2>2 DEF Held
  <2>4. ASSUME NEW p \in Held(t) PROVE p = <<w, i>>
    <3>1. /\ p \in Tasks \X (1..Concurrency) /\ p[2] \in DOMAIN batch[p[1]]
          /\ batch[p[1]][p[2]] = t
      BY <2>4 DEF Held
    <3>2. p[1] \in Tasks /\ p = <<p[1], p[2]>>
      BY <3>1
    <3>3. p[1] = w
      BY <1>4, <3>1, <3>2 DEF PlaceInv, SlotsDiffer, Occurs
    <3>4. p[2] = i
      BY <2>1, <3>1, <3>3 DEF PlaceInv, SlotsDiffer, Distinct
    <3> QED
      BY <3>2, <3>3, <3>4
  <2> QED
    BY <2>3, <2>4
<1>5. /\ worker[t] = "absent" => Delivered(t) = {}
      /\ worker[t] # "absent" => Delivered(t) = {t}
  BY DEF Delivered
<1>6. CASE worker[t] # "absent"
  <2>1. ~Occurs(queue, t) /\ \A w \in Tasks : ~Occurs(batch[w], t)
    BY <1>6 DEF PlaceInv, SlotsHoldUndelivered, Undelivered
  <2>2. Cardinality(Positions(t)) = 0 /\ Cardinality(Held(t)) = 0
    BY <1>1, <1>2, <1>3, <2>1
  <2>3. Cardinality(Delivered(t)) = 1
    BY <1>1, <1>5, <1>6
  <2> QED
    BY <2>2, <2>3
<1>7. CASE worker[t] = "absent" /\ Occurs(queue, t)
  <2>1. \A w \in Tasks : ~Occurs(batch[w], t)
    BY <1>7 DEF PlaceInv, SlotsDiffer
  <2>2. Cardinality(Positions(t)) = 1
    BY <1>1, <1>2, <1>7
  <2>3. Cardinality(Held(t)) = 0 /\ Cardinality(Delivered(t)) = 0
    BY <1>1, <1>3, <1>5, <1>7, <2>1
  <2> QED
    BY <2>2, <2>3
<1>8. CASE worker[t] = "absent" /\ ~Occurs(queue, t)
  <2>1. PICK w \in Tasks : Occurs(batch[w], t)
    BY <1>8 DEF PlaceInv, SlotsHoldUndelivered, Undelivered
  <2>2. PICK p : Held(t) = {p}
    BY <1>4, <2>1
  <2>3. Cardinality(Held(t)) = 1
    BY <1>1, <2>2
  <2>4. Cardinality(Positions(t)) = 0 /\ Cardinality(Delivered(t)) = 0
    BY <1>1, <1>2, <1>5, <1>8
  <2> QED
    BY <2>3, <2>4
<1> QED
  BY <1>6, <1>7, <1>8

(* For any number of tasks, finishing workers and failures a task that was *)
(* pushed is in the list, in one batch or delivered: never twice, and lost *)
(* only with the worker that had pulled it.                                *)
THEOREM OnePlacePerTask == Spec => []EachTaskInOnePlace
<1>1. Init => PlaceInv
  <2> SUFFICES ASSUME Init PROVE SlotsDiffer /\ SlotsHoldUndelivered
    BY FlagInvInit DEF PlaceInv, FlagInv
  <2>1. \A t \in Tasks : Len(batch[t]) = 0
    BY DEF Init
  <2> QED
    BY <2>1, ConcurrencyAssumption
       DEF Init, SlotsDiffer, SlotsHoldUndelivered, Occurs, Distinct, Undelivered
<1>2. PlaceInv /\ FlagInv /\ [Next]_vars => PlaceInv'
  BY FlagInvStep, PlaceStep DEF PlaceInv, FlagInv
<1> QED
  BY FlagInvInit, FlagInvStep, <1>1, <1>2, PlaceCount, PTL DEF Spec
=============================================================================
