------------------------------ MODULE RunBatch ------------------------------
(***************************************************************************)
(* Studio's design-loop batch runner: run_batch of                         *)
(* src/astro_mine/studio/orchestrate/jobs.py over a durable JobStore, a    *)
(* content-addressed ResultCache and an asyncio semaphore.                 *)
(*                                                                         *)
(* run_batch runs on one asyncio event loop.  A task is a run_one          *)
(* coroutine; it is atomic between two awaits, so each action below is the *)
(* stretch of run_one from one await to the next.  The evaluation itself   *)
(* runs on a worker thread (LocalDispatcher, asyncio.to_thread).           *)
(*                                                                         *)
(* Two things end a call early.  Interrupt is the cancellation of the      *)
(* run_batch coroutine: every task dies at its await, but worker threads   *)
(* cannot be cancelled and run on as orphans.  A kill of the process takes *)
(* the threads too, and may fall between two statements of a handler, so   *)
(* every handler takes the number of its durable effects that survived.    *)
(* The JobStore, the ResultCache and what the EventSink was told are       *)
(* durable; everything else is volatile.                                   *)
(***************************************************************************)
EXTENDS Integers, Sequences, FiniteSets

CONSTANTS
  Jobs,             \* job ids, "candidate@seed"
  JobOf,            \* the plan: JobOf[t] is the job of the t-th run_one
  Objectives,       \* objective documents a batch may be run against
  Concurrency,      \* slots of the semaphore
  Dispatchers,      \* whether a call's LocalDispatcher was built with the same cache
  MaxCalls,         \* bound: calls of run_batch over one store
  NoKey             \* "no cache key", "no result"

Tasks == DOMAIN JobOf

ASSUME PlanAssumption ==
  /\ JobOf \in Seq(Jobs)
  /\ Concurrency \in Nat \ {0}
  /\ MaxCalls \in Nat
  /\ Dispatchers \subseteq BOOLEAN
  /\ NoKey \notin Jobs \X Objectives

(***************************************************************************)
(* A key is the content hash of (candidate, objective, seed).  Evaluation  *)
(* is deterministic, so the result of evaluating job j under objective o   *)
(* is named by the same pair; a result differs from another exactly when   *)
(* the pairs differ.                                                       *)
(***************************************************************************)
Keys == Jobs \X Objectives
cache_key(j, o) == <<j, o>>

Status == {"absent", "pending", "running", "succeeded", "failed", "canceled"}
TaskState == {"idle", "ready", "waiting", "granted", "evaluating", "returning", "done"}

VARIABLES
  records,    \* JobStore: job -> status, result digest, error, cancel flag, key
  cache,      \* ResultCache: key -> result (NoKey: no entry)
  told,       \* the last event the sink received for a job
  calls,      \* calls of run_batch so far
  objective,  \* the objective of the current call
  caching,    \* whether the dispatcher of the current call has the cache too
  task,       \* where each run_one of the current call stands
  waiters,    \* the semaphore's FIFO of waiting tasks
  free,       \* the semaphore's value
  orphans     \* <<call, task, key>>: worker threads whose task is gone and
              \* whose dispatcher has the cache

durable == <<records, cache, told>>
vars == <<records, cache, told, calls, objective, caching, task, waiters, free, orphans>>

NewRecord(j, o) ==
  [status |-> "pending", digest |-> NoKey, error |-> FALSE, cancel |-> FALSE,
   key |-> cache_key(j, o)]

NoRecord ==
  [status |-> "absent", digest |-> NoKey, error |-> FALSE, cancel |-> FALSE, key |-> NoKey]

Init ==
  /\ records = [j \in Jobs |-> NoRecord]
  /\ cache = [k \in Keys |-> NoKey]
  /\ told = [j \in Jobs |-> "absent"]
  /\ calls = 0
  /\ objective \in Objectives
  /\ caching \in Dispatchers
  /\ task = [t \in Tasks |-> "idle"]
  /\ waiters = <<>>
  /\ free = Concurrency
  /\ orphans = {}

-----------------------------------------------------------------------------
(* Durable effects, in the order run_one performs them: the cache, then    *)
(* the record, then the event.  "survived" counts how many of them took    *)
(* place; 3 is a handler that ran to its end.                              *)

Whole == 3

(* Faulty variant: the result is cached last. *)
CachesLast(survived) == survived >= Whole

Caches(survived) == survived >= 1

(* store.update leaves alone what it is not given. *)
Updated(r, status, digest, failed) ==
  [status |-> status,
   digest |-> IF digest = NoKey THEN r.digest ELSE digest,
   error  |-> r.error \/ failed,
   cancel |-> r.cancel,
   key    |-> r.key]

Update(j, status, digest, failed, survived) ==
  records' = IF survived < 2 THEN records
             ELSE [records EXCEPT ![j] = Updated(records[j], status, digest, failed)]

Emit(j, status, survived) ==
  told' = IF survived < Whole THEN told ELSE [told EXCEPT ![j] = status]

(* What the process keeps in memory, once a handler ends or is killed.     *)
Volatile(task2, waiters2, free2, survived) ==
  IF survived = Whole
  THEN /\ task' = task2
       /\ waiters' = waiters2
       /\ free' = free2
       /\ UNCHANGED orphans
  ELSE /\ task' = [t \in Tasks |-> "idle"]
       /\ waiters' = <<>>
       /\ free' = Concurrency
       /\ orphans' = {}

(* Semaphore.release: the first waiter is handed the slot, or the slot is  *)
(* free again.                                                             *)
Granted(task2) == IF waiters = <<>> THEN task2 ELSE [task2 EXCEPT ![Head(waiters)] = "granted"]
Dequeued == IF waiters = <<>> THEN waiters ELSE Tail(waiters)
Released == IF waiters = <<>> THEN free + 1 ELSE free

Started == \A t \in Tasks : task[t] # "ready"
Open == \E t \in Tasks : task[t] # "idle"

(* Faulty variant: the closure sees the last candidate of the plan. *)
LateBound(t) == cache_key(JobOf[Len(JobOf)], objective)

(* What the evaluation a task dispatches results in. *)
Evaluation(t) == cache_key(JobOf[t], objective)

(* evaluate_candidate finds the key in the dispatcher's own cache.         *)
Hit(j) == caching /\ cache[cache_key(j, objective)] # NoKey

-----------------------------------------------------------------------------
(* Faulty variant: create overwrites the record of an earlier call. *)
Recreated(o) ==
  [j \in Jobs |-> IF \E t \in Tasks : JobOf[t] = j THEN NewRecord(j, o) ELSE records[j]]

Created(o) ==
  [j \in Jobs |->
     IF records[j].status = "absent" /\ \E t \in Tasks : JobOf[t] = j
     THEN NewRecord(j, o) ELSE records[j]]

(* run_batch up to gather: create the records (an existing one wins), make *)
(* one task per plan entry.                                                *)
StartBatch(o, c) ==
  /\ ~Open
  /\ calls < MaxCalls
  /\ calls' = calls + 1
  /\ objective' = o
  /\ caching' = c
  /\ records' = Created(o)
  /\ task' = [t \in Tasks |-> "ready"]
  /\ waiters' = <<>>
  /\ free' = Concurrency
  /\ UNCHANGED <<cache, told, orphans>>

(* gather starts its tasks in plan order. *)
Turn(t) ==
  /\ task[t] = "ready"
  /\ \A u \in Tasks : u < t => task[u] # "ready"

(* run_one returns at once for a job that is already done... *)
ResumeSucceeded(t) ==
  /\ Turn(t)
  /\ records[JobOf[t]].status = "succeeded"
  /\ Emit(JobOf[t], "succeeded", Whole)
  /\ task' = [task EXCEPT ![t] = "done"]
  /\ UNCHANGED <<records, cache, calls, objective, caching, waiters, free, orphans>>

(* Faulty variant: the cache is not consulted. *)
NeverCached(j) == FALSE

Cached(j) == cache[records[j].key] # NoKey

(* ... or whose result is in the cache. *)
ResumeCached(t, survived) ==
  LET j == JobOf[t] IN
  /\ Turn(t)
  /\ records[j].status # "succeeded"
  /\ Cached(j)
  /\ Update(j, "succeeded", cache[records[j].key], FALSE, survived)
  /\ Emit(j, "succeeded", survived)
  /\ Volatile([task EXCEPT ![t] = "done"], waiters, free, survived)
  /\ UNCHANGED <<cache, calls, objective, caching>>

Pursue(t) ==
  /\ Turn(t)
  /\ records[JobOf[t]].status # "succeeded"
  /\ ~Cached(JobOf[t])

(* Semaphore.acquire with no slot free: join the queue. *)
AwaitSlot(t) ==
  /\ Pursue(t)
  /\ free = 0 \/ waiters # <<>>
  /\ task' = [task EXCEPT ![t] = "waiting"]
  /\ waiters' = Append(waiters, t)
  /\ UNCHANGED <<records, cache, told, calls, objective, caching, free, orphans>>

(* Faulty variant: no task waits. *)
SlotUnasked(t) == Pursue(t) \/ task[t] = "granted"

(* The tasks that hold the next slot: one that acquires without waiting,   *)
(* or a waiter a release handed a slot to.                                 *)
HasSlot(t) ==
  \/ Pursue(t) /\ free > 0 /\ waiters = <<>>
  \/ task[t] = "granted"

SlotTaken(t) == IF task[t] = "granted" THEN free ELSE free - 1

CancelSeen(j) == records[j].cancel

(* The body under the semaphore up to the dispatch. *)
Start(t, survived) ==
  LET j == JobOf[t] IN
  /\ HasSlot(t)
  /\ ~CancelSeen(j)
  /\ Update(j, "running", NoKey, FALSE, survived)
  /\ Emit(j, "running", survived)
  /\ Volatile([task EXCEPT ![t] = IF Hit(j) THEN "returning" ELSE "evaluating"],
              waiters, SlotTaken(t), survived)
  /\ UNCHANGED <<cache, calls, objective, caching>>

(* The cancel checkpoint; the slot is given back on the way out. *)
Skip(t, survived) ==
  LET j == JobOf[t] IN
  /\ HasSlot(t)
  /\ CancelSeen(j)
  /\ Update(j, "canceled", NoKey, FALSE, survived)
  /\ Emit(j, "canceled", survived)
  /\ IF task[t] = "granted"
     THEN Volatile(Granted([task EXCEPT ![t] = "done"]), Dequeued, Released, survived)
     ELSE Volatile([task EXCEPT ![t] = "done"], waiters, free, survived)
  /\ UNCHANGED <<cache, calls, objective, caching>>

Evaluates(t) == Started /\ task[t] \in {"evaluating", "returning"}

(* The evaluation returns: cache it under the record's key, record it. *)
Succeed(t, survived) ==
  LET j == JobOf[t]
      result == Evaluation(t)
      filled == (IF Caches(survived) THEN {records[j].key} ELSE {})
                  \cup (IF caching THEN {result} ELSE {})
  IN
  /\ Evaluates(t)
  /\ cache' = [k \in Keys |-> IF k \in filled THEN result ELSE cache[k]]
  /\ Update(j, "succeeded", result, FALSE, survived)
  /\ Emit(j, "succeeded", survived)
  /\ Volatile(Granted([task EXCEPT ![t] = "done"]), Dequeued, Released, survived)
  /\ UNCHANGED <<calls, objective, caching>>

(* Faulty variant: the except path leaves the slot taken. *)
FailLeaks(t, survived) ==
  /\ Evaluates(t)
  /\ task[t] = "evaluating"
  /\ Update(JobOf[t], "failed", NoKey, TRUE, survived)
  /\ Emit(JobOf[t], "failed", survived)
  /\ Volatile([task EXCEPT ![t] = "done"], waiters, free, survived)
  /\ UNCHANGED <<cache, calls, objective, caching>>

(* A sibling raised. *)
Fail(t, survived) ==
  LET j == JobOf[t] IN
  /\ Evaluates(t)
  /\ task[t] = "evaluating"
  /\ Update(j, "failed", NoKey, TRUE, survived)
  /\ Emit(j, "failed", survived)
  /\ Volatile(Granted([task EXCEPT ![t] = "done"]), Dequeued, Released, survived)
  /\ UNCHANGED <<cache, calls, objective, caching>>

(* gather is complete: run_batch returns the records. *)
Return ==
  /\ Open
  /\ \A t \in Tasks : task[t] = "done"
  /\ task' = [t \in Tasks |-> "idle"]
  /\ UNCHANGED <<records, cache, told, calls, objective, caching, waiters, free, orphans>>

-----------------------------------------------------------------------------
(* The environment. *)

(* request_cancel, from whoever holds the store. *)
RequestCancel(j) ==
  /\ records[j].status # "absent"
  /\ ~records[j].cancel
  /\ records' = [records EXCEPT ![j] = [@ EXCEPT !.cancel = TRUE]]
  /\ UNCHANGED <<cache, told, calls, objective, caching, task, waiters, free, orphans>>

(* The coroutine is cancelled: tasks die at their awaits, threads do not. *)
(* A thread matters no more unless its dispatcher was built with the cache. *)
Interrupt ==
  /\ Open
  /\ orphans' = orphans \cup
       {<<calls, t, cache_key(JobOf[t], objective)>> :
          t \in {u \in Tasks : caching /\ task[u] = "evaluating"}}
  /\ task' = [t \in Tasks |-> "idle"]
  /\ waiters' = <<>>
  /\ free' = Concurrency
  /\ UNCHANGED <<records, cache, told, calls, objective, caching>>

(* The process is killed while every task is at an await. *)
Kill ==
  /\ Open \/ orphans # {}
  /\ Volatile(task, waiters, free, 0)
  /\ UNCHANGED <<records, cache, told, calls, objective, caching>>

(* An orphaned thread returns; it fills the dispatcher's cache, or raises. *)
OrphanReturns(o, ok) ==
  /\ orphans' = orphans \ {o}
  /\ cache' = IF ok THEN [cache EXCEPT ![o[3]] = o[3]] ELSE cache
  /\ UNCHANGED <<records, told, calls, objective, caching, task, waiters, free>>

-----------------------------------------------------------------------------
(* A task's own step, and the step of a task that is killed part-way.      *)
Step(t) ==
  \/ ResumeSucceeded(t)
  \/ AwaitSlot(t)
  \/ ResumeCached(t, Whole)
  \/ Start(t, Whole)
  \/ Skip(t, Whole)
  \/ Succeed(t, Whole)
  \/ Fail(t, Whole)

KilledIn(t) ==
  \/ ResumeCached(t, 2)
  \/ Start(t, 2)
  \/ Skip(t, 2)
  \/ \E survived \in {1, 2} : Succeed(t, survived)
  \/ Fail(t, 2)

Next ==
  \/ \E o \in Objectives, c \in Dispatchers : StartBatch(o, c)
  \/ \E t \in Tasks : Step(t) \/ KilledIn(t)
  \/ Return
  \/ \E j \in Jobs : RequestCancel(j)
  \/ Interrupt
  \/ Kill
  \/ \E o \in orphans, ok \in BOOLEAN : OrphanReturns(o, ok)

Spec == Init /\ [][Next]_vars

(* The event loop runs every ready task, and an evaluation, which is       *)
(* bounded by max_steps, returns or raises; a batch that was cut short is  *)
(* called again while calls remain.                                        *)
Fairness ==
  /\ \A t \in Tasks : WF_vars(Step(t))
  /\ WF_vars(Return)

FairSpec == Spec /\ Fairness
-----------------------------------------------------------------------------
(* Properties. *)

Record ==
  [status : Status, digest : Keys \cup {NoKey}, error : BOOLEAN, cancel : BOOLEAN,
   key : Keys \cup {NoKey}]

(* The shape of the state: records, cache, semaphore and tasks. *)
TypeOK ==
  /\ records \in [Jobs -> Record]
  /\ cache \in [Keys -> Keys \cup {NoKey}]
  /\ told \in [Jobs -> Status]
  /\ calls \in 0..MaxCalls
  /\ objective \in Objectives
  /\ caching \in Dispatchers
  /\ task \in [Tasks -> TaskState]
  /\ waiters \in Seq(Tasks)
  /\ free \in Nat
  /\ orphans \subseteq (0..MaxCalls) \X Tasks \X Keys

Holding == {t \in Tasks : task[t] \in {"granted", "evaluating", "returning"}}

(* async with semaphore: no slot is lost or made up on any path out of     *)
(* run_one (canceled, failed, succeeded, interrupted), and no slot is idle *)
(* while a task waits for one.                                             *)
SlotsConserved ==
  /\ free + Cardinality(Holding) = Concurrency
  /\ waiters # <<>> => free = 0
  /\ {waiters[i] : i \in DOMAIN waiters} = {t \in Tasks : task[t] = "waiting"}

(* cache.py: an entry under the hash of (candidate, objective, seed) is    *)
(* the evaluation of that candidate under that objective with that seed.   *)
CacheSound == \A k \in Keys : cache[k] \in {NoKey, k}

(* run_batch puts the result in the cache before it records the success,   *)
(* so whoever reads records after any crash (example_study of seed.py)     *)
(* finds the result of every succeeded job under the record's key; and it  *)
(* tells the sink of a success only once that is recorded.                 *)
SuccessIsBacked ==
  \A j \in Jobs :
    /\ records[j].status = "succeeded" =>
         /\ records[j].digest # NoKey
         /\ cache[records[j].key] = records[j].digest
    /\ told[j] = "succeeded" => records[j].status = "succeeded"

(* jobs.py: a job that SUCCEEDED in the store is done; no later run of     *)
(* run_one takes it back or changes its result.                            *)
SucceededIsFinal ==
  [][\A j \in Jobs : records[j].status = "succeeded" =>
       /\ records'[j].status = "succeeded"
       /\ records'[j].digest = records[j].digest]_vars

Begins(t) == task[t] # "evaluating" /\ task'[t] = "evaluating"

(* jobs.py, "resumable": an evaluation never starts for a job that has     *)
(* succeeded or whose result is in the cache, however the calls before it  *)
(* ended and however long the task waited for its slot.  run_one does not  *)
(* look again when it is handed its slot, so the one exception is a result *)
(* that a thread of an interrupted call cached while the task waited, in a *)
(* call whose dispatcher was built without the cache.                      *)
ResumeNeverRepeats ==
  [][\A t \in Tasks : Begins(t) =>
       /\ records[JobOf[t]].status # "succeeded"
       /\ cache[records[JobOf[t]].key] # NoKey => ~caching /\ calls > 1 /\ task[t] = "granted"]_vars

(* No job is listed twice in the plan. *)
DistinctPlan == \A t, u \in Tasks : JobOf[t] = JobOf[u] => t = u

(* The store is kept for one objective. *)
OneObjective == \A o, p \in Objectives : o = p

(* The batch runner implements the job life cycle a client of the store    *)
(* relies on, across interrupted, killed and repeated calls.               *)
jobStatus == [j \in Jobs |-> records[j].status]
jobResult == [j \in Jobs |-> records[j].digest]
jobCancelled == [j \in Jobs |-> records[j].cancel]

Lifecycle == INSTANCE JobLifecycle WITH
  Results <- Keys,
  NoResult <- NoKey,
  status <- jobStatus,
  result <- jobResult,
  cancelled <- jobCancelled

ImplementsLifecycle == Lifecycle!Spec

(* A call of run_batch ends: no task waits for a slot for ever. *)
BatchReturns == Open ~> ~Open
=============================================================================
