--------------------------- MODULE RunBatchProofs ---------------------------
(* Proofs about RunBatch: for every plan, every number of slots and every  *)
(* number of calls.                                                        *)
EXTENDS RunBatch, Extrema, TLAPS, SequenceTheorems, FiniteSetTheorems

(* The handlers, as far as they can be cut short: 3 effects, or fewer.     *)
Cuts == 0..3

LEMMA TasksAreNumbers ==
  /\ Tasks \subseteq Nat
  /\ IsFiniteSet(Tasks)
  /\ \A t \in Tasks : JobOf[t] \in Jobs
<1>1. JobOf \in Seq(Jobs)
  BY PlanAssumption
<1>2. Tasks = 1..Len(JobOf) /\ Len(JobOf) \in Nat
  BY <1>1 DEF Tasks
<1>3. IsFiniteSet(1..Len(JobOf))
  BY <1>2, FS_Interval
<1>4. QED
  BY <1>1, <1>2, <1>3

LEMMA KeysOfJobs ==
  /\ \A j \in Jobs, o \in Objectives : cache_key(j, o) \in Keys
  /\ NoKey \notin Keys
BY PlanAssumption DEF Keys, cache_key

(* What a handler leaves in memory is well typed. *)
LEMMA VolatileType ==
  ASSUME TypeOK,
         NEW s \in Cuts,
         NEW w2, w2 \in Seq(Tasks), NEW f2, f2 \in Nat,
         NEW task2, task2 \in [Tasks -> TaskState],
         Volatile(task2, w2, f2, s)
  PROVE  /\ task' \in [Tasks -> TaskState]
         /\ waiters' \in Seq(Tasks)
         /\ free' \in Nat
         /\ orphans' \subseteq (0..MaxCalls) \X Tasks \X Keys
<1>1. CASE s = Whole
  BY <1>1 DEF Volatile, TypeOK
<1>2. CASE s # Whole
  <2>1. "idle" \in TaskState /\ Concurrency \in Nat /\ <<>> \in Seq(Tasks)
    BY PlanAssumption DEF TaskState
  <2>2. QED
    BY <1>2, <2>1 DEF Volatile, TypeOK
<1>3. QED
  BY <1>1, <1>2

LEMMA ReleaseType ==
  ASSUME TypeOK, NEW task2 \in [Tasks -> TaskState]
  PROVE  /\ Granted(task2) \in [Tasks -> TaskState]
         /\ Dequeued \in Seq(Tasks)
         /\ Released \in Nat
<1>1. CASE waiters = <<>>
  BY <1>1 DEF TypeOK, Granted, Dequeued, Released
<1>2. CASE waiters # <<>>
  <2>1. Head(waiters) \in Tasks /\ Tail(waiters) \in Seq(Tasks)
    BY <1>2, HeadTailProperties DEF TypeOK
  <2>2. QED
    BY <1>2, <2>1 DEF TypeOK, Granted, Dequeued, Released, TaskState
<1>3. QED
  BY <1>1, <1>2

LEMMA UpdateType ==
  ASSUME TypeOK, NEW j \in Jobs, NEW st \in Status, NEW d \in Keys \cup {NoKey},
         NEW b \in BOOLEAN, NEW s \in Cuts
  PROVE  /\ Update(j, st, d, b, s) => records' \in [Jobs -> Record]
         /\ Emit(j, st, s) => told' \in [Jobs -> Status]
<1>1. Updated(records[j], st, d, b) \in Record
  BY DEF Updated, Record, TypeOK
<1>2. Update(j, st, d, b, s) => records' \in [Jobs -> Record]
  BY <1>1 DEF Update, TypeOK
<1>3. Emit(j, st, s) => told' \in [Jobs -> Status]
  BY DEF Emit, TypeOK
<1>4. QED
  BY <1>2, <1>3

-----------------------------------------------------------------------------
(* run_one finds the record of its job: create ran for every plan entry    *)
(* before gather started a task, and a record is never taken away.         *)
Registered ==
  /\ \A j \in Jobs : records[j].status # "absent" => records[j].key \in Keys
  /\ \A t \in Tasks : task[t] # "idle" => records[JobOf[t]].status # "absent"

(* Type correctness: the state keeps the shape of the code's state, for    *)
(* every plan and any number of slots and calls.                           *)
LEMMA TypeStep == TypeOK /\ Registered /\ [Next]_vars => TypeOK'
<1> SUFFICES ASSUME TypeOK, Registered, [Next]_vars PROVE TypeOK'
  OBVIOUS
<1> USE KeysOfJobs, TasksAreNumbers
<1>a. Whole \in Cuts /\ 1 \in Cuts /\ 2 \in Cuts
  BY DEF Whole, Cuts
<1>b. /\ \A t \in Tasks, st \in TaskState : [task EXCEPT ![t] = st] \in [Tasks -> TaskState]
      /\ "done" \in TaskState /\ "idle" \in TaskState /\ "ready" \in TaskState
      /\ "waiting" \in TaskState /\ "granted" \in TaskState
      /\ "evaluating" \in TaskState /\ "returning" \in TaskState
  BY DEF TypeOK, TaskState
<1>c. /\ "succeeded" \in Status /\ "running" \in Status /\ "canceled" \in Status
      /\ "failed" \in Status /\ "pending" \in Status
  BY DEF Status
<1>1. ASSUME NEW o \in Objectives, NEW c \in Dispatchers, StartBatch(o, c) PROVE TypeOK'
  <2>1. Created(o) \in [Jobs -> Record]
    BY DEF Created, NewRecord, Record, Status, TypeOK
  <2>2. Concurrency \in Nat /\ <<>> \in Seq(Tasks)
    BY PlanAssumption
  <2>3. calls' \in 0..MaxCalls
    BY <1>1, PlanAssumption DEF StartBatch, TypeOK
  <2>4. QED
    BY <1>1, <1>b, <2>1, <2>2, <2>3 DEF StartBatch, TypeOK
<1>2. ASSUME NEW t \in Tasks, ResumeSucceeded(t) PROVE TypeOK'
  BY <1>2, <1>a, <1>b, <1>c, UpdateType DEF ResumeSucceeded, TypeOK
<1>3. ASSUME NEW t \in Tasks, AwaitSlot(t) PROVE TypeOK'
  <2>1. Append(waiters, t) \in Seq(Tasks)
    BY DEF TypeOK
  <2>2. QED
    BY <1>3, <1>b, <2>1 DEF AwaitSlot, TypeOK
<1>4. ASSUME NEW t \in Tasks, NEW s \in Cuts, ResumeCached(t, s) PROVE TypeOK'
  <2>1. records[JobOf[t]].key \in Keys
    BY <1>4 DEF ResumeCached, Turn, Registered
  <2>2. cache[records[JobOf[t]].key] \in Keys \cup {NoKey}
    BY <2>1 DEF TypeOK
  <2>3. /\ records' \in [Jobs -> Record]
        /\ told' \in [Jobs -> Status]
    BY <1>4, <1>c, <2>2, UpdateType DEF ResumeCached
  <2>4. /\ task' \in [Tasks -> TaskState] /\ waiters' \in Seq(Tasks) /\ free' \in Nat
        /\ orphans' \subseteq (0..MaxCalls) \X Tasks \X Keys
    BY <1>4, <1>b, VolatileType DEF ResumeCached, TypeOK
  <2>5. QED
    BY <1>4, <2>3, <2>4 DEF ResumeCached, TypeOK
<1>5. ASSUME NEW t \in Tasks, NEW s \in Cuts, Start(t, s) PROVE TypeOK'
  <2>1. SlotTaken(t) \in Nat
    BY <1>5 DEF Start, HasSlot, SlotTaken, TypeOK
  <2>2. /\ records' \in [Jobs -> Record]
        /\ told' \in [Jobs -> Status]
    BY <1>5, <1>c, UpdateType DEF Start
  <2>3. /\ task' \in [Tasks -> TaskState] /\ waiters' \in Seq(Tasks) /\ free' \in Nat
        /\ orphans' \subseteq (0..MaxCalls) \X Tasks \X Keys
    BY <1>5, <1>b, <2>1, VolatileType DEF Start, TypeOK
  <2>4. QED
    BY <1>5, <2>2, <2>3 DEF Start, TypeOK
<1>6. ASSUME NEW t \in Tasks, NEW s \in Cuts, Skip(t, s) PROVE TypeOK'
  <2>1. /\ records' \in [Jobs -> Record]
        /\ told' \in [Jobs -> Status]
    BY <1>6, <1>c, UpdateType DEF Skip
  <2>2. /\ task' \in [Tasks -> TaskState] /\ waiters' \in Seq(Tasks) /\ free' \in Nat
        /\ orphans' \subseteq (0..MaxCalls) \X Tasks \X Keys
    <3> DEFINE task2 == [task EXCEPT ![t] = "done"]
    <3>1. task2 \in [Tasks -> TaskState]
      BY <1>b
    <3>2. /\ Granted(task2) \in [Tasks -> TaskState] /\ Dequeued \in Seq(Tasks)
          /\ Released \in Nat
      BY <3>1, ReleaseType
    <3>3. CASE task[t] = "granted"
      <4>1. Volatile(Granted(task2), Dequeued, Released, s)
        BY <1>6, <3>3 DEF Skip
      <4>2. QED
        BY <4>1, <3>2, VolatileType
    <3>4. CASE task[t] # "granted"
      <4>1. Volatile(task2, waiters, free, s)
        BY <1>6, <3>4 DEF Skip
      <4>2. waiters \in Seq(Tasks) /\ free \in Nat
        BY DEF TypeOK
      <4>3. QED
        BY <4>1, <4>2, <3>1, VolatileType
    <3>5. QED
      BY <3>3, <3>4
  <2>3. QED
    BY <1>6, <2>1, <2>2 DEF Skip, TypeOK
<1>7. ASSUME NEW t \in Tasks, NEW s \in Cuts, Succeed(t, s) PROVE TypeOK'
  <2>1. Evaluation(t) \in Keys
    BY DEF Evaluation, TypeOK
  <2>2. /\ records' \in [Jobs -> Record]
        /\ told' \in [Jobs -> Status]
    BY <1>7, <1>c, <2>1, UpdateType DEF Succeed
  <2>3. cache' \in [Keys -> Keys \cup {NoKey}]
    BY <1>7, <2>1 DEF Succeed, TypeOK
  <2>4. /\ task' \in [Tasks -> TaskState] /\ waiters' \in Seq(Tasks) /\ free' \in Nat
        /\ orphans' \subseteq (0..MaxCalls) \X Tasks \X Keys
    <3>1. /\ Granted([task EXCEPT ![t] = "done"]) \in [Tasks -> TaskState]
          /\ Dequeued \in Seq(Tasks) /\ Released \in Nat
      BY <1>b, ReleaseType
    <3>2. QED
      BY <1>7, <3>1, VolatileType DEF Succeed
  <2>6. QED
    BY <1>7, <2>2, <2>3, <2>4 DEF Succeed, TypeOK
<1>8. ASSUME NEW t \in Tasks, NEW s \in Cuts, Fail(t, s) PROVE TypeOK'
  <2>1. /\ records' \in [Jobs -> Record]
        /\ told' \in [Jobs -> Status]
    BY <1>8, <1>c, UpdateType DEF Fail
  <2>2. /\ task' \in [Tasks -> TaskState] /\ waiters' \in Seq(Tasks) /\ free' \in Nat
        /\ orphans' \subseteq (0..MaxCalls) \X Tasks \X Keys
    <3>1. /\ Granted([task EXCEPT ![t] = "done"]) \in [Tasks -> TaskState]
          /\ Dequeued \in Seq(Tasks) /\ Released \in Nat
      BY <1>b, ReleaseType
    <3>2. QED
      BY <1>8, <3>1, VolatileType DEF Fail
  <2>3. QED
    BY <1>8, <2>1, <2>2 DEF Fail, TypeOK
<1>9. CASE Return
  BY <1>9, <1>b DEF Return, TypeOK
<1>10. ASSUME NEW j \in Jobs, RequestCancel(j) PROVE TypeOK'
  <2>1. [records[j] EXCEPT !.cancel = TRUE] \in Record
    <3>1. records[j] \in Record
      BY DEF TypeOK
    <3>2. QED
      BY <3>1 DEF Record
  <2>2. records' \in [Jobs -> Record]
    BY <1>10, <2>1 DEF RequestCancel, TypeOK
  <2>3. QED
    BY <1>10, <2>2 DEF RequestCancel, TypeOK
<1>11. CASE Interrupt
  <2>1. Concurrency \in Nat /\ <<>> \in Seq(Tasks)
    BY PlanAssumption
  <2>2. orphans' \subseteq (0..MaxCalls) \X Tasks \X Keys
    BY <1>11 DEF Interrupt, TypeOK
  <2>3. QED
    BY <1>11, <1>b, <2>1, <2>2 DEF Interrupt, TypeOK
<1>12. CASE Kill
  <2>1. 0 \in Cuts
    BY DEF Cuts
  <2>2. /\ task' \in [Tasks -> TaskState] /\ waiters' \in Seq(Tasks) /\ free' \in Nat
        /\ orphans' \subseteq (0..MaxCalls) \X Tasks \X Keys
    BY <1>12, <2>1, VolatileType DEF Kill, TypeOK
  <2>3. QED
    BY <1>12, <2>2 DEF Kill, TypeOK
<1>13. ASSUME NEW o \in orphans, NEW ok \in BOOLEAN, OrphanReturns(o, ok) PROVE TypeOK'
  <2>1. o[3] \in Keys
    BY DEF TypeOK
  <2>2. cache' \in [Keys -> Keys \cup {NoKey}]
    BY <1>13, <2>1 DEF OrphanReturns, TypeOK
  <2>3. orphans' \subseteq (0..MaxCalls) \X Tasks \X Keys
    BY <1>13 DEF OrphanReturns, TypeOK
  <2>4. UNCHANGED <<records, told, calls, objective, caching, task, waiters, free>>
    BY <1>13 DEF OrphanReturns
  <2>5. QED
    BY <2>2, <2>3, <2>4 DEF TypeOK
<1>14. CASE UNCHANGED vars
  BY <1>14 DEF vars, TypeOK
<1>15. QED
  BY <1>a, <1>1, <1>2, <1>3, <1>4, <1>5, <1>6, <1>7, <1>8, <1>9, <1>10, <1>11, <1>12, <1>13, <1>14
     DEF Next, Step, KilledIn

-----------------------------------------------------------------------------
(* What a step does to the semaphore and the tasks: the shapes the proofs  *)
(* about slots and about jobs go through.                                  *)
Reset == task' = [t \in Tasks |-> "idle"] /\ waiters' = <<>> /\ free' = Concurrency
Fresh ==
  /\ \E o \in Objectives, c \in Dispatchers : StartBatch(o, c)
  /\ task' = [t \in Tasks |-> "ready"] /\ waiters' = <<>> /\ free' = Concurrency
Settle(t) ==
  /\ task[t] = "ready"
  /\ task' = [task EXCEPT ![t] = "done"]
  /\ UNCHANGED <<waiters, free>>
Enqueue(t) ==
  /\ task[t] = "ready"
  /\ free = 0 \/ waiters # <<>>
  /\ task' = [task EXCEPT ![t] = "waiting"]
  /\ waiters' = Append(waiters, t)
  /\ UNCHANGED free
Take(t) ==
  /\ \/ task[t] = "ready" /\ free > 0 /\ waiters = <<>>
     \/ task[t] = "granted"
  /\ \E st \in {"evaluating", "returning"} : task' = [task EXCEPT ![t] = st]
  /\ free' = SlotTaken(t)
  /\ UNCHANGED waiters
Release(t) ==
  /\ t \in Holding
  /\ task' = Granted([task EXCEPT ![t] = "done"])
  /\ waiters' = Dequeued
  /\ free' = Released
Finish ==
  /\ \A t \in Tasks : task[t] = "done"
  /\ task' = [t \in Tasks |-> "idle"]
  /\ UNCHANGED <<waiters, free>>

(* The handlers that can be cut short: a kill resets what is in memory.    *)
LEMMA HandlerShapes ==
  ASSUME NEW t \in Tasks, NEW s \in Cuts
  PROVE  /\ ResumeCached(t, s) => Reset \/ Settle(t)
         /\ Start(t, s) => Reset \/ Take(t)
         /\ Skip(t, s) => Reset \/ Settle(t) \/ Release(t)
         /\ Succeed(t, s) \/ Fail(t, s) => Reset \/ Release(t)
<1>a. ASSUME NEW t2, NEW w2, NEW f2, Volatile(t2, w2, f2, s)
      PROVE  Reset \/ (task' = t2 /\ waiters' = w2 /\ free' = f2)
  BY <1>a DEF Volatile, Reset
<1>1. ASSUME ResumeCached(t, s) PROVE Reset \/ Settle(t)
  BY <1>1, <1>a DEF ResumeCached, Turn, Settle
<1>2. ASSUME Start(t, s) PROVE Reset \/ Take(t)
  <2>1. PICK st \in {"evaluating", "returning"} :
          Volatile([task EXCEPT ![t] = st], waiters, SlotTaken(t), s)
    BY <1>2 DEF Start
  <2>2. HasSlot(t)
    BY <1>2 DEF Start
  <2>3. QED
    BY <2>1, <2>2, <1>a DEF HasSlot, Pursue, Turn, Take
<1>3. ASSUME Skip(t, s) PROVE Reset \/ Settle(t) \/ Release(t)
  <2>1. CASE task[t] = "granted"
    <3>1. Volatile(Granted([task EXCEPT ![t] = "done"]), Dequeued, Released, s)
      BY <1>3, <2>1 DEF Skip
    <3>2. t \in Holding
      BY <2>1 DEF Holding
    <3>3. QED
      BY <3>1, <3>2, <1>a DEF Release
  <2>2. CASE task[t] # "granted"
    <3>1. Volatile([task EXCEPT ![t] = "done"], waiters, free, s)
      BY <1>3, <2>2 DEF Skip
    <3>2. task[t] = "ready"
      BY <1>3, <2>2 DEF Skip, HasSlot, Pursue, Turn
    <3>3. QED
      BY <3>1, <3>2, <1>a DEF Settle
  <2>3. QED
    BY <2>1, <2>2
<1>4. ASSUME Succeed(t, s) \/ Fail(t, s) PROVE Reset \/ Release(t)
  <2>1. Volatile(Granted([task EXCEPT ![t] = "done"]), Dequeued, Released, s)
    BY <1>4 DEF Succeed, Fail
  <2>2. t \in Holding
    BY <1>4 DEF Succeed, Fail, Evaluates, Holding
  <2>3. QED
    BY <2>1, <2>2, <1>a DEF Release
<1>5. QED
  BY <1>1, <1>2, <1>3, <1>4

LEMMA Shapes ==
  [Next]_vars =>
    \/ UNCHANGED <<task, waiters, free>>
    \/ Reset \/ Fresh \/ Finish
    \/ \E t \in Tasks : Settle(t) \/ Enqueue(t) \/ Take(t) \/ Release(t)
<1> SUFFICES ASSUME [Next]_vars
             PROVE  \/ UNCHANGED <<task, waiters, free>>
                    \/ Reset \/ Fresh \/ Finish
                    \/ \E t \in Tasks : Settle(t) \/ Enqueue(t) \/ Take(t) \/ Release(t)
  OBVIOUS
<1>a. Whole \in Cuts /\ 1 \in Cuts /\ 2 \in Cuts
  BY DEF Whole, Cuts
<1>1. ASSUME NEW o \in Objectives, NEW c \in Dispatchers, StartBatch(o, c) PROVE Fresh
  BY <1>1 DEF StartBatch, Fresh
<1>2. ASSUME NEW t \in Tasks, ResumeSucceeded(t) PROVE Settle(t)
  BY <1>2 DEF ResumeSucceeded, Turn, Settle
<1>3. ASSUME NEW t \in Tasks, AwaitSlot(t) PROVE Enqueue(t)
  BY <1>3 DEF AwaitSlot, Pursue, Turn, Enqueue
<1>4. CASE Return
  BY <1>4 DEF Return, Finish
<1>5. CASE Interrupt
  BY <1>5 DEF Interrupt, Reset
<1>6. CASE Kill
  <2>1. 0 # Whole /\ Volatile(task, waiters, free, 0)
    BY <1>6 DEF Kill, Whole
  <2>2. QED
    BY <2>1 DEF Volatile, Reset
<1>7. CASE \/ \E j \in Jobs : RequestCancel(j)
           \/ \E o \in orphans, ok \in BOOLEAN : OrphanReturns(o, ok)
           \/ UNCHANGED vars
  BY <1>7 DEF RequestCancel, OrphanReturns, vars
<1>8. ASSUME NEW t \in Tasks, NEW s \in Cuts,
             \/ ResumeCached(t, s) \/ Start(t, s) \/ Skip(t, s)
             \/ Succeed(t, s) \/ Fail(t, s)
      PROVE  Reset \/ Settle(t) \/ Take(t) \/ Release(t)
  BY <1>8, HandlerShapes
<1>9. QED
  BY <1>a, <1>1, <1>2, <1>3, <1>4, <1>5, <1>6, <1>7, <1>8 DEF Next, Step, KilledIn

-----------------------------------------------------------------------------
(* The semaphore.  The queue holds the waiting tasks, each once, and only  *)
(* while no slot is free; every slot is free or held by one task.          *)
QueueInv ==
  /\ \A i \in 1..Len(waiters) : task[waiters[i]] = "waiting"
  /\ \A t \in Tasks : task[t] = "waiting" => \E i \in 1..Len(waiters) : waiters[i] = t
  /\ \A i, k \in 1..Len(waiters) : waiters[i] = waiters[k] => i = k
  /\ waiters # <<>> => free = 0

CountInv == free + Cardinality(Holding) = Concurrency

SemaphoreInv == QueueInv /\ CountInv

LEMMA HoldingFinite == IsFiniteSet(Holding) /\ Cardinality(Holding) \in Nat
<1>1. Holding \subseteq Tasks
  BY DEF Holding
<1>2. QED
  BY <1>1, TasksAreNumbers, FS_Subset, FS_CardinalityType

LEMMA QueueStep ==
  ASSUME TypeOK, QueueInv, [Next]_vars
  PROVE  QueueInv'
<1>1. CASE UNCHANGED <<task, waiters, free>>
  BY <1>1 DEF QueueInv
<1>2. CASE Reset \/ Fresh
  <2>1. waiters' = <<>> /\ Len(waiters') = 0
    BY <1>2 DEF Reset, Fresh
  <2>2. \A t \in Tasks : task'[t] # "waiting"
    BY <1>2 DEF Reset, Fresh
  <2>3. QED
    BY <2>1, <2>2 DEF QueueInv
<1>3. CASE Finish
  <2>1. \A t \in Tasks : task'[t] # "waiting"
    BY <1>3 DEF Finish
  <2>2. \A i \in 1..Len(waiters) : waiters[i] \in Tasks
    BY DEF TypeOK
  <2>3. 1..Len(waiters) = {}
    BY <1>3, <2>2 DEF Finish, QueueInv
  <2>4. QED
    BY <1>3, <2>1, <2>3 DEF Finish, QueueInv
<1>4. ASSUME NEW t \in Tasks, Settle(t) PROVE QueueInv'
  BY <1>4 DEF Settle, QueueInv, TypeOK
<1>5. ASSUME NEW t \in Tasks, Enqueue(t) PROVE QueueInv'
  <2> DEFINE n == Len(waiters)
  <2>1. /\ n \in Nat /\ Len(waiters') = n + 1
        /\ \A i \in 1..n : waiters'[i] = waiters[i] /\ waiters[i] \in Tasks /\ waiters[i] # t
        /\ waiters'[n + 1] = t
    BY <1>5 DEF Enqueue, TypeOK, QueueInv
  <2>2. \A u \in Tasks : task'[u] = IF u = t THEN "waiting" ELSE task[u]
    BY <1>5 DEF Enqueue, TypeOK
  <2>3. \A i \in 1..Len(waiters') : task'[waiters'[i]] = "waiting"
    BY <2>1, <2>2 DEF QueueInv
  <2>4. ASSUME NEW u \in Tasks, task'[u] = "waiting"
        PROVE  \E i \in 1..Len(waiters') : waiters'[i] = u
    <3>1. CASE u = t
      BY <3>1, <2>1
    <3>2. CASE u # t
      <4>1. PICK i \in 1..n : waiters[i] = u
        BY <3>2, <2>2, <2>4 DEF QueueInv
      <4>2. QED
        BY <4>1, <2>1
    <3>3. QED
      BY <3>1, <3>2
  <2>5. ASSUME NEW i \in 1..Len(waiters'), NEW k \in 1..Len(waiters'), waiters'[i] = waiters'[k]
        PROVE  i = k
    BY <2>1, <2>5 DEF QueueInv
  <2>6. free' = 0
    BY <1>5 DEF Enqueue, QueueInv
  <2>7. QED
    BY <2>3, <2>4, <2>5, <2>6 DEF QueueInv
<1>6. ASSUME NEW t \in Tasks, Take(t) PROVE QueueInv'
  <2>1. /\ waiters' = waiters
        /\ task[t] # "waiting" /\ task'[t] # "waiting"
        /\ \A u \in Tasks : u # t => task'[u] = task[u]
    BY <1>6 DEF Take, TypeOK
  <2>2. \A i \in 1..Len(waiters) : waiters[i] \in Tasks
    BY DEF TypeOK
  <2>3. waiters # <<>> => free' = 0
    BY <1>6 DEF Take, SlotTaken, QueueInv
  <2>4. QED
    BY <2>1, <2>2, <2>3 DEF QueueInv
<1>7. ASSUME NEW t \in Tasks, Release(t) PROVE QueueInv'
  <2>0. task[t] # "waiting"
    BY <1>7 DEF Release, Holding
  <2>1. CASE waiters = <<>>
    <3>1. /\ waiters' = <<>> /\ Len(waiters') = 0
          /\ task' = [task EXCEPT ![t] = "done"]
      BY <1>7, <2>1 DEF Release, Granted, Dequeued
    <3>2. \A u \in Tasks : task[u] # "waiting"
      BY <2>1 DEF QueueInv
    <3>3. QED
      BY <3>1, <3>2 DEF QueueInv, TypeOK
  <2>2. CASE waiters # <<>>
    <3> DEFINE n == Len(waiters)
               h == Head(waiters)
    <3>1. /\ n \in Nat /\ n >= 1 /\ h = waiters[1] /\ h \in Tasks
          /\ waiters' = Tail(waiters) /\ Len(waiters') = n - 1
          /\ \A i \in 1..(n - 1) : waiters'[i] = waiters[i + 1]
          /\ \A i \in 1..n : waiters[i] \in Tasks
      BY <1>7, <2>2, HeadTailProperties DEF Release, Dequeued, TypeOK
    <3>2. \A u \in Tasks :
            task'[u] = IF u = h THEN "granted" ELSE IF u = t THEN "done" ELSE task[u]
      BY <1>7, <2>2, <3>1 DEF Release, Granted, TypeOK
    <3>3. \A i \in 2..n : waiters[i] # h /\ waiters[i] # t
      BY <2>0, <3>1 DEF QueueInv
    <3>4. ASSUME NEW i \in 1..Len(waiters') PROVE task'[waiters'[i]] = "waiting"
      BY <3>1, <3>2, <3>3 DEF QueueInv
    <3>5. ASSUME NEW u \in Tasks, task'[u] = "waiting"
          PROVE  \E i \in 1..Len(waiters') : waiters'[i] = u
      <4>1. u # h /\ task[u] = "waiting"
        BY <3>2, <3>5
      <4>2. PICK i \in 1..n : waiters[i] = u
        BY <4>1 DEF QueueInv
      <4>3. i # 1 /\ i - 1 \in 1..(n - 1)
        BY <4>1, <4>2, <3>1
      <4>4. waiters'[i - 1] = u
        BY <4>2, <4>3, <3>1
      <4>5. QED
        BY <4>3, <4>4, <3>1
    <3>6. ASSUME NEW i \in 1..Len(waiters'), NEW k \in 1..Len(waiters'),
                 waiters'[i] = waiters'[k]
          PROVE  i = k
      <4>1. i + 1 \in 1..n /\ k + 1 \in 1..n /\ waiters[i + 1] = waiters[k + 1]
        BY <3>1, <3>6
      <4>2. i + 1 = k + 1
        BY <4>1 DEF QueueInv
      <4>3. QED
        BY <4>2, <3>1
    <3>7. free' = 0
      BY <1>7, <2>2 DEF Release, Released, QueueInv
    <3>8. QED
      BY <3>4, <3>5, <3>6, <3>7 DEF QueueInv
  <2>3. QED
    BY <2>1, <2>2
<1>8. QED
  BY <1>1, <1>2, <1>3, <1>4, <1>5, <1>6, <1>7, Shapes

LEMMA CountStep ==
  ASSUME TypeOK, QueueInv, CountInv, [Next]_vars
  PROVE  CountInv'
<1> USE HoldingFinite
<1>0. Concurrency \in Nat /\ free \in Nat
  BY PlanAssumption DEF TypeOK
<1>1. CASE UNCHANGED <<task, waiters, free>>
  <2>1. Holding' = Holding
    BY <1>1 DEF Holding
  <2>2. QED
    BY <1>1, <2>1 DEF CountInv
<1>2. CASE Reset \/ Fresh
  <2>1. Holding' = {}
    BY <1>2 DEF Reset, Fresh, Holding
  <2>2. free' = Concurrency
    BY <1>2 DEF Reset, Fresh
  <2>3. QED
    BY <1>0, <2>1, <2>2, FS_EmptySet DEF CountInv
<1>3. CASE Finish
  <2>1. Holding = {} /\ Holding' = {}
    BY <1>3 DEF Finish, Holding
  <2>2. free' = free
    BY <1>3 DEF Finish
  <2>3. QED
    BY <2>1, <2>2 DEF CountInv
<1>4. ASSUME NEW t \in Tasks, Settle(t) PROVE CountInv'
  <2>1. Holding' = Holding
    BY <1>4 DEF Settle, Holding, TypeOK
  <2>2. QED
    BY <1>4, <2>1 DEF Settle, CountInv
<1>5. ASSUME NEW t \in Tasks, Enqueue(t) PROVE CountInv'
  <2>1. Holding' = Holding
    BY <1>5 DEF Enqueue, Holding, TypeOK
  <2>2. QED
    BY <1>5, <2>1 DEF Enqueue, CountInv
<1>6. ASSUME NEW t \in Tasks, Take(t) PROVE CountInv'
  <2>1. Holding' = Holding \cup {t}
    BY <1>6 DEF Take, Holding, TypeOK
  <2>2. CASE task[t] = "granted"
    <3>1. t \in Holding
      BY <2>2 DEF Holding
    <3>2. Holding' = Holding
      BY <2>1, <3>1
    <3>3. free' = free
      BY <1>6, <2>2 DEF Take, SlotTaken
    <3>4. QED
      BY <3>2, <3>3 DEF CountInv
  <2>3. CASE task[t] # "granted"
    <3>1. t \notin Holding
      BY <1>6, <2>3 DEF Take, Holding
    <3>2. Cardinality(Holding') = Cardinality(Holding) + 1
      BY <2>1, <3>1, FS_AddElement
    <3>3. free' = free - 1
      BY <1>6, <2>3 DEF Take, SlotTaken
    <3>4. QED
      BY <1>0, <3>2, <3>3 DEF CountInv
  <2>4. QED
    BY <2>2, <2>3
<1>7. ASSUME NEW t \in Tasks, Release(t) PROVE CountInv'
  <2>0. t \in Holding
    BY <1>7 DEF Release
  <2>1. CASE waiters = <<>>
    <3>1. Holding' = Holding \ {t}
      BY <1>7, <2>1 DEF Release, Granted, Holding, TypeOK
    <3>2. Cardinality(Holding') = Cardinality(Holding) - 1
      BY <2>0, <3>1, FS_RemoveElement
    <3>3. free' = free + 1
      BY <1>7, <2>1 DEF Release, Released
    <3>4. QED
      BY <1>0, <3>2, <3>3 DEF CountInv
  <2>2. CASE waiters # <<>>
    <3> DEFINE h == Head(waiters)
    <3>1. h \in Tasks /\ h = waiters[1] /\ 1 \in 1..Len(waiters)
      BY <2>2, HeadTailProperties DEF TypeOK
    <3>2. task[h] = "waiting"
      BY <3>1 DEF QueueInv
    <3>3. h \notin Holding /\ h # t
      BY <2>0, <3>2 DEF Holding
    <3>4. \A u \in Tasks :
            task'[u] = IF u = h THEN "granted" ELSE IF u = t THEN "done" ELSE task[u]
      BY <1>7, <2>2, <3>1 DEF Release, Granted, TypeOK
    <3>5. Holding' = (Holding \ {t}) \cup {h}
      BY <3>1, <3>3, <3>4 DEF Holding
    <3>6. /\ IsFiniteSet(Holding \ {t})
          /\ Cardinality(Holding \ {t}) = Cardinality(Holding) - 1
      BY <2>0, FS_RemoveElement
    <3>7. Cardinality(Holding') = Cardinality(Holding \ {t}) + 1
      BY <3>3, <3>5, <3>6, FS_AddElement
    <3>8. free' = free
      BY <1>7, <2>2 DEF Release, Released
    <3>9. QED
      BY <1>0, <3>6, <3>7, <3>8 DEF CountInv
  <2>3. QED
    BY <2>1, <2>2
<1>8. QED
  BY <1>1, <1>2, <1>3, <1>4, <1>5, <1>6, <1>7, Shapes

(* No step starts a task but StartBatch. *)
LEMMA OnlyStartBatchStarts ==
  ASSUME TypeOK, QueueInv, [Next]_vars, ~Fresh, NEW t \in Tasks, task'[t] # "idle"
  PROVE  task[t] # "idle"
<1>1. CASE UNCHANGED <<task, waiters, free>> \/ Reset \/ Finish
  BY <1>1 DEF Reset, Finish
<1>2. ASSUME NEW u \in Tasks, Settle(u) \/ Enqueue(u) \/ Take(u) PROVE task[t] # "idle"
  BY <1>2 DEF Settle, Enqueue, Take, TypeOK
<1>3. ASSUME NEW u \in Tasks, Release(u) PROVE task[t] # "idle"
  <2>1. task[u] # "idle"
    BY <1>3 DEF Release, Holding
  <2>2. CASE waiters = <<>>
    BY <1>3, <2>1, <2>2 DEF Release, Granted, TypeOK
  <2>3. CASE waiters # <<>>
    <3>1. Head(waiters) \in Tasks /\ task[Head(waiters)] = "waiting"
      BY <2>3, HeadTailProperties DEF TypeOK, QueueInv
    <3>2. QED
      BY <1>3, <2>1, <2>3, <3>1 DEF Release, Granted, TypeOK
  <2>4. QED
    BY <2>2, <2>3
<1>4. QED
  BY <1>1, <1>2, <1>3, Shapes

-----------------------------------------------------------------------------
(* What a step does to the records. *)
Write(t, st, d, b) == records' = [records EXCEPT ![JobOf[t]] = Updated(records[JobOf[t]], st, d, b)]

LEMMA HandlerWrites ==
  ASSUME NEW t \in Tasks, NEW s \in Cuts
  PROVE  /\ ResumeCached(t, s) =>
              UNCHANGED records \/ Write(t, "succeeded", cache[records[JobOf[t]].key], FALSE)
         /\ Start(t, s) => UNCHANGED records \/ Write(t, "running", NoKey, FALSE)
         /\ Skip(t, s) => UNCHANGED records \/ Write(t, "canceled", NoKey, FALSE)
         /\ Succeed(t, s) => UNCHANGED records \/ Write(t, "succeeded", Evaluation(t), FALSE)
         /\ Fail(t, s) => UNCHANGED records \/ Write(t, "failed", NoKey, TRUE)
BY DEF ResumeCached, Start, Skip, Succeed, Fail, Update, Write

(* A handler killed before it wrote leaves only the reset memory behind.   *)
LEMMA EarlyKill ==
  ASSUME NEW t \in Tasks, NEW s \in Cuts, s < 2,
         \/ ResumeCached(t, s) \/ Start(t, s) \/ Skip(t, s)
         \/ Succeed(t, s) \/ Fail(t, s)
  PROVE  Reset /\ UNCHANGED records
<1>1. s # Whole
  BY DEF Whole
<1>2. ASSUME NEW t2, NEW w2, NEW f2, Volatile(t2, w2, f2, s) PROVE Reset
  BY <1>1, <1>2 DEF Volatile, Reset
<1>3. UNCHANGED records
  BY DEF ResumeCached, Start, Skip, Succeed, Fail, Update
<1>4. Reset
  BY <1>2 DEF ResumeCached, Start, Skip, Succeed, Fail
<1>5. QED
  BY <1>3, <1>4

LEMMA LateWrites ==
  ASSUME NEW t \in Tasks, NEW s \in Cuts, ~(s < 2)
  PROVE  /\ ResumeCached(t, s) => Write(t, "succeeded", cache[records[JobOf[t]].key], FALSE)
         /\ Start(t, s) => Write(t, "running", NoKey, FALSE)
         /\ Skip(t, s) => Write(t, "canceled", NoKey, FALSE)
         /\ Succeed(t, s) => Write(t, "succeeded", Evaluation(t), FALSE)
         /\ Fail(t, s) => Write(t, "failed", NoKey, TRUE)
BY DEF ResumeCached, Start, Skip, Succeed, Fail, Update, Write

LEMMA WriteEffect ==
  ASSUME TypeOK, NEW t \in Tasks, NEW st \in Status, NEW d, NEW b, Write(t, st, d, b)
  PROVE  /\ records'[JobOf[t]].status = st
         /\ records'[JobOf[t]].digest = (IF d = NoKey THEN records[JobOf[t]].digest ELSE d)
         /\ records'[JobOf[t]].cancel = records[JobOf[t]].cancel
         /\ records'[JobOf[t]].key = records[JobOf[t]].key
         /\ \A j \in Jobs : j # JobOf[t] => records'[j] = records[j]
BY TasksAreNumbers DEF Write, Updated, TypeOK

(* A record that exists is neither dropped nor given another key. *)
LEMMA RecordsAreKept ==
  ASSUME TypeOK, Registered, [Next]_vars, NEW j \in Jobs, records[j].status # "absent"
  PROVE  records'[j].status # "absent" /\ records'[j].key = records[j].key
<1> USE TasksAreNumbers
<1>a. Whole \in Cuts /\ 1 \in Cuts /\ 2 \in Cuts
  BY DEF Whole, Cuts
<1> DEFINE Kept == records'[j].status # "absent" /\ records'[j].key = records[j].key
<1>1. ASSUME NEW o \in Objectives, NEW c \in Dispatchers, StartBatch(o, c) PROVE Kept
  BY <1>1 DEF StartBatch, Created
<1>2. CASE UNCHANGED records
  BY <1>2
<1>3. ASSUME NEW t \in Tasks, NEW s \in Cuts,
             \/ ResumeCached(t, s) \/ Start(t, s) \/ Skip(t, s)
             \/ Succeed(t, s) \/ Fail(t, s)
      PROVE  Kept
  <2>1. \/ UNCHANGED records
        \/ \E st \in {"succeeded", "running", "canceled", "failed"} : \E d, b : Write(t, st, d, b)
    BY <1>3, HandlerWrites
  <2>2. ASSUME NEW st \in {"succeeded", "running", "canceled", "failed"}, NEW d, NEW b,
               Write(t, st, d, b)
        PROVE  Kept
    BY <2>2, WriteEffect DEF Status
  <2>3. QED
    BY <2>1, <2>2
<1>4. ASSUME NEW i \in Jobs, RequestCancel(i) PROVE Kept
  BY <1>4 DEF RequestCancel, TypeOK, Record
<1>5. QED
  <2>1. \/ Return \/ Interrupt \/ Kill \/ UNCHANGED vars
        \/ \E t \in Tasks : ResumeSucceeded(t) \/ AwaitSlot(t)
        \/ \E o \in orphans, ok \in BOOLEAN : OrphanReturns(o, ok)
        => UNCHANGED records
    BY DEF Return, Interrupt, Kill, vars, ResumeSucceeded, AwaitSlot, OrphanReturns
  <2>2. QED
    BY <1>a, <1>1, <1>2, <1>3, <1>4, <2>1 DEF Next, Step, KilledIn

(* A task that writes a record is running: its job's record exists. *)
LEMMA WritersRun ==
  ASSUME NEW t \in Tasks, NEW s \in Cuts,
         \/ ResumeCached(t, s) \/ Start(t, s) \/ Skip(t, s)
         \/ Succeed(t, s) \/ Fail(t, s)
  PROVE  task[t] # "idle"
BY DEF ResumeCached, Start, Skip, Succeed, Fail, Turn, HasSlot, Pursue, Evaluates

(* A record comes to be only as create makes it. *)
LEMMA RecordsAreCreated ==
  ASSUME TypeOK, Registered, [Next]_vars, NEW j \in Jobs,
         records[j].status = "absent", records'[j].status # "absent"
  PROVE  \E o \in Objectives : records'[j] = NewRecord(j, o)
<1> USE TasksAreNumbers
<1>a. Whole \in Cuts /\ 1 \in Cuts /\ 2 \in Cuts
  BY DEF Whole, Cuts
<1>1. ASSUME NEW o \in Objectives, NEW c \in Dispatchers, StartBatch(o, c)
      PROVE  records'[j] = NewRecord(j, o)
  <2>1. records'[j] = NewRecord(j, o) \/ records'[j] = records[j]
    BY <1>1 DEF StartBatch, Created
  <2>2. QED
    BY <2>1
<1>2. records' # records
  OBVIOUS
<1>3. ASSUME NEW t \in Tasks, NEW s \in Cuts,
             \/ ResumeCached(t, s) \/ Start(t, s) \/ Skip(t, s)
             \/ Succeed(t, s) \/ Fail(t, s)
      PROVE  FALSE
  <2>1. JobOf[t] # j
    BY <1>3, WritersRun DEF Registered
  <2>2. \/ UNCHANGED records
        \/ \E st \in {"succeeded", "running", "canceled", "failed"} : \E d, b : Write(t, st, d, b)
    BY <1>3, HandlerWrites
  <2>3. records'[j] = records[j]
    BY <2>1, <2>2, WriteEffect DEF Status
  <2>4. QED
    BY <2>3
<1>4. ASSUME NEW i \in Jobs, RequestCancel(i) PROVE FALSE
  <2>1. i # j
    BY <1>4 DEF RequestCancel
  <2>2. QED
    BY <1>4, <2>1 DEF RequestCancel, TypeOK
<1>5. QED
  <2>1. \/ Return \/ Interrupt \/ Kill \/ UNCHANGED vars
        \/ \E t \in Tasks : ResumeSucceeded(t) \/ AwaitSlot(t)
        \/ \E o \in orphans, ok \in BOOLEAN : OrphanReturns(o, ok)
        => UNCHANGED records
    BY DEF Return, Interrupt, Kill, vars, ResumeSucceeded, AwaitSlot, OrphanReturns
  <2>2. QED
    BY <1>a, <1>1, <1>2, <1>3, <1>4, <2>1 DEF Next, Step, KilledIn

LEMMA RecordsComeWithKeys ==
  ASSUME TypeOK, Registered, [Next]_vars, NEW j \in Jobs, records'[j].status # "absent"
  PROVE  records'[j].key \in Keys
<1>1. CASE records[j].status # "absent"
  BY <1>1, RecordsAreKept DEF Registered
<1>2. CASE records[j].status = "absent"
  <2>1. PICK o \in Objectives : records'[j] = NewRecord(j, o)
    BY <1>2, RecordsAreCreated
  <2>2. QED
    BY <2>1, KeysOfJobs DEF NewRecord
<1>3. QED
  BY <1>1, <1>2

LEMMA RegisteredStep ==
  ASSUME TypeOK, Registered, QueueInv, [Next]_vars
  PROVE  Registered'
<1>1. ASSUME NEW t \in Tasks, task'[t] # "idle" PROVE records'[JobOf[t]].status # "absent"
  <2>1. CASE task[t] # "idle"
    BY <2>1, RecordsAreKept, TasksAreNumbers DEF Registered
  <2>2. CASE task[t] = "idle"
    <3>1. Fresh
      BY <1>1, <2>2, OnlyStartBatchStarts
    <3>2. PICK o \in Objectives, c \in Dispatchers : StartBatch(o, c)
      BY <3>1 DEF Fresh
    <3>3. QED
      BY <3>2, TasksAreNumbers DEF StartBatch, Created, NewRecord
  <2>3. QED
    BY <2>1, <2>2
<1>2. QED
  BY <1>1, RecordsComeWithKeys DEF Registered

(* The invariant of the semaphore and the store, and what it implies.      *)
IInv == TypeOK /\ Registered /\ QueueInv /\ CountInv

LEMMA InitInv == Init => IInv
<1> SUFFICES ASSUME Init PROVE IInv
  OBVIOUS
<1>1. TypeOK
  BY PlanAssumption DEF Init, TypeOK, NoRecord, Record, Status, TaskState, Keys
<1>2. Registered
  BY TasksAreNumbers DEF Init, Registered, NoRecord
<1>3. QueueInv
  <2>1. Len(waiters) = 0 /\ waiters = <<>>
    BY DEF Init
  <2>2. QED
    BY <2>1 DEF Init, QueueInv
<1>4. CountInv
  <2>1. Holding = {}
    BY DEF Init, Holding
  <2>2. QED
    BY <2>1, FS_EmptySet, PlanAssumption DEF Init, CountInv
<1>5. QED
  BY <1>1, <1>2, <1>3, <1>4 DEF IInv

LEMMA InvStep == IInv /\ [Next]_vars => IInv'
BY TypeStep, RegisteredStep, QueueStep, CountStep DEF IInv

THEOREM InvHolds == Spec => []IInv
BY InitInv, InvStep, PTL DEF Spec

(* The state keeps its shape: for every plan, however calls end.           *)
THEOREM TypeCorrect == Spec => []TypeOK
<1>1. IInv => TypeOK
  BY DEF IInv
<1>2. QED
  BY <1>1, InvHolds, PTL

(* The semaphore of run_batch neither loses nor makes up a slot, and no    *)
(* slot is idle while a run_one waits, on any path out of the handler.     *)
THEOREM SlotsAreConserved == Spec => []SlotsConserved
<1>1. IInv => SlotsConserved
  <2> SUFFICES ASSUME IInv PROVE SlotsConserved
    OBVIOUS
  <2>1. {waiters[i] : i \in DOMAIN waiters} = {t \in Tasks : task[t] = "waiting"}
    BY DEF IInv, QueueInv, TypeOK
  <2>2. QED
    BY <2>1 DEF IInv, QueueInv, CountInv, SlotsConserved
<1>2. QED
  BY <1>1, InvHolds, PTL

-----------------------------------------------------------------------------
(* The jobs, when the plan lists each once: a task that waits, or was just *)
(* handed a slot, still has work to do when it gets to run, although it    *)
(* looked at its record before it waited; a result is there exactly when   *)
(* the job has succeeded.                                                  *)
Unfinished == {"pending", "running", "failed", "canceled"}

JobInv ==
  /\ \A t \in Tasks :
       /\ task[t] \in {"waiting", "granted"} => records[JobOf[t]].status \in Unfinished
       /\ task[t] \in {"evaluating", "returning"} => records[JobOf[t]].status = "running"
  /\ \A j \in Jobs : records[j].digest # NoKey <=> records[j].status = "succeeded"
  /\ \A j \in Jobs : records[j].status = "absent" => records[j].cancel = FALSE

(* The other tasks stay where they are, but for the one handed the slot.   *)
Others(t) ==
  \A u \in Tasks : u # t =>
    \/ task'[u] = task[u]
    \/ task[u] = "waiting" /\ task'[u] = "granted"
    \/ task'[u] = "idle"

LEMMA OthersStay ==
  ASSUME TypeOK, QueueInv, NEW t \in Tasks,
         Reset \/ Settle(t) \/ Enqueue(t) \/ Take(t) \/ Release(t)
  PROVE  Others(t)
<1>1. CASE Reset \/ Settle(t) \/ Enqueue(t) \/ Take(t)
  BY <1>1 DEF Reset, Settle, Enqueue, Take, Others, TypeOK
<1>2. CASE Release(t)
  <2>1. CASE waiters = <<>>
    BY <1>2, <2>1 DEF Release, Granted, Others, TypeOK
  <2>2. CASE waiters # <<>>
    <3>1. Head(waiters) \in Tasks /\ task[Head(waiters)] = "waiting"
      BY <2>2, HeadTailProperties DEF TypeOK, QueueInv
    <3>2. QED
      BY <1>2, <2>2, <3>1 DEF Release, Granted, Others, TypeOK
  <2>3. QED
    BY <2>1, <2>2
<1>3. QED
  BY <1>1, <1>2

(* A handler that writes st leaves its own task where JobInv wants it.     *)
LEMMA JobInvWrite ==
  ASSUME IInv, DistinctPlan, JobInv, NEW t \in Tasks,
         NEW st \in Status \ {"absent"}, NEW d \in Keys \cup {NoKey}, NEW b,
         Write(t, st, d, b), Others(t),
         d # NoKey <=> st = "succeeded",
         records[JobOf[t]].status # "succeeded",
         task'[t] \notin {"waiting", "granted"},
         task'[t] \in {"evaluating", "returning"} => st = "running"
  PROVE  JobInv'
<1> USE TasksAreNumbers
<1>1. /\ records'[JobOf[t]].status = st
      /\ records'[JobOf[t]].digest = (IF d = NoKey THEN records[JobOf[t]].digest ELSE d)
      /\ \A j \in Jobs : j # JobOf[t] => records'[j] = records[j]
  BY WriteEffect DEF IInv
<1>2. ASSUME NEW u \in Tasks
      PROVE  /\ task'[u] \in {"waiting", "granted"} => records'[JobOf[u]].status \in Unfinished
             /\ task'[u] \in {"evaluating", "returning"} => records'[JobOf[u]].status = "running"
  <2>1. CASE u = t
    BY <2>1, <1>1
  <2>2. CASE u # t
    <3>1. records'[JobOf[u]] = records[JobOf[u]]
      BY <2>2, <1>1 DEF DistinctPlan
    <3>2. QED
      BY <2>2, <3>1 DEF Others, JobInv
  <2>3. QED
    BY <2>1, <2>2
<1>3. ASSUME NEW j \in Jobs
      PROVE  records'[j].digest # NoKey <=> records'[j].status = "succeeded"
  BY <1>1 DEF JobInv
<1>4. \A j \in Jobs : records'[j].status = "absent" => records'[j].cancel = FALSE
  BY <1>1 DEF JobInv
<1>5. QED
  BY <1>2, <1>3, <1>4 DEF JobInv

(* ... and one that writes nothing, too. *)
LEMMA JobInvQuiet ==
  ASSUME JobInv, UNCHANGED records, NEW t \in Tasks, Others(t),
         task'[t] \notin {"waiting", "granted", "evaluating", "returning"}
  PROVE  JobInv'
BY DEF JobInv, Others

LEMMA JobInvReset ==
  ASSUME JobInv, UNCHANGED records, Reset \/ Finish \/ UNCHANGED <<task, waiters, free>>
  PROVE  JobInv'
BY DEF JobInv, Reset, Finish

(* What a handler knows of the job it writes. *)
LEMMA WriterKnows ==
  ASSUME IInv, JobInv, NEW t \in Tasks, NEW s \in Cuts
  PROVE  /\ ResumeCached(t, s) =>
              /\ records[JobOf[t]].status \in Unfinished
              /\ cache[records[JobOf[t]].key] \in Keys
         /\ Start(t, s) => records[JobOf[t]].status \in Unfinished /\ ~records[JobOf[t]].cancel
         /\ Skip(t, s) => records[JobOf[t]].status \in Unfinished /\ records[JobOf[t]].cancel
         /\ Succeed(t, s) => records[JobOf[t]].status = "running" /\ Evaluation(t) \in Keys
         /\ Fail(t, s) => records[JobOf[t]].status = "running"
<1> USE TasksAreNumbers, KeysOfJobs
<1>0. /\ records[JobOf[t]].status \in Status
      /\ \A j \in Jobs : records[j].cancel \in BOOLEAN
  BY DEF IInv, TypeOK, Record
<1>1. task[t] # "idle" => records[JobOf[t]].status # "absent" /\ records[JobOf[t]].key \in Keys
  BY DEF IInv, Registered
<1>2. HasSlot(t) => records[JobOf[t]].status \in Unfinished
  <2>1. CASE task[t] = "granted"
    BY <2>1 DEF JobInv
  <2>2. CASE Pursue(t)
    BY <1>0, <1>1, <2>2 DEF Pursue, Turn, Unfinished, Status
  <2>3. QED
    BY <2>1, <2>2 DEF HasSlot
<1>3. ResumeCached(t, s) => /\ records[JobOf[t]].status \in Unfinished
                            /\ cache[records[JobOf[t]].key] \in Keys
  <2>1. SUFFICES ASSUME ResumeCached(t, s)
                 PROVE  /\ records[JobOf[t]].status \in Unfinished
                        /\ cache[records[JobOf[t]].key] \in Keys
    OBVIOUS
  <2>2. /\ task[t] = "ready" /\ records[JobOf[t]].status # "succeeded"
        /\ cache[records[JobOf[t]].key] # NoKey
    BY <2>1 DEF ResumeCached, Turn, Cached
  <2>3. cache[records[JobOf[t]].key] \in Keys \cup {NoKey}
    BY <1>1, <2>2 DEF IInv, TypeOK
  <2>4. QED
    BY <1>0, <1>1, <2>2, <2>3 DEF Unfinished, Status
<1>4. Start(t, s) => records[JobOf[t]].status \in Unfinished /\ ~records[JobOf[t]].cancel
  BY <1>2 DEF Start, CancelSeen
<1>5. Skip(t, s) => records[JobOf[t]].status \in Unfinished /\ records[JobOf[t]].cancel
  BY <1>2 DEF Skip, CancelSeen
<1>6. Evaluation(t) \in Keys
  BY DEF Evaluation, IInv, TypeOK
<1>7. Succeed(t, s) \/ Fail(t, s) => records[JobOf[t]].status = "running"
  BY DEF Succeed, Fail, Evaluates, JobInv
<1>8. QED
  BY <1>3, <1>4, <1>5, <1>6, <1>7

(* Where a handler leaves its own task. *)
LEMMA WriterEnds ==
  ASSUME IInv, NEW t \in Tasks, NEW s \in Cuts
  PROVE  /\ Start(t, s) => task'[t] \in {"evaluating", "returning", "idle"}
         /\ ResumeCached(t, s) \/ Skip(t, s) \/ Succeed(t, s) \/ Fail(t, s) =>
              task'[t] \in {"done", "idle"}
<1>1. Reset => task'[t] = "idle"
  BY DEF Reset
<1>2. Take(t) => task'[t] \in {"evaluating", "returning"}
  BY DEF Take, IInv, TypeOK
<1>3. Settle(t) => task'[t] = "done"
  BY DEF Settle, IInv, TypeOK
<1>4. Release(t) => task'[t] = "done"
  <2>1. waiters # <<>> => Head(waiters) \in Tasks /\ task[Head(waiters)] = "waiting"
    BY HeadTailProperties DEF IInv, TypeOK, QueueInv
  <2>2. Release(t) => task[t] # "waiting"
    BY DEF Release, Holding
  <2>3. QED
    BY <2>1, <2>2 DEF Release, Granted, IInv, TypeOK
<1>5. QED
  BY <1>1, <1>2, <1>3, <1>4, HandlerShapes

LEMMA JobInvStep ==
  ASSUME IInv, DistinctPlan, JobInv, [Next]_vars
  PROVE  JobInv'
<1> USE TasksAreNumbers
<1>a. Whole \in Cuts /\ 1 \in Cuts /\ 2 \in Cuts
  BY DEF Whole, Cuts
<1>b. TypeOK /\ QueueInv
  BY DEF IInv
<1>1. ASSUME NEW o \in Objectives, NEW c \in Dispatchers, StartBatch(o, c) PROVE JobInv'
  <2>1. \A j \in Jobs : records'[j] = NewRecord(j, o) \/ records'[j] = records[j]
    BY <1>1 DEF StartBatch, Created
  <2>2. ASSUME NEW j \in Jobs
        PROVE  /\ records'[j].digest # NoKey <=> records'[j].status = "succeeded"
               /\ records'[j].status = "absent" => records'[j].cancel = FALSE
    <3>1. NewRecord(j, o).digest = NoKey /\ NewRecord(j, o).status = "pending"
      BY DEF NewRecord
    <3>2. CASE records'[j] = NewRecord(j, o)
      BY <3>1, <3>2
    <3>3. CASE records'[j] = records[j]
      BY <3>3 DEF JobInv
    <3>4. QED
      BY <2>1, <3>2, <3>3
  <2>3. QED
    BY <1>1, <2>2 DEF StartBatch, JobInv
<1>2. ASSUME NEW t \in Tasks, ResumeSucceeded(t) PROVE JobInv'
  <2>1. Settle(t) /\ UNCHANGED records
    BY <1>2 DEF ResumeSucceeded, Turn, Settle
  <2>2. task'[t] = "done"
    BY <2>1, <1>b DEF Settle, TypeOK
  <2>3. QED
    BY <2>1, <2>2, <1>b, OthersStay, JobInvQuiet
<1>3. ASSUME NEW t \in Tasks, AwaitSlot(t) PROVE JobInv'
  <2>1. Enqueue(t) /\ UNCHANGED records /\ records[JobOf[t]].status # "succeeded"
    BY <1>3 DEF AwaitSlot, Pursue, Turn, Enqueue
  <2>2. records[JobOf[t]].status \in Unfinished
    <3>1. records[JobOf[t]].status # "absent"
      BY <2>1 DEF Enqueue, IInv, Registered
    <3>2. records[JobOf[t]].status \in Status
      BY <1>b DEF TypeOK, Record
    <3>3. QED
      BY <2>1, <3>1, <3>2 DEF Status, Unfinished
  <2>3. \A u \in Tasks : task'[u] = IF u = t THEN "waiting" ELSE task[u]
    BY <2>1, <1>b DEF Enqueue, TypeOK
  <2>4. QED
    BY <2>1, <2>2, <2>3 DEF JobInv
<1>4. ASSUME NEW t \in Tasks, NEW s \in Cuts,
             \/ ResumeCached(t, s) \/ Start(t, s) \/ Skip(t, s)
             \/ Succeed(t, s) \/ Fail(t, s)
      PROVE  JobInv'
  <2>0. Others(t)
    BY <1>4, <1>b, HandlerShapes, OthersStay
  <2>1. CASE s < 2
    BY <1>4, <2>1, EarlyKill, JobInvReset
  <2>2. CASE ~(s < 2)
    <3>0. \A st \in {"succeeded", "running", "canceled", "failed"} : st \in Status \ {"absent"}
      BY DEF Status
    <3>1. CASE ResumeCached(t, s)
      <4>1. /\ cache[records[JobOf[t]].key] \in Keys
            /\ records[JobOf[t]].status # "succeeded"
        BY <3>1, WriterKnows DEF Unfinished
      <4>2. QED
        BY <2>0, <2>2, <3>0, <3>1, <4>1, KeysOfJobs, LateWrites, WriterEnds, JobInvWrite
    <3>2. CASE Start(t, s)
      <4>1. records[JobOf[t]].status # "succeeded"
        BY <3>2, WriterKnows DEF Unfinished
      <4>2. QED
        BY <2>0, <2>2, <3>0, <3>2, <4>1, LateWrites, WriterEnds, JobInvWrite
    <3>3. CASE Skip(t, s)
      <4>1. records[JobOf[t]].status # "succeeded"
        BY <3>3, WriterKnows DEF Unfinished
      <4>2. QED
        BY <2>0, <2>2, <3>0, <3>3, <4>1, LateWrites, WriterEnds, JobInvWrite
    <3>4. CASE Succeed(t, s)
      <4>1. records[JobOf[t]].status # "succeeded" /\ Evaluation(t) \in Keys
        BY <3>4, WriterKnows
      <4>2. QED
        BY <2>0, <2>2, <3>0, <3>4, <4>1, KeysOfJobs, LateWrites, WriterEnds, JobInvWrite
    <3>5. CASE Fail(t, s)
      <4>1. records[JobOf[t]].status # "succeeded"
        BY <3>5, WriterKnows
      <4>2. QED
        BY <2>0, <2>2, <3>0, <3>5, <4>1, LateWrites, WriterEnds, JobInvWrite
    <3>6. QED
      BY <1>4, <3>1, <3>2, <3>3, <3>4, <3>5
  <2>3. QED
    BY <2>1, <2>2
<1>5. ASSUME NEW i \in Jobs, RequestCancel(i) PROVE JobInv'
  <2>1. \A j \in Jobs : /\ records'[j].status = records[j].status
                        /\ records'[j].digest = records[j].digest
    BY <1>5, <1>b DEF RequestCancel, TypeOK, Record
  <2>2. UNCHANGED task
    BY <1>5 DEF RequestCancel
  <2>3. \A j \in Jobs : records'[j].status = "absent" => records'[j].cancel = FALSE
    <3>1. records[i].status # "absent"
      BY <1>5 DEF RequestCancel
    <3>2. \A j \in Jobs : j # i => records'[j] = records[j]
      BY <1>5, <1>b DEF RequestCancel, TypeOK
    <3>3. QED
      BY <2>1, <3>1, <3>2 DEF JobInv
  <2>4. QED
    BY <2>1, <2>2, <2>3 DEF JobInv
<1>6. CASE \/ Return \/ Interrupt \/ Kill \/ UNCHANGED vars
           \/ \E o \in orphans, ok \in BOOLEAN : OrphanReturns(o, ok)
  <2>1. UNCHANGED records
    BY <1>6 DEF Return, Interrupt, Kill, vars, OrphanReturns
  <2>2. Reset \/ Finish \/ UNCHANGED <<task, waiters, free>>
    BY <1>6 DEF Return, Interrupt, Kill, vars, OrphanReturns, Reset, Finish, Volatile, Whole
  <2>3. QED
    BY <2>1, <2>2, JobInvReset
<1>7. QED
  BY <1>a, <1>1, <1>2, <1>3, <1>4, <1>5, <1>6 DEF Next, Step, KilledIn

LEMMA JobInvHolds ==
  ASSUME DistinctPlan
  PROVE  Spec => []JobInv
<1>1. Init => JobInv
  BY DEF Init, JobInv, NoRecord
<1>2. IInv /\ JobInv /\ [Next]_vars => JobInv'
  BY JobInvStep
<1>3. QED
  BY <1>1, <1>2, InvHolds, PTL DEF Spec

-----------------------------------------------------------------------------
(* The refinement. *)
LEMMA Bars ==
  ASSUME TypeOK, NEW t \in Tasks, NEW st \in Status, NEW d, NEW b, Write(t, st, d, b)
  PROVE  /\ jobStatus' = [jobStatus EXCEPT ![JobOf[t]] = st]
         /\ jobResult' = IF d = NoKey THEN jobResult ELSE [jobResult EXCEPT ![JobOf[t]] = d]
         /\ jobCancelled' = jobCancelled
<1>1. PICK i \in Jobs : i = JobOf[t]
  BY TasksAreNumbers
<1>2. /\ records'[i].status = st
      /\ records'[i].digest = (IF d = NoKey THEN records[i].digest ELSE d)
      /\ records'[i].cancel = records[i].cancel
      /\ \A j \in Jobs : j # i => records'[j] = records[j]
  BY <1>1, WriteEffect
<1>3. jobStatus' = [jobStatus EXCEPT ![i] = st]
  BY <1>2 DEF jobStatus
<1>4. jobResult' = IF d = NoKey THEN jobResult ELSE [jobResult EXCEPT ![i] = d]
  BY <1>2 DEF jobResult
<1>5. jobCancelled' = jobCancelled
  BY <1>2 DEF jobCancelled
<1>6. QED
  BY <1>1, <1>3, <1>4, <1>5

LEMMA LifecycleStep ==
  ASSUME IInv, JobInv, [Next]_vars
  PROVE  Lifecycle!Next \/ UNCHANGED <<jobStatus, jobResult, jobCancelled>>
<1> USE TasksAreNumbers
<1>a. Whole \in Cuts /\ 1 \in Cuts /\ 2 \in Cuts
  BY DEF Whole, Cuts
<1>b. TypeOK
  BY DEF IInv
<1>q. UNCHANGED records => UNCHANGED <<jobStatus, jobResult, jobCancelled>>
  BY DEF jobStatus, jobResult, jobCancelled
<1>1. ASSUME NEW o \in Objectives, NEW c \in Dispatchers, StartBatch(o, c) PROVE Lifecycle!Next
  <2> DEFINE new == {j \in Jobs : records[j].status = "absent" /\ \E t \in Tasks : JobOf[t] = j}
  <2>1. \A j \in Jobs : records'[j] = IF j \in new THEN NewRecord(j, o) ELSE records[j]
    BY <1>1 DEF StartBatch, Created
  <2>2. \A j \in new : /\ NewRecord(j, o).status = "pending"
                       /\ NewRecord(j, o).digest = NoKey
                       /\ NewRecord(j, o).cancel = FALSE
    BY DEF NewRecord
  <2>3. \A j \in new : /\ records[j].digest = NoKey
                       /\ records[j].cancel = FALSE
    BY DEF JobInv
  <2>4. /\ \A j \in new : jobStatus[j] = "absent"
        /\ jobStatus' = [j \in Jobs |-> IF j \in new THEN "pending" ELSE jobStatus[j]]
    <3>1. \A j \in Jobs : records'[j].status = IF j \in new THEN "pending" ELSE records[j].status
      BY <2>1, <2>2
    <3>2. \A j \in new : jobStatus[j] = "absent"
      BY DEF jobStatus
    <3> HIDE DEF new
    <3>3. QED
      BY <3>1, <3>2 DEF jobStatus
  <2>5. jobResult' = jobResult
    BY <2>1, <2>2, <2>3 DEF jobResult
  <2>6. jobCancelled' = jobCancelled
    <3>1. ASSUME NEW j \in Jobs PROVE records'[j].cancel = records[j].cancel
      <4>1. CASE j \in new
        <5>1. records'[j].cancel = FALSE
          BY <2>1, <2>2, <4>1
        <5>2. QED
          BY <2>3, <4>1, <5>1
      <4>2. CASE j \notin new
        BY <2>1, <4>2
      <4>3. QED
        BY <4>1, <4>2
    <3>2. QED
      BY <3>1 DEF jobCancelled
  <2>7. Lifecycle!Create
    <3>1. new \in SUBSET Jobs
      OBVIOUS
    <3> HIDE DEF new
    <3>2. QED
      BY <2>4, <2>5, <2>6, <3>1 DEF Lifecycle!Create
  <2>8. QED
    BY <2>7 DEF Lifecycle!Next
<1>2. ASSUME NEW t \in Tasks, NEW s \in Cuts,
             \/ ResumeCached(t, s) \/ Start(t, s) \/ Skip(t, s)
             \/ Succeed(t, s) \/ Fail(t, s),
             ~(s < 2)
      PROVE  Lifecycle!Next
  <2> DEFINE j == JobOf[t]
  <2>0. /\ \A st \in {"succeeded", "running", "canceled", "failed"} : st \in Status
        /\ j \in Jobs
        /\ jobStatus[j] = records[j].status
        /\ jobResult[j] = records[j].digest
        /\ jobCancelled[j] = records[j].cancel
    BY DEF Status, jobStatus, jobResult, jobCancelled
  <2>1. CASE ResumeCached(t, s)
    <3>1. cache[records[j].key] \in Keys /\ jobStatus[j] \in Lifecycle!Unfinished
      BY <2>0, <2>1, WriterKnows DEF Unfinished, Lifecycle!Unfinished
    <3>2. jobResult[j] = NoKey
      BY <2>0, <3>1 DEF JobInv, Lifecycle!Unfinished
    <3>3. PICK d \in Keys : d = cache[records[j].key]
      BY <3>1
    <3>4. Write(t, "succeeded", d, FALSE)
      BY <1>2, <2>1, <3>3, LateWrites
    <3>5. d # NoKey
      BY <3>3, KeysOfJobs
    <3>6. /\ jobStatus' = [jobStatus EXCEPT ![j] = "succeeded"]
          /\ jobResult' = [jobResult EXCEPT ![j] = d]
          /\ jobCancelled' = jobCancelled
      BY <1>b, <2>0, <3>4, <3>5, Bars
    <3>7. Lifecycle!Succeed(j, d)
      BY <3>1, <3>2, <3>6 DEF Lifecycle!Succeed
    <3>8. QED
      BY <2>0, <3>3, <3>7 DEF Lifecycle!Next
  <2>2. CASE Start(t, s)
    <3>1. jobStatus[j] \in Lifecycle!Unfinished /\ ~jobCancelled[j]
      BY <2>0, <2>2, WriterKnows DEF Unfinished, Lifecycle!Unfinished
    <3>2. Lifecycle!Start(j)
      BY <1>2, <1>b, <2>0, <2>2, <3>1, LateWrites, Bars DEF Lifecycle!Start
    <3>3. QED
      BY <2>0, <3>2 DEF Lifecycle!Next
  <2>3. CASE Skip(t, s)
    <3>1. jobStatus[j] \in Lifecycle!Unfinished /\ jobCancelled[j]
      BY <2>0, <2>3, WriterKnows DEF Unfinished, Lifecycle!Unfinished
    <3>2. Lifecycle!Skip(j)
      BY <1>2, <1>b, <2>0, <2>3, <3>1, LateWrites, Bars DEF Lifecycle!Skip
    <3>3. QED
      BY <2>0, <3>2 DEF Lifecycle!Next
  <2>4. CASE Succeed(t, s)
    <3>1. Evaluation(t) \in Keys /\ jobStatus[j] \in Lifecycle!Unfinished
      BY <2>0, <2>4, WriterKnows DEF Lifecycle!Unfinished
    <3>2. jobResult[j] = NoKey
      BY <2>0, <3>1 DEF JobInv, Lifecycle!Unfinished
    <3>3. Write(t, "succeeded", Evaluation(t), FALSE)
      BY <1>2, <2>4, LateWrites
    <3>4. Evaluation(t) # NoKey
      BY <3>1, KeysOfJobs
    <3>5. /\ jobStatus' = [jobStatus EXCEPT ![j] = "succeeded"]
          /\ jobResult' = [jobResult EXCEPT ![j] = Evaluation(t)]
          /\ jobCancelled' = jobCancelled
      BY <1>b, <2>0, <3>3, <3>4, Bars
    <3>6. Lifecycle!Succeed(j, Evaluation(t))
      BY <3>1, <3>2, <3>5 DEF Lifecycle!Succeed
    <3>7. QED
      BY <2>0, <3>1, <3>6 DEF Lifecycle!Next
  <2>5. CASE Fail(t, s)
    <3>1. jobStatus[j] = "running"
      BY <2>0, <2>5, WriterKnows
    <3>2. Lifecycle!Fail(j)
      BY <1>2, <1>b, <2>0, <2>5, <3>1, LateWrites, Bars DEF Lifecycle!Fail
    <3>3. QED
      BY <2>0, <3>2 DEF Lifecycle!Next
  <2>6. QED
    BY <1>2, <2>1, <2>2, <2>3, <2>4, <2>5
<1>3. ASSUME NEW t \in Tasks, NEW s \in Cuts,
             \/ ResumeCached(t, s) \/ Start(t, s) \/ Skip(t, s)
             \/ Succeed(t, s) \/ Fail(t, s),
             s < 2
      PROVE  UNCHANGED <<jobStatus, jobResult, jobCancelled>>
  BY <1>3, <1>q, EarlyKill
<1>4. ASSUME NEW j \in Jobs, RequestCancel(j) PROVE Lifecycle!Next
  <2>1. /\ \A i \in Jobs : /\ records'[i].status = records[i].status
                           /\ records'[i].digest = records[i].digest
                           /\ i # j => records'[i].cancel = records[i].cancel
        /\ records'[j].cancel = TRUE
        /\ records[j].status # "absent"
    BY <1>4, <1>b DEF RequestCancel, TypeOK, Record
  <2>2. /\ jobStatus' = jobStatus /\ jobResult' = jobResult
        /\ jobCancelled' = [jobCancelled EXCEPT ![j] = TRUE]
        /\ jobStatus[j] # "absent"
    BY <2>1 DEF jobStatus, jobResult, jobCancelled
  <2>3. QED
    BY <2>2 DEF Lifecycle!Next, Lifecycle!Cancel
<1>5. QED
  <2>1. \/ Return \/ Interrupt \/ Kill \/ UNCHANGED vars
        \/ \E t \in Tasks : ResumeSucceeded(t) \/ AwaitSlot(t)
        \/ \E o \in orphans, ok \in BOOLEAN : OrphanReturns(o, ok)
        => UNCHANGED records
    BY DEF Return, Interrupt, Kill, vars, ResumeSucceeded, AwaitSlot, OrphanReturns
  <2>2. QED
    BY <1>a, <1>q, <1>1, <1>2, <1>3, <1>4, <2>1 DEF Next, Step, KilledIn

(* run_batch keeps what Studio promises of a job: durable, cancelable and  *)
(* resumable, for every plan that lists no job twice, however its calls    *)
(* are interrupted, killed and repeated.                                   *)
THEOREM LifecycleIsImplemented ==
  ASSUME DistinctPlan
  PROVE  Spec => ImplementsLifecycle
<1>1. Init => Lifecycle!Init
  BY DEF Init, NoRecord, Lifecycle!Init, jobStatus, jobResult, jobCancelled
<1>2. IInv /\ JobInv /\ [Next]_vars => [Lifecycle!Next]_(Lifecycle!jobVars)
  BY LifecycleStep DEF Lifecycle!jobVars
<1>3. QED
  BY <1>1, <1>2, InvHolds, JobInvHolds, PTL DEF Spec, ImplementsLifecycle, Lifecycle!Spec

LEMMA SuccessKept ==
  ASSUME IInv, JobInv, [Next]_vars, NEW j \in Jobs, records[j].status = "succeeded"
  PROVE  records'[j].status = "succeeded" /\ records'[j].digest = records[j].digest
<1>1. /\ jobStatus[j] = "succeeded" /\ jobResult[j] # NoKey
      /\ jobStatus'[j] = records'[j].status
      /\ jobResult[j] = records[j].digest /\ jobResult'[j] = records'[j].digest
  BY DEF jobStatus, jobResult, JobInv
<1>2. CASE UNCHANGED <<jobStatus, jobResult, jobCancelled>>
  BY <1>1, <1>2
<1>3. CASE Lifecycle!Next
  <2>1. jobStatus'[j] = "succeeded" /\ jobResult'[j] = jobResult[j]
    BY <1>1, <1>3 DEF Lifecycle!Next, Lifecycle!Create, Lifecycle!Cancel, Lifecycle!Start,
       Lifecycle!Skip, Lifecycle!Fail, Lifecycle!Succeed, Lifecycle!Unfinished,
       jobStatus, jobResult
  <2>2. QED
    BY <1>1, <2>1
<1>4. QED
  BY <1>2, <1>3, LifecycleStep

(* A job that succeeded keeps its status and its result through every      *)
(* later step, run again or not, when the plan lists no job twice.         *)
THEOREM SuccessIsFinal ==
  ASSUME DistinctPlan
  PROVE  Spec => SucceededIsFinal
<1>1. IInv /\ JobInv /\ [Next]_vars =>
        [\A j \in Jobs : records[j].status = "succeeded" =>
           /\ records'[j].status = "succeeded"
           /\ records'[j].digest = records[j].digest]_vars
  BY SuccessKept
<1>2. QED
  BY <1>1, InvHolds, JobInvHolds, PTL DEF Spec, SucceededIsFinal

-----------------------------------------------------------------------------
(* The cache, when one store is kept for one objective. *)

LEMMA NextCases ==
  ASSUME [Next]_vars
  PROVE  \/ \E o \in Objectives, c \in Dispatchers : StartBatch(o, c)
         \/ \E t \in Tasks : ResumeSucceeded(t) \/ AwaitSlot(t)
         \/ \E t \in Tasks, s \in Cuts :
              \/ ResumeCached(t, s) \/ Start(t, s) \/ Skip(t, s)
              \/ Succeed(t, s) \/ Fail(t, s)
         \/ \E j \in Jobs : RequestCancel(j)
         \/ Return \/ Interrupt \/ Kill \/ UNCHANGED vars
         \/ \E o \in orphans, ok \in BOOLEAN : OrphanReturns(o, ok)
<1>1. Whole \in Cuts /\ 1 \in Cuts /\ 2 \in Cuts
  BY DEF Whole, Cuts
<1>2. QED
  BY <1>1 DEF Next, Step, KilledIn

OwnKeys == \A j \in Jobs : records[j].status # "absent" => records[j].key = cache_key(j, objective)

LEMMA OwnKeysStep ==
  ASSUME OneObjective, IInv, OwnKeys, [Next]_vars, IInv'
  PROVE  OwnKeys'
<1> SUFFICES ASSUME NEW j \in Jobs, records'[j].status # "absent"
             PROVE  records'[j].key = cache_key(j, objective')
  BY DEF OwnKeys, cache_key
<1>0. \A o \in Objectives : o = objective'
  BY DEF OneObjective, IInv, TypeOK
<1>1. CASE records[j].status # "absent"
  <2>1. records'[j].key = cache_key(j, objective)
    BY <1>1, RecordsAreKept DEF IInv, OwnKeys
  <2>2. objective = objective'
    BY <1>0 DEF IInv, TypeOK
  <2>3. QED
    BY <2>1, <2>2
<1>2. CASE records[j].status = "absent"
  <2>1. PICK o \in Objectives : records'[j] = NewRecord(j, o)
    BY <1>2, RecordsAreCreated DEF IInv
  <2>2. QED
    BY <2>1, <1>0 DEF NewRecord
<1>3. QED
  BY <1>1, <1>2

(* What a task works on is its own job's key. *)
LEMMA WorksOnOwnKey ==
  ASSUME IInv, OwnKeys, NEW t \in Tasks, task[t] # "idle"
  PROVE  /\ JobOf[t] \in Jobs
         /\ records[JobOf[t]].key = Evaluation(t)
         /\ Evaluation(t) \in Keys
<1>1. JobOf[t] \in Jobs /\ objective \in Objectives
  BY TasksAreNumbers DEF IInv, TypeOK
<1>2. records[JobOf[t]].status # "absent"
  BY DEF IInv, Registered
<1>3. QED
  BY <1>1, <1>2, KeysOfJobs DEF OwnKeys, Evaluation

(* Whoever writes the cache, a task or a thread that outlived its call,    *)
(* writes under a key what that key stands for.                            *)
LEMMA CacheWrites ==
  ASSUME IInv, OwnKeys, [Next]_vars, NEW k \in Keys
  PROVE  cache'[k] = cache[k] \/ cache'[k] = k
<1>1. ASSUME NEW t \in Tasks, NEW s \in Cuts, Succeed(t, s)
      PROVE  cache'[k] = cache[k] \/ cache'[k] = k
  <2>1. records[JobOf[t]].key = Evaluation(t)
    BY <1>1, WritersRun, WorksOnOwnKey
  <2>2. PICK filled \in SUBSET {Evaluation(t)} :
          cache' = [i \in Keys |-> IF i \in filled THEN Evaluation(t) ELSE cache[i]]
    BY <1>1, <2>1 DEF Succeed
  <2>3. QED
    BY <2>2
<1>2. ASSUME NEW o \in orphans, NEW ok \in BOOLEAN, OrphanReturns(o, ok)
      PROVE  cache'[k] = cache[k] \/ cache'[k] = k
  <2>1. o[3] \in Keys /\ cache \in [Keys -> Keys \cup {NoKey}]
    BY DEF IInv, TypeOK
  <2>2. PICK i \in Keys : cache' = [cache EXCEPT ![i] = i] \/ cache' = cache
    BY <1>2, <2>1 DEF OrphanReturns
  <2>3. QED
    BY <2>1, <2>2
<1>3. ASSUME NEW t \in Tasks, NEW s \in Cuts,
             ResumeCached(t, s) \/ Start(t, s) \/ Skip(t, s) \/ Fail(t, s)
      PROVE  cache' = cache
  BY <1>3 DEF ResumeCached, Start, Skip, Fail
<1>4. \/ \E o \in Objectives, c \in Dispatchers : StartBatch(o, c)
      \/ \E t \in Tasks : ResumeSucceeded(t) \/ AwaitSlot(t)
      \/ \E j \in Jobs : RequestCancel(j)
      \/ Return \/ Interrupt \/ Kill \/ UNCHANGED vars
      => cache' = cache
  BY DEF StartBatch, ResumeSucceeded, AwaitSlot, RequestCancel, Return, Interrupt, Kill, vars
<1>5. QED
  BY <1>1, <1>2, <1>3, <1>4, NextCases

LEMMA CacheSoundStep ==
  ASSUME IInv, OwnKeys, CacheSound, [Next]_vars
  PROVE  /\ CacheSound'
         /\ \A k \in Keys : cache[k] # NoKey => cache'[k] = cache[k]
BY CacheWrites DEF CacheSound

CacheInv == OwnKeys /\ CacheSound

LEMMA CacheInvHolds ==
  ASSUME OneObjective
  PROVE  Spec => []CacheInv
<1>1. Init => CacheInv
  BY DEF Init, CacheInv, OwnKeys, NoRecord, CacheSound
<1>2. IInv /\ IInv' /\ CacheInv /\ [Next]_vars => CacheInv'
  BY OwnKeysStep, CacheSoundStep DEF CacheInv
<1>3. QED
  BY <1>1, <1>2, InvHolds, PTL DEF Spec

(* cache.py:4-5: whatever calls are interrupted or killed, and whichever    *)
(* thread writes last, an entry is the evaluation of the tuple that its key *)
(* is the hash of, when the store is kept for one objective.               *)
THEOREM CacheIsSound ==
  ASSUME OneObjective
  PROVE  Spec => []CacheSound
<1>1. CacheInv => CacheSound
  BY DEF CacheInv
<1>2. QED
  BY <1>1, CacheInvHolds, PTL

-----------------------------------------------------------------------------
(* What records and events say of a success. *)

LEMMA BackedStep ==
  ASSUME IInv, JobInv, CacheInv, SuccessIsBacked, [Next]_vars, JobInv'
  PROVE  SuccessIsBacked'
<1> SUFFICES ASSUME NEW j \in Jobs
             PROVE  /\ records'[j].status = "succeeded" =>
                         records'[j].digest # NoKey /\ cache'[records'[j].key] = records'[j].digest
                    /\ told'[j] = "succeeded" => records'[j].status = "succeeded"
  BY DEF SuccessIsBacked
<1>0. TypeOK
  BY DEF IInv
<1>1. records'[j].status = "succeeded" => records'[j].digest # NoKey
  BY DEF JobInv
<1>2. ASSUME records[j].status = "succeeded"
      PROVE  /\ records'[j].status = "succeeded"
             /\ cache'[records'[j].key] = records'[j].digest
  <2>1. records'[j].status = "succeeded" /\ records'[j].digest = records[j].digest
    BY <1>2, SuccessKept
  <2>2. records[j].key \in Keys /\ records'[j].key = records[j].key
    BY <1>2, RecordsAreKept DEF IInv, Registered
  <2>3. cache[records[j].key] = records[j].digest /\ records[j].digest # NoKey
    BY <1>2 DEF SuccessIsBacked
  <2>4. cache'[records[j].key] = cache[records[j].key]
    BY <2>2, <2>3, CacheSoundStep DEF CacheInv
  <2>5. QED
    BY <2>1, <2>2, <2>3, <2>4
<1>3. told[j] = "succeeded" => records'[j].status = "succeeded"
  BY <1>2 DEF SuccessIsBacked
<1> DEFINE Backed == /\ records'[j].status = "succeeded" => cache'[records'[j].key] = records'[j].digest
                     /\ told'[j] = "succeeded" => records'[j].status = "succeeded"
<1>4. ASSUME records'[j].status = records[j].status, told'[j] = told[j] PROVE Backed
  BY <1>2, <1>3, <1>4
<1>5. ASSUME NEW o \in Objectives, NEW c \in Dispatchers, StartBatch(o, c) PROVE Backed
  <2>1. told' = told /\ (records'[j] = NewRecord(j, o) \/ records'[j] = records[j])
    BY <1>5 DEF StartBatch, Created
  <2>2. NewRecord(j, o).status = "pending"
    BY DEF NewRecord
  <2>3. QED
    BY <1>2, <1>3, <2>1, <2>2
<1>6. ASSUME NEW t \in Tasks, ResumeSucceeded(t) PROVE Backed
  <2>1. records' = records /\ records[JobOf[t]].status = "succeeded"
    BY <1>6 DEF ResumeSucceeded
  <2>2. told'[j] = told[j] \/ j = JobOf[t]
    BY <1>6, <1>0 DEF ResumeSucceeded, Emit, TypeOK
  <2>3. QED
    BY <1>2, <1>3, <2>1, <2>2
<1>7. ASSUME NEW t \in Tasks, NEW s \in Cuts,
             \/ ResumeCached(t, s) \/ Start(t, s) \/ Skip(t, s)
             \/ Succeed(t, s) \/ Fail(t, s)
      PROVE  Backed
  <2>1. PICK i \in Jobs : i = JobOf[t]
    BY TasksAreNumbers
  <2>2. PICK st \in {"succeeded", "running", "canceled", "failed"} :
          /\ st = "succeeded" => ResumeCached(t, s) \/ Succeed(t, s)
          /\ Emit(i, st, s)
          /\ ~(s < 2) => \E d, b : Write(t, st, d, b)
    BY <1>7, <2>1, LateWrites DEF ResumeCached, Start, Skip, Succeed, Fail
  <2>3. told' = told \/ (s = Whole /\ told' = [told EXCEPT ![i] = st])
    BY <2>2 DEF Emit, Cuts, Whole
  <2>4. CASE s < 2
    <3>1. records' = records /\ told' = told
      BY <1>7, <2>3, <2>4, EarlyKill DEF Whole
    <3>2. QED
      BY <1>4, <3>1
  <2>5. CASE ~(s < 2) /\ j # i
    <3>1. records'[j] = records[j]
      BY <1>0, <2>1, <2>2, <2>5, WriteEffect DEF Status
    <3>2. told'[j] = told[j]
      BY <1>0, <2>3, <2>5 DEF TypeOK
    <3>3. QED
      BY <1>4, <3>1, <3>2
  <2>6. CASE ~(s < 2) /\ j = i
    <3>1. records'[j].status = st
      BY <1>0, <2>1, <2>2, <2>6, WriteEffect DEF Status
    <3>2. told'[j] = "succeeded" => records'[j].status = "succeeded"
      BY <1>0, <1>3, <2>3, <3>1 DEF TypeOK
    <3>3. CASE ResumeCached(t, s)
      <4>1. cache[records[i].key] # NoKey /\ cache' = cache
        BY <2>1, <3>3 DEF ResumeCached, Cached
      <4>2. records'[i].digest = cache[records[i].key] /\ records'[i].key = records[i].key
        BY <1>0, <2>1, <2>6, <3>3, <4>1, LateWrites, WriteEffect DEF Status
      <4>3. QED
        BY <2>6, <3>2, <4>1, <4>2
    <3>4. CASE Succeed(t, s)
      <4>1. records[i].key = Evaluation(t) /\ Evaluation(t) \in Keys /\ Evaluation(t) # NoKey
        BY <1>7, <2>1, WritersRun, WorksOnOwnKey, KeysOfJobs DEF CacheInv
      <4>2. records'[i].digest = Evaluation(t) /\ records'[i].key = Evaluation(t)
        BY <1>0, <2>1, <2>6, <3>4, <4>1, LateWrites, WriteEffect DEF Status
      <4>3. s >= 1
        BY <2>6 DEF Cuts
      <4>4. cache'[Evaluation(t)] = Evaluation(t)
        BY <2>1, <3>4, <4>1, <4>3 DEF Succeed, Caches
      <4>5. QED
        BY <2>6, <3>2, <4>2, <4>4
    <3>5. CASE st # "succeeded"
      BY <3>1, <3>2, <3>5
    <3>6. QED
      BY <2>2, <3>3, <3>4, <3>5
  <2>7. QED
    BY <2>4, <2>5, <2>6
<1>8. ASSUME NEW i \in Jobs, RequestCancel(i) PROVE Backed
  <2>1. records'[j].status = records[j].status /\ told' = told
    BY <1>8, <1>0 DEF RequestCancel, TypeOK, Record
  <2>2. QED
    BY <1>4, <2>1
<1>9. ASSUME \/ Return \/ Interrupt \/ Kill \/ UNCHANGED vars
             \/ \E t \in Tasks : AwaitSlot(t)
             \/ \E o \in orphans, ok \in BOOLEAN : OrphanReturns(o, ok)
      PROVE  Backed
  <2>1. records' = records /\ told' = told
    BY <1>9 DEF Return, Interrupt, Kill, vars, AwaitSlot, OrphanReturns
  <2>2. QED
    BY <1>4, <2>1
<1>10. Backed
  BY <1>5, <1>6, <1>7, <1>8, <1>9, NextCases
<1>11. QED
  BY <1>1, <1>10

(* jobs.py:262-264: the result is cached before the success is recorded and *)
(* the success recorded before it is told, so however calls are killed a    *)
(* success in the store is in the cache and one the sink has is in the      *)
(* store.                                                                   *)
THEOREM SuccessesAreBacked ==
  ASSUME OneObjective, DistinctPlan
  PROVE  Spec => []SuccessIsBacked
<1>1. Init => SuccessIsBacked
  BY DEF Init, NoRecord, SuccessIsBacked
<1>2. IInv /\ JobInv /\ JobInv' /\ CacheInv /\ SuccessIsBacked /\ [Next]_vars => SuccessIsBacked'
  BY BackedStep
<1>3. QED
  BY <1>1, <1>2, InvHolds, JobInvHolds, CacheInvHolds, PTL DEF Spec

-----------------------------------------------------------------------------
(* Resuming repeats nothing. *)

(* In the first call no thread has outlived its task yet, and a task that  *)
(* waits has no result to find.                                            *)
WaitInv ==
  /\ calls = 0 => ~Open
  /\ calls = 0 \/ (calls = 1 /\ Open) => orphans = {}
  /\ calls <= 1 => \A t \in Tasks :
       task[t] \in {"waiting", "granted"} => cache[records[JobOf[t]].key] = NoKey

(* A step other than the beginning of a call. *)
LEMMA CallGoesOn ==
  ASSUME IInv, [Next]_vars, ~Fresh
  PROVE  /\ calls' = calls
         /\ Open' => Open
         /\ Open' => orphans' \subseteq orphans
         /\ ~Open => orphans' \subseteq orphans
<1>0. TypeOK /\ QueueInv
  BY DEF IInv
<1>1. Open' => Open
  BY <1>0, OnlyStartBatchStarts DEF Open
<1>2. ~\E o \in Objectives, c \in Dispatchers : StartBatch(o, c)
  BY DEF Fresh, StartBatch
<1>3. CASE Interrupt
  <2>1. calls' = calls /\ ~Open' /\ Open
    BY <1>3 DEF Interrupt, Open
  <2>2. QED
    BY <2>1
<1>4. ASSUME NEW t \in Tasks, NEW s \in Cuts,
             \/ ResumeCached(t, s) \/ Start(t, s) \/ Skip(t, s)
             \/ Succeed(t, s) \/ Fail(t, s)
      PROVE  calls' = calls /\ orphans' \subseteq orphans
  BY <1>4 DEF ResumeCached, Start, Skip, Succeed, Fail, Volatile
<1>5. \/ \E t \in Tasks : ResumeSucceeded(t) \/ AwaitSlot(t)
      \/ \E j \in Jobs : RequestCancel(j)
      \/ Return \/ Kill \/ UNCHANGED vars
      \/ \E o \in orphans, ok \in BOOLEAN : OrphanReturns(o, ok)
      => calls' = calls /\ orphans' \subseteq orphans
  BY DEF ResumeSucceeded, AwaitSlot, RequestCancel, Return, Kill, OrphanReturns, Volatile, vars
<1>6. QED
  BY <1>1, <1>2, <1>3, <1>4, <1>5, NextCases

(* A task that waits after a step waited before it, or found nothing. *)
LEMMA WhoWaits ==
  ASSUME IInv, [Next]_vars, NEW u \in Tasks, task'[u] \in {"waiting", "granted"}
  PROVE  task[u] \in {"waiting", "granted"} \/ AwaitSlot(u)
<1>0. TypeOK /\ QueueInv
  BY DEF IInv
<1>1. ASSUME NEW t \in Tasks, t # u, Settle(t) \/ Enqueue(t) \/ Take(t) \/ Release(t)
      PROVE  task[u] \in {"waiting", "granted"}
  BY <1>0, <1>1, OthersStay DEF Others
<1>2. ASSUME NEW s \in Cuts,
             \/ ResumeCached(u, s) \/ Start(u, s) \/ Skip(u, s)
             \/ Succeed(u, s) \/ Fail(u, s)
      PROVE  FALSE
  BY <1>2, WriterEnds
<1>3. ASSUME NEW t \in Tasks, NEW s \in Cuts, t # u,
             \/ ResumeCached(t, s) \/ Start(t, s) \/ Skip(t, s)
             \/ Succeed(t, s) \/ Fail(t, s)
      PROVE  task[u] \in {"waiting", "granted"}
  <2>1. CASE Reset
    BY <2>1 DEF Reset
  <2>2. QED
    BY <1>1, <1>3, <2>1, HandlerShapes
<1>4. ASSUME NEW t \in Tasks, ResumeSucceeded(t)
      PROVE  task[u] \in {"waiting", "granted"}
  BY <1>4, <1>0 DEF ResumeSucceeded, TypeOK
<1>5. ASSUME NEW t \in Tasks, t # u, AwaitSlot(t)
      PROVE  task[u] \in {"waiting", "granted"}
  BY <1>5, <1>0 DEF AwaitSlot, TypeOK
<1>6. \/ \E o \in Objectives, c \in Dispatchers : StartBatch(o, c)
      \/ Return \/ Interrupt \/ Kill
      => FALSE
  BY DEF StartBatch, Return, Interrupt, Kill, Volatile, Whole
<1>7. \/ \E j \in Jobs : RequestCancel(j)
      \/ UNCHANGED vars
      \/ \E o \in orphans, ok \in BOOLEAN : OrphanReturns(o, ok)
      => task' = task
  BY DEF RequestCancel, OrphanReturns, vars
<1>8. QED
  BY <1>2, <1>3, <1>4, <1>5, <1>6, <1>7, NextCases

LEMMA WaitInvStep ==
  ASSUME DistinctPlan, IInv, CacheInv, WaitInv, [Next]_vars
  PROVE  WaitInv'
<1>0. calls \in Nat /\ TypeOK
  BY PlanAssumption DEF IInv, TypeOK
<1>1. CASE Fresh
  <2>1. PICK o \in Objectives, c \in Dispatchers : StartBatch(o, c)
    BY <1>1 DEF Fresh
  <2>2. calls' = calls + 1 /\ orphans' = orphans /\ \A t \in Tasks : task'[t] = "ready"
    BY <2>1 DEF StartBatch
  <2>3. QED
    BY <1>0, <2>2 DEF WaitInv
<1>2. CASE ~Fresh
  <2>1. /\ calls' = calls
        /\ Open' => Open
        /\ Open' => orphans' \subseteq orphans
        /\ ~Open => orphans' \subseteq orphans
    BY <1>2, CallGoesOn
  <2>2. ASSUME calls <= 1, NEW u \in Tasks, task'[u] \in {"waiting", "granted"}
        PROVE  cache'[records'[JobOf[u]].key] = NoKey
    <3> DEFINE k == records[JobOf[u]].key
    <3>1. task[u] # "idle" /\ cache[k] = NoKey
      <4>1. CASE task[u] \in {"waiting", "granted"}
        BY <2>2, <4>1 DEF WaitInv
      <4>2. CASE AwaitSlot(u)
        BY <4>2 DEF AwaitSlot, Pursue, Turn, Cached
      <4>3. QED
        BY <2>2, <4>1, <4>2, WhoWaits
    <3>2. /\ JobOf[u] \in Jobs /\ k = Evaluation(u) /\ k \in Keys
          /\ records[JobOf[u]].status # "absent"
      BY <3>1, WorksOnOwnKey DEF CacheInv, IInv, Registered
    <3>3. records'[JobOf[u]].key = k
      BY <3>2, RecordsAreKept DEF IInv
    <3>4. Open /\ (calls = 0 => FALSE) /\ orphans = {}
      <4>1. Open
        BY <3>1 DEF Open
      <4>2. QED
        BY <1>0, <2>2, <4>1 DEF WaitInv
    <3>5. ASSUME NEW t \in Tasks, NEW s \in Cuts, Succeed(t, s) PROVE cache'[k] = NoKey
      <4>1. t # u
        BY <2>2, <3>5, WriterEnds
      <4>2. JobOf[t] # JobOf[u] /\ records[JobOf[t]].key = Evaluation(t)
        BY <3>5, <4>1, WritersRun, WorksOnOwnKey DEF DistinctPlan, CacheInv
      <4>3. Evaluation(t) # k
        BY <3>2, <4>2 DEF Evaluation, cache_key
      <4>4. PICK filled \in SUBSET {Evaluation(t)} :
              cache' = [i \in Keys |-> IF i \in filled THEN Evaluation(t) ELSE cache[i]]
        BY <3>5, <4>2 DEF Succeed
      <4>5. QED
        BY <3>1, <3>2, <4>3, <4>4
    <3>6. ASSUME NEW t \in Tasks, NEW s \in Cuts,
                 ResumeCached(t, s) \/ Start(t, s) \/ Skip(t, s) \/ Fail(t, s)
          PROVE  cache' = cache
      BY <3>6 DEF ResumeCached, Start, Skip, Fail
    <3>7. \/ \E o \in Objectives, c \in Dispatchers : StartBatch(o, c)
          \/ \E t \in Tasks : ResumeSucceeded(t) \/ AwaitSlot(t)
          \/ \E j \in Jobs : RequestCancel(j)
          \/ Return \/ Interrupt \/ Kill \/ UNCHANGED vars
          => cache' = cache
      BY DEF StartBatch, ResumeSucceeded, AwaitSlot, RequestCancel, Return, Interrupt, Kill, vars
    <3>8. cache'[k] = NoKey
      BY <3>1, <3>4, <3>5, <3>6, <3>7, NextCases
    <3>9. QED
      BY <3>3, <3>8
  <2>3. QED
    BY <1>0, <2>1, <2>2 DEF WaitInv
<1>3. QED
  BY <1>1, <1>2

LEMMA WaitInvHolds ==
  ASSUME OneObjective, DistinctPlan
  PROVE  Spec => []WaitInv
<1>1. Init => WaitInv
  BY DEF Init, WaitInv, Open
<1>2. IInv /\ CacheInv /\ WaitInv /\ [Next]_vars => WaitInv'
  BY WaitInvStep
<1>3. QED
  BY <1>1, <1>2, InvHolds, CacheInvHolds, PTL DEF Spec

(* Only the body under the semaphore begins an evaluation. *)
LEMMA WhoBegins ==
  ASSUME IInv, [Next]_vars, NEW t \in Tasks, Begins(t)
  PROVE  \E s \in Cuts : Start(t, s)
<1>0. TypeOK /\ QueueInv /\ task[t] # "evaluating" /\ task'[t] = "evaluating"
  BY DEF IInv, Begins
<1>1. ASSUME NEW u \in Tasks, u # t, Settle(u) \/ Enqueue(u) \/ Take(u) \/ Release(u)
      PROVE  FALSE
  BY <1>0, <1>1, OthersStay DEF Others
<1>2. ASSUME NEW s \in Cuts, ResumeCached(t, s) \/ Skip(t, s) \/ Succeed(t, s) \/ Fail(t, s)
      PROVE  FALSE
  BY <1>0, <1>2, WriterEnds
<1>3. ASSUME NEW u \in Tasks, NEW s \in Cuts, u # t,
             \/ ResumeCached(u, s) \/ Start(u, s) \/ Skip(u, s)
             \/ Succeed(u, s) \/ Fail(u, s)
      PROVE  FALSE
  <2>1. ~Reset
    BY <1>0 DEF Reset
  <2>2. QED
    BY <1>1, <1>3, <2>1, HandlerShapes
<1>4. ASSUME NEW u \in Tasks, ResumeSucceeded(u) \/ AwaitSlot(u) PROVE FALSE
  BY <1>0, <1>4 DEF ResumeSucceeded, AwaitSlot, TypeOK
<1>5. \/ \E o \in Objectives, c \in Dispatchers : StartBatch(o, c)
      \/ \E j \in Jobs : RequestCancel(j)
      \/ Return \/ Interrupt \/ Kill \/ UNCHANGED vars
      \/ \E o \in orphans, ok \in BOOLEAN : OrphanReturns(o, ok)
      => FALSE
  BY <1>0 DEF StartBatch, RequestCancel, Return, Interrupt, Kill, Volatile, Whole, OrphanReturns, vars
<1>6. QED
  BY <1>2, <1>3, <1>4, <1>5, NextCases

LEMMA BeginsOnce ==
  ASSUME IInv, JobInv, CacheInv, WaitInv, [Next]_vars, NEW t \in Tasks, Begins(t)
  PROVE  /\ records[JobOf[t]].status # "succeeded"
         /\ cache[records[JobOf[t]].key] # NoKey => ~caching /\ calls > 1 /\ task[t] = "granted"
<1>1. PICK s \in Cuts : Start(t, s)
  BY WhoBegins
<1>2. records[JobOf[t]].status # "succeeded"
  BY <1>1, WriterKnows DEF Unfinished
<1> SUFFICES ASSUME cache[records[JobOf[t]].key] # NoKey
             PROVE  ~caching /\ calls > 1 /\ task[t] = "granted"
  BY <1>2
<1>3. records[JobOf[t]].key = cache_key(JobOf[t], objective)
  BY <1>1, WritersRun, WorksOnOwnKey DEF CacheInv, Evaluation
<1>4. ~Hit(JobOf[t])
  <2>1. task'[t] = "evaluating" /\ task \in [Tasks -> TaskState]
    BY DEF Begins, IInv, TypeOK
  <2>2. Volatile([task EXCEPT ![t] = IF Hit(JobOf[t]) THEN "returning" ELSE "evaluating"],
                 waiters, SlotTaken(t), s)
    BY <1>1 DEF Start
  <2>3. QED
    BY <2>1, <2>2 DEF Volatile
<1>5. ~caching
  BY <1>3, <1>4 DEF Hit
<1>6. task[t] = "granted"
  BY <1>1 DEF Start, HasSlot, Pursue, Cached
<1>7. calls > 1
  BY <1>6, PlanAssumption DEF WaitInv, IInv, TypeOK
<1>8. QED
  BY <1>5, <1>6, <1>7

(* jobs.py:235-247: nothing is evaluated that has succeeded or is cached,    *)
(* however many calls the plan takes and however they end, except for what  *)
(* a thread of an interrupted call delivers to a task already waiting.      *)
THEOREM NothingIsRepeated ==
  ASSUME OneObjective, DistinctPlan
  PROVE  Spec => ResumeNeverRepeats
<1>1. IInv /\ JobInv /\ CacheInv /\ WaitInv /\ [Next]_vars =>
        [\A t \in Tasks : Begins(t) =>
           /\ records[JobOf[t]].status # "succeeded"
           /\ cache[records[JobOf[t]].key] # NoKey => ~caching /\ calls > 1 /\ task[t] = "granted"]_vars
  BY BeginsOnce
<1>2. QED
  BY <1>1, InvHolds, JobInvHolds, CacheInvHolds, WaitInvHolds, PTL DEF Spec, ResumeNeverRepeats

-----------------------------------------------------------------------------
(* A call goes on until it is over. *)

(* What one of the handlers of task t asks for before it runs. *)
CanStep(t) ==
  \/ Turn(t) /\ (records[JobOf[t]].status = "succeeded" \/ Cached(JobOf[t]))
  \/ Pursue(t) /\ (free = 0 \/ waiters # <<>>)
  \/ HasSlot(t)
  \/ Evaluates(t)

(* While a call is open there is a task to run, unless all are done and    *)
(* gather returns.                                                         *)
NoStandstill ==
  Open => (\A t \in Tasks : task[t] = "done") \/ \E t \in Tasks : CanStep(t)

(* A call has all of its tasks, or there is no call. *)
AllOpen == Open => \A t \in Tasks : task[t] # "idle"

Stage == [idle |-> 0, ready |-> 1, waiting |-> 2, granted |-> 3, evaluating |-> 4, returning |-> 4, done |-> 5]

(* No step but the end of the call sets a task back, and one that touches  *)
(* the tasks takes one forward: a call of n tasks has 4 n such steps.      *)
Advances ==
  \/ task' \in {task, [t \in Tasks |-> "idle"]}
  \/ /\ \A t \in Tasks : Stage[task[t]] <= Stage[task'[t]]
     /\ \E t \in Tasks : Stage[task[t]] < Stage[task'[t]]
TasksOnlyAdvance == [][Advances]_vars

LEMMA AllOpenStep ==
  ASSUME IInv, AllOpen, [Next]_vars
  PROVE  AllOpen'
<1>0. TypeOK /\ QueueInv
  BY DEF IInv
<1>1. CASE UNCHANGED <<task, waiters, free>>
  BY <1>1 DEF AllOpen, Open
<1>2. CASE Reset \/ Fresh \/ Finish
  BY <1>2 DEF Reset, Fresh, Finish, AllOpen, Open
<1>3. ASSUME NEW t \in Tasks, Settle(t) \/ Enqueue(t) \/ Take(t) \/ Release(t)
      PROVE  \A u \in Tasks : task'[u] # "idle"
  <2>1. \A u \in Tasks : task[u] # "idle"
    BY <1>3 DEF AllOpen, Open, Settle, Enqueue, Take, Release, Holding
  <2>2. CASE Settle(t) \/ Enqueue(t) \/ Take(t)
    BY <1>0, <2>1, <2>2 DEF TypeOK, Settle, Enqueue, Take
  <2>3. CASE Release(t)
    BY <1>0, <2>1, <2>3 DEF TypeOK, Release, Granted
  <2>4. QED
    BY <1>3, <2>2, <2>3
<1>4. QED
  BY <1>1, <1>2, <1>3, Shapes DEF AllOpen

LEMMA FirstReady ==
  ASSUME NEW t \in Tasks, task[t] = "ready"
  PROVE  \E u \in Tasks : Turn(u)
<1> DEFINE Unstarted == {u \in Tasks : task[u] = "ready"}
<1>1. Unstarted \in SUBSET Int /\ Unstarted # {} /\ IsFiniteSet(Unstarted)
  <2>1. Unstarted \in SUBSET Tasks /\ Tasks \subseteq Nat /\ IsFiniteSet(Tasks)
    BY TasksAreNumbers
  <2>2. IsFiniteSet(Unstarted)
    BY <2>1, FS_Subset
  <2>3. t \in Unstarted
    OBVIOUS
  <2> HIDE DEF Unstarted
  <2>4. QED
    BY <2>1, <2>2, <2>3
<1>2. PICK u \in Unstarted : \A x \in Unstarted : u <= x
  BY <1>1, HasLeast
<1>3. QED
  BY <1>1, <1>2 DEF Turn

(* With no task at a handler of its own the slots are all free, so the     *)
(* queue is empty and nobody waits.                                        *)
LEMMA SomeoneMoves == IInv /\ AllOpen => NoStandstill
<1> SUFFICES ASSUME IInv, AllOpen, Open, \A t \in Tasks : ~CanStep(t)
             PROVE  \A t \in Tasks : task[t] = "done"
  BY DEF NoStandstill
<1>1. \A t \in Tasks : ~Turn(t)
  BY DEF CanStep, HasSlot, Pursue, IInv, TypeOK
<1>2. \A t \in Tasks : task[t] # "ready"
  BY <1>1, FirstReady
<1>3. Holding = {}
  BY <1>2 DEF Holding, CanStep, HasSlot, Evaluates, Started
<1>4. free = Concurrency /\ free > 0
  <2>1. Cardinality(Holding) = 0
    BY <1>3, FS_EmptySet
  <2>2. QED
    BY <2>1, PlanAssumption DEF IInv, TypeOK, CountInv
<1>5. \A t \in Tasks : task[t] # "waiting"
  BY <1>4 DEF IInv, QueueInv, TypeOK
<1>6. \A t \in Tasks : task[t] \in TaskState /\ task[t] # "idle"
  BY DEF AllOpen, IInv, TypeOK
<1>7. QED
  BY <1>2, <1>3, <1>5, <1>6 DEF TaskState, Holding

(* The safety half of BatchReturns: between run_batch and its return there *)
(* is always a run_one that can go on, on any plan, with any number of     *)
(* slots, after any cancellations, failures, interrupts and kills.         *)
THEOREM BatchNeverStandsStill == Spec => []NoStandstill
<1>1. Init => AllOpen
  BY DEF Init, AllOpen, Open
<1>2. IInv /\ AllOpen /\ [Next]_vars => AllOpen'
  BY AllOpenStep
<1>3. QED
  BY <1>1, <1>2, InvHolds, SomeoneMoves, PTL DEF Spec

LEMMA StepAdvances == IInv /\ [Next]_vars => Advances
<1> SUFFICES ASSUME IInv, [Next]_vars PROVE Advances
  OBVIOUS
<1>0. TypeOK /\ QueueInv
  BY DEF IInv
<1>1. CASE UNCHANGED <<task, waiters, free>> \/ Reset \/ Finish
  BY <1>1 DEF Reset, Finish, Advances
<1>2. CASE Fresh
  <2>1. \A t \in Tasks : task[t] = "idle" /\ task'[t] = "ready"
    BY <1>2 DEF Fresh, StartBatch, Open
  <2>2. CASE Tasks = {}
    BY <1>0, <1>2, <2>2 DEF Fresh, Advances, TypeOK
  <2>3. CASE Tasks # {}
    BY <2>1, <2>3 DEF Advances, Stage
  <2>4. QED
    BY <2>2, <2>3
<1>3. ASSUME NEW t \in Tasks, Settle(t) \/ Enqueue(t) \/ Take(t) PROVE Advances
  <2>1. \A u \in Tasks : u # t => task'[u] = task[u]
    BY <1>0, <1>3 DEF TypeOK, Settle, Enqueue, Take
  <2>2. Stage[task[t]] < Stage[task'[t]] /\ Stage[task[t]] <= Stage[task'[t]]
    BY <1>0, <1>3 DEF TypeOK, Settle, Enqueue, Take, Stage
  <2>3. \A u \in Tasks : Stage[task[u]] \in Nat
    BY <1>0 DEF TypeOK, TaskState, Stage
  <2>4. \A u \in Tasks : Stage[task[u]] <= Stage[task'[u]]
    BY <2>1, <2>2, <2>3
  <2>5. QED
    BY <2>2, <2>4 DEF Advances
<1>4. ASSUME NEW t \in Tasks, Release(t) PROVE Advances
  <2>1. task'[t] = "done"
    <3>1. CASE waiters = <<>>
      BY <1>0, <1>4, <3>1 DEF Release, Granted, TypeOK
    <3>2. CASE waiters # <<>>
      <4>1. Head(waiters) \in Tasks /\ task[Head(waiters)] = "waiting"
        BY <1>0, <3>2, HeadTailProperties DEF TypeOK, QueueInv
      <4>2. Head(waiters) # t
        BY <1>4, <4>1 DEF Release, Holding
      <4>3. QED
        BY <1>0, <1>4, <3>2, <4>1, <4>2 DEF Release, Granted, TypeOK
    <3>3. QED
      BY <3>1, <3>2
  <2>2. task[t] \in {"granted", "evaluating", "returning"}
    BY <1>4 DEF Release, Holding
  <2>3. CASE Others(t) /\ \A u \in Tasks : task'[u] # "idle" \/ task'[u] = task[u]
    <3>1. Stage[task[t]] < Stage[task'[t]]
      BY <2>1, <2>2 DEF Stage
    <3>2. ASSUME NEW u \in Tasks PROVE Stage[task[u]] <= Stage[task'[u]]
      <4>1. Stage[task[u]] \in Nat
        BY <1>0 DEF TypeOK, TaskState, Stage
      <4>2. CASE u = t
        BY <2>1, <2>2, <4>2 DEF Stage
      <4>3. CASE task'[u] = task[u]
        BY <4>1, <4>3
      <4>4. CASE task[u] = "waiting" /\ task'[u] = "granted"
        BY <4>4 DEF Stage
      <4>5. QED
        BY <2>3, <4>2, <4>3, <4>4 DEF Others
    <3>3. QED
      BY <3>1, <3>2 DEF Advances
  <2>4. \A u \in Tasks : task'[u] # "idle" \/ task'[u] = task[u]
    BY <1>0, <1>4 DEF Release, Granted, TypeOK
  <2>5. QED
    BY <1>0, <1>4, <2>3, <2>4, OthersStay
<1>5. QED
  BY <1>1, <1>2, <1>3, <1>4, Shapes

(* The other half of what keeps a call from going on for ever: no handler  *)
(* sends a run_one back to where it was, only the end of the call does.    *)
THEOREM TasksNeverGoBack == Spec => TasksOnlyAdvance
<1>1. IInv /\ [Next]_vars => [Advances]_vars
  BY StepAdvances
<1>2. QED
  BY <1>1, InvHolds, PTL DEF Spec, TasksOnlyAdvance
=============================================================================
