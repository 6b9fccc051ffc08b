---------------------------- MODULE JobLifecycle ----------------------------
(***************************************************************************)
(* What Studio promises of a design-loop job, whatever happens to the      *)
(* batches it belongs to (the three guarantees of                          *)
(* src/astro_mine/studio/orchestrate/jobs.py):                             *)
(*   durable    - a job, once created, keeps its progress;                 *)
(*   cancelable - a cancelled job does not start;                          *)
(*   resumable  - a job that did not succeed can be run again, one that    *)
(*                succeeded keeps its result and is never run again.       *)
(* RunBatch implements it when its plan lists every job once.              *)
(***************************************************************************)
CONSTANTS
  Jobs,
  Results,
  NoResult

VARIABLES
  status,
  result,
  cancelled   \* a request_cancel was made: never withdrawn

jobVars == <<status, result, cancelled>>

Init ==
  /\ status = [j \in Jobs |-> "absent"]
  /\ result = [j \in Jobs |-> NoResult]
  /\ cancelled = [j \in Jobs |-> FALSE]

Unfinished == {"pending", "running", "failed", "canceled"}

(* A batch creates the jobs of its plan that do not exist yet. *)
Create ==
  \E new \in SUBSET Jobs :
    /\ \A j \in new : status[j] = "absent"
    /\ status' = [j \in Jobs |-> IF j \in new THEN "pending" ELSE status[j]]
    /\ UNCHANGED <<result, cancelled>>

Cancel(j) ==
  /\ status[j] # "absent"
  /\ cancelled' = [cancelled EXCEPT ![j] = TRUE]
  /\ UNCHANGED <<status, result>>

Start(j) ==
  /\ status[j] \in Unfinished
  /\ ~cancelled[j]
  /\ status' = [status EXCEPT ![j] = "running"]
  /\ UNCHANGED <<result, cancelled>>

Skip(j) ==
  /\ status[j] \in Unfinished
  /\ cancelled[j]
  /\ status' = [status EXCEPT ![j] = "canceled"]
  /\ UNCHANGED <<result, cancelled>>

Fail(j) ==
  /\ status[j] = "running"
  /\ status' = [status EXCEPT ![j] = "failed"]
  /\ UNCHANGED <<result, cancelled>>

(* A success comes from a run, or from a result already cached. *)
Succeed(j, r) ==
  /\ status[j] \in Unfinished
  /\ result[j] = NoResult
  /\ status' = [status EXCEPT ![j] = "succeeded"]
  /\ result' = [result EXCEPT ![j] = r]
  /\ UNCHANGED cancelled

Next ==
  \/ Create
  \/ \E j \in Jobs :
       \/ Cancel(j)
       \/ Start(j)
       \/ Skip(j)
       \/ Fail(j)
       \/ \E r \in Results : Succeed(j, r)

Spec == Init /\ [][Next]_jobVars
=============================================================================
