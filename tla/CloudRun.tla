------------------------------ MODULE CloudRun ------------------------------
(***************************************************************************)
(* Runs of src/astro_mine/cloud: submit() on a host, the local backend or  *)
(* the cluster backend behind it, the pods that run the harness, the       *)
(* lifecycle events they publish, the status store that mirrors them and   *)
(* the durable subscribers that drain the event log.                       *)
(*                                                                         *)
(* A host is in submit() at the place pc names; note is the status it has  *)
(* published and not yet recorded, for RunObserver.transition does one and *)
(* then the other.  Kubernetes names its object after the content of the   *)
(* job, so hosts that submit one job share one object and its pods.  What  *)
(* the workload computes is left out: it exits with "ok" or "error", or    *)
(* something around it raises.                                             *)
(*                                                                         *)
(* One budget, MaxFaults, bounds the faults of the whole system: a pod     *)
(* killed, a host or a subscriber that dies, a broker or a Redis that      *)
(* refuses a call, a handler that raises.  Slow clusters, rejected         *)
(* manifests, unreadable logs and failing workloads cost nothing.          *)
(***************************************************************************)
EXTENDS Integers, Sequences, FiniteSets

CONSTANTS
  Hosts,        \* processes in submit()
  Jobs,         \* job specs
  Addresses,    \* run addresses
  AddressOf,    \* per job: the run_pin of its context, which leaves out its
                \* command, env, checkpoint and tenant: jobs may share one
  Backoff,      \* per job: backoffLimit, 0 unless it checkpoints and resumes
  Subscribers,  \* processes with one durable consumer name
  Batch,        \* how many events a fetch returns
  Deployments,  \* bound: who takes part, with which job and backend
  MaxPods,      \* bound: pods of one object
  MaxFaults     \* bound: faults in a behaviour

ASSUME CloudAssumption ==
  /\ Backoff \in [Jobs -> Nat] /\ AddressOf \in [Jobs -> Addresses] /\ {MaxPods, MaxFaults} \subseteq Nat
  /\ Batch \in Nat \ {0}
  /\ Deployments \subseteq [present : SUBSET (Hosts \cup Subscribers),
                            job : [Hosts -> Jobs], backend : [Hosts -> {"local", "cluster"}]]

VARIABLES
  job,        \* per host: what it submits
  backend,    \* per host: through which backend
  pc, note, result,
  object,     \* per job: the Kubernetes Job
  pods,       \* per job: its pods, oldest first
  contexts,   \* run contexts in the artifact store
  log,        \* the event stream
  status,     \* per run address: the status store
  floor,      \* the acknowledgement floor of the durable name
  reader,     \* per subscriber: the batch it fetched and where it is in it
  handled,    \* history: the sequence numbers the handler has finished
  faults

runVars == <<job, backend, pc, note, result, status>>
podVars == <<object, pods>>
readVars == <<floor, reader, handled>>
vars == <<runVars, podVars, contexts, log, readVars, faults>>

Statuses == {"submitted", "started", "completed", "failed"}
Terminal == {"completed", "failed"}

(* The pod that made a context, 0 for the host and for the pre-run context. *)
Context(j, by, exit) == [job |-> j, by |-> by, exit |-> exit]
Contexts == [job : Jobs, by : 0..MaxPods, exit : {"ok", "error", "none"}]
Pods == [at : {"running", "ran", "printed", "ended", "killed"},
         exit : {"ok", "error", "none"}, printed : BOOLEAN]

Init ==
  /\ \E d \in Deployments :
       /\ job = d.job /\ backend = d.backend
       /\ pc = [h \in Hosts |-> IF h \in d.present THEN "submit" ELSE "lost"]
       /\ reader = [s \in Subscribers |-> [at |-> IF s \in d.present THEN "idle" ELSE "gone", next |-> 1, last |-> 0]]
  /\ note = [h \in Hosts |-> "none"]
  /\ result = [h \in Hosts |-> Context(job[h], 0, "none")]
  /\ object = [j \in Jobs |-> "absent"]
  /\ pods = [j \in Jobs |-> <<>>]
  /\ contexts = {}
  /\ log = <<>>
  /\ status = [a \in Addresses |-> "none"]
  /\ floor = 0
  /\ handled = {}
  /\ faults = 0

Fault == faults < MaxFaults /\ faults' = faults + 1

-----------------------------------------------------------------------------
(* RunObserver.transition: publish the event, then record the status.      *)

(* The status a host is about to report, by where it is.  After the launch *)
(* it goes by the exit code alone; with no result an exception is passing. *)
Reports(h) ==
  CASE pc[h] = "submit" -> "submitted"
    [] pc[h] = "staged" -> "started"
    [] pc[h] = "report" -> IF result[h].exit = "ok" THEN "completed" ELSE "failed"

Publish(h) ==
  /\ note[h] = "none" /\ pc[h] \in {"submit", "staged", "report"}
  /\ note' = [note EXCEPT ![h] = Reports(h)]
  /\ log' = Append(log, [host |-> h, job |-> job[h], status |-> Reports(h), context |-> result[h]])
  /\ UNCHANGED <<job, backend, pc, result, status, podVars, contexts, readVars, faults>>

After(h) ==
  CASE note[h] = "submitted" -> IF backend[h] = "local" THEN "stage" ELSE "apply"
    [] note[h] = "started" -> IF backend[h] = "local" THEN "launch" ELSE "wait"
    [] OTHER -> IF result[h].exit = "none" THEN "raised" ELSE "returned"

(* Where submit() goes no further: a call that never returns keeps it. *)
Final == {"returned", "raised", "lost", "hung"}

(* set_status: last write wins, of all the runs of one address. *)
Record(h) ==
  /\ note[h] # "none" /\ pc[h] \notin Final
  /\ status' = [status EXCEPT ![AddressOf[job[h]]] = note[h]]
  /\ pc' = [pc EXCEPT ![h] = After(h)]
  /\ note' = [note EXCEPT ![h] = "none"]
  /\ UNCHANGED <<job, backend, result, podVars, contexts, log, readVars, faults>>

(* The broker or Redis refuses the call, or the host dies: either way      *)
(* submit() is left where it stands, half a transition included.           *)
Lose(h) ==
  /\ pc[h] \notin Final
  /\ Fault
  /\ pc' = [pc EXCEPT ![h] = "lost"]
  /\ UNCHANGED <<job, backend, note, result, status, podVars, contexts, log, readVars>>

(* A call does not return: the workload and kubectl are run without a      *)
(* timeout, and the deadline is looked at between two calls only.          *)
Hang(h) ==
  /\ pc[h] \notin Final
  /\ pc' = [pc EXCEPT ![h] = "hung"]
  /\ UNCHANGED <<job, backend, note, result, status, podVars, contexts, log, readVars, faults>>

-----------------------------------------------------------------------------
(* The local backend: execute with a subprocess.                           *)
Goto(h, place) ==
  /\ note[h] = "none"
  /\ pc' = [pc EXCEPT ![h] = place]
  /\ UNCHANGED <<job, backend, note, status, log, readVars, faults>>

(* Staging reads the inputs outside the try: if it raises nothing is said. *)
Stage(h) ==
  /\ pc[h] = "stage"
  /\ Goto(h, "staged") \/ Goto(h, "raised")
  /\ UNCHANGED <<result, podVars, contexts>>

(* The workload exits, and its context is stored; or launching it or       *)
(* collecting a declared output raises.                                    *)
Launch(h) ==
  /\ pc[h] = "launch"
  /\ Goto(h, "report")
  /\ \/ \E exit \in {"ok", "error"} :
          /\ result' = [result EXCEPT ![h] = Context(job[h], 0, exit)]
          /\ contexts' = contexts \cup {result'[h]}
     \/ UNCHANGED <<result, contexts>>
  /\ UNCHANGED podVars

-----------------------------------------------------------------------------
(* The cluster backend: dispatch applies, waits and collects.              *)

(* Applying the manifest of an object that exists changes nothing. *)
Apply(h) ==
  /\ pc[h] = "apply"
  /\ \/ Goto(h, "staged") /\ object' = [object EXCEPT ![job[h]] = IF @ = "absent" THEN "active" ELSE @]
     \/ Goto(h, "raised") /\ UNCHANGED object
  /\ UNCHANGED <<result, pods, contexts>>

Poll(h) ==
  /\ pc[h] = "wait" /\ object[job[h]] \in {"succeeded", "failed"}
  /\ Goto(h, "collect")
  /\ UNCHANGED <<result, podVars, contexts>>

(* Faulty variant: only a pod that ran is waited for to the deadline. *)
TimeOutWithPod(h) ==
  /\ pc[h] = "wait" /\ pods[job[h]] # <<>>
  /\ Goto(h, "raised")
  /\ UNCHANGED <<result, podVars, contexts>>

(* The deadline passes, however far the pods are. *)
TimeOut(h) ==
  /\ pc[h] = "wait"
  /\ Goto(h, "raised")
  /\ UNCHANGED <<result, podVars, contexts>>

(* Faulty variant: a log with a context and no exit code counts as a success. *)
ParsedLenient(j, i) ==
  LET pod == pods[j][i] IN
  IF pod.exit = "none" THEN {}
  ELSE {Context(j, i, IF pod.printed THEN pod.exit ELSE "ok")}

(* parse_sentinels: both sentinels or nothing. *)
Parsed(j, i) ==
  IF pods[j][i].printed THEN {Context(j, i, pods[j][i].exit)} ELSE {}

(* Oldest first over the pods whose logs can be read; the last one wins,   *)
(* and the phase the object ended in is not looked at.                     *)
Collect(h) ==
  /\ pc[h] = "collect"
  /\ \E readable \in SUBSET DOMAIN pods[job[h]] :
       LET found == {i \in readable : Parsed(job[h], i) # {}} IN
       \/ found = {} /\ Goto(h, "raised") /\ UNCHANGED result
       \/ \E i \in found :
            /\ \A k \in found : k <= i
            /\ \E c \in Parsed(job[h], i) : result' = [result EXCEPT ![h] = c]
            /\ Goto(h, "report")
  /\ UNCHANGED <<podVars, contexts>>

-----------------------------------------------------------------------------
(* Kubernetes and the harness in the pods: one pod of an object at a time, *)
(* never restarted in place.                                               *)
Running(j) == {i \in DOMAIN pods[j] : pods[j][i].at \in {"running", "ran", "printed"}}

StartPod(j) ==
  /\ object[j] = "active" /\ Running(j) = {} /\ Len(pods[j]) < MaxPods
  /\ pods' = [pods EXCEPT ![j] = Append(@, [at |-> "running", exit |-> "none", printed |-> FALSE])]
  /\ UNCHANGED <<runVars, object, contexts, log, readVars, faults>>

(* execute inside the pod, with an observer that says nothing. *)
PodRuns(j, i) ==
  /\ pods[j][i].at = "running"
  /\ \E exit \in {"ok", "error"} :
       /\ pods' = [pods EXCEPT ![j][i] = [@ EXCEPT !.at = "ran", !.exit = exit]]
       /\ contexts' = contexts \cup {Context(j, i, exit)}
  /\ UNCHANGED <<runVars, object, log, readVars, faults>>

PodPrints(j, i) ==
  /\ pods[j][i].at = "ran"
  /\ pods' = [pods EXCEPT ![j][i] = [@ EXCEPT !.at = "printed", !.printed = TRUE]]
  /\ UNCHANGED <<runVars, object, contexts, log, readVars, faults>>

(* What counts against backoffLimit: a pod that failed, and one that was   *)
(* killed unless the job resumes (podFailurePolicy ignores disruptions).   *)
Charged(j) ==
  Cardinality({i \in DOMAIN pods[j] :
                 \/ pods[j][i].at = "ended" /\ pods[j][i].exit # "ok"
                 \/ pods[j][i].at = "killed" /\ Backoff[j] = 0})

Settled(j) == object' = [object EXCEPT ![j] = IF Charged(j)' > Backoff[j] THEN "failed" ELSE @]

(* The pod exits with the code of the workload; execute raising is a       *)
(* failure that printed nothing.                                           *)
PodExits(j, i) ==
  /\ \/ pods[j][i].at = "printed"
     \/ pods[j][i].at = "running"
  /\ pods' = [pods EXCEPT ![j][i].at = "ended"]
  /\ IF pods[j][i].exit = "ok" THEN object' = [object EXCEPT ![j] = "succeeded"] ELSE Settled(j)
  /\ UNCHANGED <<runVars, contexts, log, readVars, faults>>

KillPod(j, i) ==
  /\ i \in Running(j)
  /\ Fault
  /\ pods' = [pods EXCEPT ![j][i].at = "killed"]
  /\ Settled(j)
  /\ UNCHANGED <<runVars, contexts, log, readVars>>

-----------------------------------------------------------------------------
(* DurableSubscriber.drain: fetch a batch above the floor, hand over each  *)
(* event, acknowledge it.  A subscriber that restarts resumes at the floor *)
(* while its predecessor may still be at work.                             *)

(* Faulty variant: one event too many at the end of the stream. *)
LastOneMore(f) == IF f + Batch < Len(log) THEN f + Batch ELSE Len(log) + 1

(* The last event of a batch fetched above f. *)
LastPending(f) == IF f + Batch < Len(log) THEN f + Batch ELSE Len(log)

ReadOnly == UNCHANGED <<runVars, podVars, contexts, log>>

Fetch(s) ==
  /\ reader[s].at = "idle" /\ floor < Len(log)
  /\ reader' = [reader EXCEPT ![s] = [at |-> "handle", next |-> floor + 1, last |-> LastPending(floor)]]
  /\ UNCHANGED <<floor, handled, faults>> /\ ReadOnly

Handle(s) ==
  /\ reader[s].at = "handle"
  /\ handled' = handled \cup {reader[s].next}
  /\ reader' = [reader EXCEPT ![s].at = "ack"]
  /\ UNCHANGED <<floor, faults>> /\ ReadOnly

(* Faulty variant: an event whose handler raises is logged and passed over. *)
StopSkipping(s) ==
  /\ reader[s].at = "handle"
  /\ Fault
  /\ reader' = [reader EXCEPT ![s] = IF @.next < @.last THEN [@ EXCEPT !.next = @ + 1] ELSE [@ EXCEPT !.at = "idle"]]
  /\ UNCHANGED <<floor, handled>> /\ ReadOnly

(* Faulty variant: a subscriber whose handler raised drains no more. *)
StopForGood(s) ==
  /\ reader[s].at \in {"handle", "ack"}
  /\ Fault
  /\ reader' = [reader EXCEPT ![s].at = "dead"]
  /\ UNCHANGED <<floor, handled>> /\ ReadOnly

(* The handler raises, or the process dies and starts anew: the batch is   *)
(* dropped where it stands.                                                *)
Stop(s) ==
  /\ reader[s].at \in {"handle", "ack"}
  /\ Fault
  /\ reader' = [reader EXCEPT ![s].at = "idle"]
  /\ UNCHANGED <<floor, handled>> /\ ReadOnly

(* The next event of the batch, or the end of it. *)
Advanced(r) ==
  IF r.next < r.last THEN [r EXCEPT !.at = "handle", !.next = r.next + 1] ELSE [r EXCEPT !.at = "idle"]

(* The floor never rewinds. *)
Ack(s) ==
  /\ reader[s].at = "ack"
  /\ floor' = IF floor < reader[s].next THEN reader[s].next ELSE floor
  /\ reader' = [reader EXCEPT ![s] = Advanced(reader[s])]
  /\ UNCHANGED <<handled, faults>> /\ ReadOnly

-----------------------------------------------------------------------------
HostStep(h) ==
  Publish(h) \/ Record(h) \/ Stage(h) \/ Launch(h) \/ Apply(h) \/ Poll(h) \/ TimeOut(h) \/ Collect(h)

PodStep(j) ==
  \/ StartPod(j)
  \/ \E i \in DOMAIN pods[j] : PodRuns(j, i) \/ PodPrints(j, i) \/ PodExits(j, i) \/ KillPod(j, i)

ReaderStep(s) == Fetch(s) \/ Handle(s) \/ Ack(s)

Next ==
  \/ \E h \in Hosts : HostStep(h) \/ Lose(h) \/ Hang(h)
  \/ \E j \in Jobs : PodStep(j)
  \/ \E s \in Subscribers : ReaderStep(s) \/ Stop(s)

Spec == Init /\ [][Next]_vars

(* A host that no call keeps runs on, with a clock that reaches its        *)
(* deadline; a subscriber goes on draining.  The cluster promises nothing: *)
(* a suspended job may never get a pod.                                    *)
FairSpec ==
  /\ Spec
  /\ \A h \in Hosts : WF_vars(HostStep(h))
  /\ \A s \in Subscribers : WF_vars(ReaderStep(s))

-----------------------------------------------------------------------------
(* Types: what the places, the events and the stores can hold. *)
TypeOK ==
  /\ job \in [Hosts -> Jobs] /\ backend \in [Hosts -> {"local", "cluster"}]
  /\ pc \in [Hosts -> {"submit", "stage", "staged", "launch", "apply", "wait", "collect", "report"} \cup Final]
  /\ note \in [Hosts -> Statuses \cup {"none"}]
  /\ result \in [Hosts -> Contexts]
  /\ object \in [Jobs -> {"absent", "active", "succeeded", "failed"}]
  /\ pods \in [Jobs -> Seq(Pods)]
  /\ contexts \subseteq Contexts
  /\ log \in Seq([host : Hosts, job : Jobs, status : Statuses, context : Contexts])
  /\ status \in [Addresses -> Statuses \cup {"none"}]
  /\ floor \in 0..Len(log)
  /\ reader \in [Subscribers -> [at : {"idle", "handle", "ack", "gone"}, next : Nat \ {0}, last : 0..Len(log)]]
  /\ handled \subseteq 1..Len(log)
  /\ faults \in 0..MaxFaults

(* An event that says a run completed, or failed with a result, carries a  *)
(* run context that its own workload stored, with the exit code reported,  *)
(* whatever was killed, retried or read by several hosts.                  *)
ResultIsBacked ==
  \A n \in DOMAIN log :
    LET e == log[n] IN
    /\ e.status = "completed" => e.context.exit = "ok"
    /\ e.context.exit # "none" => e.context \in contexts /\ e.context.job = e.job

(* The state at which ImplementsStream keeps the readers: the handler has  *)
(* finished everything at or below the floor and everything before an      *)
(* event it has finished.                                                  *)
Delivered ==
  /\ 1..floor \subseteq handled
  /\ \A n \in handled : 1..n \subseteq handled

(* eventlog.py, "at-least-once delivery, explicit ack, ... replay from a    *)
(* cursor and resume across a restart": to those who publish and to the    *)
(* consumer of one durable name the log is an append-only stream, handled  *)
(* in order and acknowledged no further than handled, through restarts,    *)
(* raising handlers and two subscribers of one name.                       *)
Stream == INSTANCE EventStream WITH
  Events <- [host : Hosts, job : Jobs, status : Statuses, context : Contexts],
  stream <- log

ImplementsStream == Stream!Spec

(* Every event reaches the handler, once the faults are over. *)
AllHandled ==
  (\E s \in Subscribers : reader[s].at # "gone") => \A n \in 1..3 : n \in DOMAIN log ~> n \in handled

(* Every submit() comes to an end, whatever the cluster does, unless one   *)
(* of the calls it makes never returns or its host dies.                   *)
SubmitEnds == \A h \in Hosts : <>(pc[h] \in Final)

(* What submission/__init__.py:95 says of a run's events: after started    *)
(* comes completed or failed.  Only for a submit() that had no fault.      *)
StartedIsClosed ==
  \A h \in Hosts :
    pc[h] \in {"raised", "returned"} /\ (\E n \in DOMAIN log : log[n].host = h /\ log[n].status = "started")
      => \E n \in DOMAIN log : log[n].host = h /\ log[n].status \in Terminal
=============================================================================
