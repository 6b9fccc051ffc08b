---------------------------- MODULE Leaderboard ----------------------------
(***************************************************************************)
(* Bench's hosted leaderboard: LeaderboardService of                       *)
(* src/astro_mine/bench/leaderboard/_service.py over its board             *)
(* (LeaderboardStore), object store, job store, job queue and rate         *)
(* limiter.                                                                *)
(*                                                                         *)
(* Every call of the service runs on a handler of its own and handlers     *)
(* interleave; one call of a store, of the queue or of the limiter is one  *)
(* step.  submit_hub is both ends of the queue: after the intake it        *)
(* publishes its envelope, marks the job queued, then takes the envelope   *)
(* at the head of the queue, which may be another handler's, and scores    *)
(* ITS OWN policy under THAT envelope's job.                               *)
(*                                                                         *)
(* An artifact stands for a Hub manifest digest and the policy reference   *)
(* it declares.  Runs[a] holds the outcomes one sandboxed run of a may     *)
(* give: several scores for a policy that is not deterministic, Crash for  *)
(* one the sandbox stops.  One scenario; method and author are not         *)
(* modelled, nor is the audit log, which no decision reads.                *)
(***************************************************************************)
EXTENDS Integers, Sequences, FiniteSets

CONSTANTS
  Handlers,     \* the calls made of the service
  Requests,     \* the <<subject, artifact>> pairs submitted
  Local,        \* artifacts that may be submitted by policy_ref, without Hub
  Admissible,   \* artifacts that resolve, carry their attestations and fit
  Runs,         \* artifact -> outcomes of one run of it
  Crash,        \* the outcome of a run the sandbox stopped
  Admins,       \* subjects granted ranking:mutate, uncapped by a quota
  Quota,        \* submissions per window of the other subjects' role
  Limit,        \* submissions per window of the rate limiter
  Replay,       \* the digest of an episode recording
  Absent        \* "no value"

Subjects == {r[1] : r \in Requests} \cup Admins
Artifacts == {r[2] : r \in Requests}

ASSUME ServiceAssumption ==
  /\ IsFiniteSet(Handlers)
  /\ Requests \subseteq Subjects \X Artifacts
  /\ Local \subseteq Artifacts /\ Admissible \subseteq Artifacts
  /\ DOMAIN Runs = Artifacts
  /\ \A a \in Artifacts : Runs[a] # {} /\ Absent \notin Runs[a]
  /\ Quota \in Nat /\ Limit \in Nat \ {0}

VARIABLES
  call,      \* handler -> where its call stands and what it has in hand
  jobs,      \* JobStore: ticket -> status and result id
  queue,     \* JobQueue: the tickets of the published envelopes, a FIFO
  count,     \* RateLimiter: subject -> submissions in this window
  board,     \* LeaderboardStore: the catalogued submissions
  objects,   \* ObjectStore: provenance bundles and replays
  shared,    \* history: two envelopes were in the queue at once
  abandoned  \* history: the jobs whose handler an exception took away

vars == <<call, jobs, queue, count, board, objects, shared, abandoned>>

(* Faulty variant: ticket hashes the subject and no reference. *)
TicketOfSubject(request) == CHOOSE r \in Requests : r[1] = request[1]

(* ticket hashes the reference and the authenticated subject. *)
ticket(request) == request
Tickets == Requests

Scores == (UNION {Runs[a] : a \in Artifacts}) \ {Crash}

(* The content address of a submission: policy, scorecard and source, and  *)
(* neither its verdict nor its replay.                                     *)
SubmissionId(artifact, score, source) == <<artifact, score, source>>
Ids == Artifacts \X Scores \X {"hub", "local"}

(* A bundle is the lineage of a scored run; its digest is its content. *)
Bundle(artifact, score) == [source |-> artifact, scorecard |-> score]
Bundles == [source : Artifacts, scorecard : Scores]

Entries == [id : Ids, integrity : {"verified", "flagged"},
            provenance : Bundles \cup {Absent}, trace : {Replay, Absent}]

(* The states from which no transition is allowed. *)
Terminal == {"ranked", "flagged", "rejected"}
Active == {"queued", "running", "scored"}
JobRecords == [status : Terminal \cup Active \cup {"unknown"}, result : Ids \cup {Absent}]

Stages == {"new", "authorized", "counted", "published", "waiting", "taken",
           "running", "scored", "audited", "listed", "replaying", "retracting", "done"}
InQueue == {"published", "waiting"}

Calls == [at : Stages, request : Requests \cup {Absent}, intake : {"hub", "local", Absent},
          job : Tickets \cup {Absent}, score : Scores \cup {Absent},
          integrity : {"verified", "flagged", Absent}, entry : Entries \cup {Absent}]

NewCall == [at |-> "new", request |-> Absent, intake |-> Absent, job |-> Absent,
            score |-> Absent, integrity |-> Absent, entry |-> Absent]

Init ==
  /\ call = [h \in Handlers |-> NewCall]
  /\ jobs = [j \in Tickets |-> [status |-> "unknown", result |-> Absent]]
  /\ queue = <<>>
  /\ count = [s \in Subjects |-> 0]
  /\ board = {}
  /\ objects = {}
  /\ shared = FALSE
  /\ abandoned = {}

Artifact(h) == call[h].request[2]
Subject(h) == call[h].request[1]

Done(h) == call' = [call EXCEPT ![h] = [NewCall EXCEPT !.at = "done"]]
Goes(h, stage) == call' = [call EXCEPT ![h].at = stage]

_transition(job, status, result) ==
  jobs' = [jobs EXCEPT ![job] = [status |-> status, result |-> result]]

(* The handler raises SubmissionRejected and leaves the job rejected. *)
Reject(h, job) == _transition(job, "rejected", Absent) /\ Done(h)

(* The jobs a handler is there to settle: its own request's from publish   *)
(* to consume, then its envelope's.                                        *)
Works(h, j) ==
  \/ call[h].at \in InQueue /\ ticket(call[h].request) = j
  \/ call[h].at \in {"taken", "running", "scored", "audited", "listed"} /\ call[h].job = j

(* An exception no one catches ends the call. *)
Escapes(h) ==
  /\ Done(h)
  /\ abandoned' = abandoned \cup {j \in Tickets : Works(h, j)}

(* add_submission replaces the entry of the same id. *)
Added(entries, e) == {x \in entries : x.id # e.id} \cup {e}

-----------------------------------------------------------------------------
(* Admission, of either intake.                                            *)

WithinQuota(s) == s \in Admins \/ count[s] <= Quota

Authorize(h) ==
  /\ call[h].at = "new"
  /\ \E r \in Requests, intake \in {"hub", "local"} :
       /\ intake = "local" => r[2] \in Local
       /\ IF WithinQuota(r[1])
          THEN call' = [call EXCEPT ![h] = [NewCall EXCEPT
                         !.at = "authorized", !.request = r, !.intake = intake]]
          ELSE Done(h)
  /\ UNCHANGED <<jobs, queue, count, board, objects, shared, abandoned>>

(* Faulty variant: the count that reaches the limit is let through. *)
RateLimitUnchecked(h) ==
  /\ call[h].at = "authorized"
  /\ count' = [count EXCEPT ![Subject(h)] = @ + 1]
  /\ Goes(h, "counted")
  /\ UNCHANGED <<jobs, queue, board, objects, shared, abandoned>>

RateLimit(h) ==
  /\ call[h].at = "authorized"
  /\ IF count[Subject(h)] < Limit
     THEN /\ count' = [count EXCEPT ![Subject(h)] = @ + 1]
          /\ Goes(h, "counted")
          /\ UNCHANGED jobs
     ELSE /\ IF call[h].intake = "hub"
             THEN Reject(h, ticket(call[h].request))
             ELSE Done(h) /\ UNCHANGED jobs
          /\ UNCHANGED count
  /\ UNCHANGED <<queue, board, objects, shared, abandoned>>

(* RateLimiter.reset: whoever owns the window advances it. *)
ResetWindow(s) ==
  /\ count[s] > 0
  /\ count' = [count EXCEPT ![s] = 0]
  /\ UNCHANGED <<call, jobs, queue, board, objects, shared, abandoned>>

-----------------------------------------------------------------------------
(* submit_hub: resolve, verify, validate, publish, mark queued.            *)

(* A registry may also fail an admissible artifact: the handler cannot     *)
(* tell an outage from a bad digest.                                       *)
IntakeRejects(h) ==
  /\ call[h].at = "counted" /\ call[h].intake = "hub"
  /\ Reject(h, ticket(call[h].request))
  /\ UNCHANGED <<queue, count, board, objects, shared, abandoned>>

(* Faulty variant: a ticket that waits already is not published again. *)
PublishOnce(h) ==
  /\ call[h].at = "counted" /\ call[h].intake = "hub"
  /\ Artifact(h) \in Admissible
  /\ LET ticket_ == ticket(call[h].request)
     IN  queue' = IF ticket_ \in {queue[i] : i \in DOMAIN queue} THEN queue ELSE Append(queue, ticket_)
  /\ shared' = (shared \/ queue # <<>>)
  /\ Goes(h, "published")
  /\ UNCHANGED <<jobs, count, board, objects, abandoned>>

Publish(h) ==
  /\ call[h].at = "counted" /\ call[h].intake = "hub"
  /\ Artifact(h) \in Admissible
  /\ queue' = Append(queue, ticket(call[h].request))
  /\ shared' = (shared \/ queue # <<>>)
  /\ Goes(h, "published")
  /\ UNCHANGED <<jobs, count, board, objects, abandoned>>

MarkQueued(h) ==
  /\ call[h].at = "published"
  /\ _transition(ticket(call[h].request), "queued", Absent)
  /\ abandoned' = abandoned \ {ticket(call[h].request)}
  /\ Goes(h, "waiting")
  /\ UNCHANGED <<queue, count, board, objects, shared>>

-----------------------------------------------------------------------------
(* _evaluate_queued: take an envelope, score, audit, list, settle the job. *)

(* An empty queue is "the submission queue lost an accepted submission". *)
Take(h) ==
  /\ call[h].at = "waiting"
  /\ IF queue = <<>>
     THEN Done(h) /\ UNCHANGED queue
     ELSE /\ call' = [call EXCEPT ![h].at = "taken", ![h].job = Head(queue)]
          /\ queue' = Tail(queue)
  /\ UNCHANGED <<jobs, count, board, objects, shared, abandoned>>

MarkRunning(h) ==
  /\ call[h].at = "taken"
  /\ _transition(call[h].job, "running", Absent)
  /\ Goes(h, "running")
  /\ UNCHANGED <<queue, count, board, objects, shared, abandoned>>

(* Faulty variant: _heldout is called without the job id. *)
NoSeedsSilent(h) ==
  /\ call[h].at = "running"
  /\ Done(h)
  /\ UNCHANGED <<jobs, queue, count, board, objects, shared, abandoned>>

(* The held-out seeds are missing. *)
NoSeeds(h) ==
  /\ call[h].at = "running"
  /\ Reject(h, call[h].job)
  /\ UNCHANGED <<queue, count, board, objects, shared, abandoned>>

(* The policy run is the caller's, the job the envelope's. *)
Score(h) ==
  /\ call[h].at = "running"
  /\ \E outcome \in Runs[Artifact(h)] :
       IF outcome = Crash
       THEN Reject(h, call[h].job)
       ELSE /\ _transition(call[h].job, "scored", Absent)
            /\ call' = [call EXCEPT ![h].at = "scored", ![h].score = outcome]
  /\ UNCHANGED <<queue, count, board, objects, shared, abandoned>>

(* Faulty variant: a crash of the second run leaves the job as scored. *)
AuditForgetful(h) ==
  /\ call[h].at = "scored"
  /\ objects' = objects \cup {Bundle(Artifact(h), call[h].score)}
  /\ \E outcome \in Runs[Artifact(h)] :
       IF outcome = Crash
       THEN Done(h)
       ELSE call' = [call EXCEPT ![h].at = "audited",
              ![h].integrity = IF outcome = call[h].score THEN "verified" ELSE "flagged"]
  /\ UNCHANGED <<jobs, queue, count, board, shared, abandoned>>

(* Faulty variant: only the bundle of a verified run is kept. *)
AuditKeepsVerified(h) ==
  /\ call[h].at = "scored"
  /\ \E outcome \in Runs[Artifact(h)] :
       /\ IF outcome = Crash
          THEN Reject(h, call[h].job)
          ELSE /\ call' = [call EXCEPT ![h].at = "audited",
                    ![h].integrity = IF outcome = call[h].score THEN "verified" ELSE "flagged"]
               /\ UNCHANGED jobs
       /\ objects' = IF outcome = call[h].score
                     THEN objects \cup {Bundle(Artifact(h), call[h].score)} ELSE objects
  /\ UNCHANGED <<queue, count, board, shared, abandoned>>

(* The bundle is stored, then a sample of its seeds is run again. *)
Audit(h) ==
  /\ call[h].at = "scored"
  /\ objects' = objects \cup {Bundle(Artifact(h), call[h].score)}
  /\ \E outcome \in Runs[Artifact(h)] :
       IF outcome = Crash
       THEN Reject(h, call[h].job)
       ELSE /\ call' = [call EXCEPT ![h].at = "audited",
                 ![h].integrity = IF outcome = call[h].score THEN "verified" ELSE "flagged"]
            /\ UNCHANGED jobs
  /\ UNCHANGED <<queue, count, board, shared, abandoned>>

(* The bundle is stored, and something else fails: only a SandboxError of  *)
(* the second run is caught.                                               *)
AuditEscapes(h) ==
  /\ call[h].at = "scored"
  /\ objects' = objects \cup {Bundle(Artifact(h), call[h].score)}
  /\ Escapes(h)
  /\ UNCHANGED <<jobs, queue, count, board, shared>>

HubId(h) == SubmissionId(Artifact(h), call[h].score, "hub")

List(h) ==
  /\ call[h].at = "audited"
  /\ board' = Added(board, [id |-> HubId(h), integrity |-> call[h].integrity, trace |-> Absent,
                            provenance |-> Bundle(Artifact(h), call[h].score)])
  /\ Goes(h, "listed")
  /\ UNCHANGED <<jobs, queue, count, objects, shared, abandoned>>

Settle(h) ==
  /\ call[h].at = "listed"
  /\ _transition(call[h].job, IF call[h].integrity = "verified" THEN "ranked" ELSE "flagged", HubId(h))
  /\ Done(h)
  /\ UNCHANGED <<queue, count, board, objects, shared, abandoned>>

-----------------------------------------------------------------------------
(* submit_local: no job, no queue, no bundle.                              *)

SubmitLocal(h) ==
  /\ call[h].at = "counted" /\ call[h].intake = "local"
  /\ \/ UNCHANGED board                  \* malformed reference, no seeds, a crash
     \/ \E score \in Runs[Artifact(h)] \ {Crash}, again \in Runs[Artifact(h)] \ {Crash} :
          board' = Added(board,
            [id |-> SubmissionId(Artifact(h), score, "local"), trace |-> Absent, provenance |-> Absent,
             integrity |-> IF again = score THEN "verified" ELSE "flagged"])
  /\ Done(h)
  /\ UNCHANGED <<jobs, queue, count, objects, shared, abandoned>>

-----------------------------------------------------------------------------
(* attach_replay and retract read the entry, and write it later.           *)

ReadEntry(h, purpose) ==
  /\ call[h].at = "new"
  /\ \E e \in board : call' = [call EXCEPT ![h] = [NewCall EXCEPT !.at = purpose, !.entry = e]]
  /\ UNCHANGED <<jobs, queue, count, board, objects, shared, abandoned>>

AttachReplay(h) ==
  /\ call[h].at = "replaying"
  /\ objects' = objects \cup {Replay}
  /\ board' = Added(board, [call[h].entry EXCEPT !.trace = Replay])
  /\ Done(h)
  /\ UNCHANGED <<jobs, queue, count, shared, abandoned>>

(* The replay is stored, and add_submission fails. *)
AttachEscapes(h) ==
  /\ call[h].at = "replaying"
  /\ objects' = objects \cup {Replay}
  /\ Escapes(h)
  /\ UNCHANGED <<jobs, queue, count, board, shared>>

(* Only an admin is granted ranking:mutate; the bundle stays.  *)
Retract(h) ==
  /\ call[h].at = "retracting"
  /\ \E s \in Subjects :
       board' = IF s \in Admins THEN {e \in board : e.id # call[h].entry.id} ELSE board
  /\ Done(h)
  /\ UNCHANGED <<jobs, queue, count, objects, shared, abandoned>>

-----------------------------------------------------------------------------
Call(h) == Authorize(h) \/ ReadEntry(h, "replaying") \/ ReadEntry(h, "retracting")

Continue(h) ==
  \/ RateLimit(h) \/ IntakeRejects(h) \/ Publish(h) \/ MarkQueued(h)
  \/ Take(h) \/ MarkRunning(h) \/ NoSeeds(h) \/ Score(h) \/ Audit(h) \/ List(h) \/ Settle(h)
  \/ SubmitLocal(h) \/ AttachReplay(h) \/ Retract(h)

(* A store, the queue, the registry or the scorer raises, at any of the    *)
(* calls a handler makes; what the handler has done by then stays done.    *)
Raise(h) ==
  /\ call[h].at \notin {"new", "done"}
  /\ Escapes(h)
  /\ UNCHANGED <<jobs, queue, count, board, objects, shared>>

Fail(h) == Raise(h) \/ AuditEscapes(h) \/ AttachEscapes(h)

Next ==
  \/ \E h \in Handlers : Call(h) \/ Continue(h) \/ Fail(h)
  \/ \E s \in Subjects : ResetWindow(s)

Spec == Init /\ [][Next]_vars

(* A handler that has started runs on: what it calls returns or raises,    *)
(* and the sandbox stops a run that takes too long.  Nobody has to call.   *)
FairSpec == Spec /\ \A h \in Handlers : WF_vars(Continue(h))

-----------------------------------------------------------------------------
(* Types: every handler, job, envelope and entry is one the service makes. *)
TypeOK ==
  /\ call \in [Handlers -> Calls]
  /\ jobs \in [Tickets -> JobRecords]
  /\ queue \in Seq(Tickets)
  /\ count \in [Subjects -> 0..Limit]
  /\ board \subseteq Entries
  /\ objects \subseteq Bundles \cup {Replay}
  /\ shared \in BOOLEAN
  /\ abandoned \subseteq Tickets

(* The queue never loses an accepted submission: every handler that has    *)
(* published and not taken yet will find an envelope, so the RuntimeError  *)
(* of _evaluate_queued is unreachable however handlers interleave, and     *)
(* however many of them fail and leave their envelope behind.              *)
NeverLost == Cardinality({h \in Handlers : call[h].at \in InQueue}) <= Len(queue)

(* Whatever the board shows can be audited: the bundle an entry names is   *)
(* in the object store, is the one of its own artifact and score, and      *)
(* stays through resubmission, retraction and replays; so does its replay. *)
LineageStored ==
  \A e \in board :
    /\ e.id[3] = "hub" => e.provenance = Bundle(e.id[1], e.id[2])
    /\ {e.provenance, e.trace} \subseteq objects \cup {Absent}

(* As long as no two envelopes were in the queue at once, a job that links *)
(* to a result links to a run of the artifact it was for.                  *)
OwnResult ==
  ~shared => \A j \in Tickets : jobs[j].result # Absent => jobs[j].result[1] = j[2]

(* The same without the condition: what JobRecord says of its result_id.   *)
ResultIsOwn == \A j \in Tickets : jobs[j].result # Absent => jobs[j].result[1] = j[2]

(* ... and a job shown as queued, running or scored has a handler at work  *)
(* on it, through every resubmission, refusal and SandboxError, unless     *)
(* something else was raised under the last handler it had.                *)
Attended ==
  ~shared => \A j \in Tickets :
    jobs[j].status \in Active => j \in abandoned \/ \E h \in Handlers : Works(h, j)

(* ... so a client that polls its ticket sees a terminal status in the    *)
(* end: when the calls there are have run, no job is pending, if nothing   *)
(* but a SandboxError was raised under the handler of its job and no two   *)
(* envelopes ever met.                                                     *)
Settles ==
  <>[](\A j \in Tickets : jobs[j].status \in Active => j \in abandoned \/ shared)
=============================================================================
