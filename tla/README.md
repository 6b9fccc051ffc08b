# astro-mine-platform: models, checks and proofs

This directory is the verification project kept beside the astro-mine platform:
TLA+ modules translated from the source, TLC configurations that check them on
small instances, and theorems about them that TLAPS checks for every value of the
constants. Paths below are relative to the repository root unless they name a module
(`RunBatch`) or a configuration (`RunBatch_resume.cfg`) of this directory.

The platform is a design-and-operations suite for robotic space mining: a Python
package `src/astro_mine/<component>` per component, a Rust crate `rust/` that holds the
trusted computing base (TCB) of the runtime safety supervisor, generated message bindings
(`codegen/`), schemas, and a browser-facing service tier. Most of it is numerical (worlds,
geometry, physics engines, learning); the project is about the parts that keep state and
make decisions over time, where what goes wrong is an order of events and not a formula.

## 1. Inventory

| Component | State it keeps | Operations | Interacts with | What is hard |
|---|---|---|---|---|
| **studio** (`studio/orchestrate`, `studio/workspace`, `studio/campaign`) | job store, result cache, event sink, a semaphore per call, workspaces | `run_batch`, `LocalDispatcher.evaluate`, `CloudDispatcher.evaluate`, `request_cancel`, publish | guard (a veto), cloud (`submit`), bench (`score`) | asyncio tasks over one semaphore, worker threads that outlive their task, crashes between durable writes, resuming |
| **guard** (`rust/src`, `guard/wrap`, `guard/audit`) | per-agent `SafetyCore`: monitor windows, previous robustness, fired index, hold anchor; an audit chain | `step`, `step_guarded`, `force_watchdog`, `PolicyShield.act`, backups, falsification | mind/learn (the wrapped policy), sim | layered precedence, a late tick, bad input, state that must advance on every tick |
| **bench** (`bench/leaderboard`, `bench/content`, `bench/sandbox`, `bench/harness`) | submission jobs, queue, submission store, objects, audit, quota windows; mirrored scenario content | `submit_local`, `submit_hub`, `_evaluate_queued`, `attach_replay`, `retract`, `fetch_scenario_content`, sandboxed scoring | hub (resolve, the local registry), cloud queue, studio | several handlers on one queue, a queue and a job table that are written apart, resubmission, a fetch cut short |
| **cloud** (`cloud/submission`, `cloud/runs`, `cloud/autoscale`, `cloud/sched`, `cloud/artifacts`, `cloud/data`) | run status, event streams with an ack floor per consumer, checkpoints, budgets, caches, content-addressed artifacts | `submit`, `cluster.submit`, `RunObserver.transition`, `append/fetch/ack`, `DurableSubscriber.drain`, checkpoint/restore, budget reservation | studio, bench, learn | at-least-once delivery, publish-then-set, a crash between handler and ack, poll timeouts, spot preemption |
| **sim** (`sim/runtime`, `sim/scheduler`, `sim/coupling`, `sim/comms`, `sim/power_thermal`, `sim/logistics`, `sim/isru`) | episode state, fidelity tier, coupled engine state, inventories | `reset/step`, `select_fidelity`, coupled iteration, transfers | worlds, fleet, mind, bench | tier switching with hysteresis, fixed-point coupling, conservation |
| **mind** (`mind/exec`, `mind/bt`, `mind/guardrail`, `mind/coord`, `mind/tamp`) | a cached decision per tier, the comms regime, blackboard, behaviour-tree node memory, plan cursor | `decide`, `decide_tick`, replanning, fallbacks, guardrail checks, gossip coordination | guard, allocate, sim | blackouts against expiring plans, policies that raise, one policy object over several episodes, ticks against running children |
| **allocate** (`allocate/anytime`, `allocate/solvers`) | incumbent solution, deadline | anytime improvement, constraint checks | mind, studio | a deadline racing an improvement |
| **learn** (`learn/train`, `learn/envs`, `learn/track`, `learn/export`) | training run, checkpoints, vectorised environments, model registry | `train`, save/resume, worker executor, export | cloud, surrogate, sim | resume after preemption, order of worker results |
| **surrogate** (`surrogate/serve`, `surrogate/drift`, `surrogate/retrain`) | loaded model, drift window, retrain requests | `predict`, drift update, `retrain`, swap | sim, learn | trust gate and fallback, a drift window at its limit |
| **hub** (`hub/registry`, `hub/client`, `hub/resolve`, `hub/index`, `hub/policy`, `hub/curation`) | an OCI layout (blobs and one index file), client cache, catalog, curation state | `publish`, `attach`, `referrers`, verify, `garbage_collect`, pull, resolve, promote | bench, seal | an index rewritten whole, kills between blobs and index, a collector beside writers, immutable names |
| **link** (`link/windows`, `link/budget`, `link/network`, `link/cache`, `link/registry`) | contact windows, product cache, stations | window computation, store-and-forward routing, cache refresh | sim, spice | boundaries of contact windows, stale cache entries |
| **prospect** (`prospect/belief`, `prospect/infogain`, `prospect/service`, `prospect/publish`) | belief field, observations | assimilate, plan, publish | worlds, mind | order of observations |
| **core** (`core/env`, `core/registry`, `core/validation`, `core/provenance`) | registries, environment API state, provenance envelopes | `reset/step` contract, register/lookup, hash chains | every component | protocol of calls |
| **fleet** (`fleet/library`, `fleet/lint`, `fleet/fidelity`) | asset library | load, lint, package | sim, studio | mostly pure |
| **worlds** (`worlds/fields`, `worlds/ingest`, `worlds/provider`) | world packages, field caches | ingest, query | sim, link | mostly numerical |
| **seal** | trust root, signatures | sign, verify | hub, guard | pure functions over keys |
| **spice** | kernel pool handle | furnish, query | link, sim | a library binding |
| generated bindings, schemas, docs, scripts, validation, validator | none | code generation, validation | - | no behaviour of their own |


## 2. Plan

The order is by how much a wrong interleaving would cost and how little a test sees of it.

| Step | Module | Source | What it says | Status |
|---|---|---|---|---|
| 1 | `RunBatch`, `JobLifecycle` | `studio/orchestrate/jobs.py` | durable, cancelable, resumable jobs; a semaphore that loses nothing; the runner implements the abstract life cycle | modelled, checked, proved |
| 2 | `Monitor` | `rust/src/monitors.rs` | bounded-memory evaluation computes the semantics over the whole history; warnings come in time | modelled, checked, proved |
| 3 | `SafetyCore` | `rust/src/arbiter.rs`, `backup.rs`, `shield.rs` | no tick brings the agent deeper into a keep-out; holds return to their own anchor; the guard lets go | modelled, checked, proved |
| 4 | `Leaderboard` | `bench/leaderboard/_service.py`, `_jobs.py`, `_authz.py` | concurrent handlers on one queue: nothing accepted is lost, what the board lists is stored, a job is attended until it settles or its handler is taken away | modelled, checked, proved |
| 5 | `CloudRun`, `EventStream` | `cloud/submission`, `cloud/runs` | results are backed by what the workload stored; the event log implements the abstract durable stream, at least once and in order; every submission whose calls return ends | modelled, checked, proved |
| 6 | `Executive` | `mind/exec` | a plan in force is fresh and of the present comms regime; one worker per task in the dark | modelled, checked, proved |
| 7 | `Registry`, `Catalogue` | `hub/registry/_store.py`, `hub/client`, `bench/content/_fetch.py` | the index is backed, what was reported stays verifiable, the directory implements the abstract catalogue with its immutable names, whatever is killed | modelled, checked, proved |
| 8 | composition of 1 and 5 | `studio/orchestrate/cloud.py` | the events the Cloud dispatcher publishes against the batch runner's records | open |
| 9 | `Checkpoint`, `Budget`, `ChunkCache`, the retrying worker executor | `cloud/autoscale`, `cloud/sched`, `cloud/data`, `learn/train/executor.py` | resume after preemption repeats no committed step; no reservation exceeds its budget; a cache holds only what it verified | open |
| 10 | guard wrapper and audit | `guard/wrap/shield.py`, `guard/audit` | several actions for one agent in a batch, the audit chain | open |

**Composition.** `SafetyCore` has one clause, "the margin held for the last `Window`
ticks", whose robustness it takes from the last margins the monitor was fed; that a
`Monitor` of an `always` node returns exactly this is the theorem `WindowsAreLeastMargins`. `CloudRun`
composes four components in one module (host, cluster, event log, subscriber), as does
`Registry` (client, store, fetch, collector): their hazards are in what they share.

**Abstract specifications.** `JobLifecycle`, which `RunBatch` is shown to implement;
`EventStream`, the contract of a durable consumer, which `CloudRun` implements; `Catalogue`,
the guarantees of a registry, which `Registry` implements; and `Meaning` in `Monitor`, the semantics the evaluation is compared with. A `Board` whose
entries appear, are retracted and never change otherwise is *not* what the leaderboard
implements: a replay attached late brings a retracted entry back (3.8).

**Runs.** One or two passing runs per component with every interesting case enabled at
once, and a violation run only for a divergence whose precondition a passing run or a
theorem relies on. The bounds are two or three actors, two calls of whatever can be
repeated, and windows of two or three.

**Theorems.** For each module its type invariant, its central safety property from an
inductive invariant, and the refinement where there is an abstract specification. Section 4
says which are proved and which are left to TLC.

## 3. Modules

Every run named below is in `PROJECT.json` and, unless it is called a finding, finishes
without an error. Each property has a mutant there, a plausible bug of the code that
breaks it.

### 3.1 `RunBatch`, `JobLifecycle` - Studio's batch runner

Source: `src/astro_mine/studio/orchestrate/jobs.py` (with `cache.py`, `loop.py`).

`run_batch` runs on one asyncio event loop. A `run_one` coroutine is atomic between two
awaits, so an action is the code from one await to the next: `ResumeSucceeded`,
`ResumeCached`, `AwaitSlot` (join the semaphore's queue), `Start` (the body under the
semaphore up to the dispatch), `Skip` (the cancel checkpoint), `Succeed`, `Fail`.
`StartBatch` is the prologue that creates records and tasks; `Return` the end of `gather`.

| Model | Code |
|---|---|
| `records` | `JobStore`: one `JobRecord` per job (`status`, `result_digest`, `error`, `cancel_requested`, `cache_key`) |
| `cache` | `ResultCache`, key to result |
| `caching` | whether the dispatcher of the present call keeps the cache itself, as `LocalDispatcher(cache=...)` does |
| `told` | the last `JobEvent` the sink received for a job |
| `task`, `waiters`, `free` | where each `run_one` stands; the semaphore's FIFO and value |
| `orphans` | `asyncio.to_thread` workers whose awaiting task was cancelled and whose dispatcher has the cache; any other has no effect when it returns |

The environment is what the docstring promises to survive: `RequestCancel` at any moment,
`Interrupt` (the `run_batch` coroutine is cancelled: tasks die at their awaits, threads run
on as orphans), `Kill` (the process dies, threads with it). A kill may fall between two
statements of one handler, so each handler is parameterised by how many of its durable
effects (cache, record, event - in that order) survived; `KilledIn` takes the partial ones.
A later call of `run_batch` over the same store and cache resumes.

`JobLifecycle` is the abstract promise of the docstring - durable, cancelable, resumable -
over a job's status, result and cancel flag. `RunBatch` implements it under the refinement
mapping `jobStatus`, `jobResult`, `jobCancelled`.

The run `runbatch_resume` (3 jobs, 2 slots, 2 calls, 1 objective, either kind of
dispatcher, fairness; 105,194 states) checks:

* `SlotsConserved` - slots in use and free ones add up to the semaphore's value, and none is
  free while a task waits: no way out of `run_one` loses one.
* `CacheSound` - an entry of the cache is the evaluation its key names.
* `SuccessIsBacked` - a job recorded as succeeded has its result in the cache, and it is the
  record's digest; a kill between the two writes cannot separate them. A subscriber that was
  told of a success finds it in the store.
* `ResumeNeverRepeats` - no evaluation starts for a job that has succeeded or whose result
  is cached, however long it waited. The one exception is in the property: `run_one` does not
  look at the cache again when it is handed its slot, so a result that a thread of an
  interrupted call delivered meanwhile is computed again if the present dispatcher has no cache.
* `ImplementsLifecycle` - the refinement: a success is never taken back, a job that was
  cancelled before it started never starts, an end is reached from where the code may reach it.
* `BatchReturns` - every call ends, by returning, or by the interruption or the kill that ended it.

Bounds: `MaxCalls` (calls of `run_batch` over one store) is the only bound, 2 here: the first
call leaves any half-finished state, the second resumes from it. (With 3 the run has 1,214,312
states and passes as well, in about two and a half minutes with four workers.) Three jobs on two slots give one task that
waits, one that is handed a slot, one that takes a free one. One objective and a plan of
distinct jobs are *preconditions* of `CacheSound`, `SuccessIsBacked` and the refinement;
3.8 says what happens without them.

Fairness: `WF(Step(t))` and `WF(Return)`. The event loop runs every ready task, and an
evaluation is bounded by `max_steps` and either returns or raises. Nothing is assumed of the
environment's actions or of the partial handlers.

### 3.2 `Monitor` - guard's runtime monitors

Source: `rust/src/monitors.rs`.

A clause of a safety model is a plan: nodes in post-order, each a predicate, a Boolean
operator or a bounded past-time operator. `Monitor::step` walks it once a tick. The windows
live in ring buffers of `hi + 1` slots, and the last step extrapolates the robustness to warn
before a violation. `step` is a loop, and each iteration is an action: `Begin` (the call,
with the predicates' robustness), `EvalNode` (one node; a window operator pushes its
arguments before it reduces them), `Conclude` (the verdict and `prev_root`).

| Model | Code |
|---|---|
| `ring` | `RingBuf` (`data`, `cap`, `head`, `len`), one per argument of a window node |
| `cur` | `Monitor::cur`, the value of every node, kept between ticks |
| `prev_root`, `verdict` | the robustness of the tick before; `violated` and `predicted` |
| `heard`, `past` | history: the signal of the atoms, and every node's value at each finished tick |

`Meaning` is the reference: the bounded past-time robust semantics, written from the
operators' comments in the source over the whole unbounded history, with no buffer in it.

| Run | Instance | What it shows |
|---|---|---|
| `monitor_clause` | a plan of eleven nodes with every operator, every signal of two atoms over six ticks (70,981 states) | `MatchesSemantics`: each node's value is its meaning over the whole history, wrap-around of the buffers included |
| `monitor_predict` | `always[0,2] eventually[0,1] p`, six margins, five ticks (46,651 states) | `WarnsBeforeViolation`: a violation that comes no faster than the trend was predicted the tick before; `SteadyNeverAlarms`: a signal that never moves raises nothing |

Bounds: `MaxTicks`, and margins from a small set. The longest window is three ticks and the
runs are five and six, so that every buffer wraps, more than once for the shorter ones; what
a tick reads is within its windows. Robustness is an integer, which `min`, `max` and
negation do not tell from a float; the slope is compared by multiplication and not by
division, which agrees on the reals. Predicates (signal minus threshold) are the call's input.

### 3.3 `SafetyCore` - guard's arbiter, backup and shield around one agent

Source: `rust/src/arbiter.rs`, `backup.rs`, `shield.rs`; `guard/wrap/shield.py` for what a
tick is given and where its verdict goes.

A tick is one call of `step_guarded`, and one action: an input, the branch of `decide` it
takes, the command, and the agent's motion under it. The branches are disjoint disjuncts of
`Decide`, in the code's order of precedence:

| Action | Code |
|---|---|
| `Overrun` | `step_guarded` after a missed deadline: `decide` has run, its verdict is discarded, the watchdog brakes |
| `BadInput` | a malformed signal, pose or setpoint: brakes before the monitors are advanced |
| `ScalarViolated`, `MonitorFired` | the detect layers, each answered with its `on_uncertain` |
| `AdmitDirective`, `NotCertifiable` | the action gate for actions that are not numeric |
| `Uncertifiable`, `Shielded` | the projection fails, or gives the least change that is safe |

| Model | Code |
|---|---|
| `hold_active`, `hold_anchor` | `SafetyCore::hold_active`, `hold_anchor`: the latched pose of a hold |
| `fed`, `prev_root` | the monitor's window and its last robustness |
| `verdict` | `SafetyVerdict`: reason, backup kind, command |
| `position`, `weather` | the plant: the agent's pose; whether the environment still disturbs it |
| `seen`, `engaged` | history: the margins of the ticks that passed; where the current hold engaged |

The space is a line between two half-spaces, `Low..High`, with one sphere keep-out
(`Center`, `Radius`) in it, so the safe set is two intervals and a pull may be barred, as in
the tests of `backup.rs` (`retreat_falls_back_to_brake_when_target_is_behind_a_keepout`,
`velocity_retreat_through_a_keepout_degrades_to_stop`). A sphere's barrier row is its
supporting half-space: it bounds the next pose to the side the agent is on (`RowLow`,
`RowHigh`), and at the centre there is none (`Feasible`). The guard of a backup has no rows;
it looks at the predicted pose alone. The step ball and the rows are intervals of commands,
and the projection is a clamp. That keeps what the properties tell apart - inside or outside,
towards or away, barred or free, velocity or position - and leaves the numerical solver out.
The actuator executes the command within the tick; a disturbance of up to `Drift` may push
the agent, though not into a keep-out by itself. `Gain` is `k_p * dt`: both runs take the
default, `k_brake^2 / 4` at one second, which is four.

| Run | Instance | What it shows |
|---|---|---|
| `guard_velocity` | the velocity channel, started in and out of the set, a sphere as narrow as a step, a safe pose outside the set, malformed input, garbled poses, overruns, disturbances (12,954 states) | `NeverDeeper`, `NeverThrough`, `AnchorIsEngagement` |
| `guard_position` | both numeric channels and a directive, three margins, a window of two ticks, overruns, disturbances until the environment settles; one start lies beyond the sphere from the safe pose (27,555 states) | `StaysOut`, `HoldReturns` across channels, `NoClauseForgotten`; `Recovers` and `Retreats` under fairness |

Properties in words: no tick brings the agent into a keep-out or deeper into one
(`NeverDeeper`); no certified command takes it through a sphere to the other side, and a
backup only if a step is as long as the sphere is wide (`NeverThrough`); an agent that starts
outside stays outside (`StaysOut`); a hold's anchor is where this hold engaged, not an earlier
one (`AnchorIsEngagement`), and no tick of it leads away from there, but that a gain above two
may pass the anchor by up to one step (`HoldReturns`); nothing is certified while the clause
is violated over the ticks that passed (`NoClauseForgotten`); once inputs are good and calm
every command is the policy's again (`Recovers`); while the bound stays broken the agent comes
within a step of its safe pose and remains there, or stops where the way there is barred
(`Retreats`). Both ends of a retreat occur in the run: from the near side the agent arrives,
with the default gain passes the safe pose and may oscillate about it; beyond the sphere its
guard rejects every pull and it stays where it is for good. That the floor does not move the
agent and that no command exceeds the reviewed step (`BrakeStops`, `SpeedCapped`) are proved
only.

Bounds: none on the length of a run; the state is finite because the line is. In
`guard_position` a step of three on five free cells lets a pull reach its target, pass it, be
cut off by the speed ball and be rejected, and the sphere is wider than a step; in
`guard_velocity` it is not, so that a backup does step over it. The starts of the latter reach
two or three beyond either side; a window of two ticks is the shortest with a tick in its
middle.

Fairness: `WF(Tick)`. The wrapper calls the core once per action of the control loop, and
`step` is straight-line code. `Recovers` and `Retreats` are conditional on the environment
settling (`weather`), which nothing forces.

### 3.4 `Leaderboard` - bench's hosted leaderboard

Source: `src/astro_mine/bench/leaderboard/_service.py`, with `_jobs.py`, `_sql.py`,
`_eval.py`, `_provenance.py`, `_authz.py`.

Every call of the service runs on a handler of its own, and one call of a store, of the
queue or of the limiter is one step; between two steps the other handlers move. `submit_hub`
is both ends of its queue: it publishes its envelope, marks the job queued, takes the
envelope at the head - which may be another handler's - and scores its own policy under that
envelope's job.

| Model | Code |
|---|---|
| `call` | where each handler stands, with its request and what it has in hand |
| `jobs` | `JobStore`: status and result id per ticket |
| `queue` | `JobQueue`, the tickets of the published envelopes |
| `count` | `RateLimiter`: submissions per subject in the window |
| `board`, `objects` | `LeaderboardStore`, keyed by content address; `ObjectStore` of bundles and replays |
| `shared` | history: two envelopes were in the queue at once |
| `abandoned` | history: the jobs whose last handler an exception that nobody catches took away |

| Actions | Code |
|---|---|
| `Authorize`, `RateLimit`, `ResetWindow` | the authorizer with its quota, the limiter |
| `IntakeRejects`, `Publish`, `MarkQueued` | the intake of `submit_hub` |
| `Take`, `MarkRunning`, `NoSeeds`, `Score`, `Audit`, `List`, `Settle` | `_evaluate_queued` and what it calls |
| `SubmitLocal` | `submit_local`: no job, no queue, no bundle |
| `ReadEntry`, `AttachReplay`, `Retract` | `attach_replay` and `retract`: a read, and later a write |
| `Raise`, `AuditEscapes`, `AttachEscapes` | an exception other than a `SandboxError`, from any call a handler makes: what was written stays written and nobody settles the job |

| Run | Instance | What it shows |
|---|---|---|
| `leaderboard_pipeline` | three handlers, one lab that submits both artifacts under a limit of one, an admin, a policy that may crash and one whose runs differ, one local submission (1,139,814 states) | `NeverLost`, `LineageStored`, `OwnResult`, `Attended`, `Settles` |
| `leaderboard_crossed` | the same with two labs, one artifact each | **finding**: a ticket links to a result of somebody else's artifact |

In words: every handler that has published finds an envelope, however many others fail and
leave theirs behind, so the `RuntimeError` of `_evaluate_queued` is out of reach
(`NeverLost`); every digest an entry names is in the
object store and is of its own artifact and score (`LineageStored`); while no two envelopes
were in the queue at once, a job links to a run of its own artifact (`OwnResult`), and a
job shown as active has a handler at work on it (`Attended`) and in the end is active no more
(`Settles`), the last two unless something other than a `SandboxError` was raised under its
handler. That exception is the code's: `_service.py:563-617` settles the job for a
`SandboxError` only (3.8).

Bounds: the limit of one submission per window, with windows that reset at any moment, gives
resubmission and refusal both; three handlers are the least for a queue of two with a third
handler retracting or replaying. In the passing run one lab submits both artifacts, so it waits for a
new window in between and both orders of intake and refusal occur; the crossed run has a lab
for each. Fairness: `WF(Continue(h))`: what a started handler calls returns or raises, and the
sandbox stops a run that takes too long. That the stores answer at all is an assumption; they
are in-process or a database call. Nobody has to call, and no exception has to be raised. A
handler makes one call in a behaviour, so `Settles` says how things stand when the calls there
are have run.

### 3.5 `Executive` - mind's tier stack under comms loss

Source: `src/astro_mine/mind/exec/policy.py`, `strategy.py`, `degrade.py`, `_tick.py`, `plan.py`,
and the gossip coordinator of `mind/coord/model.py`.

A tick of `StackPolicy.decide` is sequential: `StartTick` (an episode that begins rebuilds
the strategy), `Replan` or `Hold` per tier, top down, and `Emit`. The environment chooses the
contact of every agent, which policies raise, what the mission decides and when an episode
ends.

| Model | Code |
|---|---|
| `tier` | per tier: cached batch with its stamp, time since the last decision, whether it fell back |
| `at`, `upstream` | the tier whose turn it is, the batch handed down |
| `dark`, `wasDark` | comms denied now; `_was_denied` |
| `emitted` | the batch that leaves the strategy |
| `reused`, `missed`, `sinceSwitch`, `epoch` | history: the mission's last replan only restamped its old cache; its policies raised when comms came back; ticks since comms changed, and in the episode |

`DecideTier` has the triggers in the code's order of precedence; `Replan` the chain policy,
fallback, last cached decision, empty batch; `Coordinated` the yields of the gossip.

The run `executive_blackout` (three tiers, three agents, two sites; 217,263 states) checks:
with comms up no mission plan past its horizon is in force, unless the policies raised the
last time they were asked (`FreshWhenLit`); the plan in force after a blackout was made when
comms came back or later, unless the policies raised on that very tick, and through a blackout
is the one the swarm went dark with (`PlanOfRegime`); in the dark, at ticks whose batch was
computed from the claims it is resolved with, no two agents work one task, and no claimed task
is without a worker (`OneWorker`); nothing decided in an earlier episode is acted on (`NoCarryOver`).

Bounds: time is kept as ages that stop counting at `Cap`, beyond every horizon and period of
the stack, so the run is not bounded in length. Three tiers are the mission, one with
triggers of its own and a reactive one; three agents on two sites make a conflict and a free
agent. No fairness: all properties are about states.

### 3.6 `CloudRun`, `EventStream` - submissions, pods and the event stream

Source: `src/astro_mine/cloud/submission/_run.py`, `cluster.py`, `harness.py`,
`src/astro_mine/cloud/runs/events.py`, `eventlog.py`, `cloud/engines/k8sjob.py`.

| Model | Code |
|---|---|
| `pc`, `note`, `result` | where a host is in `submit`; the status it has published and not yet recorded; the run context in hand |
| `object`, `pods` | the Kubernetes Job of a job's content hash, and its pods |
| `contexts` | run contexts in the artifact store |
| `log`, `floor`, `reader` | the event stream, the acknowledgement floor of the durable name, each subscriber's batch |
| `status` | the status store, last write wins, per run address: `run_pin` of the context, which jobs of another command, environment, checkpoint or tenant share; in the instance both jobs do |
| `handled` | history: the events the handler has finished |

| Actions | Code |
|---|---|
| `Publish`, `Record` | the two halves of `RunObserver.transition`; a host that is lost between them never records |
| `Stage`, `Launch` | `execute` with the local backend |
| `Apply`, `Poll`, `TimeOut`, `Collect` | `dispatch` of the cluster backend |
| `StartPod`, `PodRuns`, `PodPrints`, `PodExits`, `KillPod` | Kubernetes and the harness in the pod (`backoffLimit`, `podFailurePolicy`) |
| `Fetch`, `Handle`, `Ack`, `Stop` | `DurableSubscriber.drain`, a handler that raises, a restart |
| `Lose` | a broker or a Redis that refuses a call, a host that dies |
| `Hang` | a call that does not return: `local.py:66-68` runs the workload, and `cluster.py:101` runs `kubectl`, without a timeout |

| Run | Instance | What it shows |
|---|---|---|
| `cloud_events` | two hosts with one job, or one host and two subscribers of one durable name; either backend, with and without retries (781,719 states) | `ResultIsBacked`, `ImplementsStream`, `AllHandled`, `SubmitEnds` |
| `cloud_unended` | one host through the cluster, no fault | **finding**: a dispatch that times out publishes no terminal event |

In words: an event that reports a result carries a context its own workload stored, with the
exit code reported, whatever was killed or retried (`ResultIsBacked`); the log and its
subscribers are the durable stream of `EventStream`: append-only, acknowledged no further than
handled, handled in order (`ImplementsStream`, where `Delivered` is what the refinement keeps
true of the state); every event is handled at last (`AllHandled`); every submission ends, unless
its host dies or one of its calls never returns (`SubmitEnds`). About the status store nothing
is checked but its type: it follows the events up to a lost half, and one run may overwrite
another's status (3.8); what is proved of it is `StatusWasPublished`.

Bounds: `MaxFaults` = 2 faults of any kind for the whole system, `MaxPods` = 2 for an object,
`backoffLimit` 3 cut to 1 (a retry and the last failure both happen), a fetch of two events
while a run publishes three. Fairness: WF of each host's and each subscriber's steps. A host
whose calls return goes on, and its clock reaches its deadline; a host may `Hang` instead, at
every call, as often as hosts there are and without drawing on `MaxFaults`, because the
deadline is compared between two calls only (`cluster.py:264-273`). The cluster promises nothing.

### 3.7 `Registry`, `Catalogue` - hub's local registry and bench fetch

Source: `src/astro_mine/hub/registry/_store.py`, `hub/client/_client.py`,
`bench/content/_fetch.py`, `seal/_attest.py` and `_supply_chain.py`.

| Model | Code |
|---|---|
| `disk`, `index` | the blobs under `blobs/sha256`, the entries of `index.json` |
| `at`, `item`, `call`, `left`, `seen` | per publisher or fetcher: where it is in its task, in its registry calls, in the blobs of one call, and the index that call has read |
| `gc` | `garbage_collect`: the entries it read, what it reclaims |
| `kept` | history: what a command has reported as published or fetched |

A blob is its content; a file is written in one step, and a process may be killed between any
two (`Abort`, `AbortCollection`), after which the command may be run again (`Rerun`). `Begin`,
`Refuse`, `PutBlob`, `ReadIndex`, `WriteIndex` are `publish` and `attach`; `Present`, `Open`,
`Verified`, `Unverified` are the client's and the fetch's; `Mark`, `Unlink`, `Sweep` the
collection.

| Run | Instance | What it shows |
|---|---|---|
| `hub_aborts` | a fetcher of two pins that share a layer, a publisher of another artifact under the name of one of them, three kinds of evidence, three aborts (148,742 states) | `IndexBacked`, `KeptVerifies`, `ImplementsCatalogue` |
| `hub_refetched` | one pin, one abort | **finding**: a fetch killed after its publish is refused for ever, although no other digest holds the name |

In words: each entry finds its manifest and all that its manifest names (`IndexBacked`); what
was reported stays verifiable, evidence included (`KeptVerifies`); to its clients the directory
is the `Catalogue` that `_store.py:10-22` guarantees (`ImplementsCatalogue`). An artifact is
published in the catalogue, and evidence attached, while the index lists it and all it names is
on the disk, so a step that reclaimed a blob of anything listed, dropped an entry, attached
evidence to what is not listed or bound a name twice would be a step the catalogue does not
have.

Bounds: `MaxAborts`. The instance assumes `Overlap = FALSE`: no two registry calls at once,
which nothing in the code enforces. With `Overlap = TRUE` TLC refutes `IndexBacked`,
`KeptVerifies` and `ImplementsCatalogue`
without a single abort, because the index is read and then rewritten whole; nothing in the
source promises otherwise, so it is an assumption here and not a finding. No fairness.

### 3.8 Departures of the code from its documentation

Each violation run above belongs to an entry of `findings`, which quotes the line it
disagrees with. The others, met while modelling, are hypotheses of the runs and theorems:

* `RunBatch`. The job store kept for a second objective puts its result under the key of
  the first (`jobs.py:109` against `cache.py:4-5`): `CacheSound` needs one objective. A job
  listed twice in a plan is run again after it succeeded (`jobs.py:244` against 15-16):
  `DistinctPlan`. An orphan thread and the resumed call evaluate one tuple twice
  (`jobs.py:192` against `cache.py:4`); the results agree. So does a task of a dispatcher
  without a cache, already past the resume check when an orphan of an earlier, caching
  dispatcher delivers (`jobs.py:244`): the exception `ResumeNeverRepeats` states.
* `Monitor`. A clause whose window does not begin at the current tick, like `always[1,2]`,
  predicts a violation at its first sample, since an empty window is `+infinity`
  (`monitors.rs:160` against 91): `SteadyNeverAlarms` is checked where windows begin at once.
* `SafetyCore`. A malformed input returns before the monitors advance (`arbiter.rs:475`
  against 17): `NoClauseForgotten` needs good inputs. With `k_p` times the period at 4, the
  default, a pull overshoots by more than it was off (`backup.rs:241` against 75): `HoldReturns`
  and `Retreats` let a hold or a retreat pass its target, by at most a step. A pull that would
  end in a keep-out is rejected (`backup.rs:258`), so a retreat may stop for good on the near
  side of one, as two tests of `backup.rs` want: `Retreats` says "arrives, or stops where the
  way is barred". The guard looks at the end of a pull and not at its way, so a backup steps
  over a keep-out no wider than a step: the exception in `NeverThrough`. A sphere with no radius
  has no barrier row. A missing observation of a model without signals
  reads as the pose zero (`shield.py:307` against 23), and `hold_position` reads a non-finite
  coordinate as zero (`backup.rs:221` against 54): `PoseIsKnown`. The core is stepped once per
  action, so two actions of one agent in a batch count as two ticks of its windows
  (`shield.py:505`).
* `Executive`. A mission whose policies all raise keeps its old plan with a new stamp, so
  `plan_expired` does not fire (`strategy.py:156` against `enums.py:57`): the exception in
  `FreshWhenLit`. A tier that holds acts on its own cache, which may be older than the mission's
  plan, while the claims are read from the plan: `OneWorker` is about the ticks at which what is
  emitted was computed from those claims (`upstream = claims`).
* `Leaderboard`. A terminal job is overwritten by a resubmission or by the refusal of one
  (`_jobs.py:62`); `attach_replay` restores a retracted entry, and undoes a newer verdict; a
  resubmission drops the replay; the quota compares with `>` and admits one more.
* `CloudRun`. The collector looks at logs and not at the phase of the object, so an older
  pod's result wins when the last log cannot be read (`cluster.py:276-281`): `ResultIsBacked`
  says the workload's own result, not its last pod's. A host lost between the two halves of
  `transition` leaves the status store behind the events, and since `run_pin` leaves out the
  command, the environment, the checkpoint and the tenant (`runcontext.py:106-117`), different
  submissions write one status (`events.py:125-132`): that the status is the run's own last event
  holds in neither case, and is not claimed. A workload or a `kubectl` that hangs keeps `submit`
  past its deadline: the exception in `SubmitEnds`.
* `Registry`. A failed publish leaves its name taken, so a name is burnt and not rebound.

### 3.9 What is not modelled

* guard: the EFFORT channel; ellipsoid and cylinder keep-outs and the iterations of the
  Dykstra projection; floating point; several actions of one agent in one batch; audit
  emission; compilation and signing of safety models.
* studio: the contents of an evaluation; the Cloud dispatcher, the optimiser's ask/tell loop,
  publishing and documents.
* bench: the ordering of the board, signatures, the audit log, authentication, the sandbox
  (its outcome is a choice).
* mind: behaviour trees, the guardrail shield, `Executive.run`, what a policy computes.
* cloud: the NATS and Redis backends, indexed and Ray jobs, the TTL of finished objects, the
  contents of checkpoints, budgets, caches, scheduling.
* hub: the remote registry, the catalog and search, resolution, policy, curation, the
  client's pull cache, torn files.
* seal, core, fleet, worlds, link, prospect, sim, allocate, learn, surrogate, spice: pure or
  numerical, with the reason of each in `PROJECT.json`. Of these, fidelity selection with
  hysteresis, the coupled iteration of `sim` and the retrying executor of `learn` keep state
  that a model could say something about.
## 4. Proofs

All proofs are checked by TLAPS for every value of the constants that satisfies the named
assumptions; the constants' assumptions are evaluated by TLC on every run.

**`RunBatchProofs`** (`PlanAssumption`: the plan is a finite sequence of jobs, at least one
slot, a finite number of calls).

* The inductive invariant is `IInv == TypeOK /\ Registered /\ QueueInv /\ CountInv`.
  `SlotsConserved` alone is not inductive: handing a slot to the head of the queue is
  right only if the queue lists each waiting task once (`QueueInv`), and a record's cache key
  is a key only once the record exists (`Registered`). `HandlerShapes` folds the handlers,
  whole or killed part-way, into six effects on the semaphore (`Settle`, `Enqueue`, `Take`,
  `Release`, `Finish`, `Reset`), and the invariant is proved per effect.
* `TypeCorrect`, `SlotsAreConserved` follow from `InvHolds`.
* `JobInv` adds, for a plan that lists no job twice (`DistinctPlan`), that a waiting task's
  job is unfinished and an evaluating one's is running - the fact that makes acting on a record
  read before the wait safe - and that a result is there exactly when a job has succeeded.
  Without `DistinctPlan` it fails (3.8).
* `LifecycleIsImplemented`: the initial state maps to the abstract one, and each step to a
  step of `JobLifecycle` or a stutter (`LifecycleStep`). `SuccessIsFinal` is the action
  property from the same invariant.
* `CacheIsSound` needs a store kept for one objective (`OneObjective`): a record's key is then
  that of its own job (`OwnKeys`), so whoever writes an entry, a task or a thread that
  outlived its call, writes what the key stands for (`CacheWrites`), and an entry never
  changes. `SuccessesAreBacked` and `NothingIsRepeated` take both hypotheses; the latter adds
  `WaitInv`: in the first call no thread has outlived its task, and a task that waits has no
  result to find, because the other tasks write under other keys.
* `BatchNeverStandsStill` and `TasksNeverGoBack` are the safety halves of `BatchReturns`.
  `CanStep` is the guard of what a `run_one` does next: while a call is open and a task is left,
  some task meets it (`SomeoneMoves`: if nobody with a slot can go on then every slot is free,
  by `CountInv`, and with a free slot nobody waits, by `QueueInv`). No step but the end of the call sets a task back
  (`Stage`), so its tasks take at most four steps each. What is left to TLC is that steps which
  can be taken are.

**`Extrema`** has what the other modules need of `Min` and `Max`: a nonempty finite set of
integers has a least and a greatest element (by well-founded induction on finite sets), and
a window of a sequence has a least value.

**`MonitorProofs`** (`PlanAssumption`: children before parents, arities, `lo <= hi`).

* `IInv == TypeOK /\ WindowsHold /\ Evaluated /\ MatchesSemantics /\ Trend`. The semantics is
  not inductive: that a buffer's contents are the values of the ticks before (`WindowsHold`)
  is what makes a node's next value right, and that the nodes before `at` have their meaning
  at the tick under way (`Evaluated`) is what makes the nodes after it right. `Trend` ties
  `prev_root` and the last prediction to the last two robustness values.
* `PushHolds` is the lemma of the ring buffer: pushing keeps "the last `cap` values, newest
  first" at every fill level and head position. `ValueIsMeaning` takes each operator from
  its buffers to its meaning; `Until` is by the windows of both arguments.
* `BuffersAreWindows`, `EvaluationIsSemantics`, `ViolationsAreAnnounced` follow. The last one
  needs that the horizon is at least one tick.
* `SteadySignalsAreQuiet` has the hypothesis `WindowsBeginNow`, for it does not hold of a clause
  with a delay (3.8). It needs no invariant of its own: if no atom has moved then no node has
  (`NothingMoves`), for the first node that had would have an argument that had, and the meaning
  of constant arguments is the same at every tick (`ConstantMeaning`). `Trend` then says that
  a prediction is a fall.
* `WindowsAreLeastMargins` is what ties this module to `SafetyCore`: an `always` over an atom is
  the least of the last margins heard.

**`SafetyCoreProofs`** (`GeometryAssumption`, `ClauseAssumption`).

* `TypeCorrect` has no hypothesis.
* `Answers` says that every branch of `Decide` is a backup or a certificate;
  `ControlFacts` and `ProjectedFacts` that the command of either is harmless: it leaves the
  agent where it is, or moves it within the step ball to a pose in the safe set. `TickFacts`
  puts them together, and `NoTickGoesDeeper`, `SafeSetIsInvariant`, `FloorStops` and
  `StepsAreCapped` follow under `PoseIsKnown`: either every pose arrives intact, or the core
  works in the velocity channel alone and declares signals, so that a missing observation is
  noticed.
* `HoldInv` relates the latch to the history: `hold_active` exactly when the last verdict was
  a hold, and the anchor then is `engaged`. `AnchorsAreFresh` is a part of it. `HoldsReturn` is about one pull (`PullReturns`), for
  every gain: with `k_p * dt` above two it may pass the anchor, by no more than a step.
* `NoWayThrough`: a barrier row bounds the next pose to the side the agent is on (`RowFacts`,
  `ProjectedFacts`), and a backup, which has no rows, cannot cross a sphere wider than a step.
* `HistoryHasNoGap`: `NothingMissed` says the monitor was fed what was seen, which holds if
  no input is malformed (`InputIsGood`), and fails otherwise (3.8).
* What a tick gains once the environment has settled, the safety halves of `Retreats` and
  `Recovers`. `RetreatsInAStraightLine`, for every gain and every
  keep-out: in a storm only `ScalarViolated` is enabled (`StormTick`), and its pull is a full
  step or none at all (`PullMoves`, `PullFromAfar`). So each tick gains exactly `VMax`, or the
  guard rejects the step and the agent is where it was, for good; within a step of the safe
  pose it remains there (`RetreatCloses`). `CalmClearsTheWindow`: every calm tick clears one value more
  (`ClearedByOne`). `CalmLetsGo`: over a cleared window the root is the best margin and did not
  fall, as `prev_root` is the root of what was fed (`RootIsRobustness`), and inside the set the
  shield has a command (`InsideIsFeasible`, which needs `Radius > 0`: 3.8).

**`LeaderboardProofs`** (`ServiceAssumption`: finitely many handlers, a limit of at least
one, every artifact has an outcome).

* `Inv` adds two facts to the properties. `InHand` says what a handler holds at each stage of
  its call: from the audit on its bundle is stored, and an entry it has read for a replay or a
  retraction has its lineage stored, because nothing is ever taken out of the object store.
  This is what makes `LineageStored` inductive although `attach_replay` writes an entry that
  may have been retracted or replaced since. `Single` says that while no two envelopes have met,
  a handler that waits is alone and the queue is its own ticket, though an envelope may be left
  for which nobody waits; without it neither `OwnResult` nor
  `Attended` is inductive.
* `NeverLost` goes through the cardinality of the set of waiting handlers: publishing adds one
  to it and one to the queue, taking removes one from each (`PublishInv`, `TakeInv`), and an
  exception can only remove one from the set (`EscapesInv`). So `NeverLost` is an inequality.
* `JobsKept` is the lemma of the job table: a handler that moves its own job on, or leaves it
  settled, keeps `Attended` whatever the others are doing; one that an exception takes away
  leaves its jobs in `abandoned`, the exception `Attended` makes. `WorkInv`, `WorkDoneInv` and
  `AsideInv` are the three shapes of a handler's step.
* `TypeCorrect`, `QueueLosesNothing`, `LineageIsStored`, `ResultsAreOwn`, `JobsAreAttended`.
* `JobsAreTheirOwn` and `CallsEnd` look at the handlers one by one: each step of one advances it
  along `Rank` and touches one job at most, its own request's before the queue (`IntakeSteps`)
  and its envelope's after (`WorkSteps`), which `Single` says are the same. With
  `JobsAreAttended` this is the safety half of `Settles`: a job shown as pending was abandoned or has a handler
  at work on it, and that handler has at most ten steps to take. When two envelopes meet in the
  queue, `JobsAreTheirOwn` fails with `ResultIsOwn` (3.8).

**`ExecutiveProofs`** (`StackAssumption`: a finite set of agents with integer ids, a stack whose
first tier and no other is the mission, a positive horizon where `plan_expired` is a trigger,
as the loader demands).

* The properties speak of the moments between ticks, and the plan is remade in the middle of
  one. `Inv` therefore says of the mission's cache what holds before its turn and what holds
  after it (`Turned`): `NotExpired`, `Reconciled`, `Holds`. `Remembers` ties the comms the
  strategy remembers to those of the tick, and `Stamped` says that the age by which expiry is
  judged is the plan's own, except where a failed replan restamped it.
* `PlansAreFresh`, `PlansAreOfTheirRegime`, `EpisodesAreApart` follow, the first two with the
  exceptions they state: a mission whose policies raised may keep a plan past its horizon
  (`reused`), or past the end of a blackout (`missed`). `OneWorkerPerTask`, for the ticks at which
  the emitted batch was computed from the claims it is resolved with, adds
  `SomeoneKeeps`: of the claimants of a task one has the least id (`Extrema!HasLeast`), and it
  does not yield if nobody claims two tasks.

**`CloudRunProofs`** (`CloudAssumption`).

* `Inv == HostTypes /\ ResultsHeld /\ PodsStored /\ LogBacked /\ ReadsInOrder`, one part per
  owner of state. A result in the log is backed because a host has it in hand only once a pod
  has stored it (`ResultsHeld`), and a pod has an exit code only once it has stored its context
  (`PodsStored`). Delivery in order needs where each reader stands in its batch (`InStep`):
  a subscriber may acknowledge past what it has itself handled only if another one handled it.
* `TypeCorrect`, `DeliveredInOrder`, `ReportsAreBacked`.
* `StreamIsImplemented`: under the mapping that takes the log for the stream, `Publish` of a host
  is a publication, `Handle` the handling of an event all of whose predecessors are handled
  (`InStep` says so), `Ack` an acknowledgement or a stutter, and everything else, `Stop` and
  the fetch included, a stutter (`StreamStep`).
* `StatusWasPublished` is what publishing first and recording after gives the status store, through
  deaths in between and with several jobs at one address: it is never ahead of the stream, so a
  status read there is that of an event which some run of the address has published. `NotesTold`
  says the same of the half a host still has to do. That the status is that of the *last* event
  is not so (3.8).
* `ReturnedRunsAreClosed` says where the claim that `cloud_unended` refutes does hold: for a
  submit that returned, and in the local backend for one that raised after `started`.
  `Closing` is what a host has already said at each place.
* `SubmitIsBounded` is the safety half of `SubmitEnds`: `Left(h)`, the calls a submit has ahead of
  it, falls with each of its own steps and changes with nobody else's; a call that hangs is the one
  step it does not bound.

**`RegistryProofs`** (`RegistryAssumption`; each theorem has the hypothesis `~Overlap`).

* `IndexBacked` is not inductive: that an entry about to be written has all it needs, stored or
  still to be put (`Staged`), that what a call has read is what it will write back
  (`Exclusive`, `Staged`), that evidence is attached to what is listed (`Attaching`,
  `WellFormed`), and that the collector reclaims nothing that the index needs (`Collecting`) are
  the other parts. `KeptVerifies` comes from `KeptListed`: whatever was reported has all its
  evidence in the index.
* `TypeCorrect`, `IndexIsBacked`, `ReportedStaysSound`. Without `~Overlap` the last two, and the
  refinement, are false (3.7).
* `CatalogueIsImplemented`: because the index is backed, what is available is what it lists
  (`ListedIsAvailable`), so only a write of the index or a report can move the catalogue; a write
  is a publication under a free name or evidence for what is listed (`WrittenIndex`), a sweep
  writes back what it read (`SweptIndex`), and what verifies is listed with its evidence
  (`SoundIsListed`, `EvidenceIsListed`).

**What is only model-checked.** Liveness (`BatchReturns`, `Recovers`, `Retreats`, `Settles`,
`AllHandled`, `SubmitEnds`), which the prover does not reach. Of all but `AllHandled` the safety
half is proved, that something can still happen or that it happens only so often: see
`BatchNeverStandsStill`, `TasksNeverGoBack`, `CalmClearsTheWindow`, `CalmLetsGo`,
`RetreatsInAStraightLine`, `JobsAreAttended`, `CallsEnd` and `SubmitIsBounded`. That the steps
are then taken is what the fairness of the runs adds.
