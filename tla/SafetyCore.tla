----------------------------- MODULE SafetyCore -----------------------------
(***************************************************************************)
(* Guard's arbiter (rust/src/arbiter.rs) with its backup laws (backup.rs)  *)
(* and its shield (shield.rs), around one agent: every tick, the detect    *)
(* layers, the action gate, the shield and the simplex backup combine into *)
(* exactly one command, which the agent's actuator executes.               *)
(*                                                                         *)
(* The agent moves on a line between two half-space keep-outs, with a      *)
(* sphere keep-out in between: the safe set is two intervals, a pull may   *)
(* lead into a keep-out, and the projections are clamps; dt is 1. The      *)
(* kinematic channels are modelled, the EFFORT channel is not. There is    *)
(* one scalar bound and one clause, "the margin held for Window ticks",    *)
(* whose evaluation is what module Monitor proves of an always node.       *)
(***************************************************************************)
EXTENDS Integers, Sequences, SequencesExt, FiniteSetsExt

CONSTANTS
  Low, High,          \* the half-spaces, margin_m included
  Center, Radius,     \* the sphere, margin_m included
  VMax,               \* v_max, and step_max as dt is 1
  Gain,               \* k_p * dt of the pull towards a target
  SafePose,           \* safe_pose
  Start,              \* where the agent may start
  Setpoints,          \* proposed velocities and positions
  Modes,              \* the control modes the policy proposes
  FallbackMode,       \* action_policy.fallback_mode
  Directives, Configured, Authored,  \* action_policy, admissible_directives
  Margins,            \* robustness values of the clause's predicate
  Window, Horizon,    \* ticks the clause looks back, predictive horizon
  BoundFallback, ClauseFallback,     \* on_uncertain of the bound and the clause
  Sensors,            \* how the pose may arrive: "seen", "garbled", "absent"
  Malformed,          \* whether signals or setpoint may be non-finite
  MayOverrun,         \* whether a tick may miss its deadline
  HasSignals,         \* whether the compiled model declares signals
  Drift,              \* what a disturbance may move the agent in a tick
  Garbled, NoTarget, NoCommand, NoRoot

Kinds == {"brake", "hold", "safe_state"}
AllModes == {"velocity", "position"}

ASSUME GeometryAssumption ==
  /\ Low \in Int /\ High \in Int /\ Low <= High
  /\ Center \in Int /\ Radius \in Nat
  /\ VMax \in Nat /\ Gain \in Nat /\ Drift \in Nat
  /\ SafePose \in Int \cup {NoTarget}
  /\ Start \subseteq Int /\ Setpoints \subseteq Int
  /\ Modes \subseteq AllModes /\ FallbackMode \in AllModes
  /\ Sensors \subseteq {"seen", "garbled", "absent"}
  /\ Garbled \notin Int /\ NoTarget \notin Int /\ NoTarget # Garbled
  /\ NoCommand \notin [mode : AllModes, value : Int]

ASSUME ClauseAssumption ==
  /\ Margins \subseteq Int
  /\ Window \in Nat /\ Horizon \in Nat \ {0}
  /\ NoRoot \notin Int
  /\ {BoundFallback, ClauseFallback} \subseteq Kinds

VARIABLES
  position,     \* the agent's pose
  hold_active, hold_anchor,
  fed,          \* the margins the monitor was last advanced by, newest last
  prev_root,    \* the clause's robustness when it last was
  verdict,      \* reason, backup kind and command of the last tick
  seen,         \* history: the margin of each of the last ticks
  engaged,      \* history: the pose at the first of the last hold ticks
  weather       \* "open" until the environment settles to "calm" or "storm"

vars == <<position, hold_active, hold_anchor, fed, prev_root, verdict, seen, engaged, weather>>

-----------------------------------------------------------------------------
(* What a tick is given. *)

Proposals ==
  [kind : Modes, setpoint : Setpoints] \cup
  [kind : {"directive"}, name : Directives] \cup {[kind |-> "opaque"]}

Numeric(in) == in.proposed.kind \in AllModes

Inputs ==
  [sensor : Sensors, intact : IF Malformed THEN BOOLEAN ELSE {TRUE},
   late : IF MayOverrun THEN BOOLEAN ELSE {FALSE},
   within : IF HasSignals THEN BOOLEAN ELSE {TRUE},
   margin : Margins, proposed : Proposals]

Benign(in) ==
  /\ in.sensor = "seen" /\ in.intact /\ ~in.late
  /\ weather = "calm" => in.within /\ in.margin = Max(Margins) /\ Numeric(in)
  /\ weather = "storm" => ~in.within

(* ActionCodec.read_position: zeros without an observation. *)
Pose(in) ==
  CASE in.sensor = "seen"    -> position
    [] in.sensor = "garbled" -> Garbled
    [] in.sensor = "absent"  -> 0

(* Without an observation every declared signal resolves to NaN. *)
GoodInput(in) ==
  /\ in.intact
  /\ Pose(in) # Garbled
  /\ in.sensor = "absent" => ~HasSignals

(* The channel a fallback is answered in. *)
Channel(in) == IF Numeric(in) THEN in.proposed.kind ELSE FallbackMode

-----------------------------------------------------------------------------
(* backup.rs *)

Distance(x, y) == IF x < y THEN y - x ELSE x - y

InSet(x) == Low <= x /\ x <= High /\ Distance(x, Center) >= Radius
Clamp(x, lo, hi) == IF x < lo THEN lo ELSE IF x > hi THEN hi ELSE x
Capped(x) == Clamp(x, -VMax, VMax)

Velocity(w) == [mode |-> "velocity", value |-> w]
Position(q) == [mode |-> "position", value |-> q]

(* finite_at: a non-finite coordinate reads as zero. *)
Finite(p) == IF p = Garbled THEN 0 ELSE p

(* stop_velocity, hold_position: the floor of each channel. *)
Floor(mode, p) == IF mode = "velocity" THEN Velocity(0) ELSE Position(Finite(p))

(* Faulty variant: the pull is emitted wherever it leads. *)
UnguardedPull(mode, g, p) ==
  IF mode = "velocity" THEN Velocity(Capped(Gain * (g - p))) ELSE Position(p + Capped(g - p))

(* guarded_velocity, guarded_position: towards g, if that stays in the set. *)
GuardedPull(mode, g, p) ==
  LET w == Capped(Gain * (g - p))
      q == p + Capped(g - p)
  IN CASE mode = "velocity" /\ InSet(p + w) -> Velocity(w)
       [] mode = "position" /\ InSet(q)     -> Position(q)
       [] OTHER                             -> Floor(mode, p)

(* Faulty variant: the target never reaches the law. *)
ControlBraking(mode, g, p) == Floor(mode, p)

Control(mode, g, p) ==
  IF g = NoTarget \/ p = Garbled THEN Floor(mode, p) ELSE GuardedPull(mode, g, p)

-----------------------------------------------------------------------------
(* shield.rs, in the kinematic channels *)

(* Faulty variant: the sphere has no row. *)
RowLowOfBounds(p) == Low

(* The rows: a sphere bounds the next pose by its supporting half-space,   *)
(* and so to the side of it the agent is on.                               *)
RowLow(p) == IF p > Center THEN Max({Low, Center + Radius}) ELSE Low
RowHigh(p) == IF p < Center THEN Min({High, Center - Radius}) ELSE High

(* The kinematic set and the rows: an interval of commands. *)
Lowest(mode, p) ==
  IF mode = "velocity" THEN Max({-VMax, RowLow(p) - p}) ELSE Max({p - VMax, RowLow(p)})
Highest(mode, p) ==
  IF mode = "velocity" THEN Min({VMax, RowHigh(p) - p}) ELSE Min({p + VMax, RowHigh(p)})

(* At the centre of a sphere there is no row. *)
Feasible(mode, p) == p # Center /\ Lowest(mode, p) <= Highest(mode, p)

(* Faulty variant: the speed ceiling alone. *)
ProjectedOnSpeed(mode, p, x) ==
  [mode |-> mode, value |-> IF mode = "velocity" THEN Capped(x) ELSE p + Capped(x - p)]

(* The least change to x that satisfies them all. *)
Projected(mode, p, x) ==
  [mode |-> mode, value |-> Clamp(x, Lowest(mode, p), Highest(mode, p))]

-----------------------------------------------------------------------------
(* The clause's monitor (module Monitor). *)

(* Faulty variants: nothing is dropped; the newest is. *)
NothingDropped(s) == s
NewestDropped(s) == IF Len(s) > Window + 1 THEN Front(s) ELSE s

Newest(s) == IF Len(s) > Window + 1 THEN Tail(s) ELSE s
Robustness(s) == Min(ToSet(s))

Falling(prev, r) == r < prev /\ r <= Horizon * (prev - r)

Advanced(in) == Newest(Append(fed, in.margin))

Advance(in) ==
  /\ fed' = Advanced(in)
  /\ prev_root' = Robustness(Advanced(in))

(* fired: violated now, or predicted to be. *)
Fired(in) ==
  LET r == Robustness(Advanced(in)) IN
  r < 0 \/ (prev_root # NoRoot /\ Falling(prev_root, r))

-----------------------------------------------------------------------------
(* The plant and what is remembered of it. *)

(* The actuator executes the command within the tick; a directive moves    *)
(* nothing. Until the environment settles a disturbance may push the       *)
(* agent, though not out of the set.                                       *)
Executed(command, p) ==
  IF command = NoCommand THEN p
  ELSE IF command.mode = "velocity" THEN p + command.value ELSE command.value

Moves(command) ==
  \E d \in -Drift..Drift :
    /\ position' = Executed(command, position) + d
    /\ d = 0 \/ (weather = "open" /\ InSet(position'))

Outcome(in, reason, kind, command) ==
  /\ verdict' = [reason |-> reason, kind |-> kind, command |-> command]
  /\ Moves(command)
  /\ seen' = Newest(Append(seen, in.margin))
  /\ engaged' = IF kind # "hold" THEN NoTarget
                ELSE IF verdict.kind = "hold" THEN engaged ELSE position
  /\ UNCHANGED weather

-----------------------------------------------------------------------------
(* arbiter.rs *)

(* Faulty variant: the anchor of the first hold is kept for good. *)
BackupOnce(in, reason, kind) ==
  LET target == CASE kind = "brake"      -> NoTarget
                  [] kind = "hold"       -> hold_anchor'
                  [] kind = "safe_state" -> SafePose
  IN
  /\ hold_active' = (kind = "hold")
  /\ hold_anchor' = IF kind = "hold" /\ hold_anchor = NoTarget THEN Pose(in) ELSE hold_anchor
  /\ Outcome(in, reason, kind, Control(Channel(in), target, Pose(in)))

(* emit_backup: the anchor latches on the first tick of a hold. *)
Backup(in, reason, kind) ==
  LET target == CASE kind = "brake"      -> NoTarget
                  [] kind = "hold"       -> hold_anchor'
                  [] kind = "safe_state" -> SafePose
  IN
  /\ hold_active' = (kind = "hold")
  /\ hold_anchor' = IF kind = "hold" /\ ~hold_active THEN Pose(in) ELSE hold_anchor
  /\ Outcome(in, reason, kind, Control(Channel(in), target, Pose(in)))

Certify(in, reason, command) ==
  /\ hold_active' = FALSE
  /\ UNCHANGED hold_anchor
  /\ Outcome(in, reason, "none", command)

(* Faulty variant: emit_watchdog leaves the hold engaged. *)
OverrunHolding(in) ==
  /\ in.late
  /\ IF GoodInput(in) THEN Advance(in) ELSE UNCHANGED <<fed, prev_root>>
  /\ UNCHANGED <<hold_active, hold_anchor>>
  /\ Outcome(in, "watchdog", "brake", Control(Channel(in), NoTarget, Pose(in)))

(* step_guarded: decide has run, and its verdict is discarded. *)
Overrun(in) ==
  /\ in.late
  /\ IF GoodInput(in) THEN Advance(in) ELSE UNCHANGED <<fed, prev_root>>
  /\ Backup(in, "watchdog", "brake")

BadInput(in) ==
  /\ ~in.late
  /\ ~GoodInput(in)
  /\ Backup(in, "bad_input", "brake")
  /\ UNCHANGED <<fed, prev_root>>

(* The input is good: the monitor advances, whatever comes of the tick. *)
Examined(in) == ~in.late /\ GoodInput(in) /\ Advance(in)

(* Faulty variant: a tick that breaks the bound does not reach the monitor. *)
ScalarViolatedFirst(in) ==
  /\ ~in.late /\ GoodInput(in)
  /\ ~in.within
  /\ Backup(in, "scalar_violated", BoundFallback)
  /\ UNCHANGED <<fed, prev_root>>

ScalarViolated(in) ==
  /\ Examined(in)
  /\ ~in.within
  /\ Backup(in, "scalar_violated", BoundFallback)

MonitorFired(in) ==
  /\ Examined(in)
  /\ in.within
  /\ Fired(in)
  /\ Backup(in, "monitor_fired", ClauseFallback)

Passed(in) == Examined(in) /\ in.within /\ ~Fired(in)

(* ActionPolicy.admits, on the effective allowlist. *)
Admitted(in) ==
  in.proposed.kind = "directive" /\ in.proposed.name \in Configured \cap Authored

AdmitDirective(in) ==
  /\ Passed(in)
  /\ Admitted(in)
  /\ Certify(in, "certified", NoCommand)

NotCertifiable(in) ==
  /\ Passed(in)
  /\ ~Numeric(in) /\ ~Admitted(in)
  /\ Backup(in, "not_certifiable", "brake")

Uncertifiable(in) ==
  /\ Passed(in)
  /\ Numeric(in)
  /\ ~Feasible(in.proposed.kind, Pose(in))
  /\ Backup(in, "qp_uncertifiable", "brake")

Shielded(in) ==
  LET command == Projected(in.proposed.kind, Pose(in), in.proposed.setpoint) IN
  /\ Passed(in)
  /\ Numeric(in)
  /\ Feasible(in.proposed.kind, Pose(in))
  /\ Certify(in,
             IF command.value = in.proposed.setpoint THEN "certified" ELSE "shield_corrected",
             command)

Decide(in) ==
  \/ Overrun(in)
  \/ BadInput(in)
  \/ ScalarViolated(in)
  \/ MonitorFired(in)
  \/ AdmitDirective(in)
  \/ NotCertifiable(in)
  \/ Uncertifiable(in)
  \/ Shielded(in)

Tick == \E in \in Inputs : (weather # "open" => Benign(in)) /\ Decide(in)

(* The environment settles. *)
Settle ==
  /\ weather = "open"
  /\ weather' \in {"calm", "storm"}
  /\ UNCHANGED <<position, hold_active, hold_anchor, fed, prev_root, verdict, seen, engaged>>

Init ==
  /\ position \in Start
  /\ hold_active = FALSE /\ hold_anchor = NoTarget
  /\ fed = <<>> /\ prev_root = NoRoot
  /\ verdict = [reason |-> "none", kind |-> "none", command |-> NoCommand]
  /\ seen = <<>> /\ engaged = NoTarget
  /\ weather = "open"

Next == Tick \/ Settle

(* The agent's control loop calls the core every sample period. *)
Spec == Init /\ [][Next]_vars /\ WF_vars(Tick)
-----------------------------------------------------------------------------
(* Properties. *)

Commands == [mode : AllModes, value : Int] \cup {NoCommand}
Certificates == {"certified", "shield_corrected"}
Fallbacks == {"watchdog", "bad_input", "scalar_violated", "monitor_fired",
              "not_certifiable", "qp_uncertifiable"}

(* A fallback has a backup kind, a certificate has none, and the history   *)
(* of the monitor is no longer than its window.                            *)
TypeOK ==
  /\ position \in Int
  /\ hold_active \in BOOLEAN
  /\ hold_anchor \in Int \cup {NoTarget}
  /\ hold_active => hold_anchor # NoTarget
  /\ fed \in Seq(Margins) /\ Len(fed) <= Window + 1
  /\ seen \in Seq(Margins) /\ Len(seen) <= Window + 1
  /\ prev_root \in Int \cup {NoRoot}
  /\ verdict \in [reason : Certificates \cup Fallbacks \cup {"none"},
                  kind : Kinds \cup {"none"}, command : Commands]
  /\ verdict.reason \in Fallbacks <=> verdict.kind \in Kinds
  /\ engaged \in Int \cup {NoTarget}
  /\ weather \in {"open", "calm", "storm"}

(* How far x is inside a keep-out. *)
Depth(x) == Max({0, Low - x, x - High, Radius - Distance(x, Center)})

(* backup.rs, "the recover layer can never increase exposure to a          *)
(* keep-out", nor may the shield: whatever the policy proposes, no tick    *)
(* brings the agent into a keep-out or deeper into one.                    *)
NeverDeeper == [][Depth(position') <= Depth(position)]_vars

(* An agent that starts in the safe set stays there (arbiter.rs, "no       *)
(* positive certificate => backup").                                       *)
StaysOut == (\A x \in Start : InSet(x)) => InSet(position)

(* No layer commands a step beyond the reviewed envelope (backup.rs, "the  *)
(* same reviewed kinematic envelope the shield projects onto").            *)
SpeedCapped ==
  [][weather' = weather =>
       Distance(Executed(verdict'.command, position), position) <= VMax]_vars

(* The anchor of a hold is the pose at which the current, uninterrupted    *)
(* hold engaged, and not that of an earlier one (arbiter.rs:604).          *)
AnchorIsEngagement == verdict.kind = "hold" => hold_active /\ hold_anchor = engaged

(* backup.rs, "return to and hold the pose latched when the hold engaged": *)
(* a hold never commands the agent away from its anchor, but that a pull   *)
(* of more than twice the distance, which the default gain makes, passes   *)
(* the anchor and comes to lie within one step beyond it.                  *)
HoldReturns ==
  [][weather' = weather /\ verdict'.kind = "hold" =>
       LET next == Distance(Executed(verdict'.command, position), engaged') IN
       next <= Distance(position, engaged') \/ (Gain > 2 /\ next <= VMax)]_vars

(* shield.rs, "the next pose must stay on the safe side of the supporting  *)
(* half-space": no certified command takes an agent outside a sphere       *)
(* keep-out through it to its other side, and a backup, whose guard looks  *)
(* at the predicted pose alone, does so only if a step is as long as the   *)
(* sphere is wide.                                                         *)
NeverThrough ==
  [][weather' = weather /\ InSet(position) /\ Radius > 0
       /\ (verdict'.kind = "none" \/ 2 * Radius > VMax) =>
       (position < Center <=> Executed(verdict'.command, position) < Center)]_vars

(* backup.rs, "zero commanded velocity is a stop" and "command the current *)
(* pose (do not move)": the safe floor does not move the agent.            *)
BrakeStops ==
  [][weather' = weather /\ verdict'.kind = "brake" =>
       Executed(verdict'.command, position) = position]_vars

(* arbiter.rs, "the monitors are advanced every tick (even when an earlier *)
(* layer forces the backup)": no action is certified while the clause is   *)
(* violated over the ticks that really passed.                             *)
NoClauseForgotten == verdict.reason \in Certificates => Robustness(seen) >= 0

(* The guard is never stuck in its backup: once inputs stay good, limits   *)
(* kept and margins steady, every later command is the policy's, shielded. *)
Recovers == <>[](weather = "calm") => <>[](verdict.reason \in Certificates)

Near == Distance(position, SafePose) <= VMax
Blocked == ~InSet(position + Capped(SafePose - position))

(* backup.rs, "retreat toward the authored charging pose", "target is      *)
(* unreachable safely => degrades": while the bound stays broken the agent *)
(* comes within a step of its safe pose and remains there, or it stops,    *)
(* and then only where the step towards that pose leads into a keep-out.   *)
Retreats ==
  BoundFallback = "safe_state" /\ SafePose # NoTarget /\ Gain > 0 =>
     (<>[](weather = "storm") => <>[]Near \/ <>[](Blocked /\ ~Near))
=============================================================================
