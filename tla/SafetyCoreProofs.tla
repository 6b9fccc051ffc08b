-------------------------- MODULE SafetyCoreProofs --------------------------
(* Proofs about SafetyCore: for every safe set, speed, gain, proposal,     *)
(* window and disturbance.                                                 *)
EXTENDS SafetyCore, Extrema

-----------------------------------------------------------------------------
(* Commands. *)

LEMMA ClampFacts ==
  ASSUME NEW x \in Int, NEW lo \in Int, NEW hi \in Int
  PROVE  /\ Clamp(x, lo, hi) \in Int
         /\ lo <= hi => lo <= Clamp(x, lo, hi) /\ Clamp(x, lo, hi) <= hi
BY DEF Clamp

(* Capping shortens a step and keeps its direction. *)
LEMMA CappedFacts ==
  ASSUME NEW x \in Int
  PROVE  /\ Capped(x) \in Int
         /\ -VMax <= Capped(x) /\ Capped(x) <= VMax
         /\ x >= 0 => 0 <= Capped(x) /\ Capped(x) <= x
         /\ x <= 0 => x <= Capped(x) /\ Capped(x) <= 0
BY GeometryAssumption DEF Capped, Clamp

LEMMA Pairs ==
  ASSUME NEW x \in Int, NEW y \in Int
  PROVE  /\ Max({x, y}) \in {x, y} /\ Max({x, y}) >= x /\ Max({x, y}) >= y
         /\ Min({x, y}) \in {x, y} /\ Min({x, y}) <= x /\ Min({x, y}) <= y
<1>1. \E m \in {x, y} : \A z \in {x, y} : m >= z
  OBVIOUS
<1>2. \E m \in {x, y} : \A z \in {x, y} : m <= z
  OBVIOUS
<1>3. QED
  BY <1>1, <1>2 DEF Max, Min

Numbered == [mode : AllModes, value : Int]

LEMMA ExecutedFacts ==
  ASSUME NEW c \in Commands, NEW p \in Int
  PROVE  /\ Executed(c, p) \in Int
         /\ Executed(NoCommand, p) = p
         /\ c \in Numbered => Executed(c, p) = IF c.mode = "velocity" THEN p + c.value ELSE c.value
<1>1. NoCommand \notin Numbered
  BY GeometryAssumption DEF Numbered
<1>2. Executed(NoCommand, p) = p
  BY DEF Executed
<1>3. ASSUME c \in Numbered
      PROVE  Executed(c, p) = IF c.mode = "velocity" THEN p + c.value ELSE c.value
  <2>1. c # NoCommand
    BY <1>1, <1>3
  <2>2. c.mode = "velocity" \/ c.mode = "position"
    BY <1>3 DEF Numbered, AllModes
  <2>3. QED
    BY <2>1, <2>2 DEF Executed
<1>4. c = NoCommand \/ c \in Numbered
  BY DEF Commands, Numbered
<1>5. c \in Numbered => c.value \in Int
  BY DEF Numbered
<1>6. QED
  BY <1>2, <1>3, <1>4, <1>5

(* What a command does to a pose: it lets it be or puts it in the safe set. *)
Harmless(c, p) == Executed(c, p) = p \/ InSet(Executed(c, p))

(* A pull is harmless, in the step ball, and of either channel. *)
LEMMA PullFacts ==
  ASSUME NEW mode \in AllModes, NEW g \in Int, NEW p \in Int
  PROVE  /\ GuardedPull(mode, g, p) \in Numbered
         /\ Harmless(GuardedPull(mode, g, p), p)
         /\ Distance(Executed(GuardedPull(mode, g, p), p), p) <= VMax
<1>1. Gain * (g - p) \in Int /\ g - p \in Int /\ VMax \in Nat
  BY GeometryAssumption
<1>2. PICK w \in Int : w = Capped(Gain * (g - p)) /\ -VMax <= w /\ w <= VMax
  BY <1>1, CappedFacts
<1>3. PICK q \in Int : q = p + Capped(g - p) /\ -VMax <= q - p /\ q - p <= VMax
  BY <1>1, CappedFacts
<1>4. CASE mode = "velocity"
  <2>1. \/ GuardedPull(mode, g, p) = Velocity(w) /\ InSet(p + w)
        \/ GuardedPull(mode, g, p) = Velocity(0)
    BY <1>2, <1>3, <1>4 DEF GuardedPull, Floor
  <2>2. /\ Velocity(w) \in Numbered /\ Executed(Velocity(w), p) = p + w
        /\ Velocity(0) \in Numbered /\ Executed(Velocity(0), p) = p
    BY ExecutedFacts, <1>2 DEF Velocity, Numbered, Commands, AllModes
  <2>3. Distance(p + w, p) <= VMax /\ Distance(p, p) <= VMax
    BY <1>1, <1>2 DEF Distance
  <2>4. QED
    BY <2>1, <2>2, <2>3 DEF Harmless
<1>5. CASE mode = "position"
  <2>1. \/ GuardedPull(mode, g, p) = Position(q) /\ InSet(q)
        \/ GuardedPull(mode, g, p) = Position(p)
    BY <1>2, <1>3, <1>5, GeometryAssumption DEF GuardedPull, Floor, Finite
  <2>2. /\ Position(q) \in Numbered /\ Executed(Position(q), p) = q
        /\ Position(p) \in Numbered /\ Executed(Position(p), p) = p
    BY ExecutedFacts, <1>3 DEF Position, Numbered, Commands, AllModes
  <2>3. Distance(q, p) <= VMax /\ Distance(p, p) <= VMax
    BY <1>1, <1>3 DEF Distance
  <2>4. QED
    BY <2>1, <2>2, <2>3 DEF Harmless
<1>6. QED
  BY <1>4, <1>5 DEF AllModes

LEMMA FloorFacts ==
  ASSUME NEW mode \in AllModes, NEW p \in Int \cup {Garbled}, NEW q \in Int
  PROVE  /\ Floor(mode, p) \in Numbered
         /\ (mode = "velocity" \/ p = q) => Executed(Floor(mode, p), q) = q
<1>1. Finite(p) \in Int /\ (p = q => Finite(p) = p)
  BY GeometryAssumption DEF Finite
<1>2. Floor(mode, p) \in Numbered
  BY <1>1 DEF Floor, Velocity, Position, Numbered, AllModes
<1>3. Floor(mode, p) \in Commands
  BY <1>2 DEF Numbered, Commands
<1>4. Executed(Floor(mode, p), q) = IF mode = "velocity" THEN q + 0 ELSE Finite(p)
  BY <1>1, <1>2, <1>3, ExecutedFacts DEF Floor, Velocity, Position, AllModes
<1>5. QED
  BY <1>1, <1>2, <1>4

(* The rows hold the next pose in the safe set, on the agent's side of the *)
(* sphere, and let an agent that is in the set stay.                       *)
LEMMA RowFacts ==
  ASSUME NEW p \in Int
  PROVE  /\ RowLow(p) \in Int /\ RowHigh(p) \in Int
         /\ \A y \in Int : p # Center /\ RowLow(p) <= y /\ y <= RowHigh(p) =>
              InSet(y) /\ (Radius > 0 => (p < Center <=> y < Center))
         /\ InSet(p) => RowLow(p) <= p /\ p <= RowHigh(p)
<1>1. Low \in Int /\ High \in Int /\ Center \in Int /\ Radius \in Nat
  BY GeometryAssumption
<1>2. PICK a \in Int, b \in Int : a = Center + Radius /\ b = Center - Radius
  BY <1>1
<1>3. /\ Max({Low, a}) \in {Low, a} /\ Max({Low, a}) >= Low /\ Max({Low, a}) >= a
      /\ Min({High, b}) \in {High, b} /\ Min({High, b}) <= High /\ Min({High, b}) <= b
  BY <1>1, Pairs
<1>4. /\ RowLow(p) = IF p > Center THEN Max({Low, a}) ELSE Low
      /\ RowHigh(p) = IF p < Center THEN Min({High, b}) ELSE High
  BY <1>2 DEF RowLow, RowHigh
<1>5. RowLow(p) \in Int /\ RowHigh(p) \in Int
  BY <1>1, <1>3, <1>4
<1>6. /\ RowLow(p) >= Low /\ (p > Center => RowLow(p) >= a)
      /\ RowHigh(p) <= High /\ (p < Center => RowHigh(p) <= b)
  BY <1>1, <1>3, <1>4
<1>7. ASSUME NEW y \in Int, p # Center, RowLow(p) <= y, y <= RowHigh(p)
      PROVE  InSet(y) /\ (Radius > 0 => (p < Center <=> y < Center))
  BY <1>1, <1>2, <1>5, <1>6, <1>7 DEF InSet, Distance
<1>8. ASSUME InSet(p)
      PROVE  RowLow(p) <= p /\ p <= RowHigh(p)
  BY <1>1, <1>2, <1>3, <1>4, <1>8 DEF InSet, Distance
<1>9. QED
  BY <1>5, <1>7, <1>8

(* The two bounds of a command: the step ball and the rows. *)
LEMMA BoundFacts ==
  ASSUME NEW mode \in AllModes, NEW p \in Int
  PROVE  /\ Lowest(mode, p) \in Int /\ Highest(mode, p) \in Int
         /\ mode = "velocity" =>
              /\ Lowest(mode, p) \in {-VMax, RowLow(p) - p}
              /\ Lowest(mode, p) >= -VMax /\ Lowest(mode, p) >= RowLow(p) - p
              /\ Highest(mode, p) \in {VMax, RowHigh(p) - p}
              /\ Highest(mode, p) <= VMax /\ Highest(mode, p) <= RowHigh(p) - p
         /\ mode # "velocity" =>
              /\ Lowest(mode, p) \in {p - VMax, RowLow(p)}
              /\ Lowest(mode, p) >= p - VMax /\ Lowest(mode, p) >= RowLow(p)
              /\ Highest(mode, p) \in {p + VMax, RowHigh(p)}
              /\ Highest(mode, p) <= p + VMax /\ Highest(mode, p) <= RowHigh(p)
<1>1. PICK l \in Int, h \in Int : l = RowLow(p) /\ h = RowHigh(p)
  BY RowFacts
<1>2. VMax \in Int
  BY GeometryAssumption
<1>3. PICK a \in Int, b \in Int, c \in Int, d \in Int, e \in Int :
        a = -VMax /\ b = l - p /\ c = h - p /\ d = p - VMax /\ e = p + VMax
  BY <1>1, <1>2
<1>4. /\ Max({a, b}) \in {a, b} /\ Max({a, b}) >= a /\ Max({a, b}) >= b
      /\ Min({VMax, c}) \in {VMax, c} /\ Min({VMax, c}) <= VMax /\ Min({VMax, c}) <= c
      /\ Max({d, l}) \in {d, l} /\ Max({d, l}) >= d /\ Max({d, l}) >= l
      /\ Min({e, h}) \in {e, h} /\ Min({e, h}) <= e /\ Min({e, h}) <= h
  BY <1>1, <1>2, Pairs
<1>5. /\ Lowest(mode, p) = IF mode = "velocity" THEN Max({a, b}) ELSE Max({d, l})
      /\ Highest(mode, p) = IF mode = "velocity" THEN Min({VMax, c}) ELSE Min({e, h})
  BY <1>1, <1>3 DEF Lowest, Highest
<1>6. CASE mode = "velocity"
  BY <1>1, <1>2, <1>3, <1>4, <1>5, <1>6
<1>7. CASE mode # "velocity"
  BY <1>1, <1>2, <1>3, <1>4, <1>5, <1>7
<1>8. QED
  BY <1>6, <1>7

LEMMA ProjectedFacts ==
  ASSUME NEW mode \in AllModes, NEW p \in Int, NEW x \in Int, Feasible(mode, p)
  PROVE  /\ Projected(mode, p, x) \in Numbered
         /\ InSet(Executed(Projected(mode, p, x), p))
         /\ Distance(Executed(Projected(mode, p, x), p), p) <= VMax
         /\ Radius > 0 => (p < Center <=> Executed(Projected(mode, p, x), p) < Center)
<1>1. VMax \in Nat /\ RowLow(p) \in Int /\ RowHigh(p) \in Int
  BY GeometryAssumption, RowFacts
<1>2. PICK y \in Int : /\ y = Clamp(x, Lowest(mode, p), Highest(mode, p))
                       /\ Lowest(mode, p) <= y /\ y <= Highest(mode, p)
  BY BoundFacts, ClampFacts DEF Feasible
<1>3. Projected(mode, p, x) = [mode |-> mode, value |-> y]
  BY <1>2 DEF Projected
<1>4. Projected(mode, p, x) \in Numbered /\ Projected(mode, p, x) \in Commands
  BY <1>3 DEF Numbered, Commands
<1>5. Executed(Projected(mode, p, x), p) = IF mode = "velocity" THEN p + y ELSE y
  BY <1>3, <1>4, ExecutedFacts
<1>6. PICK z \in Int : z = IF mode = "velocity" THEN p + y ELSE y
  OBVIOUS
<1>7. RowLow(p) <= z /\ z <= RowHigh(p) /\ -VMax <= z - p /\ z - p <= VMax
  <2>1. CASE mode = "velocity"
    BY <1>1, <1>2, <1>6, <2>1, BoundFacts
  <2>2. CASE mode # "velocity"
    BY <1>1, <1>2, <1>6, <2>2, BoundFacts
  <2>3. QED
    BY <2>1, <2>2
<1>8. InSet(z) /\ (Radius > 0 => (p < Center <=> z < Center))
  BY <1>7, RowFacts DEF Feasible
<1>9. Distance(z, p) <= VMax
  BY <1>1, <1>7 DEF Distance
<1>10. QED
  BY <1>4, <1>5, <1>6, <1>8, <1>9

LEMMA ControlFacts ==
  ASSUME NEW mode \in AllModes, NEW g \in Int \cup {NoTarget}, NEW p \in Int \cup {Garbled},
         NEW q \in Int
  PROVE  /\ Control(mode, g, p) \in Numbered
         /\ (g = NoTarget \/ p = Garbled) /\ (mode = "velocity" \/ p = q) =>
              Executed(Control(mode, g, p), q) = q
         /\ p = q => Distance(Executed(Control(mode, g, p), q), q) <= VMax
                      /\ Harmless(Control(mode, g, p), q)
<1>1. Distance(q, q) = 0 /\ 0 <= VMax
  BY GeometryAssumption DEF Distance
<1>2. CASE g = NoTarget \/ p = Garbled
  <2>1. Control(mode, g, p) = Floor(mode, p)
    BY <1>2 DEF Control
  <2>2. QED
    BY <1>1, <1>2, <2>1, FloorFacts DEF Harmless
<1>3. CASE ~(g = NoTarget \/ p = Garbled)
  <2>1. g \in Int /\ p \in Int /\ Control(mode, g, p) = GuardedPull(mode, g, p)
    BY <1>3 DEF Control
  <2>2. QED
    BY <1>3, <2>1, PullFacts
<1>4. QED
  BY <1>2, <1>3

-----------------------------------------------------------------------------
(* A tick. *)

LEMMA InputFacts ==
  ASSUME NEW in \in Inputs, position \in Int
  PROVE  /\ in.sensor \in Sensors /\ in.margin \in Margins
         /\ Pose(in) \in Int \cup {Garbled}
         /\ GoodInput(in) => Pose(in) \in Int
         /\ Channel(in) \in AllModes
         /\ Numeric(in) => in.proposed.setpoint \in Int /\ in.proposed.kind \in Modes
<1>1. in.sensor \in Sensors /\ in.margin \in Margins /\ in.proposed \in Proposals
  BY DEF Inputs
<1>2. in.sensor \in {"seen", "garbled", "absent"}
  BY <1>1, GeometryAssumption
<1>3. Pose(in) \in Int \cup {Garbled}
  BY <1>2 DEF Pose
<1>4. ASSUME Numeric(in)
      PROVE  in.proposed.setpoint \in Int /\ in.proposed.kind \in Modes
  <2>1. in.proposed.kind # "directive" /\ in.proposed.kind # "opaque"
    BY <1>4 DEF Numeric, AllModes
  <2>2. in.proposed \in [kind : Modes, setpoint : Setpoints]
    BY <1>1, <2>1 DEF Proposals
  <2>3. QED
    BY <2>2, GeometryAssumption
<1>5. Channel(in) \in AllModes
  BY GeometryAssumption DEF Channel, Numeric
<1>6. QED
  BY <1>1, <1>3, <1>4, <1>5 DEF GoodInput

FallbackTick(in) ==
  \E reason \in Fallbacks, kind \in Kinds :
    /\ Backup(in, reason, kind)
    /\ kind # "brake" => GoodInput(in)

CertifiedTick(in) ==
  \E reason \in Certificates, command \in Commands :
    /\ Certify(in, reason, command)
    /\ GoodInput(in) /\ ~Fired(in)
    /\ command # NoCommand =>
         /\ Numeric(in) /\ Feasible(in.proposed.kind, Pose(in))
         /\ command = Projected(in.proposed.kind, Pose(in), in.proposed.setpoint)

(* A tick answers with a fallback or a certificate, and advances the       *)
(* monitor if its input is good.                                           *)
LEMMA Answers ==
  ASSUME NEW in \in Inputs, position \in Int, Decide(in)
  PROVE  /\ FallbackTick(in) \/ CertifiedTick(in)
         /\ IF GoodInput(in) THEN Advance(in) ELSE UNCHANGED <<fed, prev_root>>
<1>1. "brake" \in Kinds /\ BoundFallback \in Kinds /\ ClauseFallback \in Kinds
  BY ClauseAssumption DEF Kinds
<1>2. CASE Overrun(in)
  BY <1>1, <1>2 DEF Overrun, FallbackTick, Fallbacks
<1>3. CASE BadInput(in)
  BY <1>1, <1>3 DEF BadInput, FallbackTick, Fallbacks
<1>4. CASE ScalarViolated(in)
  BY <1>1, <1>4 DEF ScalarViolated, Examined, FallbackTick, Fallbacks
<1>5. CASE MonitorFired(in)
  BY <1>1, <1>5 DEF MonitorFired, Examined, FallbackTick, Fallbacks
<1>6. CASE NotCertifiable(in)
  BY <1>1, <1>6 DEF NotCertifiable, Passed, Examined, FallbackTick, Fallbacks
<1>7. CASE Uncertifiable(in)
  BY <1>1, <1>7 DEF Uncertifiable, Passed, Examined, FallbackTick, Fallbacks
<1>8. CASE AdmitDirective(in)
  BY <1>8 DEF AdmitDirective, Passed, Examined, CertifiedTick, Certificates, Commands
<1>9. CASE Shielded(in)
  <2> DEFINE command == Projected(in.proposed.kind, Pose(in), in.proposed.setpoint)
  <2>1. /\ Passed(in) /\ Numeric(in) /\ Feasible(in.proposed.kind, Pose(in))
        /\ \E reason \in Certificates : Certify(in, reason, command)
    BY <1>9 DEF Shielded, Certificates
  <2>2. GoodInput(in) /\ Advance(in) /\ ~Fired(in)
    BY <2>1 DEF Passed, Examined
  <2>3. command \in Commands
    <3>1. Pose(in) \in Int /\ in.proposed.setpoint \in Int /\ in.proposed.kind \in AllModes
      BY <2>1, <2>2, InputFacts DEF Numeric
    <3>2. QED
      BY <2>1, <3>1, ProjectedFacts DEF Numbered, Commands
  <2>4. QED
    BY <2>1, <2>2, <2>3 DEF CertifiedTick
<1>10. QED
  BY <1>2, <1>3, <1>4, <1>5, <1>6, <1>7, <1>8, <1>9 DEF Decide

(* What a fallback does. *)
Targeted(kind) ==
  CASE kind = "brake"      -> NoTarget
    [] kind = "hold"       -> hold_anchor'
    [] kind = "safe_state" -> SafePose

LEMMA BackupFacts ==
  ASSUME TypeOK, NEW in \in Inputs, NEW reason \in Fallbacks, NEW kind \in Kinds,
         Backup(in, reason, kind), kind # "brake" => GoodInput(in)
  PROVE  /\ hold_active' = (kind = "hold")
         /\ hold_anchor' \in Int \cup {NoTarget}
         /\ kind = "hold" => hold_anchor' = IF hold_active THEN hold_anchor ELSE Pose(in)
         /\ hold_active' => hold_anchor' # NoTarget
         /\ Targeted(kind) \in Int \cup {NoTarget}
         /\ kind = "brake" => Targeted(kind) = NoTarget
         /\ Outcome(in, reason, kind, Control(Channel(in), Targeted(kind), Pose(in)))
         /\ Control(Channel(in), Targeted(kind), Pose(in)) \in Numbered
<1>1. position \in Int /\ hold_anchor \in Int \cup {NoTarget}
      /\ (hold_active => hold_anchor # NoTarget)
  BY DEF TypeOK
<1>2. Outcome(in, reason, kind, Control(Channel(in), Targeted(kind), Pose(in)))
  BY DEF Backup, Targeted
<1>3. /\ hold_active' = (kind = "hold")
      /\ hold_anchor' = IF kind = "hold" /\ ~hold_active THEN Pose(in) ELSE hold_anchor
  BY DEF Backup
<1>4. hold_anchor' \in Int \cup {NoTarget} /\ (hold_active' => hold_anchor' # NoTarget)
  BY <1>1, <1>3, InputFacts, GeometryAssumption DEF Kinds
<1>5. Targeted(kind) \in Int \cup {NoTarget} /\ (kind = "brake" => Targeted(kind) = NoTarget)
  BY <1>4, GeometryAssumption DEF Targeted, Kinds
<1>6. Control(Channel(in), Targeted(kind), Pose(in)) \in Numbered
  BY <1>1, <1>5, InputFacts, ControlFacts
<1>7. QED
  BY <1>2, <1>3, <1>4, <1>5, <1>6

-----------------------------------------------------------------------------
(* Type correctness. *)

LEMMA NewestFacts ==
  ASSUME NEW s \in Seq(Margins), Len(s) <= Window + 1, NEW m \in Margins
  PROVE  /\ Newest(Append(s, m)) \in Seq(Margins)
         /\ Len(Newest(Append(s, m))) <= Window + 1
         /\ Len(Newest(Append(s, m))) > 0
<1>1. Window \in Nat
  BY ClauseAssumption
<1>2. PICK t \in Seq(Margins) : t = Append(s, m) /\ Len(t) = Len(s) + 1
  <2>1. Append(s, m) \in Seq(Margins) /\ Len(Append(s, m)) = Len(s) + 1
    OBVIOUS
  <2>2. QED
    BY <2>1
<1>3. CASE Len(t) > Window + 1
  <2>1. Newest(t) = Tail(t)
    BY <1>3 DEF Newest
  <2>2. t # <<>>
    BY <1>2
  <2>3. Tail(t) \in Seq(Margins) /\ Len(Tail(t)) = Len(t) - 1
    BY <2>2
  <2>4. QED
    BY <1>1, <1>2, <1>3, <2>1, <2>3
<1>4. CASE ~(Len(t) > Window + 1)
  BY <1>1, <1>2, <1>4 DEF Newest
<1>5. QED
  BY <1>2, <1>3, <1>4

LEMMA AdvanceFacts ==
  ASSUME TypeOK, NEW in \in Inputs,
         IF GoodInput(in) THEN Advance(in) ELSE UNCHANGED <<fed, prev_root>>
  PROVE  /\ fed' \in Seq(Margins) /\ Len(fed') <= Window + 1
         /\ prev_root' \in Int \cup {NoRoot}
<1>1. CASE GoodInput(in)
  <2>1. in.margin \in Margins /\ fed \in Seq(Margins) /\ Len(fed) <= Window + 1
    BY InputFacts DEF TypeOK
  <2>2. fed' = Newest(Append(fed, in.margin)) /\ prev_root' = Robustness(fed')
    BY <1>1 DEF Advance, Advanced
  <2>3. fed' \in Seq(Margins) /\ Len(fed') <= Window + 1 /\ Len(fed') > 0
    BY <2>1, <2>2, NewestFacts
  <2>4. Margins \in SUBSET Int
    BY ClauseAssumption
  <2>5. Robustness(fed') \in Int
    BY <2>3, <2>4, LeastOfWindow DEF Robustness
  <2>6. QED
    BY <2>2, <2>3, <2>5
<1>2. CASE ~GoodInput(in)
  BY <1>2 DEF TypeOK
<1>3. QED
  BY <1>1, <1>2

LEMMA OutcomeFacts ==
  ASSUME TypeOK, NEW in \in Inputs,
         NEW reason, NEW kind, NEW command \in Commands, Outcome(in, reason, kind, command)
  PROVE  /\ position' \in Int
         /\ verdict' = [reason |-> reason, kind |-> kind, command |-> command]
         /\ seen' \in Seq(Margins) /\ Len(seen') <= Window + 1
         /\ engaged' \in Int \cup {NoTarget}
         /\ weather' \in {"open", "calm", "storm"}
<1>1. position \in Int /\ in.margin \in Margins
  BY InputFacts DEF TypeOK
<1>2. position' \in Int
  <2>1. Executed(command, position) \in Int
    BY <1>1, ExecutedFacts
  <2>2. PICK d \in -Drift..Drift : position' = Executed(command, position) + d
    BY DEF Outcome, Moves
  <2>3. QED
    BY <2>1, <2>2, GeometryAssumption
<1>3. seen' \in Seq(Margins) /\ Len(seen') <= Window + 1
  <2>1. seen \in Seq(Margins) /\ Len(seen) <= Window + 1
    BY DEF TypeOK
  <2>2. seen' = Newest(Append(seen, in.margin))
    BY DEF Outcome
  <2>3. QED
    BY <1>1, <2>1, <2>2, NewestFacts
<1>4. engaged' \in Int \cup {NoTarget}
  BY <1>1 DEF Outcome, TypeOK
<1>5. weather' \in {"open", "calm", "storm"}
  BY DEF Outcome, TypeOK
<1>6. verdict' = [reason |-> reason, kind |-> kind, command |-> command]
  BY DEF Outcome
<1>7. QED
  BY <1>2, <1>3, <1>4, <1>5, <1>6

LEMMA VerdictTypes ==
  ASSUME NEW reason, NEW kind, NEW command \in Commands,
         \/ reason \in Fallbacks /\ kind \in Kinds
         \/ reason \in Certificates /\ kind = "none"
  PROVE  LET v == [reason |-> reason, kind |-> kind, command |-> command] IN
         /\ v \in [reason : Certificates \cup Fallbacks \cup {"none"},
                   kind : Kinds \cup {"none"}, command : Commands]
         /\ v.reason \in Fallbacks <=> v.kind \in Kinds
BY DEF Fallbacks, Certificates, Kinds

LEMMA TypeTick ==
  ASSUME TypeOK, NEW in \in Inputs, Decide(in)
  PROVE  TypeOK'
<1>1. position \in Int
  BY DEF TypeOK
<1>2. /\ FallbackTick(in) \/ CertifiedTick(in)
      /\ IF GoodInput(in) THEN Advance(in) ELSE UNCHANGED <<fed, prev_root>>
  BY <1>1, Answers
<1>3. /\ fed' \in Seq(Margins) /\ Len(fed') <= Window + 1
      /\ prev_root' \in Int \cup {NoRoot}
  BY <1>2, AdvanceFacts
<1>4. CASE FallbackTick(in)
  <2>1. PICK reason \in Fallbacks, kind \in Kinds :
          Backup(in, reason, kind) /\ (kind # "brake" => GoodInput(in))
    BY <1>4 DEF FallbackTick
  <2> DEFINE command == Control(Channel(in), Targeted(kind), Pose(in))
  <2>2. /\ hold_active' \in BOOLEAN /\ hold_anchor' \in Int \cup {NoTarget}
        /\ (hold_active' => hold_anchor' # NoTarget)
        /\ Outcome(in, reason, kind, command) /\ command \in Commands
    BY <2>1, BackupFacts DEF Commands, Numbered
  <2> HIDE DEF command
  <2>3. /\ position' \in Int
        /\ verdict' = [reason |-> reason, kind |-> kind, command |-> command]
        /\ seen' \in Seq(Margins) /\ Len(seen') <= Window + 1
        /\ engaged' \in Int \cup {NoTarget}
        /\ weather' \in {"open", "calm", "storm"}
    BY <2>2, OutcomeFacts
  <2>4. QED
    BY <1>3, <2>2, <2>3, VerdictTypes DEF TypeOK
<1>5. CASE CertifiedTick(in)
  <2>1. PICK reason \in Certificates, command \in Commands : Certify(in, reason, command)
    BY <1>5 DEF CertifiedTick
  <2>2. /\ hold_active' = FALSE /\ hold_anchor' = hold_anchor
        /\ Outcome(in, reason, "none", command)
    BY <2>1 DEF Certify
  <2>3. /\ position' \in Int
        /\ verdict' = [reason |-> reason, kind |-> "none", command |-> command]
        /\ seen' \in Seq(Margins) /\ Len(seen') <= Window + 1
        /\ engaged' \in Int \cup {NoTarget}
        /\ weather' \in {"open", "calm", "storm"}
    BY <2>2, OutcomeFacts
  <2>4. hold_anchor' \in Int \cup {NoTarget}
    BY <2>2 DEF TypeOK
  <2>5. QED
    BY <1>3, <2>2, <2>3, <2>4, VerdictTypes DEF TypeOK
<1>6. QED
  BY <1>2, <1>4, <1>5

LEMMA TypeStep == TypeOK /\ [Next]_vars => TypeOK'
<1> SUFFICES ASSUME TypeOK, [Next]_vars
             PROVE  TypeOK'
  OBVIOUS
<1>1. CASE Tick
  BY <1>1, TypeTick DEF Tick
<1>2. CASE Settle
  BY <1>2 DEF Settle, TypeOK
<1>3. CASE UNCHANGED vars
  BY <1>3 DEF vars, TypeOK
<1>4. QED
  BY <1>1, <1>2, <1>3 DEF Next

LEMMA TypeInit == Init => TypeOK
<1> SUFFICES ASSUME Init
             PROVE  TypeOK
  OBVIOUS
<1>1. <<>> \in Seq(Margins) /\ Len(<<>>) <= Window + 1
  BY ClauseAssumption
<1>2. position \in Int
  BY GeometryAssumption DEF Init
<1>3. NoCommand \in Commands
  BY DEF Commands
<1>4. /\ verdict \in [reason : Certificates \cup Fallbacks \cup {"none"},
                     kind : Kinds \cup {"none"}, command : Commands]
      /\ verdict.reason \in Fallbacks <=> verdict.kind \in Kinds
  BY <1>3 DEF Init, Fallbacks, Kinds
<1>5. QED
  BY <1>1, <1>2, <1>4 DEF Init, TypeOK

(* Every verdict is a certificate without a backup or a fallback with one, *)
(* an engaged hold has an anchor, and the monitor's memory is bounded      *)
(* (SafetyVerdict and SafetyCore, arbiter.rs).                             *)
THEOREM TypeCorrect == Spec => []TypeOK
<1>1. QED
  BY TypeInit, TypeStep, PTL DEF Spec

-----------------------------------------------------------------------------
(* The recover layer and the shield never deepen an incursion. *)

(* The core is told where the agent is, or refuses to act on what it is    *)
(* told in the one channel whose floor needs no pose.                      *)
PoseIsKnown ==
  \/ Sensors = {"seen"}
  \/ /\ Modes \cup {FallbackMode} = {"velocity"}
     /\ "absent" \in Sensors => HasSignals

LEMMA KnownPose ==
  ASSUME PoseIsKnown, NEW in \in Inputs, position \in Int
  PROVE  /\ GoodInput(in) => Pose(in) = position
         /\ Pose(in) = position \/ Channel(in) = "velocity"
<1>1. in.sensor \in Sensors /\ in.sensor \in {"seen", "garbled", "absent"}
  BY InputFacts, GeometryAssumption
<1>2. in.sensor = "seen" => Pose(in) = position
  BY DEF Pose
<1>3. in.sensor = "garbled" => Pose(in) = Garbled
  BY DEF Pose
<1>4. Channel(in) \in Modes \cup {FallbackMode}
  BY InputFacts DEF Channel
<1>5. CASE Sensors = {"seen"}
  BY <1>1, <1>2, <1>5
<1>6. CASE Sensors # {"seen"}
  <2>1. Channel(in) = "velocity" /\ ("absent" \in Sensors => HasSignals)
    BY <1>4, <1>6 DEF PoseIsKnown
  <2>2. GoodInput(in) => in.sensor = "seen"
    BY <1>1, <1>3, <2>1 DEF GoodInput
  <2>3. QED
    BY <1>2, <2>1, <2>2
<1>7. QED
  BY <1>5, <1>6

(* The command of a tick leaves the agent where it is, or moves it within  *)
(* the step ball to a pose in the safe set; a brake leaves it.             *)
LEMMA TickFacts ==
  ASSUME PoseIsKnown, TypeOK, NEW in \in Inputs, Decide(in)
  PROVE  /\ Moves(verdict'.command)
         /\ Executed(verdict'.command, position) \in Int
         /\ Harmless(verdict'.command, position)
         /\ Distance(Executed(verdict'.command, position), position) <= VMax
         /\ verdict'.kind = "brake" => Executed(verdict'.command, position) = position
         /\ verdict'.kind = "none" /\ Radius > 0 =>
              (position < Center <=> Executed(verdict'.command, position) < Center)
<1>1. position \in Int
  BY DEF TypeOK
<1>2. FallbackTick(in) \/ CertifiedTick(in)
  BY <1>1, Answers
<1>3. Distance(position, position) <= VMax
  BY <1>1, GeometryAssumption DEF Distance
<1>4. CASE FallbackTick(in)
  <2>1. PICK reason \in Fallbacks, kind \in Kinds :
          Backup(in, reason, kind) /\ (kind # "brake" => GoodInput(in))
    BY <1>4 DEF FallbackTick
  <2>2. PICK target \in Int \cup {NoTarget}, command \in Numbered :
          /\ kind = "brake" => target = NoTarget
          /\ command = Control(Channel(in), target, Pose(in))
          /\ Outcome(in, reason, kind, command)
    BY <2>1, BackupFacts
  <2>3. verdict' = [reason |-> reason, kind |-> kind, command |-> command] /\ Moves(command)
    BY <2>2 DEF Outcome
  <2>4. Executed(command, position) \in Int
    BY <1>1, ExecutedFacts DEF Commands, Numbered
  <2>5. Channel(in) \in AllModes /\ Pose(in) \in Int \cup {Garbled}
    BY <1>1, InputFacts
  <2>6. kind = "brake" => Executed(command, position) = position
    <3>1. SUFFICES ASSUME kind = "brake"
                   PROVE  Executed(command, position) = position
      OBVIOUS
    <3>2. target = NoTarget /\ (Channel(in) = "velocity" \/ Pose(in) = position)
      BY <1>1, <2>2, <3>1, KnownPose
    <3>3. PICK mode \in AllModes, p \in Int \cup {Garbled} :
            mode = Channel(in) /\ p = Pose(in)
      BY <2>5
    <3>4. target = NoTarget /\ (mode = "velocity" \/ p = position)
      BY <3>2, <3>3
    <3>5. Executed(Control(mode, target, p), position) = position
      BY <1>1, <3>4, ControlFacts
    <3>6. QED
      BY <2>2, <3>3, <3>5
  <2>7. kind # "brake" => /\ Distance(Executed(command, position), position) <= VMax
                         /\ Harmless(command, position)
    BY <1>1, <2>1, <2>2, <2>5, KnownPose, ControlFacts
  <2>8. kind # "none"
    BY DEF Kinds
  <2>9. QED
    BY <1>3, <2>3, <2>4, <2>6, <2>7, <2>8 DEF Harmless
<1>5. CASE CertifiedTick(in)
  <2>1. PICK reason \in Certificates, command \in Commands :
          /\ Certify(in, reason, command)
          /\ GoodInput(in)
          /\ command # NoCommand =>
               /\ Numeric(in) /\ Feasible(in.proposed.kind, Pose(in))
               /\ command = Projected(in.proposed.kind, Pose(in), in.proposed.setpoint)
    BY <1>5 DEF CertifiedTick
  <2>2. verdict' = [reason |-> reason, kind |-> "none", command |-> command] /\ Moves(command)
    BY <2>1 DEF Certify, Outcome
  <2>3. Executed(command, position) \in Int
    BY <1>1, ExecutedFacts
  <2>4. CASE command = NoCommand
    <3>1. Executed(command, position) = position
      BY <1>1, <2>4, ExecutedFacts
    <3>2. QED
      BY <1>3, <2>2, <2>3, <3>1 DEF Harmless
  <2>5. CASE command # NoCommand
    <3>1. /\ Pose(in) = position /\ in.proposed.setpoint \in Int
          /\ in.proposed.kind \in AllModes
      BY <1>1, <2>1, <2>5, KnownPose, InputFacts DEF Numeric
    <3>2. /\ InSet(Executed(command, position))
          /\ Distance(Executed(command, position), position) <= VMax
          /\ Radius > 0 => (position < Center <=> Executed(command, position) < Center)
      <4>1. PICK mode \in AllModes, x \in Int :
              /\ mode = in.proposed.kind /\ x = in.proposed.setpoint
              /\ Feasible(mode, position) /\ command = Projected(mode, position, x)
        BY <2>1, <2>5, <3>1
      <4>2. QED
        BY <1>1, <4>1, ProjectedFacts
    <3>3. QED
      BY <2>2, <2>3, <3>2 DEF Harmless
  <2>6. QED
    BY <2>4, <2>5
<1>6. QED
  BY <1>2, <1>4, <1>5

LEMMA DepthFacts ==
  ASSUME NEW p \in Int
  PROVE  Depth(p) \in Int /\ Depth(p) >= 0 /\ (InSet(p) => Depth(p) = 0)
<1>1. PICK a \in Int, b \in Int, c \in Int :
        a = Low - p /\ b = p - High /\ c = Radius - Distance(p, Center)
  <2>1. Low - p \in Int /\ p - High \in Int /\ Radius \in Int
    BY GeometryAssumption
  <2>2. Distance(p, Center) \in Int
    BY GeometryAssumption DEF Distance
  <2>3. QED
    BY <2>1, <2>2
<1>2. \E m \in {0, a, b, c} : \A z \in {0, a, b, c} : m >= z
  OBVIOUS
<1>3. /\ Max({0, a, b, c}) \in {0, a, b, c}
      /\ \A z \in {0, a, b, c} : Max({0, a, b, c}) >= z
  BY <1>2 DEF Max
<1>4. Depth(p) = Max({0, a, b, c})
  BY <1>1 DEF Depth
<1>5. InSet(p) => a <= 0 /\ b <= 0 /\ c <= 0
  BY <1>1, GeometryAssumption DEF InSet, Distance
<1>6. QED
  BY <1>3, <1>4, <1>5

(* A harmless command and an admissible push go no deeper. *)
LEMMA PushedFacts ==
  ASSUME NEW c, NEW p \in Int, NEW q \in Int, NEW d \in -Drift..Drift,
         Executed(c, p) \in Int, Harmless(c, p), q = Executed(c, p) + d, d = 0 \/ InSet(q)
  PROVE  Depth(q) <= Depth(p) /\ (InSet(p) => InSet(q))
<1>2. PICK x \in Int : x = Executed(c, p) /\ (x = p \/ InSet(x))
  BY DEF Harmless
<1>3. q = p \/ InSet(q)
  <2>1. CASE d = 0
    <3>1. q = x
      BY <1>2, <2>1
    <3>2. QED
      BY <1>2, <3>1
  <2>2. CASE d # 0
    BY <2>2
  <2>3. QED
    BY <2>1, <2>2
<1>4. Depth(p) >= 0 /\ Depth(p) \in Int /\ (InSet(q) => Depth(q) = 0)
  BY DepthFacts
<1>5. QED
  BY <1>3, <1>4

LEMMA StepFacts ==
  ASSUME PoseIsKnown, TypeOK, [Next]_vars
  PROVE  Depth(position') <= Depth(position) /\ (InSet(position) => InSet(position'))
<1>1. position \in Int /\ position' \in Int
  BY TypeStep DEF TypeOK
<1>2. CASE position' = position
  BY <1>1, <1>2, DepthFacts
<1>3. CASE Tick
  <2>1. PICK in \in Inputs : Decide(in)
    BY <1>3 DEF Tick
  <2>2. PICK d \in -Drift..Drift :
          /\ position' = Executed(verdict'.command, position) + d
          /\ d = 0 \/ InSet(position')
    BY <2>1, TickFacts DEF Moves
  <2>3. /\ Executed(verdict'.command, position) \in Int
        /\ Harmless(verdict'.command, position)
    BY <2>1, TickFacts
  <2>4. QED
    BY <1>1, <2>2, <2>3, PushedFacts
<1>4. CASE Settle \/ UNCHANGED vars
  BY <1>2, <1>4 DEF Settle, vars
<1>5. QED
  BY <1>3, <1>4 DEF Next

(* Whatever the policy proposes and whatever fires, no tick brings the     *)
(* agent into a keep-out or deeper into one (backup.rs guarded_velocity,   *)
(* guarded_position; shield.rs solve_mode).                                *)
THEOREM NoTickGoesDeeper ==
  ASSUME PoseIsKnown
  PROVE  Spec => NeverDeeper
<1>1. TypeOK /\ [Next]_vars => [Depth(position') <= Depth(position)]_vars
  BY StepFacts
<1>2. QED
  BY <1>1, TypeCorrect, PTL DEF Spec, NeverDeeper

(* An agent that starts in the safe set stays there (arbiter.rs decide).   *)
THEOREM SafeSetIsInvariant ==
  ASSUME PoseIsKnown
  PROVE  Spec => []StaysOut
<1>1. Init => StaysOut
  BY DEF Init, StaysOut
<1>2. TypeOK /\ StaysOut /\ [Next]_vars => StaysOut'
  BY StepFacts DEF StaysOut
<1>3. QED
  BY <1>1, <1>2, TypeCorrect, PTL DEF Spec

(* The safe floor does not move the agent (backup.rs stop_velocity and     *)
(* hold_position).                                                         *)
THEOREM FloorStops ==
  ASSUME PoseIsKnown
  PROVE  Spec => BrakeStops
<1>1. TypeOK /\ [Next]_vars =>
        [weather' = weather /\ verdict'.kind = "brake" =>
           Executed(verdict'.command, position) = position]_vars
  BY TickFacts DEF Next, Tick, Settle
<1>2. QED
  BY <1>1, TypeCorrect, PTL DEF Spec, BrakeStops

(* No layer commands a step beyond v_max (backup.rs and shield.rs).        *)
THEOREM StepsAreCapped ==
  ASSUME PoseIsKnown
  PROVE  Spec => SpeedCapped
<1>1. TypeOK /\ [Next]_vars =>
        [weather' = weather =>
           Distance(Executed(verdict'.command, position), position) <= VMax]_vars
  BY TickFacts DEF Next, Tick, Settle
<1>2. QED
  BY <1>1, TypeCorrect, PTL DEF Spec, SpeedCapped

(* No certified command steers an agent through the sphere keep-out, and   *)
(* no backup does if a step is shorter than the sphere is wide (shield.rs  *)
(* eval_barrier, backup.rs guarded_velocity, guarded_position).            *)
THEOREM NoWayThrough ==
  ASSUME PoseIsKnown
  PROVE  Spec => NeverThrough
<1> DEFINE Stays == weather' = weather /\ InSet(position) /\ Radius > 0
                      /\ (verdict'.kind = "none" \/ 2 * Radius > VMax) =>
                    (position < Center <=> Executed(verdict'.command, position) < Center)
<1>1. ASSUME TypeOK, Tick, InSet(position), 2 * Radius > VMax
      PROVE  position < Center <=> Executed(verdict'.command, position) < Center
  <2>1. PICK e \in Int : /\ e = Executed(verdict'.command, position)
                         /\ e = position \/ InSet(e)
                         /\ Distance(e, position) <= VMax
    BY <1>1, TickFacts DEF Tick, Harmless
  <2>2. position \in Int /\ Center \in Int /\ Radius \in Nat /\ VMax \in Nat
    BY <1>1, GeometryAssumption DEF TypeOK
  <2>3. QED
    BY <1>1, <2>1, <2>2 DEF InSet, Distance
<1>2. TypeOK /\ [Next]_vars => [Stays]_vars
  BY <1>1, TickFacts DEF Next, Tick, Settle
<1>3. QED
  BY <1>2, TypeCorrect, PTL DEF Spec, NeverThrough

-----------------------------------------------------------------------------
(* Holds. *)

(* AnchorIsEngagement is not inductive: that a hold of the core is one of  *)
(* the verdicts must be known for the next hold to latch anew.             *)
HoldInv ==
  /\ hold_active <=> verdict.kind = "hold"
  /\ hold_active => hold_anchor = engaged

LEMMA HoldTick ==
  ASSUME PoseIsKnown, TypeOK, HoldInv, NEW in \in Inputs, Decide(in)
  PROVE  /\ HoldInv'
         /\ verdict'.kind = "hold" =>
              /\ engaged' \in Int
              /\ \E mode \in AllModes : verdict'.command = GuardedPull(mode, engaged', position)
<1>1. position \in Int
  BY DEF TypeOK
<1>2. FallbackTick(in) \/ CertifiedTick(in)
  BY <1>1, Answers
<1>3. CASE FallbackTick(in)
  <2>1. PICK reason \in Fallbacks, kind \in Kinds :
          Backup(in, reason, kind) /\ (kind # "brake" => GoodInput(in))
    BY <1>3 DEF FallbackTick
  <2>2. /\ hold_active' = (kind = "hold")
        /\ hold_anchor' \in Int \cup {NoTarget}
        /\ kind = "hold" => hold_anchor' = IF hold_active THEN hold_anchor ELSE Pose(in)
        /\ hold_active' => hold_anchor' # NoTarget
        /\ Outcome(in, reason, kind, Control(Channel(in), Targeted(kind), Pose(in)))
    BY <2>1, BackupFacts
  <2>3. /\ verdict' = [reason |-> reason, kind |-> kind,
                       command |-> Control(Channel(in), Targeted(kind), Pose(in))]
        /\ engaged' = IF kind # "hold" THEN NoTarget
                      ELSE IF verdict.kind = "hold" THEN engaged ELSE position
    BY <2>2 DEF Outcome
  <2>4. CASE kind = "hold"
    <3>1. GoodInput(in) /\ Pose(in) = position
      BY <1>1, <2>1, <2>4, KnownPose
    <3>2. hold_anchor' = engaged' /\ engaged' \in Int
      BY <2>2, <2>3, <2>4, <3>1 DEF HoldInv
    <3>3. Targeted(kind) = engaged'
      BY <2>4, <3>2 DEF Targeted
    <3>4. Control(Channel(in), Targeted(kind), Pose(in)) =
            GuardedPull(Channel(in), engaged', position)
      BY <1>1, <3>1, <3>2, <3>3, GeometryAssumption DEF Control
    <3>5. Channel(in) \in AllModes
      BY <1>1, InputFacts
    <3>6. QED
      BY <2>2, <2>3, <2>4, <3>2, <3>4, <3>5 DEF HoldInv
  <2>5. CASE kind # "hold"
    BY <2>2, <2>3, <2>5 DEF HoldInv
  <2>6. QED
    BY <2>4, <2>5
<1>4. CASE CertifiedTick(in)
  BY <1>4 DEF CertifiedTick, Certify, Outcome, HoldInv
<1>5. QED
  BY <1>2, <1>3, <1>4

LEMMA HoldStep ==
  ASSUME PoseIsKnown, TypeOK, HoldInv, [Next]_vars
  PROVE  HoldInv'
<1>1. CASE Tick
  BY <1>1, HoldTick DEF Tick
<1>2. CASE Settle
  BY <1>2 DEF Settle, HoldInv
<1>3. CASE UNCHANGED vars
  BY <1>3 DEF vars, HoldInv
<1>4. QED
  BY <1>1, <1>2, <1>3 DEF Next

LEMMA HoldInvariance ==
  ASSUME PoseIsKnown
  PROVE  Spec => []HoldInv
<1>1. Init => HoldInv
  BY DEF Init, HoldInv
<1>2. TypeOK /\ HoldInv /\ [Next]_vars => HoldInv'
  BY HoldStep
<1>3. QED
  BY <1>1, <1>2, TypeCorrect, PTL DEF Spec

(* The pose a hold returns to is the one at which this hold engaged,       *)
(* whatever certificates, brakes and overruns came between two holds       *)
(* (arbiter.rs emit_backup, emit_watchdog).                                *)
THEOREM AnchorsAreFresh ==
  ASSUME PoseIsKnown
  PROVE  Spec => []AnchorIsEngagement
<1>1. HoldInv => AnchorIsEngagement
  BY DEF HoldInv, AnchorIsEngagement
<1>2. QED
  BY <1>1, HoldInvariance, PTL

(* A proportional pull points to its target, and is no shorter than the    *)
(* way there if there is a gain.                                           *)
LEMMA GainFacts ==
  ASSUME NEW n \in Nat, NEW x \in Int
  PROVE  /\ n * x \in Int
         /\ x >= 0 => 0 <= n * x /\ (n > 0 => x <= n * x) /\ (n <= 2 => n * x <= 2 * x)
         /\ x <= 0 => n * x <= 0 /\ (n > 0 => n * x <= x) /\ (n <= 2 => 2 * x <= n * x)
<1>1. n * x \in Int
  OBVIOUS
<1>2. n <= 2 => n = 0 \/ n = 1 \/ n = 2
  OBVIOUS
<1>3. n <= 2 => n * x = 0 \/ n * x = x \/ n * x = 2 * x
  BY <1>2
<1>4. x >= 0 => 0 <= n * x /\ (n > 0 => x <= n * x)
  OBVIOUS
<1>5. x <= 0 => n * x <= 0 /\ (n > 0 => n * x <= x)
  OBVIOUS
<1>6. QED
  BY <1>1, <1>3, <1>4, <1>5

(* What a pull makes of a pose: the pose one pull on, if that is safe, and *)
(* the pose itself if not. *)
LEMMA PullMoves ==
  ASSUME NEW mode \in AllModes, NEW g \in Int, NEW p \in Int
  PROVE  \E u \in Int :
           /\ u = IF mode = "velocity" THEN Capped(Gain * (g - p)) ELSE Capped(g - p)
           /\ Executed(GuardedPull(mode, g, p), p) = IF InSet(p + u) THEN p + u ELSE p
<1>1. Gain * (g - p) \in Int /\ g - p \in Int
  BY GeometryAssumption, GainFacts
<1>2. PICK w \in Int, v \in Int : w = Capped(Gain * (g - p)) /\ v = Capped(g - p)
  BY <1>1, CappedFacts
<1>3. PICK u \in Int : u = IF mode = "velocity" THEN w ELSE v
  OBVIOUS
<1>4. /\ Executed(Velocity(u), p) = p + u
      /\ Executed(Position(p + u), p) = p + u
      /\ Executed(Floor(mode, p), p) = p
  <2>1. Velocity(u) \in Numbered /\ Position(p + u) \in Numbered
    BY DEF Velocity, Position, Numbered, AllModes
  <2>2. QED
    BY <2>1, ExecutedFacts, FloorFacts DEF Velocity, Position, Numbered, Commands
<1>5. CASE mode = "velocity"
  <2>1. GuardedPull(mode, g, p) = IF InSet(p + u) THEN Velocity(u) ELSE Floor(mode, p)
    BY <1>2, <1>3, <1>5 DEF GuardedPull
  <2>2. QED
    BY <1>2, <1>3, <1>4, <1>5, <2>1
<1>6. CASE mode = "position"
  <2>1. GuardedPull(mode, g, p) = IF InSet(p + u) THEN Position(p + u) ELSE Floor(mode, p)
    BY <1>2, <1>3, <1>6 DEF GuardedPull
  <2>2. QED
    BY <1>2, <1>3, <1>4, <1>6, <2>1
<1>7. QED
  BY <1>5, <1>6 DEF AllModes

(* How far a pull may pass its target. *)
LEMMA PullReturns ==
  ASSUME NEW mode \in AllModes, NEW g \in Int, NEW p \in Int
  PROVE  LET next == Distance(Executed(GuardedPull(mode, g, p), p), g) IN
         next <= Distance(p, g) \/ (Gain > 2 /\ next <= VMax)
<1>1. PICK u \in Int :
        /\ u = IF mode = "velocity" THEN Capped(Gain * (g - p)) ELSE Capped(g - p)
        /\ Executed(GuardedPull(mode, g, p), p) = IF InSet(p + u) THEN p + u ELSE p
  BY PullMoves
<1>2. g - p \in Int /\ Gain \in Nat /\ VMax \in Nat
  BY GeometryAssumption
<1>3. PICK a \in Int : /\ a = IF mode = "velocity" THEN Gain * (g - p) ELSE g - p
                       /\ g - p >= 0 => 0 <= a /\ (Gain <= 2 => a <= 2 * (g - p))
                       /\ g - p <= 0 => a <= 0 /\ (Gain <= 2 => 2 * (g - p) <= a)
  <2>1. PICK d \in Int : d = g - p
    BY <1>2
  <2>2. PICK b \in Int : /\ b = Gain * d
                         /\ d >= 0 => 0 <= b /\ (Gain <= 2 => b <= 2 * d)
                         /\ d <= 0 => b <= 0 /\ (Gain <= 2 => 2 * d <= b)
    BY <1>2, GainFacts
  <2>3. CASE mode = "velocity"
    BY <2>1, <2>2, <2>3
  <2>4. CASE mode # "velocity"
    BY <2>1, <2>4
  <2>5. QED
    BY <2>3, <2>4
<1>4. u = Capped(a)
  BY <1>1, <1>3
<1>5. /\ -VMax <= u /\ u <= VMax
      /\ a >= 0 => 0 <= u /\ u <= a
      /\ a <= 0 => a <= u /\ u <= 0
  BY <1>4, CappedFacts
<1>6. Distance(p + u, g) <= Distance(p, g) \/ (Gain > 2 /\ Distance(p + u, g) <= VMax)
  <2>1. CASE Gain <= 2
    BY <1>2, <1>3, <1>5, <2>1 DEF Distance
  <2>2. CASE Gain > 2
    BY <1>2, <1>3, <1>5, <2>2 DEF Distance
  <2>3. QED
    BY <1>2, <2>1, <2>2
<1>7. Distance(p, g) <= Distance(p, g)
  BY DEF Distance
<1>8. QED
  BY <1>1, <1>6, <1>7

(* A hold commands the agent towards its anchor, whatever the gain: it may *)
(* pass the anchor, if k_p * dt > 2, but not by more than a step           *)
(* (backup.rs guarded_velocity, guarded_position).                         *)
THEOREM HoldsReturn ==
  ASSUME PoseIsKnown
  PROVE  Spec => HoldReturns
<1> DEFINE Returns == weather' = weather /\ verdict'.kind = "hold" =>
             LET next == Distance(Executed(verdict'.command, position), engaged') IN
             next <= Distance(position, engaged') \/ (Gain > 2 /\ next <= VMax)
<1>1. TypeOK /\ HoldInv /\ [Next]_vars => [Returns]_vars
  <2>1. TypeOK => position \in Int
    BY DEF TypeOK
  <2>2. QED
    BY <2>1, HoldTick, PullReturns DEF Next, Tick, Settle
<1>2. QED
  BY <1>1, TypeCorrect, HoldInvariance, PTL DEF Spec, HoldReturns

-----------------------------------------------------------------------------
(* The clause. *)

(* Every tick brings a pose, the declared signals and a finite setpoint. *)
InputIsGood == Malformed = FALSE /\ Sensors = {"seen"}

NothingMissed ==
  /\ fed = seen
  /\ NoClauseForgotten

LEMMA ClauseTick ==
  ASSUME InputIsGood, TypeOK, NothingMissed, NEW in \in Inputs, Decide(in)
  PROVE  NothingMissed'
<1>1. position \in Int /\ fed \in Seq(Margins) /\ Len(fed) <= Window + 1
  BY DEF TypeOK
<1>2. in.sensor = "seen" /\ in.intact /\ in.margin \in Margins
  BY DEF Inputs, InputIsGood
<1>3. GoodInput(in)
  BY <1>1, <1>2, GeometryAssumption DEF GoodInput, Pose
<1>4. Advance(in) /\ (FallbackTick(in) \/ CertifiedTick(in))
  BY <1>1, <1>3, Answers
<1>5. fed' = Advanced(in) /\ seen' = Advanced(in)
  BY <1>4 DEF FallbackTick, CertifiedTick, Backup, Certify, Outcome, Advance, Advanced,
              NothingMissed
<1>6. CASE FallbackTick(in)
  <2>1. verdict'.reason \in Fallbacks
    BY <1>6 DEF FallbackTick, Backup, Outcome
  <2>2. QED
    BY <1>5, <2>1 DEF NothingMissed, NoClauseForgotten, Fallbacks, Certificates
<1>7. CASE CertifiedTick(in)
  <2>1. ~(Robustness(Advanced(in)) < 0)
    BY <1>7 DEF CertifiedTick, Fired
  <2>2. Robustness(Advanced(in)) \in Int
    <3>1. Advanced(in) \in Seq(Margins) /\ Len(Advanced(in)) > 0
      BY <1>1, <1>2, NewestFacts DEF Advanced
    <3>2. Margins \in SUBSET Int
      BY ClauseAssumption
    <3>3. QED
      BY <3>1, <3>2, LeastOfWindow DEF Robustness
  <2>3. QED
    BY <1>5, <2>1, <2>2 DEF NothingMissed, NoClauseForgotten
<1>8. QED
  BY <1>4, <1>6, <1>7

(* No command is certified while the clause is violated over the ticks     *)
(* that passed, whatever the bounds, the gate and the watchdog did in      *)
(* between, if no input was malformed (arbiter.rs decide).                 *)
THEOREM HistoryHasNoGap ==
  ASSUME InputIsGood
  PROVE  Spec => []NoClauseForgotten
<1>1. Init => NothingMissed
  BY DEF Init, NothingMissed, NoClauseForgotten, Certificates
<1>2. TypeOK /\ NothingMissed /\ [Next]_vars => NothingMissed'
  <2> SUFFICES ASSUME TypeOK, NothingMissed, [Next]_vars
               PROVE  NothingMissed'
    OBVIOUS
  <2>1. CASE Tick
    BY <2>1, ClauseTick DEF Tick
  <2>2. CASE Settle \/ UNCHANGED vars
    BY <2>2 DEF Settle, vars, NothingMissed, NoClauseForgotten
  <2>3. QED
    BY <2>1, <2>2 DEF Next
<1>3. NothingMissed => NoClauseForgotten
  BY DEF NothingMissed
<1>4. QED
  BY <1>1, <1>2, <1>3, TypeCorrect, PTL DEF Spec
-----------------------------------------------------------------------------
(* Progress: what a tick gains once the environment has settled. *)

LEMMA SettledTick ==
  ASSUME TypeOK, NEW in \in Inputs, Benign(in), Decide(in)
  PROVE  /\ Pose(in) = position /\ GoodInput(in) /\ ~in.late
         /\ fed' = Advanced(in) /\ prev_root' = Robustness(Advanced(in))
<1>1. position \in Int /\ in.sensor = "seen" /\ in.intact /\ ~in.late
  BY DEF TypeOK, Benign
<1>2. Pose(in) = position /\ GoodInput(in)
  BY <1>1, GeometryAssumption DEF GoodInput, Pose
<1>3. Advance(in)
  BY <1>1, <1>2, Answers
<1>4. QED
  BY <1>1, <1>2, <1>3 DEF Advance

(* Retreat. *)

(* While the bound stays broken every tick brings the agent exactly v_max  *)
(* nearer to its safe pose, or leaves it where it is if that step is not   *)
(* safe, until it is within a step of the safe pose, where it remains.     *)
RetreatCloses ==
  [][weather = "storm" =>
       /\ ~Near /\ ~Blocked =>
            Distance(position', SafePose) = Distance(position, SafePose) - VMax
       /\ ~Near /\ Blocked => position' = position
       /\ Near => Near']_vars

(* Beyond a step of the target the pull is a full step, in either channel. *)
LEMMA PullFromAfar ==
  ASSUME Gain > 0, NEW mode \in AllModes, NEW g \in Int, NEW p \in Int, NEW q \in Int,
         q = Executed(GuardedPull(mode, g, p), p)
  PROVE  /\ Distance(p, g) > VMax /\ InSet(p + Capped(g - p)) =>
              Distance(q, g) = Distance(p, g) - VMax
         /\ Distance(p, g) > VMax /\ ~InSet(p + Capped(g - p)) => q = p
         /\ Distance(p, g) <= VMax => Distance(q, g) <= VMax
<1>1. PICK u \in Int :
        /\ u = IF mode = "velocity" THEN Capped(Gain * (g - p)) ELSE Capped(g - p)
        /\ q = IF InSet(p + u) THEN p + u ELSE p
  BY PullMoves
<1>2. g - p \in Int /\ Gain \in Nat /\ VMax \in Nat
  BY GeometryAssumption
<1>3. PICK a \in Int : /\ a = IF mode = "velocity" THEN Gain * (g - p) ELSE g - p
                       /\ g - p >= 0 => g - p <= a
                       /\ g - p <= 0 => a <= g - p
  <2>1. PICK d \in Int : d = g - p
    BY <1>2
  <2>2. PICK b \in Int : b = Gain * d /\ (d >= 0 => d <= b) /\ (d <= 0 => b <= d)
    BY <1>2, GainFacts
  <2>3. CASE mode = "velocity"
    BY <2>1, <2>2, <2>3
  <2>4. CASE mode # "velocity"
    BY <2>1, <2>4
  <2>5. QED
    BY <2>3, <2>4
<1>4. u = Capped(a)
  BY <1>1, <1>3
<1>5. Distance(p, g) > VMax => u = Capped(g - p) /\ Distance(p + u, g) = Distance(p, g) - VMax
  BY <1>2, <1>3, <1>4 DEF Distance, Capped, Clamp
<1>6. Distance(p, g) <= VMax => Distance(p + u, g) <= VMax
  BY <1>2, <1>3, <1>4 DEF Distance, Capped, Clamp
<1>7. QED
  BY <1>1, <1>5, <1>6

LEMMA StormTick ==
  ASSUME BoundFallback = "safe_state", SafePose # NoTarget, TypeOK,
         NEW in \in Inputs, Benign(in), weather = "storm", Decide(in)
  PROVE  \E mode \in AllModes :
           position' = Executed(GuardedPull(mode, SafePose, position), position)
<1>1. /\ position \in Int /\ SafePose \in Int /\ position # Garbled
  BY GeometryAssumption DEF TypeOK
<1>2. Pose(in) = position /\ GoodInput(in) /\ ~in.late /\ ~in.within
  BY SettledTick DEF Benign
<1>3. ScalarViolated(in)
  BY <1>2 DEF Decide, Overrun, BadInput, MonitorFired, AdmitDirective, NotCertifiable,
              Uncertifiable, Shielded, Passed
<1>4. Outcome(in, "scalar_violated", "safe_state", Control(Channel(in), SafePose, position))
  BY <1>2, <1>3 DEF ScalarViolated, Backup
<1>5. position' = Executed(Control(Channel(in), SafePose, position), position) + 0
  BY <1>4 DEF Outcome, Moves
<1>6. PICK mode \in AllModes : mode = Channel(in)
  BY <1>1, InputFacts
<1>7. Control(mode, SafePose, position) = GuardedPull(mode, SafePose, position)
  BY <1>1 DEF Control
<1>8. Executed(GuardedPull(mode, SafePose, position), position) \in Int
  <2>1. GuardedPull(mode, SafePose, position) \in Commands
    BY <1>1, PullFacts DEF Numbered, Commands
  <2>2. QED
    BY <1>1, <2>1, ExecutedFacts
<1>9. QED
  BY <1>5, <1>6, <1>7, <1>8

(* A retreat stops short of the safe pose only where the guard on the      *)
(* predicted pose rejects the step, and is then at rest: everywhere else   *)
(* each tick gains v_max, for every gain, safe pose and set of keep-outs   *)
(* (backup.rs guarded_velocity, guarded_position).                         *)
THEOREM RetreatsInAStraightLine ==
  ASSUME BoundFallback = "safe_state", SafePose # NoTarget, Gain > 0
  PROVE  Spec => RetreatCloses
<1> DEFINE Closes ==
      weather = "storm" =>
        /\ ~Near /\ ~Blocked =>
             Distance(position', SafePose) = Distance(position, SafePose) - VMax
        /\ ~Near /\ Blocked => position' = position
        /\ Near => Near'
<1>1. ASSUME TypeOK, TypeOK', Tick, weather = "storm"
      PROVE  Closes
  <2>1. PICK in \in Inputs : Benign(in) /\ Decide(in)
    BY <1>1 DEF Tick
  <2>2. PICK mode \in AllModes :
          position' = Executed(GuardedPull(mode, SafePose, position), position)
    BY <1>1, <2>1, StormTick
  <2>3. position \in Int /\ position' \in Int /\ SafePose \in Int /\ VMax \in Nat
    BY <1>1, GeometryAssumption DEF TypeOK
  <2>4. /\ Distance(position, SafePose) > VMax /\ ~Blocked =>
             Distance(position', SafePose) = Distance(position, SafePose) - VMax
        /\ Distance(position, SafePose) > VMax /\ Blocked => position' = position
        /\ Distance(position, SafePose) <= VMax => Distance(position', SafePose) <= VMax
    BY <2>2, <2>3, PullFromAfar DEF Blocked
  <2>5. ~Near => Distance(position, SafePose) > VMax
    BY <2>3 DEF Near, Distance
  <2>6. QED
    BY <2>4, <2>5 DEF Near
<1>2. TypeOK /\ [Next]_vars => [Closes]_vars
  BY <1>1, TypeStep DEF Next, Settle
<1>3. QED
  BY <1>2, TypeCorrect, PTL DEF Spec, RetreatCloses

(* Recovery. The best margin there is, which calm weather brings,          *)
(* satisfies the clause.                                                   *)
Best == Max(Margins)
BestHolds == Best \in Margins /\ Best >= 0

(* The newest k values are the best. *)
Clear(s, k) == \A i \in 1..Len(s) : i > Len(s) - k => s[i] = Best

(* Once it is calm every tick clears one more value of the window.         *)
WindowClears ==
  [][weather = "calm" => \A k \in Nat : Clear(fed, k) => Clear(fed', k + 1)]_vars

(* Over a cleared window the shield answers, and no backup.                *)
CalmIsCertified ==
  [][weather = "calm" /\ Clear(fed, Window + 1) => verdict'.reason \in Certificates]_vars

(* The remembered root is the clause's value over what was fed.            *)
RootIsRobustness == prev_root = IF fed = <<>> THEN NoRoot ELSE Robustness(fed)

LEMMA ClearedByOne ==
  ASSUME NEW s \in Seq(Margins), NEW m \in Margins, m = Best, NEW k \in Nat, Clear(s, k)
  PROVE  Clear(Newest(Append(s, m)), k + 1)
<1> DEFINE t == Append(s, m)
<1>1. /\ t \in Seq(Margins) /\ Len(t) = Len(s) + 1 /\ t[Len(t)] = m
      /\ \A i \in 1..Len(s) : t[i] = s[i]
  OBVIOUS
<1> HIDE DEF t
<1>2. Clear(t, k + 1)
  BY <1>1 DEF Clear
<1>3. CASE Len(t) > Window + 1
  <2>1. Newest(t) = Tail(t)
    BY <1>3 DEF Newest
  <2>2. t # <<>>
    BY <1>1
  <2>3. Len(Tail(t)) = Len(t) - 1 /\ \A i \in 1..Len(Tail(t)) : Tail(t)[i] = t[i + 1]
    BY <1>1, <2>2
  <2>4. QED
    BY <1>1, <1>2, <2>1, <2>3 DEF Clear, t
<1>4. CASE ~(Len(t) > Window + 1)
  BY <1>2, <1>4 DEF Newest, t
<1>5. QED
  BY <1>3, <1>4

(* Calm clears the window a value a tick: a violation is remembered for    *)
(* Window ticks and no longer (monitors.rs RingBuf, arbiter.rs decide).    *)
THEOREM CalmClearsTheWindow == Spec => WindowClears
<1> DEFINE Clears == weather = "calm" => \A k \in Nat : Clear(fed, k) => Clear(fed', k + 1)
<1>1. ASSUME TypeOK, Tick, weather = "calm"
      PROVE  Clears
  <2>1. PICK in \in Inputs : Benign(in) /\ Decide(in)
    BY <1>1 DEF Tick
  <2>2. fed' = Newest(Append(fed, in.margin)) /\ in.margin = Best /\ in.margin \in Margins
    BY <1>1, <2>1, SettledTick, InputFacts DEF Advanced, Benign, Best, TypeOK
  <2>3. fed \in Seq(Margins)
    BY <1>1 DEF TypeOK
  <2>4. ASSUME NEW k \in Nat, Clear(fed, k)
        PROVE  Clear(fed', k + 1)
    BY <2>2, <2>3, <2>4, ClearedByOne
  <2>5. QED
    BY <2>4
<1>2. TypeOK /\ [Next]_vars => [Clears]_vars
  BY <1>1 DEF Next, Settle
<1>3. QED
  BY <1>2, TypeCorrect, PTL DEF Spec, WindowClears

LEMMA RootStep ==
  ASSUME TypeOK, RootIsRobustness, [Next]_vars
  PROVE  RootIsRobustness'
<1>1. CASE Tick
  <2>1. PICK in \in Inputs : Decide(in)
    BY <1>1 DEF Tick
  <2>2. IF GoodInput(in) THEN Advance(in) ELSE UNCHANGED <<fed, prev_root>>
    BY <2>1, Answers DEF TypeOK
  <2>3. CASE GoodInput(in)
    <3>1. fed' = Newest(Append(fed, in.margin)) /\ prev_root' = Robustness(fed')
      BY <2>2, <2>3 DEF Advance, Advanced
    <3>2. Len(fed') > 0 /\ Len(<<>>) = 0
      BY <2>1, <3>1, NewestFacts, InputFacts DEF TypeOK
    <3>3. QED
      BY <3>1, <3>2 DEF RootIsRobustness
  <2>4. CASE ~GoodInput(in)
    BY <2>2, <2>4 DEF RootIsRobustness
  <2>5. QED
    BY <2>3, <2>4
<1>2. CASE Settle \/ UNCHANGED vars
  BY <1>2 DEF Settle, vars, RootIsRobustness
<1>3. QED
  BY <1>1, <1>2 DEF Next

(* In the safe set the channels always have a command to offer, unless the *)
(* agent is at the centre of a sphere without extent.                      *)
LEMMA InsideIsFeasible ==
  ASSUME NEW mode \in AllModes, NEW p \in Int, InSet(p), Radius > 0
  PROVE  Feasible(mode, p)
<1>1. /\ RowLow(p) \in Int /\ RowHigh(p) \in Int /\ VMax \in Nat
      /\ RowLow(p) <= p /\ p <= RowHigh(p)
  BY RowFacts, GeometryAssumption
<1>2. p # Center
  BY GeometryAssumption DEF InSet, Distance
<1>3. PICK lo \in Int, hi \in Int, l \in Int, h \in Int :
        /\ lo = Lowest(mode, p) /\ hi = Highest(mode, p)
        /\ l = RowLow(p) /\ h = RowHigh(p)
  BY <1>1, BoundFacts
<1>4. /\ mode = "velocity" => lo \in {-VMax, l - p} /\ hi \in {VMax, h - p}
      /\ mode # "velocity" => lo \in {p - VMax, l} /\ hi \in {p + VMax, h}
  BY <1>3, BoundFacts
<1>5. lo <= hi
  <2>1. CASE mode = "velocity"
    BY <1>1, <1>3, <1>4, <2>1
  <2>2. CASE mode # "velocity"
    BY <1>1, <1>3, <1>4, <2>2
  <2>3. QED
    BY <2>1, <2>2
<1>6. QED
  BY <1>2, <1>3, <1>5 DEF Feasible

LEMMA ClearedTick ==
  ASSUME BestHolds, TypeOK, RootIsRobustness, InSet(position), Radius > 0, Clear(fed, Window + 1),
         NEW in \in Inputs, Benign(in), weather = "calm", Decide(in)
  PROVE  verdict'.reason \in Certificates
<1>1. /\ position \in Int /\ fed \in Seq(Margins) /\ Len(fed) <= Window + 1
      /\ Window \in Nat /\ Margins \in SUBSET Int /\ Best \in Int
  BY ClauseAssumption DEF TypeOK, BestHolds
<1>2. /\ Pose(in) = position /\ GoodInput(in) /\ ~in.late
      /\ in.within /\ in.margin = Best /\ Numeric(in)
  BY SettledTick DEF Benign, Best
<1>3. ASSUME NEW s \in Seq(Margins), Len(s) > 0, Len(s) <= Window + 1, Clear(s, Window + 1)
      PROVE  Robustness(s) = Best
  <2>1. ToSet(s) = {s[i] : i \in 1..Len(s)}
    BY DEF ToSet
  <2>2. \A i \in 1..Len(s) : s[i] = Best
    BY <1>1, <1>3 DEF Clear
  <2>3. \A y \in ToSet(s) : y = Best
    BY <2>1, <2>2
  <2>4. Min(ToSet(s)) \in ToSet(s)
    BY <1>1, <1>3, LeastOfWindow
  <2>5. QED
    BY <2>3, <2>4 DEF Robustness
<1>4. Robustness(Advanced(in)) = Best
  <2>1. /\ Advanced(in) \in Seq(Margins) /\ Len(Advanced(in)) <= Window + 1
        /\ Len(Advanced(in)) > 0
    BY <1>1, <1>2, NewestFacts DEF Advanced, BestHolds
  <2>2. Clear(Advanced(in), (Window + 1) + 1)
    BY <1>1, <1>2, ClearedByOne DEF Advanced, BestHolds
  <2>3. Clear(Advanced(in), Window + 1)
    BY <1>1, <2>1, <2>2 DEF Clear
  <2>4. QED
    BY <2>1, <2>3, <1>3
<1>5. prev_root = NoRoot \/ prev_root = Best
  <2>1. fed = <<>> \/ Len(fed) > 0
    BY <1>1
  <2>2. QED
    BY <1>1, <2>1, <1>3 DEF RootIsRobustness
<1>6. ~Fired(in)
  BY <1>1, <1>4, <1>5 DEF Fired, Falling, BestHolds
<1>7. Feasible(in.proposed.kind, Pose(in))
  <2>1. PICK mode \in AllModes : mode = in.proposed.kind
    BY <1>2 DEF Numeric
  <2>2. QED
    BY <1>1, <1>2, <2>1, InsideIsFeasible
<1>8. AdmitDirective(in) \/ Shielded(in)
  BY <1>2, <1>6, <1>7 DEF Decide, Overrun, BadInput, ScalarViolated, MonitorFired,
                          NotCertifiable, Uncertifiable
<1>9. QED
  BY <1>8 DEF AdmitDirective, Shielded, Certify, Outcome, Certificates

(* The backup feeds on nothing it does itself: in calm, once the window    *)
(* has cleared, the very next command is the policy's, shielded, whatever  *)
(* holds and retreats went before (arbiter.rs decide, emit_backup).        *)
THEOREM CalmLetsGo ==
  ASSUME PoseIsKnown, BestHolds, Radius > 0, \A x \in Start : InSet(x)
  PROVE  Spec => CalmIsCertified
<1> DEFINE Certified == weather = "calm" /\ Clear(fed, Window + 1) =>
                          verdict'.reason \in Certificates
<1>1. Init => RootIsRobustness
  BY DEF Init, RootIsRobustness
<1>2. TypeOK /\ RootIsRobustness /\ [Next]_vars => RootIsRobustness'
  BY RootStep
<1>3. ASSUME TypeOK, StaysOut, RootIsRobustness, Tick, weather = "calm", Clear(fed, Window + 1)
      PROVE  Certified
  <2>1. PICK in \in Inputs : Benign(in) /\ Decide(in)
    BY <1>3 DEF Tick
  <2>2. InSet(position)
    BY <1>3 DEF StaysOut
  <2>3. QED
    BY <1>3, <2>1, <2>2, ClearedTick
<1>4. TypeOK /\ StaysOut /\ RootIsRobustness /\ [Next]_vars => [Certified]_vars
  BY <1>3 DEF Next, Settle
<1>5. QED
  BY <1>1, <1>2, <1>4, TypeCorrect, SafeSetIsInvariant, PTL DEF Spec, CalmIsCertified
=============================================================================
