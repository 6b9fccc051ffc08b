----------------------------- MODULE Executive -----------------------------
(***************************************************************************)
(* Mind's executive: StackPolicy.decide and decide_tick of                 *)
(* src/astro_mine/mind/exec over the DecentralizedStrategy, which runs the *)
(* tiers of a stack top down, keeps a cached decision for each, holds the  *)
(* mission's plan through a comms blackout and settles conflicting claims  *)
(* while the swarm is dark.                                                *)
(*                                                                         *)
(* A tick is sequential: StartTick, one RunTier per tier, Emit.  The       *)
(* environment chooses who is in contact, which policies raise, what the   *)
(* mission decides and when an episode ends.  Time is one unit per tick    *)
(* and is kept as ages, which stop counting at Cap: no horizon and no      *)
(* period is that long.                                                    *)
(*                                                                         *)
(* Of a batch of actions only the claims matter: which agent is to work    *)
(* which task.  The tiers below the mission act for the agents their       *)
(* upstream batch names, so their batch carries the claims on.             *)
(***************************************************************************)
EXTENDS Integers, Sequences, FiniteSets

CONSTANTS
  Agents,    \* agent ids, ordered
  Tasks,     \* the sites a task may prospect
  Plans,     \* the claims a mission policy may decide on
  Stack,     \* the tiers, mission first: role, horizon, triggers, every, fallback
  Cap,       \* bound: ages stop counting here
  None       \* "no decision yet"

Tiers == DOMAIN Stack

Batches == [age : 0..Cap, claims : SUBSET (Agents \X Tasks)]

(* A stack with a mission tier, which comes first in the canonical order;  *)
(* loading one enforces that a plan that may expire has a horizon.         *)
ASSUME StackAssumption ==
  /\ Agents \subseteq Int /\ IsFiniteSet(Agents) /\ Plans \subseteq SUBSET (Agents \X Tasks)
  /\ Cap \in Nat /\ None \notin Batches
  /\ Stack \in Seq([role : STRING, horizon : 0..Cap - 1, triggers : Seq(STRING),
                     every : 0..Cap - 1, fallback : BOOLEAN])
  /\ Len(Stack) > 0
  /\ \A i \in Tiers :
       /\ (Stack[i].role = "mission") <=> i = 1
       /\ \A k \in DOMAIN Stack[i].triggers :
            Stack[i].triggers[k] = "plan_expired" => Stack[i].horizon > 0

VARIABLES
  tier,       \* per tier: cached batch, ticks since its stamp, whether it fell back
  at,         \* the tier whose turn it is; 0 between ticks, past the last at egress
  upstream,   \* the claims of the batch handed down
  dark,       \* no observed agent has earth contact
  wasDark,    \* _was_denied: dark at the last tick
  emitted,    \* the claims of the batch that left the strategy
  reused,     \* history: the mission's last replan only stamped its old cache
  missed,     \* history: the mission's policies raised when comms came back
  sinceSwitch,\* history: ticks since comms last changed
  epoch       \* history: ticks in this episode

vars == <<tier, at, upstream, dark, wasDark, emitted, reused, missed, sinceSwitch, epoch>>

Fresh == [i \in Tiers |-> [batch |-> None, since |-> 0, fell |-> FALSE]]

Older(n) == IF n < Cap THEN n + 1 ELSE Cap

(* A tick goes by: what is cached is one tick older. *)
Aged(t) ==
  [batch |-> IF t.batch = None THEN None ELSE [t.batch EXCEPT !.age = Older(@)],
   since |-> Older(t.since),
   fell |-> t.fell]

Init ==
  /\ tier = Fresh
  /\ at = 0
  /\ upstream = {}
  /\ dark = FALSE /\ wasDark = FALSE
  /\ emitted = {}
  /\ reused = FALSE /\ missed = FALSE
  /\ sinceSwitch = 0 /\ epoch = 0

(* _comms_denied: there are agents and none of them reaches Earth.         *)
Denied(contact) == Agents # {} /\ contact = {}

-----------------------------------------------------------------------------
(* StackPolicy.decide: a tick that rewinds begins an episode and rebuilds  *)
(* the strategy.                                                           *)

(* Faulty variant: the trace is cleared and the strategy kept. *)
RebuiltTraceOnly(rewound) == [i \in Tiers |-> Aged(tier[i])]

Rebuilt(rewound) == IF rewound THEN Fresh ELSE [i \in Tiers |-> Aged(tier[i])]

StartTick ==
  /\ at = 0
  /\ \E rewound \in BOOLEAN, contact \in SUBSET Agents :
       LET before == ~rewound /\ wasDark
           now == Denied(contact)
       IN  /\ tier' = Rebuilt(rewound)
           /\ dark' = now
           /\ wasDark' = before
           /\ sinceSwitch' = IF rewound \/ now # before THEN 0 ELSE Older(sinceSwitch)
           /\ epoch' = IF rewound THEN 0 ELSE Older(epoch)
           /\ reused' = (~rewound /\ reused)
           /\ missed' = (~rewound /\ missed)
  /\ at' = 1
  /\ upstream' = {}
  /\ UNCHANGED emitted

recovered == wasDark /\ ~dark
justLost == dark /\ ~wasDark

-----------------------------------------------------------------------------
(* When a tier decides again.                                              *)

Fires(i, trigger) ==
  \/ trigger = "plan_expired" /\ tier[i].since >= Stack[i].horizon
  \/ trigger = "periodic" /\ tier[i].since >= Stack[i].every
  \/ trigger = "on_fallback" /\ tier[i].fell

Triggers(i) == {Stack[i].triggers[k] : k \in DOMAIN Stack[i].triggers}

(* The first trigger that fires, in the order the stack lists them. *)
Due(i) ==
  IF Stack[i].horizon = 0 /\ Stack[i].triggers = <<>> THEN "reactive"
  ELSE LET firing == {k \in DOMAIN Stack[i].triggers : Fires(i, Stack[i].triggers[k])}
       IN  IF firing = {} THEN "none"
           ELSE Stack[i].triggers[CHOOSE k \in firing : \A l \in firing : k <= l]

(* Faulty variant: coming back is left to the horizon. *)
DecideTierLazy(i) ==
  IF tier[i].batch = None THEN "initial"
  ELSE IF justLost /\ "comms_lost" \in Triggers(i) THEN "comms_lost"
  ELSE IF Due(i) = "plan_expired" /\ dark /\ Stack[i].role = "mission" THEN "none"
  ELSE Due(i)

(* Faulty variant: an expired mission plan is held, dark or not. *)
DecideTierHolding(i) ==
  IF tier[i].batch = None THEN "initial"
  ELSE IF Stack[i].role = "mission" /\ recovered THEN "comms_recovered"
  ELSE IF justLost /\ "comms_lost" \in Triggers(i) THEN "comms_lost"
  ELSE IF Due(i) = "plan_expired" /\ Stack[i].role = "mission" THEN "none"
  ELSE Due(i)

DecideTier(i) ==
  IF tier[i].batch = None THEN "initial"
  ELSE IF Stack[i].role = "mission" /\ recovered THEN "comms_recovered"
  ELSE IF justLost /\ "comms_lost" \in Triggers(i) THEN "comms_lost"
  ELSE IF Due(i) = "plan_expired" /\ dark /\ Stack[i].role = "mission" THEN "none"
  ELSE Due(i)

(* What a policy of tier i makes of its upstream. *)
Decisions(i) ==
  [age : {0}, claims : IF Stack[i].role = "mission" THEN Plans ELSE {upstream}]

(* Faulty variant: the empty batch of a tier that failed is not cached. *)
ReplanUncached(i) ==
  /\ at = i
  /\ DecideTier(i) # "none"
  /\ IF tier[i].batch = None
     THEN upstream' = {} /\ UNCHANGED tier
     ELSE /\ tier' = [tier EXCEPT ![i].since = 0, ![i].fell = TRUE]
          /\ upstream' = tier[i].batch.claims
  /\ at' = i + 1
  /\ UNCHANGED <<dark, wasDark, emitted, reused, missed, sinceSwitch, epoch>>

(* _invoke: the policy; its fallback; the last cached decision; nothing.   *)
Replan(i) ==
  /\ at = i
  /\ DecideTier(i) # "none"
  /\ \/ \E batch \in Decisions(i), fell \in {FALSE, Stack[i].fallback} :
          /\ tier' = [tier EXCEPT ![i] = [batch |-> batch, since |-> 0, fell |-> fell]]
          /\ upstream' = batch.claims
          /\ reused' = (i # 1 /\ reused)
          /\ missed' = (i # 1 /\ missed)
     \/ LET kept == IF tier[i].batch = None THEN [age |-> 0, claims |-> {}] ELSE tier[i].batch
        IN  /\ tier' = [tier EXCEPT ![i] = [batch |-> kept, since |-> 0, fell |-> TRUE]]
            /\ upstream' = kept.claims
            /\ reused' = (reused \/ i = 1)
            /\ missed' = (missed \/ (i = 1 /\ recovered))
  /\ at' = i + 1
  /\ UNCHANGED <<dark, wasDark, emitted, sinceSwitch, epoch>>

Hold(i) ==
  /\ at = i
  /\ DecideTier(i) = "none"
  /\ upstream' = tier[i].batch.claims
  /\ at' = i + 1
  /\ UNCHANGED <<tier, dark, wasDark, emitted, reused, missed, sinceSwitch, epoch>>

-----------------------------------------------------------------------------
(* GossipCoordinator.resolve: of the claimants of a task the lowest id     *)
(* keeps it and the others yield.                                          *)

(* Faulty variant: every claimant but the highest id keeps its claim. *)
YieldedHighest(claims) ==
  {c[1] : c \in {c \in claims : \A d \in claims : d[2] = c[2] => d[1] <= c[1]}}

Yielded(claims) ==
  {c[1] : c \in {c \in claims : \E d \in claims : d[2] = c[2] /\ d[1] < c[1]}}

(* _coordinate: the mission's cached claims decide who holds this tick. *)
Coordinated ==
  {c \in upstream : c[1] \notin Yielded(tier[1].batch.claims)}

Emit ==
  /\ at = Len(Stack) + 1
  /\ emitted' = IF dark THEN Coordinated ELSE upstream
  /\ wasDark' = dark
  /\ at' = 0
  /\ UNCHANGED <<tier, upstream, dark, reused, missed, sinceSwitch, epoch>>

Next == StartTick \/ (\E i \in Tiers : Replan(i) \/ Hold(i)) \/ Emit

Spec == Init /\ [][Next]_vars

-----------------------------------------------------------------------------
(* Types: every cached decision, age and claim is one the executive makes, *)
(* and a tier whose turn is over has decided (the assertion of decide).    *)
TypeOK ==
  /\ tier \in [Tiers -> [batch : Batches \cup {None}, since : 0..Cap, fell : BOOLEAN]]
  /\ at \in 0..Len(Stack) + 1
  /\ \A i \in Tiers : i < at => tier[i].batch # None
  /\ {upstream, emitted} \subseteq SUBSET (Agents \X Tasks)
  /\ {dark, wasDark, reused, missed} \subseteq BOOLEAN
  /\ {sinceSwitch, epoch} \subseteq 0..Cap

Acting == at = 0 /\ tier[1].batch # None
Expires == "plan_expired" \in Triggers(1)

(* With comms up the swarm never acts on a mission plan past its horizon,  *)
(* whatever blackouts came before, unless the mission's policies raised    *)
(* the last time they were asked.                                          *)
FreshWhenLit == Acting /\ Expires /\ ~dark /\ ~reused => tier[1].batch.age < Stack[1].horizon

(* The plan in force is of the current comms regime.  After a blackout the *)
(* swarm acts on one made when comms came back or later, unless the         *)
(* mission's policies raised at that very tick; through a blackout on the   *)
(* one it went dark with, when only expiry and the loss are triggers.       *)
PlanOfRegime ==
  /\ Acting /\ ~dark /\ ~missed /\ sinceSwitch < epoch => tier[1].batch.age <= sinceSwitch
  /\ Acting /\ dark /\ Triggers(1) # {} /\ Triggers(1) \subseteq {"plan_expired", "comms_lost"}
       => tier[1].batch.age >= sinceSwitch

(* In the dark no two agents work one task, and when no agent claims two   *)
(* tasks no claimed task is left without a worker, as long as what is      *)
(* emitted was computed from the plan the claims are read from.            *)
OneWorker ==
  LET claims == tier[1].batch.claims
  IN  Acting /\ dark /\ upstream = claims =>
        /\ \A c, d \in emitted : c[2] = d[2] => c = d
        /\ (\A c, d \in claims : c[1] = d[1] => c = d)
             => \A c \in claims : \E d \in emitted : c[2] = d[2]

(* Nothing decided in an earlier episode is acted on in this one. *)
NoCarryOver == \A i \in Tiers : at = 0 /\ tier[i].batch # None => tier[i].batch.age <= epoch
=============================================================================
